----------------------------- MODULE WireProofs -----------------------------
(***************************************************************************)
(* Proofs about what travels between a client and the server:              *)
(* PacketStream, for packets of any kind and length, bytes of any number   *)
(* of values and recvs of any size; EntryCodec, for digits and integers of *)
(* any width; and an entry that goes through both.                         *)
(***************************************************************************)
EXTENDS PacketStream, EntryCodec, DataFacts

Packet == [command : Byte, data : Seq(Byte)]

-----------------------------------------------------------------------------
\* Numbers of two digits.

LEMMA Digits ==
    ASSUME NEW B \in Nat \ {0}, NEW n \in Nat
    PROVE  n = B * (n \div B) + (n % B) /\ n % B \in 0..B - 1 /\ n \div B \in Nat
OBVIOUS

LEMMA DigitsOf ==
    ASSUME NEW B \in Nat \ {0}, NEW q \in Nat, NEW r \in 0..B - 1
    PROVE  (r + B * q) % B = r /\ (r + B * q) \div B = q
OBVIOUS

LEMMA SmallMod ==
    ASSUME NEW B \in Nat \ {0}, NEW q \in 0..B - 1
    PROVE  q % B = q
OBVIOUS

LEMMA SecondDigit ==
    ASSUME NEW B \in Nat \ {0}, NEW q \in Nat, NEW r \in 0..B - 1, B * q + r < B * B
    PROVE  q < B
OBVIOUS

\* Two sequences of bytes one behind the other.
LEMMA ConcatLength ==
    ASSUME NEW s \in Seq(Byte), NEW t \in Seq(Byte)
    PROVE  s \o t \in Seq(Byte) /\ Len(s \o t) = Len(s) + Len(t)
BY ConcatProperties

LEMMA ConcatFront ==
    ASSUME NEW s \in Seq(Byte), NEW t \in Seq(Byte), NEW i \in 1..Len(s)
    PROVE  i \in 1..Len(s \o t) /\ (s \o t)[i] = s[i]
<1>1. Len(s) \in Nat /\ Len(t) \in Nat
  BY LenProperties
<1>2. i \in 1..Len(s) + Len(t) /\ i <= Len(s)
  BY <1>1
<1> QED BY <1>2, ConcatProperties

LEMMA ConcatBack ==
    ASSUME NEW s \in Seq(Byte), NEW t \in Seq(Byte), NEW i \in 1..Len(t)
    PROVE  (s \o t)[i + Len(s)] = t[i]
<1>1. Len(s) \in Nat /\ Len(t) \in Nat
  BY LenProperties
<1>2. /\ i + Len(s) \in 1..Len(s) + Len(t)
      /\ ~ (i + Len(s) <= Len(s)) /\ (i + Len(s)) - Len(s) = i
  BY <1>1
<1> QED BY <1>2, ConcatProperties

LEMMA ByteConcat ==
    \A s, t, u \in Seq(Byte) : (s \o t) \o u = s \o (t \o u)
BY ConcatAssociative

\* A length below Base * Base is what its two digits say.
LEMMA LengthOfDigits ==
    ASSUME NEW n \in Nat, n < Base * Base
    PROVE  (n % Base) + Base * ((n \div Base) % Base) = n
<1> DEFINE q == n \div Base
           r == n % Base
<1>1. Base \in Nat \ {0} /\ n = Base * q + r /\ r \in 0..Base - 1 /\ q \in Nat
  BY BaseAssumption, Digits
<1> HIDE DEF q, r
<1>2. Base * q + r < Base * Base
  BY <1>1
<1>3. q \in 0..Base - 1
  BY <1>1, <1>2, SecondDigit
<1>4. q % Base = q
  BY <1>1, <1>3, SmallMod
<1>5. r + Base * q = n
  <2>1. Base * q \in Int
    BY <1>1
  <2> HIDE BaseAssumption
  <2> QED BY <1>1, <2>1
<1> QED BY <1>4, <1>5 DEF q, r

-----------------------------------------------------------------------------
\* Headers and packets.

LEMMA ByteFacts ==
    /\ Byte \subseteq Nat
    /\ 0 \in Byte
    /\ \A n \in Nat : n % Base \in Byte /\ n \div Base \in Nat
<1>1. Base \in Nat \ {0}
  BY BaseAssumption
<1>2. \A n \in Nat : n % Base \in Byte /\ n \div Base \in Nat
  BY <1>1, Digits DEF Byte
<1> QED BY <1>1, <1>2 DEF Byte

LEMMA PacketFacts ==
    ASSUME NEW p \in Packet
    PROVE  /\ p.command \in Byte
           /\ p.data \in Seq(Byte)
           /\ Len(p.data) \in Nat
BY LenProperties DEF Packet

\* A packet in bytes: three of the header, then its data.
LEMMA EncodeFacts ==
    ASSUME NEW p \in Packet
    PROVE  /\ Encode(p) \in Seq(Byte)
           /\ Len(Encode(p)) = 3 + Len(p.data)
           /\ Encode(p)[1] = Len(p.data) % Base
           /\ Encode(p)[2] = (Len(p.data) \div Base) % Base
           /\ Encode(p)[3] = p.command
           /\ \A k \in 1..Len(p.data) : Encode(p)[k + 3] = p.data[k]
<1> DEFINE a == Len(p.data) % Base
           b == (Len(p.data) \div Base) % Base
           h == <<a, b, p.command>>
           n == Len(p.data)
<1>1. a \in Byte /\ b \in Byte /\ p.command \in Byte /\ p.data \in Seq(Byte) /\ n \in Nat
  BY PacketFacts, ByteFacts
<1> HIDE DEF a, b
<1>2. h \in Seq(Byte) /\ Len(h) = 3 /\ h[1] = a /\ h[2] = b /\ h[3] = p.command
  BY <1>1
<1> DEFINE c == p.data
<1>3. Encode(p) = h \o c /\ c \in Seq(Byte)
  BY <1>1 DEF Encode, a, b
<1> HIDE DEF h, n, c
<1>4. Len(c) = n /\ c = p.data
  BY DEF n, c
<1>5. Encode(p) \in Seq(Byte) /\ Len(Encode(p)) = 3 + n
  BY <1>2, <1>3, <1>4, ConcatLength
<1>6. Encode(p)[1] = a /\ Encode(p)[2] = b /\ Encode(p)[3] = p.command
  <2>1. ASSUME NEW k \in 1..3 PROVE Encode(p)[k] = h[k]
    <3>1. k \in 1..Len(h)
      BY <1>2
    <3>2. (h \o c)[k] = h[k]
      BY <1>2, <1>3, <3>1, ConcatFront
    <3> QED BY <1>3, <3>2
  <2> QED BY <1>2, <2>1
<1>7. ASSUME NEW k \in 1..n PROVE Encode(p)[k + 3] = c[k]
  <2>1. k \in 1..Len(c) /\ 3 = Len(h)
    BY <1>2, <1>4
  <2>2. (h \o c)[k + Len(h)] = c[k]
    BY <1>2, <1>3, <2>1, ConcatBack
  <2> QED BY <1>3, <2>1, <2>2
<1> QED BY <1>4, <1>5, <1>6, <1>7 DEF a, b

\* What parse_next_packet reads in a header.
LEMMA HeaderFacts ==
    ASSUME NEW b \in Seq(Byte), HasPacket(b)
    PROVE  /\ Len(b) \in Nat
           /\ b[1] \in Byte /\ b[2] \in Byte /\ b[3] \in Byte
           /\ DataLength(b) \in Nat
           /\ Len(b) >= 3 + DataLength(b)
           /\ DataLength(b) % Base = b[1]
           /\ (DataLength(b) \div Base) % Base = b[2]
<1>1. Len(b) \in Nat /\ Len(b) >= 3 /\ Len(b) >= 3 + DataLength(b)
  BY LenProperties DEF HasPacket, HeaderSize
<1>2. b[1] \in Byte /\ b[2] \in Byte /\ b[3] \in Byte
  <2>1. 1 \in 1..Len(b) /\ 2 \in 1..Len(b) /\ 3 \in 1..Len(b)
    BY <1>1
  <2> QED BY <2>1, ElementOfSeq
<1>3. Base \in Nat \ {0} /\ b[1] \in 0..Base - 1 /\ b[2] \in 0..Base - 1 /\ b[2] \in Nat
  BY <1>2, BaseAssumption DEF Byte
<1> DEFINE r == b[1]
           q == b[2]
           d == r + Base * q
<1>4. d = DataLength(b)
  BY DEF DataLength
<1>5. r \in 0..Base - 1 /\ q \in 0..Base - 1 /\ q \in Nat
  BY <1>3
<1> HIDE DEF r, q
<1>6. d % Base = r /\ d \div Base = q
  BY <1>3, <1>5, DigitsOf
<1>7. q % Base = q
  BY <1>3, <1>5, SmallMod
<1>8. d \in Nat
  BY <1>3, <1>5
<1> HIDE DEF d
<1> QED BY <1>1, <1>2, <1>4, <1>6, <1>7, <1>8 DEF r, q

\* What parse_next_packet cuts off is a packet, in bytes the front of the buffer, and
\* move_packet_data_to_start keeps the rest.
LEMMA CutFacts ==
    ASSUME NEW b \in Seq(Byte), HasPacket(b)
    PROVE  /\ FirstPacket(b) \in Packet
           /\ Len(FirstPacket(b).data) = DataLength(b)
           /\ \A k \in 1..DataLength(b) : FirstPacket(b).data[k] = b[k + 3]
           /\ Rest(b) \in Seq(Byte)
           /\ Len(Rest(b)) = Len(b) - (3 + DataLength(b))
           /\ \A k \in 1..Len(Rest(b)) : Rest(b)[k] = b[k + (3 + DataLength(b))]
<1> DEFINE d == DataLength(b)
           N == Len(b)
           data == SubSeq(b, 4, 3 + d)
           rest == SubSeq(b, 3 + d + 1, N)
<1>1. N \in Nat /\ d \in Nat /\ N >= 3 + d /\ b[3] \in Byte
  BY HeaderFacts
<1>2. \A i \in 1..N : b[i] \in Byte
  BY ElementOfSeq
<1>3. FirstPacket(b) = [command |-> b[3], data |-> data] /\ Rest(b) = rest
  BY DEF FirstPacket, Rest, HeaderSize
<1> HIDE DEF d, N
<1>4. data \in Seq(Byte) /\ Len(data) = d /\ \A k \in 1..d : data[k] = b[k + 3]
  <2>1. \A i \in 4..3 + d : b[i] \in Byte
    BY <1>1, <1>2
  <2>2. 4 \in Int /\ 3 + d \in Int
    BY <1>1
  <2>3. /\ data \in Seq(Byte)
        /\ Len(data) = IF 4 <= 3 + d THEN (3 + d) - 4 + 1 ELSE 0
        /\ \A k \in 1..(3 + d) - 4 + 1 : data[k] = b[4 + k - 1]
    BY <2>1, <2>2, SubSeqProperties
  <2>4. (3 + d) - 4 + 1 = d /\ (~ (4 <= 3 + d) => d = 0)
    BY <1>1
  <2>5. \A k \in 1..d : 4 + k - 1 = k + 3
    BY <1>1
  <2> HIDE DEF data
  <2> QED BY <2>3, <2>4, <2>5
<1>5. /\ rest \in Seq(Byte) /\ Len(rest) = N - (3 + d)
      /\ \A k \in 1..N - (3 + d) : rest[k] = b[k + (3 + d)]
  <2>1. \A i \in 3 + d + 1..N : b[i] \in Byte
    BY <1>1, <1>2
  <2>2. 3 + d + 1 \in Int /\ N \in Int
    BY <1>1
  <2>3. /\ rest \in Seq(Byte)
        /\ Len(rest) = IF 3 + d + 1 <= N THEN N - (3 + d + 1) + 1 ELSE 0
        /\ \A k \in 1..N - (3 + d + 1) + 1 : rest[k] = b[3 + d + 1 + k - 1]
    BY <2>1, <2>2, SubSeqProperties
  <2>4. N - (3 + d + 1) + 1 = N - (3 + d) /\ (~ (3 + d + 1 <= N) => N - (3 + d) = 0)
    BY <1>1
  <2>5. \A k \in 1..N - (3 + d) : 3 + d + 1 + k - 1 = k + (3 + d)
    BY <1>1
  <2> HIDE DEF rest
  <2> QED BY <2>3, <2>4, <2>5
<1> HIDE DEF data, rest
<1>6. FirstPacket(b) \in Packet /\ FirstPacket(b).data = data
  BY <1>1, <1>3, <1>4 DEF Packet
<1> QED BY <1>3, <1>4, <1>5, <1>6 DEF d, N

\* A turn of the loop loses and invents no byte, and takes at least a header.
LEMMA CutIsWhole ==
    ASSUME NEW b \in Seq(Byte), HasPacket(b)
    PROVE  /\ Encode(FirstPacket(b)) \o Rest(b) = b
           /\ Len(Rest(b)) + 3 <= Len(b)
<1> DEFINE p == FirstPacket(b)
           d == DataLength(b)
           e == Encode(p)
           r == Rest(b)
           N == Len(b)
<1>1. /\ N \in Nat /\ d \in Nat /\ N >= 3 + d
      /\ d % Base = b[1] /\ (d \div Base) % Base = b[2]
  BY HeaderFacts
<1>2. /\ p \in Packet /\ Len(p.data) = d /\ r \in Seq(Byte) /\ Len(r) = N - (3 + d)
      /\ p.command = b[3]
  BY CutFacts DEF FirstPacket
<1>3. \A k \in 1..d : p.data[k] = b[k + 3]
  BY CutFacts
<1>4. \A k \in 1..N - (3 + d) : r[k] = b[k + (3 + d)]
  BY CutFacts
<1> HIDE DEF p, d, r, N
<1>5. /\ e \in Seq(Byte) /\ Len(e) = 3 + d
      /\ e[1] = b[1] /\ e[2] = b[2] /\ e[3] = b[3]
      /\ \A k \in 1..d : e[k + 3] = p.data[k]
  BY <1>1, <1>2, EncodeFacts
<1> HIDE DEF e
<1>6. e \o r \in Seq(Byte) /\ Len(e \o r) = N
  <2>1. Len(e) + Len(r) = N
    BY <1>1, <1>2, <1>5
  <2> QED BY <1>2, <1>5, <2>1, ConcatLength
<1>7. ASSUME NEW i \in 1..N PROVE (e \o r)[i] = b[i]
  <2>1. CASE i > 3 + d
    <3> DEFINE n == 3 + d
               j == i - n
    <3>1. j \in 1..N - n /\ j + n = i
      BY <1>1, <2>1
    <3>2. r[j] = b[i]
      <4> HIDE DEF j
      <4> QED BY <1>4, <3>1
    <3>3. n = Len(e) /\ j \in 1..Len(r)
      BY <1>2, <1>5, <3>1
    <3> HIDE DEF j, n
    <3>4. (e \o r)[j + Len(e)] = r[j]
      BY <1>2, <1>5, <3>3, ConcatBack
    <3> QED BY <3>1, <3>2, <3>3, <3>4
  <2>2. CASE ~ (i > 3 + d)
    <3>1. (e \o r)[i] = e[i]
      <4>1. i \in 1..Len(e)
        BY <1>1, <1>5, <2>2
      <4> QED BY <1>2, <1>5, <4>1, ConcatFront
    <3>2. e[i] = b[i]
      <4>1. CASE i > 3
        <5>1. i - 3 \in 1..d /\ (i - 3) + 3 = i
          BY <1>1, <2>2, <4>1
        <5>2. p.data[i - 3] = b[(i - 3) + 3] /\ e[(i - 3) + 3] = p.data[i - 3]
          BY <1>3, <1>5, <5>1
        <5> QED BY <5>1, <5>2
      <4>2. CASE i <= 3
        <5>1. i = 1 \/ i = 2 \/ i = 3
          BY <4>2
        <5> QED BY <1>5, <5>1
      <4>3. i \in Nat
        BY <1>1
      <4> QED BY <4>1, <4>2, <4>3
    <3> QED BY <3>1, <3>2
  <2> QED BY <2>1, <2>2
<1>8. e \o r = b
  <2>1. Len(b) = N
    BY DEF N
  <2> QED BY <1>6, <1>7, <2>1, SeqEqual
<1>9. Len(r) + 3 <= N
  BY <1>1, <1>2
<1> QED BY <1>8, <1>9 DEF e, p, r, N

\* If the stream goes on with a packet whose length fits into its header, this is the
\* packet that parse_next_packet finds.
LEMMA FirstIsSent ==
    ASSUME NEW b \in Seq(Byte), HasPacket(b), NEW p \in Packet, Fits(p),
           NEW w \in Seq(Byte), NEW more \in Seq(Byte),
           b \o w = Encode(p) \o more
    PROVE  FirstPacket(b) = p
<1> DEFINE n == Len(p.data)
           d == DataLength(b)
           N == Len(b)
           e == Encode(p)
           s == b \o w
<1>1. N \in Nat /\ d \in Nat /\ N >= 3 + d
  BY HeaderFacts
<1>2. p.data \in Seq(Byte) /\ p.command \in Byte /\ n \in Nat /\ n < Base * Base
  BY PacketFacts DEF Fits
<1>3. /\ e \in Seq(Byte) /\ Len(e) = 3 + n
      /\ e[1] = n % Base /\ e[2] = (n \div Base) % Base /\ e[3] = p.command
      /\ \A k \in 1..n : e[k + 3] = p.data[k]
  BY EncodeFacts
<1> HIDE DEF e
<1>4. \A i \in 1..N : s[i] = b[i]
  BY ConcatFront
<1>5. \A i \in 1..3 + n : s[i] = e[i]
  <2>1. s = e \o more
    BY DEF e
  <2> HIDE DEF s
  <2>2. \A i \in 1..Len(e) : (e \o more)[i] = e[i]
    BY <1>3, ConcatFront
  <2> QED BY <1>3, <2>1, <2>2
<1> HIDE DEF s, N
<1>6. \A i \in 1..3 : b[i] = e[i]
  <2> SUFFICES ASSUME NEW i \in 1..3 PROVE b[i] = e[i]
    OBVIOUS
  <2>1. i \in 1..N /\ i \in 1..3 + n
    BY <1>1, <1>2
  <2> QED BY <1>4, <1>5, <2>1
<1>7. d = n
  <2>1. b[1] = n % Base /\ b[2] = (n \div Base) % Base
    BY <1>3, <1>6
  <2>2. (n % Base) + Base * ((n \div Base) % Base) = n
    BY <1>2, LengthOfDigits
  <2>3. d = (n % Base) + Base * ((n \div Base) % Base)
    BY <2>1 DEF DataLength
  <2> QED BY <2>2, <2>3
<1>8. b[3] = p.command
  BY <1>3, <1>6
<1>9. ASSUME NEW k \in 1..n PROVE FirstPacket(b).data[k] = p.data[k]
  <2>1. k + 3 \in 1..N /\ k + 3 \in 1..3 + n /\ k \in 1..d
    BY <1>1, <1>2, <1>7
  <2>2. FirstPacket(b).data[k] = b[k + 3]
    BY <2>1, CutFacts
  <2>3. b[k + 3] = e[k + 3]
    BY <1>4, <1>5, <2>1
  <2> QED BY <1>3, <2>2, <2>3
<1> DEFINE f == FirstPacket(b)
<1>10. f \in Packet /\ Len(f.data) = d /\ f.command = b[3]
  BY CutFacts DEF FirstPacket
<1> HIDE DEF f
<1>11. f.data = p.data
  <2>1. f.data \in Seq(Byte) /\ Len(f.data) = n /\ Len(p.data) = n /\ \A k \in 1..n : f.data[k] = p.data[k]
    BY <1>7, <1>9, <1>10, PacketFacts DEF f
  <2> HIDE DEF n
  <2> QED BY <1>2, <2>1, SeqEqual
<1> QED BY <1>8, <1>10, <1>11 DEF Packet, f

-----------------------------------------------------------------------------
\* The bytes of several packets.

\* g gives the bytes of the first i packets of s.
Collects(g, s) ==
    /\ g[0] = << >>
    /\ \A i \in 1..Len(s) : g[i] = g[i - 1] \o Encode(s[i])
    /\ \A i \in 0..Len(s) : g[i] \in Seq(Byte)
    /\ Bytes(s) = g[Len(s)]

LEMMA BytesSteps ==
    ASSUME NEW s \in Seq(Packet)
    PROVE  \E g : Collects(g, s)
<1> DEFINE X == Seq(Byte)
           n == Len(s)
           Val(it, S) == IF S = {} THEN << >> ELSE it[S \ {Max(S)}] \o Encode(s[Max(S)])
           Eq(it) == it = [S \in SUBSET (1..n) |-> Val(it, S)]
           F == CHOOSE it : Eq(it)
           step == [i \in Nat |-> [acc \in X |-> IF i \in 1..n THEN acc \o Encode(s[i]) ELSE acc]]
<1>1. n \in Nat /\ DOMAIN s = 1..n /\ \A i \in 1..n : s[i] \in Packet
  BY LenProperties, ElementOfSeq
<1>2. Bytes(s) = F[1..n]
  BY <1>1 DEF Bytes, FoldLeft, MapThenFoldSet
<1>3. \A i \in 1..n, acc \in X : acc \o Encode(s[i]) \in X
  <2> SUFFICES ASSUME NEW i \in 1..n, NEW acc \in X PROVE acc \o Encode(s[i]) \in X
    OBVIOUS
  <2>1. Encode(s[i]) \in Seq(Byte)
    <3> HIDE DEF n
    <3>1. s[i] \in Packet
      BY <1>1
    <3> QED BY <3>1, EncodeFacts
  <2> QED BY <2>1, ConcatLength
<1>4. step \in [Nat -> [X -> X]] /\ << >> \in X
  <2> HIDE DEF n
  <2>1. \A i \in Nat, acc \in X : (IF i \in 1..n THEN acc \o Encode(s[i]) ELSE acc) \in X
    BY <1>3
  <2>2. << >> \in X
    OBVIOUS
  <2> HIDE DEF X
  <2> QED BY <2>1, <2>2
<1>5. \A i \in 1..n, acc \in X : step[i][acc] = acc \o Encode(s[i])
  <2> HIDE DEF n, X
  <2> QED BY <1>1
<1> HIDE DEF step, n, X
<1>6. PICK it \in [SUBSET (1..n) -> X] : IsFold(it, << >>, step, n)
  BY <1>1, <1>4, FoldExists
<1>7. ASSUME NEW S \in SUBSET (1..n), S # {}
      PROVE  it[S] = it[S \ {Max(S)}] \o Encode(s[Max(S)])
  <2>1. Max(S) \in 1..n /\ S \ {Max(S)} \in SUBSET (1..n)
    BY <1>1, <1>7, MaxInside
  <2>2. it[S] = step[Max(S)][it[S \ {Max(S)}]] /\ it[S \ {Max(S)}] \in X
    BY <1>6, <1>7, <2>1 DEF IsFold
  <2> QED BY <1>5, <2>1, <2>2
<1>8. Eq(it)
  <2>1. \A S \in SUBSET (1..n) : it[S] = Val(it, S)
    BY <1>6, <1>7 DEF IsFold
  <2> HIDE DEF Val
  <2> QED BY <1>6, <2>1
<1>9. Eq(F)
  <2> HIDE DEF Eq
  <2> QED BY <1>8
<1>10. F[{}] = << >> /\ \A i \in 1..n : F[1..i] = F[1..i - 1] \o Encode(s[i])
  <2> HIDE DEF F
  <2>1. F[{}] = << >>
    BY <1>9
  <2>2. ASSUME NEW i \in 1..n PROVE F[1..i] = F[1..i - 1] \o Encode(s[i])
    <3>1. 1..i \in SUBSET (1..n) /\ i \in Nat /\ i > 0
      BY <1>1
    <3>2. Max(1..i) = i /\ 1..i # {} /\ (1..i) \ {i} = 1..i - 1
      BY <3>1, TopOfInterval
    <3> QED BY <3>1, <3>2, <1>9
  <2> QED BY <2>1, <2>2
<1> DEFINE g == [i \in 0..n |-> F[1..i]]
<1> HIDE DEF F
<1>11. g[0] = << >> /\ g[n] = F[1..n] /\ \A i \in 1..n : g[i] = g[i - 1] \o Encode(s[i])
  BY <1>1, <1>10
<1> HIDE DEF g
<1>12. \A i \in 0..n : g[i] \in X
  <2> DEFINE P == {i \in Nat : i <= n => g[i] \in X}
  <2>1. 0 \in P
    BY <1>4, <1>11
  <2>2. ASSUME NEW i \in Nat, i \in P PROVE i + 1 \in P
    <3>1. CASE i + 1 <= n
      <4>1. i + 1 \in 1..n /\ (i + 1) - 1 = i /\ g[i] \in X
        BY <1>1, <2>2, <3>1
      <4>2. g[i + 1] = g[i] \o Encode(s[i + 1])
        BY <1>11, <4>1
      <4>3. g[i] \o Encode(s[i + 1]) \in X
        BY <1>3, <4>1
      <4>4. g[i + 1] \in X
        BY <4>2, <4>3
      <4> QED BY <4>4
    <3> QED BY <3>1
  <2> HIDE DEF P
  <2>3. \A i \in Nat : i \in P
    BY <2>1, <2>2, Induct
  <2> QED BY <1>1, <2>3 DEF P
<1> QED BY <1>2, <1>11, <1>12 DEF n, X, Collects

\* Packets in front of t collect as in s what they have in common.
LEMMA CollectSame ==
    ASSUME NEW s \in Seq(Packet), NEW t \in Seq(Packet), Len(s) <= Len(t),
           \A k \in 1..Len(s) : s[k] = t[k],
           NEW g, Collects(g, s), NEW h, Collects(h, t)
    PROVE  h[Len(s)] = Bytes(s)
<1> DEFINE P == {i \in Nat : i <= Len(s) => g[i] = h[i]}
<1>1. Len(s) \in Nat /\ Len(t) \in Nat
  BY LenProperties
<1>2. 0 \in P
  BY DEF Collects
<1>3. ASSUME NEW i \in Nat, i \in P PROVE i + 1 \in P
  <2>1. CASE i + 1 <= Len(s)
    <3>1. i + 1 \in 1..Len(s) /\ i + 1 \in 1..Len(t) /\ (i + 1) - 1 = i /\ g[i] = h[i]
      BY <1>1, <1>3, <2>1
    <3>2. g[i + 1] = g[i] \o Encode(s[i + 1]) /\ h[i + 1] = h[i] \o Encode(t[i + 1])
      BY <3>1 DEF Collects
    <3>3. s[i + 1] = t[i + 1]
      BY <3>1
    <3>4. g[i + 1] = h[i + 1]
      BY <3>1, <3>2, <3>3
    <3> QED BY <3>4
  <2> QED BY <2>1
<1> HIDE DEF P
<1>4. Len(s) \in P
  BY <1>1, <1>2, <1>3, Induct
<1> QED BY <1>1, <1>4 DEF P, Collects

LEMMA BytesType ==
    ASSUME NEW s \in Seq(Packet)
    PROVE  Bytes(s) \in Seq(Byte)
<1>1. PICK g : Collects(g, s)
  BY BytesSteps
<1>2. Len(s) \in 0..Len(s)
  BY LenProperties
<1> QED BY <1>1, <1>2 DEF Collects

LEMMA BytesOfNone == Bytes(<< >>) = << >>
<1>1. << >> \in Seq(Packet) /\ Len(<< >>) = 0
  OBVIOUS
<1>2. PICK g : Collects(g, << >>)
  BY <1>1, BytesSteps
<1> QED BY <1>1, <1>2 DEF Collects

LEMMA BytesAppend ==
    ASSUME NEW s \in Seq(Packet), NEW p \in Packet
    PROVE  Bytes(Append(s, p)) = Bytes(s) \o Encode(p)
<1> DEFINE t == Append(s, p)
           n == Len(s)
<1>1. /\ t \in Seq(Packet) /\ Len(t) = n + 1 /\ t[n + 1] = p /\ n \in Nat
      /\ \A k \in 1..n : t[k] = s[k]
  BY AppendProperties, LenProperties
<1> HIDE DEF t
<1>2. PICK g : Collects(g, s)
  BY BytesSteps
<1>3. PICK h : Collects(h, t)
  BY <1>1, BytesSteps
<1>4. h[n] = Bytes(s)
  BY <1>1, <1>2, <1>3, CollectSame
<1>5. n + 1 \in 1..Len(t) /\ (n + 1) - 1 = n
  BY <1>1
<1>6. Bytes(t) = h[n] \o Encode(p)
  BY <1>1, <1>3, <1>5 DEF Collects
<1> QED BY <1>4, <1>6 DEF t

\* The bytes of more packets go on with the first one more.
LEMMA BytesOfMore ==
    ASSUME NEW s \in Seq(Packet), NEW t \in Seq(Packet), Len(s) < Len(t),
           \A k \in 1..Len(s) : s[k] = t[k]
    PROVE  \E more \in Seq(Byte) : Bytes(t) = Bytes(s) \o (Encode(t[Len(s) + 1]) \o more)
<1> DEFINE n == Len(s)
           N == Len(t)
           e == Encode(t[n + 1])
<1>1. n \in Nat /\ N \in Nat /\ n + 1 \in 1..N
  BY LenProperties
<1>2. PICK g : Collects(g, s)
  BY BytesSteps
<1>3. PICK h : Collects(h, t)
  BY BytesSteps
<1>4. h[n] = Bytes(s)
  BY <1>1, <1>2, <1>3, CollectSame
<1>5. \A i \in 1..N : t[i] \in Packet /\ Encode(t[i]) \in Seq(Byte)
  <2> SUFFICES ASSUME NEW i \in 1..N PROVE t[i] \in Packet /\ Encode(t[i]) \in Seq(Byte)
    OBVIOUS
  <2>1. t[i] \in Packet
    BY ElementOfSeq
  <2> QED BY <2>1, EncodeFacts
<1>6. e \in Seq(Byte) /\ Bytes(s) \in Seq(Byte)
  BY <1>1, <1>5, BytesType
<1>7. /\ \A i \in 1..N : h[i] = h[i - 1] \o Encode(t[i])
      /\ Bytes(t) = h[N]
  BY <1>3 DEF Collects
<1>8. n < N /\ n = Len(s)
  OBVIOUS
<1> HIDE DEF n, N
<1> DEFINE Goes(b) == \E more \in Seq(Byte) : b = Bytes(s) \o (e \o more)
           P == {i \in Nat : n < i /\ i <= N => Goes(h[i])}
<1>9. 0 \in P
  BY <1>1
<1>10. ASSUME NEW i \in Nat, i \in P PROVE i + 1 \in P
  <2>1. SUFFICES ASSUME n < i + 1, i + 1 <= N PROVE Goes(h[i + 1])
    <3> HIDE DEF Goes
    <3> QED OBVIOUS
  <2>2. h[i + 1] = h[i] \o Encode(t[i + 1])
    <3>1. i + 1 \in 1..N /\ (i + 1) - 1 = i
      BY <1>1, <2>1
    <3> QED BY <1>7, <3>1
  <2>3. CASE i = n
    <3>1. h[i + 1] = Bytes(s) \o e
      BY <1>4, <2>2, <2>3
    <3>2. e \o << >> = e /\ << >> \in Seq(Byte)
      <4> HIDE DEF e
      <4> QED BY <1>6, ConcatEmptySeq
    <3> QED BY <3>1, <3>2
  <2>4. CASE i # n
    <3>1. n < i /\ i <= N /\ i + 1 \in 1..N
      BY <1>1, <2>1, <2>4
    <3> DEFINE f == Encode(t[i + 1])
    <3>2. PICK more \in Seq(Byte) : h[i] = Bytes(s) \o (e \o more)
      BY <1>10, <3>1
    <3>3. f \in Seq(Byte)
      BY <1>5, <3>1
    <3> HIDE DEF e, f
    <3> DEFINE u == Bytes(s)
    <3>4. more \o f \in Seq(Byte) /\ u \in Seq(Byte)
      BY <1>6, <3>3, ConcatLength
    <3>5. (u \o (e \o more)) \o f = u \o (e \o (more \o f))
      <4>1. u \in Seq(Byte) /\ e \in Seq(Byte) /\ more \in Seq(Byte) /\ f \in Seq(Byte)
        BY <1>6, <3>3, <3>4
      <4> HIDE DEF u, Goes, P
      <4>2. e \o more \in Seq(Byte)
        BY <4>1, ConcatLength
      <4>3. (u \o (e \o more)) \o f = u \o ((e \o more) \o f)
        BY <4>1, <4>2, ByteConcat, ZenonT(60)
      <4>4. (e \o more) \o f = e \o (more \o f)
        BY <4>1, ByteConcat, Zenon
      <4> QED BY <4>3, <4>4, Zenon
    <3>7. h[i + 1] = Bytes(s) \o (e \o (more \o f))
      BY <2>2, <3>2, <3>5 DEF f
    <3> QED BY <3>4, <3>7
  <2> QED BY <2>3, <2>4
<1> HIDE DEF P, Goes
<1>11. N \in P
  BY <1>1, <1>9, <1>10, Induct
<1>12. Goes(Bytes(t))
  BY <1>1, <1>7, <1>8, <1>11 DEF P
<1> QED BY <1>12 DEF Goes, n

-----------------------------------------------------------------------------
\* The loop over parse_next_packet.

ParseState == [found : Seq(Packet), left : Seq(Byte)]

LEMMA ParseNextType ==
    ASSUME NEW x \in ParseState
    PROVE  ParseNext(x) \in ParseState
<1>1. x.found \in Seq(Packet) /\ x.left \in Seq(Byte)
  BY DEF ParseState
<1>2. CASE HasPacket(x.left)
  <2>1. FirstPacket(x.left) \in Packet /\ Rest(x.left) \in Seq(Byte)
    BY <1>1, <1>2, CutFacts
  <2>2. Append(x.found, FirstPacket(x.left)) \in Seq(Packet)
    BY <1>1, <2>1, AppendProperties
  <2> QED BY <1>2, <2>1, <2>2 DEF ParseNext, ParseState
<1>3. CASE ~ HasPacket(x.left)
  BY <1>3 DEF ParseNext
<1> QED BY <1>2, <1>3

\* g gives the state of the loop after i turns.
Turns(g, found, b) ==
    /\ g[0] = [found |-> found, left |-> b]
    /\ \A i \in 1..Len(b) : g[i] = ParseNext(g[i - 1])
    /\ Parse(found, b) = g[Len(b)]

LEMMA ParseSteps ==
    ASSUME NEW found \in Seq(Packet), NEW b \in Seq(Byte)
    PROVE  \E g : Turns(g, found, b)
<1> DEFINE n == Len(b)
           base == [found |-> found, left |-> b]
           Val(it, S) == IF S = {} THEN base ELSE ParseNext(it[S \ {Max(S)}])
           Eq(it) == it = [S \in SUBSET (1..n) |-> Val(it, S)]
           F == CHOOSE it : Eq(it)
           step == [i \in Nat |-> [x \in ParseState |-> ParseNext(x)]]
<1>1. n \in Nat /\ DOMAIN b = 1..n
  BY LenProperties
<1>2. Parse(found, b) = F[1..n]
  BY <1>1 DEF Parse, FoldLeft, MapThenFoldSet
<1>3. step \in [Nat -> [ParseState -> ParseState]] /\ base \in ParseState
  <2>1. base \in ParseState
    BY DEF ParseState
  <2> HIDE DEF base
  <2> QED BY <2>1, ParseNextType
<1>4. \A i \in Nat, x \in ParseState : step[i][x] = ParseNext(x)
  OBVIOUS
<1> HIDE DEF step, n, base
<1>5. PICK it \in [SUBSET (1..n) -> ParseState] : IsFold(it, base, step, n)
  BY <1>1, <1>3, FoldExists
<1>6. ASSUME NEW S \in SUBSET (1..n), S # {}
      PROVE  it[S] = ParseNext(it[S \ {Max(S)}])
  <2>1. Max(S) \in 1..n /\ S \ {Max(S)} \in SUBSET (1..n)
    BY <1>1, <1>6, MaxInside
  <2>2. it[S] = step[Max(S)][it[S \ {Max(S)}]] /\ it[S \ {Max(S)}] \in ParseState
    BY <1>5, <1>6, <2>1 DEF IsFold
  <2>3. Max(S) \in Nat
    BY <1>1, <2>1
  <2> QED BY <1>4, <2>2, <2>3
<1>7. Eq(it)
  <2>1. \A S \in SUBSET (1..n) : it[S] = Val(it, S)
    BY <1>5, <1>6 DEF IsFold
  <2> HIDE DEF Val
  <2> QED BY <1>5, <2>1
<1>8. Eq(F)
  <2> HIDE DEF Eq
  <2> QED BY <1>7
<1>9. F[{}] = base /\ \A i \in 1..n : F[1..i] = ParseNext(F[1..i - 1])
  <2> HIDE DEF F
  <2>1. F[{}] = base
    BY <1>8
  <2>2. ASSUME NEW i \in 1..n PROVE F[1..i] = ParseNext(F[1..i - 1])
    <3>1. 1..i \in SUBSET (1..n) /\ i \in Nat /\ i > 0
      BY <1>1
    <3>2. Max(1..i) = i /\ 1..i # {} /\ (1..i) \ {i} = 1..i - 1
      BY <3>1, TopOfInterval
    <3> QED BY <3>1, <3>2, <1>8
  <2> QED BY <2>1, <2>2
<1> DEFINE g == [i \in 0..n |-> F[1..i]]
<1> HIDE DEF F
<1>10. g[0] = base /\ g[n] = F[1..n] /\ \A i \in 1..n : g[i] = ParseNext(g[i - 1])
  BY <1>1, <1>9
<1> HIDE DEF g
<1> QED BY <1>2, <1>10 DEF n, base, Turns

\* The packets found so far are those that were sent, up to the first that is too long
\* for its header.
AsSent(found, sent) ==
    \A k \in 1..Len(found) :
        \/ k \in 1..Len(sent) /\ found[k] = sent[k]
        \/ \E j \in 1..Len(sent) : j <= k /\ ~ Fits(sent[j])

\* Found packets, the bytes left and those that follow are the bytes that were sent.
Intact(x, w, sent) ==
    /\ Bytes(x.found) \o (x.left \o w) = Bytes(sent)
    /\ AsSent(x.found, sent)

\* If all packets up to the next one fit into their headers, then the next one found is
\* the next one sent.
LEMMA NextIsSent ==
    ASSUME NEW found \in Seq(Packet), NEW left \in Seq(Byte), NEW w \in Seq(Byte),
           NEW sent \in Seq(Packet), HasPacket(left),
           Bytes(found) \o (left \o w) = Bytes(sent), AsSent(found, sent),
           \A j \in 1..Len(sent) : j <= Len(found) + 1 => Fits(sent[j])
    PROVE  Len(found) + 1 \in 1..Len(sent) /\ FirstPacket(left) = sent[Len(found) + 1]
<1> DEFINE n == Len(found)
           N == Len(sent)
           u == Bytes(found)
           v == left \o w
<1>1. n \in Nat /\ N \in Nat
  BY LenProperties
<1>2. \A k \in 1..n : k \in 1..N /\ found[k] = sent[k]
  <2> SUFFICES ASSUME NEW k \in 1..n PROVE k \in 1..N /\ found[k] = sent[k]
    OBVIOUS
  <2>1. CASE \E j \in 1..N : j <= k /\ ~ Fits(sent[j])
    <3>1. PICK j \in 1..N : j <= k /\ ~ Fits(sent[j])
      BY <2>1
    <3>2. j <= n + 1
      BY <1>1, <3>1
    <3> QED BY <3>1, <3>2
  <2> QED BY <2>1 DEF AsSent
<1>3. n <= N
  <2>1. CASE n > 0
    <3>1. n \in 1..n
      BY <1>1, <2>1
    <3>2. n \in 1..N
      BY <1>2, <3>1
    <3> HIDE DEF n, N
    <3> QED BY <1>1, <3>2
  <2> QED BY <1>1, <2>1
<1>4. u \in Seq(Byte) /\ v \in Seq(Byte)
  BY BytesType, ConcatLength
<1>5. u \o v = Bytes(sent)
  OBVIOUS
<1>6. n # N
  <2>1. SUFFICES ASSUME n = N PROVE FALSE
    OBVIOUS
  <2>2. found = sent
    BY <1>2, <2>1, SeqEqual
  <2>3. u \o v = u
    BY <1>5, <2>2
  <2> HIDE DEF u, v
  <2>4. v = << >>
    BY <1>4, <2>3, ConcatEqualIffEmpty
  <2>5. Len(v) = Len(left) + Len(w) /\ Len(w) \in Nat
    BY ConcatLength, LenProperties DEF v
  <2>6. Len(left) \in Nat /\ Len(left) >= 3
    BY HeaderFacts
  <2> QED BY <2>4, <2>5, <2>6
<1>7. n + 1 \in 1..N
  BY <1>1, <1>3, <1>6
<1> DEFINE p == sent[n + 1]
<1>8. p \in Packet
  BY <1>7, ElementOfSeq
<1>9. Fits(p)
  BY <1>7
<1>10. PICK more \in Seq(Byte) : Bytes(sent) = u \o (Encode(p) \o more)
  <2>1. Len(found) < Len(sent)
    <3> HIDE DEF n, N
    <3>1. n < N
      BY <1>1, <1>3, <1>6
    <3> QED BY <3>1 DEF n, N
  <2>2. \A k \in 1..Len(found) : found[k] = sent[k]
    BY <1>2
  <2> HIDE <1>2
  <2> QED BY <2>1, <2>2, BytesOfMore
<1> DEFINE e == Encode(p) \o more
<1>11. e \in Seq(Byte)
  <2> HIDE DEF p
  <2>1. Encode(p) \in Seq(Byte)
    BY <1>8, EncodeFacts
  <2> QED BY <2>1, ConcatLength
<1>12. v = e
  <2>1. u \o v = u \o e
    BY <1>5, <1>10
  <2> HIDE DEF u, v, e
  <2> QED BY <1>4, <1>11, <2>1, ConcatSimplifications
<1>13. FirstPacket(left) = p
  <2>1. left \o w = Encode(p) \o more
    BY <1>12
  <2> HIDE DEF p
  <2> QED BY <1>8, <1>9, <2>1, FirstIsSent
<1> QED BY <1>7, <1>13

\* A turn of the loop keeps it so.
LEMMA TurnKeeps ==
    ASSUME NEW x \in ParseState, NEW w \in Seq(Byte), NEW sent \in Seq(Packet),
           Intact(x, w, sent)
    PROVE  Intact(ParseNext(x), w, sent)
<1>1. CASE ~ HasPacket(x.left)
  BY <1>1 DEF ParseNext
<1>2. CASE HasPacket(x.left)
  <2> DEFINE f == x.found
             b == x.left
             p == FirstPacket(b)
             r == Rest(b)
             t == Append(f, p)
             n == Len(f)
             e == Encode(p)
             u == Bytes(f)
  <2>1. f \in Seq(Packet) /\ b \in Seq(Byte)
    BY DEF ParseState
  <2>2. ParseNext(x) = [found |-> t, left |-> r]
    BY <1>2 DEF ParseNext
  <2>3. p \in Packet /\ r \in Seq(Byte) /\ e \o r = b
    BY <1>2, <2>1, CutFacts, CutIsWhole
  <2>4. u \o (b \o w) = Bytes(sent) /\ AsSent(f, sent)
    BY DEF Intact
  <2>5. /\ n \in Nat /\ t \in Seq(Packet) /\ Len(t) = n + 1 /\ t[n + 1] = p
        /\ \A k \in 1..n : t[k] = f[k]
    <3> HIDE DEF f, p
    <3> QED BY <2>1, <2>3, AppendProperties, LenProperties
  <2>6. Bytes(t) = u \o e
    <3> HIDE DEF f, p
    <3> QED BY <2>1, <2>3, BytesAppend
  <2>7. u \in Seq(Byte) /\ e \in Seq(Byte)
    <3> HIDE DEF f, p
    <3> QED BY <2>1, <2>3, BytesType, EncodeFacts
  <2>8. Bytes(t) \o (r \o w) = Bytes(sent)
    <3> HIDE DEF u, e, r, b, t
    <3> DEFINE q == r \o w
    <3>1. q \in Seq(Byte)
      BY <2>3, ConcatLength
    <3>2. (e \o r) \o w = e \o q
      <4>1. e \in Seq(Byte) /\ r \in Seq(Byte)
        BY <2>3, <2>7
      <4> QED BY <4>1, ConcatAssociative
    <3>3. (u \o e) \o q = u \o (e \o q)
      <4> HIDE DEF q
      <4> QED BY <2>7, <3>1, ConcatAssociative
    <3> QED BY <2>3, <2>4, <2>6, <3>2, <3>3
  <2>9. ASSUME NEW k \in 1..n + 1
        PROVE  \/ k \in 1..Len(sent) /\ t[k] = sent[k]
               \/ \E j \in 1..Len(sent) : j <= k /\ ~ Fits(sent[j])
    <3>1. CASE k \in 1..n
      BY <2>4, <2>5, <3>1 DEF AsSent
    <3>2. CASE k = n + 1
      <4>1. SUFFICES ASSUME \A j \in 1..Len(sent) : j <= n + 1 => Fits(sent[j])
                     PROVE  k \in 1..Len(sent) /\ t[k] = sent[k]
        BY <3>2
      <4>2. n + 1 \in 1..Len(sent) /\ p = sent[n + 1]
        <5> HIDE DEF f, b
        <5>1. HasPacket(b)
          BY <1>2 DEF b
        <5> QED BY <2>1, <2>4, <4>1, <5>1, NextIsSent
      <4> QED BY <2>5, <3>2, <4>2
    <3>3. k \in 1..n \/ k = n + 1
      <4> HIDE DEF n
      <4> QED BY <2>5
    <3> QED BY <3>1, <3>2, <3>3
  <2>10. AsSent(t, sent)
    <3> HIDE DEF t, n
    <3> QED BY <2>5, <2>9 DEF AsSent
  <2>11. ParseNext(x).found = t /\ ParseNext(x).left = r
    <3> HIDE DEF t, r
    <3> QED BY <2>2
  <2> HIDE DEF t, r
  <2> QED BY <2>8, <2>10, <2>11 DEF Intact
<1> QED BY <1>1, <1>2

\* The loop ends with no packet left, and keeps what its turns keep.
LEMMA ParseFacts ==
    ASSUME NEW found \in Seq(Packet), NEW b \in Seq(Byte)
    PROVE  /\ Parse(found, b) \in ParseState
           /\ ~ HasPacket(Parse(found, b).left)
<1> DEFINE n == Len(b)
<1>1. PICK g : Turns(g, found, b)
  BY ParseSteps
<1>2. n \in Nat
  BY LenProperties
<1>3. /\ g[0] \in ParseState /\ g[0].left = b
      /\ \A i \in 1..n : g[i] = ParseNext(g[i - 1])
      /\ Parse(found, b) = g[n]
  BY <1>1 DEF Turns, ParseState
<1>4. Len(b) = n
  OBVIOUS
<1> HIDE DEF n
<1> DEFINE Left(x, i) == HasPacket(x.left) => Len(x.left) + i <= n
           P == {i \in Nat : i <= n => g[i] \in ParseState /\ Left(g[i], i)}
<1>5. 0 \in P
  BY <1>2, <1>3, <1>4
<1>6. ASSUME NEW i \in Nat, i \in P PROVE i + 1 \in P
  <2> DEFINE x == g[i]
             y == g[i + 1]
  <2>1. SUFFICES ASSUME i + 1 <= n PROVE y \in ParseState /\ Left(y, i + 1)
    <3> HIDE DEF Left
    <3> QED OBVIOUS
  <2>2. x \in ParseState /\ Left(x, i)
    <3> HIDE DEF Left
    <3> QED BY <1>2, <1>6, <2>1
  <2>3. y = ParseNext(x)
    <3>1. i + 1 \in 1..n /\ (i + 1) - 1 = i
      BY <1>2, <2>1
    <3> QED BY <1>3, <3>1
  <2> HIDE DEF x, y
  <2>4. y \in ParseState
    BY <2>2, <2>3, ParseNextType
  <2>5. CASE HasPacket(x.left)
    <3>1. x.left \in Seq(Byte) /\ y.left = Rest(x.left)
      BY <2>2, <2>3, <2>5 DEF ParseNext, ParseState
    <3>2. Len(y.left) + 3 <= Len(x.left) /\ Len(x.left) \in Nat /\ Len(y.left) \in Nat
      <4>1. y.left \in Seq(Byte)
        BY <2>4 DEF ParseState
      <4>2. Len(Rest(x.left)) + 3 <= Len(x.left)
        BY <2>5, <3>1, CutIsWhole
      <4> QED BY <3>1, <4>1, <4>2, LenProperties
    <3>3. Len(x.left) + i <= n
      BY <2>2, <2>5
    <3> DEFINE k == Len(y.left)
               l == Len(x.left)
    <3>4. k + (i + 1) <= n
      <4>1. k + 3 <= l /\ l \in Nat /\ k \in Nat /\ l + i <= n
        BY <3>2, <3>3
      <4> HIDE DEF k, l
      <4> QED BY <1>2, <4>1
    <3> QED BY <2>4, <3>4
  <2>6. CASE ~ HasPacket(x.left)
    <3>1. y = x
      BY <2>3, <2>6 DEF ParseNext
    <3> QED BY <2>4, <2>6, <3>1
  <2> QED BY <2>5, <2>6
<1> HIDE DEF P
<1>7. n \in P
  BY <1>2, <1>5, <1>6, Induct
<1>8. g[n] \in ParseState /\ Left(g[n], n)
  BY <1>2, <1>7 DEF P
<1>9. ~ HasPacket(g[n].left)
  <2>1. SUFFICES ASSUME HasPacket(g[n].left) PROVE FALSE
    OBVIOUS
  <2>2. g[n].left \in Seq(Byte)
    BY <1>8 DEF ParseState
  <2>3. Len(g[n].left) \in Nat /\ Len(g[n].left) >= 3
    BY <2>1, <2>2, HeaderFacts
  <2>4. Len(g[n].left) + n <= n
    BY <1>8, <2>1
  <2> QED BY <1>2, <2>3, <2>4
<1> QED BY <1>3, <1>8, <1>9

LEMMA ParseKeeps ==
    ASSUME NEW found \in Seq(Packet), NEW b \in Seq(Byte), NEW w \in Seq(Byte),
           NEW sent \in Seq(Packet),
           Bytes(found) \o (b \o w) = Bytes(sent), AsSent(found, sent)
    PROVE  Intact(Parse(found, b), w, sent)
<1> DEFINE n == Len(b)
<1>1. PICK g : Turns(g, found, b)
  BY ParseSteps
<1>2. n \in Nat
  BY LenProperties
<1>3. /\ g[0] \in ParseState /\ g[0].left = b /\ g[0].found = found
      /\ \A i \in 1..n : g[i] = ParseNext(g[i - 1])
      /\ Parse(found, b) = g[n]
  BY <1>1 DEF Turns, ParseState
<1> HIDE DEF n
<1> DEFINE P == {i \in Nat : i <= n => g[i] \in ParseState /\ Intact(g[i], w, sent)}
<1>4. 0 \in P
  BY <1>3 DEF Intact
<1>5. ASSUME NEW i \in Nat, i \in P PROVE i + 1 \in P
  <2>1. CASE i + 1 <= n
    <3>1. i + 1 \in 1..n /\ (i + 1) - 1 = i /\ i <= n
      BY <1>2, <2>1
    <3>2. g[i] \in ParseState /\ Intact(g[i], w, sent)
      BY <1>5, <3>1
    <3>3. g[i + 1] = ParseNext(g[i])
      BY <1>3, <3>1
    <3>4. g[i + 1] \in ParseState /\ Intact(g[i + 1], w, sent)
      BY <3>2, <3>3, ParseNextType, TurnKeeps
    <3> QED BY <3>4
  <2> QED BY <2>1
<1> HIDE DEF P
<1>6. n \in P
  BY <1>2, <1>4, <1>5, Induct
<1> QED BY <1>2, <1>3, <1>6 DEF P

-----------------------------------------------------------------------------
\* The invariant.

Types ==
    /\ wire \in Seq(Byte)
    /\ buffer \in Seq(Byte)
    /\ reading \in BOOLEAN
    /\ starved \in BOOLEAN
    /\ produced \in Seq(Packet)
    /\ delivered \in Seq(Packet)

\* Until a recv fails: nothing is lost, no packet waits in the buffer, and the packets
\* are those that were sent.
Unstarved ==
    /\ Bytes(delivered) \o (buffer \o wire) = Bytes(produced)
    /\ ~ HasPacket(buffer)
    /\ AsSent(delivered, produced)

IInv == Types /\ (~ starved => Unstarved)

LEMMA Initially == StreamInit => IInv
<1> SUFFICES ASSUME StreamInit PROVE IInv
  OBVIOUS
<1> USE DEF StreamInit
<1>1. Types
  <2>1. << >> \in Seq(Byte) /\ << >> \in Seq(Packet) /\ FALSE \in BOOLEAN
    OBVIOUS
  <2> QED BY <2>1, Zenon DEF Types
<1>2. ~ HasPacket(buffer)
  BY DEF HasPacket, HeaderSize
<1>3. Bytes(delivered) \o (buffer \o wire) = Bytes(produced)
  BY BytesOfNone
<1>4. AsSent(delivered, produced)
  BY DEF AsSent
<1> QED BY <1>1, <1>2, <1>3, <1>4 DEF IInv, Unstarved

\* One packet more is sent: what was found before is as it was, and its bytes come last.
LEMMA SendKeeps ==
    ASSUME IInv, NEW p \in Packets, PeerSend(p)
    PROVE  IInv'
<1> USE DEF IInv, Types
<1>1. p \in Packet
  BY PacketsAssumption DEF Packet
<1>2. /\ wire' = wire \o Encode(p) /\ produced' = Append(produced, p)
      /\ buffer' = buffer /\ reading' = reading /\ delivered' = delivered
      /\ starved' = starved
  BY DEF PeerSend
<1> DEFINE e == Encode(p)
           n == Len(produced)
<1>3. e \in Seq(Byte)
  BY <1>1, EncodeFacts
<1>4. /\ produced' \in Seq(Packet) /\ Len(produced') = n + 1 /\ n \in Nat
      /\ \A k \in 1..n : produced'[k] = produced[k]
  BY <1>1, <1>2, AppendProperties, LenProperties
<1>5. wire' = wire \o e
  BY <1>2
<1>6. Bytes(produced') = Bytes(produced) \o e
  BY <1>1, <1>2, BytesAppend
<1> HIDE DEF e, n
<1>7. Types'
  <2>1. wire' \in Seq(Byte)
    BY <1>3, <1>5, ConcatLength
  <2> QED BY <1>2, <1>4, <2>1
<1>8. ASSUME ~ starved' PROVE Unstarved'
  <2>1. Unstarved
    BY <1>2, <1>8
  <2>2. Bytes(delivered') \o (buffer' \o wire') = Bytes(produced')
    <3> DEFINE u == Bytes(delivered)
    <3>1. u \in Seq(Byte) /\ buffer \in Seq(Byte) /\ wire \in Seq(Byte)
      BY BytesType
    <3>2. u \o (buffer \o wire) = Bytes(produced)
      BY <2>1 DEF Unstarved
    <3>3. (u \o (buffer \o wire)) \o e = u \o (buffer \o (wire \o e))
      <4>1. u \in Seq(Byte) /\ buffer \in Seq(Byte) /\ wire \in Seq(Byte) /\ e \in Seq(Byte)
        BY <1>3, <3>1
      <4> HIDE DEF u, IInv, Types
      <4>2. buffer \o wire \in Seq(Byte)
        BY <4>1, ConcatLength
      <4>3. (u \o (buffer \o wire)) \o e = u \o ((buffer \o wire) \o e)
        BY <4>1, <4>2, ByteConcat, ZenonT(60)
      <4>4. (buffer \o wire) \o e = buffer \o (wire \o e)
        BY <4>1, ByteConcat, Zenon
      <4> QED BY <4>3, <4>4, Zenon
    <3> QED BY <1>2, <1>5, <1>6, <3>2, <3>3
  <2>3. AsSent(delivered', produced')
    <3>1. \A k \in 1..n : k \in 1..n + 1
      BY <1>4
    <3>2. AsSent(delivered, produced)
      BY <2>1 DEF Unstarved
    <3> QED BY <1>2, <1>4, <3>1, <3>2 DEF AsSent, n
  <2>4. ~ HasPacket(buffer')
    BY <1>2, <2>1 DEF Unstarved
  <2> QED BY <2>2, <2>3, <2>4 DEF Unstarved
<1> QED BY <1>7, <1>8

\* What recv returns goes from the wire to the end of the buffer, and the loop cuts the
\* packets off its front.
LEMMA ReciveKeeps ==
    ASSUME IInv, NEW n \in 1..RecvLength, TryRecive(n)
    PROVE  IInv'
<1> USE DEF IInv, Types
<1> DEFINE N == Len(wire)
           got == SubSeq(wire, 1, n)
           w == SubSeq(wire, n + 1, N)
           b == buffer \o got
           x == Parse(delivered, b)
<1>1. /\ n <= N /\ delivered' = x.found /\ buffer' = x.left /\ wire' = w
      /\ reading' = reading /\ produced' = produced /\ starved' = starved
  BY DEF TryRecive
<1>2. n \in Nat /\ N \in Nat /\ n \in 1..N
  BY <1>1, RecvLengthAssumption, LenProperties
<1>3. got \in Seq(Byte) /\ w \in Seq(Byte) /\ got \o w = wire
  <2>1. \A i \in 1..N : wire[i] \in Byte
    BY ElementOfSeq
  <2>2. got \in Seq(Byte)
    <3>1. \A i \in 1..n : wire[i] \in Byte
      BY <1>2, <2>1
    <3> HIDE DEF N
    <3> QED BY <1>2, <3>1, SubSeqProperties
  <2>3. w \in Seq(Byte)
    <3>1. n + 1 \in Int /\ N \in Int /\ \A i \in n + 1..N : wire[i] \in Byte
      BY <1>2, <2>1
    <3> HIDE DEF N
    <3> QED BY <3>1, SubSeqProperties
  <2>4. got \o w = SubSeq(wire, 1, N)
    <3>1. 1 \in 1..Len(wire) + 1 /\ n \in 1 - 1..Len(wire) /\ N \in n..Len(wire)
      BY <1>2
    <3> HIDE DEF N
    <3> QED BY <3>1, ConcatAdjacentSubSeq
  <2>5. SubSeq(wire, 1, N) = wire
    BY SubSeqFull
  <2> QED BY <2>2, <2>3, <2>4, <2>5
<1> HIDE DEF got, w, N
<1>4. b \in Seq(Byte)
  BY <1>3, ConcatLength
<1> HIDE DEF b
<1>5. x \in ParseState /\ ~ HasPacket(x.left)
  BY <1>4, ParseFacts
<1>6. ASSUME ~ starved PROVE Intact(x, w, produced)
  <2>1. Bytes(delivered) \o (buffer \o wire) = Bytes(produced) /\ AsSent(delivered, produced)
    BY <1>6 DEF Unstarved
  <2>2. b \o w = buffer \o wire
    <3>1. (buffer \o got) \o w = buffer \o (got \o w)
      <4>1. buffer \in Seq(Byte) /\ got \in Seq(Byte) /\ w \in Seq(Byte)
        BY <1>3
      <4> HIDE DEF IInv, Types
      <4> QED BY <4>1, ConcatAssociative
    <3> QED BY <1>3, <3>1 DEF b
  <2>3. Bytes(delivered) \o (b \o w) = Bytes(produced)
    BY <2>1, <2>2
  <2> QED BY <1>3, <1>4, <2>1, <2>3, ParseKeeps
<1> HIDE DEF x
<1>7. Types'
  BY <1>1, <1>3, <1>5 DEF ParseState
<1>8. ASSUME ~ starved' PROVE Unstarved'
  <2>1. Intact(x, w, produced)
    BY <1>1, <1>6, <1>8
  <2> QED BY <1>1, <1>5, <2>1 DEF Intact, Unstarved
<1> QED BY <1>7, <1>8

LEMMA FailureKeeps ==
    ASSUME IInv, TryReciveFails
    PROVE  IInv'
<1> USE DEF IInv, Types
<1> DEFINE z == [k \in 1..RecvLength |-> 0]
<1>1. z \in Seq(Byte)
  <2>1. z \in [1..RecvLength -> Byte] /\ RecvLength \in Nat
    BY ByteFacts, RecvLengthAssumption
  <2> HIDE DEF z
  <2> QED BY <2>1
<1>2. buffer' = buffer \o z /\ starved' = TRUE /\ reading' = FALSE
      /\ UNCHANGED <<wire, produced, delivered>>
  BY DEF TryReciveFails
<1> HIDE DEF z
<1>3. buffer' \in Seq(Byte)
  BY <1>1, <1>2, ConcatLength
<1> QED BY <1>2, <1>3

LEMMA StepKeeps == IInv /\ [StreamNext]_streamVars => IInv'
<1> SUFFICES ASSUME IInv, [StreamNext]_streamVars PROVE IInv'
  OBVIOUS
<1>1. ASSUME NEW p \in Packets, PeerSend(p) PROVE IInv'
  BY <1>1, SendKeeps
<1>2. CASE OnRead
  BY <1>2 DEF OnRead, IInv, Types, Unstarved
<1>3. ASSUME NEW n \in 1..RecvLength, TryRecive(n) PROVE IInv'
  BY <1>3, ReciveKeeps
<1>4. CASE TryReciveFails
  BY <1>4, FailureKeeps
<1>5. CASE UNCHANGED streamVars
  BY <1>5 DEF streamVars, IInv, Types, Unstarved
<1> QED BY <1>1, <1>2, <1>3, <1>4, <1>5 DEF StreamNext

\* The types, and until a recv fails: the stream is intact, no packet waits, and the
\* packets are those that were sent up to the first that is too long.
THEOREM Invariance == StreamSpec => []IInv
<1>1. StreamInit => IInv
  BY Initially
<1>2. IInv /\ [StreamNext]_streamVars => IInv'
  BY StepKeeps
<1> QED BY <1>1, <1>2, PTL DEF StreamSpec

\* Until a recv fails the receiver loses and invents no byte, however the stream is cut
\* into recvs and whatever packets it holds.
THEOREM StreamStaysIntact == StreamSpec => []StreamIntact
<1>1. IInv => StreamIntact
  <2> SUFFICES ASSUME IInv, ~ starved
               PROVE  Bytes(delivered) \o buffer \o wire = Bytes(produced)
    BY DEF StreamIntact
  <2> DEFINE u == Bytes(delivered)
  <2>1. u \in Seq(Byte) /\ buffer \in Seq(Byte) /\ wire \in Seq(Byte)
    BY BytesType DEF IInv, Types
  <2>2. u \o (buffer \o wire) = Bytes(produced)
    BY DEF IInv, Unstarved
  <2>3. (u \o buffer) \o wire = u \o (buffer \o wire)
    <3> HIDE DEF u
    <3> QED BY <2>1, ConcatAssociative
  <2> QED BY <2>2, <2>3
<1> QED BY <1>1, Invariance, PTL

\* Until a recv fails the packets are delivered as they were sent and in order, up to
\* the first that is too long for its header, and none that has arrived waits.
THEOREM OrderKept == StreamSpec => []PacketsInOrder
<1>1. IInv => PacketsInOrder
  <2> SUFFICES ASSUME IInv, ~ starved
               PROVE  /\ ~ HasPacket(buffer)
                      /\ \A k \in DOMAIN delivered :
                            \/ k \in DOMAIN produced /\ delivered[k] = produced[k]
                            \/ \E j \in DOMAIN produced : j <= k /\ ~ Fits(produced[j])
    BY DEF PacketsInOrder
  <2>1. DOMAIN delivered = 1..Len(delivered) /\ DOMAIN produced = 1..Len(produced)
    BY LenProperties DEF IInv, Types
  <2> QED BY <2>1 DEF IInv, Unstarved, AsSent
<1> QED BY <1>1, Invariance, PTL

-----------------------------------------------------------------------------
\* The codec: what is left of a value after each digit, and how it is packed.

LEMMA Division ==
    ASSUME NEW v \in Nat
    PROVE  /\ v \div Digit \in Nat
           /\ v % Digit \in 0..Digit - 1
           /\ v = Digit * (v \div Digit) + (v % Digit)
           /\ v # 0 => v \div Digit < v
BY DigitAssumption

\* What is left of a value after each digit.
LEMMA ShiftedFacts ==
    ASSUME NEW v \in Nat
    PROVE  /\ Shifted(v) \in [0..ArraySize -> Nat]
           /\ Shifted(v)[0] = v
           /\ \A k \in 1..ArraySize : Shifted(v)[k] = Shifted(v)[k - 1] \div Digit
<1> DEFINE step == [k \in Nat |-> [x \in Nat |-> x \div Digit]]
           Val(s, k) == IF k = 0 THEN v ELSE s[k - 1] \div Digit
           Eq(s) == s = [k \in 0..ArraySize |-> Val(s, k)]
           c == CHOOSE s : Eq(s)
<1>1. Shifted(v) = c
  BY DEF Shifted
<1>2. step \in [Nat -> [Nat -> Nat]]
  BY Division
<1>3. ArraySize \in Nat
  BY ArraySizeAssumption
<1>4. \A k \in Nat, x \in Nat : step[k][x] = x \div Digit
  OBVIOUS
<1> HIDE DEF step
<1>5. PICK g \in [0..ArraySize -> Nat] : g[0] = v /\ \A k \in 1..ArraySize : g[k] = step[k][g[k - 1]]
  <2> DEFINE X == Nat
             w == v
             N == ArraySize
  <2>1. w \in X /\ step \in [Nat -> [X -> X]] /\ N \in Nat
    BY <1>2, <1>3
  <2> HIDE DEF X, w, N
  <2>2. \E g \in [0..N -> X] : g[0] = w /\ \A k \in 1..N : g[k] = step[k][g[k - 1]]
    BY <2>1, Iteration, SMT
  <2> QED BY <2>2 DEF X, w, N
<1>6. \A k \in 1..ArraySize : g[k] = g[k - 1] \div Digit
  <2> SUFFICES ASSUME NEW k \in 1..ArraySize PROVE g[k] = g[k - 1] \div Digit
    OBVIOUS
  <2>1. k \in Nat /\ k - 1 \in 0..ArraySize
    BY <1>3
  <2>2. g[k - 1] \in Nat
    BY <2>1
  <2> QED BY <1>4, <1>5, <2>1, <2>2
<1>7. Eq(g)
  <2>1. \A k \in 0..ArraySize : g[k] = Val(g, k)
    <3> SUFFICES ASSUME NEW k \in 0..ArraySize PROVE g[k] = Val(g, k)
      OBVIOUS
    <3>1. k = 0 \/ k \in 1..ArraySize
      BY <1>3
    <3> QED BY <1>5, <1>6, <3>1
  <2> HIDE DEF Val
  <2> QED BY <2>1
<1>8. Eq(c)
  <2> HIDE DEF Eq
  <2> QED BY <1>7
<1> HIDE DEF c
<1>9. c[0] = v /\ \A k \in 1..ArraySize : c[k] = c[k - 1] \div Digit
  BY <1>3, <1>8
<1>10. \A k \in 0..ArraySize : c[k] \in Nat
  <2> DEFINE P == {k \in Nat : k <= ArraySize => c[k] \in Nat}
  <2>1. 0 \in P
    BY <1>9
  <2>2. ASSUME NEW k \in Nat, k \in P PROVE k + 1 \in P
    <3>1. CASE k + 1 <= ArraySize
      <4>1. k + 1 \in 1..ArraySize /\ (k + 1) - 1 = k /\ c[k] \in Nat
        BY <1>3, <2>2, <3>1
      <4>2. c[k + 1] = c[k] \div Digit
        BY <1>9, <4>1
      <4>3. c[k + 1] \in Nat
        BY <4>1, <4>2, Division
      <4> QED BY <4>3
    <3> QED BY <3>1
  <2> HIDE DEF P
  <2>3. \A k \in Nat : k \in P
    BY <2>1, <2>2, Induct
  <2> QED BY <1>3, <2>3 DEF P
<1>11. c \in [0..ArraySize -> Nat]
  <2>1. c = [k \in 0..ArraySize |-> c[k]]
    BY <1>8
  <2> QED BY <1>10, <2>1
<1> QED BY <1>1, <1>9, <1>11

\* The bytes of a value: its digits, all but the last marked, and nothing is left behind
\* the last.
Packed(p, v) ==
    /\ p \in Seq(Nat)
    /\ Len(p) \in 1..ArraySize
    /\ Shifted(v)[Len(p)] = 0
    /\ \A k \in 1..Len(p) : /\ p[k] % Digit = Shifted(v)[k - 1] % Digit
                            /\ p[k] < Digit + Digit
                            /\ p[k] < Digit <=> k = Len(p)

LEMMA PackedByte ==
    ASSUME NEW d \in 0..Digit - 1
    PROVE  /\ d < Digit /\ d % Digit = d /\ d \in Nat
           /\ d + Digit \in Nat /\ d + Digit < Digit + Digit /\ ~ (d + Digit < Digit)
           /\ (d + Digit) % Digit = d
BY DigitAssumption

\* A value that n bytes can hold is packed into n bytes or less, if there is room for n.
LEMMA PackFacts ==
    ASSUME NEW b \in Seq(Nat), NEW v \in Nat, NEW n \in 1..ArraySize,
           Shifted(v)[n] = 0, Len(b) + n <= ArraySize
    PROVE  \E p \in Seq(Nat) : Packed(p, v) /\ Len(p) <= n /\ PackInt(b, v) = b \o p
<1> DEFINE rest == Shifted(v)
           Ends(k) == rest[k] = 0 \/ Len(b) + k >= ArraySize
           Stop(k) == Ends(k) /\ \A j \in 1..k - 1 : ~ Ends(j)
           m == CHOOSE k \in 1..ArraySize : Stop(k)
           byte(k) == (rest[k - 1] % Digit) + (IF rest[k] # 0 THEN Digit ELSE 0)
           p == [k \in 1..m |-> byte(k)]
<1>1. PackInt(b, v) = b \o p
  BY DEF PackInt
<1>2. /\ rest \in [0..ArraySize -> Nat] /\ ArraySize \in Nat /\ Len(b) \in Nat
      /\ rest[n] = 0 /\ Len(b) + n <= ArraySize
  BY ShiftedFacts, ArraySizeAssumption, LenProperties
<1> HIDE DEF rest
<1>3. PICK k \in 1..n : rest[k] = 0 /\ \A j \in 1..k - 1 : rest[j] # 0
  <2> DEFINE T == {k \in 1..n : rest[k] = 0}
  <2>1. T \in SUBSET Nat /\ n \in T
    BY <1>2
  <2>2. PICK x \in T : \A y \in T : x <= y
    <3> HIDE DEF T
    <3> QED BY <2>1, NatMin
  <2>3. x \in 1..n /\ rest[x] = 0
    OBVIOUS
  <2>4. ASSUME NEW j \in 1..x - 1 PROVE rest[j] # 0
    <3>1. j \in 1..n /\ ~ (x <= j)
      BY <2>3
    <3> QED BY <2>2, <3>1
  <2> QED BY <2>3, <2>4
<1>4. Stop(k) /\ k \in 1..ArraySize
  <2>1. k \in 1..ArraySize
    BY <1>2
  <2>2. ASSUME NEW j \in 1..k - 1 PROVE ~ Ends(j)
    BY <1>2, <1>3
  <2> QED BY <1>3, <2>1, <2>2
<1>5. m \in 1..ArraySize /\ Stop(m)
  <2> HIDE DEF Stop
  <2> QED BY <1>4
<1>6. m = k
  <2> HIDE DEF m
  <2>1. ~ (m < k)
    <3>1. m < k => m \in 1..k - 1
      BY <1>5
    <3> HIDE DEF Ends
    <3> QED BY <1>4, <1>5, <3>1
  <2>2. ~ (k < m)
    <3>1. k < m => k \in 1..m - 1
      BY <1>5, <1>4
    <3> HIDE DEF Ends
    <3> QED BY <1>4, <1>5, <3>1
  <2> QED BY <1>4, <1>5, <2>1, <2>2
<1> HIDE DEF m
<1>7. ASSUME NEW j \in 1..m
      PROVE  /\ byte(j) \in Nat /\ byte(j) % Digit = rest[j - 1] % Digit
             /\ byte(j) < Digit + Digit /\ (byte(j) < Digit <=> j = m)
  <2>1. rest[j - 1] \in Nat
    BY <1>2, <1>5
  <2> DEFINE d == rest[j - 1] % Digit
  <2>2. d \in 0..Digit - 1
    BY <2>1, Division
  <2>3. rest[j] = 0 <=> j = m
    <3>1. j = m \/ j \in 1..k - 1
      BY <1>6, <1>3
    <3>2. j \in 1..k - 1 => j # m
      BY <1>6
    <3> QED BY <1>3, <1>6, <3>1, <3>2
  <2>4. byte(j) = IF j = m THEN d ELSE d + Digit
    <3>1. d + 0 = d
      BY <2>2
    <3> HIDE DEF d
    <3> QED BY <2>3, <3>1 DEF d
  <2> HIDE DEF d, byte
  <2>5. /\ d < Digit /\ d % Digit = d /\ d \in Nat
        /\ d + Digit \in Nat /\ d + Digit < Digit + Digit /\ ~ (d + Digit < Digit)
        /\ (d + Digit) % Digit = d
    BY <2>2, PackedByte
  <2>6. byte(j) % Digit = d /\ byte(j) < Digit + Digit
    BY <2>4, <2>5, DigitAssumption
  <2> QED BY <2>4, <2>5, <2>6 DEF d
<1> HIDE DEF byte
<1>8. p \in Seq(Nat) /\ Len(p) = m /\ \A j \in 1..m : p[j] = byte(j)
  <2>1. p \in [1..m -> Nat] /\ m \in Nat
    BY <1>5, <1>7
  <2> QED BY <2>1
<1> HIDE DEF p
<1>9. Packed(p, v)
  BY <1>3, <1>5, <1>6, <1>7, <1>8 DEF Packed, rest
<1>10. Len(p) <= n
  BY <1>3, <1>6, <1>8
<1> QED BY <1>1, <1>8, <1>9, <1>10

\* Whatever is packed, bytes stay bytes.
LEMMA PackType ==
    ASSUME NEW b \in Seq(Nat), NEW v \in Nat
    PROVE  PackInt(b, v) \in Seq(Nat)
<1> DEFINE rest == Shifted(v)
           Ends(k) == rest[k] = 0 \/ Len(b) + k >= ArraySize
           Stop(k) == Ends(k) /\ \A j \in 1..k - 1 : ~ Ends(j)
           m == CHOOSE k \in 1..ArraySize : Stop(k)
           byte(k) == (rest[k - 1] % Digit) + (IF rest[k] # 0 THEN Digit ELSE 0)
           p == [k \in 1..m |-> byte(k)]
<1>1. PackInt(b, v) = b \o p
  BY DEF PackInt
<1>2. rest \in [0..ArraySize -> Nat] /\ ArraySize \in Nat \ {0} /\ Len(b) \in Nat
  BY ShiftedFacts, ArraySizeAssumption, LenProperties
<1> HIDE DEF rest
<1>3. m \in 1..ArraySize
  <2> DEFINE T == {k \in 1..ArraySize : Ends(k)}
  <2>1. T \in SUBSET Nat /\ ArraySize \in T
    BY <1>2
  <2>2. PICK x \in T : \A y \in T : x <= y
    <3> HIDE DEF T
    <3> QED BY <2>1, NatMin
  <2>3. x \in 1..ArraySize /\ Ends(x)
    OBVIOUS
  <2>4. ASSUME NEW j \in 1..x - 1 PROVE ~ Ends(j)
    <3>1. j \in 1..ArraySize /\ ~ (x <= j)
      BY <1>2, <2>3
    <3> HIDE DEF Ends
    <3> QED BY <2>2, <3>1
  <2>5. Stop(x)
    BY <2>3, <2>4
  <2> HIDE DEF Stop
  <2> QED BY <2>3, <2>5
<1> HIDE DEF m
<1>4. \A k \in 1..m : byte(k) \in Nat
  <2> SUFFICES ASSUME NEW k \in 1..m PROVE byte(k) \in Nat
    OBVIOUS
  <2>1. rest[k - 1] \in Nat
    BY <1>2, <1>3
  <2>2. rest[k - 1] % Digit \in Nat
    BY <2>1, DigitAssumption
  <2> QED BY <2>2, DigitAssumption
<1> HIDE DEF byte
<1>5. p \in Seq(Nat)
  BY <1>3, <1>4
<1> HIDE DEF p
<1> QED BY <1>1, <1>5, ConcatProperties

-----------------------------------------------------------------------------
\* unpack_int: the digits of a value sum up to it.

LEMMA Distribute ==
    ASSUME NEW x \in Nat, NEW w \in Nat, NEW q \in Nat, NEW r \in Nat, NEW d \in Nat
    PROVE  (x + w * r) + (w * d) * q = x + w * (d * q + r)
OBVIOUS

Sum == [value : Nat, weight : Nat]

\* g gives the sum of the first i bytes.
SumsUp(g, p) ==
    /\ g[0] = [value |-> 0, weight |-> 1]
    /\ \A i \in 1..Len(p) : g[i] = AddDigit(g[i - 1], p[i])
    /\ FoldLeft(AddDigit, [value |-> 0, weight |-> 1], p) = g[Len(p)]

LEMMA AddDigitType ==
    ASSUME NEW x \in Sum, NEW y \in Nat
    PROVE  AddDigit(x, y) \in Sum
<1>1. y % Digit \in Nat /\ Digit \in Nat
  BY DigitAssumption
<1>2. x.value \in Nat /\ x.weight \in Nat
  BY DEF Sum
<1>3. x.value + x.weight * (y % Digit) \in Nat /\ x.weight * Digit \in Nat
  BY <1>1, <1>2
<1> QED BY <1>3 DEF AddDigit, Sum

LEMMA SumSteps ==
    ASSUME NEW p \in Seq(Nat)
    PROVE  \E g : SumsUp(g, p)
<1> DEFINE X == Sum
           n == Len(p)
           base == [value |-> 0, weight |-> 1]
           Val(it, S) == IF S = {} THEN base ELSE AddDigit(it[S \ {Max(S)}], p[Max(S)])
           Eq(it) == it = [S \in SUBSET (1..n) |-> Val(it, S)]
           F == CHOOSE it : Eq(it)
           step == [i \in Nat |-> [x \in X |-> IF i \in 1..n THEN AddDigit(x, p[i]) ELSE x]]
<1>1. n \in Nat /\ DOMAIN p = 1..n /\ \A i \in 1..n : p[i] \in Nat
  BY LenProperties, ElementOfSeq
<1>2. FoldLeft(AddDigit, base, p) = F[1..n]
  BY <1>1 DEF FoldLeft, MapThenFoldSet
<1>3. \A i \in 1..n, x \in X : AddDigit(x, p[i]) \in X
  BY <1>1, AddDigitType
<1>4. step \in [Nat -> [X -> X]] /\ base \in X
  <2> HIDE DEF n
  <2>1. \A i \in Nat, x \in X : (IF i \in 1..n THEN AddDigit(x, p[i]) ELSE x) \in X
    BY <1>3
  <2>2. base \in X
    BY DEF Sum
  <2> HIDE DEF X, base
  <2> QED BY <2>1, <2>2
<1>5. \A i \in 1..n, x \in X : step[i][x] = AddDigit(x, p[i])
  <2> HIDE DEF n, X
  <2> QED BY <1>1
<1> HIDE DEF step, n, X, base
<1>6. PICK it \in [SUBSET (1..n) -> X] : IsFold(it, base, step, n)
  BY <1>1, <1>4, FoldExists
<1>7. ASSUME NEW S \in SUBSET (1..n), S # {}
      PROVE  it[S] = AddDigit(it[S \ {Max(S)}], p[Max(S)])
  <2>1. Max(S) \in 1..n /\ S \ {Max(S)} \in SUBSET (1..n)
    BY <1>1, <1>7, MaxInside
  <2>2. it[S] = step[Max(S)][it[S \ {Max(S)}]] /\ it[S \ {Max(S)}] \in X
    BY <1>6, <1>7, <2>1 DEF IsFold
  <2> QED BY <1>5, <2>1, <2>2
<1>8. Eq(it)
  <2>1. \A S \in SUBSET (1..n) : it[S] = Val(it, S)
    BY <1>6, <1>7 DEF IsFold
  <2> HIDE DEF Val
  <2> QED BY <1>6, <2>1
<1>9. Eq(F)
  <2> HIDE DEF Eq
  <2> QED BY <1>8
<1>10. F[{}] = base /\ \A i \in 1..n : F[1..i] = AddDigit(F[1..i - 1], p[i])
  <2> HIDE DEF F
  <2>1. F[{}] = base
    BY <1>9
  <2>2. ASSUME NEW i \in 1..n PROVE F[1..i] = AddDigit(F[1..i - 1], p[i])
    <3>1. 1..i \in SUBSET (1..n) /\ i \in Nat /\ i > 0
      BY <1>1
    <3>2. Max(1..i) = i /\ 1..i # {} /\ (1..i) \ {i} = 1..i - 1
      BY <3>1, TopOfInterval
    <3> QED BY <3>1, <3>2, <1>9
  <2> QED BY <2>1, <2>2
<1> DEFINE g == [i \in 0..n |-> F[1..i]]
<1> HIDE DEF F
<1>11. g[0] = base /\ g[n] = F[1..n] /\ \A i \in 1..n : g[i] = AddDigit(g[i - 1], p[i])
  BY <1>1, <1>10
<1> HIDE DEF g
<1> QED BY <1>2, <1>11 DEF n, base, SumsUp

\* The digits of a value sum up to it.
LEMMA DigitsSum ==
    ASSUME NEW p \in Seq(Nat), NEW v \in Nat, Packed(p, v)
    PROVE  FoldLeft(AddDigit, [value |-> 0, weight |-> 1], p).value = v
<1> DEFINE n == Len(p)
           s == Shifted(v)
<1>1. PICK g : SumsUp(g, p)
  BY SumSteps
<1>2. /\ g[0] = [value |-> 0, weight |-> 1]
      /\ \A i \in 1..n : g[i] = AddDigit(g[i - 1], p[i])
      /\ FoldLeft(AddDigit, [value |-> 0, weight |-> 1], p) = g[n]
  BY <1>1 DEF SumsUp
<1>3. /\ n \in 1..ArraySize /\ ArraySize \in Nat /\ s[n] = 0
      /\ s \in [0..ArraySize -> Nat] /\ s[0] = v
      /\ \A k \in 1..ArraySize : s[k] = s[k - 1] \div Digit
      /\ \A k \in 1..n : p[k] % Digit = s[k - 1] % Digit
  BY ShiftedFacts, ArraySizeAssumption DEF Packed
<1> HIDE DEF n, s
<1> DEFINE P == {i \in Nat : i <= n => g[i] \in Sum /\ g[i].value + g[i].weight * s[i] = v}
<1>4. 0 \in P
  BY <1>2, <1>3 DEF Sum
<1>5. ASSUME NEW i \in Nat, i \in P PROVE i + 1 \in P
  <2>1. SUFFICES ASSUME i + 1 <= n
                 PROVE  g[i + 1] \in Sum /\ g[i + 1].value + g[i + 1].weight * s[i + 1] = v
    OBVIOUS
  <2>2. /\ i + 1 \in 1..n /\ i + 1 \in 1..ArraySize /\ (i + 1) - 1 = i /\ i <= n /\ i \in 0..ArraySize
        /\ p[i + 1] \in Nat
    <3>1. i + 1 \in 1..n /\ i + 1 \in 1..ArraySize /\ (i + 1) - 1 = i /\ i <= n /\ i \in 0..ArraySize
      BY <1>3, <2>1
    <3> QED BY <3>1, ElementOfSeq DEF n
  <2> DEFINE x == g[i].value
             w == g[i].weight
             r == s[i] % Digit
             q == s[i] \div Digit
  <2>3. g[i] \in Sum /\ x + w * s[i] = v
    BY <1>5, <2>2
  <2>4. x \in Nat /\ w \in Nat /\ Digit \in Nat
    BY <2>3, DigitAssumption DEF Sum
  <2>5. s[i] \in Nat
    BY <1>3, <2>2
  <2>6. q \in Nat /\ r \in Nat /\ s[i] = Digit * q + r
    <3> DEFINE y == s[i]
    <3>1. y \in Nat
      BY <2>5
    <3> HIDE DEF y
    <3>2. y \div Digit \in Nat /\ y % Digit \in Nat /\ y = Digit * (y \div Digit) + (y % Digit)
      BY <3>1, DigitAssumption
    <3> QED BY <3>2 DEF y
  <2>7. p[i + 1] % Digit = r /\ s[i + 1] = q
    BY <1>3, <2>2
  <2>8. g[i + 1] = [value |-> x + w * r, weight |-> w * Digit]
    <3>1. g[i + 1] = AddDigit(g[i], p[i + 1])
      BY <1>2, <2>2
    <3> HIDE DEF r
    <3> QED BY <2>7, <3>1 DEF AddDigit
  <2>9. g[i + 1] \in Sum
    <3>1. g[i + 1] = AddDigit(g[i], p[i + 1])
      BY <1>2, <2>2
    <3> QED BY <2>2, <2>3, <3>1, AddDigitType
  <2> HIDE DEF x, w, r, q
  <2>10. (x + w * r) + (w * Digit) * q = x + w * (Digit * q + r)
    BY <2>4, <2>6, Distribute
  <2>11. (x + w * r) + (w * Digit) * q = v
    BY <2>3, <2>6, <2>10
  <2>12. g[i + 1].value = x + w * r /\ g[i + 1].weight = w * Digit
    BY <2>8
  <2> QED BY <2>7, <2>9, <2>11, <2>12
<1> HIDE DEF P
<1>6. n \in P
  <2>1. n \in Nat
    BY <1>3
  <2> QED BY <1>4, <1>5, <2>1, Induct
<1>7. g[n] \in Sum /\ g[n].value + g[n].weight * s[n] = v
  BY <1>3, <1>6 DEF P
<1>8. g[n].value = v
  <2>1. g[n].value \in Nat /\ g[n].weight \in Nat /\ g[n].weight * 0 = 0
    BY <1>7 DEF Sum
  <2> QED BY <1>3, <1>7, <2>1
<1> QED BY <1>2, <1>8

\* The bytes p stand in b behind at.
Holds(b, at, p) == at + Len(p) <= Len(b) /\ \A k \in 1..Len(p) : b[at + k] = p[k]

\* unpack_int reads what pack_int wrote, and as many bytes.
LEMMA UnpackFacts ==
    ASSUME NEW b \in Seq(Nat), NEW at \in Nat, NEW p \in Seq(Nat), NEW v \in Nat,
           Packed(p, v), Holds(b, at, p), at + Len(p) <= ArraySize,
           NEW width \in Nat, (Len(p) - 1) * DigitBits < width, NEW garbage
    PROVE  UnpackInt(b, at, width, garbage) = [at |-> at + Len(p), value |-> v]
<1> DEFINE n == Len(p)
           stops == {k \in at + 1..Len(b) : k <= ArraySize /\ b[k] < Digit}
           last == LastByte(b, at)
<1>1. /\ n \in Nat /\ n >= 1 /\ Len(b) \in Nat /\ ArraySize \in Nat
      /\ at + n <= Len(b) /\ at + n <= ArraySize
      /\ \A k \in 1..n : b[at + k] = p[k]
      /\ \A k \in 1..n : p[k] < Digit <=> k = n
  BY LenProperties, ArraySizeAssumption DEF Packed, Holds
<1> HIDE DEF n
<1>2. last = at + n
  <2>1. at + n \in stops
    <3>1. n \in 1..n /\ at + n \in at + 1..Len(b)
      BY <1>1
    <3>2. b[at + n] < Digit
      BY <1>1, <3>1
    <3> QED BY <1>1, <3>1, <3>2
  <2>2. \A k \in stops : k >= at + n
    <3> SUFFICES ASSUME NEW k \in stops, k < at + n PROVE FALSE
      BY <1>1
    <3>1. k - at \in 1..n /\ at + (k - at) = k /\ k - at # n
      BY <1>1
    <3>2. b[k] < Digit
      OBVIOUS
    <3>3. b[at + (k - at)] = p[k - at] /\ (p[k - at] < Digit <=> k - at = n)
      BY <1>1, <3>1
    <3> QED BY <3>1, <3>2, <3>3
  <2>3. last = Min(stops)
    BY <2>1 DEF LastByte
  <2>4. stops \subseteq Nat
    BY <1>1
  <2> HIDE DEF stops, last
  <2>5. \A x \in stops : (\A y \in stops : x <= y) => x = at + n
    BY <1>1, <2>1, <2>2, <2>4
  <2> QED BY <1>1, <2>1, <2>2, <2>3, <2>5, <2>4 DEF Min
<1> HIDE DEF last
<1>3. SubSeq(b, at + 1, last) = p
  <2> DEFINE r == SubSeq(b, at + 1, at + n)
  <2>1. \A i \in at + 1..at + n : b[i] \in Nat
    <3>1. \A i \in at + 1..at + n : i \in 1..Len(b)
      BY <1>1
    <3> QED BY <3>1, ElementOfSeq
  <2>2. at + 1 \in Int /\ at + n \in Int
    BY <1>1
  <2>3. /\ r \in Seq(Nat)
        /\ Len(r) = IF at + 1 <= at + n THEN (at + n) - (at + 1) + 1 ELSE 0
        /\ \A k \in 1..(at + n) - (at + 1) + 1 : r[k] = b[at + 1 + k - 1]
    BY <2>1, <2>2, SubSeqProperties
  <2>4. (at + n) - (at + 1) + 1 = n /\ at + 1 <= at + n
    BY <1>1
  <2>5. \A k \in 1..n : at + 1 + k - 1 = at + k
    BY <1>1
  <2> HIDE DEF r
  <2>6. Len(r) = n /\ \A k \in 1..n : r[k] = p[k]
    BY <1>1, <2>3, <2>4, <2>5
  <2>7. Len(p) = n
    BY DEF n
  <2>8. r = p
    BY <2>3, <2>6, <2>7, SeqEqual
  <2> QED BY <1>2, <2>8 DEF r
<1>4. ~ ((last - at - 1) * DigitBits >= width)
  <2>1. last - at - 1 = n - 1
    BY <1>1, <1>2
  <2>2. (n - 1) * DigitBits < width /\ (n - 1) * DigitBits \in Int
    BY <1>1, BitsAssumption DEF n
  <2> QED BY <2>1, <2>2
<1>5. FoldLeft(AddDigit, [value |-> 0, weight |-> 1], p).value = v
  BY DigitsSum
<1>6. UnpackInt(b, at, width, garbage) =
          [at |-> last,
           value |-> FoldLeft(AddDigit, [value |-> 0, weight |-> 1], SubSeq(b, at + 1, last)).value]
  BY <1>4 DEF UnpackInt, last
<1> QED BY <1>2, <1>3, <1>5, <1>6 DEF n

-----------------------------------------------------------------------------
\* The flags.

\* The flags of an entry, bit by bit.
LEMMA FlagsFacts ==
    ASSUME NEW e
    PROVE  /\ Flags(e) \in 0..2047
           /\ HasFlag(Flags(e), "src_minion") <=> Present(e, "src_minion")
           /\ HasFlag(Flags(e), "src_id") <=> Present(e, "src_id")
           /\ HasFlag(Flags(e), "dst") <=> Present(e, "dst")
           /\ HasFlag(Flags(e), "dst_minion") <=> Present(e, "dst_minion")
           /\ HasFlag(Flags(e), "dst_id") <=> Present(e, "dst_id")
           /\ HasFlag(Flags(e), "effect_value_type") <=> Present(e, "effect_value_type")
           /\ HasFlag(Flags(e), "effect_value2") <=> Present(e, "effect_value2")
           /\ HasFlag(Flags(e), "effect_value_type2") <=> Present(e, "effect_value_type2")
           /\ HasFlag(Flags(e), "effect_thread") <=> Present(e, "effect_thread")
           /\ HasFlag(Flags(e), "effect_value") <=> Present(e, "effect_value")
           /\ HasFlag(Flags(e), "entry_flags") <=> Present(e, "entry_flags")
<1> DEFINE bit(f) == IF Present(e, f) THEN 1 ELSE 0
           n == Flags(e)
           a == bit("src_minion")
           b == bit("src_id")
           c == bit("dst")
           d == bit("dst_minion")
           i == bit("dst_id")
           j == bit("effect_value_type")
           k == bit("effect_value2")
           l == bit("effect_value_type2")
           o == bit("effect_thread")
           p == bit("effect_value")
           q == bit("entry_flags")
<1>1. \A f : bit(f) \in 0..1 /\ (bit(f) = 1 <=> Present(e, f))
  OBVIOUS
<1>2. n = a + 2 * b + 4 * c + 8 * d + 16 * i + 32 * j + 64 * k + 128 * l + 256 * o
          + 512 * p + 1024 * q
  BY DEF Flags, FlagBit
<1>3. /\ HasFlag(n, "src_minion") <=> (n \div 1) % 2 = 1
      /\ HasFlag(n, "src_id") <=> (n \div 2) % 2 = 1
      /\ HasFlag(n, "dst") <=> (n \div 4) % 2 = 1
      /\ HasFlag(n, "dst_minion") <=> (n \div 8) % 2 = 1
      /\ HasFlag(n, "dst_id") <=> (n \div 16) % 2 = 1
      /\ HasFlag(n, "effect_value_type") <=> (n \div 32) % 2 = 1
      /\ HasFlag(n, "effect_value2") <=> (n \div 64) % 2 = 1
      /\ HasFlag(n, "effect_value_type2") <=> (n \div 128) % 2 = 1
      /\ HasFlag(n, "effect_thread") <=> (n \div 256) % 2 = 1
      /\ HasFlag(n, "effect_value") <=> (n \div 512) % 2 = 1
      /\ HasFlag(n, "entry_flags") <=> (n \div 1024) % 2 = 1
  <2> HIDE DEF n
  <2> QED BY DEF HasFlag, FlagBit
<1> HIDE DEF n, bit
<1>4. /\ a \in 0..1 /\ b \in 0..1 /\ c \in 0..1 /\ d \in 0..1 /\ i \in 0..1 /\ j \in 0..1
      /\ k \in 0..1 /\ l \in 0..1 /\ o \in 0..1 /\ p \in 0..1 /\ q \in 0..1
  BY <1>1
<1> HIDE DEF a, b, c, d, i, j, k, l, o, p, q
<1>5. n \in 0..2047
  BY <1>2, <1>4
<1>6. (n \div 1) % 2 = a
  <2> DEFINE low == 0
             high == b + 2 * c + 4 * d + 8 * i + 16 * j + 32 * k + 64 * l + 128 * o + 256 * p + 512 * q
  <2>1. low \in 0..0 /\ high \in Nat /\ n = low + 1 * (a + 2 * high)
    BY <1>2, <1>4, SMTT(30)
  <2> HIDE DEF low, high
  <2> DEFINE r == a + 2 * high
  <2>2. r \in Nat /\ r % 2 = a
    BY <1>4, <2>1
  <2> HIDE DEF r
  <2>3. low \in 0..0 /\ n = low + 1 * r
    BY <2>1 DEF r
  <2>4. n \div 1 = r
    BY <2>2, <2>3
  <2> QED BY <2>2, <2>4
<1>7. (n \div 2) % 2 = b
  <2> DEFINE low == a
             high == c + 2 * d + 4 * i + 8 * j + 16 * k + 32 * l + 64 * o + 128 * p + 256 * q
  <2>1. low \in 0..1 /\ high \in Nat /\ n = low + 2 * (b + 2 * high)
    BY <1>2, <1>4, SMTT(30)
  <2> HIDE DEF low, high
  <2> DEFINE r == b + 2 * high
  <2>2. r \in Nat /\ r % 2 = b
    BY <1>4, <2>1
  <2> HIDE DEF r
  <2>3. low \in 0..1 /\ n = low + 2 * r
    BY <2>1 DEF r
  <2>4. n \div 2 = r
    BY <2>2, <2>3
  <2> QED BY <2>2, <2>4
<1>8. (n \div 4) % 2 = c
  <2> DEFINE low == a + 2 * b
             high == d + 2 * i + 4 * j + 8 * k + 16 * l + 32 * o + 64 * p + 128 * q
  <2>1. low \in 0..3 /\ high \in Nat /\ n = low + 4 * (c + 2 * high)
    BY <1>2, <1>4, SMTT(30)
  <2> HIDE DEF low, high
  <2> DEFINE r == c + 2 * high
  <2>2. r \in Nat /\ r % 2 = c
    BY <1>4, <2>1
  <2> HIDE DEF r
  <2>3. low \in 0..3 /\ n = low + 4 * r
    BY <2>1 DEF r
  <2>4. n \div 4 = r
    BY <2>2, <2>3
  <2> QED BY <2>2, <2>4
<1>9. (n \div 8) % 2 = d
  <2> DEFINE low == a + 2 * b + 4 * c
             high == i + 2 * j + 4 * k + 8 * l + 16 * o + 32 * p + 64 * q
  <2>1. low \in 0..7 /\ high \in Nat /\ n = low + 8 * (d + 2 * high)
    BY <1>2, <1>4, SMTT(30)
  <2> HIDE DEF low, high
  <2> DEFINE r == d + 2 * high
  <2>2. r \in Nat /\ r % 2 = d
    BY <1>4, <2>1
  <2> HIDE DEF r
  <2>3. low \in 0..7 /\ n = low + 8 * r
    BY <2>1 DEF r
  <2>4. n \div 8 = r
    BY <2>2, <2>3
  <2> QED BY <2>2, <2>4
<1>10. (n \div 16) % 2 = i
  <2> DEFINE low == a + 2 * b + 4 * c + 8 * d
             high == j + 2 * k + 4 * l + 8 * o + 16 * p + 32 * q
  <2>1. low \in 0..15 /\ high \in Nat /\ n = low + 16 * (i + 2 * high)
    BY <1>2, <1>4, SMTT(30)
  <2> HIDE DEF low, high
  <2> DEFINE r == i + 2 * high
  <2>2. r \in Nat /\ r % 2 = i
    BY <1>4, <2>1
  <2> HIDE DEF r
  <2>3. low \in 0..15 /\ n = low + 16 * r
    BY <2>1 DEF r
  <2>4. n \div 16 = r
    BY <2>2, <2>3
  <2> QED BY <2>2, <2>4
<1>11. (n \div 32) % 2 = j
  <2> DEFINE low == a + 2 * b + 4 * c + 8 * d + 16 * i
             high == k + 2 * l + 4 * o + 8 * p + 16 * q
  <2>1. low \in 0..31 /\ high \in Nat /\ n = low + 32 * (j + 2 * high)
    BY <1>2, <1>4, SMTT(30)
  <2> HIDE DEF low, high
  <2> DEFINE r == j + 2 * high
  <2>2. r \in Nat /\ r % 2 = j
    BY <1>4, <2>1
  <2> HIDE DEF r
  <2>3. low \in 0..31 /\ n = low + 32 * r
    BY <2>1 DEF r
  <2>4. n \div 32 = r
    BY <2>2, <2>3
  <2> QED BY <2>2, <2>4
<1>12. (n \div 64) % 2 = k
  <2> DEFINE low == a + 2 * b + 4 * c + 8 * d + 16 * i + 32 * j
             high == l + 2 * o + 4 * p + 8 * q
  <2>1. low \in 0..63 /\ high \in Nat /\ n = low + 64 * (k + 2 * high)
    BY <1>2, <1>4, SMTT(30)
  <2> HIDE DEF low, high
  <2> DEFINE r == k + 2 * high
  <2>2. r \in Nat /\ r % 2 = k
    BY <1>4, <2>1
  <2> HIDE DEF r
  <2>3. low \in 0..63 /\ n = low + 64 * r
    BY <2>1 DEF r
  <2>4. n \div 64 = r
    BY <2>2, <2>3
  <2> QED BY <2>2, <2>4
<1>13. (n \div 128) % 2 = l
  <2> DEFINE low == a + 2 * b + 4 * c + 8 * d + 16 * i + 32 * j + 64 * k
             high == o + 2 * p + 4 * q
  <2>1. low \in 0..127 /\ high \in Nat /\ n = low + 128 * (l + 2 * high)
    BY <1>2, <1>4, SMTT(30)
  <2> HIDE DEF low, high
  <2> DEFINE r == l + 2 * high
  <2>2. r \in Nat /\ r % 2 = l
    BY <1>4, <2>1
  <2> HIDE DEF r
  <2>3. low \in 0..127 /\ n = low + 128 * r
    BY <2>1 DEF r
  <2>4. n \div 128 = r
    BY <2>2, <2>3
  <2> QED BY <2>2, <2>4
<1>14. (n \div 256) % 2 = o
  <2> DEFINE low == a + 2 * b + 4 * c + 8 * d + 16 * i + 32 * j + 64 * k + 128 * l
             high == p + 2 * q
  <2>1. low \in 0..255 /\ high \in Nat /\ n = low + 256 * (o + 2 * high)
    BY <1>2, <1>4, SMTT(30)
  <2> HIDE DEF low, high
  <2> DEFINE r == o + 2 * high
  <2>2. r \in Nat /\ r % 2 = o
    BY <1>4, <2>1
  <2> HIDE DEF r
  <2>3. low \in 0..255 /\ n = low + 256 * r
    BY <2>1 DEF r
  <2>4. n \div 256 = r
    BY <2>2, <2>3
  <2> QED BY <2>2, <2>4
<1>15. (n \div 512) % 2 = p
  <2> DEFINE low == a + 2 * b + 4 * c + 8 * d + 16 * i + 32 * j + 64 * k + 128 * l + 256 * o
             high == q
  <2>1. low \in 0..511 /\ high \in Nat /\ n = low + 512 * (p + 2 * high)
    BY <1>2, <1>4, SMTT(30)
  <2> HIDE DEF low, high
  <2> DEFINE r == p + 2 * high
  <2>2. r \in Nat /\ r % 2 = p
    BY <1>4, <2>1
  <2> HIDE DEF r
  <2>3. low \in 0..511 /\ n = low + 512 * r
    BY <2>1 DEF r
  <2>4. n \div 512 = r
    BY <2>2, <2>3
  <2> QED BY <2>2, <2>4
<1>16. (n \div 1024) % 2 = q
  <2> DEFINE low == a + 2 * b + 4 * c + 8 * d + 16 * i + 32 * j + 64 * k + 128 * l + 256 * o + 512 * p
             high == 0
  <2>1. low \in 0..1023 /\ high \in Nat /\ n = low + 1024 * (q + 2 * high)
    BY <1>2, <1>4, SMTT(30)
  <2> HIDE DEF low, high
  <2> DEFINE r == q + 2 * high
  <2>2. r \in Nat /\ r % 2 = q
    BY <1>4, <2>1
  <2> HIDE DEF r
  <2>3. low \in 0..1023 /\ n = low + 1024 * r
    BY <2>1 DEF r
  <2>4. n \div 1024 = r
    BY <2>2, <2>3
  <2> QED BY <2>2, <2>4
<1>17. /\ a = 1 <=> Present(e, "src_minion")
       /\ b = 1 <=> Present(e, "src_id")
       /\ c = 1 <=> Present(e, "dst")
       /\ d = 1 <=> Present(e, "dst_minion")
       /\ i = 1 <=> Present(e, "dst_id")
       /\ j = 1 <=> Present(e, "effect_value_type")
       /\ k = 1 <=> Present(e, "effect_value2")
       /\ l = 1 <=> Present(e, "effect_value_type2")
       /\ o = 1 <=> Present(e, "effect_thread")
       /\ p = 1 <=> Present(e, "effect_value")
       /\ q = 1 <=> Present(e, "entry_flags")
  BY <1>1 DEF a, b, c, d, i, j, k, l, o, p, q
<1> QED BY <1>3, <1>5, <1>6, <1>7, <1>8, <1>9, <1>10, <1>11, <1>12, <1>13, <1>14, <1>15, <1>16, <1>17 DEF n

-----------------------------------------------------------------------------
\* The fields in their order.

\* Where a field stands in the order.
Index == [time |-> 1, src |-> 2, ability |-> 3, effect_action |-> 4, effect_type |-> 5,
          src_minion |-> 6, src_id |-> 7, dst |-> 8, dst_minion |-> 9, dst_id |-> 10,
          effect_value_type |-> 11, effect_value2 |-> 12, effect_value_type2 |-> 13,
          effect_thread |-> 14, effect_value |-> 15, entry_flags |-> 16]

\* The flags are one of the sums a byte and three bits can hold.
LEMMA FlagsRange ==
    ASSUME NEW e
    PROVE  Flags(e) \in FlagSums /\ Flags(e) \in Nat
<1>1. Flags(e) \in 0..2047
  BY FlagsFacts
<1> DEFINE v == Flags(e)
<1>2. v \in 0..2047
  BY <1>1
<1> HIDE DEF v
<1>3. v \in 0..2047 /\ v \in Nat
  BY <1>2
<1>4. v \in FlagSums /\ v \in Nat
  BY <1>3 DEF FlagSums
<1> QED BY <1>4 DEF v

LEMMA OrderFacts ==
    /\ Len(Order) = 16 /\ DOMAIN Order = 1..16
    /\ \A i \in 1..16 : Order[i] \in Fields /\ Index[Order[i]] = i
    /\ \A f \in Fields : Index[f] \in 1..16 /\ Order[Index[f]] = f
    /\ "src" \in Fields /\ "dst" \in Fields /\ Index["src"] = 2 /\ Index["dst"] = 8
<1>1. Len(Order) = 16 /\ DOMAIN Order = 1..16
  BY DEF Order
<1>2. ASSUME NEW i \in 1..16 PROVE Index[Order[i]] = i
  <2>1. \/ i = 1 \/ i = 2 \/ i = 3 \/ i = 4 \/ i = 5 \/ i = 6 \/ i = 7 \/ i = 8 \/ i = 9
        \/ i = 10 \/ i = 11 \/ i = 12 \/ i = 13 \/ i = 14 \/ i = 15 \/ i = 16
    OBVIOUS
  <2> QED BY <2>1 DEF Order, Index
<1>3. Fields = {Order[i] : i \in 1..16}
  <2>1. Fields = {Order[i] : i \in DOMAIN Order}
    BY DEF Fields, ToSet
  <2> QED BY <1>1, <2>1
<1>4. Order[2] = "src" /\ Order[8] = "dst"
  BY DEF Order
<1> QED BY <1>1, <1>2, <1>3, <1>4

\* An optional field is written when its flag is set, which says that it is present.
LEMMA FlaggedFacts ==
    ASSUME NEW e, NEW f \in Fields \ Required
    PROVE  HasFlag(Flags(e), f) <=> Present(e, f)
<1>1. \/ f = "src_minion" \/ f = "src_id" \/ f = "dst" \/ f = "dst_minion" \/ f = "dst_id"
      \/ f = "effect_value_type" \/ f = "effect_value2" \/ f = "effect_value_type2"
      \/ f = "effect_thread" \/ f = "effect_value" \/ f = "entry_flags"
  <2>1. PICK i \in 1..16 : f = Order[i]
    BY OrderFacts
  <2>2. \/ i = 1 \/ i = 2 \/ i = 3 \/ i = 4 \/ i = 5 \/ i = 6 \/ i = 7 \/ i = 8 \/ i = 9
        \/ i = 10 \/ i = 11 \/ i = 12 \/ i = 13 \/ i = 14 \/ i = 15 \/ i = 16
    OBVIOUS
  <2> QED BY <2>1, <2>2 DEF Order, Required
<1> QED BY <1>1, FlagsFacts

LEMMA LastByteType ==
    ASSUME NEW b \in Seq(Nat), NEW at \in Nat
    PROVE  LastByte(b, at) \in Nat
<1> DEFINE stops == {k \in at + 1..Len(b) : k <= ArraySize /\ b[k] < Digit}
<1>1. stops \in SUBSET Nat
  BY LenProperties
<1>2. LastByte(b, at) = IF stops = {} THEN ArraySize ELSE Min(stops)
  BY DEF LastByte
<1> HIDE DEF stops
<1>3. CASE stops = {}
  BY <1>2, <1>3, ArraySizeAssumption
<1>4. CASE stops # {}
  <2>1. PICK x \in stops : \A y \in stops : x <= y
    BY <1>1, <1>4, NatMin
  <2>2. Min(stops) \in stops
    BY <2>1 DEF Min
  <2> QED BY <1>1, <1>2, <1>4, <2>2
<1> QED BY <1>3, <1>4

-----------------------------------------------------------------------------
\* The loops over the fields, one field after the other.

\* g gives the bytes after i fields.
Packs(g, e) ==
    /\ g[0] = PackInt(<< >>, Flags(e))
    /\ \A i \in 1..16 : g[i] = PackField(g[i - 1], e, Flags(e), Order[i])
    /\ Compress(e) = g[16]

LEMMA PackSteps ==
    ASSUME NEW e, \A f \in Fields : e[f] \in Nat
    PROVE  \E g : Packs(g, e)
<1> DEFINE X == Seq(Nat)
           n == 16
           flags == Flags(e)
           base == PackInt(<< >>, flags)
           Val(it, S) == IF S = {} THEN base ELSE PackField(it[S \ {Max(S)}], e, flags, Order[Max(S)])
           Eq(it) == it = [S \in SUBSET (1..n) |-> Val(it, S)]
           F == CHOOSE it : Eq(it)
           step == [i \in Nat |-> [x \in X |-> IF i \in 1..n THEN PackField(x, e, flags, Order[i]) ELSE x]]
<1>1. n \in Nat /\ DOMAIN Order = 1..n /\ \A i \in 1..n : Order[i] \in Fields
  BY OrderFacts
<1>2. Compress(e) = F[1..n]
  BY <1>1 DEF Compress, FoldLeft, MapThenFoldSet
<1>3. \A i \in 1..n, x \in X : PackField(x, e, flags, Order[i]) \in X
  BY <1>1, PackType DEF PackField
<1>4. step \in [Nat -> [X -> X]] /\ base \in X
  <2> HIDE DEF n
  <2>1. \A i \in Nat, x \in X : (IF i \in 1..n THEN PackField(x, e, flags, Order[i]) ELSE x) \in X
    <3> HIDE DEF flags
    <3> QED BY <1>3
  <2>2. base \in X
    <3>1. << >> \in Seq(Nat) /\ flags \in Nat
      BY FlagsRange
    <3> QED BY <3>1, PackType
  <2> HIDE DEF X, base, flags
  <2> QED BY <2>1, <2>2
<1>5. \A i \in 1..n, x \in X : step[i][x] = PackField(x, e, flags, Order[i])
  <2> HIDE DEF n, X, flags
  <2> QED BY <1>1
<1> HIDE DEF step, n, X, base, flags
<1>6. PICK it \in [SUBSET (1..n) -> X] : IsFold(it, base, step, n)
  BY <1>1, <1>4, FoldExists
<1>7. ASSUME NEW S \in SUBSET (1..n), S # {}
      PROVE  it[S] = PackField(it[S \ {Max(S)}], e, flags, Order[Max(S)])
  <2>1. Max(S) \in 1..n /\ S \ {Max(S)} \in SUBSET (1..n)
    BY <1>1, <1>7, MaxInside
  <2>2. it[S] = step[Max(S)][it[S \ {Max(S)}]] /\ it[S \ {Max(S)}] \in X
    BY <1>6, <1>7, <2>1 DEF IsFold
  <2> QED BY <1>5, <2>1, <2>2
<1>8. Eq(it)
  <2>1. \A S \in SUBSET (1..n) : it[S] = Val(it, S)
    BY <1>6, <1>7 DEF IsFold
  <2> HIDE DEF Val
  <2> QED BY <1>6, <2>1
<1>9. Eq(F)
  <2> HIDE DEF Eq
  <2> QED BY <1>8
<1>10. F[{}] = base /\ \A i \in 1..n : F[1..i] = PackField(F[1..i - 1], e, flags, Order[i])
  <2> HIDE DEF F
  <2>1. F[{}] = base
    BY <1>9
  <2>2. ASSUME NEW i \in 1..n PROVE F[1..i] = PackField(F[1..i - 1], e, flags, Order[i])
    <3>1. 1..i \in SUBSET (1..n) /\ i \in Nat /\ i > 0
      BY <1>1
    <3>2. Max(1..i) = i /\ 1..i # {} /\ (1..i) \ {i} = 1..i - 1
      BY <3>1, TopOfInterval
    <3> QED BY <3>1, <3>2, <1>9
  <2> QED BY <2>1, <2>2
<1> DEFINE g == [i \in 0..n |-> F[1..i]]
<1> HIDE DEF F
<1>11. g[0] = base /\ g[n] = F[1..n] /\ \A i \in 1..n : g[i] = PackField(g[i - 1], e, flags, Order[i])
  BY <1>1, <1>10
<1> HIDE DEF g
<1> QED BY <1>2, <1>11 DEF n, base, flags, Packs

\* g gives what was read after i fields.
Reads(g, b, garbage) ==
    LET flags == UnpackInt(b, 0, FlagsBits, garbage)
    IN  /\ g[0] = [at |-> flags.at, entry |-> [f \in Fields |-> 0]]
        /\ \A i \in 1..16 : g[i] = UnpackField(b, g[i - 1], flags.value, Order[i], garbage)
        /\ Uncompress(b, garbage) = g[16]

LEMMA ReadSteps ==
    ASSUME NEW b \in Seq(Nat), NEW garbage
    PROVE  \E g : Reads(g, b, garbage)
<1> DEFINE Y == {UnpackInt(b, at, Bits(f), garbage).value : at \in Nat, f \in Fields} \cup {0}
           X == [at : Nat, entry : [Fields -> Y]]
           n == 16
           flags == UnpackInt(b, 0, FlagsBits, garbage)
           w == flags.value
           base == [at |-> flags.at, entry |-> [f \in Fields |-> 0]]
           Op(x, f) == UnpackField(b, x, w, f, garbage)
           Val(it, S) == IF S = {} THEN base ELSE Op(it[S \ {Max(S)}], Order[Max(S)])
           Eq(it) == it = [S \in SUBSET (1..n) |-> Val(it, S)]
           F == CHOOSE it : Eq(it)
           step == [i \in Nat |-> [x \in X |-> IF i \in 1..n THEN Op(x, Order[i]) ELSE x]]
<1>1. n \in Nat /\ DOMAIN Order = 1..n /\ \A i \in 1..n : Order[i] \in Fields
  BY OrderFacts
<1>2. Uncompress(b, garbage) = F[1..n]
  BY <1>1 DEF Uncompress, FoldLeft, MapThenFoldSet
<1>3. ASSUME NEW f \in Fields, NEW x \in X PROVE Op(x, f) \in X
  <2>1. x.at \in Nat /\ x.entry \in [Fields -> Y]
    OBVIOUS
  <2> DEFINE v == UnpackInt(b, x.at, Bits(f), garbage)
  <2>2. v.value \in Y
    BY <2>1
  <2>3. v.at \in Nat
    BY <2>1, LastByteType DEF UnpackInt
  <2> HIDE DEF v, Y
  <2> DEFINE r == [at |-> v.at,
                   entry |-> [g \in Fields |-> IF g = f \/ (f = "src" /\ g = "dst")
                                               THEN v.value ELSE x.entry[g]]]
  <2>4. r \in X
    BY <2>1, <2>2, <2>3
  <2>5. Op(x, f) = IF f \in Required \/ HasFlag(w, f) THEN r ELSE x
    BY DEF UnpackField, v
  <2> HIDE DEF r, X, Op
  <2> QED BY <2>4, <2>5
<1>4. step \in [Nat -> [X -> X]] /\ base \in X
  <2> HIDE DEF n
  <2>1. \A i \in Nat, x \in X : (IF i \in 1..n THEN Op(x, Order[i]) ELSE x) \in X
    <3> HIDE DEF X, Op
    <3> QED BY <1>1, <1>3
  <2>2. base \in X
    <3>1. flags.at \in Nat
      BY LastByteType DEF UnpackInt
    <3>2. 0 \in Y
      OBVIOUS
    <3> HIDE DEF flags, Y
    <3> QED BY <3>1, <3>2
  <2> HIDE DEF X, base, Op
  <2> QED BY <2>1, <2>2
<1>5. \A i \in 1..n, x \in X : step[i][x] = Op(x, Order[i])
  <2> HIDE DEF n, X, Op
  <2> QED BY <1>1
<1> HIDE DEF step, n, X, base, Op
<1>6. PICK it \in [SUBSET (1..n) -> X] : IsFold(it, base, step, n)
  BY <1>1, <1>4, FoldExists
<1>7. ASSUME NEW S \in SUBSET (1..n), S # {}
      PROVE  it[S] = Op(it[S \ {Max(S)}], Order[Max(S)])
  <2>1. Max(S) \in 1..n /\ S \ {Max(S)} \in SUBSET (1..n)
    BY <1>1, <1>7, MaxInside
  <2>2. it[S] = step[Max(S)][it[S \ {Max(S)}]] /\ it[S \ {Max(S)}] \in X
    BY <1>6, <1>7, <2>1 DEF IsFold
  <2> QED BY <1>5, <2>1, <2>2
<1>8. Eq(it)
  <2>1. \A S \in SUBSET (1..n) : it[S] = Val(it, S)
    BY <1>6, <1>7 DEF IsFold
  <2> HIDE DEF Val
  <2> QED BY <1>6, <2>1
<1>9. Eq(F)
  <2> HIDE DEF Eq
  <2> QED BY <1>8
<1>10. F[{}] = base /\ \A i \in 1..n : F[1..i] = Op(F[1..i - 1], Order[i])
  <2> HIDE DEF F
  <2>1. F[{}] = base
    BY <1>9
  <2>2. ASSUME NEW i \in 1..n PROVE F[1..i] = Op(F[1..i - 1], Order[i])
    <3>1. 1..i \in SUBSET (1..n) /\ i \in Nat /\ i > 0
      BY <1>1
    <3>2. Max(1..i) = i /\ 1..i # {} /\ (1..i) \ {i} = 1..i - 1
      BY <3>1, TopOfInterval
    <3> QED BY <3>1, <3>2, <1>9
  <2> QED BY <2>1, <2>2
<1> DEFINE g == [i \in 0..n |-> F[1..i]]
<1> HIDE DEF F
<1>11. g[0] = base /\ g[n] = F[1..n] /\ \A i \in 1..n : g[i] = Op(g[i - 1], Order[i])
  BY <1>1, <1>10
<1> HIDE DEF g
<1> QED BY <1>2, <1>11 DEF n, base, Op, Reads

\* g gives the bytes that the greatest values of the flags and i fields take.
Spaces(g) ==
    /\ g[0] = Sizes["flags"]
    /\ \A i \in 1..16 : g[i] = g[i - 1] + Sizes[Order[i]]
    /\ \A i \in 0..16 : g[i] \in Nat
    /\ g[16] <= ArraySize

LEMMA SpaceSteps == \E g : Spaces(g)
<1> DEFINE X == Nat
           n == 16
           base == Sizes["flags"]
           Val(it, S) == IF S = {} THEN base ELSE it[S \ {Max(S)}] + Sizes[Order[Max(S)]]
           Eq(it) == it = [S \in SUBSET (1..n) |-> Val(it, S)]
           F == CHOOSE it : Eq(it)
           step == [i \in Nat |-> [x \in X |-> IF i \in 1..n THEN x + Sizes[Order[i]] ELSE x]]
<1>1. n \in Nat /\ DOMAIN Order = 1..n /\ \A i \in 1..n : Order[i] \in Fields
  BY OrderFacts
<1>2. F[1..n] <= ArraySize
  <2>1. LongestEntry = F[1..n]
    BY <1>1 DEF LongestEntry, FoldLeft, MapThenFoldSet
  <2> HIDE DEF F
  <2> QED BY <2>1, FieldSizesAssumption
<1>3. base \in Nat /\ \A i \in 1..n : Sizes[Order[i]] \in Nat
  BY <1>1, FieldSizesAssumption, ArraySizeAssumption
<1>4. step \in [Nat -> [X -> X]] /\ base \in X
  <2> HIDE DEF n, base
  <2>1. \A i \in Nat, x \in X : (IF i \in 1..n THEN x + Sizes[Order[i]] ELSE x) \in X
    BY <1>3
  <2>2. base \in X
    BY <1>3
  <2> HIDE DEF X
  <2> QED BY <2>1, <2>2
<1>5. \A i \in 1..n, x \in X : step[i][x] = x + Sizes[Order[i]]
  <2> HIDE DEF n, X
  <2> QED BY <1>1
<1> HIDE DEF step, n, X, base
<1>6. PICK it \in [SUBSET (1..n) -> X] : IsFold(it, base, step, n)
  BY <1>1, <1>4, FoldExists
<1>7. ASSUME NEW S \in SUBSET (1..n), S # {}
      PROVE  it[S] = it[S \ {Max(S)}] + Sizes[Order[Max(S)]]
  <2>1. Max(S) \in 1..n /\ S \ {Max(S)} \in SUBSET (1..n)
    BY <1>1, <1>7, MaxInside
  <2>2. it[S] = step[Max(S)][it[S \ {Max(S)}]] /\ it[S \ {Max(S)}] \in X
    BY <1>6, <1>7, <2>1 DEF IsFold
  <2> QED BY <1>5, <2>1, <2>2
<1>8. Eq(it)
  <2>1. \A S \in SUBSET (1..n) : it[S] = Val(it, S)
    BY <1>6, <1>7 DEF IsFold
  <2> HIDE DEF Val
  <2> QED BY <1>6, <2>1
<1>9. Eq(F)
  <2> HIDE DEF Eq
  <2> QED BY <1>8
<1>10. F[{}] = base /\ \A i \in 1..n : F[1..i] = F[1..i - 1] + Sizes[Order[i]]
  <2> HIDE DEF F
  <2>1. F[{}] = base
    BY <1>9
  <2>2. ASSUME NEW i \in 1..n PROVE F[1..i] = F[1..i - 1] + Sizes[Order[i]]
    <3>1. 1..i \in SUBSET (1..n) /\ i \in Nat /\ i > 0
      BY <1>1
    <3>2. Max(1..i) = i /\ 1..i # {} /\ (1..i) \ {i} = 1..i - 1
      BY <3>1, TopOfInterval
    <3> QED BY <3>1, <3>2, <1>9
  <2> QED BY <2>1, <2>2
<1> DEFINE g == [i \in 0..n |-> F[1..i]]
<1> HIDE DEF F
<1>11. g[0] = base /\ g[n] = F[1..n] /\ \A i \in 1..n : g[i] = g[i - 1] + Sizes[Order[i]]
  BY <1>1, <1>10
<1> HIDE DEF g
<1>12. \A i \in 0..n : g[i] \in Nat
  <2> DEFINE P == {i \in Nat : i <= n => g[i] \in Nat}
  <2>1. 0 \in P
    BY <1>3, <1>11
  <2>2. ASSUME NEW i \in Nat, i \in P PROVE i + 1 \in P
    <3>1. CASE i + 1 <= n
      <4>1. i + 1 \in 1..n /\ (i + 1) - 1 = i /\ g[i] \in Nat
        BY <1>1, <2>2, <3>1
      <4>2. g[i + 1] = g[i] + Sizes[Order[i + 1]] /\ Sizes[Order[i + 1]] \in Nat
        BY <1>3, <1>11, <4>1
      <4> QED BY <4>1, <4>2
    <3> QED BY <3>1
  <2> HIDE DEF P
  <2>3. \A i \in Nat : i \in P
    BY <2>1, <2>2, Induct
  <2> QED BY <1>1, <2>3 DEF P
<1> QED BY <1>2, <1>11, <1>12 DEF n, base, Spaces

-----------------------------------------------------------------------------
\* compress: the bytes of an entry, field by field.

\* Bytes written behind others: the first stay what they are.
Begins(x, y) == Len(x) <= Len(y) /\ \A k \in 1..Len(x) : y[k] = x[k]

LEMMA WrittenBehind ==
    ASSUME NEW x \in Seq(Nat), NEW p \in Seq(Nat)
    PROVE  /\ x \o p \in Seq(Nat) /\ Len(x \o p) = Len(x) + Len(p)
           /\ Begins(x, x \o p)
           /\ Holds(x \o p, Len(x), p)
<1>1. Len(x) \in Nat /\ Len(p) \in Nat /\ x \o p \in Seq(Nat) /\ Len(x \o p) = Len(x) + Len(p)
  BY ConcatProperties, LenProperties
<1>2. ASSUME NEW k \in 1..Len(x) PROVE (x \o p)[k] = x[k]
  <2>1. k \in 1..Len(x) + Len(p) /\ k <= Len(x)
    BY <1>1
  <2> QED BY <2>1, ConcatProperties
<1>3. ASSUME NEW k \in 1..Len(p) PROVE (x \o p)[Len(x) + k] = p[k]
  <2>1. /\ Len(x) + k \in 1..Len(x) + Len(p)
        /\ ~ (Len(x) + k <= Len(x)) /\ (Len(x) + k) - Len(x) = k
    BY <1>1
  <2> QED BY <2>1, ConcatProperties
<1>4. Begins(x, x \o p)
  BY <1>1, <1>2 DEF Begins
<1>5. Holds(x \o p, Len(x), p)
  BY <1>1, <1>3 DEF Holds
<1> QED BY <1>1, <1>4, <1>5

LEMMA FrontOfFront ==
    ASSUME NEW x \in Seq(Nat), NEW y \in Seq(Nat), NEW z \in Seq(Nat), Begins(x, y), Begins(y, z)
    PROVE  Begins(x, z)
<1>1. Len(x) \in Nat /\ Len(y) \in Nat /\ Len(z) \in Nat
  BY LenProperties
<1> QED BY <1>1 DEF Begins

LEMMA FrontHolds ==
    ASSUME NEW x \in Seq(Nat), NEW y \in Seq(Nat), NEW p \in Seq(Nat), NEW at \in Nat,
           Holds(x, at, p), Begins(x, y)
    PROVE  Holds(y, at, p)
<1>1. Len(x) \in Nat /\ Len(y) \in Nat /\ Len(p) \in Nat
  BY LenProperties
<1>2. ASSUME NEW k \in 1..Len(p) PROVE y[at + k] = p[k]
  <2>1. at + k \in 1..Len(x)
    BY <1>1 DEF Holds
  <2> QED BY <2>1 DEF Begins, Holds
<1> QED BY <1>1, <1>2 DEF Begins, Holds

LEMMA FewerBits ==
    ASSUME NEW x \in Nat, NEW y \in Nat, x <= y, NEW d \in Nat
    PROVE  x * d <= y * d
<1>1. PICK z \in Nat : y = x + z
  BY y - x \in Nat
<1>2. (x + z) * d = x * d + z * d /\ z * d \in Nat /\ x * d \in Nat
  OBVIOUS
<1> QED BY <1>1, <1>2

\* What is not longer than its field is not wider than its type.
LEMMA WidthFacts ==
    ASSUME NEW f \in Fields \cup {"flags"}, NEW n \in Nat \ {0}, n <= Sizes[f]
    PROVE  Bits(f) \in Nat /\ (n - 1) * DigitBits < Bits(f)
<1>1. Bits(f) \in Nat /\ DigitBits \in Nat
  BY BitsAssumption DEF Bits, FlagsBits
<1>2. Sizes[f] \in Nat \ {0} /\ (Sizes[f] - 1) * DigitBits < Bits(f)
  BY FieldSizesAssumption, ArraySizeAssumption
<1> DEFINE x == n - 1
           y == Sizes[f] - 1
<1>3. x \in Nat /\ y \in Nat /\ x <= y
  BY <1>2
<1>4. y * DigitBits < Bits(f)
  BY <1>2
<1> HIDE DEF x, y
<1>5. x * DigitBits <= y * DigitBits /\ x * DigitBits \in Nat /\ y * DigitBits \in Nat
  BY <1>1, <1>3, FewerBits
<1>6. x * DigitBits < Bits(f)
  BY <1>1, <1>4, <1>5
<1> QED BY <1>1, <1>6 DEF x

-----------------------------------------------------------------------------
\* An entry that the codec has to carry: its values fit into their fields.
Sendable(e) ==
    /\ e \in [Fields -> Int]
    /\ \A f \in Fields : e[f] \in Nat /\ Shifted(e[f])[Sizes[f]] = 0

\* The fields that are written.
Written(e, f) == f \in Required \/ Present(e, f)

\* p are the bytes of v, no more of them than the field f may take.
Piece(p, v, f) == p \in Seq(Nat) /\ Packed(p, v) /\ Len(p) <= Sizes[f]

\* c[i] are the bytes after the flags and i fields.
Layout(c, e) ==
    /\ \A i \in 0..16 : c[i] \in Seq(Nat) /\ Len(c[i]) <= ArraySize
    /\ Piece(c[0], Flags(e), "flags")
    /\ \A i \in 1..16 :
          IF Written(e, Order[i])
          THEN \E p : Piece(p, e[Order[i]], Order[i]) /\ c[i] = c[i - 1] \o p
          ELSE c[i] = c[i - 1]
    /\ \A i \in 0..16 : Begins(c[i], c[16])
    /\ c[16] = Compress(e)

LEMMA WrittenFacts ==
    ASSUME NEW e, NEW f \in Fields
    PROVE  Written(e, f) <=> f \in Required \/ HasFlag(Flags(e), f)
BY FlaggedFacts DEF Written

LEMMA PieceFacts ==
    ASSUME NEW b \in Seq(Nat), NEW v \in Nat, NEW f \in Fields \cup {"flags"},
           Shifted(v)[Sizes[f]] = 0, Len(b) + Sizes[f] <= ArraySize
    PROVE  \E p : Piece(p, v, f) /\ PackInt(b, v) = b \o p
<1> DEFINE n == Sizes[f]
<1>1. n \in 1..ArraySize
  BY FieldSizesAssumption
<1>2. Shifted(v)[n] = 0 /\ Len(b) + n <= ArraySize
  OBVIOUS
<1> HIDE DEF n
<1>3. \E p \in Seq(Nat) : Packed(p, v) /\ Len(p) <= n /\ PackInt(b, v) = b \o p
  BY <1>1, <1>2, PackFacts
<1> QED BY <1>3 DEF n, Piece

LEMMA LayoutFacts ==
    ASSUME NEW e, Sendable(e)
    PROVE  \E c : Layout(c, e)
<1>1. PICK c : Packs(c, e)
  BY PackSteps DEF Sendable
<1>2. PICK s : Spaces(s)
  BY SpaceSteps
<1>3. /\ c[0] = PackInt(<< >>, Flags(e))
      /\ \A i \in 1..16 : c[i] = PackField(c[i - 1], e, Flags(e), Order[i])
      /\ Compress(e) = c[16]
  BY <1>1 DEF Packs
<1>4. /\ s[0] = Sizes["flags"]
      /\ \A i \in 1..16 : s[i] = s[i - 1] + Sizes[Order[i]]
      /\ \A i \in 0..16 : s[i] \in Nat
      /\ s[16] <= ArraySize
  BY <1>2 DEF Spaces
<1>5. ArraySize \in Nat /\ \A f \in Fields \cup {"flags"} : Sizes[f] \in 1..ArraySize
  BY ArraySizeAssumption, FieldSizesAssumption
<1>6. \A i \in 0..16 : s[i] <= ArraySize
  <2> DEFINE P == {k \in Nat : k <= 16 => s[16 - k] <= ArraySize}
  <2>1. 0 \in P
    BY <1>4
  <2>2. ASSUME NEW k \in Nat, k \in P PROVE k + 1 \in P
    <3>1. SUFFICES ASSUME k + 1 <= 16 PROVE s[16 - (k + 1)] <= ArraySize
      OBVIOUS
    <3>2. /\ 16 - k \in 1..16 /\ (16 - k) - 1 = 16 - (k + 1) /\ 16 - (k + 1) \in 0..16
          /\ s[16 - k] <= ArraySize /\ 16 - k \in 0..16
      BY <2>2, <3>1
    <3>3. s[16 - k] = s[16 - (k + 1)] + Sizes[Order[16 - k]]
      BY <1>4, <3>2
    <3>4. Sizes[Order[16 - k]] \in Nat
      BY <1>5, <3>2, OrderFacts
    <3> QED BY <1>4, <1>5, <3>2, <3>3, <3>4
  <2> HIDE DEF P
  <2>3. \A k \in Nat : k \in P
    BY <2>1, <2>2, Induct
  <2>4. ASSUME NEW i \in 0..16 PROVE s[i] <= ArraySize
    <3>1. 16 - i \in Nat /\ 16 - i <= 16 /\ 16 - (16 - i) = i
      OBVIOUS
    <3>2. 16 - i \in P
      BY <2>3, <3>1
    <3> QED BY <3>1, <3>2 DEF P
  <2> QED BY <2>4
<1>7. Piece(c[0], Flags(e), "flags")
  <2> DEFINE v == Flags(e)
             b == << >>
  <2>1. v \in Nat /\ v \in FlagSums
    BY FlagsRange
  <2>3. b \in Seq(Nat) /\ Len(b) = 0
    OBVIOUS
  <2> HIDE DEF v, b
  <2>2. v \in Nat /\ Shifted(v)[Sizes["flags"]] = 0
    BY <2>1, FlagsAssumption
  <2>4. Len(b) + Sizes["flags"] <= ArraySize
    BY <1>5, <2>3
  <2>5. PICK p : Piece(p, v, "flags") /\ PackInt(b, v) = b \o p
    <3>1. "flags" \in Fields \cup {"flags"}
      OBVIOUS
    <3> QED BY <2>2, <2>3, <2>4, <3>1, PieceFacts
  <2>6. b \o p = p
    <3>1. p \in Seq(Nat)
      BY <2>5 DEF Piece
    <3> QED BY <3>1 DEF b
  <2> QED BY <1>3, <2>5, <2>6 DEF v, b
<1> DEFINE Step(i) ==
               IF Written(e, Order[i])
               THEN \E p : Piece(p, e[Order[i]], Order[i]) /\ c[i] = c[i - 1] \o p
               ELSE c[i] = c[i - 1]
           P == {i \in Nat : i <= 16 => /\ c[i] \in Seq(Nat) /\ Len(c[i]) <= s[i]
                                        /\ i > 0 => Step(i)}
<1>8. ASSUME NEW i \in 1..16, c[i - 1] \in Seq(Nat), Len(c[i - 1]) <= s[i - 1]
      PROVE  Step(i) /\ c[i] \in Seq(Nat) /\ Len(c[i]) <= s[i]
  <2> DEFINE f == Order[i]
             b == c[i - 1]
             v == e[f]
  <2>1. f \in Fields /\ i \in 0..16 /\ i - 1 \in 0..16
    BY OrderFacts
  <2>2. v \in Nat /\ Shifted(v)[Sizes[f]] = 0
    BY <2>1 DEF Sendable
  <2>3. /\ c[i] = PackField(b, e, Flags(e), f)
        /\ s[i] = s[i - 1] + Sizes[f] /\ s[i] \in Nat /\ s[i - 1] \in Nat /\ s[i] <= ArraySize
    BY <1>3, <1>4, <1>6, <2>1
  <2>4. b \in Seq(Nat) /\ Len(b) \in Nat /\ Len(b) <= s[i - 1]
    BY <1>8, LenProperties
  <2>5. Written(e, f) <=> f \in Required \/ HasFlag(Flags(e), f)
    BY <2>1, WrittenFacts
  <2>6. Sizes[f] \in Nat /\ f \in Fields \cup {"flags"}
    BY <1>5, <2>1
  <2>7. CASE Written(e, f)
    <3> HIDE DEF f, b, v
    <3>1. Len(b) + Sizes[f] <= ArraySize
      BY <1>5, <2>3, <2>4, <2>6
    <3>2. PICK p : Piece(p, v, f) /\ PackInt(b, v) = b \o p
      BY <2>2, <2>4, <2>6, <3>1, PieceFacts
    <3>3. c[i] = b \o p
      BY <2>3, <2>5, <2>7, <3>2 DEF PackField, v
    <3>4. p \in Seq(Nat) /\ Len(p) \in Nat /\ Len(p) <= Sizes[f]
      BY <3>2, LenProperties DEF Piece
    <3>5. b \o p \in Seq(Nat) /\ Len(b \o p) = Len(b) + Len(p)
      BY <2>4, <3>4, WrittenBehind
    <3>6. Len(c[i]) <= s[i]
      BY <2>3, <2>4, <2>6, <3>3, <3>4, <3>5
    <3> QED BY <2>7, <3>2, <3>3, <3>5, <3>6 DEF f, b, v
  <2>8. CASE ~ Written(e, f)
    <3>1. c[i] = b
      BY <2>3, <2>5, <2>8 DEF PackField
    <3>2. Len(b) <= s[i]
      BY <2>3, <2>4, <2>6
    <3> QED BY <2>4, <2>8, <3>1, <3>2
  <2> QED BY <2>7, <2>8
<1> HIDE DEF Step
<1>9. \A i \in Nat : i \in P
  <2>1. 0 \in P
    <3>1. c[0] \in Seq(Nat) /\ Len(c[0]) <= s[0]
      BY <1>4, <1>7 DEF Piece
    <3> QED BY <3>1
  <2>2. ASSUME NEW i \in Nat, i \in P PROVE i + 1 \in P
    <3>1. SUFFICES ASSUME i + 1 <= 16
                   PROVE  c[i + 1] \in Seq(Nat) /\ Len(c[i + 1]) <= s[i + 1] /\ Step(i + 1)
      OBVIOUS
    <3>2. i + 1 \in 1..16 /\ (i + 1) - 1 = i /\ i <= 16
      BY <3>1
    <3>3. c[i] \in Seq(Nat) /\ Len(c[i]) <= s[i]
      BY <2>2, <3>2
    <3>4. c[(i + 1) - 1] \in Seq(Nat) /\ Len(c[(i + 1) - 1]) <= s[(i + 1) - 1]
      BY <3>2, <3>3
    <3> HIDE DEF P
    <3> QED BY <1>8, <3>2, <3>4
  <2> HIDE DEF P
  <2> QED BY <2>1, <2>2, Induct
<1>10. \A i \in 0..16 : c[i] \in Seq(Nat) /\ Len(c[i]) <= ArraySize
  <2> SUFFICES ASSUME NEW i \in 0..16 PROVE c[i] \in Seq(Nat) /\ Len(c[i]) <= ArraySize
    OBVIOUS
  <2>1. c[i] \in Seq(Nat) /\ Len(c[i]) <= s[i]
    BY <1>9
  <2>2. Len(c[i]) \in Nat /\ s[i] \in Nat /\ s[i] <= ArraySize
    BY <1>4, <1>6, <2>1, LenProperties
  <2> QED BY <1>5, <2>1, <2>2
<1>11. \A i \in 1..16 : Step(i)
  BY <1>9
<1> HIDE DEF P
<1>12. \A i \in 0..16 : Begins(c[i], c[16])
  <2> DEFINE Q == {k \in Nat : k <= 16 => Begins(c[16 - k], c[16])}
  <2>1. 0 \in Q
    <3>1. c[16] \in Seq(Nat)
      BY <1>10
    <3>2. Len(c[16]) \in Nat
      BY <3>1, LenProperties
    <3> QED BY <3>2 DEF Begins
  <2>2. ASSUME NEW k \in Nat, k \in Q PROVE k + 1 \in Q
    <3>1. SUFFICES ASSUME k + 1 <= 16 PROVE Begins(c[16 - (k + 1)], c[16])
      OBVIOUS
    <3>2. /\ 16 - k \in 1..16 /\ (16 - k) - 1 = 16 - (k + 1)
          /\ 16 - (k + 1) \in 0..16 /\ 16 - k \in 0..16
      BY <3>1
    <3>3. Begins(c[16 - k], c[16])
      BY <2>2, <3>1
    <3> DEFINE x == c[16 - (k + 1)]
               y == c[16 - k]
               z == c[16]
    <3>4. x \in Seq(Nat) /\ y \in Seq(Nat) /\ z \in Seq(Nat)
      <4>1. x \in Seq(Nat) /\ y \in Seq(Nat)
        BY <1>10, <3>2
      <4>2. z \in Seq(Nat)
        <5>1. 16 \in 0..16
          OBVIOUS
        <5> QED BY <1>10, <5>1
      <4> QED BY <4>1, <4>2
    <3>5. Begins(x, y)
      <4>1. Step(16 - k)
        BY <1>11, <3>2
      <4>2. CASE Written(e, Order[16 - k])
        <5>1. PICK p : Piece(p, e[Order[16 - k]], Order[16 - k]) /\ y = x \o p
          BY <3>2, <4>1, <4>2 DEF Step
        <5>2. p \in Seq(Nat)
          BY <5>1 DEF Piece
        <5> HIDE DEF x, y
        <5> QED BY <3>4, <5>1, <5>2, WrittenBehind
      <4>3. CASE ~ Written(e, Order[16 - k])
        <5>1. y = x
          BY <3>2, <4>1, <4>3 DEF Step
        <5>2. Len(x) \in Nat
          BY <3>4, LenProperties
        <5> QED BY <5>1, <5>2 DEF Begins
      <4> QED BY <4>2, <4>3
    <3> HIDE DEF x, y, z
    <3>6. Begins(x, z)
      BY <3>3, <3>4, <3>5, FrontOfFront DEF y, z
    <3> QED BY <3>6 DEF x, z
  <2> HIDE DEF Q
  <2>3. \A k \in Nat : k \in Q
    BY <2>1, <2>2, Induct
  <2>4. ASSUME NEW i \in 0..16 PROVE Begins(c[i], c[16])
    <3>1. 16 - i \in Nat /\ 16 - i <= 16 /\ 16 - (16 - i) = i
      OBVIOUS
    <3>2. 16 - i \in Q
      BY <2>3, <3>1
    <3> QED BY <3>1, <3>2 DEF Q
  <2> QED BY <2>4
<1>13. Layout(c, e)
  BY <1>3, <1>7, <1>10, <1>11, <1>12 DEF Layout, Step
<1> QED BY <1>13

-----------------------------------------------------------------------------
\* uncompress: the fields come back one by one.

\* What is known of the entry after i fields: the target is the source until it is read.
PartOf(e, i) ==
    [f \in Fields |-> IF Index[f] <= i THEN e[f]
                      ELSE IF f = "dst" /\ i >= 2 THEN e["src"] ELSE 0]

LEMMA PartFacts ==
    ASSUME NEW e, NEW i \in 1..16
    PROVE  LET f == Order[i]
           IN  /\ PartOf(e, i) = [g \in Fields |-> IF g = f \/ (f = "src" /\ g = "dst")
                                                   THEN e[f] ELSE PartOf(e, i - 1)[g]]
               /\ ~ Written(e, f) => PartOf(e, i) = PartOf(e, i - 1)
<1> DEFINE f == Order[i]
           old == PartOf(e, i - 1)
           new == PartOf(e, i)
           upd == [g \in Fields |-> IF g = f \/ (f = "src" /\ g = "dst")
                                    THEN e[f] ELSE old[g]]
<1>1. /\ f \in Fields /\ Index[f] = i
      /\ \A g \in Fields : Index[g] \in 1..16 /\ (Index[g] = i => g = f)
      /\ "src" \in Fields /\ "dst" \in Fields /\ Index["src"] = 2 /\ Index["dst"] = 8
  BY OrderFacts
<1>2. \A g \in Fields : old[g] = IF Index[g] <= i - 1 THEN e[g]
                                 ELSE IF g = "dst" /\ i - 1 >= 2 THEN e["src"] ELSE 0
  BY DEF PartOf
<1>3. \A g \in Fields : new[g] = IF Index[g] <= i THEN e[g]
                                 ELSE IF g = "dst" /\ i >= 2 THEN e["src"] ELSE 0
  BY DEF PartOf
<1>4. /\ old = [g \in Fields |-> old[g]]
      /\ new = [g \in Fields |-> new[g]]
  BY DEF PartOf
<1>5. \A g \in Fields : upd[g] = IF g = f \/ (f = "src" /\ g = "dst") THEN e[f] ELSE old[g]
  OBVIOUS
<1>6. upd = [g \in Fields |-> upd[g]]
  OBVIOUS
<1> HIDE DEF f, old, new
<1>7. ASSUME NEW g \in Fields PROVE new[g] = upd[g]
  <2> HIDE DEF upd
  <2>1. CASE g = f
    BY <1>1, <1>2, <1>3, <1>5, <2>1
  <2>2. CASE g # f
    <3>1. Index[g] # i /\ Index[g] \in Nat
      BY <1>1, <2>2
    <3>2. Index[g] <= i <=> Index[g] <= i - 1
      BY <3>1
    <3>3. CASE g # "dst"
      BY <1>2, <1>3, <1>5, <2>2, <3>2, <3>3
    <3>4. CASE g = "dst"
      <4>1. i # 8
        BY <1>1, <3>1, <3>4
      <4>2. CASE f = "src"
        <5>1. i = 2
          BY <1>1, <4>2
        <5> QED BY <1>1, <1>3, <1>5, <3>4, <4>2, <5>1
      <4>3. CASE f # "src"
        <5>1. i # 2
          <6>1. i = 2 => Index["src"] = i
            BY <1>1
          <6> QED BY <1>1, <4>3, <6>1
        <5>2. upd[g] = old[g]
          BY <1>5, <2>2, <3>4, <4>3
        <5>3. i >= 2 <=> i - 1 >= 2
          BY <5>1
        <5> QED BY <1>2, <1>3, <3>2, <5>2, <5>3
      <4> QED BY <4>2, <4>3
    <3> QED BY <3>3, <3>4
  <2> QED BY <2>1, <2>2
<1>8. new = upd
  <2> HIDE DEF upd
  <2> QED BY <1>4, <1>6, <1>7
<1>9. ASSUME ~ Written(e, f) PROVE new = old
  <2>1. ~ Present(e, f) /\ f \notin Required
    BY <1>9 DEF Written
  <2>2. f # "src"
    BY <2>1 DEF Required
  <2>3. CASE f = "dst"
    <3>1. e["src"] = e["dst"] /\ i = 8
      BY <1>1, <2>1, <2>3 DEF Present
    <3>2. old["dst"] = e["dst"]
      BY <1>1, <1>2, <3>1
    <3>3. \A g \in Fields : upd[g] = old[g]
      BY <1>5, <2>3, <3>2
    <3> HIDE DEF upd
    <3> QED BY <1>4, <1>6, <1>8, <3>3
  <2>4. CASE f # "dst"
    <3>1. e[f] = 0
      BY <2>1, <2>4 DEF Present
    <3>2. old[f] = 0
      BY <1>1, <1>2, <2>4
    <3>3. \A g \in Fields : upd[g] = old[g]
      BY <1>5, <2>2, <2>4, <3>1, <3>2
    <3> HIDE DEF upd
    <3> QED BY <1>4, <1>6, <1>8, <3>3
  <2> QED BY <2>3, <2>4
<1> QED BY <1>8, <1>9 DEF f, old, new

\* One field is read back.
LEMMA PieceIsRead ==
    ASSUME NEW b \in Seq(Nat), NEW at \in Nat, NEW v \in Nat, NEW f \in Fields \cup {"flags"},
           NEW p, Piece(p, v, f), Holds(b, at, p), at + Len(p) <= ArraySize, NEW garbage
    PROVE  UnpackInt(b, at, Bits(f), garbage) = [at |-> at + Len(p), value |-> v]
<1> DEFINE width == Bits(f)
           n == Len(p)
<1>1. p \in Seq(Nat) /\ Packed(p, v) /\ n <= Sizes[f] /\ n \in Nat \ {0}
  BY ArraySizeAssumption DEF Piece, Packed
<1>2. width \in Nat /\ (n - 1) * DigitBits < width
  <2> HIDE DEF n
  <2> QED BY <1>1, WidthFacts
<1> HIDE DEF width
<1>3. UnpackInt(b, at, width, garbage) = [at |-> at + Len(p), value |-> v]
  BY <1>1, <1>2, UnpackFacts
<1> QED BY <1>3 DEF width

\* uncompress gives back what compress was given, and reads all bytes of it.
LEMMA CodecFacts ==
    ASSUME NEW e, Sendable(e), NEW garbage
    PROVE  /\ Uncompress(Compress(e), garbage) = [at |-> Len(Compress(e)), entry |-> e]
           /\ Compress(e) \in Seq(Nat) /\ Len(Compress(e)) <= ArraySize
<1>1. PICK c : Layout(c, e)
  BY LayoutFacts
<1> DEFINE b == Compress(e)
           flags == UnpackInt(b, 0, FlagsBits, garbage)
<1>2. /\ \A i \in 0..16 : c[i] \in Seq(Nat) /\ Len(c[i]) <= ArraySize
      /\ Piece(c[0], Flags(e), "flags")
      /\ \A i \in 1..16 : IF Written(e, Order[i])
                          THEN \E p : Piece(p, e[Order[i]], Order[i]) /\ c[i] = c[i - 1] \o p
                          ELSE c[i] = c[i - 1]
      /\ \A i \in 0..16 : Begins(c[i], b)
      /\ c[16] = b
  BY <1>1 DEF Layout
<1>3. b \in Seq(Nat) /\ Len(b) <= ArraySize
  <2>1. 16 \in 0..16
    OBVIOUS
  <2> QED BY <1>2, <2>1
<1> HIDE DEF b
<1>4. PICK r : Reads(r, b, garbage)
  BY <1>3, ReadSteps
<1>5. /\ r[0] = [at |-> flags.at, entry |-> [f \in Fields |-> 0]]
      /\ \A i \in 1..16 : r[i] = UnpackField(b, r[i - 1], flags.value, Order[i], garbage)
      /\ Uncompress(b, garbage) = r[16]
  BY <1>4 DEF Reads
<1>6. flags = [at |-> Len(c[0]), value |-> Flags(e)]
  <2> DEFINE p == c[0]
             v == Flags(e)
             at == 0
  <2>1. p \in Seq(Nat) /\ Len(p) <= ArraySize /\ Piece(p, v, "flags") /\ Begins(p, b)
    <3>1. 0 \in 0..16
      OBVIOUS
    <3> QED BY <1>2, <3>1
  <2>2. v \in Nat
    BY FlagsRange
  <2>3. Bits("flags") = FlagsBits
    BY DEF Bits, Signed
  <2> HIDE DEF p, v
  <2>4. Len(p) \in Nat /\ 0 + Len(p) = Len(p)
    BY <2>1, LenProperties
  <2>5. Holds(b, 0, p)
    <3>1. \A k \in 1..Len(p) : 0 + k = k
      BY <2>4
    <3> QED BY <2>1, <2>4, <3>1 DEF Begins, Holds
  <2>6. at \in Nat /\ "flags" \in Fields \cup {"flags"}
    OBVIOUS
  <2> DEFINE h == "flags"
  <2>7. h \in Fields \cup {"flags"} /\ Piece(p, v, h) /\ Holds(b, at, p) /\ at + Len(p) <= ArraySize
    BY <2>1, <2>4, <2>5
  <2> HIDE DEF at, h
  <2>8. UnpackInt(b, at, Bits(h), garbage) = [at |-> at + Len(p), value |-> v]
    BY <1>3, <2>2, <2>6, <2>7, PieceIsRead
  <2> QED BY <2>3, <2>4, <2>8 DEF at, h, p, v
<1> HIDE DEF flags
<1> DEFINE Right(i) == r[i] = [at |-> Len(c[i]), entry |-> PartOf(e, i)]
<1>7. Right(0)
  <2>1. PartOf(e, 0) = [f \in Fields |-> 0]
    <3>1. \A f \in Fields : Index[f] \in 1..16
      BY OrderFacts
    <3> QED BY <3>1 DEF PartOf
  <2> QED BY <1>5, <1>6, <2>1
<1>8. ASSUME NEW i \in 1..16, Right(i - 1) PROVE Right(i)
  <2> DEFINE f == Order[i]
             at == Len(c[i - 1])
             old == PartOf(e, i - 1)
             v == e[f]
             u == UnpackInt(b, at, Bits(f), garbage)
  <2>1. f \in Fields /\ i \in 0..16 /\ i - 1 \in 0..16
    BY OrderFacts
  <2>2. r[i - 1].at = at /\ r[i - 1].entry = old
    BY <1>8
  <2>3. r[i] = UnpackField(b, r[i - 1], Flags(e), f, garbage)
    BY <1>5, <1>6
  <2>4. r[i] = IF Written(e, f)
               THEN [at |-> u.at,
                     entry |-> [g \in Fields |-> IF g = f \/ (f = "src" /\ g = "dst")
                                                 THEN u.value ELSE old[g]]]
               ELSE r[i - 1]
    <3>1. Written(e, f) <=> f \in Required \/ HasFlag(Flags(e), f)
      BY <2>1, WrittenFacts
    <3> DEFINE w == Flags(e)
               x == r[i - 1]
    <3>2. r[i] = UnpackField(b, x, w, f, garbage) /\ x.at = at /\ x.entry = old
      BY <2>2, <2>3
    <3>3. Written(e, f) <=> f \in Required \/ HasFlag(w, f)
      BY <3>1
    <3> HIDE DEF w, x, f, at, old
    <3>4. UnpackField(b, x, w, f, garbage) =
              IF f \in Required \/ HasFlag(w, f)
              THEN [at |-> u.at,
                    entry |-> [g \in Fields |-> IF g = f \/ (f = "src" /\ g = "dst")
                                                THEN u.value ELSE old[g]]]
              ELSE x
      BY <3>2 DEF UnpackField
    <3> QED BY <3>2, <3>3, <3>4 DEF x
  <2>5. /\ PartOf(e, i) = [g \in Fields |-> IF g = f \/ (f = "src" /\ g = "dst")
                                            THEN v ELSE old[g]]
        /\ ~ Written(e, f) => PartOf(e, i) = old
    BY PartFacts
  <2>6. c[i - 1] \in Seq(Nat) /\ at \in Nat /\ v \in Nat
    BY <1>2, <2>1, LenProperties DEF Sendable
  <2>7. CASE Written(e, f)
    <3>1. PICK p : Piece(p, v, f) /\ c[i] = c[i - 1] \o p
      BY <1>2, <2>7
    <3>2. p \in Seq(Nat)
      BY <3>1 DEF Piece
    <3> DEFINE x == c[i - 1]
               y == c[i]
    <3>3. x \in Seq(Nat) /\ y \in Seq(Nat) /\ Len(y) <= ArraySize /\ Begins(y, b) /\ y = x \o p
      BY <1>2, <2>1, <3>1
    <3>4. at = Len(x) /\ at \in Nat
      BY <2>6
    <3> HIDE DEF x, y, at, v, f
    <3>5. Holds(y, at, p) /\ Len(y) = at + Len(p)
      BY <3>2, <3>3, <3>4, WrittenBehind
    <3>6. Holds(b, at, p)
      BY <1>3, <3>2, <3>3, <3>4, <3>5, FrontHolds
    <3>7. at + Len(p) <= ArraySize /\ f \in Fields \cup {"flags"} /\ v \in Nat
      BY <2>1, <2>6, <3>3, <3>5
    <3>8. u = [at |-> at + Len(p), value |-> v]
      <4>1. Piece(p, v, f) /\ at \in Nat /\ b \in Seq(Nat)
        BY <1>3, <3>1, <3>4
      <4>2. UnpackInt(b, at, Bits(f), garbage) = [at |-> at + Len(p), value |-> v]
        BY <3>6, <3>7, <4>1, PieceIsRead
      <4> QED BY <4>2
    <3> HIDE DEF u, old
    <3>9. u.at = Len(y) /\ u.value = v
      BY <3>5, <3>8
    <3> QED BY <2>4, <2>5, <2>7, <3>9 DEF y
  <2>8. CASE ~ Written(e, f)
    <3>1. c[i] = c[i - 1]
      BY <1>2, <2>8
    <3>2. r[i] = r[i - 1]
      BY <2>4, <2>8
    <3>3. PartOf(e, i) = old
      BY <2>5, <2>8
    <3> QED BY <1>8, <3>1, <3>2, <3>3
  <2> QED BY <2>7, <2>8
<1>9. Right(16)
  <2> HIDE DEF Right
  <2> DEFINE P == {i \in Nat : i <= 16 => Right(i)}
  <2>1. 0 \in P
    BY <1>7
  <2>2. ASSUME NEW i \in Nat, i \in P PROVE i + 1 \in P
    <3>1. SUFFICES ASSUME i + 1 <= 16 PROVE Right(i + 1)
      OBVIOUS
    <3>2. i + 1 \in 1..16 /\ (i + 1) - 1 = i /\ i <= 16
      BY <3>1
    <3>3. Right((i + 1) - 1)
      BY <2>2, <3>2
    <3> QED BY <1>8, <3>2, <3>3
  <2> HIDE DEF P
  <2>3. 16 \in P
    BY <2>1, <2>2, Induct
  <2> QED BY <2>3 DEF P
<1>10. PartOf(e, 16) = e
  <2>1. e = [f \in Fields |-> e[f]]
    BY DEF Sendable
  <2>2. \A f \in Fields : Index[f] <= 16
    BY OrderFacts
  <2> QED BY <2>1, <2>2 DEF PartOf
<1>11. r[16] = [at |-> Len(b), entry |-> e]
  BY <1>2, <1>9, <1>10
<1> QED BY <1>3, <1>5, <1>11 DEF b

-----------------------------------------------------------------------------
\* The codec as it runs.

LEMMA EntrySendable ==
    ASSUME NEW e \in Entries, \A f \in Signed : e[f] >= 0
    PROVE  Sendable(e)
<1>1. /\ e \in [Fields -> Int]
      /\ \A f \in Fields : e[f] >= 0 => Shifted(e[f])[Sizes[f]] = 0
      /\ \A f \in Fields \ Signed : e[f] >= 0
  BY EntriesAssumption
<1>2. ASSUME NEW f \in Fields PROVE e[f] \in Nat /\ Shifted(e[f])[Sizes[f]] = 0
  <2>1. e[f] \in Int /\ e[f] >= 0
    BY <1>1
  <2>2. Shifted(e[f])[Sizes[f]] = 0
    BY <1>1, <2>1
  <2> QED BY <2>1, <2>2
<1> QED BY <1>1, <1>2 DEF Sendable

\* What was sent is the compressed entry, and what was received came from it.
CodecInv ==
    /\ entry \in Entries
    /\ stage \in {"parsed", "sent", "received"}
    /\ stage # "parsed" => bytes = Compress(entry)
    /\ stage = "received" =>
          \E garbage \in Garbage :
             /\ result = Uncompress(bytes, garbage).entry
             /\ taken = Uncompress(bytes, garbage).at

LEMMA CodecInitially == CodecInit => CodecInv
BY DEF CodecInit, CodecInv

LEMMA CodecStepKeeps == CodecInv /\ [CodecNext]_codecVars => CodecInv'
<1> SUFFICES ASSUME CodecInv, [CodecNext]_codecVars PROVE CodecInv'
  OBVIOUS
<1>1. CASE Send
  BY <1>1 DEF Send, CodecInv
<1>2. CASE Receive
  <2>1. PICK garbage \in Garbage :
          result' = Uncompress(bytes, garbage).entry /\ taken' = Uncompress(bytes, garbage).at
    BY <1>2 DEF Receive
  <2>2. stage = "sent" /\ stage' = "received" /\ entry' = entry /\ bytes' = bytes
    BY <1>2 DEF Receive
  <2> QED BY <2>1, <2>2 DEF CodecInv
<1>3. CASE UNCHANGED codecVars
  BY <1>3 DEF codecVars, CodecInv
<1> QED BY <1>1, <1>2, <1>3 DEF CodecNext

LEMMA CodecIsRight == CodecInv => RoundTrip
<1> SUFFICES ASSUME CodecInv, stage = "received", \A f \in Signed : entry[f] >= 0
             PROVE  result = entry /\ taken = Len(bytes) /\ taken <= ArraySize
  BY DEF RoundTrip
<1>1. Sendable(entry)
  BY EntrySendable DEF CodecInv
<1>2. PICK garbage \in Garbage :
         result = Uncompress(bytes, garbage).entry /\ taken = Uncompress(bytes, garbage).at
  BY DEF CodecInv
<1>3. bytes = Compress(entry)
  BY DEF CodecInv
<1>4. /\ Uncompress(bytes, garbage) = [at |-> Len(bytes), entry |-> entry]
      /\ Len(bytes) <= ArraySize
  BY <1>1, <1>3, CodecFacts
<1> QED BY <1>2, <1>4

\* An entry in which nothing is negative comes back from uncompress field by field as
\* compress was given it, all bytes that were written are read, and they fit into the
\* array: whatever the widths of the digits and the integers are.
THEOREM EntriesComeBack == CodecSpec => []RoundTrip
<1>1. CodecSpec => []CodecInv
  BY CodecInitially, CodecStepKeeps, PTL DEF CodecSpec
<1> QED BY <1>1, CodecIsRight, PTL

-----------------------------------------------------------------------------
\* An entry on the stream.

LEMMA ProducedArePackets == StreamSpec => [](produced \in Seq(Packets))
<1>1. StreamInit => produced \in Seq(Packets)
  BY DEF StreamInit
<1>2. produced \in Seq(Packets) /\ [StreamNext]_streamVars => (produced \in Seq(Packets))'
  <2> SUFFICES ASSUME produced \in Seq(Packets), [StreamNext]_streamVars
               PROVE  produced' \in Seq(Packets)
    OBVIOUS
  <2>1. ASSUME NEW p \in Packets, PeerSend(p) PROVE produced' \in Seq(Packets)
    BY <2>1, AppendProperties DEF PeerSend
  <2>2. CASE OnRead
    BY <2>2 DEF OnRead
  <2>3. ASSUME NEW n \in 1..RecvLength, TryRecive(n) PROVE produced' \in Seq(Packets)
    BY <2>3 DEF TryRecive
  <2>4. CASE TryReciveFails
    BY <2>4 DEF TryReciveFails
  <2>5. CASE UNCHANGED streamVars
    BY <2>5 DEF streamVars
  <2> QED BY <2>1, <2>2, <2>3, <2>4, <2>5 DEF StreamNext
<1> QED BY <1>1, <1>2, PTL DEF StreamSpec

\* The packets with the command combatEvent carry compressed entries (send_combat_event,
\* combat_client.h), what[p] in p, and no packet is too long for its header.
Carries(what, combatEvent) ==
    \A p \in Packets :
        /\ Fits(p)
        /\ p.command = combatEvent =>
              /\ what[p] \in Entries
              /\ \A f \in Signed : what[p][f] >= 0
              /\ p.data = Compress(what[p])

\* What on_packet uncompresses is what the peer compressed, packet by packet.
EntriesArriveInOrder(what, combatEvent) ==
    ~ starved =>
        \A k \in DOMAIN delivered :
            /\ k \in DOMAIN produced
            /\ delivered[k].command = combatEvent =>
                  \A garbage \in Garbage :
                     Uncompress(delivered[k].data, garbage).entry = what[produced[k]]

\* The codec and the stream together: until a recv fails, the entries that the server
\* uncompresses are those that the client compressed, field by field and in their order,
\* however the stream is cut into recvs.
THEOREM EntriesArrive ==
    ASSUME NEW CONSTANT what, NEW CONSTANT combatEvent, Carries(what, combatEvent)
    PROVE  StreamSpec => []EntriesArriveInOrder(what, combatEvent)
<1>1. /\ PacketsInOrder /\ produced \in Seq(Packets)
      => EntriesArriveInOrder(what, combatEvent)
  <2> SUFFICES ASSUME PacketsInOrder, produced \in Seq(Packets), ~ starved,
                      NEW k \in DOMAIN delivered
               PROVE  /\ k \in DOMAIN produced
                      /\ delivered[k].command = combatEvent =>
                            \A garbage \in Garbage :
                               Uncompress(delivered[k].data, garbage).entry = what[produced[k]]
    BY DEF EntriesArriveInOrder
  <2>1. \A j \in DOMAIN produced : produced[j] \in Packets
    BY ElementOfSeq, LenProperties
  <2>2. \A j \in DOMAIN produced : Fits(produced[j])
    BY <2>1 DEF Carries
  <2>3. k \in DOMAIN produced /\ delivered[k] = produced[k]
    BY <2>2 DEF PacketsInOrder
  <2> DEFINE p == produced[k]
             e == what[p]
  <2>4. p \in Packets
    BY <2>1, <2>3
  <2>5. ASSUME p.command = combatEvent, NEW garbage \in Garbage
        PROVE  Uncompress(p.data, garbage).entry = e
    <3> HIDE DEF p
    <3>1. e \in Entries /\ (\A f \in Signed : e[f] >= 0) /\ p.data = Compress(e)
      BY <2>4, <2>5 DEF Carries
    <3> HIDE DEF e
    <3>2. Sendable(e)
      BY <3>1, EntrySendable
    <3>3. Uncompress(Compress(e), garbage) = [at |-> Len(Compress(e)), entry |-> e]
      BY <3>2, CodecFacts
    <3> QED BY <3>1, <3>3
  <2> QED BY <2>3, <2>5
<1> QED BY <1>1, OrderKept, ProducedArePackets, PTL
=============================================================================
