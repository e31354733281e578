------------------------------ MODULE LogProofs ------------------------------
(***************************************************************************)
(* Proofs about the log.  First LogReader, for files, lines and buffers of *)
(* any size: it implements LineFeed, a poll reads all there was, and no    *)
(* line is torn.  Then LogParser, for all lines in the formats of the      *)
(* game: their entries say what they say.                                  *)
(*                                                                         *)
(* The second part knows the formats as texts that stand at places of the  *)
(* line, as far as the line goes (Stands).  A reader is on the format at a *)
(* place (On) when it is there, with the entry and the databases that the  *)
(* text before it asks for, or when the line ends before that place and    *)
(* the reader has failed or is at the end.  Each block of the parser takes *)
(* a reader on the format to one on the format behind its text.            *)
(***************************************************************************)
EXTENDS LogReader, LogParser, DataFacts

-----------------------------------------------------------------------------
\* LineFeed: what one more byte makes of the lines of a stream.

\* LineFeed counts with the library's operator.
LEMMA SameCardinality == \A S : Feed!Cardinality(S) = Cardinality(S)
BY DEF Cardinality, Feed!Cardinality

LastEnd(s) == Feed!NthEnd(s, Cardinality(Feed!LineEnds(s)))

\* The bytes behind the last line end.
Rest(s) == SubSeq(s, LastEnd(s) + 1, Len(s))

LEMMA AppendedByte ==
    ASSUME NEW B, NEW s \in Seq(B), NEW c \in B
    PROVE  /\ Len(s) \in Nat /\ DOMAIN s = 1..Len(s)
           /\ Append(s, c) \in Seq(B) /\ Len(Append(s, c)) = Len(s) + 1
           /\ DOMAIN Append(s, c) = 1..Len(s) + 1
           /\ Append(s, c)[Len(s) + 1] = c
           /\ \A k \in 1..Len(s) : Append(s, c)[k] = s[k]
<1>1. /\ Append(s, c) \in Seq(B) /\ Len(Append(s, c)) = Len(s) + 1
      /\ Append(s, c)[Len(s) + 1] = c
      /\ \A k \in 1..Len(s) : Append(s, c)[k] = s[k]
  BY AppendProperties
<1> QED BY <1>1, LenProperties

\* The ends of a stream are positions in it, and the i-th end is the only one with i ends
\* up to it.
LEMMA NthEndFacts ==
    ASSUME NEW B, NEW s \in Seq(B)
    PROVE  /\ Feed!LineEnds(s) \in SUBSET (1..Len(s)) /\ Len(s) \in Nat
           /\ Cardinality(Feed!LineEnds(s)) \in Nat
           /\ \A i \in 1..Cardinality(Feed!LineEnds(s)) :
                 /\ Feed!NthEnd(s, i) \in Feed!LineEnds(s)
                 /\ Cardinality({e \in Feed!LineEnds(s) : e <= Feed!NthEnd(s, i)}) = i
                 /\ \A k \in Feed!LineEnds(s) :
                       Cardinality({e \in Feed!LineEnds(s) : e <= k}) = i => k = Feed!NthEnd(s, i)
<1> DEFINE E == Feed!LineEnds(s)
<1>1. E \in SUBSET (1..Len(s)) /\ Len(s) \in Nat
  BY LenProperties DEF Feed!LineEnds
<1> HIDE DEF E
<1>2. Cardinality(E) \in Nat
  BY <1>1, RankFacts
<1>3. ASSUME NEW i \in 1..Cardinality(E)
      PROVE  /\ Feed!NthEnd(s, i) \in E
             /\ Cardinality({e \in E : e <= Feed!NthEnd(s, i)}) = i
             /\ \A k \in E : Cardinality({e \in E : e <= k}) = i => k = Feed!NthEnd(s, i)
  <2>1. PICK k \in E : /\ Cardinality({j \in E : j <= k}) = i
                       /\ \A l \in E : Cardinality({j \in E : j <= l}) = i => l = k
    BY <1>1, RankOnto
  <2>2. Feed!Cardinality({e \in E : e <= k}) = i
    BY <2>1, SameCardinality
  <2>3. /\ Feed!NthEnd(s, i) \in E
        /\ Feed!Cardinality({e \in E : e <= Feed!NthEnd(s, i)}) = i
    <3> DEFINE IsNth(x) == Feed!Cardinality({e \in E : e <= x}) = i
    <3>1. i # 0
      BY <1>2
    <3>2. Feed!NthEnd(s, i) = CHOOSE x \in E : IsNth(x)
      BY <3>1, Zenon DEF Feed!NthEnd, E
    <3>3. IsNth(k)
      BY <2>2
    <3> HIDE DEF IsNth
    <3>4. Feed!NthEnd(s, i) \in E /\ IsNth(Feed!NthEnd(s, i))
      BY <3>2, <3>3
    <3> QED BY <3>4 DEF IsNth
  <2>4. Cardinality({e \in E : e <= Feed!NthEnd(s, i)}) = i
    BY <2>3, SameCardinality
  <2> QED BY <2>1, <2>3, <2>4
<1> QED BY <1>1, <1>2, <1>3 DEF E

\* A function on the first m positions is a sequence.
LEMMA FunctionIsSeq ==
    ASSUME NEW B, NEW m \in Nat, NEW f \in [1..m -> B]
    PROVE  f \in Seq(B) /\ Len(f) = m
OBVIOUS

\* A part of a stream is what it was before the stream grew, and a part that goes up to
\* the end grows with it.
LEMMA PartOfGrowing ==
    ASSUME NEW B, NEW s \in Seq(B), NEW c \in B, NEW a \in 0..Len(s)
    PROVE  /\ SubSeq(s, a + 1, Len(s)) \in Seq(B)
           /\ SubSeq(Append(s, c), a + 1, Len(s) + 1) = Append(SubSeq(s, a + 1, Len(s)), c)
           /\ \A b \in 0..Len(s) : /\ SubSeq(Append(s, c), a + 1, b) = SubSeq(s, a + 1, b)
                                   /\ SubSeq(s, a + 1, b) \in Seq(B)
<1> DEFINE t == Append(s, c)
           n == Len(s)
<1>1. /\ n \in Nat /\ t \in Seq(B) /\ Len(t) = n + 1
      /\ t[n + 1] = c /\ \A k \in 1..n : t[k] = s[k]
  BY AppendedByte
<1>2. \A k \in 1..n : s[k] \in B
  BY ElementOfSeq
<1>3. \A k \in 1..n + 1 : t[k] \in B
  BY <1>1, ElementOfSeq
<1> HIDE DEF t, n
<1>4. ASSUME NEW b \in 0..n
      PROVE  /\ SubSeq(t, a + 1, b) = SubSeq(s, a + 1, b)
             /\ SubSeq(s, a + 1, b) \in Seq(B)
  <2>1. a + 1 \in Int /\ b \in Int /\ \A i \in a + 1..b : i \in 1..n /\ i \in 1..n + 1
    BY <1>1, <1>4 DEF n
  <2>2. /\ SubSeq(t, a + 1, b) \in Seq(B)
        /\ Len(SubSeq(t, a + 1, b)) = IF a + 1 <= b THEN b - (a + 1) + 1 ELSE 0
        /\ \A i \in 1..b - (a + 1) + 1 : SubSeq(t, a + 1, b)[i] = t[(a + 1) + i - 1]
    BY <1>3, <2>1, SubSeqProperties
  <2>3. /\ SubSeq(s, a + 1, b) \in Seq(B)
        /\ Len(SubSeq(s, a + 1, b)) = IF a + 1 <= b THEN b - (a + 1) + 1 ELSE 0
        /\ \A i \in 1..b - (a + 1) + 1 : SubSeq(s, a + 1, b)[i] = s[(a + 1) + i - 1]
    BY <1>2, <2>1, SubSeqProperties
  <2>4. ASSUME NEW i \in 1..Len(SubSeq(t, a + 1, b))
        PROVE  SubSeq(t, a + 1, b)[i] = SubSeq(s, a + 1, b)[i]
    <3>1. i \in 1..b - (a + 1) + 1 /\ (a + 1) + i - 1 \in 1..n
      BY <2>1, <2>2
    <3> QED BY <1>1, <2>2, <2>3, <3>1
  <2> QED BY <2>2, <2>3, <2>4, SeqEqual
<1>5. SubSeq(t, a + 1, n + 1) = Append(SubSeq(s, a + 1, n), c)
  <2> DEFINE r == SubSeq(s, a + 1, n)
             l == n - a
  <2>1. /\ l \in Nat /\ a \in 0..n /\ n \in 0..n
        /\ \A i \in a + 1..n + 1 : i \in 1..n + 1
        /\ \A i \in a + 1..n : i \in 1..n
    BY <1>1 DEF n
  <2>2. /\ r \in Seq(B)
        /\ Len(r) = IF a + 1 <= n THEN n - (a + 1) + 1 ELSE 0
        /\ \A i \in 1..n - (a + 1) + 1 : r[i] = s[(a + 1) + i - 1]
    BY <1>1, <1>2, <2>1, SubSeqProperties
  <2>3. /\ SubSeq(t, a + 1, n + 1) \in Seq(B)
        /\ Len(SubSeq(t, a + 1, n + 1)) = IF a + 1 <= n + 1 THEN (n + 1) - (a + 1) + 1 ELSE 0
        /\ \A i \in 1..(n + 1) - (a + 1) + 1 : SubSeq(t, a + 1, n + 1)[i] = t[(a + 1) + i - 1]
    BY <1>1, <1>3, <2>1, SubSeqProperties
  <2> HIDE DEF r
  <2>4. /\ Append(r, c) \in Seq(B) /\ Len(Append(r, c)) = Len(r) + 1
        /\ Append(r, c)[Len(r) + 1] = c
        /\ \A k \in 1..Len(r) : Append(r, c)[k] = r[k]
    BY <2>2, AppendProperties
  <2>5. Len(r) = l /\ Len(SubSeq(t, a + 1, n + 1)) = l + 1
    BY <1>1, <2>1, <2>2, <2>3
  <2>6. ASSUME NEW i \in 1..l + 1
        PROVE  SubSeq(t, a + 1, n + 1)[i] = Append(r, c)[i]
    <3>1. SubSeq(t, a + 1, n + 1)[i] = t[a + i]
      BY <1>1, <2>1, <2>3
    <3>2. CASE i = l + 1
      BY <1>1, <2>1, <2>4, <2>5, <3>1, <3>2
    <3>3. CASE i # l + 1
      <4>1. i \in 1..l /\ a + i \in 1..n
        BY <1>1, <2>1, <3>3
      <4>2. r[i] = s[a + i]
        BY <1>1, <2>1, <2>2, <4>1
      <4> QED BY <1>1, <2>4, <2>5, <3>1, <4>1, <4>2
    <3> QED BY <3>2, <3>3
  <2> QED BY <2>3, <2>4, <2>5, <2>6, SeqEqual DEF r
<1>6. n \in 0..n
  BY <1>1
<1>7. SubSeq(s, a + 1, n) \in Seq(B)
  BY <1>4, <1>6
<1> QED BY <1>4, <1>5, <1>7, Zenon DEF t, n

\* A byte that is no line end makes no line; a line end makes the bytes behind the one
\* before it a line.
LEMMA OneMoreByte ==
    ASSUME NEW B, NEW s \in Seq(B), NEW c \in B
    PROVE  /\ Feed!LinesOf(s) \in Seq(Seq(B)) /\ Rest(s) \in Seq(B)
           /\ ~ IsLineEnd(c) => /\ Feed!LinesOf(Append(s, c)) = Feed!LinesOf(s)
                                /\ Rest(Append(s, c)) = Append(Rest(s), c)
           /\ IsLineEnd(c) => /\ Feed!LinesOf(Append(s, c)) = Append(Feed!LinesOf(s), Rest(s))
                              /\ Rest(Append(s, c)) = << >>
<1> DEFINE t == Append(s, c)
           n == Len(s)
           E == Feed!LineEnds(s)
           F == Feed!LineEnds(t)
           m == Cardinality(E)
           NthAt(i) == Feed!NthEnd(s, i)
<1>1. /\ n \in Nat /\ DOMAIN s = 1..n /\ t \in Seq(B) /\ Len(t) = n + 1
      /\ DOMAIN t = 1..n + 1 /\ t[n + 1] = c /\ \A k \in 1..n : t[k] = s[k]
  BY AppendedByte
<1>2. /\ E \in SUBSET (1..n) /\ m \in Nat
      /\ \A i \in 1..m : NthAt(i) \in E
  BY NthEndFacts
<1>3. Feed!NthEnd(s, 0) = 0 /\ Feed!NthEnd(t, 0) = 0
  BY DEF Feed!NthEnd
<1>4. ASSUME NEW i \in 0..m
      PROVE  NthAt(i) \in 0..n
  BY <1>1, <1>2, <1>3
<1>5. ASSUME NEW i \in 1..m
      PROVE  NthAt(i) - 1 \in 0..n /\ i - 1 \in 0..m /\ NthAt(i - 1) \in 0..n
  BY <1>1, <1>2, <1>4
<1>6. LastEnd(s) = NthAt(m) /\ NthAt(m) \in 0..n
  BY <1>2, <1>4 DEF LastEnd
<1>7. ASSUME NEW i \in 1..m
      PROVE  /\ SubSeq(t, NthAt(i - 1) + 1, NthAt(i) - 1) = SubSeq(s, NthAt(i - 1) + 1, NthAt(i) - 1)
             /\ SubSeq(s, NthAt(i - 1) + 1, NthAt(i) - 1) \in Seq(B)
  BY <1>5, PartOfGrowing
<1>8. /\ Feed!LinesOf(s) = [i \in 1..m |-> SubSeq(s, NthAt(i - 1) + 1, NthAt(i) - 1)]
  BY SameCardinality DEF Feed!LinesOf
<1>9. Rest(s) = SubSeq(s, NthAt(m) + 1, n) /\ Rest(s) \in Seq(B)
  BY <1>6, PartOfGrowing DEF Rest
<1>10. Feed!LinesOf(s) \in Seq(Seq(B)) /\ Len(Feed!LinesOf(s)) = m
  <2> DEFINE Old(i) == SubSeq(s, NthAt(i - 1) + 1, NthAt(i) - 1)
  <2>1. \A i \in 1..m : Old(i) \in Seq(B)
    BY <1>7
  <2>2. Feed!LinesOf(s) = [i \in 1..m |-> Old(i)]
    BY <1>8
  <2> HIDE DEF Old, m
  <2>3. Feed!LinesOf(s) \in [1..m -> Seq(B)]
    BY <2>1, <2>2
  <2> QED BY <1>2, <2>3, FunctionIsSeq
<1> HIDE DEF t, n
<1>11. CASE ~ IsLineEnd(c)
  <2>1. F = E
    BY <1>1, <1>11 DEF Feed!LineEnds
  <2>2. \A i : Feed!NthEnd(t, i) = Feed!NthEnd(s, i)
    BY <2>1 DEF Feed!NthEnd
  <2> DEFINE Line(i) == SubSeq(t, Feed!NthEnd(t, i - 1) + 1, Feed!NthEnd(t, i) - 1)
             Old(i) == SubSeq(s, NthAt(i - 1) + 1, NthAt(i) - 1)
  <2>3. Feed!LinesOf(t) = [i \in 1..m |-> Line(i)]
    BY <2>1, SameCardinality DEF Feed!LinesOf
  <2>4. Feed!LinesOf(t) = Feed!LinesOf(s)
    <3>1. \A i \in 1..m : Line(i) = Old(i)
      BY <1>7, <2>2
    <3>2. Feed!LinesOf(s) = [i \in 1..m |-> Old(i)]
      BY <1>8
    <3> HIDE DEF Line, Old
    <3> QED BY <2>3, <3>1, <3>2
  <2>5. LastEnd(t) = NthAt(m)
    BY <2>1, <2>2 DEF LastEnd
  <2>6. Rest(t) = SubSeq(t, NthAt(m) + 1, n + 1)
    BY <1>1, <2>5 DEF Rest
  <2>7. SubSeq(t, NthAt(m) + 1, n + 1) = Append(SubSeq(s, NthAt(m) + 1, n), c)
    BY <1>6, PartOfGrowing DEF t, n
  <2> QED BY <1>9, <1>10, <1>11, <2>4, <2>6, <2>7 DEF t
<1>12. CASE IsLineEnd(c)
  <2>1. F = E \cup {n + 1}
    <3>1. \A k \in 1..n + 1 : k = n + 1 \/ k \in 1..n
      BY <1>1
    <3> QED BY <1>1, <1>12, <3>1 DEF Feed!LineEnds
  <2>2. /\ Cardinality(F) = m + 1
        /\ {e \in F : e <= n + 1} = F
        /\ \A k \in E : {e \in F : e <= k} = {e \in E : e <= k}
    BY <1>1, <1>2, <2>1, RankFacts
  <2>3. \A i \in 1..m + 1 : \A k \in F :
           Cardinality({e \in F : e <= k}) = i => k = Feed!NthEnd(t, i)
    BY <1>1, <2>2, NthEndFacts
  <2>4. Feed!NthEnd(t, m + 1) = n + 1
    <3>1. m + 1 \in 1..m + 1 /\ n + 1 \in F
      BY <1>2, <2>1
    <3> QED BY <2>2, <2>3, <3>1
  <2>5. ASSUME NEW i \in 0..m
        PROVE  Feed!NthEnd(t, i) = NthAt(i)
    <3>1. CASE i = 0
      BY <1>3, <3>1
    <3>2. CASE i # 0
      <4>1. i \in 1..m /\ i \in 1..m + 1
        BY <1>2, <3>2
      <4>2. NthAt(i) \in E /\ Cardinality({e \in E : e <= NthAt(i)}) = i
        BY <4>1, NthEndFacts
      <4>3. NthAt(i) \in F /\ Cardinality({e \in F : e <= NthAt(i)}) = i
        BY <2>1, <2>2, <4>2
      <4> QED BY <2>3, <4>1, <4>3
    <3> QED BY <3>1, <3>2
  <2> DEFINE L == Feed!LinesOf(t)
             G == Append(Feed!LinesOf(s), Rest(s))
             Line(i) == SubSeq(t, Feed!NthEnd(t, i - 1) + 1, Feed!NthEnd(t, i) - 1)
  <2>6. L = [i \in 1..m + 1 |-> Line(i)]
    BY <2>2, SameCardinality DEF Feed!LinesOf
  <2>7. ASSUME NEW i \in 1..m
        PROVE  Line(i) = SubSeq(s, NthAt(i - 1) + 1, NthAt(i) - 1) /\ Line(i) \in Seq(B)
    <3>1. Feed!NthEnd(t, i) = NthAt(i) /\ Feed!NthEnd(t, i - 1) = NthAt(i - 1)
      BY <1>2, <1>5, <2>5
    <3> QED BY <1>7, <3>1
  <2>8. Line(m + 1) = Rest(s)
    <3>1. m \in 0..m /\ (m + 1) - 1 = m /\ (n + 1) - 1 = n /\ n \in 0..n
      BY <1>1, <1>2
    <3>2. Line(m + 1) = SubSeq(t, NthAt(m) + 1, n)
      BY <2>4, <2>5, <3>1
    <3>3. SubSeq(t, NthAt(m) + 1, n) = SubSeq(s, NthAt(m) + 1, n)
      BY <1>6, <3>1, PartOfGrowing DEF t, n
    <3> QED BY <1>9, <3>2, <3>3
  <2> HIDE DEF Line
  <2>9. L = G
    <3>1. \A i \in 1..m + 1 : i = m + 1 \/ i \in 1..m
      BY <1>2
    <3>2. \A i \in 1..m + 1 : Line(i) \in Seq(B)
      BY <1>9, <2>7, <2>8, <3>1
    <3>3. L \in Seq(Seq(B)) /\ Len(L) = m + 1
      BY <1>2, <2>6, <3>2, FunctionIsSeq
    <3>4. /\ G \in Seq(Seq(B)) /\ Len(G) = m + 1 /\ G[m + 1] = Rest(s)
          /\ \A i \in 1..m : G[i] = Feed!LinesOf(s)[i]
      BY <1>9, <1>10, AppendProperties, SMTT(30)
    <3>5. \A i \in 1..m : Feed!LinesOf(s)[i] = Line(i)
      BY <1>8, <2>7
    <3>6. \A i \in 1..m + 1 : L[i] = Line(i)
      BY <2>6
    <3>7. \A i \in 1..m + 1 : L[i] = G[i]
      <4> HIDE DEF L, G
      <4> QED BY <2>8, <3>1, <3>4, <3>5, <3>6
    <3> HIDE DEF L, G
    <3> QED BY <3>3, <3>4, <3>7, SeqEqual
  <2>10. Rest(t) = << >>
    <3>1. LastEnd(t) = n + 1
      BY <2>2, <2>4 DEF LastEnd
    <3>2. Rest(t) = SubSeq(t, n + 2, n + 1)
      BY <1>1, <3>1 DEF Rest
    <3> QED BY <1>1, <3>2, SubSeqEmpty
  <2> QED BY <1>9, <1>10, <1>12, <2>9, <2>10 DEF t
<1> QED BY <1>11, <1>12

-----------------------------------------------------------------------------
\* process_bytes, byte by byte.

Cuts(B) == [found : Seq(Seq(B)), left : Seq(B)]
NothingYet == [found |-> << >>, left |-> << >>]

LEMMA CutAtType ==
    ASSUME NEW B, NEW acc \in Cuts(B), NEW c \in B
    PROVE  CutAt(acc, c) \in Cuts(B)
<1>1. acc.found \in Seq(Seq(B)) /\ acc.left \in Seq(B)
  BY DEF Cuts
<1>2. Append(acc.found, acc.left) \in Seq(Seq(B)) /\ Append(acc.left, c) \in Seq(B)
  BY <1>1, AppendProperties
<1> QED BY <1>1, <1>2 DEF CutAt, Cuts

\* The loop over the buffer ends with what the last of its steps has made.
LEMMA ProcessSteps ==
    ASSUME NEW B, NEW b \in Seq(B)
    PROVE  \E g : /\ g[0] = NothingYet
                  /\ \A i \in 1..Len(b) : g[i] = CutAt(g[i - 1], b[i])
                  /\ ProcessBytes(b) = g[Len(b)]
<1> DEFINE n == Len(b)
           X == Cuts(B)
           ValueOf(it, S) == IF S = {} THEN NothingYet ELSE CutAt(it[S \ {Max(S)}], b[Max(S)])
           Eq(it) == it = [S \in SUBSET (1..n) |-> ValueOf(it, S)]
           F == CHOOSE it : Eq(it)
           step == [i \in Nat |-> [acc \in X |-> IF i \in 1..n THEN CutAt(acc, b[i]) ELSE acc]]
<1>1. n \in Nat /\ DOMAIN b = 1..n /\ \A i \in 1..n : b[i] \in B
  BY LenProperties
<1>2. ProcessBytes(b) = F[1..n]
  BY <1>1 DEF ProcessBytes, FoldLeft, MapThenFoldSet, NothingYet
<1>3. step \in [Nat -> [X -> X]]
  <2> HIDE DEF n, X
  <2>1. \A i \in 1..n, acc \in X : CutAt(acc, b[i]) \in X
    BY <1>1, CutAtType DEF X
  <2> QED BY <2>1
<1>4. \A i \in 1..n, acc \in X : step[i][acc] = CutAt(acc, b[i])
  BY <1>1
<1>5. NothingYet \in X
  BY DEF NothingYet, Cuts
<1> HIDE DEF step, n, X
<1>6. PICK it \in [SUBSET (1..n) -> X] : IsFold(it, NothingYet, step, n)
  BY <1>1, <1>3, <1>5, FoldExists
<1>7. ASSUME NEW S \in SUBSET (1..n), S # {}
      PROVE  it[S] = CutAt(it[S \ {Max(S)}], b[Max(S)])
  BY <1>1, <1>4, <1>6, <1>7, MaxInside DEF IsFold
<1>8. Eq(it)
  BY <1>6, <1>7 DEF IsFold
<1>9. Eq(F)
  <2> HIDE DEF Eq
  <2> QED BY <1>8
<1>10. F[{}] = NothingYet /\ \A i \in 1..n : F[1..i] = CutAt(F[1..i - 1], b[i])
  <2> HIDE DEF F
  <2>1. F[{}] = NothingYet
    BY <1>9
  <2>2. ASSUME NEW i \in 1..n PROVE F[1..i] = CutAt(F[1..i - 1], b[i])
    <3>1. 1..i \in SUBSET (1..n) /\ i \in Nat /\ i > 0
      BY <1>1
    <3>2. Max(1..i) = i /\ 1..i # {} /\ (1..i) \ {i} = 1..i - 1
      BY <3>1, TopOfInterval
    <3> QED BY <3>1, <3>2, <1>9
  <2> QED BY <2>1, <2>2
<1> DEFINE g == [i \in 0..n |-> F[1..i]]
<1> HIDE DEF F
<1>11. g[0] = NothingYet /\ g[n] = F[1..n] /\ \A i \in 1..n : g[i] = CutAt(g[i - 1], b[i])
  BY <1>1, <1>10
<1> HIDE DEF g
<1> QED BY <1>2, <1>11 DEF n

\* Concatenation and Append.
LEMMA ConcatAppend ==
    ASSUME NEW B, NEW s \in Seq(B), NEW t \in Seq(B), NEW c \in B
    PROVE  s \o Append(t, c) = Append(s \o t, c)
<1>1. /\ Append(t, c) \in Seq(B) /\ s \o t \in Seq(B)
      /\ Len(s) \in Nat /\ Len(t) \in Nat
  BY AppendProperties, ConcatProperties, LenProperties
<1>2. /\ s \o Append(t, c) \in Seq(B) /\ Append(s \o t, c) \in Seq(B)
      /\ Len(s \o Append(t, c)) = Len(s) + Len(t) + 1
      /\ Len(Append(s \o t, c)) = Len(s) + Len(t) + 1
  BY <1>1, AppendProperties, ConcatProperties
<1>3. ASSUME NEW i \in 1..Len(s) + Len(t) + 1
      PROVE  (s \o Append(t, c))[i] = Append(s \o t, c)[i]
  <2>1. (s \o Append(t, c))[i] = IF i <= Len(s) THEN s[i] ELSE Append(t, c)[i - Len(s)]
    BY <1>1, AppendProperties, ConcatProperties
  <2>2. /\ Len(s \o t) = Len(s) + Len(t)
        /\ \A k \in 1..Len(s) + Len(t) : (s \o t)[k] = IF k <= Len(s) THEN s[k] ELSE t[k - Len(s)]
    BY ConcatProperties
  <2>3. /\ \A k \in 1..Len(t) : Append(t, c)[k] = t[k]
        /\ Append(t, c)[Len(t) + 1] = c
        /\ \A k \in 1..Len(s) + Len(t) : Append(s \o t, c)[k] = (s \o t)[k]
        /\ Append(s \o t, c)[Len(s) + Len(t) + 1] = c
    BY <1>1, <2>2, AppendProperties
  <2>4. CASE i <= Len(s)
    <3>1. i \in 1..Len(s) + Len(t)
      BY <1>1, <2>4
    <3> QED BY <2>1, <2>2, <2>3, <2>4, <3>1
  <2>5. CASE i = Len(s) + Len(t) + 1
    <3>1. i - Len(s) = Len(t) + 1 /\ ~ (i <= Len(s))
      BY <1>1, <2>5
    <3> QED BY <2>1, <2>3, <2>5, <3>1
  <2>6. CASE i > Len(s) /\ i # Len(s) + Len(t) + 1
    <3>1. i - Len(s) \in 1..Len(t) /\ ~ (i <= Len(s)) /\ i \in 1..Len(s) + Len(t)
      BY <1>1, <2>6
    <3> QED BY <2>1, <2>2, <2>3, <3>1
  <2> QED BY <1>1, <2>4, <2>5, <2>6
<1> QED BY <1>2, <1>3, SeqEqual

\* The first bytes of a sequence, one by one.
LEMMA PrefixGrows ==
    ASSUME NEW B, NEW s \in Seq(B)
    PROVE  /\ SubSeq(s, 1, 0) = << >> /\ SubSeq(s, 1, Len(s)) = s
           /\ \A i \in 0..Len(s) : SubSeq(s, 1, i) \in Seq(B)
           /\ \A i \in 1..Len(s) : /\ s[i] \in B
                                   /\ SubSeq(s, 1, i) = Append(SubSeq(s, 1, i - 1), s[i])
<1>1. Len(s) \in Nat /\ \A i \in 1..Len(s) : s[i] \in B
  BY LenProperties, ElementOfSeq
<1>2. SubSeq(s, 1, 0) = << >> /\ SubSeq(s, 1, Len(s)) = s
  BY SubSeqEmpty, SubSeqFull
<1>3. ASSUME NEW i \in 0..Len(s)
      PROVE  /\ SubSeq(s, 1, i) \in Seq(B)
             /\ Len(SubSeq(s, 1, i)) = i
             /\ \A k \in 1..i : SubSeq(s, 1, i)[k] = s[k]
  <2>1. i \in Int /\ \A k \in 1..i : s[k] \in B
    BY <1>1
  <2>2. /\ SubSeq(s, 1, i) \in Seq(B)
        /\ Len(SubSeq(s, 1, i)) = IF 1 <= i THEN i - 1 + 1 ELSE 0
        /\ \A k \in 1..i - 1 + 1 : SubSeq(s, 1, i)[k] = s[1 + k - 1]
    BY <2>1, SubSeqProperties
  <2>3. Len(SubSeq(s, 1, i)) = i /\ i - 1 + 1 = i
    BY <1>1, <2>2
  <2>4. \A k \in 1..i : 1 + k - 1 = k
    OBVIOUS
  <2> QED BY <2>2, <2>3, <2>4
<1>4. ASSUME NEW i \in 1..Len(s)
      PROVE  SubSeq(s, 1, i) = Append(SubSeq(s, 1, i - 1), s[i])
  <2> DEFINE r == SubSeq(s, 1, i - 1)
             t == SubSeq(s, 1, i)
  <2>1. i \in 0..Len(s) /\ i - 1 \in 0..Len(s) /\ i \in Nat
    BY <1>1
  <2>2. /\ r \in Seq(B) /\ Len(r) = i - 1 /\ \A k \in 1..i - 1 : r[k] = s[k]
        /\ t \in Seq(B) /\ Len(t) = i /\ \A k \in 1..i : t[k] = s[k]
    BY <1>3, <2>1
  <2> HIDE DEF r, t
  <2>3. /\ Append(r, s[i]) \in Seq(B) /\ Len(Append(r, s[i])) = i
        /\ Append(r, s[i])[i] = s[i] /\ \A k \in 1..i - 1 : Append(r, s[i])[k] = r[k]
    <3>1. /\ Append(r, s[i]) \in Seq(B) /\ Len(Append(r, s[i])) = Len(r) + 1
          /\ Append(r, s[i])[Len(r) + 1] = s[i]
          /\ \A k \in 1..Len(r) : Append(r, s[i])[k] = r[k]
      BY <1>1, <2>2, AppendProperties
    <3>2. Len(r) + 1 = i
      BY <2>1, <2>2
    <3> QED BY <2>2, <3>1, <3>2
  <2>4. \A k \in 1..i : k = i \/ k \in 1..i - 1
    BY <2>1
  <2>5. \A k \in 1..i : Append(r, s[i])[k] = t[k]
    BY <2>2, <2>3, <2>4
  <2> QED BY <2>2, <2>3, <2>5, SeqEqual DEF r, t
<1> QED BY <1>1, <1>2, <1>3, <1>4

\* The lines of a stream and the rest behind them are sequences of its bytes.
LEMMA OneMoreByteType ==
    ASSUME NEW B, NEW s \in Seq(B)
    PROVE  Feed!LinesOf(s) \in Seq(Seq(B)) /\ Rest(s) \in Seq(B)
<1> DEFINE E == Feed!LineEnds(s)
           m == Cardinality(E)
           Line(i) == SubSeq(s, Feed!NthEnd(s, i - 1) + 1, Feed!NthEnd(s, i) - 1)
<1>1. /\ E \in SUBSET (1..Len(s)) /\ Len(s) \in Nat /\ m \in Nat
      /\ \A i \in 1..m : Feed!NthEnd(s, i) \in E
  BY NthEndFacts
<1>2. \A i \in 0..m : Feed!NthEnd(s, i) \in 0..Len(s)
  <2>1. Feed!NthEnd(s, 0) = 0
    BY DEF Feed!NthEnd
  <2>2. ASSUME NEW i \in 1..m PROVE Feed!NthEnd(s, i) \in 0..Len(s)
    BY <1>1
  <2>3. 0 \in 0..Len(s)
    BY <1>1
  <2>4. \A i \in 0..m : i = 0 \/ i \in 1..m
    BY <1>1
  <2> QED BY <2>1, <2>2, <2>3, <2>4, Zenon
<1>3. ASSUME NEW a \in 0..Len(s), NEW b \in -1..Len(s)
      PROVE  SubSeq(s, a + 1, b) \in Seq(B)
  <2>1. a + 1 \in Int /\ b \in Int /\ \A i \in a + 1..b : i \in 1..Len(s)
    BY <1>1
  <2> QED BY <2>1, ElementOfSeq, SubSeqProperties
<1>4. ASSUME NEW i \in 1..m PROVE Line(i) \in Seq(B)
  <2>1. i - 1 \in 0..m /\ i \in 0..m
    BY <1>1
  <2>2. Feed!NthEnd(s, i - 1) \in 0..Len(s) /\ Feed!NthEnd(s, i) - 1 \in -1..Len(s)
    BY <1>1, <1>2, <2>1
  <2> QED BY <1>3, <2>2
<1>5. Feed!LinesOf(s) = [i \in 1..m |-> Line(i)]
  BY SameCardinality DEF Feed!LinesOf
<1>6. Rest(s) \in Seq(B)
  <2>1. LastEnd(s) \in 0..Len(s) /\ Len(s) \in -1..Len(s)
    BY <1>1, <1>2 DEF LastEnd
  <2> QED BY <1>3, <2>1 DEF Rest
<1> HIDE DEF Line, m
<1>7. Feed!LinesOf(s) \in [1..m -> Seq(B)]
  BY <1>4, <1>5
<1> QED BY <1>1, <1>6, <1>7, FunctionIsSeq

\* g holds what each byte of b makes of the lines found before it.
IsRun(g, b) == \A i \in 1..Len(b) : g[i] = CutAt(g[i - 1], b[i])

\* No line yet, and the bytes of l behind the last line end.
LeftOnly(l) == [found |-> << >>, left |-> l]

\* b ends with the bytes of d, behind m others.
EndsWith(b, d, m) == Len(b) = m + Len(d) /\ \A j \in 1..Len(d) : b[m + j] = d[j]

\* b ends with n bytes of file f, from offset p + 1 on, behind m others.
EndsWithPart(b, m, f, p, n) == Len(b) = m + n /\ \A j \in 1..n : b[m + j] = <<f, p + j>>

NoLineEnd(l) == \A i \in DOMAIN l : ~ IsLineEnd(l[i])

\* What the buffer held holds no line end, and is left as it was.
LEMMA SkipsTail ==
    ASSUME NEW B, NEW b \in Seq(B), NEW g, g[0] = NothingYet, IsRun(g, b),
           NEW m \in 0..Len(b), \A i \in 1..m : ~ IsLineEnd(b[i])
    PROVE  g[m] = LeftOnly(SubSeq(b, 1, m))
<1>0. \A i \in 1..Len(b) : g[i] = CutAt(g[i - 1], b[i])
  BY DEF IsRun
<1> USE <1>0
<1> DEFINE P == {i \in Nat : i <= m => g[i] = [found |-> << >>, left |-> SubSeq(b, 1, i)]}
<1>1. Len(b) \in Nat
  BY LenProperties
<1>2. 0 \in P
  BY PrefixGrows DEF NothingYet
<1>3. ASSUME NEW i \in Nat, i \in P PROVE i + 1 \in P
  <2>1. SUFFICES ASSUME i + 1 <= m
                 PROVE  g[i + 1] = [found |-> << >>, left |-> SubSeq(b, 1, i + 1)]
    OBVIOUS
  <2>2. i + 1 \in 1..m /\ i + 1 \in 1..Len(b) /\ (i + 1) - 1 = i /\ i <= m
    BY <1>1, <2>1
  <2>3. g[i] = [found |-> << >>, left |-> SubSeq(b, 1, i)]
    BY <1>3, <2>2
  <2>4. g[i + 1] = CutAt(g[i], b[i + 1]) /\ ~ IsLineEnd(b[i + 1])
    BY <2>2
  <2>5. SubSeq(b, 1, i + 1) = Append(SubSeq(b, 1, i), b[i + 1])
    BY <2>2, PrefixGrows
  <2>6. g[i + 1] = [found |-> g[i].found, left |-> Append(g[i].left, b[i + 1])]
    BY <2>4, Zenon DEF CutAt
  <2>7. g[i].found = << >> /\ g[i].left = SubSeq(b, 1, i)
    BY <2>3
  <2> QED BY <2>5, <2>6, <2>7, Zenon
<1> HIDE DEF P
<1>4. m \in P
  BY <1>1, <1>2, <1>3, Induct
<1> QED BY <1>4 DEF P, LeftOnly

\* The bytes of the chunk are cut as LineFeed says, one by one.
LEMMA CutsFeed ==
    ASSUME NEW B, NEW s \in Seq(B), NEW d \in Seq(B), NEW b \in Seq(B), NEW m \in Nat,
           EndsWith(b, d, m), NEW g, IsRun(g, b), g[m] = LeftOnly(Rest(s))
    PROVE  /\ g[Len(b)].found \in Seq(Seq(B))
           /\ Feed!LinesOf(s \o d) = Feed!LinesOf(s) \o g[Len(b)].found
           /\ g[Len(b)].left = Rest(s \o d)
<1>0. /\ Len(b) = m + Len(d) /\ \A j \in 1..Len(d) : b[m + j] = d[j]
      /\ \A i \in 1..Len(b) : g[i] = CutAt(g[i - 1], b[i])
      /\ g[m] = [found |-> << >>, left |-> Rest(s)]
  BY DEF EndsWith, IsRun, LeftOnly
<1> USE <1>0
<1> DEFINE u(j) == s \o SubSeq(d, 1, j)
           C(j) == /\ g[m + j].found \in Seq(Seq(B))
                   /\ Feed!LinesOf(u(j)) = Feed!LinesOf(s) \o g[m + j].found
                   /\ g[m + j].left = Rest(u(j))
           P == {j \in Nat : j <= Len(d) => C(j)}
<1>1. Len(d) \in Nat /\ Feed!LinesOf(s) \in Seq(Seq(B))
  BY LenProperties, OneMoreByteType
<1>2. 0 \in P
  <2>1. SubSeq(d, 1, 0) = << >> /\ u(0) = s
    BY PrefixGrows, ConcatEmptySeq
  <2>2. m + 0 = m
    OBVIOUS
  <2>3. << >> \in Seq(Seq(B)) /\ Feed!LinesOf(s) = Feed!LinesOf(s) \o << >>
    BY <1>1, ConcatEmptySeq
  <2>4. g[m + 0].found = << >> /\ g[m + 0].left = Rest(s)
    BY <2>2
  <2> HIDE DEF u
  <2> QED BY <2>1, <2>3, <2>4
<1>3. ASSUME NEW j \in Nat, j \in P PROVE j + 1 \in P
  <2>1. SUFFICES ASSUME j + 1 <= Len(d) PROVE C(j + 1)
    OBVIOUS
  <2> DEFINE c == d[j + 1]
             x == g[m + j]
             y == g[m + (j + 1)]
  <2>2. j + 1 \in 1..Len(d) /\ j \in 0..Len(d) /\ (j + 1) - 1 = j /\ j <= Len(d)
    BY <1>1, <2>1
  <2>3. C(j)
    BY <1>3, <2>2
  <2>4. c \in B /\ u(j) \in Seq(B) /\ u(j + 1) = Append(u(j), c)
    <3>1. c \in B /\ SubSeq(d, 1, j) \in Seq(B)
          /\ SubSeq(d, 1, j + 1) = Append(SubSeq(d, 1, j), c)
      BY <2>2, PrefixGrows
    <3> QED BY <3>1, ConcatAppend, ConcatProperties
  <2>5. y = CutAt(x, c)
    <3>1. m + (j + 1) \in 1..Len(b) /\ (m + (j + 1)) - 1 = m + j
      BY <1>1, <2>2
    <3>2. b[m + (j + 1)] = c
      BY <2>2
    <3> QED BY <3>1, <3>2
  <2>6. /\ x.found \in Seq(Seq(B)) /\ x.left = Rest(u(j)) /\ Rest(u(j)) \in Seq(B)
        /\ Feed!LinesOf(u(j)) = Feed!LinesOf(s) \o x.found
    BY <2>3, <2>4, OneMoreByteType
  <2> HIDE DEF c, x, y, u
  <2>7. CASE ~ IsLineEnd(c)
    <3>1. y.found = x.found /\ y.left = Append(x.left, c)
      BY <2>5, <2>7 DEF CutAt
    <3>2. /\ Feed!LinesOf(Append(u(j), c)) = Feed!LinesOf(u(j))
          /\ Rest(Append(u(j), c)) = Append(Rest(u(j)), c)
      BY <2>4, <2>7, OneMoreByte
    <3> QED BY <2>4, <2>6, <3>1, <3>2, Zenon DEF y
  <2>8. CASE IsLineEnd(c)
    <3>1. y.found = Append(x.found, x.left) /\ y.left = << >>
      BY <2>5, <2>8 DEF CutAt
    <3>2. /\ Feed!LinesOf(Append(u(j), c)) = Append(Feed!LinesOf(u(j)), Rest(u(j)))
          /\ Rest(Append(u(j), c)) = << >>
      BY <2>4, <2>8, OneMoreByte
    <3>3. /\ Append(x.found, x.left) \in Seq(Seq(B))
          /\ Feed!LinesOf(s) \o Append(x.found, x.left)
               = Append(Feed!LinesOf(s) \o x.found, x.left)
      <4>1. x.left \in Seq(B)
        BY <2>6
      <4>2. Append(x.found, x.left) \in Seq(Seq(B))
        BY <2>6, <4>1, AppendProperties
      <4>3. Feed!LinesOf(s) \o Append(x.found, x.left)
              = Append(Feed!LinesOf(s) \o x.found, x.left)
        <5> DEFINE BB == Seq(B)
        <5>1. Feed!LinesOf(s) \in Seq(BB) /\ x.found \in Seq(BB) /\ x.left \in BB
          BY <1>1, <2>6, <4>1
        <5> HIDE DEF P, C, BB
        <5>2. \A l, t \in Seq(BB), z \in BB : l \o Append(t, z) = Append(l \o t, z)
          BY ConcatAppend
        <5> QED BY <5>1, <5>2
      <4> QED BY <4>2, <4>3
    <3> QED BY <2>4, <2>6, <3>1, <3>2, <3>3, Zenon DEF y
  <2> QED BY <2>7, <2>8
<1> HIDE DEF P
<1>4. Len(d) \in P
  BY <1>1, <1>2, <1>3, Induct
<1>5. C(Len(d)) /\ SubSeq(d, 1, Len(d)) = d
  BY <1>1, <1>4, PrefixGrows DEF P
<1> QED BY <1>5

-----------------------------------------------------------------------------
\* Lines and files.

Whole(l) == \E f \in 1..MaxFiles, b \in EndOffsets : IsLineUpTo(l, f, b - 1)

\* One more byte of the file continues the line; a line end completes it.
LEMMA LineGrows ==
    ASSUME NEW l \in Seq(Bytes), NEW f \in 1..MaxFiles, NEW p \in Nat, p + 1 \in 1..FileSize,
           IsLineUpTo(l, f, p)
    PROVE  /\ p + 1 \notin EndOffsets => IsLineUpTo(Append(l, <<f, p + 1>>), f, p + 1)
           /\ p + 1 \in EndOffsets => Whole(l) /\ IsLineUpTo(<< >>, f, p + 1)
<1> DEFINE x == <<f, p + 1>>
           t == Append(l, x)
<1>1. PICK a \in 1..p + 1 :
         /\ \A c \in a..p : c \notin EndOffsets
         /\ \/ a - 1 \in EndOffsets /\ l = Part(f, a, p)
            \/ /\ a = 1 /\ p <= Len(l)
               /\ \A k \in 1..p : l[Len(l) - p + k] = <<f, k>>
  BY DEF IsLineUpTo
<1>2. /\ Len(l) \in Nat /\ Len(t) = Len(l) + 1 /\ t[Len(l) + 1] = x /\ x \in Bytes
      /\ \A k \in 1..Len(l) : t[k] = l[k]
  <2>1. x \in Bytes
    BY DEF Bytes
  <2> HIDE DEF x
  <2> QED BY <2>1, AppendProperties, LenProperties
<1>3. ASSUME p + 1 \notin EndOffsets
      PROVE  IsLineUpTo(t, f, p + 1)
  <2>1. a \in 1..(p + 1) + 1 /\ \A c \in a..p + 1 : c \notin EndOffsets
    <3>1. \A c \in a..p + 1 : c = p + 1 \/ c \in a..p
      OBVIOUS
    <3> QED BY <1>1, <1>3, <3>1
  <2>2. CASE a - 1 \in EndOffsets /\ l = Part(f, a, p)
    <3>1. t = Part(f, a, p + 1)
      <4> DEFINE q == p - a + 1
      <4>1. q \in Nat /\ (p + 1) - a + 1 = q + 1 /\ a + (q + 1) - 1 = p + 1
        OBVIOUS
      <4>2. l = [k \in 1..q |-> <<f, a + k - 1>>] /\ Len(l) = q
        BY <2>2, <4>1 DEF Part
      <4>3. Part(f, a, p + 1) = [k \in 1..q + 1 |-> <<f, a + k - 1>>]
        BY <4>1 DEF Part
      <4>4. t \in Seq(Bytes) /\ Len(t) = q + 1 /\ DOMAIN t = 1..q + 1
        BY <1>2, <4>2, AppendProperties, LenProperties
      <4>5. ASSUME NEW k \in 1..q + 1 PROVE t[k] = <<f, a + k - 1>>
        <5>1. CASE k = q + 1
          BY <1>2, <4>1, <4>2, <5>1
        <5>2. CASE k # q + 1
          <6>1. k \in 1..q
            BY <4>1, <5>2
          <6> QED BY <1>2, <4>2, <6>1
        <5> QED BY <5>1, <5>2
      <4>6. t = [k \in 1..q + 1 |-> t[k]]
        BY <4>4, LenProperties
      <4> HIDE DEF t, q
      <4> QED BY <4>3, <4>5, <4>6
    <3> QED BY <2>1, <2>2, <3>1 DEF IsLineUpTo
  <2>3. CASE /\ a = 1 /\ p <= Len(l)
             /\ \A k \in 1..p : l[Len(l) - p + k] = <<f, k>>
    <3>1. p + 1 <= Len(t)
      BY <1>2, <2>3
    <3>2. ASSUME NEW k \in 1..p + 1
          PROVE  t[Len(t) - (p + 1) + k] = <<f, k>>
      <4>1. Len(t) - (p + 1) + k = Len(l) - p + k
        BY <1>2
      <4>2. CASE k = p + 1
        <5>1. Len(l) - p + k = Len(l) + 1
          BY <1>2, <4>2
        <5> QED BY <1>2, <4>1, <4>2, <5>1
      <4>3. CASE k # p + 1
        <5>1. k \in 1..p /\ Len(l) - p + k \in 1..Len(l)
          BY <1>2, <2>3, <4>3
        <5> QED BY <1>2, <2>3, <4>1, <5>1
      <4> QED BY <4>2, <4>3
    <3> HIDE DEF t
    <3> QED BY <2>1, <2>3, <3>1, <3>2 DEF IsLineUpTo
  <2> QED BY <1>1, <2>2, <2>3
<1>4. ASSUME p + 1 \in EndOffsets
      PROVE  Whole(l) /\ IsLineUpTo(<< >>, f, p + 1)
  <2>1. (p + 1) - 1 = p /\ p + 2 \in 1..(p + 1) + 1 /\ (p + 2) - 1 = p + 1
    OBVIOUS
  <2>2. Whole(l)
    BY <1>4, <2>1 DEF Whole
  <2>3. << >> = Part(f, p + 2, p + 1)
    BY DEF Part
  <2>4. \A c \in p + 2..p + 1 : c \notin EndOffsets
    OBVIOUS
  <2>5. IsLineUpTo(<< >>, f, p + 1)
    BY <1>4, <2>1, <2>3, <2>4 DEF IsLineUpTo
  <2> QED BY <2>2, <2>5
<1> QED BY <1>3, <1>4

\* Whatever the buffer holds, it ends with the nothing that was read of a new file.
LEMMA FromTheBeginning ==
    ASSUME NEW l \in Seq(Bytes), NEW f
    PROVE  IsLineUpTo(l, f, 0)
<1>1. Len(l) \in Nat /\ 1 \in 1..0 + 1 /\ 1..0 = {}
  BY LenProperties
<1> QED BY <1>1 DEF IsLineUpTo

\* The chunk is cut into whole lines, and what is left is a line up to where was read.
LEMMA CutsWhole ==
    ASSUME NEW b \in Seq(Bytes), NEW m \in Nat, NEW n \in Nat,
           NEW f \in 1..MaxFiles, NEW p \in Nat, p + n <= FileSize,
           EndsWithPart(b, m, f, p, n), NEW g, IsRun(g, b),
           NEW r \in Seq(Bytes), g[m] = LeftOnly(r),
           Len(r) = m, NoLineEnd(r), IsLineUpTo(r, f, p)
    PROVE  /\ g[m + n] \in Cuts(Bytes)
           /\ Len(g[m + n].left) <= m + n
           /\ NoLineEnd(g[m + n].left)
           /\ IsLineUpTo(g[m + n].left, f, p + n)
           /\ \A i \in DOMAIN g[m + n].found : Whole(g[m + n].found[i])
<1>0. /\ Len(b) = m + n /\ \A j \in 1..n : b[m + j] = <<f, p + j>>
      /\ \A i \in 1..Len(b) : g[i] = CutAt(g[i - 1], b[i])
      /\ g[m] = [found |-> << >>, left |-> r]
      /\ \A i \in DOMAIN r : ~ IsLineEnd(r[i])
  BY DEF EndsWithPart, IsRun, LeftOnly, NoLineEnd
<1> USE <1>0
<1> DEFINE C(j, y) == /\ y \in Cuts(Bytes)
                      /\ Len(y.left) <= m + j
                      /\ \A i \in DOMAIN y.left : ~ IsLineEnd(y.left[i])
                      /\ IsLineUpTo(y.left, f, p + j)
                      /\ \A i \in DOMAIN y.found : Whole(y.found[i])
           P == {j \in Nat : j <= n => C(j, g[m + j])}
<1>1. 0 \in P
  <2>1. m + 0 = m /\ p + 0 = p
    OBVIOUS
  <2>2. g[m] \in Cuts(Bytes) /\ g[m].left = r /\ g[m].found = << >>
    BY DEF Cuts
  <2>3. C(0, g[m])
    BY <2>1, <2>2
  <2> HIDE DEF C
  <2> QED BY <2>1, <2>3
<1>2. ASSUME NEW j \in Nat, j \in P PROVE j + 1 \in P
  <2> DEFINE x == g[m + j]
             y == g[m + (j + 1)]
             c == <<f, p + (j + 1)>>
  <2>1. SUFFICES ASSUME j + 1 <= n PROVE C(j + 1, y)
    OBVIOUS
  <2>2. C(j, x)
    BY <1>2, <2>1
  <2>3. y = CutAt(x, c)
    <3>1. m + (j + 1) \in 1..m + n /\ (m + (j + 1)) - 1 = m + j /\ j + 1 \in 1..n
      <4>1. m \in Nat /\ n \in Nat /\ j \in Nat /\ j + 1 <= n
        BY <2>1
      <4> QED BY ONLY <4>1
    <3>2. b[m + (j + 1)] = c
      BY <3>1
    <3> QED BY <3>1, <3>2
  <2>4. /\ p + (j + 1) = (p + j) + 1 /\ p + j \in Nat
        /\ (p + j) + 1 \in 1..FileSize /\ c \in Bytes
    BY <2>1, SizesAssumption, SMTT(30) DEF Bytes
  <2>5. IsLineEnd(c) <=> (p + j) + 1 \in EndOffsets
    BY <2>4 DEF IsLineEnd
  <2>6. x.left \in Seq(Bytes) /\ x.found \in Seq(Seq(Bytes))
    BY <2>2 DEF Cuts
  <2>7. /\ (p + j) + 1 \notin EndOffsets => IsLineUpTo(Append(x.left, c), f, (p + j) + 1)
        /\ (p + j) + 1 \in EndOffsets => Whole(x.left) /\ IsLineUpTo(<< >>, f, (p + j) + 1)
    BY <2>2, <2>4, <2>6, LineGrows
  <2>8. y \in Cuts(Bytes)
    BY <2>2, <2>3, <2>4, CutAtType
  <2> HIDE DEF x, y, c
  <2>9. CASE ~ IsLineEnd(c)
    <3>1. y.found = x.found /\ y.left = Append(x.left, c)
      BY <2>3, <2>9 DEF CutAt
    <3>2. /\ Len(x.left) \in Nat /\ Len(y.left) = Len(x.left) + 1
          /\ DOMAIN x.left = 1..Len(x.left) /\ DOMAIN y.left = 1..Len(x.left) + 1
          /\ y.left[Len(x.left) + 1] = c
          /\ \A k \in 1..Len(x.left) : y.left[k] = x.left[k]
      BY <2>4, <2>6, <3>1, AppendedByte
    <3>3. Len(y.left) <= m + (j + 1)
      BY <2>2, <3>2
    <3>4. \A i \in DOMAIN y.left : ~ IsLineEnd(y.left[i])
      <4>1. \A i \in 1..Len(x.left) + 1 : i = Len(x.left) + 1 \/ i \in 1..Len(x.left)
        BY <3>2
      <4> QED BY <2>2, <2>9, <3>2, <4>1
    <3>5. IsLineUpTo(y.left, f, p + (j + 1))
      BY <2>4, <2>5, <2>7, <2>9, <3>1
    <3>6. \A i \in DOMAIN y.found : Whole(y.found[i])
      BY <2>2, <3>1
    <3> QED BY <2>8, <3>3, <3>4, <3>5, <3>6
  <2>10. CASE IsLineEnd(c)
    <3>1. y.found = Append(x.found, x.left) /\ y.left = << >>
      BY <2>3, <2>10 DEF CutAt
    <3>2. Len(y.left) <= m + (j + 1) /\ \A i \in DOMAIN y.left : ~ IsLineEnd(y.left[i])
      BY <3>1
    <3>3. IsLineUpTo(y.left, f, p + (j + 1)) /\ Whole(x.left)
      BY <2>4, <2>5, <2>7, <2>10, <3>1
    <3>4. \A i \in DOMAIN y.found : Whole(y.found[i])
      <4> DEFINE k == Len(x.found)
      <4>1. /\ k \in Nat /\ DOMAIN x.found = 1..k /\ DOMAIN y.found = 1..k + 1
            /\ y.found[k + 1] = x.left
            /\ \A i \in 1..k : y.found[i] = x.found[i]
        <5> DEFINE u == x.found
                   v == x.left
        <5>1. u \in Seq(Seq(Bytes)) /\ v \in Seq(Bytes) /\ y.found = Append(u, v)
          BY <2>6, <3>1
        <5> HIDE DEF u, v
        <5>2. /\ Len(u) \in Nat /\ DOMAIN u = 1..Len(u) /\ DOMAIN Append(u, v) = 1..Len(u) + 1
              /\ Append(u, v)[Len(u) + 1] = v
              /\ \A i \in 1..Len(u) : Append(u, v)[i] = u[i]
          BY <5>1, AppendedByte
        <5> QED BY <5>1, <5>2 DEF u, v
      <4>2. \A i \in 1..k + 1 : i = k + 1 \/ i \in 1..k
        BY <4>1
      <4> QED BY <2>2, <3>3, <4>1, <4>2
    <3> QED BY <2>8, <3>2, <3>3, <3>4
  <2> QED BY <2>9, <2>10
<1> HIDE DEF P
<1>3. n \in P
  BY <1>1, <1>2, Induct
<1>4. C(n, g[m + n])
  BY <1>3 DEF P
<1> QED BY <1>4 DEF NoLineEnd

-----------------------------------------------------------------------------
\* The inductive invariant.

Types ==
    /\ sizes \in Seq(0..FileSize) /\ Len(sizes) <= MaxFiles
    /\ handle \in 0..Len(sizes) /\ pos \in Nat
    /\ buffer \in Seq(Bytes) /\ stream \in Seq(Bytes) /\ lines \in Seq(Seq(Bytes))
    /\ polling \in BOOLEAN /\ atPoll \in Nat

\* The buffer has room or is full, and the file holds what was read of it.
Positions ==
    /\ Len(buffer) <= BufferSize
    /\ handle # 0 => pos <= sizes[handle]
    /\ polling => handle # 0 /\ atPoll <= sizes[handle]

\* The lines are those of the stream, and the buffer holds the rest behind the last one.
CutUp ==
    /\ lines = Feed!LinesOf(stream)
    /\ buffer = Rest(stream)
    /\ NoLineEnd(buffer)

\* The buffer ends with the open file's bytes up to the read position.
WholeSoFar == LinesAreWhole /\ (handle # 0 => IsLineUpTo(buffer, handle, pos))

IInv == Types /\ Positions /\ CutUp /\ WholeSoFar

LEMMA InitInv == Init => IInv
<1> SUFFICES ASSUME Init PROVE IInv
  OBVIOUS
<1>1. Types /\ Positions
  <2>1. Len(<< >>) = 0 /\ MaxFiles \in Nat /\ BufferSize \in Nat /\ 0 <= MaxFiles
        /\ 0 <= BufferSize /\ 0 \in 0..0
    BY SizesAssumption
  <2>2. /\ sizes \in Seq(0..FileSize) /\ buffer \in Seq(Bytes) /\ stream \in Seq(Bytes)
        /\ lines \in Seq(Seq(Bytes))
    BY DEF Init
  <2> QED BY <2>1, <2>2 DEF Init, Types, Positions
<1>2. CutUp
  <2>1. Feed!LineEnds(<< >>) = {} /\ Cardinality({}) = 0
    BY FS_EmptySet DEF Feed!LineEnds
  <2>2. LastEnd(<< >>) = 0
    BY <2>1 DEF LastEnd, Feed!NthEnd
  <2> DEFINE Line(i) == SubSeq(<< >>, Feed!NthEnd(<< >>, i - 1) + 1, Feed!NthEnd(<< >>, i) - 1)
  <2>3. Feed!LinesOf(<< >>) = << >>
    <3>1. Feed!LinesOf(<< >>) = [i \in 1..0 |-> Line(i)]
      BY <2>1, SameCardinality DEF Feed!LinesOf
    <3> HIDE DEF Line
    <3> QED BY <3>1
  <2>4. Rest(<< >>) = << >>
    BY <2>2 DEF Rest
  <2> QED BY <2>3, <2>4 DEF Init, CutUp, NoLineEnd
<1>3. WholeSoFar
  BY DEF Init, WholeSoFar, LinesAreWhole
<1> QED BY <1>1, <1>2, <1>3 DEF IInv

\* What a turn of the loop reads: the bytes that follow the read position, as many as the
\* file has and the buffer has room for.
LEMMA ChunkRead ==
    ASSUME IInv, polling
    PROVE  LET n == BytesRead
               d == Part(handle, pos + 1, pos + n)
           IN  /\ handle \in 1..Len(sizes) /\ handle \in 1..MaxFiles
               /\ sizes[handle] \in 0..FileSize
               /\ n \in Nat /\ pos + n <= sizes[handle] /\ Len(buffer) + n <= BufferSize
               /\ n = 0 => pos = sizes[handle] \/ Len(buffer) = BufferSize
               /\ d \in Seq(Bytes) /\ Len(d) = n
               /\ \A j \in 1..n : d[j] = <<handle, pos + j>>
<1> DEFINE n == BytesRead
           d == Part(handle, pos + 1, pos + n)
<1>1. handle \in 1..Len(sizes) /\ handle \in 1..MaxFiles /\ sizes[handle] \in 0..FileSize
  <2>1. Len(sizes) \in Nat
    BY LenProperties DEF IInv, Types
  <2>2. handle \in 1..Len(sizes) /\ handle \in 1..MaxFiles
    BY <2>1, SizesAssumption DEF IInv, Types, Positions
  <2> QED BY <2>2, ElementOfSeq DEF IInv, Types
<1>2. /\ n \in Nat /\ pos + n <= sizes[handle] /\ Len(buffer) + n <= BufferSize
      /\ n = 0 => pos = sizes[handle] \/ Len(buffer) = BufferSize
  <2>1. Len(buffer) \in Nat /\ pos \in Nat /\ BufferSize \in Nat /\ FileSize \in Nat
    BY SizesAssumption, LenProperties DEF IInv, Types
  <2>2. Len(buffer) <= BufferSize /\ pos <= sizes[handle]
    BY <1>1, <2>1 DEF IInv, Positions
  <2> QED BY <1>1, <2>1, <2>2 DEF BytesRead, Room, Unread
<1> HIDE DEF n
<1>3. /\ d \in Seq(Bytes) /\ Len(d) = n
      /\ \A j \in 1..n : d[j] = <<handle, pos + j>>
  <2>1. pos \in Nat /\ (pos + n) - (pos + 1) + 1 = n
    BY <1>2 DEF IInv, Types
  <2>2. \A j \in 1..n : (pos + 1) + j - 1 = pos + j
    BY <1>2, <2>1
  <2>3. d = [j \in 1..n |-> <<handle, (pos + 1) + j - 1>>]
    BY <2>1 DEF Part
  <2>4. \A j \in 1..n : <<handle, (pos + 1) + j - 1>> \in Bytes
    BY <1>1, <1>2, <2>1, SizesAssumption DEF Bytes
  <2>5. d \in [1..n -> Bytes] /\ \A j \in 1..n : d[j] = <<handle, pos + j>>
    <3> HIDE DEF d
    <3> QED BY <2>2, <2>3, <2>4
  <2> HIDE DEF d
  <2> QED BY <1>2, <2>5, FunctionIsSeq
<1> QED BY <1>1, <1>2, <1>3 DEF n

LEMMA ReadInv == IInv /\ Read => IInv' /\ Feed!IsPrefix(stream, stream')
<1> SUFFICES ASSUME IInv, Read
             PROVE  IInv' /\ Feed!IsPrefix(stream, stream')
  OBVIOUS
<1> DEFINE n == BytesRead
           m == Len(buffer)
           d == Part(handle, pos + 1, pos + n)
           b == buffer \o d
<1>1. /\ handle \in 1..Len(sizes) /\ handle \in 1..MaxFiles /\ sizes[handle] \in 0..FileSize
      /\ n \in Nat /\ pos + n <= sizes[handle] /\ m + n <= BufferSize
      /\ d \in Seq(Bytes) /\ Len(d) = n /\ \A j \in 1..n : d[j] = <<handle, pos + j>>
  BY ChunkRead DEF Read
<1>2. /\ stream' = stream \o d /\ lines' = lines \o ProcessBytes(b).found
      /\ buffer' = ProcessBytes(b).left /\ pos' = pos + n
      /\ UNCHANGED <<sizes, handle, polling, starts, atPoll>>
  BY DEF Read
<1>3. /\ buffer \in Seq(Bytes) /\ stream \in Seq(Bytes) /\ lines \in Seq(Seq(Bytes))
      /\ pos \in Nat /\ FileSize \in Nat /\ Len(sizes) \in Nat
      /\ NoLineEnd(buffer)
      /\ IsLineUpTo(buffer, handle, pos) /\ buffer = Rest(stream)
      /\ lines = Feed!LinesOf(stream)
  BY <1>1, SizesAssumption, LenProperties DEF IInv, Types, CutUp, WholeSoFar
<1> HIDE DEF n, d
<1>4. /\ b \in Seq(Bytes) /\ m \in Nat /\ Len(b) = m + n /\ DOMAIN buffer = 1..m
      /\ \A i \in 1..m : b[i] = buffer[i]
      /\ \A j \in 1..n : b[m + j] = d[j]
  <2>1. m \in Nat /\ DOMAIN buffer = 1..m
    BY <1>3, LenProperties
  <2>2. /\ b \in Seq(Bytes) /\ Len(b) = m + n
        /\ \A i \in 1..m + n : b[i] = IF i <= m THEN buffer[i] ELSE d[i - m]
    BY <1>1, <1>3, ConcatProperties
  <2>3. \A i \in 1..m : i \in 1..m + n /\ i <= m
    BY <1>1, <2>1
  <2>4. \A j \in 1..n : m + j \in 1..m + n /\ ~ (m + j <= m) /\ (m + j) - m = j
    BY <1>1, <2>1
  <2> HIDE DEF b, m
  <2> QED BY <2>1, <2>2, <2>3, <2>4
<1>5. SubSeq(b, 1, m) = buffer
  <2> HIDE DEF b, m
  <2>1. /\ SubSeq(b, 1, m) \in Seq(Bytes) /\ Len(SubSeq(b, 1, m)) = m
        /\ \A i \in 1..m : SubSeq(b, 1, m)[i] = b[i]
    <3>1. /\ m \in Int /\ (1 <= m => m - 1 + 1 = m) /\ (~ (1 <= m) => m = 0)
          /\ \A i \in 1..m : i \in 1..m - 1 + 1 /\ 1 + i - 1 = i
      BY <1>4
    <3>2. \A i \in 1..m : b[i] \in Bytes
      BY <1>1, <1>4, ElementOfSeq
    <3>3. /\ SubSeq(b, 1, m) \in Seq(Bytes)
          /\ Len(SubSeq(b, 1, m)) = IF 1 <= m THEN m - 1 + 1 ELSE 0
          /\ \A i \in 1..m - 1 + 1 : SubSeq(b, 1, m)[i] = b[1 + i - 1]
      BY <3>1, <3>2, SubSeqProperties
    <3> QED BY <3>1, <3>3
  <2> QED BY <1>3, <1>4, <2>1, SeqEqual DEF m
<1> HIDE DEF m
<1>6. PICK g : g[0] = NothingYet /\ IsRun(g, b) /\ ProcessBytes(b) = g[Len(b)]
  BY <1>4, ProcessSteps DEF IsRun
<1> HIDE DEF b
<1>7. g[m] = LeftOnly(buffer)
  <2>1. m \in 0..Len(b)
    BY <1>1, <1>4
  <2>2. \A i \in 1..m : ~ IsLineEnd(b[i])
    BY <1>3, <1>4 DEF NoLineEnd
  <2>3. g[m] = LeftOnly(SubSeq(b, 1, m))
    BY <1>4, <1>6, <2>1, <2>2, SkipsTail
  <2> QED BY <1>5, <2>3
<1>8. /\ g[m + n] \in Cuts(Bytes)
      /\ Len(g[m + n].left) <= m + n
      /\ NoLineEnd(g[m + n].left)
      /\ IsLineUpTo(g[m + n].left, handle, pos + n)
      /\ \A i \in DOMAIN g[m + n].found : Whole(g[m + n].found[i])
  <2>1. pos + n <= FileSize /\ Len(buffer) = m
    BY <1>1, <1>3, <1>4 DEF m
  <2>2. EndsWithPart(b, m, handle, pos, n)
    BY <1>1, <1>4 DEF EndsWithPart
  <2>3. /\ b \in Seq(Bytes) /\ m \in Nat /\ n \in Nat /\ pos \in Nat
        /\ handle \in 1..MaxFiles /\ buffer \in Seq(Bytes)
        /\ NoLineEnd(buffer) /\ IsLineUpTo(buffer, handle, pos) /\ IsRun(g, b)
    BY <1>1, <1>3, <1>4, <1>6
  <2> QED BY <1>7, <2>1, <2>2, <2>3, CutsWhole
<1>9. /\ g[m + n].found \in Seq(Seq(Bytes))
      /\ Feed!LinesOf(stream \o d) = Feed!LinesOf(stream) \o g[m + n].found
      /\ g[m + n].left = Rest(stream \o d)
  <2>1. EndsWith(b, d, m)
    BY <1>1, <1>4 DEF EndsWith
  <2>2. g[m] = LeftOnly(Rest(stream))
    BY <1>3, <1>7
  <2>3. /\ g[Len(b)].found \in Seq(Seq(Bytes))
        /\ Feed!LinesOf(stream \o d) = Feed!LinesOf(stream) \o g[Len(b)].found
        /\ g[Len(b)].left = Rest(stream \o d)
    <3>1. /\ d \in Seq(Bytes) /\ stream \in Seq(Bytes) /\ b \in Seq(Bytes) /\ m \in Nat
          /\ IsRun(g, b)
      BY <1>1, <1>3, <1>4, <1>6
    <3> QED BY <2>1, <2>2, <3>1, CutsFeed
  <2> QED BY <1>4, <2>3
<1>10. /\ buffer' = g[m + n].left /\ lines' = lines \o g[m + n].found
       /\ buffer' \in Seq(Bytes) /\ g[m + n].found \in Seq(Seq(Bytes))
  <2>1. g[m + n].left \in Seq(Bytes)
    BY <1>8 DEF Cuts
  <2> QED BY <1>2, <1>4, <1>6, <1>9, <2>1
<1>11. Types'
  <2>1. lines' \in Seq(Seq(Bytes))
    <3> DEFINE BB == Seq(Bytes)
    <3>1. lines \in Seq(BB) /\ g[m + n].found \in Seq(BB)
      BY <1>3, <1>10
    <3> HIDE DEF BB
    <3>2. lines \o g[m + n].found \in Seq(BB)
      BY <3>1, ConcatProperties
    <3> QED BY <1>10, <3>2 DEF BB
  <2>2. stream' \in Seq(Bytes) /\ pos' \in Nat
    BY <1>1, <1>2, <1>3, ConcatProperties
  <2> QED BY <1>2, <1>10, <2>1, <2>2 DEF IInv, Types
<1>12. Positions'
  <2>1. Len(buffer') <= BufferSize
    <3>1. Len(buffer') \in Nat /\ BufferSize \in Nat /\ Len(buffer') <= m + n
      BY <1>8, <1>10, LenProperties, SizesAssumption
    <3> QED BY <1>1, <1>4, <3>1
  <2> QED BY <1>1, <1>2, <2>1 DEF IInv, Positions
<1>13. CutUp'
  <2>1. /\ lines' = Feed!LinesOf(stream') /\ buffer' = Rest(stream')
        /\ NoLineEnd(buffer')
    BY <1>2, <1>3, <1>8, <1>9, <1>10
  <2> QED BY <2>1 DEF CutUp
<1>14. WholeSoFar'
  <2> DEFINE new == g[m + n].found
  <2>1. /\ Len(lines) \in Nat /\ Len(new) \in Nat /\ DOMAIN lines = 1..Len(lines)
        /\ DOMAIN new = 1..Len(new) /\ DOMAIN lines' = 1..Len(lines) + Len(new)
        /\ \A i \in 1..Len(lines) + Len(new) :
              lines'[i] = IF i <= Len(lines) THEN lines[i] ELSE new[i - Len(lines)]
    <3>1. Len(lines) \in Nat /\ Len(new) \in Nat
          /\ DOMAIN lines = 1..Len(lines) /\ DOMAIN new = 1..Len(new)
      BY <1>3, <1>10, LenProperties
    <3>2. /\ lines \o new \in Seq(Seq(Bytes)) /\ Len(lines \o new) = Len(lines) + Len(new)
          /\ \A i \in 1..Len(lines) + Len(new) :
                (lines \o new)[i] = IF i <= Len(lines) THEN lines[i] ELSE new[i - Len(lines)]
      <4> DEFINE BB == Seq(Bytes)
      <4>1. lines \in Seq(BB) /\ new \in Seq(BB)
        BY <1>3, <1>10
      <4> HIDE DEF BB, new
      <4>2. \A s, t \in Seq(BB) :
               /\ s \o t \in Seq(BB) /\ Len(s \o t) = Len(s) + Len(t)
               /\ \A i \in 1..Len(s) + Len(t) :
                     (s \o t)[i] = IF i <= Len(s) THEN s[i] ELSE t[i - Len(s)]
        BY ConcatProperties
      <4> QED BY <4>1, <4>2 DEF BB
    <3>3. DOMAIN lines' = 1..Len(lines) + Len(new)
      BY <1>10, <3>2, LenProperties
    <3> QED BY <1>10, <3>1, <3>2, <3>3
  <2> HIDE DEF new
  <2>2. \A i \in DOMAIN lines : Whole(lines[i])
    BY DEF IInv, WholeSoFar, LinesAreWhole, Whole
  <2>3. \A i \in DOMAIN new : Whole(new[i])
    BY <1>8 DEF new
  <2>4. ASSUME NEW i \in 1..Len(lines) + Len(new)
        PROVE  Whole(lines'[i])
    <3>1. CASE i <= Len(lines)
      BY <2>1, <2>2, <3>1
    <3>2. CASE ~ (i <= Len(lines))
      <4>1. i - Len(lines) \in 1..Len(new)
        BY <2>1, <3>2
      <4> QED BY <2>1, <2>3, <3>2, <4>1
    <3> QED BY <3>1, <3>2
  <2>5. LinesAreWhole'
    BY <2>1, <2>4 DEF LinesAreWhole, Whole
  <2>6. IsLineUpTo(buffer', handle', pos')
    BY <1>2, <1>8, <1>10
  <2> QED BY <2>5, <2>6 DEF WholeSoFar
<1>15. Feed!IsPrefix(stream, stream')
  <2>1. /\ Len(stream) \in Nat /\ stream' \in Seq(Bytes) /\ Len(stream') = Len(stream) + n
        /\ \A i \in 1..Len(stream) : stream'[i] = stream[i]
    <3>1. Len(stream) \in Nat
      BY <1>3, LenProperties
    <3>2. /\ stream \o d \in Seq(Bytes) /\ Len(stream \o d) = Len(stream) + n
          /\ \A i \in 1..Len(stream) + n :
                (stream \o d)[i] = IF i <= Len(stream) THEN stream[i] ELSE d[i - Len(stream)]
      BY <1>1, <1>3, ConcatProperties
    <3>3. \A i \in 1..Len(stream) : i \in 1..Len(stream) + n /\ i <= Len(stream)
      BY <1>1, <3>1
    <3> QED BY <1>2, <3>1, <3>2, <3>3
  <2>2. SubSeq(stream, 1, Len(stream)) = SubSeq(stream', 1, Len(stream))
    <3>1. SubSeq(stream, 1, Len(stream)) = stream
      BY <1>3, PrefixGrows
    <3> DEFINE l == Len(stream)
               r == SubSeq(stream', 1, l)
    <3>2. r \in Seq(Bytes) /\ Len(r) = l /\ \A i \in 1..l : r[i] = stream'[i]
      <4> HIDE DEF l
      <4>1. l \in Int /\ (1 <= l => l - 1 + 1 = l) /\ (~ (1 <= l) => l = 0)
            /\ \A i \in 1..l : i \in 1..l - 1 + 1 /\ 1 + i - 1 = i
        BY <2>1 DEF l
      <4>2. \A i \in 1..l : i \in 1..Len(stream') /\ stream'[i] \in Bytes
        BY <1>1, <2>1, ElementOfSeq DEF l
      <4>3. /\ r \in Seq(Bytes) /\ Len(r) = IF 1 <= l THEN l - 1 + 1 ELSE 0
            /\ \A i \in 1..l - 1 + 1 : r[i] = stream'[1 + i - 1]
        BY <4>1, <4>2, SubSeqProperties
      <4> QED BY <4>1, <4>3
    <3> HIDE DEF r
    <3>3. r = stream
      BY <1>3, <2>1, <3>2, SeqEqual
    <3> QED BY <3>1, <3>3 DEF r
  <2>3. Len(stream) <= Len(stream')
    BY <1>1, <2>1
  <2> QED BY <2>2, <2>3 DEF Feed!IsPrefix
<1> QED BY <1>11, <1>12, <1>13, <1>14, <1>15 DEF IInv

\* The steps that read nothing leave the lines, and what is in the buffer, alone.
LEMMA OtherStepsInv ==
    ASSUME IInv, UNCHANGED <<buffer, stream, lines>>,
           Types', Positions',
           handle' # 0 => (handle' = handle /\ pos' = pos) \/ pos' = 0
    PROVE  IInv'
<1>1. CutUp'
  BY DEF IInv, CutUp
<1>2. LinesAreWhole'
  BY DEF IInv, WholeSoFar, LinesAreWhole
<1>3. handle' # 0 => IsLineUpTo(buffer', handle', pos')
  <2>1. \A f : IsLineUpTo(buffer, f, 0)
    BY FromTheBeginning DEF IInv, Types
  <2> QED BY <2>1 DEF IInv, WholeSoFar
<1> QED BY <1>1, <1>2, <1>3 DEF IInv, WholeSoFar

LEMMA NextInv == IInv /\ [Next]_vars => IInv'
<1> SUFFICES ASSUME IInv, [Next]_vars
             PROVE  IInv'
  OBVIOUS
<1>1. /\ sizes \in Seq(0..FileSize) /\ Len(sizes) \in Nat /\ DOMAIN sizes = 1..Len(sizes)
      /\ Len(sizes) <= MaxFiles /\ handle \in 0..Len(sizes)
      /\ \A f \in 1..Len(sizes) : sizes[f] \in 0..FileSize
      /\ MaxFiles \in Nat /\ FileSize \in Nat
  BY SizesAssumption, LenProperties, ElementOfSeq DEF IInv, Types
<1>2. CASE GameNewFile
  <2>1. /\ sizes' \in Seq(0..FileSize) /\ Len(sizes') = Len(sizes) + 1
        /\ \A f \in 1..Len(sizes) : sizes'[f] = sizes[f]
    <3>1. 0 \in 0..FileSize /\ sizes' = Append(sizes, 0)
      BY <1>1, <1>2 DEF GameNewFile
    <3> QED BY <1>1, <3>1, AppendProperties
  <2>2. handle \in 0..Len(sizes') /\ Len(sizes') <= MaxFiles
    BY <1>1, <1>2, <2>1 DEF GameNewFile
  <2>3. handle # 0 => sizes'[handle] = sizes[handle]
    BY <1>1, <2>1
  <2>4. Types'
    BY <1>2, <2>1, <2>2 DEF GameNewFile, IInv, Types
  <2>5. Positions'
    BY <1>2, <2>3 DEF GameNewFile, IInv, Positions
  <2> QED BY <1>2, <2>4, <2>5, OtherStepsInv DEF GameNewFile
<1>3. ASSUME NEW n \in 1..FileSize, GameWrite(n)
      PROVE  IInv'
  <2> DEFINE l == Len(sizes)
  <2>1. l \in 1..Len(sizes) /\ sizes[l] + n \in 0..FileSize
    <3>1. l \in 1..Len(sizes)
      <4>1. l # 0
        BY <1>1, <1>3, EmptySeq DEF GameWrite
      <4> QED BY <1>1, <4>1
    <3> QED BY <1>1, <1>3, <3>1 DEF GameWrite, Last
  <2>2. /\ sizes' \in Seq(0..FileSize) /\ Len(sizes') = Len(sizes)
        /\ sizes'[l] = sizes[l] + n
        /\ \A f \in 1..Len(sizes) : f # l => sizes'[f] = sizes[f]
    <3>1. sizes' = [sizes EXCEPT ![l] = sizes[l] + n]
      BY <1>3 DEF GameWrite
    <3> HIDE DEF l
    <3> QED BY <1>1, <2>1, <3>1, ExceptSeq
  <2>3. ASSUME handle # 0
        PROVE  sizes[handle] <= sizes'[handle] /\ sizes'[handle] \in Nat
    <3>1. handle \in 1..Len(sizes) /\ sizes[handle] \in Nat
      <4>1. handle \in 1..Len(sizes)
        BY <1>1, <2>3
      <4> QED BY <1>1, <4>1
    <3>2. CASE handle = l
      BY <2>2, <3>1, <3>2
    <3>3. CASE handle # l
      <4>1. sizes'[handle] = sizes[handle]
        BY <2>2, <3>1, <3>3
      <4> QED BY <3>1, <4>1
    <3> QED BY <3>2, <3>3
  <2>4. Types'
    <3>1. UNCHANGED <<handle, pos, buffer, polling, stream, lines, atPoll>>
      BY <1>3 DEF GameWrite
    <3> QED BY <2>2, <3>1 DEF IInv, Types
  <2>5. Positions'
    <3>1. pos \in Nat /\ atPoll \in Nat /\ (handle # 0 => sizes[handle] \in Nat)
      BY <1>1 DEF IInv, Types
    <3>2. handle # 0 => pos <= sizes'[handle]
      BY <2>3, <3>1 DEF IInv, Positions
    <3>3. polling => handle # 0 /\ atPoll <= sizes'[handle]
      BY <2>3, <3>1 DEF IInv, Positions
    <3> QED BY <1>3, <3>2, <3>3 DEF GameWrite, IInv, Positions
  <2> QED BY <1>3, <2>4, <2>5, OtherStepsInv DEF GameWrite
<1>4. CASE Start
  <2>1. handle' \in 0..Len(sizes)
    BY <1>1, <1>4 DEF Start
  <2>2. handle' # 0 => 0 <= sizes[handle']
    BY <1>1, <2>1
  <2>3. Types'
    BY <1>4, <2>1 DEF Start, IInv, Types
  <2>4. Positions'
    <3>1. /\ pos' = 0 /\ sizes' = sizes /\ buffer' = buffer
          /\ polling' = FALSE
      BY <1>4 DEF Start, IInv, Types
    <3> QED BY <2>2, <3>1 DEF IInv, Positions
  <2> QED BY <1>4, <2>3, <2>4, OtherStepsInv DEF Start
<1>5. CASE Stop
  <2>1. Types'
    BY <1>1, <1>5 DEF Stop, IInv, Types
  <2>2. Positions'
    BY <1>5 DEF Stop, IInv, Positions
  <2> QED BY <1>5, <2>1, <2>2, OtherStepsInv DEF Stop
<1>6. CASE Poll
  <2>1. handle \in 1..Len(sizes) /\ sizes[handle] \in Nat /\ sizes[handle] <= sizes[handle]
    BY <1>1, <1>6 DEF Poll
  <2>2. Types'
    BY <1>6, <2>1 DEF Poll, IInv, Types
  <2>3. Positions'
    BY <1>6, <2>1 DEF Poll, IInv, Positions
  <2> QED BY <1>6, <2>2, <2>3, OtherStepsInv DEF Poll
<1>7. CASE Read
  BY <1>7, ReadInv
<1>8. CASE ReadNothing
  <2>1. Types' /\ Positions'
    BY <1>8 DEF ReadNothing, IInv, Types, Positions
  <2> QED BY <1>8, <2>1, OtherStepsInv DEF ReadNothing
<1>9. CASE ReadFails
  <2>1. Types' /\ Positions'
    BY <1>9 DEF ReadFails, IInv, Types, Positions
  <2> QED BY <1>9, <2>1, OtherStepsInv DEF ReadFails
<1>10. CASE UNCHANGED vars
  <2>1. Types' /\ Positions'
    BY <1>10 DEF vars, IInv, Types, Positions
  <2> QED BY <1>10, <2>1, OtherStepsInv DEF vars
<1> QED BY <1>2, <1>3, <1>4, <1>5, <1>6, <1>7, <1>8, <1>9, <1>10 DEF Next

THEOREM Invariance == Spec => []IInv
BY InitInv, NextInv, PTL DEF Spec

-----------------------------------------------------------------------------
\* What follows.

\* A line that the parser is given is a whole line of one file, whatever is started and
\* stopped; only the first line after a start may stand behind the unfinished line that
\* process_bytes had left in the buffer.
THEOREM WholeLines == Spec => []LinesAreWhole
<1>1. IInv => LinesAreWhole
  BY DEF IInv, WholeSoFar
<1> QED BY <1>1, Invariance, PTL

\* A buffer is full of the last bytes of one line.
LEMMA FullBuffer ==
    ASSUME IInv, Len(buffer) = BufferSize
    PROVE  InLongLine(stream)
<1> DEFINE n == Len(stream)
           e == LastEnd(stream)
<1>1. /\ stream \in Seq(Bytes) /\ n \in Nat /\ BufferSize \in Nat \ {0}
      /\ buffer = SubSeq(stream, e + 1, n) /\ NoLineEnd(buffer)
  BY SizesAssumption, LenProperties DEF IInv, Types, CutUp, Rest
<1>2. e \in 0..n
  <2>1. /\ Feed!LineEnds(stream) \in SUBSET (1..n)
        /\ Cardinality(Feed!LineEnds(stream)) \in Nat
        /\ \A i \in 1..Cardinality(Feed!LineEnds(stream)) :
              Feed!NthEnd(stream, i) \in Feed!LineEnds(stream)
    BY <1>1, NthEndFacts
  <2>2. Feed!NthEnd(stream, 0) = 0
    BY DEF Feed!NthEnd
  <2> DEFINE c == Cardinality(Feed!LineEnds(stream))
  <2>3. e = Feed!NthEnd(stream, c)
    BY DEF LastEnd
  <2>4. c = 0 \/ c \in 1..c
    BY <2>1
  <2> HIDE DEF c, e
  <2> QED BY <1>1, <2>1, <2>2, <2>3, <2>4 DEF c
<1> HIDE DEF n, e
<1>3. /\ Len(buffer) = IF e + 1 <= n THEN n - (e + 1) + 1 ELSE 0
      /\ \A i \in 1..n - (e + 1) + 1 : buffer[i] = stream[(e + 1) + i - 1]
      /\ DOMAIN buffer = 1..Len(buffer)
  <2>1. e + 1 \in Int /\ n \in Int /\ \A i \in e + 1..n : i \in 1..n
    BY <1>1, <1>2
  <2>2. \A i \in e + 1..n : stream[i] \in Bytes
    BY <1>1, <2>1, ElementOfSeq DEF n
  <2> QED BY <1>1, <2>1, <2>2, SubSeqProperties, LenProperties
<1>4. e + 1 <= n /\ n - e = BufferSize
  BY <1>1, <1>2, <1>3
<1>5. ASSUME NEW k \in n - BufferSize + 1..n PROVE ~ IsLineEnd(stream[k])
  <2>1. /\ k - e \in 1..n - (e + 1) + 1 /\ (e + 1) + (k - e) - 1 = k
        /\ k - e \in 1..Len(buffer)
    BY <1>1, <1>2, <1>3, <1>4
  <2>2. buffer[k - e] = stream[k] /\ k - e \in DOMAIN buffer
    BY <1>3, <2>1
  <2> QED BY <1>1, <2>2 DEF NoLineEnd
<1>6. n >= BufferSize
  BY <1>1, <1>2, <1>4
<1> QED BY <1>5, <1>6 DEF InLongLine, n

\* The loop over ReadFile ends only when ReadFile fails, or all that the file held at its
\* beginning was read, or the line that the reader is in has filled the buffer.
THEOREM PollsCatchUp == Spec => PollCatchesUp
<1>1. IInv /\ [Next]_vars =>
         [polling /\ ~ polling' =>
             failed' \/ pos' >= atPoll \/ InLongLine(stream')]_vars
  <2> SUFFICES ASSUME IInv, Next, polling, ~ polling', ~ failed'
               PROVE  pos' >= atPoll \/ InLongLine(stream')
    BY DEF vars
  <2>1. ReadNothing
    BY DEF Next, GameNewFile, GameWrite, Start, Stop, Poll, Read, ReadFails
  <2>2. pos = sizes[handle] \/ Len(buffer) = BufferSize
    BY <2>1, ChunkRead DEF ReadNothing
  <2>3. atPoll <= sizes[handle] /\ atPoll \in Nat /\ sizes[handle] \in 0..FileSize
    BY ChunkRead DEF IInv, Types, Positions
  <2>4. Len(buffer) = BufferSize => InLongLine(stream)
    BY FullBuffer
  <2>5. pos' = pos /\ stream' = stream
    BY <2>1 DEF ReadNothing
  <2>6. pos \in Nat
    BY DEF IInv, Types
  <2> QED BY <2>2, <2>3, <2>4, <2>5, <2>6
<1> QED BY <1>1, Invariance, PTL DEF Spec, PollCatchesUp

\* log_processor implements LineFeed: whatever the pieces, the size of the buffer and the
\* calls in between, the lines given out are those of the one stream of bytes read.
THEOREM Refinement == Spec => FeedsLines
<1>1. Init => Feed!Init
  BY DEF Init, Feed!Init
<1>2. IInv /\ IInv' /\ [Next]_vars => [Feed!Feed]_<<stream, lines>>
  <2> SUFFICES ASSUME IInv, IInv', [Next]_vars
               PROVE  [Feed!Feed]_<<stream, lines>>
    OBVIOUS
  <2>1. CASE Read
    <3>1. lines' = Feed!LinesOf(stream')
      BY DEF IInv, CutUp
    <3> QED BY <2>1, <3>1, ReadInv DEF Feed!Feed
  <2>2. CASE ~ Read
    BY <2>2 DEF Next, vars, GameNewFile, GameWrite, Start, Stop, Poll, ReadNothing,
       ReadFails
  <2> QED BY <2>1, <2>2
<1> QED BY <1>1, <1>2, Invariance, PTL DEF Spec, FeedsLines, Feed!Spec
-----------------------------------------------------------------------------
(* The characters of a line (LogParser) *)

\* A text is at p, as far as the line goes.
Stands(p, w) == \A k \in 1..Len(w) : p + k <= Len(line) => line[p + k] = w[k]

\* The characters that the formats know; and those of the names.
Marks == {"0", "1", "2", "3", "4", "5", "6", "7", "8", "9", "[", "]", LBrace, RBrace, "(", ")", "<",
          ">", ":", ".", "@", "*", "-", Space}
Char == STRING \cup Marks

Words == Seq(Char)

\* The characters of the formats are characters.
LEMMA MarksAreChars ==
    /\ \A c \in Marks : c \in Char
    /\ "0" \in Char /\ "[" \in Char /\ "]" \in Char /\ LBrace \in Char /\ RBrace \in Char
    /\ "(" \in Char /\ ")" \in Char /\ "<" \in Char /\ ">" \in Char /\ ":" \in Char
    /\ "." \in Char /\ "@" \in Char /\ "*" \in Char /\ "-" \in Char /\ Space \in Char
<1>1. \A c \in Marks : c \in Char
  BY Zenon DEF Char
<1>2. /\ "0" \in Marks /\ "[" \in Marks /\ "]" \in Marks /\ LBrace \in Marks /\ RBrace \in Marks
      /\ "(" \in Marks /\ ")" \in Marks /\ "<" \in Marks /\ ">" \in Marks /\ ":" \in Marks
      /\ "." \in Marks /\ "@" \in Marks /\ "*" \in Marks /\ "-" \in Marks /\ Space \in Marks
  BY DEF Marks
<1> QED BY <1>1, <1>2

\* A space and the braces are none of the others.
LEMMA SpaceIsNone ==
    /\ {Space, LBrace, RBrace} \cap {"0", "1", "2", "3", "4", "5", "6", "7", "8", "9"} = {}
    /\ {Space, LBrace, RBrace} \cap {"[", "]", "(", ")", "<", ">", ":", ".", "@", "*", "-"} = {}
    /\ Space # LBrace /\ Space # RBrace /\ LBrace # RBrace
    /\ "end" \notin {Space, LBrace, RBrace}
BY Zenon DEF Space, LBrace, RBrace

\* Texts of no character, of one and of two.
LEMMA SmallWords ==
    /\ << >> \in Words /\ Len(<< >>) = 0
    /\ \A c \in Char : <<c>> \in Words /\ Len(<<c>>) = 1 /\ <<c>>[1] = c
    /\ \A c, d \in Char : /\ <<c, d>> \in Words /\ Len(<<c, d>>) = 2
                          /\ <<c, d>>[1] = c /\ <<c, d>>[2] = d
BY DEF Words

\* A name is a text.
LEMMA WordsOfStrings ==
    ASSUME NEW w \in Seq(STRING)
    PROVE  w \in Words
<1>1. STRING \subseteq Char
  BY Zenon DEF Char
<1> DEFINE S == STRING
<1>2. w \in Seq(S) /\ S \subseteq Char
  BY <1>1
<1> HIDE DEF S
<1>3. w \in Seq(Char)
  <2>1. Len(w) \in Nat /\ w = [i \in 1..Len(w) |-> w[i]] /\ \A i \in 1..Len(w) : w[i] \in S
    BY <1>2, LenProperties, ElementOfSeq
  <2>2. \A i \in 1..Len(w) : w[i] \in Char
    BY <1>2, <2>1
  <2> QED BY <2>1, <2>2
<1> QED BY <1>3 DEF Words

\* One text behind another.
LEMMA TextConcat ==
    ASSUME NEW v \in Words, NEW w \in Words
    PROVE  /\ v \o w \in Words /\ Len(v \o w) = Len(v) + Len(w)
           /\ Len(v) \in Nat /\ Len(w) \in Nat
           /\ \A k \in 1..Len(v) : (v \o w)[k] = v[k]
           /\ \A k \in 1..Len(w) : (v \o w)[Len(v) + k] = w[k]
<1>1. v \o w \in Words /\ Len(v \o w) = Len(v) + Len(w) /\ Len(v) \in Nat /\ Len(w) \in Nat
  BY ConcatProperties, LenProperties DEF Words
<1>2. ASSUME NEW k \in 1..Len(v) PROVE (v \o w)[k] = v[k]
  <2>1. k \in 1..Len(v) + Len(w) /\ k <= Len(v)
    BY <1>1
  <2> QED BY <2>1, ConcatProperties DEF Words
<1>3. ASSUME NEW k \in 1..Len(w) PROVE (v \o w)[Len(v) + k] = w[k]
  <2>1. /\ Len(v) + k \in 1..Len(v) + Len(w) /\ ~ (Len(v) + k <= Len(v))
        /\ (Len(v) + k) - Len(v) = k
    BY <1>1
  <2> QED BY <2>1, ConcatProperties DEF Words
<1> QED BY <1>1, <1>2, <1>3

\* Two texts stand one behind the other.
LEMMA StandsConcat ==
    ASSUME NEW p \in Nat, NEW v \in Words, NEW w \in Words, line \in Words
    PROVE  Stands(p, v \o w) <=> Stands(p, v) /\ Stands(p + Len(v), w)
<1> DEFINE u == v \o w
<1>1. /\ Len(u) = Len(v) + Len(w) /\ Len(v) \in Nat /\ Len(w) \in Nat
      /\ \A k \in 1..Len(v) : u[k] = v[k]
      /\ \A k \in 1..Len(w) : u[Len(v) + k] = w[k]
  BY TextConcat
<1>2. Len(line) \in Nat
  BY LenProperties DEF Words
<1> HIDE DEF u
<1>3. ASSUME Stands(p, u) PROVE Stands(p, v)
  BY <1>1, <1>2, <1>3 DEF Stands
<1>4. ASSUME Stands(p, u) PROVE Stands(p + Len(v), w)
  <2> SUFFICES ASSUME NEW k \in 1..Len(w), p + Len(v) + k <= Len(line)
               PROVE  line[p + Len(v) + k] = w[k]
    BY DEF Stands
  <2>1. Len(v) + k \in 1..Len(u) /\ p + (Len(v) + k) = p + Len(v) + k
    BY <1>1
  <2> QED BY <1>1, <1>4, <2>1 DEF Stands
<1>5. ASSUME Stands(p, v), Stands(p + Len(v), w) PROVE Stands(p, u)
  <2> SUFFICES ASSUME NEW k \in 1..Len(u), p + k <= Len(line) PROVE line[p + k] = u[k]
    BY DEF Stands
  <2>1. CASE k <= Len(v)
    <3>1. k \in 1..Len(v)
      BY <1>1, <2>1
    <3> QED BY <1>1, <1>5, <3>1 DEF Stands
  <2>2. CASE ~ (k <= Len(v))
    <3>1. PICK j \in 1..Len(w) : k = Len(v) + j
      <4>1. k - Len(v) \in 1..Len(w) /\ k = Len(v) + (k - Len(v))
        BY <1>1, <2>2
      <4> QED BY <4>1
    <3>2. p + k = p + Len(v) + j
      BY <1>1, <3>1
    <3> QED BY <1>1, <1>5, <3>1, <3>2 DEF Stands
  <2> QED BY <2>1, <2>2
<1> QED BY <1>3, <1>4, <1>5 DEF u

\* The character of a text of one.
LEMMA StandsOne ==
    ASSUME NEW p \in Nat, NEW c
    PROVE  Stands(p, <<c>>) <=> (p + 1 <= Len(line) => line[p + 1] = c)
<1>1. Len(<<c>>) = 1 /\ <<c>>[1] = c /\ 1..1 = {1}
  OBVIOUS
<1> DEFINE w == <<c>>
<1> HIDE DEF w
<1>2. Len(w) = 1 /\ w[1] = c
  BY <1>1 DEF w
<1>3. Stands(p, w) <=> (p + 1 <= Len(line) => line[p + 1] = c)
  BY <1>2 DEF Stands
<1> QED BY <1>3 DEF w

\* What is cut out of the line is the text that stands there.
LEMMA TextIs ==
    ASSUME NEW p \in Nat, NEW w \in Words, line \in Words, Stands(p, w), p + Len(w) <= Len(line)
    PROVE  Text(p, p + Len(w)) = w
<1> DEFINE q == p + Len(w)
           t == Text(p, q)
<1>1. Len(line) \in Nat /\ Len(w) \in Nat
  BY LenProperties DEF Words
<1>2. q \in Nat /\ p + 1 \in Nat /\ q <= Len(line)
  BY <1>1
<1>3. /\ t \in Words /\ Len(t) = Len(w)
      /\ \A i \in 1..Len(w) : t[i] = line[(p + 1) + i - 1]
  <2>1. \A i \in p + 1..q : line[i] \in Char
    <3>1. \A i \in 1..Len(line) : line[i] \in Char
      BY ElementOfSeq DEF Words
    <3>2. \A i \in p + 1..q : i \in 1..Len(line)
      BY <1>1, <1>2
    <3> QED BY <3>1, <3>2
  <2>2. /\ (IF p + 1 <= q THEN q - (p + 1) + 1 ELSE 0) = Len(w)
        /\ q - (p + 1) + 1 = Len(w)
    BY <1>1
  <2>3. p + 1 \in Int /\ q \in Int
    BY <1>2
  <2> HIDE DEF q
  <2> QED BY <2>1, <2>2, <2>3, SubSeqProperties DEF Text, Words
<1>4. \A i \in 1..Len(w) : t[i] = w[i]
  <2> SUFFICES ASSUME NEW i \in 1..Len(w) PROVE t[i] = w[i]
    OBVIOUS
  <2>1. (p + 1) + i - 1 = p + i /\ p + i <= Len(line)
    BY <1>1
  <2> QED BY <1>3, <2>1 DEF Stands
<1> HIDE DEF t
<1> QED BY <1>3, <1>4, SeqEqual DEF Words, t, q

-----------------------------------------------------------------------------
(* Runs of characters, and brackets *)

\* What a search that counts upwards stops at.
LEMMA MinIs ==
    ASSUME NEW S \in SUBSET Nat, NEW m \in S, \A k \in S : m <= k
    PROVE  Min(S) = m
<1>1. \A x \in S : (\A y \in S : x <= y) => x = m
  OBVIOUS
<1> QED BY <1>1 DEF Min

\* The search for a character over a text without it.
LEMMA FindFacts ==
    ASSUME line \in Words, NEW from \in Nat, NEW to \in from..Len(line), NEW w \in Words, NEW c,
           Stands(from, w), \A k \in 1..Len(w) : w[k] # c,
           from + Len(w) < to => line[from + Len(w) + 1] = c
    PROVE  Find(from, to, c) = IF from + Len(w) < to THEN from + Len(w) ELSE to
<1> DEFINE S == {k \in from..to : k = to \/ line[k + 1] = c} \cup {to}
           m == IF from + Len(w) < to THEN from + Len(w) ELSE to
<1>1. Len(line) \in Nat /\ Len(w) \in Nat /\ to \in Nat /\ from <= to /\ to <= Len(line)
  BY LenProperties DEF Words
<1>2. S \in SUBSET Nat /\ m \in S
  BY <1>1
<1>3. ASSUME NEW k \in S, k < m PROVE FALSE
  <2>1. k \in from..to /\ k # to /\ line[k + 1] = c
    BY <1>1, <1>3
  <2>2. k + 1 - from \in 1..Len(w) /\ from + (k + 1 - from) = k + 1 /\ k + 1 <= Len(line)
    BY <1>1, <1>3, <2>1
  <2>3. w[k + 1 - from] = c
    BY <2>1, <2>2 DEF Stands
  <2> QED BY <2>2, <2>3
<1>4. \A k \in S : m <= k
  <2>1. \A k \in S : k \in Nat
    BY <1>2
  <2>2. m \in Nat
    BY <1>2
  <2> HIDE DEF m, S
  <2> QED BY <1>3, <2>1, <2>2
<1> HIDE DEF m, S
<1>5. Min(S) = m
  BY <1>2, <1>4, MinIs
<1> QED BY <1>5 DEF Find, S, m

\* The digits at a reader end where the first other character is.
LEMMA NumberEndFacts ==
    ASSUME line \in Words, NEW r, r.at \in 0..Len(line), NEW w \in Words,
           Stands(r.at, w), \A k \in 1..Len(w) : w[k] \in ToSet(Digits),
           r.at + Len(w) < Len(line) => line[r.at + Len(w) + 1] \notin ToSet(Digits)
    PROVE  NumberEnd(r) = IF r.at + Len(w) < Len(line) THEN r.at + Len(w) ELSE Len(line)
<1> DEFINE from == r.at
           to == Len(line)
           D == ToSet(Digits)
           S == {k \in from..to : k = to \/ line[k + 1] \notin D}
           m == IF from + Len(w) < to THEN from + Len(w) ELSE to
<1>1. /\ to \in Nat /\ Len(w) \in Nat /\ from \in Nat /\ from <= to
      /\ Stands(from, w) /\ \A k \in 1..Len(w) : w[k] \in D
      /\ from + Len(w) < to => line[from + Len(w) + 1] \notin D
  BY LenProperties DEF Words
<1> HIDE DEF D, from
<1>2. S \in SUBSET Nat /\ m \in S
  BY <1>1
<1>3. ASSUME NEW k \in S, k < m PROVE FALSE
  <2>1. k \in from..to /\ k # to /\ line[k + 1] \notin D
    BY <1>1, <1>3
  <2>2. k + 1 - from \in 1..Len(w) /\ from + (k + 1 - from) = k + 1 /\ k + 1 <= Len(line)
    BY <1>1, <1>3, <2>1
  <2>3. w[k + 1 - from] = line[k + 1]
    BY <1>1, <2>2 DEF Stands
  <2> QED BY <1>1, <2>1, <2>2, <2>3
<1>4. \A k \in S : m <= k
  <2>1. (\A k \in S : k \in Nat) /\ m \in Nat
    BY <1>2
  <2> HIDE DEF m, S
  <2> QED BY <1>3, <2>1
<1> HIDE DEF m, S
<1>5. Min(S) = m
  BY <1>2, <1>4, MinIs
<1>6. NumberEnd(r) = Min(S)
  BY DEF NumberEnd, S, D, from, to
<1> QED BY <1>5, <1>6 DEF m, from, to

\* skip_spaces, in front of a word and of a space and a word.
LEMMA NoSpaces ==
    ASSUME line \in Words, NEW r, r.at \in 0..Len(line),
           r.at < Len(line) => line[r.at + 1] # Space
    PROVE  SkipSpaces(r) = Jump(r, r.at)
<1> DEFINE p == r.at
           S == {k \in p..Len(line) : k = Len(line) \/ line[k + 1] # Space}
<1>1. Len(line) \in Nat /\ p \in 0..Len(line) /\ (p < Len(line) => line[p + 1] # Space)
  BY LenProperties DEF Words
<1> HIDE DEF p
<1>2. S \in SUBSET Nat /\ p \in S /\ \A k \in S : p <= k
  BY <1>1
<1>3. Min(S) = p
  <2> HIDE DEF S
  <2> QED BY <1>2, MinIs
<1> QED BY <1>3 DEF SkipSpaces, S, p

\* skip_spaces over one space.
LEMMA OneSpace ==
    ASSUME line \in Words, NEW r, r.at \in 0..Len(line) - 1, line[r.at + 1] = Space,
           r.at + 1 < Len(line) => line[r.at + 2] # Space
    PROVE  SkipSpaces(r) = Jump(r, r.at + 1)
<1> DEFINE p == r.at
           S == {k \in p..Len(line) : k = Len(line) \/ line[k + 1] # Space}
           m == p + 1
<1>1. /\ Len(line) \in Nat /\ p \in 0..Len(line) - 1 /\ line[p + 1] = Space
      /\ p + 1 < Len(line) => line[p + 2] # Space
  BY LenProperties DEF Words
<1> HIDE DEF p
<1>2. S \in SUBSET Nat /\ m \in S /\ \A k \in S : m <= k
  <2>1. m \in p..Len(line) /\ m + 1 = p + 2
    BY <1>1
  <2>2. m \in S
    BY <1>1, <2>1
  <2>3. p \notin S
    BY <1>1
  <2> QED BY <1>1, <2>2, <2>3
<1>3. Min(S) = m
  <2> HIDE DEF S, m
  <2> QED BY <1>2, MinIs
<1> QED BY <1>3 DEF SkipSpaces, S, m, p
-----------------------------------------------------------------------------
\* Functions that are defined by recursion.

\* What every step keeps, all values of a recursion have.
LEMMA RecursionStays ==
    ASSUME NEW X, NEW n \in Nat, NEW f, f[0] \in X, \A k \in 1..n : f[k - 1] \in X => f[k] \in X
    PROVE  \A k \in 0..n : f[k] \in X
<1> DEFINE P == {k \in Nat : k <= n => f[k] \in X}
<1>1. 0 \in P
  OBVIOUS
<1>2. ASSUME NEW k \in Nat, k \in P PROVE k + 1 \in P
  <2>1. CASE k + 1 <= n
    <3>1. k + 1 \in 1..n /\ (k + 1) - 1 = k /\ f[k] \in X
      BY <1>2, <2>1
    <3> QED BY <3>1
  <2> QED BY <2>1
<1> HIDE DEF P
<1>3. \A k \in Nat : k \in P
  BY <1>1, <1>2, Induct
<1> QED BY <1>3 DEF P

\* The function of a recursion exists: Iteration, in a form that suits the integers.
RunsOn(X, base, step, n) ==
    \E g \in [0..n -> X] : g[0] = base /\ \A i \in 1..n : g[i] = step[i][g[i - 1]]

\* A recursion with steps of a known type has values of that type.
LEMMA RecursionRuns ==
    ASSUME NEW X, NEW base, NEW step, NEW n,
           base \in X, step \in [Nat -> [X -> X]], n \in Nat
    PROVE  RunsOn(X, base, step, n)
BY Iteration, SMT DEF RunsOn

\* The same, for integers.
LEMMA IntIteration ==
    ASSUME NEW base \in Int, NEW step \in [Nat -> [Int -> Int]], NEW n \in Nat
    PROVE  \E g \in [0..n -> Int] : g[0] = base /\ \A i \in 1..n : g[i] = step[i][g[i - 1]]
<1>1. RunsOn(Int, base, step, n)
  BY RecursionRuns, Zenon
<1> QED BY <1>1, Zenon DEF RunsOn

\* How a character changes the number of open brackets.
Turn(c) == IF c = "[" THEN 1 ELSE IF c = "]" THEN -1 ELSE 0

\* The open brackets, character by character.
LEMMA LevelFacts ==
    ASSUME NEW w \in Words
    PROVE  /\ Level(w)[0] = 0
           /\ \A k \in 1..Len(w) : Level(w)[k] = Level(w)[k - 1] + Turn(w[k])
           /\ \A k \in 0..Len(w) : Level(w)[k] \in Int
<1> DEFINE N == Len(w)
           step == [k \in Nat |-> [x \in Int |-> x + Turn(w[k])]]
           Val(s, k) == IF k = 0 THEN 0
                        ELSE s[k - 1] + (IF w[k] = "[" THEN 1 ELSE IF w[k] = "]" THEN -1 ELSE 0)
           Eq(s) == s = [k \in 0..N |-> Val(s, k)]
           c == CHOOSE s : Eq(s)
<1>1. Level(w) = c
  BY DEF Level
<1>2. N \in Nat /\ step \in [Nat -> [Int -> Int]]
  <2>1. \A k : Turn(w[k]) \in Int
    BY DEF Turn
  <2> QED BY <2>1, LenProperties DEF Words
<1>3. \A k \in Nat, x \in Int : step[k][x] = x + Turn(w[k])
  OBVIOUS
<1> HIDE DEF step
<1>4. PICK g \in [0..N -> Int] : g[0] = 0 /\ \A k \in 1..N : g[k] = step[k][g[k - 1]]
  <2> HIDE DEF N
  <2> QED BY <1>2, IntIteration, 0 \in Int
<1>5. Eq(g)
  <2>1. \A k \in 0..N : g[k] = Val(g, k)
    <3> SUFFICES ASSUME NEW k \in 0..N PROVE g[k] = Val(g, k)
      OBVIOUS
    <3>1. CASE k = 0
      BY <1>4, <3>1
    <3>2. CASE k # 0
      <4>1. k \in 1..N /\ k \in Nat /\ k - 1 \in 0..N
        BY <1>2, <3>2
      <4>2. g[k - 1] \in Int
        BY <4>1
      <4>3. g[k] = g[k - 1] + Turn(w[k])
        BY <1>3, <1>4, <4>1, <4>2
      <4> QED BY <3>2, <4>3 DEF Turn
    <3> QED BY <3>1, <3>2
  <2> HIDE DEF Val
  <2> QED BY <2>1
<1>6. Eq(c)
  <2> HIDE DEF Eq
  <2> QED BY <1>5
<1> HIDE DEF c
<1>7. c[0] = 0 /\ \A k \in 1..N : c[k] = c[k - 1] + Turn(w[k])
  <2>1. \A k \in 0..N : c[k] = Val(c, k)
    <3> HIDE DEF Val
    <3> QED BY <1>6
  <2>2. 0 \in 0..N /\ \A k \in 1..N : k \in 0..N /\ k # 0
    BY <1>2
  <2> QED BY <2>1, <2>2 DEF Turn
<1>8. \A k \in 0..N : c[k] \in Int
  <2>1. ASSUME NEW k \in 1..N, c[k - 1] \in Int PROVE c[k] \in Int
    BY <1>7, <2>1 DEF Turn
  <2> DEFINE X == Int
  <2>2. c[0] \in X /\ N \in Nat /\ \A k \in 1..N : c[k - 1] \in X => c[k] \in X
    BY <1>2, <1>7, <2>1
  <2> HIDE DEF X, N
  <2>3. \A k \in 0..N : c[k] \in X
    BY <2>2, RecursionStays
  <2> QED BY <2>3 DEF X, N
<1> QED BY <1>1, <1>7, <1>8

\* The level does not depend on what comes later.
LEMMA LevelPrefix ==
    ASSUME NEW u \in Words, NEW t \in Words, \A k \in 1..Len(u) : k <= Len(t) => t[k] = u[k]
    PROVE  \A k \in 0..Len(u) : k <= Len(t) => Level(t)[k] = Level(u)[k]
<1> DEFINE P == {k \in Nat : k <= Len(u) /\ k <= Len(t) => Level(t)[k] = Level(u)[k]}
<1>1. Len(u) \in Nat /\ Len(t) \in Nat
  BY LenProperties DEF Words
<1>2. 0 \in P
  BY LevelFacts
<1>3. ASSUME NEW k \in Nat, k \in P PROVE k + 1 \in P
  <2>1. CASE k + 1 <= Len(u) /\ k + 1 <= Len(t)
    <3>1. k + 1 \in 1..Len(u) /\ k + 1 \in 1..Len(t) /\ (k + 1) - 1 = k
      BY <1>1, <2>1
    <3>2. Level(t)[k] = Level(u)[k] /\ t[k + 1] = u[k + 1]
      BY <1>3, <2>1, <3>1
    <3>3. /\ Level(t)[k + 1] = Level(t)[k] + Turn(t[k + 1])
          /\ Level(u)[k + 1] = Level(u)[k] + Turn(u[k + 1])
      BY <3>1, LevelFacts
    <3> QED BY <3>2, <3>3
  <2> QED BY <2>1
<1> HIDE DEF P
<1>4. \A k \in Nat : k \in P
  BY <1>2, <1>3, Induct
<1> QED BY <1>1, <1>4 DEF P

\* Every bracket of a text is closed in it.
Balanced(w) == (\A i \in 0..Len(w) : Level(w)[i] >= 0) /\ Level(w)[Len(w)] = 0

\* Two texts that close their brackets do so one behind the other.
LEMMA BalancedConcat ==
    ASSUME NEW u \in Words, NEW v \in Words, Balanced(u), Balanced(v)
    PROVE  Balanced(u \o v)
<1> DEFINE w == u \o v
           P == {k \in Nat : k <= Len(v) => Level(w)[Len(u) + k] = Level(v)[k]}
<1>1. /\ w \in Words /\ Len(w) = Len(u) + Len(v) /\ Len(u) \in Nat /\ Len(v) \in Nat
      /\ \A k \in 1..Len(u) : w[k] = u[k]
      /\ \A k \in 1..Len(v) : w[Len(u) + k] = v[k]
  BY TextConcat
<1> HIDE DEF w
<1>2. \A k \in 0..Len(u) : Level(w)[k] = Level(u)[k]
  <2>1. \A k \in 0..Len(u) : k <= Len(w) => Level(w)[k] = Level(u)[k]
    BY <1>1, LevelPrefix
  <2> QED BY <1>1, <2>1
<1>3. 0 \in P
  <2>1. Level(w)[Len(u)] = Level(u)[Len(u)]
    BY <1>1, <1>2
  <2> QED BY <1>1, <2>1, LevelFacts DEF Balanced
<1>4. ASSUME NEW k \in Nat, k \in P PROVE k + 1 \in P
  <2>1. CASE k + 1 <= Len(v)
    <3>1. /\ Len(u) + (k + 1) \in 1..Len(w) /\ Len(u) + (k + 1) - 1 = Len(u) + k
          /\ k + 1 \in 1..Len(v) /\ (k + 1) - 1 = k
      BY <1>1, <2>1
    <3>2. /\ Level(w)[Len(u) + (k + 1)] = Level(w)[Len(u) + k] + Turn(w[Len(u) + (k + 1)])
          /\ Level(v)[k + 1] = Level(v)[k] + Turn(v[k + 1])
      BY <1>1, <3>1, LevelFacts
    <3>3. Level(w)[Len(u) + k] = Level(v)[k] /\ w[Len(u) + (k + 1)] = v[k + 1]
      BY <1>1, <1>4, <2>1, <3>1
    <3> QED BY <3>2, <3>3
  <2> QED BY <2>1
<1> HIDE DEF P
<1>5. \A k \in Nat : k \in P
  BY <1>3, <1>4, Induct
<1>6. \A k \in 0..Len(v) : Level(w)[Len(u) + k] = Level(v)[k]
  BY <1>1, <1>5 DEF P
<1>7. ASSUME NEW i \in 0..Len(w) PROVE Level(w)[i] >= 0
  <2>1. CASE i <= Len(u)
    BY <1>1, <1>2, <2>1 DEF Balanced
  <2>2. CASE ~ (i <= Len(u))
    <3>1. i - Len(u) \in 0..Len(v) /\ Len(u) + (i - Len(u)) = i
      BY <1>1, <2>2
    <3>2. Level(w)[i] = Level(v)[i - Len(u)]
      BY <1>6, <3>1
    <3> QED BY <3>1, <3>2 DEF Balanced
  <2> QED BY <2>1, <2>2
<1>8. Level(w)[Len(w)] = 0
  <2>1. Len(v) \in 0..Len(v)
    BY <1>1
  <2> QED BY <1>1, <1>6, <2>1 DEF Balanced
<1>9. Balanced(w)
  BY <1>7, <1>8 DEF Balanced
<1> QED BY <1>9 DEF w

\* A text without brackets closes them all.
LEMMA BalancedPlain ==
    ASSUME NEW w \in Words, \A k \in 1..Len(w) : w[k] \notin {"[", "]"}
    PROVE  Balanced(w)
<1>1. ASSUME NEW k \in 1..Len(w), Level(w)[k - 1] \in {0} PROVE Level(w)[k] \in {0}
  <2>1. Turn(w[k]) = 0
    BY DEF Turn
  <2> QED BY <1>1, <2>1, LevelFacts
<1>2. Len(w) \in Nat
  BY LenProperties DEF Words
<1>3. Level(w)[0] \in {0}
  BY LevelFacts
<1> DEFINE X == {0}
           f == Level(w)
<1>4. \A k \in 0..Len(w) : f[k] \in X
  <2>1. f[0] \in X /\ \A k \in 1..Len(w) : f[k - 1] \in X => f[k] \in X
    BY <1>1, <1>3
  <2> HIDE DEF X, f
  <2> QED BY <1>2, <2>1, RecursionStays
<1> QED BY <1>2, <1>4 DEF Balanced

\* The bracket behind a text whose own brackets are closed.
LEMMA ClosingFacts ==
    ASSUME line \in Words, NEW from \in 0..Len(line), NEW u \in Words, Balanced(u),
           Stands(from, u), from + Len(u) < Len(line) => line[from + Len(u) + 1] = "]"
    PROVE  Closing(from) = IF from + Len(u) < Len(line) THEN from + Len(u) ELSE Len(line)
<1> DEFINE t == Text(from, Len(line))
           S == {k \in 0..Len(t) : k = Len(t) \/ (t[k + 1] = "]" /\ Level(t)[k] = 0)}
           m == IF Len(u) < Len(t) THEN Len(u) ELSE Len(t)
<1>1. Len(line) \in Nat /\ Len(u) \in Nat
  BY LenProperties DEF Words
<1>2. t \in Words /\ Len(t) = Len(line) - from /\ \A i \in 1..Len(t) : t[i] = line[from + i]
  <2>1. \A i \in from + 1..Len(line) : line[i] \in Char
    <3>1. \A i \in 1..Len(line) : line[i] \in Char
      BY ElementOfSeq DEF Words
    <3>2. \A i \in from + 1..Len(line) : i \in 1..Len(line)
      BY <1>1
    <3> QED BY <3>1, <3>2
  <2>2. /\ (IF from + 1 <= Len(line) THEN Len(line) - (from + 1) + 1 ELSE 0) = Len(line) - from
        /\ Len(line) - (from + 1) + 1 = Len(line) - from
        /\ from + 1 \in Int /\ Len(line) \in Int
    BY <1>1
  <2> DEFINE a == from + 1
             b == Len(line)
  <2>3. /\ t \in Words /\ Len(t) = Len(line) - from
        /\ \A i \in 1..Len(line) - from : t[i] = line[(from + 1) + i - 1]
    <3>1. /\ a \in Int /\ b \in Int /\ \A i \in a..b : line[i] \in Char
          /\ (IF a <= b THEN b - a + 1 ELSE 0) = b - from /\ b - a + 1 = b - from
      BY <2>1, <2>2
    <3> HIDE DEF a, b
    <3>2. /\ SubSeq(line, a, b) \in Seq(Char) /\ Len(SubSeq(line, a, b)) = b - from
          /\ \A i \in 1..b - from : SubSeq(line, a, b)[i] = line[a + i - 1]
      BY <3>1, SubSeqProperties
    <3> QED BY <3>2 DEF Text, Words, a, b
  <2>4. \A i \in Nat : (from + 1) + i - 1 = from + i
    BY <1>1
  <2>5. \A i \in 1..Len(t) : t[i] = line[from + i]
    <3> HIDE DEF t
    <3> QED BY <1>1, <2>3, <2>4
  <2> QED BY <2>3, <2>5
<1>3. Closing(from) = from + Min(S)
  BY DEF Closing
<1> HIDE DEF t
<1>4. \A k \in 1..Len(u) : k <= Len(t) => t[k] = u[k]
  <2> SUFFICES ASSUME NEW k \in 1..Len(u), k <= Len(t) PROVE t[k] = u[k]
    OBVIOUS
  <2>1. k \in 1..Len(t) /\ from + k <= Len(line)
    BY <1>1, <1>2
  <2> QED BY <1>2, <2>1 DEF Stands
<1>5. \A k \in 0..Len(u) : k <= Len(t) => Level(t)[k] = Level(u)[k]
  BY <1>2, <1>4, LevelPrefix
<1>6. S \in SUBSET Nat /\ m \in S
  <2>1. CASE Len(u) < Len(t)
    <3>1. Len(u) + 1 \in 1..Len(t) /\ from + (Len(u) + 1) = from + Len(u) + 1
      BY <1>1, <1>2, <2>1
    <3>2. t[Len(u) + 1] = "]"
      BY <1>1, <1>2, <2>1, <3>1
    <3>3. Level(t)[Len(u)] = 0
      BY <1>1, <1>5, <2>1 DEF Balanced
    <3> QED BY <1>1, <1>2, <2>1, <3>2, <3>3
  <2>2. CASE ~ (Len(u) < Len(t))
    BY <1>1, <1>2, <2>2
  <2> QED BY <2>1, <2>2
<1>7. ASSUME NEW k \in S, k < m PROVE FALSE
  <2>1. /\ k \in 0..Len(t) /\ k # Len(t) /\ t[k + 1] = "]" /\ Level(t)[k] = 0
        /\ k + 1 \in 1..Len(u) /\ k \in 0..Len(u) /\ (k + 1) - 1 = k /\ k + 1 <= Len(t)
        /\ k + 1 \in 1..Len(t)
    BY <1>1, <1>2, <1>7
  <2>2. Level(t)[k + 1] = Level(t)[k] + Turn(t[k + 1])
    BY <1>2, <2>1, LevelFacts
  <2>3. Level(t)[k + 1] = -1
    BY <2>1, <2>2 DEF Turn
  <2>4. Level(u)[k + 1] >= 0
    BY <2>1 DEF Balanced
  <2>5. Level(t)[k + 1] = Level(u)[k + 1]
    BY <1>1, <1>5, <2>1
  <2> QED BY <2>3, <2>4, <2>5
<1>8. \A k \in S : m <= k
  <2>1. (\A k \in S : k \in Nat) /\ m \in Nat
    BY <1>6
  <2> HIDE DEF m, S
  <2> QED BY <1>7, <2>1
<1> HIDE DEF S
<1>9. Min(S) = m
  <2> HIDE DEF m
  <2> QED BY <1>6, <1>8, MinIs
<1> QED BY <1>1, <1>2, <1>3, <1>9

-----------------------------------------------------------------------------
(* Numbers in digits *)

\* The ten digits and what they are worth.
LEMMA DigitFacts ==
    /\ ToSet(Digits) = {"0", "1", "2", "3", "4", "5", "6", "7", "8", "9"}
    /\ \A d \in 0..9 : Digits[d + 1] \in ToSet(Digits) /\ DigitValue[Digits[d + 1]] = d
    /\ \A c \in ToSet(Digits) : DigitValue[c] \in 0..9
<1>1. ToSet(Digits) = {"0", "1", "2", "3", "4", "5", "6", "7", "8", "9"}
  <2>1. DOMAIN Digits = 1..10
    BY DEF Digits
  <2>2. 1..10 = {1, 2, 3, 4, 5, 6, 7, 8, 9, 10}
    OBVIOUS
  <2>3. ToSet(Digits) = {Digits[i] : i \in {1, 2, 3, 4, 5, 6, 7, 8, 9, 10}}
    BY <2>1, <2>2 DEF ToSet
  <2> QED BY <2>3 DEF Digits
<1>2. \A d \in 0..9 : d = 0 \/ d = 1 \/ d = 2 \/ d = 3 \/ d = 4 \/ d = 5 \/ d = 6 \/ d = 7 \/ d = 8 \/ d = 9
  OBVIOUS
<1>3. \A d \in 0..9 : Digits[d + 1] \in ToSet(Digits)
  <2> SUFFICES ASSUME NEW d \in 0..9 PROVE Digits[d + 1] \in ToSet(Digits)
    OBVIOUS
  <2> QED BY <1>1, <1>2 DEF Digits
<1>4. \A c, d \in 0..9 : Digits[c + 1] = Digits[d + 1] => c = d
  <2> SUFFICES ASSUME NEW c \in 0..9, NEW d \in 0..9, Digits[c + 1] = Digits[d + 1] PROVE c = d
    OBVIOUS
  <2>1. \A b \in 0..9 :
          /\ b = 0 => Digits[b + 1] = "0"
          /\ b = 1 => Digits[b + 1] = "1"
          /\ b = 2 => Digits[b + 1] = "2"
          /\ b = 3 => Digits[b + 1] = "3"
          /\ b = 4 => Digits[b + 1] = "4"
          /\ b = 5 => Digits[b + 1] = "5"
          /\ b = 6 => Digits[b + 1] = "6"
          /\ b = 7 => Digits[b + 1] = "7"
          /\ b = 8 => Digits[b + 1] = "8"
          /\ b = 9 => Digits[b + 1] = "9"
    BY DEF Digits
  <2> QED BY <1>2, <2>1
<1>5. \A d \in 0..9 : DigitValue[Digits[d + 1]] = d
  <2> SUFFICES ASSUME NEW d \in 0..9 PROVE DigitValue[Digits[d + 1]] = d
    OBVIOUS
  <2>1. DigitValue[Digits[d + 1]] = CHOOSE c \in 0..9 : Digits[c + 1] = Digits[d + 1]
    BY <1>3 DEF DigitValue
  <2> DEFINE e == CHOOSE c \in 0..9 : Digits[c + 1] = Digits[d + 1]
  <2>2. e \in 0..9 /\ Digits[e + 1] = Digits[d + 1]
    OBVIOUS
  <2>3. e = d
    <3> HIDE DEF e
    <3> QED BY <1>4, <2>2
  <2> QED BY <2>1, <2>3
<1>6. \A c \in ToSet(Digits) : \E d \in 0..9 : c = Digits[d + 1]
  <2> SUFFICES ASSUME NEW c \in ToSet(Digits) PROVE \E d \in 0..9 : c = Digits[d + 1]
    OBVIOUS
  <2>1. PICK i \in DOMAIN Digits : c = Digits[i]
    BY DEF ToSet
  <2>2. DOMAIN Digits = 1..10
    BY DEF Digits
  <2>3. i - 1 \in 0..9 /\ (i - 1) + 1 = i
    BY <2>1, <2>2
  <2> QED BY <2>1, <2>3
<1>7. \A c \in ToSet(Digits) : DigitValue[c] \in 0..9
  BY <1>5, <1>6
<1> QED BY <1>1, <1>3, <1>5, <1>7

\* Digits are characters.
LEMMA DigitStrings == ToSet(Digits) \subseteq Char
<1>1. ToSet(Digits) \subseteq Marks
  BY DigitFacts DEF Marks
<1> QED BY <1>1, MarksAreChars

IsDigits(w) == w \in Words /\ \A k \in 1..Len(w) : w[k] \in ToSet(Digits)

\* The result of a turn of parse_number.
LEMMA ProductTurn ==
    ASSUME NEW V \in Nat \ {0}, NEW t \in Nat, NEW d \in 0..9
    PROVE  ((t + d) * 10) % V \in Nat
OBVIOUS

\* parse_number, digit by digit.
LEMMA ProductsFacts ==
    ASSUME NEW w, IsDigits(w), NEW V \in Nat \ {0}
    PROVE  /\ Products(w, V)[0] = 0
           /\ \A k \in 1..Len(w) :
                 Products(w, V)[k] = ((Products(w, V)[k - 1] + DigitValue[w[k]]) * 10) % V
           /\ \A k \in 0..Len(w) : Products(w, V)[k] \in Nat
<1> DEFINE N == Len(w)
           step == [k \in Nat |-> [x \in Nat |->
                      IF k \in 1..N THEN ((x + DigitValue[w[k]]) * 10) % V ELSE 0]]
           Val(s, k) == IF k = 0 THEN 0 ELSE ((s[k - 1] + DigitValue[w[k]]) * 10) % V
           Eq(s) == s = [k \in 0..N |-> Val(s, k)]
           c == CHOOSE s : Eq(s)
<1>1. Products(w, V) = c
  BY DEF Products
<1>2. N \in Nat /\ \A k \in 1..N : DigitValue[w[k]] \in 0..9
  BY DigitFacts, LenProperties DEF IsDigits, Words
<1> HIDE DEF N
<1>3. \A k \in 1..N, x \in Nat : ((x + DigitValue[w[k]]) * 10) % V \in Nat
  BY <1>2, ProductTurn
<1>4. step \in [Nat -> [Nat -> Nat]]
  <2>1. \A k \in Nat, x \in Nat :
           (IF k \in 1..N THEN ((x + DigitValue[w[k]]) * 10) % V ELSE 0) \in Nat
    BY <1>3
  <2> QED BY <2>1
<1>5. \A k \in 1..N, x \in Nat : step[k][x] = ((x + DigitValue[w[k]]) * 10) % V
  <2>1. \A k \in 1..N : k \in Nat
    BY <1>2
  <2> QED BY <2>1
<1> HIDE DEF step
<1>6. PICK g \in [0..N -> Nat] : g[0] = 0 /\ \A k \in 1..N : g[k] = step[k][g[k - 1]]
  <2>1. RunsOn(Nat, 0, step, N)
    BY <1>2, <1>4, RecursionRuns, Zenon, 0 \in Nat
  <2> QED BY <2>1, Zenon DEF RunsOn
<1>7. Eq(g)
  <2>1. \A k \in 0..N : g[k] = Val(g, k)
    <3> SUFFICES ASSUME NEW k \in 0..N PROVE g[k] = Val(g, k)
      OBVIOUS
    <3>1. CASE k = 0
      BY <1>6, <3>1
    <3>2. CASE k # 0
      <4>1. k \in 1..N /\ k - 1 \in 0..N
        BY <1>2, <3>2
      <4>2. g[k - 1] \in Nat
        BY <4>1
      <4> QED BY <1>5, <1>6, <3>2, <4>1, <4>2
    <3> QED BY <3>1, <3>2
  <2> HIDE DEF Val
  <2> QED BY <2>1
<1>8. Eq(c)
  <2> HIDE DEF Eq
  <2> QED BY <1>7
<1> HIDE DEF c
<1>9. c[0] = 0 /\ \A k \in 1..N : c[k] = ((c[k - 1] + DigitValue[w[k]]) * 10) % V
  <2>1. \A k \in 0..N : c[k] = Val(c, k)
    <3> HIDE DEF Val
    <3> QED BY <1>8
  <2>2. 0 \in 0..N /\ \A k \in 1..N : k \in 0..N /\ k # 0
    BY <1>2
  <2> QED BY <2>1, <2>2
<1>10. \A k \in 0..N : c[k] \in Nat
  <2> DEFINE X == Nat
  <2>1. ASSUME NEW k \in 1..N, c[k - 1] \in Nat PROVE c[k] \in Nat
    BY <1>3, <1>9, <2>1
  <2>3. c[0] \in X /\ \A k \in 1..N : c[k - 1] \in X => c[k] \in X
    BY <1>9, <2>1
  <2> HIDE DEF X
  <2>2. \A k \in 0..N : c[k] \in X
    BY <1>2, <2>3, RecursionStays
  <2> QED BY <2>2 DEF X
<1> QED BY <1>1, <1>9, <1>10 DEF N

\* The result of a number.
Result(w, V) == Products(w, V)[Len(w)]

\* What parse_number makes of digits is a number.
LEMMA ResultType ==
    ASSUME NEW w, IsDigits(w), NEW V \in Nat \ {0}
    PROVE  Result(w, V) \in Nat /\ Result(w, V) \div 10 \in Nat
<1>1. Len(w) \in 0..Len(w)
  BY LenProperties DEF IsDigits, Words
<1>2. Result(w, V) \in Nat
  BY <1>1, ProductsFacts DEF Result
<1> QED BY <1>2

\* A leading zero changes nothing.
LEMMA LeadingZero ==
    ASSUME NEW w, IsDigits(w), NEW V \in Nat \ {0}
    PROVE  IsDigits(<<"0">> \o w) /\ Result(<<"0">> \o w, V) = Result(w, V)
<1> DEFINE z == <<"0">>
           u == z \o w
           P == {k \in Nat : k <= Len(w) => Products(u, V)[1 + k] = Products(w, V)[k]}
<1>1. z \in Words /\ Len(z) = 1 /\ z[1] = "0"
  BY SmallWords, MarksAreChars
<1> HIDE DEF z
<1>2. /\ u \in Words /\ Len(u) = 1 + Len(w) /\ Len(w) \in Nat
      /\ u[1] = "0" /\ \A k \in 1..Len(w) : u[1 + k] = w[k]
  <2>1. w \in Words
    BY DEF IsDigits
  <2>2. /\ u \in Words /\ Len(u) = Len(z) + Len(w) /\ Len(w) \in Nat
        /\ \A k \in 1..Len(z) : u[k] = z[k]
        /\ \A k \in 1..Len(w) : u[Len(z) + k] = w[k]
    BY <1>1, <2>1, TextConcat
  <2> HIDE DEF u
  <2> QED BY <1>1, <2>2
<1> HIDE DEF u
<1>3. IsDigits(u)
  <2> SUFFICES ASSUME NEW k \in 1..Len(u) PROVE u[k] \in ToSet(Digits)
    BY <1>2 DEF IsDigits
  <2>1. CASE k = 1
    BY <1>2, <2>1, DigitFacts
  <2>2. CASE k # 1
    <3>1. k - 1 \in 1..Len(w) /\ 1 + (k - 1) = k
      BY <1>2, <2>2
    <3> QED BY <1>2, <3>1 DEF IsDigits
  <2> QED BY <2>1, <2>2
<1>4. 0 \in P
  <2>1. Digits[0 + 1] = "0" /\ 0 \in 0..9
    BY DEF Digits
  <2>2. DigitValue["0"] = 0
    BY <2>1, DigitFacts
  <2>3. 1 \in 1..Len(u) /\ 1 - 1 = 0
    BY <1>2
  <2>4. Products(u, V)[1] = ((0 + 0) * 10) % V
    <3>1. Products(u, V)[1] = ((Products(u, V)[1 - 1] + DigitValue[u[1]]) * 10) % V
      BY <1>3, <2>3, ProductsFacts
    <3>2. Products(u, V)[1 - 1] = 0
      BY <1>3, <2>3, ProductsFacts
    <3> QED BY <1>2, <2>2, <3>1, <3>2
  <2>5. ((0 + 0) * 10) % V = 0
    OBVIOUS
  <2> QED BY <2>4, <2>5, ProductsFacts
<1>5. ASSUME NEW k \in Nat, k \in P PROVE k + 1 \in P
  <2>1. CASE k + 1 <= Len(w)
    <3>1. /\ 1 + (k + 1) \in 1..Len(u) /\ 1 + (k + 1) - 1 = 1 + k
          /\ k + 1 \in 1..Len(w) /\ (k + 1) - 1 = k
      BY <1>2, <2>1
    <3>2. /\ Products(u, V)[1 + (k + 1)] =
                ((Products(u, V)[1 + k] + DigitValue[u[1 + (k + 1)]]) * 10) % V
          /\ Products(w, V)[k + 1] = ((Products(w, V)[k] + DigitValue[w[k + 1]]) * 10) % V
      BY <1>3, <3>1, ProductsFacts
    <3>3. Products(u, V)[1 + k] = Products(w, V)[k] /\ u[1 + (k + 1)] = w[k + 1]
      BY <1>2, <1>5, <2>1, <3>1
    <3> QED BY <3>2, <3>3
  <2> QED BY <2>1
<1> HIDE DEF P
<1>6. \A k \in Nat : k \in P
  BY <1>4, <1>5, Induct
<1>7. Products(u, V)[Len(u)] = Products(w, V)[Len(w)]
  BY <1>2, <1>6 DEF P
<1>8. IsDigits(u) /\ Result(u, V) = Result(w, V)
  BY <1>3, <1>7 DEF Result
<1> QED BY <1>8 DEF u, z
-----------------------------------------------------------------------------
\* Numbers in digits.

\* What is left of n after k divisions.
Divided(left, n) ==
    /\ left \in [0..n + 1 -> Nat]
    /\ left[0] = n
    /\ \A k \in 1..n + 1 : left[k] = left[k - 1] \div 10

\* A number divided often enough is 0.
LEMMA DividedFacts ==
    ASSUME NEW n \in Nat, NEW left, Divided(left, n)
    PROVE  (\A k \in 0..n + 1 : left[k] <= n) /\ left[n + 1] = 0
<1> DEFINE P == {k \in Nat : k <= n + 1 => left[k] <= n /\ (left[k] = 0 \/ left[k] + k <= n)}
<1>1. 0 \in P
  BY DEF Divided
<1>2. ASSUME NEW k \in Nat, k \in P PROVE k + 1 \in P
  <2>1. CASE k + 1 <= n + 1
    <3>1. k + 1 \in 1..n + 1 /\ (k + 1) - 1 = k /\ k \in 0..n + 1
      BY <2>1
    <3> DEFINE a == left[k]
               b == left[k + 1]
    <3>2. a \in Nat /\ a <= n /\ (a = 0 \/ a + k <= n) /\ b = a \div 10
      BY <1>2, <3>1 DEF Divided
    <3> HIDE DEF a, b
    <3>3. b \in Nat /\ b <= a /\ (a > 0 => b < a)
      BY <3>2
    <3>4. b <= n /\ (b = 0 \/ b + (k + 1) <= n)
      BY <3>2, <3>3
    <3> QED BY <3>4 DEF b
  <2> QED BY <2>1
<1> HIDE DEF P
<1>3. \A k \in Nat : k \in P
  BY <1>1, <1>2, Induct
<1>4. left[n + 1] \in Nat
  BY n + 1 \in 0..n + 1 DEF Divided
<1> QED BY <1>3, <1>4 DEF P

\* The digits of a number are what is left of it after each division.
LEMMA DecimalFacts ==
    ASSUME NEW n \in Nat
    PROVE  \E left, size :
              /\ Divided(left, n) /\ size \in 1..n + 1 /\ left[size] = 0
              /\ NatDecimal(n) = [i \in 1..size |-> Digits[(left[size - i] % 10) + 1]]
<1> DEFINE N == n + 1
           step == [k \in Nat |-> [x \in Nat |-> x \div 10]]
           Val(s, k) == IF k = 0 THEN n ELSE s[k - 1] \div 10
           Eq(s) == s = [k \in 0..N |-> Val(s, k)]
           c == CHOOSE s : Eq(s)
           S == {k \in 1..N : c[k] = 0}
           size == Min(S)
<1>1. NatDecimal(n) = [i \in 1..size |-> Digits[(c[size - i] % 10) + 1]]
  BY DEF NatDecimal
<1> HIDE DEF S
<1>2. N \in Nat /\ \A x \in Nat : x \div 10 \in Nat
  OBVIOUS
<1> HIDE DEF N
<1>3. step \in [Nat -> [Nat -> Nat]] /\ \A k \in Nat, x \in Nat : step[k][x] = x \div 10
  BY <1>2
<1> HIDE DEF step
<1>4. PICK g \in [0..N -> Nat] : g[0] = n /\ \A k \in 1..N : g[k] = step[k][g[k - 1]]
  <2>1. RunsOn(Nat, n, step, N)
    BY <1>2, <1>3, RecursionRuns, Zenon
  <2> QED BY <2>1, Zenon DEF RunsOn
<1>5. Eq(g)
  <2>1. \A k \in 0..N : g[k] = Val(g, k)
    <3> SUFFICES ASSUME NEW k \in 0..N PROVE g[k] = Val(g, k)
      OBVIOUS
    <3>1. CASE k = 0
      BY <1>4, <3>1
    <3>2. CASE k # 0
      <4>1. k \in 1..N /\ k - 1 \in 0..N /\ k \in Nat
        BY <1>2, <3>2
      <4>2. g[k - 1] \in Nat
        BY <4>1
      <4> QED BY <1>3, <1>4, <3>2, <4>1, <4>2
    <3> QED BY <3>1, <3>2
  <2> HIDE DEF Val
  <2> QED BY <2>1
<1>6. Eq(c)
  <2> HIDE DEF Eq
  <2> QED BY <1>5
<1> HIDE DEF c
<1>7. c[0] = n /\ \A k \in 1..N : c[k] = c[k - 1] \div 10
  <2>1. \A k \in 0..N : c[k] = Val(c, k)
    <3> HIDE DEF Val
    <3> QED BY <1>6
  <2>2. 0 \in 0..N /\ \A k \in 1..N : k \in 0..N /\ k # 0
    BY <1>2
  <2> QED BY <2>1, <2>2
<1>8. \A k \in 0..N : c[k] \in Nat
  <2> DEFINE X == Nat
  <2>1. c[0] \in X /\ \A k \in 1..N : c[k - 1] \in X => c[k] \in X
    BY <1>2, <1>7
  <2> HIDE DEF X
  <2>2. \A k \in 0..N : c[k] \in X
    BY <1>2, <2>1, RecursionStays
  <2> QED BY <2>2 DEF X
<1>9. Divided(c, n)
  <2>1. c = [k \in 0..N |-> c[k]]
    BY <1>6
  <2>2. c \in [0..N -> Nat]
    BY <1>8, <2>1
  <2> QED BY <1>7, <2>2 DEF Divided, N
<1>10. size \in 1..n + 1 /\ c[size] = 0
  <2>1. N \in S /\ S \in SUBSET Nat
    BY <1>2, <1>9, DividedFacts DEF S, N
  <2>2. PICK m \in S : \A y \in S : m <= y
    BY <2>1, NatMin
  <2>3. size = m
    BY <2>1, <2>2, MinIs
  <2> QED BY <2>2, <2>3 DEF S, N
<1> HIDE DEF size
<1> QED BY <1>1, <1>9, <1>10

\* A number in digits has at least one.
LEMMA NatDecimalText ==
    ASSUME NEW n \in Nat
    PROVE  IsDigits(NatDecimal(n)) /\ Len(NatDecimal(n)) \in Nat \ {0}
<1>1. PICK left, size :
              /\ Divided(left, n) /\ size \in 1..n + 1 /\ left[size] = 0
              /\ NatDecimal(n) = [i \in 1..size |-> Digits[(left[size - i] % 10) + 1]]
  BY DecimalFacts
<1>2. \A i \in 1..size : Digits[(left[size - i] % 10) + 1] \in ToSet(Digits)
  <2> SUFFICES ASSUME NEW i \in 1..size PROVE Digits[(left[size - i] % 10) + 1] \in ToSet(Digits)
    OBVIOUS
  <2>1. size - i \in 0..n + 1
    BY <1>1
  <2>2. left[size - i] \in Nat
    BY <1>1, <2>1 DEF Divided
  <2>3. left[size - i] % 10 \in 0..9
    BY <2>2
  <2> QED BY <2>3, DigitFacts
<1>3. ToSet(Digits) \subseteq Char
  BY DigitStrings
<1>4. NatDecimal(n) \in Words /\ Len(NatDecimal(n)) = size
  BY <1>1, <1>2, <1>3 DEF Words
<1> QED BY <1>1, <1>2, <1>4 DEF IsDigits

\* parse_number reads what the game has written, in all but the last tenth of a type.
LEMMA NumberIsRead ==
    ASSUME NEW n \in Nat, NEW V \in Nat \ {0}, n * 10 < V
    PROVE  Result(NatDecimal(n), V) = n * 10 /\ Result(NatDecimal(n), V) \div 10 = n
<1>1. PICK left, size :
              /\ Divided(left, n) /\ size \in 1..n + 1 /\ left[size] = 0
              /\ NatDecimal(n) = [i \in 1..size |-> Digits[(left[size - i] % 10) + 1]]
  BY DecimalFacts
<1> DEFINE w == NatDecimal(n)
           P == {k \in Nat : k <= size => Products(w, V)[k] = left[size - k] * 10}
<1>2. IsDigits(w) /\ Len(w) = size
  <2>1. IsDigits(w)
    BY NatDecimalText
  <2>2. size \in Nat /\ DOMAIN w = 1..size
    BY <1>1
  <2>3. Len(w) \in Nat /\ DOMAIN w = 1..Len(w)
    <3> HIDE DEF w
    <3> QED BY <2>1, LenProperties DEF IsDigits, Words
  <2> HIDE DEF w
  <2> QED BY <2>1, <2>2, <2>3
<1>3. \A i \in 1..size : w[i] = Digits[(left[size - i] % 10) + 1]
  BY <1>1
<1> HIDE DEF w
<1>4. 0 \in P
  BY <1>1, <1>2, ProductsFacts
<1>5. ASSUME NEW k \in Nat, k \in P PROVE k + 1 \in P
  <2>1. CASE k + 1 <= size
    <3> DEFINE a == left[size - k]
               b == left[size - (k + 1)]
    <3>1. /\ k + 1 \in 1..Len(w) /\ (k + 1) - 1 = k /\ size - k \in 1..n + 1
          /\ (size - k) - 1 = size - (k + 1) /\ size - (k + 1) \in 0..n + 1
      BY <1>1, <1>2, <2>1
    <3>2. a = b \div 10 /\ b \in Nat /\ b <= n
      BY <1>1, <3>1, DividedFacts DEF Divided
    <3>3. Products(w, V)[k + 1] = ((Products(w, V)[k] + DigitValue[w[k + 1]]) * 10) % V
      <4>1. Products(w, V)[k + 1] =
               ((Products(w, V)[(k + 1) - 1] + DigitValue[w[k + 1]]) * 10) % V
        BY <1>2, <3>1, ProductsFacts
      <4> HIDE DEF a, b
      <4> QED BY <3>1, <4>1
    <3>4. Products(w, V)[k] = a * 10
      BY <1>1, <1>5, <2>1
    <3>5. b % 10 \in 0..9
      BY <3>2
    <3>6. DigitValue[w[k + 1]] = b % 10
      <4>1. w[k + 1] = Digits[(b % 10) + 1]
        BY <1>2, <1>3, <3>1
      <4> QED BY <3>5, <4>1, DigitFacts
    <3> HIDE DEF a, b
    <3>7. a * 10 + (b % 10) = b
      BY <3>2
    <3>8. (b * 10) % V = b * 10
      <4>1. b * 10 \in Nat /\ b * 10 < V
        BY <3>2
      <4> DEFINE x == b * 10
      <4> HIDE DEF x
      <4>2. x \in 0..V - 1
        BY <4>1 DEF x
      <4>3. x % V = x
        BY <4>2
      <4> QED BY <4>3 DEF x
    <3>9. Products(w, V)[k + 1] = b * 10
      BY <3>3, <3>4, <3>6, <3>7, <3>8
    <3> QED BY <3>9 DEF b
  <2> QED BY <2>1
<1> HIDE DEF P
<1>6. \A k \in Nat : k \in P
  BY <1>4, <1>5, Induct
<1>7. Products(w, V)[size] = n * 10
  <2>1. size - size = 0
    BY <1>1
  <2> QED BY <1>1, <1>6, <2>1 DEF P, Divided
<1>8. (n * 10) \div 10 = n
  OBVIOUS
<1> QED BY <1>2, <1>7, <1>8 DEF Result, w

-----------------------------------------------------------------------------
(* Readers that are on the format, and readers that failed *)

\* The character at p, when the line goes that far.
Follows(p, c) == p < Len(line) => line[p + 1] = c

\* What follows where a text stands is its first character.
LEMMA NextIs ==
    ASSUME NEW p \in Nat, NEW w \in Words, Len(w) >= 1, Stands(p, w), line \in Words
    PROVE  Follows(p, w[1])
<1>1. Len(line) \in Nat /\ Len(w) \in Nat
  BY LenProperties DEF Words
<1>2. 1 \in 1..Len(w) /\ (p < Len(line) => p + 1 <= Len(line))
  BY <1>1
<1> QED BY <1>2 DEF Stands, Follows

\* A reader; one that has thrown; and one that has come to the end of a line that was cut
\* off, or has thrown.
IsReader(r) ==
    r = [at |-> r.at, ok |-> r.ok, value |-> r.value, entry |-> r.entry,
         players |-> r.players, strings |-> r.strings]
Dead(r) == IsReader(r) /\ r.ok = FALSE
Lost(r) == IsReader(r) /\ (r.ok = FALSE \/ (r.ok = TRUE /\ r.at = Len(line)))

\* A reader that has read everything in front of p.
Good(r, p, e, ps, ss) ==
    /\ IsReader(r) /\ r.ok = TRUE /\ r.at = p
    /\ r.entry = e /\ r.players = ps /\ r.strings = ss

\* A reader that should be at p; and one that fails if the line does not go so far.
On(r, p, e, ps, ss) == IF p <= Len(line) THEN Good(r, p, e, ps, ss) ELSE Lost(r)
OnS(r, p, e, ps, ss) == IF p <= Len(line) THEN Good(r, p, e, ps, ss) ELSE Dead(r)

\* A reader that must not have stopped at the end is one that may have.
LEMMA StrictOn ==
    ASSUME NEW r, NEW p, NEW e, NEW ps, NEW ss, OnS(r, p, e, ps, ss)
    PROVE  On(r, p, e, ps, ss)
BY DEF OnS, On, Dead, Lost

\* Where a reader may be: on the format, failed, or at the end of the line.
LEMMA OnCases ==
    ASSUME NEW r, NEW p \in Nat, NEW e, NEW ps, NEW ss, line \in Words, On(r, p, e, ps, ss)
    PROVE  \/ p <= Len(line) /\ Good(r, p, e, ps, ss)
           \/ Len(line) < p /\ Dead(r)
           \/ Len(line) < p /\ IsReader(r) /\ r.ok = TRUE /\ r.at = Len(line)
<1>1. Len(line) \in Nat
  BY LenProperties DEF Words
<1>2. p <= Len(line) \/ Len(line) < p
  BY <1>1
<1> QED BY <1>2 DEF On, Lost, Dead

\* The fields of a reader after a step of the parser.
LEMMA JumpFacts ==
    ASSUME NEW r, NEW k, IsReader(r)
    PROVE  /\ IsReader(Jump(r, k)) /\ Jump(r, k).at = k /\ Jump(r, k).ok = r.ok
           /\ Jump(r, k).value = r.value /\ Jump(r, k).entry = r.entry
           /\ Jump(r, k).players = r.players /\ Jump(r, k).strings = r.strings
<1> DEFINE x == [at |-> k, ok |-> r.ok, value |-> r.value, entry |-> r.entry,
                 players |-> r.players, strings |-> r.strings]
<1>1. Jump(r, k) = x
  BY DEF IsReader, Jump
<1>2. IsReader(x) /\ x.at = k /\ x.ok = r.ok /\ x.value = r.value /\ x.entry = r.entry
      /\ x.players = r.players /\ x.strings = r.strings
  BY DEF IsReader
<1> HIDE DEF x
<1> QED BY <1>1, <1>2

\* A reader that fails is dead.
LEMMA FailFacts ==
    ASSUME NEW r, IsReader(r)
    PROVE  Dead(Fail(r))
<1> DEFINE b == FALSE
           x == [at |-> r.at, ok |-> b, value |-> r.value, entry |-> r.entry,
                 players |-> r.players, strings |-> r.strings]
<1>1. Fail(r) = [r EXCEPT !.ok = b]
  BY DEF Fail
<1> HIDE DEF b
<1>2. [r EXCEPT !.ok = b] = x
  BY DEF IsReader
<1>3. IsReader(x) /\ x.ok = b
  BY DEF IsReader
<1> HIDE DEF x
<1> QED BY <1>1, <1>2, <1>3 DEF Dead, b

\* Two fields that are assigned at once.
LEMMA PlaceAndValue ==
    ASSUME NEW r, NEW a, NEW v, IsReader(r)
    PROVE  [r EXCEPT !.at = a, !.value = v] =
              [at |-> a, ok |-> r.ok, value |-> v, entry |-> r.entry,
               players |-> r.players, strings |-> r.strings]
<1> DEFINE x == [r EXCEPT !.at = a]
<1>1. [r EXCEPT !.at = a, !.value = v] = [x EXCEPT !.value = v]
  OBVIOUS
<1>2. x = [at |-> a, ok |-> r.ok, value |-> r.value, entry |-> r.entry,
           players |-> r.players, strings |-> r.strings]
  BY DEF IsReader
<1> HIDE DEF x
<1>3. [x EXCEPT !.value = v] = [at |-> a, ok |-> r.ok, value |-> v, entry |-> r.entry,
                                players |-> r.players, strings |-> r.strings]
  BY <1>2
<1> QED BY <1>1, <1>3

\* A record with two fields replaced, field by field.
LEMMA ValueAndPlayers ==
    ASSUME NEW r, NEW v, NEW ps, IsReader(r)
    PROVE  [r EXCEPT !.value = v, !.players = ps] =
              [at |-> r.at, ok |-> r.ok, value |-> v, entry |-> r.entry,
               players |-> ps, strings |-> r.strings]
<1> DEFINE x == [r EXCEPT !.value = v]
<1>1. [r EXCEPT !.value = v, !.players = ps] = [x EXCEPT !.players = ps]
  OBVIOUS
<1>2. x = [at |-> r.at, ok |-> r.ok, value |-> v, entry |-> r.entry,
           players |-> r.players, strings |-> r.strings]
  BY DEF IsReader
<1> HIDE DEF x
<1>3. [x EXCEPT !.players = ps] = [at |-> r.at, ok |-> r.ok, value |-> v, entry |-> r.entry,
                                   players |-> ps, strings |-> r.strings]
  BY <1>2
<1> QED BY <1>1, <1>3

\* parse_number changes the place and the value only.
LEMMA NumberFacts ==
    ASSUME NEW r, NEW V, IsReader(r)
    PROVE  /\ IsReader(Number(r, V)) /\ Number(r, V).at = NumberEnd(r)
           /\ Number(r, V).ok = r.ok /\ Number(r, V).value = Product(r, V) \div 10
           /\ Number(r, V).entry = r.entry
           /\ Number(r, V).players = r.players /\ Number(r, V).strings = r.strings
<1> DEFINE end == NumberEnd(r)
           v == Product(r, V) \div 10
           x == [at |-> end, ok |-> r.ok, value |-> v, entry |-> r.entry,
                 players |-> r.players, strings |-> r.strings]
<1> HIDE DEF end, v
<1>1. [r EXCEPT !.at = end, !.value = v] = x
  BY PlaceAndValue
<1>2. Number(r, V) = [r EXCEPT !.at = end, !.value = v]
  BY DEF Number, end, v
<1>3. IsReader(x) /\ x.at = end /\ x.ok = r.ok /\ x.value = v /\ x.entry = r.entry
      /\ x.players = r.players /\ x.strings = r.strings
  BY DEF IsReader
<1> HIDE DEF x
<1> QED BY <1>1, <1>2, <1>3 DEF end, v

\* What parse_number reads of a signed number.
Minus(r) == At(r) = "-"
AfterMinus(r) == IF Minus(r) THEN Step(r) ELSE r
HalfProduct(r) ==
    LET product == Product(AfterMinus(r), IntValues)
    IN  IF product < IntValues \div 2 THEN product \div 10 ELSE - ((IntValues - product) \div 10)
SignedValue(r) == IF Minus(r) THEN - HalfProduct(r) ELSE HalfProduct(r)

\* So does it for a signed number.
LEMMA SignedFacts ==
    ASSUME NEW r, IsReader(r)
    PROVE  LET s == SignedNumber(r)
           IN  /\ IsReader(s) /\ s.at = NumberEnd(AfterMinus(r))
               /\ s.ok = r.ok /\ s.value = SignedValue(r) /\ s.entry = r.entry
               /\ s.players = r.players /\ s.strings = r.strings
<1> DEFINE end == NumberEnd(AfterMinus(r))
           v == SignedValue(r)
           x == [at |-> end, ok |-> r.ok, value |-> v, entry |-> r.entry,
                 players |-> r.players, strings |-> r.strings]
           s == SignedNumber(r)
<1>1. s = [r EXCEPT !.at = end, !.value = v]
  BY DEF SignedNumber, SignedValue, HalfProduct, AfterMinus, Minus
<1> HIDE DEF end, v, s
<1>2. [r EXCEPT !.at = end, !.value = v] = x
  BY PlaceAndValue
<1>3. IsReader(x) /\ x.at = end /\ x.ok = r.ok /\ x.value = v /\ x.entry = r.entry
      /\ x.players = r.players /\ x.strings = r.strings
  BY DEF IsReader
<1> HIDE DEF x
<1>4. /\ IsReader(s) /\ s.at = end /\ s.ok = r.ok /\ s.value = v /\ s.entry = r.entry
      /\ s.players = r.players /\ s.strings = r.strings
  BY <1>1, <1>2, <1>3
<1> QED BY <1>4 DEF end, v, s

\* Put changes one field of the entry.
LEMMA PutFacts ==
    ASSUME NEW r, NEW f, IsReader(r)
    PROVE  /\ IsReader(Put(r, f)) /\ Put(r, f).at = r.at /\ Put(r, f).ok = r.ok
           /\ Put(r, f).value = r.value /\ Put(r, f).entry = [r.entry EXCEPT ![f] = r.value]
           /\ Put(r, f).players = r.players /\ Put(r, f).strings = r.strings
<1> DEFINE e == [r.entry EXCEPT ![f] = r.value]
           x == [at |-> r.at, ok |-> r.ok, value |-> r.value, entry |-> e,
                 players |-> r.players, strings |-> r.strings]
<1>1. Put(r, f) = [r EXCEPT !.entry = e]
  BY DEF Put
<1> HIDE DEF e
<1>2. [r EXCEPT !.entry = e] = x
  BY DEF IsReader
<1>3. IsReader(x) /\ x.at = r.at /\ x.ok = r.ok /\ x.value = r.value /\ x.entry = e
      /\ x.players = r.players /\ x.strings = r.strings
  BY DEF IsReader
<1> HIDE DEF x
<1>4. /\ IsReader(Put(r, f)) /\ Put(r, f).at = r.at /\ Put(r, f).ok = r.ok
      /\ Put(r, f).value = r.value /\ Put(r, f).entry = e
      /\ Put(r, f).players = r.players /\ Put(r, f).strings = r.strings
  BY <1>1, <1>2, <1>3
<1> QED BY <1>4 DEF e

Flagged(e, flag) == [e EXCEPT !["entry_flags"] = e["entry_flags"] + flag]

\* A star is passed, and its flag added.
LEMMA CritFacts ==
    ASSUME NEW r, NEW flag, IsReader(r)
    PROVE  IF At(r) = "*"
           THEN /\ IsReader(Crit(r, flag)) /\ Crit(r, flag).at = r.at + 1
                /\ Crit(r, flag).ok = r.ok /\ Crit(r, flag).entry = Flagged(r.entry, flag)
                /\ Crit(r, flag).players = r.players /\ Crit(r, flag).strings = r.strings
           ELSE Crit(r, flag) = r
<1>1. CASE At(r) = "*"
  <2> DEFINE e == Flagged(r.entry, flag)
             s == Step(r)
             x == [at |-> s.at, ok |-> s.ok, value |-> s.value, entry |-> e,
                   players |-> s.players, strings |-> s.strings]
  <2>1. Crit(r, flag) = [s EXCEPT !.entry = e]
    BY <1>1 DEF Crit, Flagged
  <2>2. /\ IsReader(s) /\ s.at = r.at + 1 /\ s.ok = r.ok
        /\ s.players = r.players /\ s.strings = r.strings
    BY JumpFacts DEF Step
  <2> HIDE DEF e, s
  <2>3. [s EXCEPT !.entry = e] = x
    BY <2>2 DEF IsReader
  <2>4. IsReader(x) /\ x.at = s.at /\ x.ok = s.ok /\ x.entry = e
        /\ x.players = s.players /\ x.strings = s.strings
    BY DEF IsReader
  <2> HIDE DEF x
  <2> QED BY <1>1, <2>1, <2>2, <2>3, <2>4 DEF e
<1>2. CASE At(r) # "*"
  BY <1>2 DEF Crit
<1> QED BY <1>1, <1>2

\* register_name changes the value and player_db.
LEMMA RegisterNameFacts ==
    ASSUME NEW r, NEW from, NEW to, IsReader(r)
    PROVE  LET s == RegisterName(r, from, to)
           IN  IF ~ r.ok THEN s = r
               ELSE /\ IsReader(s) /\ s.at = r.at /\ s.ok = r.ok /\ s.entry = r.entry
                    /\ s.value = PlayerId(r.players, Text(from, to))
                    /\ s.players = AfterGetPlayerId(r.players, Text(from, to))
                    /\ s.strings = r.strings
<1> DEFINE s == RegisterName(r, from, to)
           v == PlayerId(r.players, Text(from, to))
           ps == AfterGetPlayerId(r.players, Text(from, to))
           x == [at |-> r.at, ok |-> r.ok, value |-> v, entry |-> r.entry,
                 players |-> ps, strings |-> r.strings]
<1>1. CASE ~ r.ok
  BY <1>1 DEF RegisterName
<1>2. CASE ~ ~ r.ok
  <2>1. s = [r EXCEPT !.value = v, !.players = ps]
    BY <1>2 DEF RegisterName
  <2> HIDE DEF v, ps, s
  <2>2. [r EXCEPT !.value = v, !.players = ps] = x
    BY ValueAndPlayers
  <2>3. IsReader(x) /\ x.at = r.at /\ x.ok = r.ok /\ x.value = v /\ x.entry = r.entry
        /\ x.players = ps /\ x.strings = r.strings
    BY DEF IsReader
  <2> HIDE DEF x
  <2>4. /\ IsReader(s) /\ s.at = r.at /\ s.ok = r.ok /\ s.value = v /\ s.entry = r.entry
        /\ s.players = ps /\ s.strings = r.strings
    BY <2>1, <2>2, <2>3
  <2> QED BY <1>2, <2>4 DEF v, ps, s
<1> QED BY <1>1, <1>2

\* register_string changes string_db, for a name that is not empty.
LEMMA RegisterStringFacts ==
    ASSUME NEW r, NEW from, NEW to, IsReader(r)
    PROVE  LET s == RegisterString(r, from, to)
           IN  IF r.ok /\ from < to
               THEN /\ IsReader(s) /\ s.at = r.at /\ s.ok = r.ok /\ s.entry = r.entry
                    /\ s.value = r.value /\ s.players = r.players
                    /\ s.strings = SetString(r.strings, r.value, Text(from, to))
               ELSE s = r
<1> DEFINE s == RegisterString(r, from, to)
           ss == SetString(r.strings, r.value, Text(from, to))
           x == [at |-> r.at, ok |-> r.ok, value |-> r.value, entry |-> r.entry,
                 players |-> r.players, strings |-> ss]
           b == r.ok /\ from < to
<1>1. CASE ~ b
  BY <1>1 DEF RegisterString
<1>2. CASE b
  <2>1. s = [r EXCEPT !.strings = ss]
    BY <1>2 DEF RegisterString
  <2> HIDE DEF ss, s, b
  <2>2. [r EXCEPT !.strings = ss] = x
    BY DEF IsReader
  <2>3. IsReader(x) /\ x.at = r.at /\ x.ok = r.ok /\ x.value = r.value /\ x.entry = r.entry
        /\ x.players = r.players /\ x.strings = ss
    BY DEF IsReader
  <2> HIDE DEF x
  <2>4. /\ IsReader(s) /\ s.at = r.at /\ s.ok = r.ok /\ s.value = r.value /\ s.entry = r.entry
        /\ s.players = r.players /\ s.strings = ss
    BY <2>1, <2>2, <2>3
  <2> QED BY <1>2, <2>4 DEF b, ss, s
<1> QED BY <1>1, <1>2

\* A parser that has thrown does not come back.
LEMMA DeadOps ==
    ASSUME NEW r, Dead(r)
    PROVE  /\ \A k : Dead(Jump(r, k))
           /\ Dead(Step(r)) /\ Dead(Fail(r)) /\ Dead(SkipSpaces(r)) /\ Dead(SignedNumber(r))
           /\ \A c : Dead(Expect(r, c))
           /\ \A V : Dead(Number(r, V))
           /\ \A f : Dead(Put(r, f))
           /\ \A flag : Dead(Crit(r, flag))
           /\ \A from, to : RegisterName(r, from, to) = r
           /\ \A from, to : RegisterString(r, from, to) = r
<1>1. IsReader(r) /\ r.ok = FALSE
  BY DEF Dead
<1>2. \A k : Dead(Jump(r, k))
  BY <1>1, JumpFacts DEF Dead
<1>3. Dead(Step(r)) /\ Dead(SkipSpaces(r)) /\ Dead(Fail(r))
  BY <1>1, <1>2, FailFacts DEF Step, SkipSpaces
<1>4. \A c : Dead(Expect(r, c))
  BY <1>3 DEF Expect
<1>5. (\A V : Dead(Number(r, V))) /\ Dead(SignedNumber(r)) /\ \A f : Dead(Put(r, f))
  BY <1>1, NumberFacts, SignedFacts, PutFacts DEF Dead
<1>6. \A flag : Dead(Crit(r, flag))
  BY <1>1, CritFacts DEF Dead
<1>7. \A from, to : RegisterName(r, from, to) = r /\ RegisterString(r, from, to) = r
  BY <1>1 DEF RegisterName, RegisterString
<1> QED BY <1>2, <1>3, <1>4, <1>5, <1>6, <1>7

\* A name with its id does not bring a failed reader back.
LEMMA DeadNamedId ==
    ASSUME NEW r, Dead(r), NEW start, NEW far, NEW near
    PROVE  Dead(NamedId(r, start, far, near))
<1> DEFINE brace == Find(start, far, LBrace)
           x == Jump(r, brace + 1)
           y == Number(x, IdValues)
<1>1. Dead(x)
  BY DeadOps
<1>2. Dead(y)
  <2> HIDE DEF x
  <2> QED BY <1>1, DeadOps
<1>3. RegisterString(y, start, brace - 1) = y
  <2> HIDE DEF y, brace
  <2> QED BY <1>2, DeadOps
<1>4. Dead(Fail(r))
  BY DeadOps
<1> QED BY <1>2, <1>3, <1>4 DEF NamedId

-----------------------------------------------------------------------------
(* The steps of a reader on the format *)

\* A line has a length.
LEMMA LineLength ==
    ASSUME line \in Words
    PROVE  Len(line) \in Nat
BY LenProperties DEF Words

\* A text of one character stands where that character follows.
LEMMA NextOne ==
    ASSUME NEW p \in Nat, NEW c, line \in Words
    PROVE  Stands(p, <<c>>) <=> Follows(p, c)
<1>1. Stands(p, <<c>>) <=> (p + 1 <= Len(line) => line[p + 1] = c)
  BY StandsOne
<1>2. p + 1 <= Len(line) <=> p < Len(line)
  BY LineLength
<1> QED BY <1>1, <1>2 DEF Follows

\* expect_char, where the character is that of the format.
LEMMA ExpectOn ==
    ASSUME line \in Words, NEW r, NEW p \in Nat, NEW e, NEW ps, NEW ss, NEW c,
           On(r, p, e, ps, ss), Follows(p, c), c # "end"
    PROVE  OnS(Expect(r, c), p + 1, e, ps, ss)
<1>1. Len(line) \in Nat
  BY LineLength
<1>2. CASE p <= Len(line) /\ Good(r, p, e, ps, ss)
  <2>1. CASE p < Len(line)
    <3>1. At(r) = c
      BY <1>2, <2>1 DEF At, Good, Follows
    <3>2. Good(Expect(r, c), p + 1, e, ps, ss)
      BY <1>2, <3>1, JumpFacts DEF Expect, Step, Good
    <3> QED BY <1>1, <2>1, <3>2 DEF OnS
  <2>2. CASE p = Len(line)
    <3>1. At(r) # c
      BY <1>1, <1>2, <2>2 DEF At, Good
    <3>2. Dead(Expect(r, c))
      BY <1>2, <3>1, FailFacts DEF Expect, Good
    <3> QED BY <1>1, <2>2, <3>2 DEF OnS
  <2> QED BY <1>1, <1>2, <2>1, <2>2
<1>3. CASE Len(line) < p /\ Dead(r)
  <2>1. Dead(Expect(r, c))
    BY <1>3, DeadOps
  <2> QED BY <1>1, <1>3, <2>1 DEF OnS
<1>4. CASE Len(line) < p /\ IsReader(r) /\ r.ok = TRUE /\ r.at = Len(line)
  <2>1. At(r) # c
    BY <1>1, <1>4 DEF At
  <2>2. Dead(Expect(r, c))
    BY <1>4, <2>1, FailFacts DEF Expect
  <2> QED BY <1>1, <1>4, <2>2 DEF OnS
<1> QED BY <1>2, <1>3, <1>4, OnCases

\* skip_spaces in front of a word.
LEMMA NoSpaceOn ==
    ASSUME line \in Words, NEW r, NEW p \in Nat, NEW e, NEW ps, NEW ss, NEW c,
           Follows(p, c), c # Space
    PROVE  /\ On(r, p, e, ps, ss) => On(SkipSpaces(r), p, e, ps, ss)
           /\ OnS(r, p, e, ps, ss) => OnS(SkipSpaces(r), p, e, ps, ss)
<1>1. Len(line) \in Nat
  BY LineLength
<1>2. ASSUME Good(r, p, e, ps, ss), p <= Len(line) PROVE Good(SkipSpaces(r), p, e, ps, ss)
  <2>1. IsReader(r) /\ r.at \in 0..Len(line) /\ r.at = p
    BY <1>1, <1>2 DEF Good
  <2>2. r.at < Len(line) => line[r.at + 1] # Space
    BY <2>1 DEF Follows
  <2>3. SkipSpaces(r) = Jump(r, r.at)
    BY <2>1, <2>2, NoSpaces
  <2> QED BY <1>2, <2>1, <2>3, JumpFacts DEF Good
<1>3. ASSUME Dead(r) PROVE Dead(SkipSpaces(r))
  BY <1>3, DeadOps
<1>4. ASSUME IsReader(r), r.at = Len(line), r.ok = TRUE PROVE Lost(SkipSpaces(r))
  <2>1. r.at \in 0..Len(line) /\ ~ (r.at < Len(line))
    BY <1>1, <1>4
  <2>2. SkipSpaces(r) = Jump(r, r.at)
    BY <2>1, NoSpaces
  <2> QED BY <1>4, <2>2, JumpFacts DEF Lost
<1>5. ASSUME On(r, p, e, ps, ss) PROVE On(SkipSpaces(r), p, e, ps, ss)
  <2>1. CASE p <= Len(line) /\ Good(r, p, e, ps, ss)
    BY <1>2, <2>1 DEF On
  <2>2. CASE Len(line) < p /\ Dead(r)
    <3>1. Lost(SkipSpaces(r))
      BY <1>3, <2>2 DEF Lost, Dead
    <3>2. ~ (p <= Len(line))
      BY <1>1, <2>2
    <3> QED BY <3>1, <3>2 DEF On
  <2>3. CASE Len(line) < p /\ IsReader(r) /\ r.ok = TRUE /\ r.at = Len(line)
    <3>1. Lost(SkipSpaces(r))
      BY <1>4, <2>3
    <3>2. ~ (p <= Len(line))
      BY <1>1, <2>3
    <3> QED BY <3>1, <3>2 DEF On
  <2> QED BY <1>5, <2>1, <2>2, <2>3, OnCases
<1>6. ASSUME OnS(r, p, e, ps, ss) PROVE OnS(SkipSpaces(r), p, e, ps, ss)
  BY <1>2, <1>3, <1>6 DEF OnS
<1> QED BY <1>5, <1>6

\* skip_spaces in front of a space and a word.
LEMMA OneSpaceOn ==
    ASSUME line \in Words, NEW r, NEW p \in Nat, NEW e, NEW ps, NEW ss, NEW c,
           On(r, p, e, ps, ss), Follows(p, Space), Follows(p + 1, c), c # Space
    PROVE  On(SkipSpaces(r), p + 1, e, ps, ss)
<1>1. Len(line) \in Nat
  BY LineLength
<1>2. ASSUME IsReader(r), r.at = Len(line), r.ok = TRUE PROVE Lost(SkipSpaces(r))
  <2>1. r.at \in 0..Len(line) /\ ~ (r.at < Len(line))
    BY <1>1, <1>2
  <2>2. SkipSpaces(r) = Jump(r, r.at)
    BY <2>1, NoSpaces
  <2> QED BY <1>2, <2>2, JumpFacts DEF Lost
<1>3. CASE p <= Len(line) /\ Good(r, p, e, ps, ss)
  <2>1. CASE p < Len(line)
    <3>1. r.at \in 0..Len(line) - 1 /\ r.at = p /\ p + 2 = (p + 1) + 1 /\ IsReader(r)
      BY <1>1, <1>3, <2>1 DEF Good
    <3>2. line[r.at + 1] = Space /\ (r.at + 1 < Len(line) => line[r.at + 2] # Space)
      BY <2>1, <3>1 DEF Follows
    <3>3. SkipSpaces(r) = Jump(r, r.at + 1)
      BY <3>1, <3>2, OneSpace
    <3>4. Good(SkipSpaces(r), p + 1, e, ps, ss) /\ p + 1 <= Len(line)
      BY <1>1, <1>3, <2>1, <3>1, <3>3, JumpFacts DEF Good
    <3> QED BY <3>4 DEF On
  <2>2. CASE p = Len(line)
    <3>1. ~ (p + 1 <= Len(line)) /\ IsReader(r) /\ r.at = Len(line) /\ r.ok = TRUE
      BY <1>1, <1>3, <2>2 DEF Good
    <3> QED BY <1>2, <3>1 DEF On
  <2> QED BY <1>1, <1>3, <2>1, <2>2
<1>4. CASE Len(line) < p /\ Dead(r)
  <2>1. Dead(SkipSpaces(r)) /\ ~ (p + 1 <= Len(line))
    BY <1>1, <1>4, DeadOps
  <2> QED BY <2>1 DEF On, Dead, Lost
<1>5. CASE Len(line) < p /\ IsReader(r) /\ r.ok = TRUE /\ r.at = Len(line)
  <2>1. Lost(SkipSpaces(r))
    BY <1>2, <1>5
  <2>2. ~ (p + 1 <= Len(line))
    BY <1>1, <1>5
  <2> QED BY <2>1, <2>2 DEF On
<1> QED BY <1>3, <1>4, <1>5, OnCases

\* A step to the next character.
LEMMA StepOn ==
    ASSUME line \in Words, NEW r, NEW p \in Nat, NEW e, NEW ps, NEW ss,
           Good(r, p, e, ps, ss)
    PROVE  Good(Step(r), p + 1, e, ps, ss)
BY JumpFacts DEF Good, Step

\* Where a number ends, and what was read.
LEMMA DigitsRead ==
    ASSUME line \in Words, NEW r, NEW p \in Nat, NEW w, NEW c, NEW V, r.at = p, p <= Len(line),
           IsDigits(w), Stands(p, w), Follows(p + Len(w), c), c \notin ToSet(Digits)
    PROVE  IF p + Len(w) <= Len(line)
           THEN NumberEnd(r) = p + Len(w) /\ Product(r, V) = Result(w, V)
           ELSE NumberEnd(r) = Len(line)
<1>1. Len(line) \in Nat /\ Len(w) \in Nat /\ w \in Words
  BY LineLength, LenProperties DEF IsDigits, Words
<1>2. NumberEnd(r) = IF p + Len(w) < Len(line) THEN p + Len(w) ELSE Len(line)
  <2>1. r.at \in 0..Len(line)
    BY <1>1
  <2>2. \A k \in 1..Len(w) : w[k] \in ToSet(Digits)
    BY DEF IsDigits
  <2>3. Stands(r.at, w) /\ (r.at + Len(w) < Len(line) => line[r.at + Len(w) + 1] \notin ToSet(Digits))
    BY DEF Follows
  <2> QED BY <1>1, <2>1, <2>2, <2>3, NumberEndFacts
<1>3. CASE p + Len(w) <= Len(line)
  <2>1. NumberEnd(r) = p + Len(w)
    BY <1>1, <1>2, <1>3
  <2>2. Text(p, p + Len(w)) = w
    BY <1>1, <1>3, TextIs
  <2> QED BY <1>3, <2>1, <2>2 DEF Product, Result
<1>4. CASE ~ (p + Len(w) <= Len(line))
  BY <1>1, <1>2, <1>4
<1> QED BY <1>3, <1>4

\* At the end of the line, there is no digit.
LEMMA NoDigitsRead ==
    ASSUME line \in Words, NEW r, r.at = Len(line)
    PROVE  NumberEnd(r) = Len(line)
<1>1. Len(line) \in Nat
  BY LineLength
<1> DEFINE w == << >>
<1>2. w \in Words /\ Len(w) = 0 /\ \A k \in 1..Len(w) : w[k] \in ToSet(Digits)
  BY SmallWords
<1> HIDE DEF w
<1>3. /\ r.at \in 0..Len(line) /\ Stands(r.at, w) /\ ~ (r.at + Len(w) < Len(line))
  BY <1>1, <1>2 DEF Stands
<1> QED BY <1>2, <1>3, NumberEndFacts

\* parse_number.
LEMMA NumberOn ==
    ASSUME line \in Words, NEW r, NEW p \in Nat, NEW e, NEW ps, NEW ss, NEW w, NEW c, NEW V,
           On(r, p, e, ps, ss),
           IsDigits(w), Stands(p, w), Follows(p + Len(w), c), c \notin ToSet(Digits)
    PROVE  /\ On(Number(r, V), p + Len(w), e, ps, ss)
           /\ p + Len(w) <= Len(line) => Number(r, V).value = Result(w, V) \div 10
<1>1. Len(line) \in Nat /\ Len(w) \in Nat
  BY LineLength, LenProperties DEF IsDigits, Words
<1>2. CASE p <= Len(line) /\ Good(r, p, e, ps, ss)
  <2>1. r.at = p /\ IsReader(r) /\ r.ok = TRUE /\ r.entry = e /\ r.players = ps /\ r.strings = ss
    BY <1>2 DEF Good
  <2>2. IF p + Len(w) <= Len(line)
        THEN NumberEnd(r) = p + Len(w) /\ Product(r, V) = Result(w, V)
        ELSE NumberEnd(r) = Len(line)
    BY <1>2, <2>1, DigitsRead
  <2>3. CASE p + Len(w) <= Len(line)
    BY <2>1, <2>2, <2>3, NumberFacts DEF On, Good
  <2>4. CASE ~ (p + Len(w) <= Len(line))
    BY <2>1, <2>2, <2>4, NumberFacts DEF On, Lost
  <2> QED BY <2>3, <2>4
<1>3. CASE Len(line) < p /\ Dead(r)
  <2>1. Dead(Number(r, V)) /\ ~ (p + Len(w) <= Len(line))
    BY <1>1, <1>3, DeadOps
  <2> QED BY <2>1 DEF On, Dead, Lost
<1>4. CASE Len(line) < p /\ IsReader(r) /\ r.ok = TRUE /\ r.at = Len(line)
  <2>1. NumberEnd(r) = Len(line) /\ ~ (p + Len(w) <= Len(line))
    BY <1>1, <1>4, NoDigitsRead
  <2> QED BY <1>4, <2>1, NumberFacts DEF On, Lost
<1> QED BY <1>2, <1>3, <1>4, OnCases

\* Put keeps a reader on the format.
LEMMA PutOn ==
    ASSUME line \in Words, NEW r, NEW p \in Nat, NEW e, NEW ps, NEW ss, NEW f, NEW v,
           p <= Len(line) => r.value = v
    PROVE  /\ On(r, p, e, ps, ss) => On(Put(r, f), p, [e EXCEPT ![f] = v], ps, ss)
           /\ OnS(r, p, e, ps, ss) => OnS(Put(r, f), p, [e EXCEPT ![f] = v], ps, ss)
<1> DEFINE e2 == [e EXCEPT ![f] = v]
<1>1. ASSUME p <= Len(line), Good(r, p, e, ps, ss) PROVE Good(Put(r, f), p, e2, ps, ss)
  <2>1. IsReader(r) /\ r.entry = e /\ r.value = v
    BY <1>1 DEF Good
  <2>2. Put(r, f).entry = e2
    BY <2>1, PutFacts
  <2> HIDE DEF e2
  <2> QED BY <1>1, <2>1, <2>2, PutFacts DEF Good
<1>2. ASSUME Dead(r) PROVE Dead(Put(r, f))
  BY <1>2, DeadOps
<1>3. ASSUME Lost(r) PROVE Lost(Put(r, f))
  BY <1>3, PutFacts DEF Lost
<1> HIDE DEF e2
<1>4. /\ On(r, p, e, ps, ss) => On(Put(r, f), p, e2, ps, ss)
      /\ OnS(r, p, e, ps, ss) => OnS(Put(r, f), p, e2, ps, ss)
  BY <1>1, <1>2, <1>3 DEF On, OnS
<1> QED BY <1>4 DEF e2

\* The mark of a crit, or none in front of another character.
Mark(crit) == IF crit THEN <<"*">> ELSE << >>

\* The mark of a crit is read, or its absence.
LEMMA CritOn ==
    ASSUME line \in Words, NEW r, NEW p \in Nat, NEW e, NEW ps, NEW ss, NEW crit \in BOOLEAN,
           NEW c, NEW flag, On(r, p, e, ps, ss), Stands(p, Mark(crit)),
           Follows(p + Len(Mark(crit)), c), c # "*"
    PROVE  On(Crit(r, flag), p + Len(Mark(crit)), IF crit THEN Flagged(e, flag) ELSE e, ps, ss)
<1>1. Len(line) \in Nat
  BY LineLength
<1>2. ASSUME IsReader(r), r.ok = TRUE, r.at = Len(line) PROVE Lost(Crit(r, flag))
  <2>1. At(r) # "*"
    BY <1>1, <1>2 DEF At
  <2> QED BY <1>2, <2>1, CritFacts DEF Lost
<1>3. ASSUME Dead(r) PROVE Lost(Crit(r, flag))
  BY <1>3, DeadOps DEF Lost, Dead
<1>4. CASE crit
  <2>1. Len(Mark(crit)) = 1 /\ Follows(p, "*")
    BY <1>4, SmallWords, MarksAreChars, NextOne DEF Mark
  <2>2. CASE p < Len(line)
    <3>1. Good(r, p, e, ps, ss)
      BY <2>2 DEF On
    <3>2. At(r) = "*" /\ IsReader(r)
      BY <2>1, <2>2, <3>1 DEF At, Follows, Good
    <3>3. Good(Crit(r, flag), p + 1, Flagged(e, flag), ps, ss)
      BY <3>1, <3>2, CritFacts DEF Good
    <3>4. p + 1 <= Len(line)
      BY <1>1, <2>2
    <3> QED BY <1>4, <2>1, <3>3, <3>4 DEF On
  <2>3. CASE ~ (p < Len(line))
    <3>1. ~ (p + 1 <= Len(line))
      BY <1>1, <2>3
    <3>2. Lost(Crit(r, flag))
      <4>1. p <= Len(line) => p = Len(line)
        BY <1>1, <2>3
      <4> QED BY <1>2, <1>3, <4>1, OnCases DEF Good
    <3> QED BY <2>1, <3>1, <3>2 DEF On
  <2> QED BY <2>2, <2>3
<1>5. CASE ~ crit
  <2>1. Len(Mark(crit)) = 0 /\ Follows(p, c) /\ p + Len(Mark(crit)) = p
    BY <1>5, SmallWords DEF Mark
  <2>2. CASE p <= Len(line)
    <3>1. Good(r, p, e, ps, ss)
      BY <2>2 DEF On
    <3>2. At(r) # "*" /\ IsReader(r)
      BY <2>1, <2>2, <3>1 DEF At, Follows, Good
    <3>3. Crit(r, flag) = r
      BY <3>2, CritFacts
    <3> QED BY <1>5, <2>1, <2>2, <3>1, <3>3 DEF On
  <2>3. CASE ~ (p <= Len(line))
    <3>1. Lost(Crit(r, flag))
      BY <1>2, <1>3, <2>3, OnCases
    <3> QED BY <2>1, <2>3, <3>1 DEF On
  <2> QED BY <2>2, <2>3
<1> QED BY <1>4, <1>5

-----------------------------------------------------------------------------
(* Numbers on the format *)

\* The characters of the formats that end a number.
LEMMA NotDigits ==
    /\ \A c \in {"[", "]", "(", ")", "<", ">", ":", ".", "@", "*", "-"} : c \notin ToSet(Digits)
    /\ Space \notin ToSet(Digits) /\ LBrace \notin ToSet(Digits) /\ RBrace \notin ToSet(Digits)
<1>1. \A c \in {Space, LBrace, RBrace} : c \notin ToSet(Digits)
  BY DigitFacts, SpaceIsNone, Zenon
<1>2. \A c \in {"[", "]", "(", ")", "<", ">", ":", ".", "@", "*", "-"} : c \notin ToSet(Digits)
  BY DigitFacts
<1> QED BY <1>1, <1>2

\* A number in digits is a text that begins like a number.
LEMMA DecimalText ==
    ASSUME NEW n \in Int
    PROVE  /\ Decimal(n) \in Words /\ Len(Decimal(n)) \in Nat \ {0}
           /\ Decimal(n)[1] \in ToSet(Digits) \cup {"-"}
           /\ \A k \in 1..Len(Decimal(n)) : Decimal(n)[k] \in ToSet(Digits) \cup {"-"}
<1>1. CASE n < 0
  <2> DEFINE w == NatDecimal(-n)
             z == <<"-">>
  <2>1. w \in Words /\ Len(w) \in Nat \ {0} /\ \A k \in 1..Len(w) : w[k] \in ToSet(Digits)
    BY <1>1, NatDecimalText DEF IsDigits
  <2>2. z \in Words /\ Len(z) = 1 /\ z[1] = "-"
    BY SmallWords, MarksAreChars
  <2>3. Decimal(n) = z \o w
    BY <1>1 DEF Decimal
  <2> HIDE DEF w, z
  <2> DEFINE u == z \o w
  <2>4. /\ u \in Words /\ Len(u) = Len(z) + Len(w)
        /\ \A k \in 1..Len(z) : u[k] = z[k]
        /\ \A k \in 1..Len(w) : u[Len(z) + k] = w[k]
    BY <2>1, <2>2, TextConcat
  <2> HIDE DEF u
  <2>5. ASSUME NEW k \in 1..Len(u) PROVE u[k] \in ToSet(Digits) \cup {"-"}
    <3>1. CASE k = 1
      BY <2>2, <2>4, <3>1
    <3>2. CASE k # 1
      <4>1. k - 1 \in 1..Len(w) /\ 1 + (k - 1) = k
        BY <2>1, <2>2, <2>4, <3>2
      <4>2. u[Len(z) + (k - 1)] = w[k - 1] /\ w[k - 1] \in ToSet(Digits)
        BY <2>1, <2>4, <4>1
      <4> QED BY <2>2, <4>1, <4>2
    <3> QED BY <3>1, <3>2
  <2>6. Len(u) \in Nat \ {0} /\ 1 \in 1..Len(u)
    BY <2>1, <2>2, <2>4
  <2> QED BY <2>3, <2>4, <2>5, <2>6 DEF u
<1>2. CASE ~ (n < 0)
  <2>1. n \in Nat /\ Decimal(n) = NatDecimal(n)
    BY <1>2 DEF Decimal
  <2>2. IsDigits(Decimal(n)) /\ Len(Decimal(n)) \in Nat \ {0}
    BY <2>1, NatDecimalText
  <2>3. 1 \in 1..Len(Decimal(n))
    BY <2>2
  <2> QED BY <2>2, <2>3 DEF IsDigits
<1> QED BY <1>1, <1>2

\* A signed number that parse_number can read.
Small(n) == n * 10 < IntValues \div 2 /\ -n * 10 < IntValues \div 2

\* The sign of a small number is not mistaken.
LEMMA HalfIsRead ==
    ASSUME NEW m \in Nat, m * 10 < IntValues \div 2, NEW product,
           product = Result(NatDecimal(m), IntValues)
    PROVE  (IF product < IntValues \div 2 THEN product \div 10
            ELSE - ((IntValues - product) \div 10)) = m
<1>1. IntValues \in Nat \ {0}
  BY ValuesAssumption
<1>2. m * 10 < IntValues
  BY <1>1
<1>3. product = m * 10 /\ product \div 10 = m
  BY <1>1, <1>2, NumberIsRead
<1> QED BY <1>3

\* A signed number of the format is read, a small one as what it is.
LEMMA SignedOn ==
    ASSUME line \in Words, NEW r, NEW p \in Nat, NEW e, NEW ps, NEW ss, NEW n \in Int, NEW c,
           On(r, p, e, ps, ss), Stands(p, Decimal(n)),
           Follows(p + Len(Decimal(n)), c), c \notin ToSet(Digits)
    PROVE  /\ On(SignedNumber(r), p + Len(Decimal(n)), e, ps, ss)
           /\ p + Len(Decimal(n)) <= Len(line) /\ Small(n) => SignedNumber(r).value = n
<1> DEFINE q == p + Len(Decimal(n))
           s == SignedNumber(r)
           a == AfterMinus(r)
<1>1. Len(line) \in Nat /\ Len(Decimal(n)) \in Nat \ {0} /\ q \in Nat /\ p < q
  <2>1. Len(line) \in Nat /\ Len(Decimal(n)) \in Nat \ {0}
    BY LineLength, DecimalText
  <2> QED BY <2>1
<1>2. ASSUME IsReader(r), r.ok = TRUE, r.at = Len(line) PROVE Lost(s)
  <2>1. ~ Minus(r)
    BY <1>1, <1>2 DEF Minus, At
  <2>2. NumberEnd(a) = Len(line)
    BY <1>2, <2>1, NoDigitsRead DEF AfterMinus
  <2> QED BY <1>2, <2>2, SignedFacts DEF Lost
<1>3. ASSUME Dead(r) PROVE Lost(s)
  BY <1>3, DeadOps DEF Lost, Dead
<1>4. CASE p <= Len(line) /\ Good(r, p, e, ps, ss)
  <2> DEFINE m == IF n < 0 THEN - n ELSE n
             w == NatDecimal(m)
             d == IF n < 0 THEN p + 1 ELSE p
  <2>1. m \in Nat /\ IsDigits(w) /\ Len(w) \in Nat \ {0} /\ d \in Nat
    <3>1. m \in Nat
      OBVIOUS
    <3>2. d \in Nat
      OBVIOUS
    <3> HIDE DEF m, d
    <3> QED BY <3>1, <3>2, NatDecimalText
  <2>2. /\ n < 0 <=> Follows(p, "-") /\ (p < Len(line) => line[p + 1] = "-") /\ n < 0
        /\ d + Len(w) = q /\ Stands(d, w)
    <3>1. CASE n < 0
      <4> DEFINE z == <<"-">>
      <4>1. Decimal(n) = z \o w
        BY <3>1 DEF Decimal
      <4>2. z \in Words /\ Len(z) = 1 /\ w \in Words
        BY <2>1, SmallWords, MarksAreChars DEF IsDigits
      <4>3. Stands(p, z) <=> Follows(p, "-")
        BY NextOne
      <4> HIDE DEF z, w
      <4>5. Stands(p, z \o w)
        BY <4>1
      <4>4. Stands(p, z) /\ Stands(p + Len(z), w) /\ Len(Decimal(n)) = Len(z) + Len(w)
        BY <4>1, <4>2, <4>5, StandsConcat, TextConcat
      <4> QED BY <2>1, <3>1, <4>2, <4>3, <4>4 DEF Follows
    <3>2. CASE ~ (n < 0)
      <4>1. Decimal(n) = w
        BY <3>2 DEF Decimal
      <4> HIDE DEF w
      <4> QED BY <3>2, <4>1
    <3> QED BY <3>1, <3>2
  <2>3. Minus(r) <=> n < 0 /\ p < Len(line)
    <3>1. CASE n < 0
      BY <1>4, <2>2, <3>1 DEF Minus, At, Good
    <3>2. CASE ~ (n < 0)
      <4>1. Follows(p, w[1]) /\ w[1] \in ToSet(Digits)
        <5>1. w \in Words /\ Len(w) >= 1 /\ Stands(p, w) /\ w[1] \in ToSet(Digits)
          <6> HIDE DEF w
          <6>1. 1 \in 1..Len(w) /\ Len(w) >= 1
            BY <2>1
          <6> QED BY <2>1, <2>2, <3>2, <6>1 DEF IsDigits
        <5> HIDE DEF w
        <5> QED BY <5>1, NextIs
      <4>2. w[1] # "-"
        BY <4>1, NotDigits
      <4> HIDE DEF w
      <4> QED BY <1>4, <3>2, <4>1, <4>2 DEF Minus, At, Good, Follows
    <3> QED BY <3>1, <3>2
  <2>4. CASE n < 0 /\ p = Len(line)
    <3>1. IsReader(r) /\ r.ok = TRUE /\ r.at = Len(line) /\ ~ (q <= Len(line))
      BY <1>1, <1>4, <2>4 DEF Good
    <3>2. Lost(s)
      BY <1>2, <3>1
    <3> HIDE DEF q, s
    <3>3. On(s, q, e, ps, ss)
      BY <3>1, <3>2 DEF On
    <3> QED BY <3>1, <3>3 DEF q, s
  <2>5. CASE ~ (n < 0 /\ p = Len(line))
    <3>1. a.at = d /\ d <= Len(line)
      <4>1. CASE n < 0
        BY <1>1, <1>4, <2>3, <2>5, <4>1, JumpFacts DEF AfterMinus, Step, Good
      <4>2. CASE ~ (n < 0)
        BY <1>4, <2>3, <4>2 DEF AfterMinus, Good
      <4> QED BY <4>1, <4>2
    <3> HIDE DEF w, d, a
    <3>2. IF d + Len(w) <= Len(line)
          THEN NumberEnd(a) = d + Len(w) /\ Product(a, IntValues) = Result(w, IntValues)
          ELSE NumberEnd(a) = Len(line)
      BY <2>1, <2>2, <3>1, DigitsRead
    <3>3. /\ IsReader(s) /\ s.at = NumberEnd(a) /\ s.ok = TRUE
          /\ s.value = SignedValue(r) /\ s.entry = e /\ s.players = ps /\ s.strings = ss
      <4>1. IsReader(r) /\ r.ok = TRUE /\ r.entry = e /\ r.players = ps /\ r.strings = ss
        BY <1>4 DEF Good
      <4> QED BY <4>1, SignedFacts DEF a
    <3> HIDE DEF s
    <3>4. CASE q <= Len(line)
      <4>1. Good(s, q, e, ps, ss)
        BY <2>2, <3>2, <3>3, <3>4 DEF Good
      <4>2. ASSUME Small(n) PROVE s.value = n
        <5>1. m * 10 < IntValues \div 2
          BY <4>2 DEF Small
        <5> HIDE DEF m
        <5>2. Product(a, IntValues) = Result(NatDecimal(m), IntValues)
          BY <2>2, <3>2, <3>4 DEF w
        <5>3. HalfProduct(r) = m
          <6> DEFINE product == Product(a, IntValues)
          <6>1. HalfProduct(r) = IF product < IntValues \div 2 THEN product \div 10
                                 ELSE - ((IntValues - product) \div 10)
            BY DEF HalfProduct, a
          <6>2. product = Result(NatDecimal(m), IntValues)
            BY <5>2
          <6> HIDE DEF product
          <6>3. (IF product < IntValues \div 2 THEN product \div 10
                 ELSE - ((IntValues - product) \div 10)) = m
            BY <2>1, <5>1, <6>2, HalfIsRead
          <6> QED BY <6>1, <6>3
        <5>4. Minus(r) <=> n < 0
          BY <1>1, <1>4, <2>3, <2>5
        <5> QED BY <3>3, <5>3, <5>4 DEF SignedValue, m
      <4> HIDE DEF q
      <4> QED BY <3>4, <4>1, <4>2 DEF On, q, s
    <3>5. CASE ~ (q <= Len(line))
      <4>1. Lost(s)
        BY <2>2, <3>2, <3>3, <3>5 DEF Lost
      <4> HIDE DEF q
      <4> QED BY <3>5, <4>1 DEF On, q, s
    <3> QED BY <3>4, <3>5
  <2> QED BY <1>4, <2>4, <2>5, <1>1
<1>5. CASE Len(line) < p
  <2>1. ~ (q <= Len(line))
    BY <1>1, <1>5
  <2>2. Lost(s)
    <3>1. Dead(r) \/ (IsReader(r) /\ r.ok = TRUE /\ r.at = Len(line))
      <4>1. ~ (p <= Len(line))
        BY <1>1, <1>5
      <4>2. Lost(r)
        BY <4>1 DEF On
      <4> QED BY <4>2 DEF Lost, Dead
    <3> HIDE DEF s
    <3> QED BY <1>2, <1>3, <3>1
  <2> HIDE DEF q, s
  <2>3. On(s, q, e, ps, ss)
    BY <2>1, <2>2 DEF On
  <2> QED BY <2>1, <2>3 DEF q, s
<1> QED BY <1>4, <1>5, OnCases

-----------------------------------------------------------------------------
(* Names and ids *)

\* What a name of the game looks like to the parser.
NameOk(w) ==
    /\ w \in Words /\ Len(w) \in Nat \ {0} /\ Balanced(w)
    /\ w[1] \notin {Space, "]", "@", "(", ")", "-"}
    /\ \A i \in 1..Len(w) : w[i] # LBrace

\* What the game writes as a name is one to the parser.
LEMMA NamesAreOk ==
    ASSUME NEW w, IsName(w)
    PROVE  NameOk(w)
<1>1. w \in Words
  BY WordsOfStrings DEF IsName
<1>2. Len(w) \in Nat \ {0}
  <2>1. w # << >> /\ w \in Seq(Char)
    BY <1>1 DEF IsName, Words
  <2> QED BY <2>1, LenProperties, EmptySeq
<1>3. Balanced(w)
  BY DEF IsName, Balanced
<1> QED BY <1>1, <1>2, <1>3 DEF IsName, NameOk

Infix == <<Space, LBrace>>

\* Two texts begin as the first one does.
LEMMA ConcatFirst ==
    ASSUME NEW v \in Words, NEW w \in Words, Len(v) \in Nat \ {0}
    PROVE  v \o w \in Words /\ Len(v \o w) = Len(v) + Len(w) /\ (v \o w)[1] = v[1]
<1>1. 1 \in 1..Len(v)
  OBVIOUS
<1> QED BY <1>1, TextConcat

\* An id has no sign.
LEMMA IdText ==
    ASSUME NEW n \in Nat
    PROVE  /\ Decimal(n) = NatDecimal(n) /\ IsDigits(Decimal(n)) /\ Decimal(n) \in Words
           /\ Len(Decimal(n)) \in Nat \ {0}
<1>1. ~ (n < 0)
  OBVIOUS
<1>2. Decimal(n) = NatDecimal(n)
  BY <1>1 DEF Decimal
<1> QED BY <1>2, NatDecimalText DEF IsDigits

\* The parts of a name with its id.
LEMMA NamedText ==
    ASSUME line \in Words, NEW x, NameOk(x.name), x.id \in Nat
    PROVE  LET n == Len(x.name)
               d == Decimal(x.id)
           IN  /\ IsDigits(d) /\ Len(d) \in Nat \ {0} /\ n \in Nat \ {0}
               /\ Named(x) \in Words /\ Len(Named(x)) = n + 2 + Len(d) + 1
               /\ Named(x)[1] = x.name[1]
               /\ \A p \in Nat :
                     Stands(p, Named(x)) <=>
                        /\ Stands(p, x.name) /\ Follows(p + n, Space) /\ Follows(p + n + 1, LBrace)
                        /\ Stands(p + n + 2, d) /\ Follows(p + n + 2 + Len(d), RBrace)
<1> DEFINE u == x.name
           n == Len(u)
           d == Decimal(x.id)
           b == Infix
           z == <<RBrace>>
           sp == <<Space>>
           br == <<LBrace>>
<1>1. u \in Words /\ n \in Nat \ {0}
  BY DEF NameOk
<1>2. IsDigits(d) /\ d \in Words /\ Len(d) \in Nat \ {0}
  BY IdText
<1>3. /\ b \in Words /\ Len(b) = 2 /\ b[1] = Space /\ b[2] = LBrace
      /\ z \in Words /\ Len(z) = 1 /\ z[1] = RBrace
  BY SmallWords, MarksAreChars DEF Infix
<1>4. Named(x) = ((u \o b) \o d) \o z
  BY DEF Named, Infix
<1>5. ASSUME NEW p \in Nat PROVE Stands(p, z) <=> Follows(p, RBrace)
  BY NextOne
<1>6. ASSUME NEW p \in Nat PROVE Stands(p, b) <=> Follows(p, Space) /\ Follows(p + 1, LBrace)
  <2>1. \A k \in 1..2 : k = 1 \/ k = 2
    OBVIOUS
  <2>2. 1 \in 1..2 /\ 2 \in 1..2 /\ Len(line) \in Nat /\ p + 2 = p + 1 + 1
    BY LineLength
  <2>3. Stands(p, b) <=> /\ p + 1 <= Len(line) => line[p + 1] = Space
                         /\ p + 2 <= Len(line) => line[p + 2] = LBrace
    <3> HIDE DEF b
    <3> QED BY <1>3, <2>1, <2>2 DEF Stands
  <2>4. (p + 1 <= Len(line) <=> p < Len(line)) /\ (p + 2 <= Len(line) <=> p + 1 < Len(line))
    BY <2>2
  <2> HIDE DEF b
  <2> QED BY <2>2, <2>3, <2>4 DEF Follows
<1> HIDE DEF u, d, b, z
<1>7. u \o b \in Words /\ Len(u \o b) = n + 2 /\ (u \o b)[1] = u[1]
  <2>1. b \in Words /\ Len(b) = 2 /\ Len(u) \in Nat \ {0}
    BY <1>1, <1>3
  <2> QED BY <1>1, <2>1, ConcatFirst
<1> DEFINE v == u \o b
<1>8. v \o d \in Words /\ Len(v \o d) = n + 2 + Len(d) /\ (v \o d)[1] = u[1]
  <2>1. v \in Words /\ Len(v) = n + 2 /\ v[1] = u[1] /\ Len(v) \in Nat \ {0}
    BY <1>1, <1>7
  <2> HIDE DEF v, n
  <2>2. v \o d \in Words /\ Len(v \o d) = Len(v) + Len(d) /\ (v \o d)[1] = v[1]
    BY <1>2, <2>1, ConcatFirst
  <2> QED BY <2>1, <2>2
<1> DEFINE w == v \o d
<1>9. w \o z \in Words /\ Len(w \o z) = n + 2 + Len(d) + 1 /\ (w \o z)[1] = u[1]
  <2>1. w \in Words /\ Len(w) = n + 2 + Len(d) /\ w[1] = u[1]
    BY <1>8
  <2> HIDE DEF w
  <2>2. Len(w) \in Nat \ {0}
    BY <1>1, <1>2, <2>1
  <2> HIDE DEF n
  <2>3. w \o z \in Words /\ Len(w \o z) = Len(w) + Len(z) /\ (w \o z)[1] = w[1]
    BY <1>3, <2>1, <2>2, ConcatFirst
  <2> QED BY <1>3, <2>1, <2>3
<1>10. ASSUME NEW p \in Nat
       PROVE  Stands(p, w \o z) <=>
                 /\ Stands(p, u) /\ Follows(p + n, Space) /\ Follows(p + n + 1, LBrace)
                 /\ Stands(p + n + 2, d) /\ Follows(p + n + 2 + Len(d), RBrace)
  <2>1. Stands(p, v) <=> Stands(p, u) /\ Follows(p + n, Space) /\ Follows(p + n + 1, LBrace)
    <3>1. Stands(p, v) <=> Stands(p, u) /\ Stands(p + n, b)
      BY <1>1, <1>3, StandsConcat
    <3>2. p + n \in Nat
      BY <1>1
    <3> QED BY <1>6, <3>1, <3>2
  <2>2. Stands(p, w) <=> Stands(p, v) /\ Stands(p + n + 2, d)
    <3>1. v \in Words /\ Len(v) = n + 2
      BY <1>7
    <3>2. p + (n + 2) = p + n + 2
      BY <1>1
    <3> HIDE DEF v, n
    <3>3. Stands(p, w) <=> Stands(p, v) /\ Stands(p + (n + 2), d)
      BY <1>2, <3>1, StandsConcat
    <3> QED BY <3>2, <3>3
  <2>3. Stands(p, w \o z) <=> Stands(p, w) /\ Follows(p + n + 2 + Len(d), RBrace)
    <3>1. w \in Words /\ Len(w) = n + 2 + Len(d)
      BY <1>8
    <3>2. p + (n + 2 + Len(d)) = p + n + 2 + Len(d) /\ p + n + 2 + Len(d) \in Nat
      BY <1>1, <1>2
    <3> HIDE DEF w, n
    <3>3. Stands(p, w \o z) <=> Stands(p, w) /\ Stands(p + (n + 2 + Len(d)), z)
      BY <1>3, <3>1, StandsConcat
    <3> QED BY <1>5, <3>2, <3>3
  <2> HIDE DEF w, v, n
  <2> QED BY <2>1, <2>2, <2>3
<1>11. Named(x) = w \o z
  BY <1>4
<1> HIDE DEF w, v
<1>12. /\ IsDigits(d) /\ Len(d) \in Nat \ {0} /\ n \in Nat \ {0}
       /\ Named(x) \in Words /\ Len(Named(x)) = n + 2 + Len(d) + 1
       /\ Named(x)[1] = u[1]
       /\ \A p \in Nat :
             Stands(p, Named(x)) <=>
                /\ Stands(p, u) /\ Follows(p + n, Space) /\ Follows(p + n + 1, LBrace)
                /\ Stands(p + n + 2, d) /\ Follows(p + n + 2 + Len(d), RBrace)
  <2> HIDE DEF n
  <2> QED BY <1>1, <1>2, <1>9, <1>10, <1>11
<1> QED BY <1>12 DEF u, d

\* A name with its id has no other brackets, and no other colons.
LEMMA NamedChars ==
    ASSUME NEW x, NameOk(x.name), x.id \in Nat
    PROVE  /\ Named(x) \in Words /\ Balanced(Named(x))
           /\ NoColon(x.name) => \A i \in 1..Len(Named(x)) : Named(x)[i] # ":"
<1> DEFINE u == x.name
           d == Decimal(x.id)
           b == Infix
           z == <<RBrace>>
           Plain(w) == \A i \in 1..Len(w) : w[i] \notin {"[", "]", ":"}
<1>1. u \in Words /\ Balanced(u)
  BY DEF NameOk
<1>2. d \in Words /\ Plain(d)
  <2>1. IsDigits(d) /\ d \in Words
    BY IdText
  <2> HIDE DEF d
  <2>2. \A c \in ToSet(Digits) : c \notin {"[", "]", ":"}
    BY NotDigits
  <2> QED BY <2>1, <2>2 DEF IsDigits
<1>3. b \in Words /\ Plain(b)
  <2>1. b \in Words /\ Len(b) = 2 /\ b[1] = Space /\ b[2] = LBrace
    BY SmallWords, MarksAreChars DEF Infix
  <2>2. \A k \in 1..2 : k = 1 \/ k = 2
    OBVIOUS
  <2>3. Space \notin {"[", "]", ":"} /\ LBrace \notin {"[", "]", ":"}
    BY SpaceIsNone
  <2>4. ASSUME NEW i \in 1..Len(b) PROVE b[i] \notin {"[", "]", ":"}
    <3> HIDE DEF b
    <3>1. i = 1 \/ i = 2
      BY <2>1, <2>2
    <3> QED BY <2>1, <2>3, <3>1
  <2> QED BY <2>1, <2>4
<1>4. z \in Words /\ Plain(z)
  <2>1. z \in Words /\ Len(z) = 1 /\ z[1] = RBrace
    BY SmallWords, MarksAreChars
  <2> HIDE DEF z
  <2>2. \A i \in 1..Len(z) : z[i] \notin {"[", "]", ":"}
    <3>1. RBrace \notin {"[", "]", ":"}
      BY SpaceIsNone
    <3> QED BY <2>1, <3>1
  <2> QED BY <2>1, <2>2
<1>5. Named(x) = ((u \o b) \o d) \o z
  BY DEF Named, Infix
<1> HIDE DEF u, d, b, z
<1>6. Balanced(d) /\ Balanced(b) /\ Balanced(z)
  BY <1>2, <1>3, <1>4, BalancedPlain
<1> DEFINE Clear(w) == \A i \in 1..Len(w) : w[i] # ":"
<1>7. ASSUME NEW v \in Words, NEW w \in Words, Clear(v), Clear(w) PROVE Clear(v \o w)
  <2> SUFFICES ASSUME NEW i \in 1..Len(v \o w) PROVE (v \o w)[i] # ":"
    OBVIOUS
  <2> DEFINE s == v \o w
  <2>1. /\ Len(s) = Len(v) + Len(w) /\ Len(v) \in Nat /\ Len(w) \in Nat
        /\ \A k \in 1..Len(v) : s[k] = v[k]
        /\ \A k \in 1..Len(w) : s[Len(v) + k] = w[k]
    BY TextConcat
  <2> HIDE DEF s
  <2>2. CASE i <= Len(v)
    <3>1. i \in 1..Len(v)
      BY <2>2
    <3> QED BY <1>7, <2>1, <3>1 DEF s
  <2>3. CASE ~ (i <= Len(v))
    <3>1. i - Len(v) \in 1..Len(w) /\ Len(v) + (i - Len(v)) = i
      BY <2>1, <2>3 DEF s
    <3>2. s[Len(v) + (i - Len(v))] = w[i - Len(v)]
      BY <2>1, <3>1
    <3> QED BY <1>7, <3>1, <3>2 DEF s
  <2> QED BY <2>2, <2>3
<1>8. u \o b \in Words /\ Balanced(u \o b) /\ (Clear(u) => Clear(u \o b))
  <2>1. Clear(b)
    BY <1>3
  <2> HIDE DEF Clear
  <2> QED BY <1>1, <1>3, <1>6, <1>7, <2>1, TextConcat, BalancedConcat
<1> DEFINE v == u \o b
<1>9. v \o d \in Words /\ Balanced(v \o d) /\ (Clear(u) => Clear(v \o d))
  <2>1. Clear(d) /\ v \in Words /\ Balanced(v) /\ (Clear(u) => Clear(v))
    BY <1>2, <1>8
  <2> HIDE DEF Clear, v
  <2> QED BY <1>2, <1>6, <1>7, <2>1, TextConcat, BalancedConcat
<1> DEFINE w == v \o d
<1>10. w \o z \in Words /\ Balanced(w \o z) /\ (Clear(u) => Clear(w \o z))
  <2>1. Clear(z) /\ w \in Words /\ Balanced(w) /\ (Clear(u) => Clear(w))
    BY <1>4, <1>9
  <2> HIDE DEF Clear, w
  <2> QED BY <1>4, <1>6, <1>7, <2>1, TextConcat, BalancedConcat
<1>11. Named(x) = w \o z
  BY <1>5
<1>12. NoColon(x.name) => Clear(u)
  BY DEF NoColon, u
<1> HIDE DEF w, v
<1>13. Named(x) \in Words /\ Balanced(Named(x)) /\ (NoColon(x.name) => Clear(Named(x)))
  <2> HIDE DEF Clear
  <2> QED BY <1>10, <1>11, <1>12
<1> QED BY <1>13

\* register_string does not bring a lost reader back.
LEMMA LostRegisterString ==
    ASSUME NEW r, NEW from, NEW to, Lost(r)
    PROVE  Lost(RegisterString(r, from, to))
BY RegisterStringFacts DEF Lost

\* A bound of a search that lies behind q, or at the end of the line.
Beyond(far, q) == far \in Nat /\ far <= Len(line) /\ (far = Len(line) \/ q < far)

\* Where the closing brace of a name with its id is, that begins at start.
IsBrace(q, start, x) == q = start + Len(Named(x)) - 1

\* A reader that should be at p, and have read v.
OnWith(r, p, e, ps, ss, v) == On(r, p, e, ps, ss) /\ (p <= Len(line) => r.value = v)

\* The name and the id that stand at start are read, up to the closing brace.
LEMMA NamedIdOn ==
    ASSUME line \in Words, NEW r, NEW start \in Nat, NEW far \in Nat, NEW near \in Nat, NEW x,
           NEW e, NEW ps, NEW ss, NEW q,
           NameOk(x.name), IsNumber(x.id, IdValues), Stands(start, Named(x)),
           Good(r, r.at, e, ps, ss), start <= far, IsBrace(q, start, x),
           Beyond(far, q), Beyond(near, q)
    PROVE  OnWith(NamedId(r, start, far, near), q, e, ps, SetString(ss, x.id, x.name), x.id)
<1> DEFINE u == x.name
           n == Len(u)
           d == Decimal(x.id)
           b == start + n + 1
           sp == <<Space>>
           w == u \o sp
           brace == Find(start, far, LBrace)
           ss2 == SetString(ss, x.id, x.name)
           s == NamedId(r, start, far, near)
<1>1. /\ Len(line) \in Nat /\ u \in Words /\ n \in Nat \ {0} /\ x.id \in Nat
      /\ x.id * 10 < IdValues /\ IdValues \in Nat \ {0}
  BY LineLength, ValuesAssumption DEF NameOk, IsNumber
<1>2. /\ IsDigits(d) /\ Len(d) \in Nat \ {0} /\ Len(Named(x)) = n + 2 + Len(d) + 1
      /\ Stands(start, u) /\ Follows(start + n, Space) /\ Follows(b, LBrace)
      /\ Stands(start + n + 2, d) /\ Follows(start + n + 2 + Len(d), RBrace)
  BY <1>1, NamedText
<1>3. d = NatDecimal(x.id)
  BY <1>1, IdText
<1> HIDE DEF u, d
<1>4. b \in Nat /\ b + 1 = start + n + 2 /\ q = b + 1 + Len(d) /\ q \in Nat /\ start + n = b - 1
  BY <1>1, <1>2 DEF IsBrace
<1>5. /\ w \in Words /\ Len(w) = n + 1 /\ \A k \in 1..Len(w) : w[k] # LBrace
      /\ Stands(start, w)
  <2>1. sp \in Words /\ Len(sp) = 1 /\ sp[1] = Space
    BY SmallWords, MarksAreChars
  <2>2. Stands(start + n, sp)
    <3>1. start + n \in Nat
      BY <1>1
    <3> QED BY <1>2, <3>1, NextOne
  <2> HIDE DEF sp
  <2>3. /\ w \in Words /\ Len(w) = n + 1
        /\ \A k \in 1..n : w[k] = u[k]
        /\ \A k \in 1..1 : w[n + k] = sp[k]
    <3>1. /\ w \in Words /\ Len(w) = Len(u) + Len(sp)
          /\ \A k \in 1..Len(u) : w[k] = u[k]
          /\ \A k \in 1..Len(sp) : w[Len(u) + k] = sp[k]
      BY <1>1, <2>1, TextConcat
    <3> HIDE DEF w
    <3> QED BY <2>1, <3>1
  <2>4. Stands(start, w)
    BY <1>1, <1>2, <2>1, <2>2, StandsConcat
  <2>5. \A k \in 1..n : u[k] # LBrace
    BY DEF NameOk, u
  <2>6. ASSUME NEW k \in 1..n + 1 PROVE w[k] # LBrace
    <3>1. CASE k \in 1..n
      BY <2>3, <2>5, <3>1
    <3>2. CASE k \notin 1..n
      <4>1. k = n + 1 /\ 1 \in 1..1
        BY <1>1, <3>2
      <4>2. w[k] = Space
        BY <2>1, <2>3, <4>1
      <4> QED BY <4>2, SpaceIsNone
    <3> QED BY <3>1, <3>2
  <2> HIDE DEF w, n
  <2> QED BY <2>3, <2>4, <2>6
<1> HIDE DEF w, n
<1>6. brace = IF b < far THEN b ELSE far
  <2>1. far \in start..Len(line)
    BY <1>1 DEF Beyond
  <2>2. start + Len(w) = b
    BY <1>5, <1>1
  <2>3. start + Len(w) < far => line[start + Len(w) + 1] = LBrace
    <3>1. b < far => b < Len(line)
      BY <1>1, <1>4 DEF Beyond
    <3> HIDE DEF b
    <3> QED BY <1>2, <2>2, <3>1 DEF Follows
  <2> HIDE DEF b
  <2> QED BY <1>5, <2>1, <2>2, <2>3, FindFacts
<1> HIDE DEF b, brace
<1>7. CASE b < far
  <2> DEFINE j == Jump(r, b + 1)
             y == Number(j, IdValues)
  <2>1. brace = b /\ brace \notin {far, near}
    BY <1>1, <1>2, <1>4, <1>6, <1>7 DEF Beyond
  <2>2. s = RegisterString(y, start, b - 1)
    BY <2>1 DEF NamedId, brace
  <2>3. Good(j, b + 1, e, ps, ss) /\ b + 1 <= Len(line)
    <3>1. b + 1 <= Len(line)
      BY <1>1, <1>4, <1>7 DEF Beyond
    <3> QED BY <3>1, JumpFacts DEF Good
  <2> HIDE DEF j
  <2>4. /\ On(y, q, e, ps, ss)
        /\ q <= Len(line) => y.value = Result(d, IdValues) \div 10
    <3>1. On(j, b + 1, e, ps, ss) /\ b + 1 \in Nat
      BY <1>4, <2>3 DEF On
    <3>2. Stands(b + 1, d) /\ Follows(b + 1 + Len(d), RBrace) /\ RBrace \notin ToSet(Digits)
      BY <1>2, <1>4, NotDigits
    <3> DEFINE a == b + 1
               V == IdValues
    <3>3. On(j, a, e, ps, ss) /\ a \in Nat /\ Stands(a, d) /\ Follows(a + Len(d), RBrace)
      BY <3>1, <3>2
    <3> HIDE DEF a, V
    <3>4. /\ On(Number(j, V), a + Len(d), e, ps, ss)
          /\ a + Len(d) <= Len(line) => Number(j, V).value = Result(d, V) \div 10
      BY <1>2, <3>2, <3>3, NumberOn
    <3>5. a + Len(d) = q
      BY <1>4 DEF a
    <3> QED BY <3>4, <3>5 DEF V
  <2> HIDE DEF y, s
  <2>5. CASE q <= Len(line)
    <3>1. Good(y, q, e, ps, ss) /\ y.value = x.id
      <4>1. Result(d, IdValues) \div 10 = x.id
        BY <1>1, <1>3, NumberIsRead
      <4> QED BY <2>4, <2>5, <4>1 DEF On
    <3>2. start < b - 1
      BY <1>1, <1>4
    <3>3. Text(start, b - 1) = u
      <4>1. start + n <= Len(line)
        BY <1>1, <1>4, <2>5, <1>2
      <4>2. Text(start, start + n) = u
        BY <1>1, <1>2, <4>1, TextIs DEF n
      <4> QED BY <1>4, <4>2
    <3>4. Good(s, q, e, ps, ss2) /\ s.value = x.id
      BY <2>2, <3>1, <3>2, <3>3, RegisterStringFacts DEF Good, u
    <3> HIDE DEF ss2
    <3> QED BY <2>5, <3>4 DEF On, OnWith, ss2, s
  <2>6. CASE ~ (q <= Len(line))
    <3>1. Lost(s)
      BY <2>2, <2>4, <2>6, LostRegisterString DEF On
    <3> QED BY <2>6, <3>1 DEF On, OnWith, s
  <2> QED BY <2>5, <2>6
<1>8. CASE ~ (b < far)
  <2>1. far = Len(line) /\ brace = far /\ ~ (q <= Len(line))
    BY <1>1, <1>2, <1>4, <1>6, <1>8 DEF Beyond
  <2>2. s = Fail(r)
    BY <2>1 DEF NamedId, brace
  <2>3. Lost(s)
    BY <2>2, FailFacts DEF Lost, Dead, Good
  <2> HIDE DEF s
  <2> QED BY <2>1, <2>3 DEF On, OnWith, s
<1> QED BY <1>7, <1>8

\* At the end of the line there is no name.
LEMMA NoNamedId ==
    ASSUME line \in Words, NEW r, IsReader(r)
    PROVE  Dead(NamedId(r, Len(line), Len(line), Len(line)))
<1> DEFINE z == Len(line)
           w == << >>
<1>1. z \in Nat
  BY LineLength
<1>2. w \in Words /\ Len(w) = 0
  BY SmallWords
<1> HIDE DEF w
<1>3. Find(z, z, LBrace) = z
  <2>1. /\ z \in z..Len(line) /\ Stands(z, w) /\ (\A k \in 1..Len(w) : w[k] # LBrace)
        /\ ~ (z + Len(w) < z)
    BY <1>1, <1>2 DEF Stands
  <2> HIDE DEF z
  <2> QED BY <1>1, <1>2, <2>1, FindFacts DEF z
<1>4. NamedId(r, z, z, z) = Fail(r)
  <2> HIDE DEF z
  <2> QED BY <1>3 DEF NamedId
<1> QED BY <1>4, FailFacts

\* A name and an id in braces, up to the end of the line.
LEMMA ReadTypeOn ==
    ASSUME line \in Words, NEW r, NEW p \in Nat, NEW e, NEW ps, NEW ss, NEW x, NEW f,
           On(r, p, e, ps, ss), NameOk(x.name), IsNumber(x.id, IdValues), Stands(p, Named(x))
    PROVE  OnS(ReadType(r, f), p + Len(Named(x)), [e EXCEPT ![f] = x.id], ps,
               SetString(ss, x.id, x.name))
<1> DEFINE z == Len(line)
           y == NamedId(r, r.at, z, z)
           q == p + Len(Named(x)) - 1
           e2 == [e EXCEPT ![f] = x.id]
           ss2 == SetString(ss, x.id, x.name)
<1>1. x.id \in Nat /\ z \in Nat
  BY LineLength DEF IsNumber
<1>2. Len(Named(x)) \in Nat \ {0} /\ q \in Nat /\ q + 1 = p + Len(Named(x)) /\ Follows(q, RBrace)
  <2>1. LET n == Len(x.name)
            d == Decimal(x.id)
        IN  /\ Len(d) \in Nat \ {0} /\ n \in Nat \ {0}
            /\ Len(Named(x)) = n + 2 + Len(d) + 1
            /\ Follows(p + n + 2 + Len(d), RBrace)
    BY <1>1, NamedText
  <2> DEFINE n == Len(x.name)
             d == Len(Decimal(x.id))
             l == Len(Named(x))
  <2>2. d \in Nat \ {0} /\ n \in Nat \ {0} /\ l = n + 2 + d + 1 /\ Follows(p + n + 2 + d, RBrace)
    BY <2>1
  <2> HIDE DEF n, d, l
  <2>3. l \in Nat \ {0} /\ p + l - 1 = p + n + 2 + d /\ p + l - 1 \in Nat /\ p + l - 1 + 1 = p + l
    BY <2>2
  <2>4. Follows(p + l - 1, RBrace)
    BY <2>2, <2>3
  <2> QED BY <2>3, <2>4 DEF l
<1>3. ReadType(r, f) = Expect(Put(y, f), RBrace)
  BY DEF ReadType
<1>4. /\ On(y, q, e, ps, ss2) /\ (q <= Len(line) => y.value = x.id)
  <2>1. CASE p <= Len(line) /\ Good(r, p, e, ps, ss)
    <3>1. Good(r, r.at, e, ps, ss) /\ r.at = p /\ p <= z
      BY <2>1 DEF Good
    <3>2. Beyond(z, q)
      BY <1>1 DEF Beyond
    <3> HIDE DEF z, q, y, e2
    <3>3. IsBrace(q, p, x) /\ z \in Nat
      BY <1>1 DEF q, z, IsBrace
    <3>4. OnWith(NamedId(r, p, z, z), q, e, ps, ss2, x.id)
      <4>1. Good(r, r.at, e, ps, ss) /\ p <= z /\ Beyond(z, q)
        BY <3>1, <3>2
      <4> QED BY <3>3, <4>1, NamedIdOn
    <3> QED BY <3>1, <3>4 DEF y, z, OnWith
  <2>2. CASE Len(line) < p /\ Dead(r)
    <3>1. Dead(y)
      BY <2>2, DeadNamedId
    <3>2. ~ (q <= Len(line))
      BY <1>1, <1>2, <2>2
    <3> QED BY <3>1, <3>2 DEF On, Lost, Dead
  <2>3. CASE Len(line) < p /\ IsReader(r) /\ r.ok = TRUE /\ r.at = Len(line)
    <3>1. Dead(y)
      BY <2>3, NoNamedId
    <3>2. ~ (q <= Len(line))
      BY <1>1, <1>2, <2>3
    <3> QED BY <3>1, <3>2 DEF On, Lost, Dead
  <2> QED BY <2>1, <2>2, <2>3, OnCases
<1> HIDE DEF y, q, ss2
<1>5. On(Put(y, f), q, e2, ps, ss2)
  BY <1>2, <1>4, PutOn
<1> HIDE DEF e2
<1>6. OnS(Expect(Put(y, f), RBrace), q + 1, e2, ps, ss2)
  BY <1>2, <1>5, ExpectOn, SpaceIsNone
<1> QED BY <1>2, <1>3, <1>6 DEF e2, ss2

-----------------------------------------------------------------------------
(* read_localized_string *)

\* A text and a character behind another.
LEMMA Behind ==
    ASSUME line \in Words, NEW v \in Words, NEW d \in Words, NEW c \in Char
    PROVE  LET w == (v \o d) \o <<c>>
           IN  /\ w \in Words /\ Len(w) = Len(v) + Len(d) + 1
               /\ Len(v) \in Nat /\ Len(d) \in Nat
               /\ \A p \in Nat :
                     Stands(p, w) <=>
                        /\ Stands(p, v) /\ Stands(p + Len(v), d)
                        /\ Follows(p + Len(v) + Len(d), c)
<1> DEFINE u == v \o d
           z == <<c>>
           w == u \o z
<1>1. /\ u \in Words /\ Len(u) = Len(v) + Len(d) /\ Len(v) \in Nat /\ Len(d) \in Nat
  BY TextConcat
<1>2. z \in Words /\ Len(z) = 1
  BY SmallWords
<1>3. ASSUME NEW p \in Nat PROVE Stands(p, z) <=> Follows(p, c)
  BY NextOne
<1>4. ASSUME NEW p \in Nat PROVE Stands(p, u) <=> Stands(p, v) /\ Stands(p + Len(v), d)
  BY StandsConcat
<1> HIDE DEF u, z
<1>5. w \in Words /\ Len(w) = Len(v) + Len(d) + 1
  <2>1. w \in Words /\ Len(w) = Len(u) + Len(z)
    BY <1>1, <1>2, TextConcat
  <2> HIDE DEF w
  <2> QED BY <1>1, <1>2, <2>1
<1>6. ASSUME NEW p \in Nat
      PROVE  Stands(p, w) <=> /\ Stands(p, v) /\ Stands(p + Len(v), d)
                              /\ Follows(p + Len(v) + Len(d), c)
  <2>1. Stands(p, w) <=> Stands(p, u) /\ Stands(p + Len(u), z)
    BY <1>1, <1>2, StandsConcat
  <2>2. p + Len(u) \in Nat /\ p + Len(u) = p + Len(v) + Len(d)
    BY <1>1
  <2>3. Stands(p + Len(u), z) <=> Follows(p + Len(v) + Len(d), c)
    BY <1>3, <2>2
  <2> QED BY <1>4, <2>1, <2>3
<1> QED BY <1>1, <1>5, <1>6 DEF u, z

\* The search for a bracket and for a character, at the end of the line.
LEMMA NothingFound ==
    ASSUME line \in Words, NEW c
    PROVE  Closing(Len(line)) = Len(line) /\ Find(Len(line), Len(line), c) = Len(line)
<1> DEFINE z == Len(line)
           w == << >>
<1>1. z \in Nat
  BY LineLength
<1>2. w \in Words /\ Len(w) = 0
  BY SmallWords
<1> HIDE DEF w
<1>3. Stands(z, w) /\ (\A k \in 1..Len(w) : w[k] # c /\ w[k] \notin {"[", "]"})
  BY <1>2 DEF Stands
<1>4. z \in z..Len(line) /\ z \in 0..Len(line) /\ ~ (z + Len(w) < z) /\ ~ (z + Len(w) < Len(line))
  BY <1>1, <1>2
<1>5. Balanced(w)
  BY <1>2, <1>3, BalancedPlain
<1>6. Find(z, z, c) = z
  <2> HIDE DEF z
  <2>1. z \in Nat
    BY <1>1 DEF z
  <2>2. Stands(z, w) /\ z \in z..Len(line) /\ ~ (z + Len(w) < z)
    BY <1>3, <1>4 DEF z
  <2> QED BY <1>2, <1>3, <2>1, <2>2, FindFacts
<1>7. Closing(z) = Len(line)
  BY <1>2, <1>3, <1>4, <1>5, ClosingFacts
<1> QED BY <1>6, <1>7

\* At the end of the line nothing is expected.
LEMMA AtEnd ==
    ASSUME line \in Words, NEW r, NEW c, IsReader(r), r.at = Len(line), c # "end"
    PROVE  At(r) # c /\ Dead(Expect(r, c))
<1>1. At(r) # c
  BY LineLength DEF At
<1> QED BY <1>1, FailFacts DEF Expect
-----------------------------------------------------------------------------
\* What read_localized_string does from where the name is.
EndOf(r, close) == IF close = "]" THEN Closing(r.at) ELSE Find(r.at, Len(line), close)
LocalizedFrom(r, close, f) ==
    LET last == Expect(Jump(r, EndOf(r, close)), close)
    IN  IF At(r) = close THEN Step(r)
        ELSE Jump(Put(NamedId(last, r.at, last.at, last.at), f), last.at)

\* read_localized_string, from where the name is.
LEMMA LocalizedParts ==
    ASSUME NEW r0, NEW open, NEW close, NEW f
    PROVE  ReadLocalized(r0, open, close, f) = LocalizedFrom(SkipSpaces(Expect(r0, open)), close, f)
BY DEF ReadLocalized, LocalizedFrom, EndOf

\* The end of the line is in front of the closing character.
LEMMA LocalizedDead ==
    ASSUME line \in Words, NEW r, NEW close, NEW f, close # "end",
           Dead(r) \/ (IsReader(r) /\ At(r) # close /\ EndOf(r, close) = Len(line))
    PROVE  Dead(LocalizedFrom(r, close, f))
<1> DEFINE j == Jump(r, EndOf(r, close))
           last == Expect(j, close)
           y == NamedId(last, r.at, last.at, last.at)
           w == Put(y, f)
<1>1. Dead(last)
  <2>1. CASE Dead(r)
    <3>1. Dead(j)
      BY <2>1, DeadOps
    <3> HIDE DEF j
    <3> QED BY <3>1, DeadOps
  <2>2. CASE IsReader(r) /\ EndOf(r, close) = Len(line)
    <3>1. IsReader(j) /\ j.at = Len(line)
      BY <2>2, JumpFacts
    <3> HIDE DEF j
    <3> QED BY <3>1, AtEnd
  <2> QED BY <2>1, <2>2
<1> HIDE DEF last
<1>2. Dead(y)
  BY <1>1, DeadNamedId
<1> HIDE DEF y
<1>3. Dead(w)
  BY <1>2, DeadOps
<1> HIDE DEF w
<1>4. Dead(Jump(w, last.at))
  BY <1>3, DeadOps
<1>5. LocalizedFrom(r, close, f) = IF At(r) = close THEN Step(r) ELSE Jump(w, last.at)
  BY DEF LocalizedFrom, w, y, last
<1>6. At(r) = close => Dead(Step(r))
  BY DeadOps
<1> QED BY <1>4, <1>5, <1>6

\* A search from r on stops at the closing character, or at the end of the line.
LEMMA EndIs ==
    ASSUME line \in Words, NEW r, NEW m \in Nat, NEW w \in Words, NEW close,
           r.at = m, m <= Len(line), Stands(m, w), Follows(m + Len(w), close),
           IF close = "]" THEN Balanced(w) ELSE \A k \in 1..Len(w) : w[k] # close
    PROVE  EndOf(r, close) = IF m + Len(w) < Len(line) THEN m + Len(w) ELSE Len(line)
<1>1. Len(line) \in Nat /\ m \in 0..Len(line)
  <2>1. Len(line) \in Nat
    BY LineLength
  <2> QED BY <2>1
<1>2. m + Len(w) < Len(line) => line[m + Len(w) + 1] = close
  BY DEF Follows
<1>3. CASE close = "]"
  BY <1>1, <1>2, <1>3, ClosingFacts DEF EndOf
<1>4. CASE close # "]"
  <2> DEFINE z == Len(line)
  <2>1. z \in m..Len(line) /\ (m + Len(w) < z => line[m + Len(w) + 1] = close)
    BY <1>1, <1>2
  <2>2. EndOf(r, close) = Find(m, z, close)
    BY <1>4 DEF EndOf
  <2> HIDE DEF z
  <2>3. Find(m, z, close) = IF m + Len(w) < z THEN m + Len(w) ELSE z
    BY <1>4, <2>1, FindFacts
  <2> QED BY <2>2, <2>3 DEF z
<1> QED BY <1>3, <1>4

\* Where a name with its id ends, that begins at m.
IsEnd(q, m, x) == q = m + Len(Named(x))

\* The braces behind a name.
LEMMA NamedEnds ==
    ASSUME line \in Words, NEW x, NameOk(x.name), IsNumber(x.id, IdValues), NEW m \in Nat,
           NEW q, IsEnd(q, m, x)
    PROVE  /\ q \in Nat /\ m < q /\ q - 1 \in Nat /\ m < q - 1 /\ IsBrace(q - 1, m, x)
           /\ Stands(m, Named(x)) => /\ Follows(m, x.name[1]) /\ Follows(q - 1, RBrace)
<1>1. x.id \in Nat
  BY DEF IsNumber
<1> DEFINE n == Len(x.name)
           d == Len(Decimal(x.id))
           l == Len(Named(x))
<1>2. /\ d \in Nat \ {0} /\ n \in Nat \ {0} /\ l = n + 2 + d + 1
      /\ Named(x) \in Words /\ Named(x)[1] = x.name[1]
      /\ Stands(m, Named(x)) => Follows(m + n + 2 + d, RBrace)
  BY <1>1, NamedText
<1>3. q = m + l
  BY DEF IsEnd
<1> HIDE DEF n, d
<1>4. q - 1 = m + l - 1 /\ l >= 1
  <2> HIDE DEF l
  <2> QED BY <1>2, <1>3
<1>5. IsBrace(q - 1, m, x)
  BY <1>4 DEF IsBrace
<1>6. Stands(m, Named(x)) => Follows(m, x.name[1])
  BY <1>2, <1>4, NextIs
<1> HIDE DEF l
<1>7. q \in Nat /\ m < q /\ q - 1 \in Nat /\ m < q - 1 /\ q - 1 = m + n + 2 + d
  BY <1>2, <1>3
<1>8. Stands(m, Named(x)) => Follows(q - 1, RBrace)
  BY <1>2, <1>7
<1> QED BY <1>5, <1>6, <1>7, <1>8

\* A name with its id that is read up to a.
LEMMA NameBefore ==
    ASSUME line \in Words, NEW r, NEW a \in Nat, NEW b \in Nat, NEW m \in Nat, NEW x, NEW f,
           NEW e, NEW ps, NEW ss,
           Good(r, a, e, ps, ss), a <= Len(line), b < a, m <= a, IsBrace(b, m, x),
           NameOk(x.name), IsNumber(x.id, IdValues), Stands(m, Named(x))
    PROVE  Good(Put(NamedId(r, m, a, a), f), b, [e EXCEPT ![f] = x.id], ps,
                SetString(ss, x.id, x.name))
<1> DEFINE y == NamedId(r, m, a, a)
           ss2 == SetString(ss, x.id, x.name)
<1>1. Beyond(a, b) /\ b <= Len(line) /\ Good(r, r.at, e, ps, ss)
  BY LineLength DEF Beyond, Good
<1>2. OnWith(NamedId(r, m, a, a), b, e, ps, ss2, x.id)
  BY <1>1, NamedIdOn
<1>5. On(y, b, e, ps, ss2) /\ (b <= Len(line) => y.value = x.id)
  BY <1>2 DEF OnWith
<1> HIDE DEF y, ss2
<1>3. On(Put(y, f), b, [e EXCEPT ![f] = x.id], ps, ss2)
  BY <1>5, PutOn
<1>4. Good(Put(y, f), b, [e EXCEPT ![f] = x.id], ps, ss2)
  BY <1>1, <1>3 DEF On
<1> QED BY <1>4 DEF y, ss2

\* read_localized_string from the name on.
LEMMA LocalizedNameOn ==
    ASSUME line \in Words, NEW r, NEW m \in Nat, NEW e, NEW ps, NEW ss, NEW x, NEW f, NEW close, NEW q,
           On(r, m, e, ps, ss), NameOk(x.name), IsNumber(x.id, IdValues), Stands(m, Named(x)),
           IsEnd(q, m, x), Follows(q, close),
           close = "]" \/ (close = ":" /\ NoColon(x.name))
    PROVE  OnS(LocalizedFrom(r, close, f), q + 1, [e EXCEPT ![f] = x.id], ps,
               SetString(ss, x.id, x.name))
<1> DEFINE e2 == [e EXCEPT ![f] = x.id]
           ss2 == SetString(ss, x.id, x.name)
           s == LocalizedFrom(r, close, f)
<1>1. Len(line) \in Nat /\ x.id \in Nat /\ close # "end"
  BY LineLength DEF IsNumber
<1>2. /\ q \in Nat /\ m < q /\ q - 1 \in Nat /\ m < q - 1 /\ IsBrace(q - 1, m, x)
      /\ Follows(m, x.name[1])
  BY NamedEnds
<1>3. /\ Named(x) \in Words /\ Balanced(Named(x))
      /\ close # "]" => \A k \in 1..Len(Named(x)) : Named(x)[k] # close
  BY <1>1, NamedChars
<1>4. x.name[1] # close
  <2>1. CASE close = "]"
    BY <2>1 DEF NameOk
  <2>2. CASE close = ":" /\ NoColon(x.name)
    <3>1. 1 \in 1..Len(x.name)
      BY DEF NameOk
    <3> QED BY <2>2, <3>1 DEF NoColon
  <2> QED BY <2>1, <2>2
<1>5. ASSUME Dead(s), Len(line) < q + 1 PROVE OnS(s, q + 1, e2, ps, ss2)
  <2>1. ~ (q + 1 <= Len(line))
    BY <1>1, <1>2, <1>5
  <2> QED BY <1>5, <2>1 DEF OnS
<1>6. CASE m <= Len(line) /\ Good(r, m, e, ps, ss)
  <2>1. r.at = m /\ IsReader(r) /\ r.ok = TRUE
    BY <1>6 DEF Good
  <2>2. At(r) # close
    BY <1>1, <1>2, <1>4, <2>1 DEF At, Follows
  <2>3. EndOf(r, close) = IF q < Len(line) THEN q ELSE Len(line)
    <3>1. m + Len(Named(x)) = q
      BY DEF IsEnd
    <3>2. IF close = "]" THEN Balanced(Named(x)) ELSE \A k \in 1..Len(Named(x)) : Named(x)[k] # close
      BY <1>3
    <3>3. Follows(m + Len(Named(x)), close)
      BY <3>1
    <3>4. EndOf(r, close) = IF m + Len(Named(x)) < Len(line) THEN m + Len(Named(x)) ELSE Len(line)
      BY <1>3, <1>6, <2>1, <3>2, <3>3, EndIs
    <3> QED BY <3>1, <3>4
  <2>4. CASE ~ (q < Len(line))
    <3>1. Dead(s)
      BY <1>1, <2>1, <2>2, <2>3, <2>4, LocalizedDead
    <3>2. Len(line) < q + 1
      BY <1>1, <1>2, <2>4
    <3> QED BY <1>5, <3>1, <3>2
  <2>5. CASE q < Len(line)
    <3> DEFINE j == Jump(r, q)
               last == Expect(j, close)
               a == q + 1
               y == NamedId(last, m, a, a)
               w == Put(y, f)
               b == q - 1
    <3>1. Good(j, q, e, ps, ss)
      BY <1>6, JumpFacts DEF Good
    <3>2. Good(last, a, e, ps, ss) /\ a <= Len(line) /\ a \in Nat /\ m <= a
      <4>1. On(j, q, e, ps, ss)
        BY <1>1, <1>2, <2>5, <3>1 DEF On
      <4>2. a <= Len(line) /\ a \in Nat /\ m <= a
        BY <1>1, <1>2, <2>5
      <4> HIDE DEF j
      <4>3. OnS(last, q + 1, e, ps, ss)
        BY <1>1, <1>2, <4>1, ExpectOn
      <4> QED BY <4>2, <4>3 DEF OnS
    <3>3. s = Jump(w, last.at) /\ last.at = a
      <4>1. s = Jump(Put(NamedId(last, m, last.at, last.at), f), last.at)
        BY <2>1, <2>2, <2>3, <2>5 DEF LocalizedFrom
      <4>2. last.at = a
        BY <3>2 DEF Good
      <4> QED BY <4>1, <4>2
    <3> HIDE DEF last, j
    <3>4. Good(w, b, e2, ps, ss2)
      <4>1. b < a /\ b \in Nat
        BY <1>1, <1>2, <2>5
      <4>2. IsBrace(b, m, x)
        BY <1>2
      <4> HIDE DEF a, b
      <4> QED BY <3>2, <4>1, <4>2, NameBefore
    <3> HIDE DEF w, e2, ss2
    <3>5. Good(s, a, e2, ps, ss2)
      BY <3>3, <3>4, JumpFacts DEF Good
    <3> QED BY <3>2, <3>5 DEF OnS, e2, ss2
  <2> QED BY <2>4, <2>5
<1>7. CASE Len(line) < m /\ Dead(r)
  <2>1. Dead(s)
    BY <1>1, <1>7, LocalizedDead
  <2>2. Len(line) < q + 1
    BY <1>1, <1>2, <1>7
  <2> QED BY <1>5, <2>1, <2>2
<1>8. CASE Len(line) < m /\ IsReader(r) /\ r.ok = TRUE /\ r.at = Len(line)
  <2>1. At(r) # close
    BY <1>1, <1>8, AtEnd
  <2>2. EndOf(r, close) = Len(line)
    BY <1>8, NothingFound DEF EndOf
  <2>3. Dead(s)
    BY <1>1, <1>8, <2>1, <2>2, LocalizedDead
  <2>4. Len(line) < q + 1
    BY <1>1, <1>2, <1>8
  <2> QED BY <1>5, <2>3, <2>4
<1> QED BY <1>6, <1>7, <1>8, OnCases

\* read_localized_string, with the name at once or behind a space.
LEMMA LocalizedOn ==
    ASSUME line \in Words, NEW r, NEW p \in Nat, NEW e, NEW ps, NEW ss, NEW x, NEW f,
           NEW open, NEW close, NEW m \in Nat, NEW q,
           On(r, p, e, ps, ss), Follows(p, open), open # "end",
           m = p + 1 \/ (m = p + 2 /\ Follows(p + 1, Space)),
           NameOk(x.name), IsNumber(x.id, IdValues), Stands(m, Named(x)),
           IsEnd(q, m, x), Follows(q, close),
           close = "]" \/ (close = ":" /\ NoColon(x.name))
    PROVE  OnS(ReadLocalized(r, open, close, f), q + 1, [e EXCEPT ![f] = x.id], ps,
               SetString(ss, x.id, x.name))
<1> DEFINE a == Expect(r, open)
           b == SkipSpaces(a)
           c == x.name[1]
<1>1. OnS(a, p + 1, e, ps, ss)
  BY ExpectOn
<1>2. Follows(m, c) /\ c # Space
  BY NamedEnds DEF NameOk
<1> HIDE DEF a, c
<1>3. On(b, m, e, ps, ss)
  <2>1. CASE m = p + 1
    <3>1. On(a, m, e, ps, ss)
      BY <1>1, <2>1, StrictOn
    <3> QED BY <1>2, <3>1, NoSpaceOn
  <2>2. CASE m = p + 2 /\ Follows(p + 1, Space)
    <3> DEFINE k == p + 1
    <3>1. On(a, k, e, ps, ss) /\ Follows(k, Space) /\ k \in Nat /\ k + 1 = m
      BY <1>1, <2>2, StrictOn
    <3> HIDE DEF k, b
    <3>2. On(SkipSpaces(a), k + 1, e, ps, ss)
      BY <1>2, <3>1, OneSpaceOn
    <3> QED BY <3>1, <3>2 DEF b
  <2> QED BY <2>1, <2>2
<1>4. ReadLocalized(r, open, close, f) = LocalizedFrom(b, close, f)
  BY LocalizedParts DEF a
<1> HIDE DEF b
<1>5. OnS(LocalizedFrom(b, close, f), q + 1, [e EXCEPT ![f] = x.id], ps,
          SetString(ss, x.id, x.name))
  BY <1>3, LocalizedNameOn
<1> QED BY <1>4, <1>5

\* An empty block.
LEMMA EmptyLocalizedOn ==
    ASSUME line \in Words, NEW r, NEW p \in Nat, NEW e, NEW ps, NEW ss, NEW f,
           On(r, p, e, ps, ss), Follows(p, "["), Follows(p + 1, "]")
    PROVE  OnS(ReadLocalized(r, "[", "]", f), p + 2, e, ps, ss)
<1> DEFINE a == Expect(r, "[")
           b == SkipSpaces(a)
           k == p + 1
           s == LocalizedFrom(b, "]", f)
<1>1. Len(line) \in Nat /\ k \in Nat /\ p + 2 = k + 1 /\ "]" # Space
  <2>1. "]" # Space
    BY SpaceIsNone
  <2> QED BY <2>1, LineLength
<1>2. OnS(b, k, e, ps, ss) /\ Follows(k, "]")
  <2>1. OnS(a, k, e, ps, ss) /\ Follows(k, "]")
    BY ExpectOn
  <2> HIDE DEF a, k
  <2> QED BY <1>1, <2>1, NoSpaceOn DEF k
<1>3. ReadLocalized(r, "[", "]", f) = s
  BY LocalizedParts
<1> HIDE DEF b, k
<1>4. OnS(s, k + 1, e, ps, ss)
  <2>1. CASE k < Len(line)
    <3>1. Good(b, k, e, ps, ss)
      BY <1>1, <1>2, <2>1 DEF OnS
    <3>2. At(b) = "]"
      BY <1>2, <2>1, <3>1 DEF At, Follows, Good
    <3>3. s = Step(b)
      BY <3>2 DEF LocalizedFrom
    <3>4. k + 1 <= Len(line) /\ k \in Nat
      BY <1>1, <2>1 DEF k
    <3>5. Good(s, k + 1, e, ps, ss)
      BY <3>1, <3>3, <3>4, StepOn
    <3> QED BY <3>4, <3>5 DEF OnS
  <2>2. CASE ~ (k < Len(line))
    <3>1. ~ (k + 1 <= Len(line)) /\ (k <= Len(line) => k = Len(line))
      BY <1>1, <2>2 DEF k
    <3>2. Dead(b) \/ (IsReader(b) /\ At(b) # "]" /\ EndOf(b, "]") = Len(line))
      <4>1. CASE k <= Len(line)
        <5>1. IsReader(b) /\ b.at = Len(line)
          BY <1>2, <3>1, <4>1 DEF OnS, Good
        <5> QED BY <5>1, AtEnd, NothingFound DEF EndOf
      <4>2. CASE ~ (k <= Len(line))
        BY <1>2, <4>2 DEF OnS
      <4> QED BY <4>1, <4>2
    <3>3. Dead(s)
      BY <3>2, LocalizedDead
    <3> QED BY <3>1, <3>3 DEF OnS
  <2> QED BY <2>1, <2>2
<1>5. k + 1 = p + 2
  BY <1>1 DEF k
<1> QED BY <1>3, <1>4, <1>5

\* Three texts one behind the other.
LEMMA ThreeTexts ==
    ASSUME line \in Words, NEW u \in Words, NEW v \in Words, NEW w \in Words
    PROVE  /\ (u \o v) \o w \in Words /\ Len((u \o v) \o w) = Len(u) + Len(v) + Len(w)
           /\ Len(u) \in Nat /\ Len(v) \in Nat /\ Len(w) \in Nat
           /\ \A p \in Nat :
                 Stands(p, (u \o v) \o w) <=>
                    /\ Stands(p, u) /\ Stands(p + Len(u), v)
                    /\ Stands(p + Len(u) + Len(v), w)
<1> DEFINE a == u \o v
           b == a \o w
<1>1. /\ a \in Words /\ Len(a) = Len(u) + Len(v) /\ Len(u) \in Nat /\ Len(v) \in Nat
  BY TextConcat
<1>2. ASSUME NEW p \in Nat PROVE Stands(p, a) <=> Stands(p, u) /\ Stands(p + Len(u), v)
  BY StandsConcat
<1> HIDE DEF a
<1>3. b \in Words /\ Len(b) = Len(a) + Len(w) /\ Len(w) \in Nat
  BY <1>1, TextConcat
<1>4. ASSUME NEW p \in Nat PROVE Stands(p, b) <=> Stands(p, a) /\ Stands(p + Len(a), w)
  BY <1>1, StandsConcat
<1> HIDE DEF b
<1>5. Len(b) = Len(u) + Len(v) + Len(w)
  BY <1>1, <1>3
<1>6. ASSUME NEW p \in Nat
      PROVE  Stands(p, b) <=> /\ Stands(p, u) /\ Stands(p + Len(u), v)
                              /\ Stands(p + Len(u) + Len(v), w)
  <2>1. p + Len(a) = p + Len(u) + Len(v)
    BY <1>1
  <2>2. Stands(p + Len(a), w) <=> Stands(p + Len(u) + Len(v), w)
    BY <2>1
  <2> QED BY <1>2, <1>4, <2>2
<1> QED BY <1>1, <1>3, <1>5, <1>6 DEF a, b

\* Five texts one behind the other.
LEMMA FiveTexts ==
    ASSUME line \in Words, NEW u \in Words, NEW v \in Words, NEW w \in Words, NEW y \in Words,
           NEW z \in Words
    PROVE  LET t == (((u \o v) \o w) \o y) \o z
           IN  /\ t \in Words /\ Len(t) = Len(u) + Len(v) + Len(w) + Len(y) + Len(z)
               /\ Len(u) \in Nat /\ Len(v) \in Nat /\ Len(w) \in Nat /\ Len(y) \in Nat
               /\ Len(z) \in Nat
               /\ \A p \in Nat :
                     Stands(p, t) <=>
                        /\ Stands(p, u) /\ Stands(p + Len(u), v)
                        /\ Stands(p + Len(u) + Len(v), w)
                        /\ Stands(p + Len(u) + Len(v) + Len(w), y)
                        /\ Stands(p + Len(u) + Len(v) + Len(w) + Len(y), z)
<1> DEFINE a == (u \o v) \o w
           b == (a \o y) \o z
<1>1. /\ a \in Words /\ Len(a) = Len(u) + Len(v) + Len(w)
      /\ Len(u) \in Nat /\ Len(v) \in Nat /\ Len(w) \in Nat
  BY ThreeTexts
<1>2. ASSUME NEW p \in Nat
      PROVE  Stands(p, a) <=> /\ Stands(p, u) /\ Stands(p + Len(u), v)
                              /\ Stands(p + Len(u) + Len(v), w)
  BY ThreeTexts
<1> HIDE DEF a
<1>3. b \in Words /\ Len(b) = Len(a) + Len(y) + Len(z) /\ Len(y) \in Nat /\ Len(z) \in Nat
  <2>1. a \in Words /\ y \in Words /\ z \in Words
    BY <1>1
  <2> QED BY <2>1, ThreeTexts
<1>4. ASSUME NEW p \in Nat
      PROVE  Stands(p, b) <=> /\ Stands(p, a) /\ Stands(p + Len(a), y)
                              /\ Stands(p + Len(a) + Len(y), z)
  BY <1>1, ThreeTexts
<1> HIDE DEF b
<1>5. Len(b) = Len(u) + Len(v) + Len(w) + Len(y) + Len(z)
  BY <1>1, <1>3
<1>6. ASSUME NEW p \in Nat
      PROVE  Stands(p, b) <=> /\ Stands(p, u) /\ Stands(p + Len(u), v)
                              /\ Stands(p + Len(u) + Len(v), w)
                              /\ Stands(p + Len(u) + Len(v) + Len(w), y)
                              /\ Stands(p + Len(u) + Len(v) + Len(w) + Len(y), z)
  <2>1. /\ p + Len(a) = p + Len(u) + Len(v) + Len(w)
        /\ p + Len(a) + Len(y) = p + Len(u) + Len(v) + Len(w) + Len(y)
    BY <1>1, <1>3
  <2>2. /\ Stands(p + Len(a), y) <=> Stands(p + Len(u) + Len(v) + Len(w), y)
        /\ Stands(p + Len(a) + Len(y), z) <=> Stands(p + Len(u) + Len(v) + Len(w) + Len(y), z)
    BY <2>1
  <2> QED BY <1>2, <1>4, <2>2
<1> QED BY <1>1, <1>3, <1>5, <1>6 DEF a, b

\* One character, and two.
LEMMA OneText ==
    ASSUME line \in Words, NEW c \in Char
    PROVE  /\ <<c>> \in Words /\ Len(<<c>>) = 1
           /\ \A p \in Nat : Stands(p, <<c>>) <=> Follows(p, c)
BY SmallWords, NextOne

\* Two characters.
LEMMA TwoText ==
    ASSUME line \in Words, NEW c \in Char, NEW d \in Char
    PROVE  /\ <<c, d>> \in Words /\ Len(<<c, d>>) = 2
           /\ \A p \in Nat : Stands(p, <<c, d>>) <=> Follows(p, c) /\ Follows(p + 1, d)
<1> DEFINE b == <<c, d>>
<1>1. b \in Words /\ Len(b) = 2 /\ b[1] = c /\ b[2] = d
  BY SmallWords
<1> HIDE DEF b
<1>2. ASSUME NEW p \in Nat PROVE Stands(p, b) <=> Follows(p, c) /\ Follows(p + 1, d)
  <2>1. \A k \in 1..2 : k = 1 \/ k = 2
    OBVIOUS
  <2>2. 1 \in 1..2 /\ 2 \in 1..2 /\ Len(line) \in Nat /\ p + 2 = p + 1 + 1
    BY LineLength
  <2>3. Stands(p, b) <=> /\ p + 1 <= Len(line) => line[p + 1] = c
                         /\ p + 2 <= Len(line) => line[p + 2] = d
    BY <1>1, <2>1, <2>2 DEF Stands
  <2>4. (p + 1 <= Len(line) <=> p < Len(line)) /\ (p + 2 <= Len(line) <=> p + 1 < Len(line))
    BY <2>2
  <2> QED BY <2>2, <2>3, <2>4 DEF Follows
<1> QED BY <1>1, <1>2 DEF b
-----------------------------------------------------------------------------
\* The time.

\* The parts of the time.
LEMMA TimeText ==
    ASSUME line \in Words, NEW t, \A i \in 1..4 : t[i] \in Nat
    PROVE  \E a, b, c, d \in Nat :
              /\ \A i \in 1..4 : IsDigits(Decimal(t[i])) /\ Len(Decimal(t[i])) \in Nat \ {0}
              /\ a = 2 + Len(Decimal(t[1])) /\ b = a + 1 + Len(Decimal(t[2]))
              /\ c = b + 1 + Len(Decimal(t[3])) /\ d = c + 1 + Len(Decimal(t[4]))
              /\ Time(t) \in Words /\ Len(Time(t)) = d + 2
              /\ \A p \in Nat : Stands(p, Time(t)) =>
                    /\ Follows(p, "[") /\ Stands(p + 1, <<"0">> \o Decimal(t[1])) /\ Follows(p + a, ":")
                    /\ Stands(p + a + 1, Decimal(t[2])) /\ Follows(p + b, ":")
                    /\ Stands(p + b + 1, Decimal(t[3])) /\ Follows(p + c, ".")
                    /\ Stands(p + c + 1, Decimal(t[4])) /\ Follows(p + d, "]")
                    /\ Follows(p + d + 1, Space)
<1> DEFINE D(i) == Decimal(t[i])
           zero == <<"0">>
           open == <<"[", "0">>
           colon == <<":">>
           dot == <<".">>
           close == <<"]", Space>>
           w == (((open \o D(1)) \o colon) \o D(2)) \o colon
           x == (((w \o D(3)) \o dot) \o D(4)) \o close
           a == 2 + Len(D(1))
           b == a + 1 + Len(D(2))
           c == b + 1 + Len(D(3))
           d == c + 1 + Len(D(4))
<1>1. \A i \in 1..4 : IsDigits(D(i)) /\ D(i) \in Words /\ Len(D(i)) \in Nat \ {0}
  BY IdText
<1>2. /\ open \in Words /\ Len(open) = 2 /\ zero \in Words /\ Len(zero) = 1
      /\ colon \in Words /\ Len(colon) = 1 /\ dot \in Words /\ Len(dot) = 1
      /\ close \in Words /\ Len(close) = 2
  BY MarksAreChars, OneText, TwoText
<1>3. ASSUME NEW p \in Nat
      PROVE  /\ Stands(p, open) <=> Follows(p, "[") /\ Follows(p + 1, "0")
             /\ Stands(p, zero) <=> Follows(p, "0")
             /\ Stands(p, colon) <=> Follows(p, ":")
             /\ Stands(p, dot) <=> Follows(p, ".")
             /\ Stands(p, close) <=> Follows(p, "]") /\ Follows(p + 1, Space)
  BY MarksAreChars, OneText, TwoText
<1>4. Time(t) = x
  BY DEF Time
<1> DEFINE D1 == D(1)
           D2 == D(2)
           D3 == D(3)
           D4 == D(4)
<1>5. /\ D1 \in Words /\ D2 \in Words /\ D3 \in Words /\ D4 \in Words
      /\ Len(D1) \in Nat \ {0} /\ Len(D2) \in Nat \ {0} /\ Len(D3) \in Nat \ {0}
      /\ Len(D4) \in Nat \ {0}
  BY <1>1
<1> HIDE DEF D1, D2, D3, D4, open, zero, colon, dot, close
<1> DEFINE v == (((open \o D1) \o colon) \o D2) \o colon
<1>6. /\ v \in Words /\ Len(v) = Len(open) + Len(D1) + Len(colon) + Len(D2) + Len(colon)
      /\ \A p \in Nat :
            Stands(p, v) <=>
               /\ Stands(p, open) /\ Stands(p + Len(open), D1)
               /\ Stands(p + Len(open) + Len(D1), colon)
               /\ Stands(p + Len(open) + Len(D1) + Len(colon), D2)
               /\ Stands(p + Len(open) + Len(D1) + Len(colon) + Len(D2), colon)
  <2>1. open \in Words /\ D1 \in Words /\ colon \in Words /\ D2 \in Words
    BY <1>2, <1>5
  <2> QED BY <2>1, FiveTexts
<1> HIDE DEF v
<1> DEFINE y == (((v \o D3) \o dot) \o D4) \o close
<1>7. /\ y \in Words /\ Len(y) = Len(v) + Len(D3) + Len(dot) + Len(D4) + Len(close)
      /\ \A p \in Nat :
            Stands(p, y) <=>
               /\ Stands(p, v) /\ Stands(p + Len(v), D3)
               /\ Stands(p + Len(v) + Len(D3), dot)
               /\ Stands(p + Len(v) + Len(D3) + Len(dot), D4)
               /\ Stands(p + Len(v) + Len(D3) + Len(dot) + Len(D4), close)
  <2>1. v \in Words /\ D3 \in Words /\ dot \in Words /\ D4 \in Words /\ close \in Words
    BY <1>2, <1>5, <1>6
  <2> QED BY <2>1, FiveTexts
<1>8. x = y
  BY DEF v, D1, D2, D3, D4
<1> HIDE DEF y
<1> DEFINE a1 == 2 + Len(D1)
           b1 == a1 + 1 + Len(D2)
           c1 == b1 + 1 + Len(D3)
           d1 == c1 + 1 + Len(D4)
<1>9. /\ a1 \in Nat /\ b1 \in Nat /\ c1 \in Nat /\ d1 \in Nat /\ Len(y) = d1 + 2
      /\ Len(v) = b1 + 1
  BY <1>2, <1>5, <1>6, <1>7
<1>10. ASSUME NEW p \in Nat, Stands(p, y)
       PROVE  /\ Follows(p, "[") /\ Stands(p + 1, zero \o D1) /\ Follows(p + a1, ":")
              /\ Stands(p + a1 + 1, D2) /\ Follows(p + b1, ":")
              /\ Stands(p + b1 + 1, D3) /\ Follows(p + c1, ".")
              /\ Stands(p + c1 + 1, D4) /\ Follows(p + d1, "]")
              /\ Follows(p + d1 + 1, Space)
  <2>1. /\ p + Len(v) = p + b1 + 1 /\ p + Len(v) + Len(D3) = p + c1
        /\ p + Len(v) + Len(D3) + Len(dot) = p + c1 + 1
        /\ p + Len(v) + Len(D3) + Len(dot) + Len(D4) = p + d1
        /\ p + Len(open) = p + 2 /\ p + Len(open) + Len(D1) = p + a1
        /\ p + Len(open) + Len(D1) + Len(colon) = p + a1 + 1
        /\ p + Len(open) + Len(D1) + Len(colon) + Len(D2) = p + b1
        /\ p + a1 \in Nat /\ p + b1 \in Nat /\ p + c1 \in Nat /\ p + d1 \in Nat
        /\ p + 1 \in Nat /\ p + 1 + Len(zero) = p + 2
    BY <1>2, <1>5, <1>9
  <2> HIDE DEF a1, b1, c1, d1
  <2>2. /\ Stands(p, v) /\ Stands(p + b1 + 1, D3) /\ Stands(p + c1, dot)
        /\ Stands(p + c1 + 1, D4) /\ Stands(p + d1, close)
    BY <1>7, <1>10, <2>1
  <2>3. /\ Stands(p, open) /\ Stands(p + 2, D1) /\ Stands(p + a1, colon)
        /\ Stands(p + a1 + 1, D2) /\ Stands(p + b1, colon)
    BY <1>6, <2>1, <2>2
  <2>4. Follows(p, "[") /\ Follows(p + 1, "0") /\ Stands(p + 1, zero)
    BY <1>3, <2>1, <2>3
  <2>5. Stands(p + 1, zero \o D1)
    <3>1. Stands(p + 1, zero) /\ Stands(p + 1 + Len(zero), D1)
      BY <2>1, <2>3, <2>4
    <3> QED BY <1>2, <1>5, <2>1, <3>1, StandsConcat
  <2>6. Follows(p + a1, ":") /\ Follows(p + b1, ":")
    BY <1>3, <2>1, <2>3
  <2>7. Follows(p + c1, ".") /\ Follows(p + d1, "]") /\ Follows(p + d1 + 1, Space)
    BY <1>3, <2>1, <2>2
  <2> QED BY <2>2, <2>3, <2>4, <2>5, <2>6, <2>7
<1> HIDE DEF a1, b1, c1, d1
<1>11. /\ a1 = 2 + Len(D1) /\ b1 = a1 + 1 + Len(D2) /\ c1 = b1 + 1 + Len(D3)
       /\ d1 = c1 + 1 + Len(D4) /\ a1 \in Nat /\ b1 \in Nat /\ c1 \in Nat /\ d1 \in Nat
  BY <1>9 DEF a1, b1, c1, d1
<1>12. Time(t) \in Words /\ Len(Time(t)) = d1 + 2
  BY <1>4, <1>7, <1>8, <1>9 DEF d1
<1>13. \A p \in Nat : Stands(p, Time(t)) => Stands(p, y)
  BY <1>4, <1>8
<1> HIDE DEF x
<1> QED BY <1>1, <1>10, <1>11, <1>12, <1>13 DEF D1, D2, D3, D4, zero

\* Where n characters end behind the one at k.
Ends(j, k, n) == j = k + 1 + n

\* A number behind a character.
LEMMA NumberBehind ==
    ASSUME line \in Words, NEW r, NEW k \in Nat, NEW e, NEW ps, NEW ss, NEW open, NEW w, NEW V,
           NEW j \in Nat, NEW c,
           On(r, k, e, ps, ss), Follows(k, open), open # "end", IsDigits(w), Stands(k + 1, w),
           Ends(j, k, Len(w)), Follows(j, c), c \notin ToSet(Digits)
    PROVE  OnWith(Number(Expect(r, open), V), j, e, ps, ss, Result(w, V) \div 10)
<1> DEFINE a == Expect(r, open)
           b == k + 1
<1>1. OnS(a, b, e, ps, ss) /\ b \in Nat /\ Stands(b, w)
  BY ExpectOn
<1>2. b + Len(w) = j
  BY DEF Ends
<1> HIDE DEF a, b
<1>3. On(a, b, e, ps, ss) /\ b \in Nat /\ Stands(b, w) /\ Follows(b + Len(w), c)
  BY <1>1, <1>2, StrictOn
<1>4. /\ On(Number(a, V), b + Len(w), e, ps, ss)
      /\ b + Len(w) <= Len(line) => Number(a, V).value = Result(w, V) \div 10
  BY <1>3, NumberOn
<1> QED BY <1>2, <1>4 DEF OnWith, a

\* A value is replaced.
LEMMA ValueFacts ==
    ASSUME NEW r, NEW v, IsReader(r)
    PROVE  LET s == [r EXCEPT !.value = v]
           IN  /\ IsReader(s) /\ s.at = r.at /\ s.ok = r.ok /\ s.value = v /\ s.entry = r.entry
               /\ s.players = r.players /\ s.strings = r.strings
<1> DEFINE x == [at |-> r.at, ok |-> r.ok, value |-> v, entry |-> r.entry,
                 players |-> r.players, strings |-> r.strings]
<1>1. [r EXCEPT !.value = v] = x
  BY DEF IsReader
<1>2. IsReader(x) /\ x.at = r.at /\ x.ok = r.ok /\ x.value = v /\ x.entry = r.entry
      /\ x.players = r.players /\ x.strings = r.strings
  BY DEF IsReader
<1> HIDE DEF x
<1> QED BY <1>1, <1>2

\* Another value keeps a reader on the format.
LEMMA ValueOn ==
    ASSUME NEW r, NEW p, NEW e, NEW ps, NEW ss, NEW v, On(r, p, e, ps, ss)
    PROVE  On([r EXCEPT !.value = v], p, e, ps, ss) /\ [r EXCEPT !.value = v].value = v
<1> DEFINE s == [r EXCEPT !.value = v]
<1>1. IsReader(r)
  BY DEF On, Good, Lost
<1>2. /\ IsReader(s) /\ s.at = r.at /\ s.ok = r.ok /\ s.value = v /\ s.entry = r.entry
      /\ s.players = r.players /\ s.strings = r.strings
  BY <1>1, ValueFacts
<1> HIDE DEF s
<1>3. On(s, p, e, ps, ss) /\ s.value = v
  BY <1>2 DEF On, Good, Lost
<1> QED BY <1>3 DEF s

\* The time stamp of an entry.
Clock(t) == ((t[1] * 60 + t[2]) * 60 + t[3]) * 1000 + t[4]

\* The time of the format is read.
LEMMA TimeOn ==
    ASSUME line \in Words, NEW r, NEW p \in Nat, NEW e, NEW ps, NEW ss, NEW t, NEW next,
           \A i \in 1..4 : IsNumber(t[i], IntValues),
           On(r, p, e, ps, ss), Stands(p, Time(t)),
           NEW q, q = p + Len(Time(t)), Follows(q, next), next # Space
    PROVE  On(SkipSpaces(ReadTime(r)), q, [e EXCEPT !["time"] = Clock(t)], ps, ss)
<1> DEFINE D1 == Decimal(t[1])
           D2 == Decimal(t[2])
           D3 == Decimal(t[3])
           D4 == Decimal(t[4])
           w1 == <<"0">> \o D1
           hours == Number(Expect(r, "["), IntValues)
           minutes == Number(Expect(hours, ":"), IntValues)
           seconds == Number(Expect(minutes, ":"), IntValues)
           millis == Number(Expect(seconds, "."), IntValues)
           time == ((hours.value * 60 + minutes.value) * 60 + seconds.value) * 1000 + millis.value
           v == [millis EXCEPT !.value = time]
           w == Put(v, "time")
           e2 == [e EXCEPT !["time"] = Clock(t)]
<1>1. \A i \in 1..4 : t[i] \in Nat
  BY DEF IsNumber
<1>2. PICK a, b, c, d \in Nat :
         /\ \A i \in 1..4 : IsDigits(Decimal(t[i])) /\ Len(Decimal(t[i])) \in Nat \ {0}
         /\ a = 2 + Len(Decimal(t[1])) /\ b = a + 1 + Len(Decimal(t[2]))
         /\ c = b + 1 + Len(Decimal(t[3])) /\ d = c + 1 + Len(Decimal(t[4]))
         /\ Time(t) \in Words /\ Len(Time(t)) = d + 2
         /\ \A k \in Nat : Stands(k, Time(t)) =>
               /\ Follows(k, "[") /\ Stands(k + 1, <<"0">> \o Decimal(t[1])) /\ Follows(k + a, ":")
               /\ Stands(k + a + 1, Decimal(t[2])) /\ Follows(k + b, ":")
               /\ Stands(k + b + 1, Decimal(t[3])) /\ Follows(k + c, ".")
               /\ Stands(k + c + 1, Decimal(t[4])) /\ Follows(k + d, "]")
               /\ Follows(k + d + 1, Space)
  BY <1>1, TimeText
<1>3. /\ Follows(p, "[") /\ Stands(p + 1, w1) /\ Follows(p + a, ":")
      /\ Stands(p + a + 1, D2) /\ Follows(p + b, ":")
      /\ Stands(p + b + 1, D3) /\ Follows(p + c, ".")
      /\ Stands(p + c + 1, D4) /\ Follows(p + d, "]") /\ Follows(p + d + 1, Space)
  BY <1>2
<1>4. /\ IsDigits(D1) /\ IsDigits(D2) /\ IsDigits(D3) /\ IsDigits(D4)
      /\ Len(D1) \in Nat /\ Len(D2) \in Nat /\ Len(D3) \in Nat /\ Len(D4) \in Nat
      /\ D1 \in Words
  BY <1>2 DEF IsDigits
<1>5. IntValues \in Nat \ {0}
  BY ValuesAssumption
<1>6. IsDigits(w1) /\ Result(w1, IntValues) = Result(D1, IntValues) /\ Len(w1) = 1 + Len(D1)
  <2>1. "0" \in Char
    BY MarksAreChars
  <2>2. <<"0">> \in Words /\ Len(<<"0">>) = 1
    BY <2>1, SmallWords
  <2> HIDE DEF D1
  <2>3. Len(w1) = Len(<<"0">>) + Len(D1)
    BY <1>4, <2>2, TextConcat
  <2> QED BY <1>4, <1>5, <2>2, <2>3, LeadingZero
<1>7. /\ Result(D1, IntValues) \div 10 = t[1] /\ Result(D2, IntValues) \div 10 = t[2]
      /\ Result(D3, IntValues) \div 10 = t[3] /\ Result(D4, IntValues) \div 10 = t[4]
  <2>1. ASSUME NEW i \in 1..4 PROVE Result(Decimal(t[i]), IntValues) \div 10 = t[i]
    <3>1. t[i] \in Nat /\ t[i] * 10 < IntValues
      BY DEF IsNumber
    <3>2. Decimal(t[i]) = NatDecimal(t[i])
      BY <3>1, IdText
    <3> QED BY <1>5, <3>1, <3>2, NumberIsRead
  <2> QED BY <2>1
<1>8. /\ Ends(p + a, p, Len(w1)) /\ Ends(p + b, p + a, Len(D2))
      /\ Ends(p + c, p + b, Len(D3)) /\ Ends(p + d, p + c, Len(D4))
      /\ p + a \in Nat /\ p + b \in Nat /\ p + c \in Nat /\ p + d \in Nat
  <2>1. /\ a = 2 + Len(D1) /\ b = a + 1 + Len(D2)
        /\ c = b + 1 + Len(D3) /\ d = c + 1 + Len(D4)
    BY <1>2
  <2> HIDE DEF D1, D2, D3, D4, w1
  <2> QED BY <1>4, <1>6, <2>1 DEF Ends
<1>9. /\ ":" \notin ToSet(Digits) /\ "." \notin ToSet(Digits) /\ "]" \notin ToSet(Digits)
      /\ ":" # "end" /\ "[" # "end" /\ "." # "end" /\ "]" # "end"
  BY NotDigits
<1> HIDE DEF D1, D2, D3, D4, w1
<1>10. OnWith(hours, p + a, e, ps, ss, t[1])
  BY <1>3, <1>6, <1>7, <1>8, <1>9, NumberBehind
<1> HIDE DEF hours
<1>11. OnWith(minutes, p + b, e, ps, ss, t[2])
  <2>1. /\ On(hours, p + a, e, ps, ss) /\ p + a \in Nat /\ p + b \in Nat
        /\ Follows(p + a, ":") /\ Stands(p + a + 1, D2) /\ IsDigits(D2)
        /\ Ends(p + b, p + a, Len(D2)) /\ Follows(p + b, ":")
    BY <1>3, <1>4, <1>8, <1>10 DEF OnWith
  <2>2. OnWith(minutes, p + b, e, ps, ss, Result(D2, IntValues) \div 10)
    BY <1>9, <2>1, NumberBehind
  <2> QED BY <1>7, <2>2
<1> HIDE DEF minutes
<1>12. OnWith(seconds, p + c, e, ps, ss, t[3])
  <2>1. /\ On(minutes, p + b, e, ps, ss) /\ p + b \in Nat /\ p + c \in Nat
        /\ Follows(p + b, ":") /\ Stands(p + b + 1, D3) /\ IsDigits(D3)
        /\ Ends(p + c, p + b, Len(D3)) /\ Follows(p + c, ".")
    BY <1>3, <1>4, <1>8, <1>11 DEF OnWith
  <2>2. OnWith(seconds, p + c, e, ps, ss, Result(D3, IntValues) \div 10)
    BY <1>9, <2>1, NumberBehind
  <2> QED BY <1>7, <2>2
<1> HIDE DEF seconds
<1>13. OnWith(millis, p + d, e, ps, ss, t[4])
  <2>1. /\ On(seconds, p + c, e, ps, ss) /\ p + c \in Nat /\ p + d \in Nat
        /\ Follows(p + c, ".") /\ Stands(p + c + 1, D4) /\ IsDigits(D4)
        /\ Ends(p + d, p + c, Len(D4)) /\ Follows(p + d, "]")
    BY <1>3, <1>4, <1>8, <1>12 DEF OnWith
  <2>2. OnWith(millis, p + d, e, ps, ss, Result(D4, IntValues) \div 10)
    BY <1>9, <2>1, NumberBehind
  <2> QED BY <1>7, <2>2
<1> HIDE DEF millis
<1>14. p + d <= Len(line) => time = Clock(t)
  <2>1. p + d <= Len(line) => /\ p + a <= Len(line) /\ p + b <= Len(line) /\ p + c <= Len(line)
    <3>1. a <= b /\ b <= c /\ c <= d
      <4>1. /\ b = a + 1 + Len(D2) /\ c = b + 1 + Len(D3) /\ d = c + 1 + Len(D4)
        BY <1>2 DEF D2, D3, D4
      <4> QED BY <1>4, <4>1
    <3> QED BY <3>1, LineLength
  <2>2. p + d <= Len(line) => /\ hours.value = t[1] /\ minutes.value = t[2]
                              /\ seconds.value = t[3] /\ millis.value = t[4]
    BY <1>10, <1>11, <1>12, <1>13, <2>1 DEF OnWith
  <2> QED BY <2>2 DEF Clock
<1> HIDE DEF time
<1>15. On(v, p + d, e, ps, ss) /\ v.value = time
  <2>1. On(millis, p + d, e, ps, ss)
    BY <1>13 DEF OnWith
  <2> QED BY <2>1, ValueOn
<1> HIDE DEF v
<1>16. On(w, p + d, e2, ps, ss)
  BY <1>8, <1>14, <1>15, PutOn
<1> HIDE DEF w, e2
<1> DEFINE k == p + d
           z == Expect(w, "]")
<1>17. On(w, k, e2, ps, ss) /\ k \in Nat /\ Follows(k, "]") /\ Follows(k + 1, Space) /\ k + 1 \in Nat
       /\ k + 1 + 1 = q
  BY <1>2, <1>3, <1>8, <1>16
<1> HIDE DEF k
<1>18. OnS(z, k + 1, e2, ps, ss)
  BY <1>9, <1>17, ExpectOn
<1> DEFINE j == k + 1
<1>19. On(z, j, e2, ps, ss) /\ j \in Nat /\ Follows(j, Space) /\ Follows(j + 1, next) /\ j + 1 = q
  BY <1>17, <1>18, StrictOn
<1> HIDE DEF j, z
<1>20. On(SkipSpaces(z), j + 1, e2, ps, ss)
  BY <1>19, OneSpaceOn
<1>21. ReadTime(r) = z
  BY DEF ReadTime, z, w, v, time, millis, seconds, minutes, hours
<1> QED BY <1>19, <1>20, <1>21 DEF e2

EffectParts(p, q1, q2, action, type) ==
    /\ Follows(p, "[") /\ Stands(p + 1, Named(action)) /\ IsEnd(q1, p + 1, action)
    /\ Follows(q1, ":") /\ Follows(q1 + 1, Space)
    /\ Stands(q1 + 2, Named(type)) /\ IsEnd(q2, q1 + 2, type)
    /\ Follows(q2, "]") /\ Follows(q2 + 1, Space)

\* The parts of the effect.
LEMMA EffectText ==
    ASSUME line \in Words, NEW action, NEW type, NameOk(action.name), NameOk(type.name),
           action.id \in Nat, type.id \in Nat
    PROVE  /\ Effect(action, type) \in Words
           /\ \A p \in Nat : Stands(p, Effect(action, type)) =>
                 \E q1, q2 \in Nat : /\ EffectParts(p, q1, q2, action, type)
                                     /\ p + Len(Effect(action, type)) = q2 + 2
<1> DEFINE a == <<"[">>
           b == Named(action)
           c == <<":", Space>>
           d == Named(type)
           z == <<"]", Space>>
           w == (((a \o b) \o c) \o d) \o z
<1>1. a \in Words /\ Len(a) = 1 /\ c \in Words /\ Len(c) = 2 /\ z \in Words /\ Len(z) = 2
  BY MarksAreChars, OneText, TwoText
<1>2. ASSUME NEW p \in Nat
      PROVE  /\ Stands(p, a) <=> Follows(p, "[")
             /\ Stands(p, c) <=> Follows(p, ":") /\ Follows(p + 1, Space)
             /\ Stands(p, z) <=> Follows(p, "]") /\ Follows(p + 1, Space)
  BY MarksAreChars, OneText, TwoText
<1>3. b \in Words /\ d \in Words
  BY NamedChars
<1>4. Effect(action, type) = w
  BY DEF Effect
<1> HIDE DEF a, b, c, d, z
<1>5. /\ w \in Words /\ Len(w) = Len(a) + Len(b) + Len(c) + Len(d) + Len(z)
      /\ Len(b) \in Nat /\ Len(d) \in Nat
      /\ \A p \in Nat :
            Stands(p, w) <=>
               /\ Stands(p, a) /\ Stands(p + Len(a), b)
               /\ Stands(p + Len(a) + Len(b), c)
               /\ Stands(p + Len(a) + Len(b) + Len(c), d)
               /\ Stands(p + Len(a) + Len(b) + Len(c) + Len(d), z)
  <2>1. a \in Words /\ b \in Words /\ c \in Words /\ d \in Words /\ z \in Words
    BY <1>1, <1>3
  <2> QED BY <2>1, FiveTexts
<1> HIDE DEF w
<1>6. ASSUME NEW p \in Nat, Stands(p, w)
      PROVE  \E q1, q2 \in Nat : /\ EffectParts(p, q1, q2, action, type)
                                 /\ p + Len(w) = q2 + 2
  <2> DEFINE q1 == p + 1 + Len(b)
             q2 == q1 + 2 + Len(d)
  <2>1. /\ q1 \in Nat /\ q2 \in Nat /\ p + Len(w) = q2 + 2
        /\ p + Len(a) = p + 1 /\ p + Len(a) + Len(b) = q1
        /\ p + Len(a) + Len(b) + Len(c) = q1 + 2
        /\ p + Len(a) + Len(b) + Len(c) + Len(d) = q2
    BY <1>1, <1>5
  <2>2. IsEnd(q1, p + 1, action) /\ IsEnd(q2, q1 + 2, type)
    BY DEF IsEnd, b, d
  <2> HIDE DEF q1, q2
  <2>3. /\ Stands(p, a) /\ Stands(p + 1, b) /\ Stands(q1, c) /\ Stands(q1 + 2, d) /\ Stands(q2, z)
    BY <1>5, <1>6, <2>1
  <2>4. /\ Follows(p, "[") /\ Follows(q1, ":") /\ Follows(q1 + 1, Space)
        /\ Follows(q2, "]") /\ Follows(q2 + 1, Space)
    BY <1>2, <2>1, <2>3
  <2>5. EffectParts(p, q1, q2, action, type)
    BY <2>2, <2>3, <2>4 DEF EffectParts, b, d
  <2> QED BY <2>1, <2>5
<1> QED BY <1>4, <1>5, <1>6

\* The effect of the format is read: its action and its type.
LEMMA EffectOn ==
    ASSUME line \in Words, NEW r, NEW p \in Nat, NEW e, NEW ps, NEW ss, NEW action, NEW type,
           NEW next, NameOk(action.name), NoColon(action.name), IsNumber(action.id, IdValues),
           NameOk(type.name), IsNumber(type.id, IdValues),
           On(r, p, e, ps, ss), Stands(p, Effect(action, type)),
           NEW q, q = p + Len(Effect(action, type)), Follows(q, next), next # Space
    PROVE  On(SkipSpaces(ReadEffect(r)), q,
              [[e EXCEPT !["effect_action"] = action.id] EXCEPT !["effect_type"] = type.id], ps,
              SetString(SetString(ss, action.id, action.name), type.id, type.name))
<1> DEFINE e1 == [e EXCEPT !["effect_action"] = action.id]
           s1 == SetString(ss, action.id, action.name)
           e2 == [e1 EXCEPT !["effect_type"] = type.id]
           s2 == SetString(s1, type.id, type.name)
           x == ReadLocalized(r, "[", ":", "effect_action")
           j == Jump(x, x.at - 1)
           y == ReadLocalized(j, ":", "]", "effect_type")
           w == ReadEffect(r)
<1>1. action.id \in Nat /\ type.id \in Nat /\ Len(line) \in Nat
  BY LineLength DEF IsNumber
<1>2. PICK q1, q2 \in Nat : EffectParts(p, q1, q2, action, type) /\ q = q2 + 2
  BY <1>1, EffectText
<1> DEFINE m1 == p + 1
           m2 == q1 + 2
<1>3. /\ Follows(p, "[") /\ Stands(m1, Named(action)) /\ IsEnd(q1, m1, action)
      /\ Follows(q1, ":") /\ Follows(q1 + 1, Space)
      /\ Stands(m2, Named(type)) /\ IsEnd(q2, m2, type)
      /\ Follows(q2, "]") /\ Follows(q2 + 1, Space)
      /\ m1 \in Nat /\ m2 \in Nat
  BY <1>2 DEF EffectParts
<1>4. q1 < q2
  <2>1. m2 < q2
    BY <1>3, NamedEnds
  <2> QED BY <2>1
<1>5. m1 = p + 1 /\ m2 = q1 + 2
  OBVIOUS
<1> HIDE DEF m1, m2, e1, s1, e2, s2
<1>6. OnS(x, q1 + 1, e1, ps, s1)
  <2>1. "[" # "end"
    OBVIOUS
  <2>2. OnS(x, q1 + 1, [e EXCEPT !["effect_action"] = action.id], ps, SetString(ss, action.id, action.name))
    BY <1>3, <1>5, <2>1, LocalizedOn
  <2> QED BY <2>2 DEF e1, s1
<1>7. w = IF ~ x.ok THEN x ELSE y
  BY DEF ReadEffect
<1> HIDE DEF x
<1>8. OnS(w, q2 + 1, e2, ps, s2)
  <2>1. CASE q1 + 1 <= Len(line)
    <3>1. Good(x, q1 + 1, e1, ps, s1)
      BY <1>6, <2>1 DEF OnS
    <3>2. Good(j, q1, e1, ps, s1) /\ w = y
      <4>1. x.at - 1 = q1 /\ x.ok = TRUE /\ IsReader(x)
        BY <3>1 DEF Good
      <4> HIDE DEF y
      <4> QED BY <1>7, <3>1, <4>1, JumpFacts DEF Good
    <3>3. On(j, q1, e1, ps, s1)
      <4>1. q1 <= Len(line)
        BY <1>1, <2>1
      <4> QED BY <3>2, <4>1 DEF On
    <3> HIDE DEF j
    <3>4. OnS(y, q2 + 1, [e1 EXCEPT !["effect_type"] = type.id], ps, SetString(s1, type.id, type.name))
      <4>1. ":" # "end"
        OBVIOUS
      <4> QED BY <1>3, <1>5, <3>3, <4>1, LocalizedOn
    <3> QED BY <3>2, <3>4 DEF e2, s2
  <2>2. CASE ~ (q1 + 1 <= Len(line))
    <3>1. Dead(x) /\ w = x
      BY <1>6, <1>7, <2>2 DEF OnS, Dead
    <3>2. ~ (q2 + 1 <= Len(line))
      BY <1>1, <1>4, <2>2
    <3> QED BY <3>1, <3>2 DEF OnS
  <2> QED BY <2>1, <2>2
<1> HIDE DEF w
<1> DEFINE k == q2 + 1
<1>9. On(w, k, e2, ps, s2) /\ k \in Nat /\ Follows(k, Space) /\ k + 1 = q /\ Follows(k + 1, next)
  BY <1>2, <1>3, <1>8, StrictOn
<1> HIDE DEF k
<1>10. On(SkipSpaces(w), k + 1, e2, ps, s2)
  BY <1>9, OneSpaceOn
<1> QED BY <1>9, <1>10 DEF w, e2, s2, e1, s1

-----------------------------------------------------------------------------
(* read_entity_name *)

\* What read_entity_name does behind the bracket.
EndAt(r) == Min({Closing(r.at) + 1, Len(line)})
ColonAt(r) == Find(r.at + 1, EndAt(r), ":")
PlayerAt(r, name) ==
    Put(RegisterName(Step(r), r.at + 1, IF ColonAt(r) = EndAt(r) THEN EndAt(r) - 1 ELSE ColonAt(r)), name)
CompanionAt(r, name, minion) ==
    Put(NamedId(PlayerAt(r, name), ColonAt(r) + 1, Len(line), EndAt(r)), minion)
MobAt(r, name) == Put(NamedId(r, r.at, Len(line), EndAt(r)), name)
NumberAt(r, name) == Number(Expect(SkipSpaces(Expect(MobAt(r, name), RBrace)), ":"), IdValues)
EntityFrom(r, name, minion, id) ==
    IF At(r) = "]" THEN Step(r)
    ELSE Jump(IF At(r) # "@" THEN Put(NumberAt(r, name), id)
              ELSE IF ColonAt(r) = EndAt(r) THEN PlayerAt(r, name) ELSE CompanionAt(r, name, minion),
              EndAt(r))

\* read_entity_name, behind the bracket.
LEMMA EntityParts ==
    ASSUME NEW r0, NEW name, NEW minion, NEW id
    PROVE  ReadEntity(r0, name, minion, id) = EntityFrom(Expect(r0, "["), name, minion, id)
BY DEF ReadEntity, EntityFrom, NumberAt, MobAt, CompanionAt, PlayerAt, ColonAt, EndAt

\* The number of a mob does not bring a failed reader back.
LEMMA DeadNumberAt ==
    ASSUME NEW r, NEW name, NEW id, Dead(MobAt(r, name))
    PROVE  Dead(Put(NumberAt(r, name), id))
<1> DEFINE a == Expect(MobAt(r, name), RBrace)
           b == SkipSpaces(a)
           c == Expect(b, ":")
           d == Number(c, IdValues)
<1>1. Dead(a)
  BY DeadOps
<1>2. Dead(b)
  <2> HIDE DEF a
  <2> QED BY <1>1, DeadOps
<1>3. Dead(c)
  <2> HIDE DEF b
  <2> QED BY <1>2, DeadOps
<1>4. Dead(d)
  <2> HIDE DEF c
  <2> QED BY <1>3, DeadOps
<1>5. NumberAt(r, name) = d
  BY DEF NumberAt
<1> HIDE DEF d
<1> QED BY <1>4, <1>5, DeadOps

\* Nor does an entity.
LEMMA DeadEntity ==
    ASSUME NEW r, NEW name, NEW minion, NEW id, Dead(r)
    PROVE  Dead(EntityFrom(r, name, minion, id))
<1>1. Dead(Step(r))
  BY DeadOps
<1>2. Dead(PlayerAt(r, name))
  <2> DEFINE a == Step(r)
             b == RegisterName(a, r.at + 1, IF ColonAt(r) = EndAt(r) THEN EndAt(r) - 1 ELSE ColonAt(r))
  <2>1. b = a
    BY <1>1, DeadOps
  <2>2. Dead(Put(a, name))
    BY <1>1, DeadOps
  <2> QED BY <2>1, <2>2 DEF PlayerAt
<1>3. Dead(CompanionAt(r, name, minion))
  <2>1. Dead(NamedId(PlayerAt(r, name), ColonAt(r) + 1, Len(line), EndAt(r)))
    BY <1>2, DeadNamedId
  <2> QED BY <2>1, DeadOps DEF CompanionAt
<1>4. Dead(Put(NumberAt(r, name), id))
  <2>1. Dead(NamedId(r, r.at, Len(line), EndAt(r)))
    BY DeadNamedId
  <2>2. Dead(MobAt(r, name))
    BY <2>1, DeadOps DEF MobAt
  <2> QED BY <2>2, DeadNumberAt
<1> DEFINE y == IF At(r) # "@" THEN Put(NumberAt(r, name), id)
                ELSE IF ColonAt(r) = EndAt(r) THEN PlayerAt(r, name) ELSE CompanionAt(r, name, minion)
<1>5. Dead(y)
  BY <1>2, <1>3, <1>4
<1>6. EntityFrom(r, name, minion, id) = IF At(r) = "]" THEN Step(r) ELSE Jump(y, EndAt(r))
  BY DEF EntityFrom
<1> HIDE DEF y
<1> QED BY <1>1, <1>5, <1>6, DeadOps

\* The bracket that closes an entity is found.
LEMMA EndAtIs ==
    ASSUME line \in Words, NEW r, NEW s \in Nat, NEW u \in Words, NEW q,
           r.at = s, s <= Len(line), Balanced(u), Stands(s, u), q = s + Len(u), Follows(q, "]")
    PROVE  EndAt(r) = IF q + 1 <= Len(line) THEN q + 1 ELSE Len(line)
<1>1. Len(line) \in Nat /\ Len(u) \in Nat /\ s \in 0..Len(line) /\ q \in Nat
  <2>1. Len(line) \in Nat /\ Len(u) \in Nat
    BY LineLength, LenProperties DEF Words
  <2> QED BY <2>1
<1>2. q < Len(line) => line[q + 1] = "]"
  BY DEF Follows
<1>3. Closing(s) = IF q < Len(line) THEN q ELSE Len(line)
  BY <1>1, <1>2, ClosingFacts
<1> DEFINE a == Closing(s) + 1
           b == Len(line)
           m == IF q + 1 <= Len(line) THEN q + 1 ELSE Len(line)
<1>4. /\ {a, b} \in SUBSET Nat /\ m \in {a, b} /\ \A k \in {a, b} : m <= k
  BY <1>1, <1>3
<1>5. EndAt(r) = Min({a, b})
  BY DEF EndAt
<1> HIDE DEF a, b, m
<1>6. Min({a, b}) = m
  BY <1>4, MinIs
<1> QED BY <1>5, <1>6 DEF m

\* The line ends behind the bracket.
LEMMA CutEntity ==
    ASSUME line \in Words, NEW r, NEW name, NEW minion, NEW id, IsReader(r), r.at = Len(line)
    PROVE  Dead(EntityFrom(r, name, minion, id))
<1> DEFINE z == Len(line)
           w == << >>
<1>1. z \in Nat
  BY LineLength
<1>2. At(r) # "]" /\ At(r) # "@"
  BY AtEnd
<1>3. EndAt(r) = z
  <2>1. w \in Words /\ Len(w) = 0
    BY SmallWords
  <2> HIDE DEF w
  <2>2. Balanced(w) /\ Stands(z, w) /\ z = z + Len(w) /\ Follows(z, "]")
    BY <1>1, <2>1, BalancedPlain DEF Stands, Follows
  <2>3. EndAt(r) = IF z + 1 <= Len(line) THEN z + 1 ELSE Len(line)
    <3> HIDE DEF z
    <3>1. z \in Nat /\ r.at = z /\ z <= Len(line)
      BY <1>1 DEF z
    <3> QED BY <2>1, <2>2, <3>1, EndAtIs
  <2> QED BY <1>1, <2>3
<1>4. Dead(MobAt(r, name))
  <2>1. Dead(NamedId(r, z, z, z))
    BY NoNamedId
  <2>2. MobAt(r, name) = Put(NamedId(r, z, z, z), name)
    BY <1>3 DEF MobAt
  <2> HIDE DEF z
  <2> QED BY <2>1, <2>2, DeadOps
<1>5. Dead(Put(NumberAt(r, name), id))
  BY <1>4, DeadNumberAt
<1>6. EntityFrom(r, name, minion, id) = Jump(Put(NumberAt(r, name), id), EndAt(r))
  BY <1>2 DEF EntityFrom
<1> QED BY <1>5, <1>6, DeadOps

\* The parser goes on behind the closing bracket.
LEMMA JumpOn ==
    ASSUME line \in Words, NEW y, NEW b \in Nat, NEW q \in Nat, NEW e, NEW ps, NEW ss, NEW end,
           On(y, b, e, ps, ss), b <= q, end = IF q <= Len(line) THEN q ELSE Len(line)
    PROVE  On(Jump(y, end), q, e, ps, ss)
<1>1. Len(line) \in Nat
  BY LineLength
<1>2. CASE q <= Len(line)
  <2>1. b <= Len(line)
    BY <1>1, <1>2
  <2>2. Good(y, b, e, ps, ss)
    BY <2>1 DEF On
  <2>3. end = q
    BY <1>2
  <2>4. Good(Jump(y, end), q, e, ps, ss)
    BY <2>2, <2>3, JumpFacts DEF Good
  <2> QED BY <1>2, <2>4 DEF On
<1>3. CASE ~ (q <= Len(line))
  <2>1. IsReader(y) /\ (y.ok = TRUE \/ y.ok = FALSE)
    BY DEF On, Good, Lost
  <2>2. end = Len(line)
    BY <1>3
  <2>3. Lost(Jump(y, end))
    BY <2>1, <2>2, JumpFacts DEF Lost
  <2> QED BY <1>3, <2>3 DEF On
<1> QED BY <1>2, <1>3

\* Nobody is read.
LEMMA NobodyOn ==
    ASSUME line \in Words, NEW r, NEW s \in Nat, NEW e, NEW ps, NEW ss, NEW name, NEW minion, NEW id,
           Good(r, s, e, ps, ss), s < Len(line), Follows(s, "]")
    PROVE  On(EntityFrom(r, name, minion, id), s + 1, e, ps, ss)
<1>1. At(r) = "]"
  BY DEF At, Good, Follows
<1>2. EntityFrom(r, name, minion, id) = Step(r)
  BY <1>1 DEF EntityFrom
<1>3. Good(Step(r), s + 1, e, ps, ss) /\ s + 1 <= Len(line)
  BY StepOn, LineLength
<1> QED BY <1>2, <1>3 DEF On

\* The end of an entity whose closing bracket is at q.
IsEntityEnd(r, q) == EndAt(r) = IF q + 1 <= Len(line) THEN q + 1 ELSE Len(line)

\* register_name behind the "@".
LEMMA NameRegistered ==
    ASSUME line \in Words, NEW r, NEW s \in Nat, NEW e, NEW ps, NEW ss, NEW f, NEW w \in Words,
           Good(r, s, e, ps, ss), Stands(s + 1, w), s + 1 + Len(w) <= Len(line)
    PROVE  Good(Put(RegisterName(Step(r), s + 1, s + 1 + Len(w)), f), s + 1,
                [e EXCEPT ![f] = PlayerId(ps, w)], AfterGetPlayerId(ps, w), ss)
<1> DEFINE a == Step(r)
           k == s + 1
           b == RegisterName(a, k, k + Len(w))
           ps2 == AfterGetPlayerId(ps, w)
           v == PlayerId(ps, w)
<1>1. Good(a, k, e, ps, ss) /\ k \in Nat /\ Stands(k, w) /\ k + Len(w) <= Len(line)
  BY StepOn
<1> HIDE DEF a, k
<1>2. Text(k, k + Len(w)) = w
  BY <1>1, TextIs
<1>3. Good(b, k, e, ps2, ss) /\ b.value = v
  BY <1>1, <1>2, RegisterNameFacts DEF Good
<1> HIDE DEF b, ps2, v
<1>4. Put(b, f).entry = [e EXCEPT ![f] = v]
  BY <1>3, PutFacts DEF Good
<1>5. Good(Put(b, f), k, [e EXCEPT ![f] = v], ps2, ss)
  <2> DEFINE e2 == [e EXCEPT ![f] = v]
  <2> HIDE DEF e2
  <2>1. Put(b, f).entry = e2
    BY <1>4 DEF e2
  <2>2. Good(Put(b, f), k, e2, ps2, ss)
    BY <1>3, <2>1, PutFacts DEF Good
  <2> QED BY <2>2 DEF e2
<1> QED BY <1>5 DEF b, a, k, ps2, v

\* A name that the end of the line cuts off is registered all the same.
LEMMA NameReader ==
    ASSUME NEW r, NEW from, NEW to, NEW f, IsReader(r), r.ok = TRUE
    PROVE  LET y == Put(RegisterName(Step(r), from, to), f)
           IN  IsReader(y) /\ y.ok = TRUE
<1> DEFINE a == Step(r)
           b == RegisterName(a, from, to)
<1>1. IsReader(a) /\ a.ok = TRUE
  BY JumpFacts DEF Step
<1> HIDE DEF a
<1>2. IsReader(b) /\ b.ok = TRUE
  BY <1>1, RegisterNameFacts
<1> HIDE DEF b
<1> QED BY <1>2, PutFacts DEF a, b

\* What a reader sees is what follows.
LEMMA AtMark ==
    ASSUME NEW r, NEW s, NEW e, NEW ps, NEW ss, NEW c,
           Good(r, s, e, ps, ss), s < Len(line), Follows(s, c)
    PROVE  At(r) = c
BY DEF At, Good, Follows

\* A name without a colon, up to the end of the entity.
LEMMA PlayerOn ==
    ASSUME line \in Words, NEW r, NEW s \in Nat, NEW e, NEW ps, NEW ss, NEW name, NEW minion, NEW id,
           NEW w, NEW q, NameOk(w), NoColon(w),
           Good(r, s, e, ps, ss), s < Len(line), Follows(s, "@"), Stands(s + 1, w),
           q = s + 1 + Len(w), Follows(q, "]"), IsEntityEnd(r, q)
    PROVE  On(EntityFrom(r, name, minion, id), q + 1, [e EXCEPT ![name] = PlayerId(ps, w)],
              AfterGetPlayerId(ps, w), ss)
<1> DEFINE k == s + 1
           end == EndAt(r)
           close == <<"]">>
           u == w \o close
           e2 == [e EXCEPT ![name] = PlayerId(ps, w)]
           ps2 == AfterGetPlayerId(ps, w)
           y == PlayerAt(r, name)
           g == EntityFrom(r, name, minion, id)
<1>1. /\ Len(line) \in Nat /\ w \in Words /\ Len(w) \in Nat \ {0} /\ k \in Nat /\ q \in Nat
      /\ k + Len(w) = q /\ k < q
  <2>1. Len(line) \in Nat /\ w \in Words /\ Len(w) \in Nat \ {0}
    BY LineLength DEF NameOk
  <2> QED BY <2>1
<1>2. end = IF q + 1 <= Len(line) THEN q + 1 ELSE Len(line)
  BY DEF IsEntityEnd
<1>3. r.at = s /\ IsReader(r) /\ r.ok = TRUE
  BY DEF Good
<1>4. At(r) = "@"
  BY AtMark
<1>5. /\ close \in Words /\ Len(close) = 1 /\ close[1] = "]" /\ Stands(q, close)
  BY <1>1, SmallWords, MarksAreChars, NextOne
<1> HIDE DEF close, k, end
<1>6. /\ u \in Words /\ Len(u) = Len(w) + 1 /\ Stands(k, u)
      /\ \A i \in 1..Len(w) : u[i] = w[i]
      /\ u[Len(w) + 1] = "]"
  <2>1. /\ u \in Words /\ Len(u) = Len(w) + Len(close)
        /\ \A i \in 1..Len(w) : u[i] = w[i]
        /\ \A i \in 1..Len(close) : u[Len(w) + i] = close[i]
    BY <1>1, <1>5, TextConcat
  <2>2. Stands(k, w) /\ Stands(k + Len(w), close)
    BY <1>1, <1>5 DEF k
  <2>3. Stands(k, u)
    BY <1>1, <1>5, <2>2, StandsConcat
  <2>4. 1 \in 1..Len(close)
    BY <1>5
  <2> QED BY <1>5, <2>1, <2>3, <2>4
<1> HIDE DEF u
<1>7. \A i \in 1..Len(u) : u[i] # ":"
  <2> SUFFICES ASSUME NEW i \in 1..Len(u) PROVE u[i] # ":"
    OBVIOUS
  <2>1. i \in 1..Len(w) \/ i = Len(w) + 1
    BY <1>1, <1>6
  <2> QED BY <1>6, <2>1 DEF NoColon
<1>8. end \in k..Len(line) /\ ~ (k + Len(u) < end)
  <2>1. k <= Len(line)
    BY <1>1 DEF k
  <2> QED BY <1>1, <1>2, <1>6, <2>1
<1>9. ColonAt(r) = end
  <2>1. Find(k, end, ":") = end
    BY <1>1, <1>6, <1>7, <1>8, FindFacts
  <2> QED BY <1>3, <2>1 DEF ColonAt, end, k
<1>10. g = Jump(y, end)
  BY <1>4, <1>9 DEF EntityFrom, end
<1>11. y = Put(RegisterName(Step(r), k, end - 1), name)
  BY <1>3, <1>9 DEF PlayerAt, end, k
<1> HIDE DEF y, g
<1>12. CASE q + 1 <= Len(line)
  <2>1. end - 1 = k + Len(w) /\ k + Len(w) <= Len(line)
    BY <1>1, <1>2, <1>12
  <2>2. Good(y, k, e2, ps2, ss)
    <3>1. Good(Put(RegisterName(Step(r), s + 1, s + 1 + Len(w)), name), s + 1,
               [e EXCEPT ![name] = PlayerId(ps, w)], AfterGetPlayerId(ps, w), ss)
      BY <1>1, <2>1, NameRegistered DEF k
    <3> QED BY <1>11, <2>1, <3>1 DEF k
  <2> HIDE DEF e2, ps2
  <2>3. end = q + 1
    BY <1>2, <1>12
  <2>4. Good(g, q + 1, e2, ps2, ss)
    BY <1>10, <2>2, <2>3, JumpFacts DEF Good
  <2> QED BY <1>12, <2>4 DEF On, g, e2, ps2
<1>13. CASE ~ (q + 1 <= Len(line))
  <2>1. IsReader(y) /\ y.ok = TRUE
    BY <1>3, <1>11, NameReader
  <2>2. end = Len(line)
    BY <1>2, <1>13
  <2>3. Lost(g)
    BY <1>10, <2>1, <2>2, JumpFacts DEF Lost
  <2> QED BY <1>13, <2>3 DEF On, g
<1> QED BY <1>12, <1>13

\* A name, a colon, and the companion.
LEMMA CompanionOn ==
    ASSUME line \in Words, NEW r, NEW s \in Nat, NEW e, NEW ps, NEW ss, NEW name, NEW minion, NEW id,
           NEW w, NEW x, NEW c \in Nat, NEW q, NameOk(w), NoColon(w),
           NameOk(x.name), IsNumber(x.id, IdValues),
           Good(r, s, e, ps, ss), s < Len(line), Follows(s, "@"), Stands(s + 1, w),
           c = s + 1 + Len(w), Follows(c, ":"), Stands(c + 1, Named(x)), IsEnd(q, c + 1, x),
           Follows(q, "]"), IsEntityEnd(r, q)
    PROVE  On(EntityFrom(r, name, minion, id), q + 1,
              [[e EXCEPT ![name] = PlayerId(ps, w)] EXCEPT ![minion] = x.id],
              AfterGetPlayerId(ps, w), SetString(ss, x.id, x.name))
<1> DEFINE k == s + 1
           m == c + 1
           end == EndAt(r)
           e1 == [e EXCEPT ![name] = PlayerId(ps, w)]
           e2 == [e1 EXCEPT ![minion] = x.id]
           ps2 == AfterGetPlayerId(ps, w)
           ss2 == SetString(ss, x.id, x.name)
           y == PlayerAt(r, name)
           g == EntityFrom(r, name, minion, id)
<1>1. /\ Len(line) \in Nat /\ w \in Words /\ Len(w) \in Nat \ {0} /\ k \in Nat /\ m \in Nat
      /\ k + Len(w) = c /\ k < c
  <2>1. Len(line) \in Nat /\ w \in Words /\ Len(w) \in Nat \ {0}
    BY LineLength DEF NameOk
  <2> QED BY <2>1
<1>2. end = IF q + 1 <= Len(line) THEN q + 1 ELSE Len(line)
  BY DEF IsEntityEnd
<1>3. r.at = s /\ IsReader(r) /\ r.ok = TRUE
  BY DEF Good
<1>4. At(r) = "@"
  BY AtMark
<1>5. q \in Nat /\ m < q /\ q - 1 \in Nat /\ m < q - 1 /\ IsBrace(q - 1, m, x)
  BY <1>1, NamedEnds
<1>6. m = c + 1 /\ k = s + 1
  OBVIOUS
<1> HIDE DEF k, m, end
<1>7. end \in k..Len(line) /\ end \in Nat /\ end <= Len(line)
  <2>1. k <= Len(line)
    BY <1>1, <1>6
  <2> QED BY <1>1, <1>2, <1>5, <1>6, <2>1
<1>8. ColonAt(r) = IF c < end THEN c ELSE end
  <2>1. \A i \in 1..Len(w) : w[i] # ":"
    BY DEF NoColon
  <2>2. c < end => line[c + 1] = ":"
    <3>1. c < end => c < Len(line)
      BY <1>1, <1>7
    <3> QED BY <3>1 DEF Follows
  <2>3. /\ Stands(k, w) /\ k + Len(w) < end => line[k + Len(w) + 1] = ":"
    BY <1>1, <1>6, <2>2
  <2>4. Find(k, end, ":") = IF k + Len(w) < end THEN k + Len(w) ELSE end
    BY <1>1, <1>7, <2>1, <2>3, FindFacts
  <2>5. ColonAt(r) = Find(k, end, ":")
    BY <1>3 DEF ColonAt, k, end
  <2> QED BY <1>1, <2>4, <2>5
<1>9. g = Jump(IF ColonAt(r) = end THEN y ELSE CompanionAt(r, name, minion), end)
  BY <1>4 DEF EntityFrom, end
<1>10. y = Put(RegisterName(Step(r), k, IF ColonAt(r) = end THEN end - 1 ELSE ColonAt(r)), name)
  BY <1>3 DEF PlayerAt, end, k
<1> HIDE DEF y, g
<1>11. CASE c < end
  <2> DEFINE h == NamedId(y, m, Len(line), end)
             b == q - 1
             z == Put(h, minion)
             far == Len(line)
  <2>1. ColonAt(r) = c /\ c # end /\ c <= Len(line) /\ m <= Len(line)
    BY <1>1, <1>6, <1>7, <1>8, <1>11
  <2>2. Good(y, k, e1, ps2, ss)
    <3>1. Good(Put(RegisterName(Step(r), s + 1, s + 1 + Len(w)), name), s + 1,
               [e EXCEPT ![name] = PlayerId(ps, w)], AfterGetPlayerId(ps, w), ss)
      BY <1>1, <2>1, NameRegistered DEF k
    <3>2. y = Put(RegisterName(Step(r), k, k + Len(w)), name)
      BY <1>1, <1>10, <2>1
    <3> QED BY <3>1, <3>2 DEF k
  <2>3. g = Jump(z, end)
    BY <1>6, <1>9, <2>1 DEF CompanionAt, end, y
  <2>4. /\ Beyond(far, b) /\ Beyond(end, b) /\ IsBrace(b, m, x) /\ b \in Nat
        /\ b <= q + 1 /\ far \in Nat /\ m <= far /\ q + 1 \in Nat
    <3>1. end = Len(line) \/ q - 1 < end
      BY <1>1, <1>2, <1>5
    <3>2. Beyond(end, b) /\ Beyond(far, b)
      BY <1>1, <1>7, <3>1 DEF Beyond
    <3> QED BY <1>1, <1>5, <2>1, <3>2
  <2> HIDE DEF e1, ps2, b, far
  <2>5. Good(y, y.at, e1, ps2, ss) /\ Stands(m, Named(x))
    BY <1>6, <2>2 DEF Good
  <2>6. OnWith(NamedId(y, m, far, end), b, e1, ps2, ss2, x.id)
    <3>1. far \in Nat /\ end \in Nat /\ m \in Nat /\ m <= far
      BY <1>1, <1>7, <2>4
    <3>2. Beyond(far, b) /\ Beyond(end, b) /\ IsBrace(b, m, x)
      BY <2>4
    <3> QED BY <2>5, <3>1, <3>2, NamedIdOn
  <2>7. On(h, b, e1, ps2, ss2) /\ (b <= Len(line) => h.value = x.id) /\ b \in Nat
    BY <2>4, <2>6 DEF OnWith, far
  <2> HIDE DEF h, ss2
  <2>8. On(z, b, e2, ps2, ss2)
    BY <2>7, PutOn
  <2> HIDE DEF z, e2
  <2> DEFINE j == q + 1
  <2>9. b \in Nat /\ j \in Nat /\ b <= j /\ end = IF j <= Len(line) THEN j ELSE Len(line)
    BY <1>2, <2>4
  <2> HIDE DEF j
  <2>10. On(Jump(z, end), j, e2, ps2, ss2)
    BY <2>8, <2>9, JumpOn
  <2> QED BY <2>3, <2>10 DEF g, j, e2, e1, ps2, ss2
<1>12. CASE ~ (c < end)
  <2>1. ColonAt(r) = end /\ ~ (q + 1 <= Len(line)) /\ end = Len(line)
    BY <1>1, <1>2, <1>5, <1>6, <1>7, <1>8, <1>12
  <2>2. IsReader(y) /\ y.ok = TRUE
    BY <1>3, <1>10, NameReader
  <2>3. g = Jump(y, Len(line))
    BY <1>9, <2>1
  <2>4. Lost(g)
    BY <2>2, <2>3, JumpFacts DEF Lost
  <2> QED BY <2>1, <2>4 DEF On, g
<1> QED BY <1>11, <1>12

\* A name with its id, a colon and a number.
LEMMA MobOn ==
    ASSUME line \in Words, NEW r, NEW s \in Nat, NEW e, NEW ps, NEW ss, NEW name, NEW minion, NEW id,
           NEW x, NEW c, NEW q \in Nat, NameOk(x.name), IsNumber(x.id, IdValues), IsNumber(x.number, IdValues),
           Good(r, s, e, ps, ss), s < Len(line), Stands(s, Named(x)), IsEnd(c, s, x),
           Follows(c, ":"), Stands(c + 1, Decimal(x.number)), Ends(q, c, Len(Decimal(x.number))),
           Follows(q, "]"), IsEntityEnd(r, q)
    PROVE  On(EntityFrom(r, name, minion, id), q + 1,
              [[e EXCEPT ![name] = x.id] EXCEPT ![id] = x.number], ps, SetString(ss, x.id, x.name))
<1> DEFINE b == c - 1
           d == Decimal(x.number)
           end == EndAt(r)
           far == Len(line)
           e1 == [e EXCEPT ![name] = x.id]
           e2 == [e1 EXCEPT ![id] = x.number]
           ss2 == SetString(ss, x.id, x.name)
           h == NamedId(r, s, far, end)
           y == Put(h, name)
           y1 == Expect(y, RBrace)
           y2 == SkipSpaces(y1)
           n == Number(Expect(y2, ":"), IdValues)
           z == Put(n, id)
           g == EntityFrom(r, name, minion, id)
<1>1. Len(line) \in Nat /\ x.id \in Nat /\ x.number \in Nat /\ IdValues \in Nat \ {0}
  BY LineLength, ValuesAssumption DEF IsNumber
<1>2. /\ c \in Nat /\ s < c /\ c - 1 \in Nat /\ s < c - 1 /\ IsBrace(c - 1, s, x)
      /\ Follows(s, x.name[1]) /\ Follows(c - 1, RBrace)
  BY NamedEnds
<1>3. end = IF q + 1 <= Len(line) THEN q + 1 ELSE Len(line)
  BY DEF IsEntityEnd
<1>4. IsDigits(d) /\ Len(d) \in Nat \ {0} /\ Result(d, IdValues) \div 10 = x.number
  <2>1. d = NatDecimal(x.number) /\ IsDigits(d) /\ Len(d) \in Nat \ {0}
    BY <1>1, IdText
  <2>2. x.number * 10 < IdValues
    BY DEF IsNumber
  <2>3. Result(NatDecimal(x.number), IdValues) \div 10 = x.number
    BY <1>1, <2>2, NumberIsRead
  <2> QED BY <2>1, <2>3
<1>5. r.at = s /\ IsReader(r) /\ r.ok = TRUE
  BY DEF Good
<1>6. At(r) # "]" /\ At(r) # "@"
  <2>1. At(r) = x.name[1]
    BY <1>2, AtMark
  <2> QED BY <2>1 DEF NameOk
<1>7. q = c + 1 + Len(d) /\ c < q
  <2>1. q = c + 1 + Len(d)
    BY DEF Ends
  <2> HIDE DEF d
  <2> QED BY <1>2, <1>4, <2>1
<1> HIDE DEF d
<1>8. g = Jump(z, end)
  BY <1>5, <1>6 DEF EntityFrom, NumberAt, MobAt
<1>9. /\ Beyond(far, b) /\ Beyond(end, b) /\ IsBrace(b, s, x) /\ b \in Nat /\ b + 1 = c
      /\ far \in Nat /\ end \in Nat /\ s <= far
  <2> HIDE DEF end
  <2>1. end = Len(line) \/ c - 1 < end
    BY <1>1, <1>2, <1>3, <1>7
  <2>2. end \in Nat /\ end <= Len(line)
    BY <1>1, <1>3
  <2>3. Beyond(end, b) /\ Beyond(far, b)
    BY <1>1, <2>1, <2>2 DEF Beyond
  <2> QED BY <1>1, <1>2, <2>2, <2>3
<1> HIDE DEF b, far, end
<1>10. OnWith(NamedId(r, s, far, end), b, e, ps, ss2, x.id)
  <2>1. Good(r, r.at, e, ps, ss)
    BY <1>5
  <2> QED BY <1>9, <2>1, NamedIdOn
<1> HIDE DEF h, ss2
<1>11. On(h, b, e, ps, ss2) /\ (b <= Len(line) => h.value = x.id)
  BY <1>10 DEF OnWith, h
<1>12. On(y, b, e1, ps, ss2)
  BY <1>9, <1>11, PutOn
<1> HIDE DEF y, e1
<1>13. OnS(y1, b + 1, e1, ps, ss2)
  <2>1. Follows(b, RBrace) /\ RBrace # "end"
    BY <1>2, SpaceIsNone DEF b
  <2> QED BY <1>9, <1>12, <2>1, ExpectOn
<1> HIDE DEF y1
<1>14. On(y2, c, e1, ps, ss2)
  <2>1. On(y1, c, e1, ps, ss2)
    BY <1>9, <1>13, StrictOn
  <2>2. ":" # Space
    BY SpaceIsNone
  <2> QED BY <1>2, <2>1, <2>2, NoSpaceOn
<1> HIDE DEF y2
<1>15. OnWith(n, q, e1, ps, ss2, x.number)
  <2>1. "]" \notin ToSet(Digits) /\ ":" # "end"
    BY NotDigits
  <2>2. Stands(c + 1, d) /\ Ends(q, c, Len(d))
    BY DEF d
  <2>3. OnWith(n, q, e1, ps, ss2, Result(d, IdValues) \div 10)
    BY <1>2, <1>4, <1>14, <2>1, <2>2, NumberBehind
  <2> QED BY <1>4, <2>3
<1> HIDE DEF n
<1>16. On(z, q, e2, ps, ss2)
  <2>1. On(n, q, e1, ps, ss2) /\ (q <= Len(line) => n.value = x.number)
    BY <1>15 DEF OnWith
  <2> QED BY <2>1, PutOn
<1> HIDE DEF z, e2
<1> DEFINE j == q + 1
<1>17. j \in Nat /\ q <= j /\ end = IF j <= Len(line) THEN j ELSE Len(line)
  BY <1>3 DEF end
<1> HIDE DEF j, g
<1>18. On(Jump(z, end), j, e2, ps, ss2)
  BY <1>16, <1>17, JumpOn
<1> QED BY <1>8, <1>18 DEF g, j, e2, e1, ss2
-----------------------------------------------------------------------------
\* What stands between the brackets of an entity.
Content(x) ==
    CASE x.kind = "nobody" -> << >>
      [] x.kind = "player" -> <<"@">> \o x.name
      [] x.kind = "companion" -> <<"@">> \o x.name \o <<":">> \o Named(x.minion)
      [] x.kind = "mob" -> Named(x) \o <<":">> \o Decimal(x.number)

\* An entity is its content in brackets.
LEMMA EntityIs ==
    ASSUME NEW x
    PROVE  Entity(x) = (<<"[">> \o Content(x)) \o <<"]", Space>>
BY DEF Entity, Content

\* A character that is no bracket.
LEMMA PlainBalanced ==
    ASSUME NEW c \in Char, c \notin {"[", "]"}
    PROVE  Balanced(<<c>>)
<1> DEFINE w == <<c>>
<1>1. w \in Words /\ Len(w) = 1 /\ w[1] = c
  BY SmallWords
<1> HIDE DEF w
<1>2. \A k \in 1..Len(w) : k = 1
  BY <1>1
<1>3. Balanced(w)
  BY <1>1, <1>2, BalancedPlain
<1> QED BY <1>3 DEF w

\* The parts of a player.
LEMMA PlayerText ==
    ASSUME line \in Words, NEW w, NameOk(w)
    PROVE  LET u == <<"@">> \o w
           IN  /\ u \in Words /\ Balanced(u)
               /\ \A s \in Nat : /\ Stands(s, u) => Follows(s, "@") /\ Stands(s + 1, w)
                                 /\ s + Len(u) = s + 1 + Len(w)
<1> DEFINE a == <<"@">>
           u == a \o w
<1>1. a \in Words /\ Len(a) = 1 /\ Balanced(a) /\ w \in Words /\ Balanced(w) /\ Len(w) \in Nat
  BY MarksAreChars, OneText, PlainBalanced DEF NameOk
<1>2. ASSUME NEW s \in Nat PROVE Stands(s, a) <=> Follows(s, "@")
  BY MarksAreChars, OneText
<1> HIDE DEF a
<1>3. u \in Words /\ Len(u) = 1 + Len(w) /\ Balanced(u)
  <2>1. u \in Words /\ Len(u) = Len(a) + Len(w)
    BY <1>1, TextConcat
  <2>2. Balanced(u)
    BY <1>1, BalancedConcat
  <2> HIDE DEF u
  <2> QED BY <1>1, <2>1, <2>2
<1>4. ASSUME NEW s \in Nat, Stands(s, u) PROVE Follows(s, "@") /\ Stands(s + 1, w)
  <2>1. Stands(s, a) /\ Stands(s + Len(a), w)
    BY <1>1, <1>4, StandsConcat
  <2> QED BY <1>1, <1>2, <2>1
<1>5. ASSUME NEW s \in Nat PROVE s + Len(u) = s + 1 + Len(w)
  BY <1>1, <1>3
<1> QED BY <1>3, <1>4, <1>5 DEF a

\* The parts of a player's companion.
LEMMA CompanionText ==
    ASSUME line \in Words, NEW w, NameOk(w), NEW x, NameOk(x.name), x.id \in Nat
    PROVE  LET u == <<"@">> \o w \o <<":">> \o Named(x)
           IN  /\ u \in Words /\ Balanced(u)
               /\ \A s \in Nat : Stands(s, u) =>
                     LET c == s + 1 + Len(w)
                     IN  /\ Follows(s, "@") /\ Stands(s + 1, w) /\ c \in Nat /\ Follows(c, ":")
                         /\ Stands(c + 1, Named(x)) /\ IsEnd(s + Len(u), c + 1, x)
<1> DEFINE a == <<"@">> \o w
           b == <<":">>
           y == Named(x)
           u == (a \o b) \o y
<1>1. /\ a \in Words /\ Balanced(a)
      /\ \A s \in Nat : /\ Stands(s, a) => Follows(s, "@") /\ Stands(s + 1, w)
                        /\ s + Len(a) = s + 1 + Len(w)
  BY PlayerText
<1>2. b \in Words /\ Len(b) = 1 /\ Balanced(b) /\ Len(w) \in Nat
  BY MarksAreChars, OneText, PlainBalanced DEF NameOk
<1>3. ASSUME NEW s \in Nat PROVE Stands(s, b) <=> Follows(s, ":")
  BY MarksAreChars, OneText
<1>4. y \in Words /\ Balanced(y)
  BY NamedChars
<1> HIDE DEF a, b, y
<1>5. /\ u \in Words /\ Len(u) = Len(a) + Len(b) + Len(y)
      /\ Len(a) \in Nat /\ Len(y) \in Nat
      /\ \A s \in Nat :
            Stands(s, u) <=> /\ Stands(s, a) /\ Stands(s + Len(a), b)
                             /\ Stands(s + Len(a) + Len(b), y)
  BY <1>1, <1>2, <1>4, ThreeTexts
<1>6. Balanced(u)
  <2> DEFINE v == a \o b
  <2>1. v \in Words /\ Balanced(v)
    BY <1>1, <1>2, TextConcat, BalancedConcat
  <2> HIDE DEF v
  <2>2. Balanced(v \o y)
    BY <1>4, <2>1, BalancedConcat
  <2> QED BY <2>2 DEF v
<1> HIDE DEF u
<1>7. ASSUME NEW s \in Nat, Stands(s, u), NEW c, c = s + 1 + Len(w)
      PROVE  /\ Follows(s, "@") /\ Stands(s + 1, w) /\ c \in Nat /\ Follows(c, ":")
             /\ Stands(c + 1, y) /\ s + Len(u) = c + 1 + Len(y)
  <2>1. s + Len(a) = c
    BY <1>1, <1>7
  <2>2. c \in Nat /\ s + Len(a) + Len(b) = c + 1 /\ s + Len(u) = c + 1 + Len(y)
    <3>1. /\ Len(u) = Len(a) + 1 + Len(y) /\ Len(b) = 1 /\ Len(a) \in Nat /\ Len(y) \in Nat
          /\ Len(w) \in Nat
      BY <1>2, <1>5
    <3> QED BY <1>7, <2>1, <3>1
  <2>3. Stands(s, a) /\ Stands(c, b) /\ Stands(c + 1, y)
    BY <1>5, <1>7, <2>1, <2>2
  <2> QED BY <1>1, <1>3, <2>2, <2>3
<1>8. ASSUME NEW s \in Nat, Stands(s, u)
      PROVE  LET c == s + 1 + Len(w)
             IN  /\ Follows(s, "@") /\ Stands(s + 1, w) /\ c \in Nat /\ Follows(c, ":")
                 /\ Stands(c + 1, y) /\ IsEnd(s + Len(u), c + 1, x)
  BY <1>7, <1>8 DEF IsEnd, y
<1> QED BY <1>5, <1>6, <1>8 DEF u, a, b, y

\* The parts of a mob.
LEMMA MobText ==
    ASSUME line \in Words, NEW x, NameOk(x.name), x.id \in Nat, x.number \in Nat
    PROVE  LET u == Named(x) \o <<":">> \o Decimal(x.number)
           IN  /\ u \in Words /\ Balanced(u)
               /\ \A s \in Nat : Stands(s, u) =>
                     LET c == s + Len(Named(x))
                     IN  /\ Stands(s, Named(x)) /\ IsEnd(c, s, x) /\ c \in Nat /\ Follows(c, ":")
                         /\ Stands(c + 1, Decimal(x.number))
                         /\ Ends(s + Len(u), c, Len(Decimal(x.number)))
<1> DEFINE a == Named(x)
           b == <<":">>
           y == Decimal(x.number)
           u == (a \o b) \o y
<1>1. a \in Words /\ Balanced(a)
  BY NamedChars
<1>2. b \in Words /\ Len(b) = 1 /\ Balanced(b)
  BY MarksAreChars, OneText, PlainBalanced
<1>3. ASSUME NEW s \in Nat PROVE Stands(s, b) <=> Follows(s, ":")
  BY MarksAreChars, OneText
<1>4. y \in Words /\ Balanced(y)
  <2>1. IsDigits(y)
    BY IdText
  <2>2. y \in Words /\ \A k \in 1..Len(y) : y[k] \notin {"[", "]"}
    BY <2>1, NotDigits DEF IsDigits
  <2> HIDE DEF y
  <2> QED BY <2>2, BalancedPlain
<1> HIDE DEF a, b, y
<1>5. /\ u \in Words /\ Len(u) = Len(a) + Len(b) + Len(y)
      /\ Len(a) \in Nat /\ Len(y) \in Nat
      /\ \A s \in Nat :
            Stands(s, u) <=> /\ Stands(s, a) /\ Stands(s + Len(a), b)
                             /\ Stands(s + Len(a) + Len(b), y)
  BY <1>1, <1>2, <1>4, ThreeTexts
<1>6. Balanced(u)
  <2> DEFINE v == a \o b
  <2>1. v \in Words /\ Balanced(v)
    BY <1>1, <1>2, TextConcat, BalancedConcat
  <2> HIDE DEF v
  <2>2. Balanced(v \o y)
    BY <1>4, <2>1, BalancedConcat
  <2> QED BY <2>2 DEF v
<1> HIDE DEF u
<1>7. ASSUME NEW s \in Nat, Stands(s, u), NEW c, c = s + Len(a)
      PROVE  /\ Stands(s, a) /\ c \in Nat /\ Follows(c, ":")
             /\ Stands(c + 1, y) /\ s + Len(u) = c + 1 + Len(y)
  <2>1. c \in Nat /\ s + Len(a) + Len(b) = c + 1 /\ s + Len(u) = c + 1 + Len(y)
    BY <1>2, <1>5, <1>7
  <2>2. Stands(s, a) /\ Stands(c, b) /\ Stands(c + 1, y)
    BY <1>5, <1>7, <2>1
  <2> QED BY <1>3, <2>1, <2>2
<1>8. ASSUME NEW s \in Nat, Stands(s, u)
      PROVE  LET c == s + Len(a)
             IN  /\ Stands(s, a) /\ IsEnd(c, s, x) /\ c \in Nat /\ Follows(c, ":")
                 /\ Stands(c + 1, y) /\ Ends(s + Len(u), c, Len(y))
  BY <1>7, <1>8 DEF IsEnd, Ends, a
<1> QED BY <1>5, <1>6, <1>8 DEF u, a, b, y

\* What an entity changes.
EntityEntry(e, ps, x, name, minion, id) ==
    CASE x.kind = "nobody" -> e
      [] x.kind = "player" -> [e EXCEPT ![name] = PlayerId(ps, x.name)]
      [] x.kind = "companion" ->
            [[e EXCEPT ![name] = PlayerId(ps, x.name)] EXCEPT ![minion] = x.minion.id]
      [] x.kind = "mob" -> [[e EXCEPT ![name] = x.id] EXCEPT ![id] = x.number]
EntityPlayers(ps, x) ==
    IF x.kind \in {"player", "companion"} THEN AfterGetPlayerId(ps, x.name) ELSE ps
EntityStrings(ss, x) ==
    CASE x.kind = "companion" -> SetString(ss, x.minion.id, x.minion.name)
      [] x.kind = "mob" -> SetString(ss, x.id, x.name)
      [] OTHER -> ss

\* What is in the brackets of an entity closes its own.
LEMMA ContentOk ==
    ASSUME line \in Words, NEW x, IsEntity(x)
    PROVE  Content(x) \in Words /\ Balanced(Content(x))
<1>1. CASE x.kind = "nobody"
  <2> DEFINE w == << >>
  <2>1. w \in Words /\ Len(w) = 0
    BY SmallWords
  <2>2. Content(x) = w
    BY <1>1 DEF Content
  <2> HIDE DEF w
  <2>3. Balanced(w)
    BY <2>1, BalancedPlain
  <2> QED BY <2>1, <2>2, <2>3
<1>2. CASE x.kind = "player"
  <2>1. NameOk(x.name)
    BY <1>2, NamesAreOk DEF IsEntity
  <2>2. Content(x) = <<"@">> \o x.name
    BY <1>2 DEF Content
  <2> QED BY <2>1, <2>2, PlayerText
<1>3. CASE x.kind = "companion"
  <2>1. NameOk(x.name) /\ NameOk(x.minion.name) /\ x.minion.id \in Nat
    BY <1>3, NamesAreOk DEF IsEntity, IsNamed, IsNumber
  <2>2. Content(x) = <<"@">> \o x.name \o <<":">> \o Named(x.minion)
    BY <1>3 DEF Content
  <2> QED BY <2>1, <2>2, CompanionText
<1>4. CASE x.kind = "mob"
  <2>1. NameOk(x.name) /\ x.id \in Nat /\ x.number \in Nat
    BY <1>4, NamesAreOk DEF IsEntity, IsNamed, IsNumber
  <2>2. Content(x) = Named(x) \o <<":">> \o Decimal(x.number)
    BY <1>4 DEF Content
  <2> QED BY <2>1, <2>2, MobText
<1>5. x.kind \in {"nobody", "player", "companion", "mob"}
  BY DEF IsEntity
<1> QED BY <1>1, <1>2, <1>3, <1>4, <1>5

\* The parts of an entity.
LEMMA EntityText ==
    ASSUME line \in Words, NEW x, IsEntity(x)
    PROVE  /\ Entity(x) \in Words
           /\ \A p \in Nat : Stands(p, Entity(x)) =>
                 LET q == p + 1 + Len(Content(x))
                 IN  /\ Follows(p, "[") /\ Stands(p + 1, Content(x)) /\ q \in Nat
                     /\ Follows(q, "]") /\ Follows(q + 1, Space) /\ p + Len(Entity(x)) = q + 2
<1> DEFINE a == <<"[">>
           u == Content(x)
           z == <<"]", Space>>
           w == (a \o u) \o z
<1>1. a \in Words /\ Len(a) = 1 /\ z \in Words /\ Len(z) = 2
  BY MarksAreChars, OneText, TwoText
<1>2. ASSUME NEW p \in Nat
      PROVE  /\ Stands(p, a) <=> Follows(p, "[")
             /\ Stands(p, z) <=> Follows(p, "]") /\ Follows(p + 1, Space)
  BY MarksAreChars, OneText, TwoText
<1>3. u \in Words
  BY ContentOk
<1>4. Entity(x) = w
  BY EntityIs
<1> HIDE DEF a, u, z
<1>5. /\ w \in Words /\ Len(w) = Len(a) + Len(u) + Len(z) /\ Len(u) \in Nat
      /\ \A p \in Nat :
            Stands(p, w) <=> /\ Stands(p, a) /\ Stands(p + Len(a), u)
                             /\ Stands(p + Len(a) + Len(u), z)
  <2>1. a \in Words /\ u \in Words /\ z \in Words
    BY <1>1, <1>3
  <2> QED BY <2>1, ThreeTexts
<1> HIDE DEF w
<1>6. ASSUME NEW p \in Nat, Stands(p, w), NEW q, q = p + 1 + Len(u)
      PROVE  /\ Follows(p, "[") /\ Stands(p + 1, u) /\ q \in Nat
             /\ Follows(q, "]") /\ Follows(q + 1, Space) /\ p + Len(w) = q + 2
  <2>1. q \in Nat /\ p + Len(a) = p + 1 /\ p + Len(a) + Len(u) = q /\ p + Len(w) = q + 2
    BY <1>1, <1>5, <1>6
  <2>2. Stands(p, a) /\ Stands(p + 1, u) /\ Stands(q, z)
    BY <1>5, <1>6, <2>1
  <2> QED BY <1>2, <2>1, <2>2
<1>7. ASSUME NEW p \in Nat, Stands(p, w)
      PROVE  LET q == p + 1 + Len(u)
             IN  /\ Follows(p, "[") /\ Stands(p + 1, u) /\ q \in Nat
                 /\ Follows(q, "]") /\ Follows(q + 1, Space) /\ p + Len(w) = q + 2
  BY <1>6, <1>7
<1> QED BY <1>4, <1>5, <1>7 DEF u

\* The content of an entity is read, whoever it is.
LEMMA EntityFromOn ==
    ASSUME line \in Words, NEW a, NEW s \in Nat, NEW j \in Nat, NEW e, NEW ps, NEW ss, NEW x,
           NEW name, NEW minion, NEW id, IsEntity(x), OnS(a, s, e, ps, ss),
           Stands(s, Content(x)), j = s + Len(Content(x)), Follows(j, "]")
    PROVE  On(EntityFrom(a, name, minion, id), j + 1,
              EntityEntry(e, ps, x, name, minion, id), EntityPlayers(ps, x), EntityStrings(ss, x))
<1>1. /\ Len(line) \in Nat /\ s <= j /\ Content(x) \in Words /\ Balanced(Content(x))
  <2>1. Len(line) \in Nat /\ Len(Content(x)) \in Nat
    BY ContentOk, LineLength, LenProperties DEF Words
  <2> QED BY <2>1, ContentOk
<1>2. ASSUME Dead(EntityFrom(a, name, minion, id)), ~ (s < Len(line))
      PROVE  On(EntityFrom(a, name, minion, id), j + 1,
                EntityEntry(e, ps, x, name, minion, id), EntityPlayers(ps, x), EntityStrings(ss, x))
  <2>1. ~ (j + 1 <= Len(line))
    BY <1>1, <1>2
  <2> QED BY <1>2, <2>1 DEF On, Dead, Lost
<1>3. CASE ~ (s <= Len(line))
  <2>1. Dead(EntityFrom(a, name, minion, id))
    BY <1>3, DeadEntity DEF OnS
  <2>2. ~ (s < Len(line))
    BY <1>1, <1>3
  <2> QED BY <1>2, <2>1, <2>2
<1>4. CASE s = Len(line)
  <2>1. IsReader(a) /\ a.at = Len(line)
    BY <1>1, <1>4 DEF OnS, Good
  <2>2. Dead(EntityFrom(a, name, minion, id))
    BY <2>1, CutEntity
  <2>3. ~ (s < Len(line))
    BY <1>1, <1>4
  <2> QED BY <1>2, <2>2, <2>3
<1>5. CASE s < Len(line)
  <2>1. Good(a, s, e, ps, ss) /\ a.at = s
    BY <1>1, <1>5 DEF OnS, Good
  <2>2. IsEntityEnd(a, j)
    <3>1. EndAt(a) = IF j + 1 <= Len(line) THEN j + 1 ELSE Len(line)
      <4>1. s <= Len(line)
        BY <1>1, <1>5
      <4> QED BY <1>1, <2>1, <4>1, EndAtIs
    <3> QED BY <3>1 DEF IsEntityEnd
  <2>3. CASE x.kind = "nobody"
    <3>1. /\ Content(x) = << >> /\ EntityEntry(e, ps, x, name, minion, id) = e
          /\ EntityPlayers(ps, x) = ps /\ EntityStrings(ss, x) = ss
      BY <2>3 DEF Content, EntityEntry, EntityPlayers, EntityStrings
    <3>2. j = s
      BY <1>1, <3>1, SmallWords
    <3>3. On(EntityFrom(a, name, minion, id), s + 1, e, ps, ss)
      BY <1>1, <1>5, <2>1, <3>2, NobodyOn
    <3> QED BY <3>1, <3>2, <3>3
  <2>4. CASE x.kind = "player"
    <3>1. NameOk(x.name) /\ NoColon(x.name)
      BY <2>4, NamesAreOk DEF IsEntity
    <3>2. Content(x) = <<"@">> \o x.name
      BY <2>4 DEF Content
    <3>3. Follows(s, "@") /\ Stands(s + 1, x.name) /\ j = s + 1 + Len(x.name)
      BY <3>1, <3>2, PlayerText
    <3>4. /\ EntityEntry(e, ps, x, name, minion, id) = [e EXCEPT ![name] = PlayerId(ps, x.name)]
          /\ EntityPlayers(ps, x) = AfterGetPlayerId(ps, x.name) /\ EntityStrings(ss, x) = ss
      BY <2>4 DEF EntityEntry, EntityPlayers, EntityStrings
    <3>5. On(EntityFrom(a, name, minion, id), j + 1, [e EXCEPT ![name] = PlayerId(ps, x.name)],
             AfterGetPlayerId(ps, x.name), ss)
      BY <1>5, <2>1, <2>2, <3>1, <3>3, PlayerOn
    <3> QED BY <3>4, <3>5
  <2>5. CASE x.kind = "companion"
    <3> DEFINE y == x.minion
               c == s + 1 + Len(x.name)
    <3>1. NameOk(x.name) /\ NoColon(x.name) /\ NameOk(y.name) /\ IsNumber(y.id, IdValues) /\ y.id \in Nat
      BY <2>5, NamesAreOk DEF IsEntity, IsNamed, IsNumber
    <3>2. Content(x) = <<"@">> \o x.name \o <<":">> \o Named(y)
      BY <2>5 DEF Content
    <3>3. /\ Follows(s, "@") /\ Stands(s + 1, x.name) /\ c \in Nat /\ Follows(c, ":")
          /\ Stands(c + 1, Named(y)) /\ IsEnd(j, c + 1, y)
      BY <3>1, <3>2, CompanionText
    <3>4. /\ EntityEntry(e, ps, x, name, minion, id)
                = [[e EXCEPT ![name] = PlayerId(ps, x.name)] EXCEPT ![minion] = y.id]
          /\ EntityPlayers(ps, x) = AfterGetPlayerId(ps, x.name)
          /\ EntityStrings(ss, x) = SetString(ss, y.id, y.name)
      BY <2>5 DEF EntityEntry, EntityPlayers, EntityStrings
    <3>6. c = s + 1 + Len(x.name)
      OBVIOUS
    <3> HIDE DEF c, y
    <3>5. On(EntityFrom(a, name, minion, id), j + 1,
             [[e EXCEPT ![name] = PlayerId(ps, x.name)] EXCEPT ![minion] = y.id],
             AfterGetPlayerId(ps, x.name), SetString(ss, y.id, y.name))
      BY <1>5, <2>1, <2>2, <3>1, <3>3, <3>6, CompanionOn
    <3> QED BY <3>4, <3>5
  <2>6. CASE x.kind = "mob"
    <3> DEFINE c == s + Len(Named(x))
    <3>1. /\ NameOk(x.name) /\ IsNumber(x.id, IdValues) /\ IsNumber(x.number, IdValues)
          /\ x.id \in Nat /\ x.number \in Nat
      BY <2>6, NamesAreOk DEF IsEntity, IsNamed, IsNumber
    <3>2. Content(x) = Named(x) \o <<":">> \o Decimal(x.number)
      BY <2>6 DEF Content
    <3>3. /\ Stands(s, Named(x)) /\ IsEnd(c, s, x) /\ c \in Nat /\ Follows(c, ":")
          /\ Stands(c + 1, Decimal(x.number)) /\ Ends(j, c, Len(Decimal(x.number)))
      BY <3>1, <3>2, MobText
    <3>4. /\ EntityEntry(e, ps, x, name, minion, id)
                = [[e EXCEPT ![name] = x.id] EXCEPT ![id] = x.number]
          /\ EntityPlayers(ps, x) = ps /\ EntityStrings(ss, x) = SetString(ss, x.id, x.name)
      BY <2>6 DEF EntityEntry, EntityPlayers, EntityStrings
    <3> HIDE DEF c
    <3>5. On(EntityFrom(a, name, minion, id), j + 1,
             [[e EXCEPT ![name] = x.id] EXCEPT ![id] = x.number], ps, SetString(ss, x.id, x.name))
      BY <1>5, <2>1, <2>2, <3>1, <3>3, MobOn
    <3> QED BY <3>4, <3>5
  <2>7. x.kind \in {"nobody", "player", "companion", "mob"}
    BY DEF IsEntity
  <2> QED BY <2>3, <2>4, <2>5, <2>6, <2>7
<1> QED BY <1>1, <1>3, <1>4, <1>5

\* The entity of the format is read.
LEMMA EntityOn ==
    ASSUME line \in Words, NEW r, NEW p \in Nat, NEW e, NEW ps, NEW ss, NEW x, NEW next,
           NEW name, NEW minion, NEW id, IsEntity(x), On(r, p, e, ps, ss), Stands(p, Entity(x)),
           NEW q, q = p + Len(Entity(x)), Follows(q, next), next # Space
    PROVE  On(SkipSpaces(ReadEntity(r, name, minion, id)), q,
              EntityEntry(e, ps, x, name, minion, id), EntityPlayers(ps, x), EntityStrings(ss, x))
<1> DEFINE s == p + 1
           u == Content(x)
           j == s + Len(u)
           a == Expect(r, "[")
           g == EntityFrom(a, name, minion, id)
           k == j + 1
<1>1. /\ Follows(p, "[") /\ Stands(s, u) /\ j \in Nat /\ Follows(j, "]") /\ Follows(k, Space) /\ k + 1 = q
      /\ s \in Nat /\ k \in Nat
  <2>1. /\ Follows(p, "[") /\ Stands(s, u) /\ j \in Nat /\ Follows(j, "]") /\ Follows(k, Space)
        /\ p + Len(Entity(x)) = j + 2
    BY EntityText
  <2> HIDE DEF u
  <2> QED BY <2>1
<1>3. OnS(a, s, e, ps, ss)
  BY <1>1, ExpectOn
<1>4. ReadEntity(r, name, minion, id) = g
  BY EntityParts
<1>5. j = s + Len(Content(x)) /\ k = j + 1
  OBVIOUS
<1> HIDE DEF a, s, j, u, k
<1>6. s \in Nat /\ j \in Nat /\ Follows(j, "]") /\ Stands(s, Content(x))
  BY <1>1 DEF s, j, u
<1>9. On(g, k, EntityEntry(e, ps, x, name, minion, id), EntityPlayers(ps, x), EntityStrings(ss, x))
  BY <1>3, <1>5, <1>6, EntityFromOn
<1> HIDE DEF g
<1>10. On(SkipSpaces(g), k + 1, EntityEntry(e, ps, x, name, minion, id), EntityPlayers(ps, x),
          EntityStrings(ss, x))
  BY <1>1, <1>9, OneSpaceOn
<1> QED BY <1>1, <1>4, <1>10

-----------------------------------------------------------------------------
(* parse_effect_value *)

\* What parse_effect_value does behind the bracket, and behind the first number.
FirstAmount(r) == Crit(Put(SignedNumber(r), "effect_value"), 1)
TypeAt(v) == SkipSpaces(IF At(v) = "(" THEN v ELSE ReadType(v, "effect_value_type"))
DashAt(t) ==
    IF At(t) # "-" THEN t ELSE SkipSpaces(ReadType(SkipSpaces(Step(t)), "effect_value_type2"))
SecondAt(d) == SkipSpaces(Crit(Put(SignedNumber(SkipSpaces(Step(d))), "effect_value2"), 2))
BothAt(d) == IF At(d) # "(" THEN d ELSE Expect(ReadType(SecondAt(d), "effect_value_type2"), ")")
SecondFrom(t) == Expect(BothAt(DashAt(t)), ")")
RestFrom(v) ==
    IF At(v) = ")" THEN Step(v)
    ELSE IF At(v) = "-" /\ At(Step(v)) = ")" THEN Jump(v, v.at + 2)
    ELSE SecondFrom(TypeAt(v))
ValueFrom(r) == IF At(r) = ")" THEN Step(r) ELSE RestFrom(SkipSpaces(FirstAmount(r)))

\* parse_effect_value, behind the bracket.
LEMMA ValueParts ==
    ASSUME NEW r
    PROVE  ReadValue(r) = ValueFrom(Expect(r, "("))
BY DEF ReadValue, ValueFrom, RestFrom, SecondFrom, BothAt, SecondAt, DashAt, TypeAt, FirstAmount

\* A type does not bring a failed reader back.
LEMMA DeadType ==
    ASSUME NEW r, NEW f, Dead(r)
    PROVE  Dead(ReadType(r, f))
<1> DEFINE a == NamedId(r, r.at, Len(line), Len(line))
           b == Put(a, f)
<1>1. Dead(a)
  BY DeadNamedId
<1> HIDE DEF a
<1>2. Dead(b)
  BY <1>1, DeadOps
<1>3. ReadType(r, f) = Expect(b, RBrace)
  BY DEF ReadType, a
<1> HIDE DEF b
<1> QED BY <1>2, <1>3, DeadOps

\* Nor does an amount.
LEMMA DeadAmount ==
    ASSUME NEW r, NEW f, NEW flag, Dead(r)
    PROVE  Dead(Crit(Put(SignedNumber(r), f), flag))
<1> DEFINE a == SignedNumber(r)
           b == Put(a, f)
<1>1. Dead(a)
  BY DeadOps
<1> HIDE DEF a
<1>2. Dead(b)
  BY <1>1, DeadOps
<1> HIDE DEF b
<1>3. Dead(Crit(b, flag))
  BY <1>2, DeadOps
<1> QED BY <1>3 DEF a, b

\* Nor does what follows the type.
LEMMA DeadTail ==
    ASSUME NEW t, Dead(t)
    PROVE  Dead(SecondFrom(t))
<1>1. ASSUME NEW d, Dead(d) PROVE Dead(BothAt(d))
  <2> DEFINE a == Step(d)
             b == SkipSpaces(a)
             c == Crit(Put(SignedNumber(b), "effect_value2"), 2)
             f == SkipSpaces(c)
             g == ReadType(f, "effect_value_type2")
  <2>1. Dead(a)
    BY <1>1, DeadOps
  <2> HIDE DEF a
  <2>2. Dead(b)
    BY <2>1, DeadOps
  <2> HIDE DEF b
  <2>3. Dead(c)
    BY <2>2, DeadAmount
  <2> HIDE DEF c
  <2>4. Dead(f)
    BY <2>3, DeadOps
  <2> HIDE DEF f
  <2>5. Dead(g)
    BY <2>4, DeadType
  <2> HIDE DEF g
  <2>6. Dead(Expect(g, ")"))
    BY <2>5, DeadOps
  <2>7. BothAt(d) = IF At(d) # "(" THEN d ELSE Expect(g, ")")
    BY DEF BothAt, SecondAt, a, b, c, f, g
  <2> QED BY <1>1, <2>6, <2>7
<1>2. Dead(DashAt(t))
  <2> DEFINE a == Step(t)
             b == SkipSpaces(a)
             g == ReadType(b, "effect_value_type2")
  <2>1. Dead(a)
    BY DeadOps
  <2> HIDE DEF a
  <2>2. Dead(b)
    BY <2>1, DeadOps
  <2> HIDE DEF b
  <2>3. Dead(g)
    BY <2>2, DeadType
  <2> HIDE DEF g
  <2>4. Dead(SkipSpaces(g))
    BY <2>3, DeadOps
  <2>5. DashAt(t) = IF At(t) # "-" THEN t ELSE SkipSpaces(g)
    BY DEF DashAt, a, b, g
  <2> QED BY <2>4, <2>5
<1>3. Dead(BothAt(DashAt(t)))
  BY <1>1, <1>2
<1> QED BY <1>3, DeadOps DEF SecondFrom

\* The end of the line is no end of a value.
LEMMA LostTail ==
    ASSUME line \in Words, NEW t, Lost(t)
    PROVE  Dead(SecondFrom(t))
<1>1. CASE t.ok = FALSE
  BY <1>1, DeadTail DEF Lost, Dead
<1>2. CASE t.ok = TRUE /\ t.at = Len(line)
  <2>1. IsReader(t)
    BY DEF Lost
  <2>2. At(t) # "-" /\ At(t) # "(" /\ Dead(Expect(t, ")"))
    BY <1>2, <2>1, AtEnd
  <2>3. DashAt(t) = t
    BY <2>2 DEF DashAt
  <2>4. BothAt(t) = t
    BY <2>2 DEF BothAt
  <2> QED BY <2>2, <2>3, <2>4 DEF SecondFrom
<1> QED BY <1>1, <1>2 DEF Lost

\* A reader that is lost behind the amount fails.
LEMMA LostRest ==
    ASSUME line \in Words, NEW v, Lost(v)
    PROVE  Dead(RestFrom(v))
<1>1. CASE Dead(v)
  <2>1. Dead(ReadType(v, "effect_value_type"))
    BY <1>1, DeadType
  <2>2. Dead(TypeAt(v))
    <3> DEFINE a == IF At(v) = "(" THEN v ELSE ReadType(v, "effect_value_type")
    <3>1. Dead(a)
      BY <1>1, <2>1
    <3> HIDE DEF a
    <3>2. Dead(SkipSpaces(a))
      BY <3>1, DeadOps
    <3> QED BY <3>2 DEF TypeAt, a
  <2>3. Dead(SecondFrom(TypeAt(v)))
    BY <2>2, DeadTail
  <2>4. Dead(Step(v)) /\ Dead(Jump(v, v.at + 2))
    BY <1>1, DeadOps
  <2> QED BY <2>3, <2>4 DEF RestFrom
<1>2. CASE ~ Dead(v)
  <2>1. IsReader(v) /\ v.ok = TRUE /\ v.at = Len(line)
    BY <1>2 DEF Lost, Dead
  <2>2. At(v) # ")" /\ At(v) # "-" /\ At(v) # "("
    BY <2>1, AtEnd
  <2>3. Dead(ReadType(v, "effect_value_type"))
    <3> DEFINE z == Len(line)
               a == NamedId(v, z, z, z)
               b == Put(a, "effect_value_type")
    <3>1. Dead(a)
      BY <2>1, NoNamedId
    <3>2. ReadType(v, "effect_value_type") = Expect(b, RBrace)
      BY <2>1 DEF ReadType
    <3> HIDE DEF a
    <3>3. Dead(b)
      BY <3>1, DeadOps
    <3> HIDE DEF b
    <3> QED BY <3>2, <3>3, DeadOps
  <2>4. Dead(SkipSpaces(ReadType(v, "effect_value_type")))
    BY <2>3, DeadOps
  <2>5. Dead(SecondFrom(TypeAt(v)))
    BY <2>2, <2>4, DeadTail DEF TypeAt
  <2> QED BY <2>2, <2>5 DEF RestFrom
<1> QED BY <1>1, <1>2

\* A reader is in front of a character of the line, or lost.
LEMMA OnOrLost ==
    ASSUME line \in Words, NEW r, NEW p \in Nat, NEW e, NEW ps, NEW ss, On(r, p, e, ps, ss)
    PROVE  \/ p < Len(line) /\ p + 1 <= Len(line) /\ Good(r, p, e, ps, ss)
           \/ ~ (p < Len(line)) /\ ~ (p + 1 <= Len(line)) /\ Lost(r)
<1>1. Len(line) \in Nat
  BY LineLength
<1>2. CASE p < Len(line)
  <2>1. p + 1 <= Len(line) /\ p <= Len(line)
    BY <1>1, <1>2
  <2> QED BY <1>2, <2>1 DEF On
<1>3. CASE ~ (p < Len(line))
  <2>1. ~ (p + 1 <= Len(line)) /\ (p <= Len(line) => p = Len(line))
    BY <1>1, <1>3
  <2>2. Lost(r)
    BY <2>1 DEF On, Good, Lost
  <2> QED BY <1>3, <2>1, <2>2
<1> QED BY <1>2, <1>3

\* A value ends.
LEMMA PlainRest ==
    ASSUME line \in Words, NEW v, NEW p \in Nat, NEW e, NEW ps, NEW ss,
           On(v, p, e, ps, ss), Follows(p, ")")
    PROVE  OnS(RestFrom(v), p + 1, e, ps, ss) /\ OnS(SecondFrom(v), p + 1, e, ps, ss)
<1>1. CASE p < Len(line) /\ p + 1 <= Len(line) /\ Good(v, p, e, ps, ss)
  <2>1. At(v) = ")"
    BY <1>1, AtMark
  <2>2. Good(Step(v), p + 1, e, ps, ss)
    BY <1>1, StepOn
  <2>3. RestFrom(v) = Step(v)
    BY <2>1 DEF RestFrom
  <2>4. SecondFrom(v) = Step(v)
    BY <2>1 DEF SecondFrom, BothAt, DashAt, Expect
  <2> QED BY <1>1, <2>2, <2>3, <2>4 DEF OnS
<1>2. CASE ~ (p + 1 <= Len(line)) /\ Lost(v)
  BY <1>2, LostRest, LostTail DEF OnS
<1> QED BY <1>1, <1>2, OnOrLost
-----------------------------------------------------------------------------
\* An amount, with the mark of a crit.

AmountEntry(e, f, n, crit, flag) ==
    IF crit THEN Flagged([e EXCEPT ![f] = n], flag) ELSE [e EXCEPT ![f] = n]

\* The parts of an amount.
LEMMA AmountText ==
    ASSUME line \in Words, NEW n \in Int, NEW crit \in BOOLEAN
    PROVE  /\ Amount(n, crit) = Decimal(n) \o Mark(crit)
           /\ Amount(n, crit) \in Words /\ Len(Amount(n, crit)) = Len(Decimal(n)) + Len(Mark(crit))
           /\ Len(Decimal(n)) \in Nat \ {0} /\ Len(Mark(crit)) \in Nat
           /\ \A p \in Nat : Stands(p, Amount(n, crit)) <=>
                                Stands(p, Decimal(n)) /\ Stands(p + Len(Decimal(n)), Mark(crit))
<1>1. Amount(n, crit) = Decimal(n) \o Mark(crit)
  BY DEF Amount, Mark
<1>2. Decimal(n) \in Words /\ Len(Decimal(n)) \in Nat \ {0}
  BY DecimalText
<1>3. Mark(crit) \in Words
  BY SmallWords, MarksAreChars DEF Mark
<1> QED BY <1>1, <1>2, <1>3, TextConcat, StandsConcat

\* An amount is read, a small one as what it is.
LEMMA AmountOn ==
    ASSUME line \in Words, NEW r, NEW p \in Nat, NEW e, NEW ps, NEW ss, NEW n \in Int,
           NEW crit \in BOOLEAN, NEW f, NEW flag, NEW c, NEW q,
           On(r, p, e, ps, ss), Stands(p, Amount(n, crit)),
           q = p + Len(Amount(n, crit)), Follows(q, c), c \notin ToSet(Digits), c # "*"
    PROVE  \E m : /\ Small(n) => m = n
                  /\ On(Crit(Put(SignedNumber(r), f), flag), q, AmountEntry(e, f, m, crit, flag), ps, ss)
<1> DEFINE k == p + Len(Decimal(n))
           s == SignedNumber(r)
           m == IF k <= Len(line) THEN s.value ELSE n
           e1 == [e EXCEPT ![f] = m]
           y == Put(s, f)
           d == IF crit THEN "*" ELSE c
<1>1. /\ k \in Nat /\ Stands(p, Decimal(n)) /\ Stands(k, Mark(crit)) /\ k + Len(Mark(crit)) = q
  <2>1. /\ Stands(p, Decimal(n)) /\ Stands(k, Mark(crit))
        /\ Len(Decimal(n)) \in Nat \ {0} /\ Len(Mark(crit)) \in Nat
        /\ q = p + (Len(Decimal(n)) + Len(Mark(crit)))
    BY AmountText
  <2> QED BY <2>1
<1> HIDE DEF k
<1>2. Follows(k, d) /\ d \notin ToSet(Digits)
  <2>1. CASE crit
    <3>1. Mark(crit) = <<"*">>
      BY <2>1 DEF Mark
    <3>2. Follows(k, "*")
      BY <1>1, <3>1, NextOne
    <3> QED BY <2>1, <3>2, NotDigits
  <2>2. CASE ~ crit
    <3>1. Len(Mark(crit)) = 0
      BY <2>2, SmallWords DEF Mark
    <3>2. k = q
      BY <1>1, <3>1
    <3> QED BY <2>2, <3>2
  <2> QED BY <2>1, <2>2
<1> HIDE DEF d
<1>3. On(s, k, e, ps, ss) /\ (k <= Len(line) /\ Small(n) => s.value = n)
  BY <1>1, <1>2, SignedOn DEF k
<1> HIDE DEF s
<1>4. (k <= Len(line) => s.value = m) /\ (Small(n) => m = n)
  BY <1>3
<1> HIDE DEF m
<1>5. On(y, k, e1, ps, ss)
  BY <1>1, <1>3, <1>4, PutOn
<1> HIDE DEF y, e1
<1>6. On(Crit(y, flag), k + Len(Mark(crit)), IF crit THEN Flagged(e1, flag) ELSE e1, ps, ss)
  <2>1. Follows(k + Len(Mark(crit)), c)
    BY <1>1
  <2> QED BY <1>1, <1>5, <2>1, CritOn
<1>7. AmountEntry(e, f, m, crit, flag) = IF crit THEN Flagged(e1, flag) ELSE e1
  BY DEF AmountEntry, e1
<1>8. On(Crit(Put(SignedNumber(r), f), flag), q, AmountEntry(e, f, m, crit, flag), ps, ss)
  BY <1>1, <1>6, <1>7 DEF y, s
<1> QED BY <1>4, <1>8

\* How an amount begins.
LEMMA AmountFirst ==
    ASSUME line \in Words, NEW n \in Int, NEW crit \in BOOLEAN, NEW p \in Nat,
           Stands(p, Amount(n, crit))
    PROVE  \E c : Follows(p, c) /\ c # Space /\ c # ")" /\ c # "end"
<1> DEFINE d == Decimal(n)
<1>1. d \in Words /\ Len(d) \in Nat \ {0} /\ d[1] \in ToSet(Digits) \cup {"-"}
  BY DecimalText
<1>2. Stands(p, d)
  BY AmountText
<1> HIDE DEF d
<1>3. Follows(p, d[1])
  BY <1>1, <1>2, NextIs
<1>4. d[1] # Space /\ d[1] # ")" /\ d[1] # "end"
  BY <1>1, NotDigits, DigitFacts, SpaceIsNone
<1> QED BY <1>3, <1>4

\* A value behind a type, and one without it.
LEMMA RestBehindType ==
    ASSUME line \in Words, NEW v, NEW p \in Nat, NEW e, NEW ps, NEW ss, NEW c,
           On(v, p, e, ps, ss), Follows(p, c), c # ")", c # "-", c # "(",
           NEW k \in Nat, p < k, NEW e2, NEW ps2, NEW ss2,
           OnS(SecondFrom(SkipSpaces(ReadType(v, "effect_value_type"))), k, e2, ps2, ss2)
    PROVE  OnS(RestFrom(v), k, e2, ps2, ss2)
<1>1. CASE p < Len(line) /\ Good(v, p, e, ps, ss)
  <2>1. At(v) = c
    BY <1>1, AtMark
  <2>2. TypeAt(v) = SkipSpaces(ReadType(v, "effect_value_type"))
    BY <2>1 DEF TypeAt
  <2>3. RestFrom(v) = SecondFrom(TypeAt(v))
    BY <2>1 DEF RestFrom
  <2> QED BY <2>2, <2>3
<1>2. CASE ~ (p < Len(line)) /\ Lost(v)
  <2>1. ~ (k <= Len(line))
    BY <1>2, LineLength
  <2> QED BY <1>2, <2>1, LostRest DEF OnS
<1> QED BY <1>1, <1>2, OnOrLost

\* Without a type the second value comes first.
LEMMA RestWithoutType ==
    ASSUME line \in Words, NEW v, NEW p \in Nat, NEW e, NEW ps, NEW ss,
           On(v, p, e, ps, ss), Follows(p, "("),
           NEW k \in Nat, p < k, NEW e2, NEW ps2, NEW ss2,
           OnS(SecondFrom(SkipSpaces(v)), k, e2, ps2, ss2)
    PROVE  OnS(RestFrom(v), k, e2, ps2, ss2)
<1>1. CASE p < Len(line) /\ Good(v, p, e, ps, ss)
  <2>1. At(v) = "("
    BY <1>1, AtMark
  <2>2. TypeAt(v) = SkipSpaces(v)
    BY <2>1 DEF TypeAt
  <2>3. RestFrom(v) = SecondFrom(TypeAt(v))
    BY <2>1 DEF RestFrom
  <2> QED BY <2>2, <2>3
<1>2. CASE ~ (p < Len(line)) /\ Lost(v)
  <2>1. ~ (k <= Len(line))
    BY <1>2, LineLength
  <2> QED BY <1>2, <2>1, LostRest DEF OnS
<1> QED BY <1>1, <1>2, OnOrLost
-----------------------------------------------------------------------------
\* The second value.

SecondParts(p, a, n, s) ==
    /\ Follows(p, "(") /\ Stands(p + 1, Amount(s.value, s.crit)) /\ Ends(a, p, Len(Amount(s.value, s.crit)))
    /\ Follows(a, Space) /\ Stands(a + 1, Named(s.type)) /\ IsEnd(n, a + 1, s.type) /\ Follows(n, ")")

IsSecond(s) ==
    s.value \in Int /\ s.crit \in BOOLEAN /\ NameOk(s.type.name) /\ IsNumber(s.type.id, IdValues)

SecondEntry(e, s, m) ==
    [AmountEntry(e, "effect_value2", m, s.crit, 2) EXCEPT !["effect_value_type2"] = s.type.id]

\* The second value is read where it begins.
LEMMA BothOn ==
    ASSUME line \in Words, NEW t, NEW p \in Nat, NEW e, NEW ps, NEW ss, NEW s, IsSecond(s),
           NEW a \in Nat, NEW n \in Nat, SecondParts(p, a, n, s),
           Good(t, p, e, ps, ss), p < Len(line), Follows(n + 1, ")")
    PROVE  \E m : /\ Small(s.value) => m = s.value
                  /\ OnS(SecondFrom(t), n + 2, SecondEntry(e, s, m), ps,
                         SetString(ss, s.type.id, s.type.name))
<1> DEFINE t1 == Step(t)
           t2 == SkipSpaces(t1)
           t3 == Crit(Put(SignedNumber(t2), "effect_value2"), 2)
           t4 == SkipSpaces(t3)
           t5 == ReadType(t4, "effect_value_type2")
           t6 == Expect(t5, ")")
           p1 == p + 1
           n1 == n + 1
           a1 == a + 1
           ss1 == SetString(ss, s.type.id, s.type.name)
<1>1. p1 \in Nat /\ n1 \in Nat /\ a1 \in Nat /\ n1 + 1 = n + 2 /\ p + 1 = p1 /\ n + 1 = n1 /\ a + 1 = a1
      /\ p1 <= Len(line)
  BY LineLength
<1>2. /\ Stands(p1, Amount(s.value, s.crit)) /\ a = p1 + Len(Amount(s.value, s.crit))
      /\ Follows(a, Space) /\ Stands(a1, Named(s.type)) /\ IsEnd(n, a1, s.type) /\ Follows(n, ")")
      /\ Follows(n1, ")") /\ Follows(p, "(")
  BY DEF SecondParts, Ends
<1>3. /\ s.value \in Int /\ s.crit \in BOOLEAN /\ NameOk(s.type.name) /\ IsNumber(s.type.id, IdValues)
  BY DEF IsSecond
<1> HIDE DEF p1, n1, a1, ss1
<1>4. DashAt(t) = t /\ SecondFrom(t) = Expect(t6, ")")
  <2>1. At(t) = "("
    BY <1>2, AtMark
  <2>2. DashAt(t) = t
    BY <2>1 DEF DashAt
  <2>3. BothAt(t) = t6
    BY <2>1 DEF BothAt, SecondAt
  <2> QED BY <2>2, <2>3 DEF SecondFrom
<1>5. On(t1, p1, e, ps, ss)
  <2>1. Good(t1, p1, e, ps, ss)
    BY <1>1, StepOn
  <2> QED BY <1>1, <2>1 DEF On
<1> HIDE DEF t1
<1>6. On(t2, p1, e, ps, ss)
  <2>1. PICK c : Follows(p1, c) /\ c # Space
    BY <1>1, <1>2, <1>3, AmountFirst
  <2> QED BY <1>1, <1>5, <2>1, NoSpaceOn
<1> HIDE DEF t2
<1>7. PICK m : /\ Small(s.value) => m = s.value
               /\ On(t3, a, AmountEntry(e, "effect_value2", m, s.crit, 2), ps, ss)
  <2>1. Space \notin ToSet(Digits) /\ Space # "*"
    BY NotDigits, SpaceIsNone
  <2> DEFINE j == p1 + Len(Amount(s.value, s.crit))
             v == s.value
             crit == s.crit
  <2>2. /\ v \in Int /\ crit \in BOOLEAN /\ Stands(p1, Amount(v, crit)) /\ Follows(j, Space)
        /\ j = p1 + Len(Amount(v, crit)) /\ j = a
    BY <1>2, <1>3
  <2> HIDE DEF v, crit, j
  <2>3. \E m : /\ Small(v) => m = v
               /\ On(Crit(Put(SignedNumber(t2), "effect_value2"), 2), j,
                     AmountEntry(e, "effect_value2", m, crit, 2), ps, ss)
    BY <1>1, <1>6, <2>1, <2>2, AmountOn
  <2> QED BY <2>2, <2>3 DEF v, crit
<1> DEFINE e1 == AmountEntry(e, "effect_value2", m, s.crit, 2)
           e2 == [e1 EXCEPT !["effect_value_type2"] = s.type.id]
<1> HIDE DEF t3
<1>8. On(t3, a, e1, ps, ss)
  BY <1>7
<1> HIDE DEF e1
<1>9. On(t4, a1, e1, ps, ss)
  <2>1. Follows(a1, s.type.name[1]) /\ s.type.name[1] # Space
    BY <1>1, <1>2, <1>3, NamedEnds DEF NameOk
  <2>2. Follows(a + 1, s.type.name[1]) /\ On(SkipSpaces(t3), a + 1, e1, ps, ss)
    BY <1>1, <1>2, <1>8, <2>1, OneSpaceOn
  <2> QED BY <1>1, <2>2
<1> HIDE DEF t4
<1>10. OnS(t5, n, e2, ps, ss1)
  <2>1. OnS(t5, a1 + Len(Named(s.type)), e2, ps, SetString(ss, s.type.id, s.type.name))
    BY <1>1, <1>2, <1>3, <1>9, ReadTypeOn
  <2> QED BY <1>2, <2>1 DEF IsEnd, ss1
<1> HIDE DEF t5, e2
<1>11. ")" # "end"
  OBVIOUS
<1>12. OnS(t6, n1, e2, ps, ss1)
  <2>1. On(t5, n, e2, ps, ss1)
    BY <1>10, StrictOn
  <2> QED BY <1>1, <1>2, <1>11, <2>1, ExpectOn
<1> HIDE DEF t6
<1>13. OnS(Expect(t6, ")"), n1 + 1, e2, ps, ss1)
  <2>1. On(t6, n1, e2, ps, ss1)
    BY <1>12, StrictOn
  <2> QED BY <1>1, <1>2, <1>11, <2>1, ExpectOn
<1>14. e2 = SecondEntry(e, s, m)
  BY DEF SecondEntry, e2, e1
<1> QED BY <1>1, <1>4, <1>7, <1>13, <1>14 DEF ss1

\* The same, wherever the reader is.
LEMMA SecondOn ==
    ASSUME line \in Words, NEW t, NEW p \in Nat, NEW e, NEW ps, NEW ss, NEW s, IsSecond(s),
           NEW a \in Nat, NEW n \in Nat, SecondParts(p, a, n, s),
           On(t, p, e, ps, ss), p < n, Follows(n + 1, ")")
    PROVE  \E m : /\ Small(s.value) => m = s.value
                  /\ OnS(SecondFrom(t), n + 2, SecondEntry(e, s, m), ps,
                         SetString(ss, s.type.id, s.type.name))
<1>1. CASE p < Len(line) /\ Good(t, p, e, ps, ss)
  BY <1>1, BothOn
<1>2. CASE ~ (p < Len(line)) /\ Lost(t)
  <2>1. ~ (n + 2 <= Len(line))
    BY <1>2, LineLength
  <2>2. OnS(SecondFrom(t), n + 2, SecondEntry(e, s, s.value), ps, SetString(ss, s.type.id, s.type.name))
    BY <1>2, <2>1, LostTail DEF OnS
  <2> QED BY <2>2
<1> QED BY <1>1, <1>2, OnOrLost

\* The four forms of what is behind the first number.

\* A value without type and second value.
LEMMA PlainValueOn ==
    ASSUME line \in Words, NEW y, NEW a \in Nat, NEW e, NEW ps, NEW ss,
           On(y, a, e, ps, ss), Follows(a, ")")
    PROVE  OnS(RestFrom(SkipSpaces(y)), a + 1, e, ps, ss)
<1>1. ")" # Space
  BY SpaceIsNone
<1>2. On(SkipSpaces(y), a, e, ps, ss)
  BY <1>1, NoSpaceOn
<1> DEFINE v == SkipSpaces(y)
<1> HIDE DEF v
<1>3. OnS(RestFrom(v), a + 1, e, ps, ss)
  BY <1>2, PlainRest DEF v
<1> QED BY <1>3 DEF v

\* From the space in front of a type to what is behind it.
LEMMA TypeReached ==
    ASSUME line \in Words, NEW y, NEW a \in Nat, NEW e, NEW ps, NEW ss, NEW x, NEW g,
           On(y, a, e, ps, ss), Follows(a, Space), NameOk(x.name), IsNumber(x.id, IdValues),
           Stands(a + 1, Named(x)), IsEnd(g, a + 1, x)
    PROVE  /\ g \in Nat /\ a + 1 < g /\ On(SkipSpaces(y), a + 1, e, ps, ss)
           /\ Follows(a + 1, x.name[1]) /\ x.name[1] \notin {Space, "]", "@", "(", ")", "-"}
           /\ OnS(ReadType(SkipSpaces(y), "effect_value_type"), g,
                  [e EXCEPT !["effect_value_type"] = x.id], ps, SetString(ss, x.id, x.name))
<1> DEFINE p == a + 1
           v == SkipSpaces(y)
<1>1. p \in Nat /\ Stands(p, Named(x)) /\ IsEnd(g, p, x) /\ p = a + 1
  OBVIOUS
<1> HIDE DEF p
<1>2. g \in Nat /\ p < g /\ Follows(p, x.name[1]) /\ x.name[1] \notin {Space, "]", "@", "(", ")", "-"}
  BY <1>1, NamedEnds DEF NameOk
<1>3. On(v, p, e, ps, ss)
  <2>1. Follows(a + 1, x.name[1]) /\ x.name[1] # Space
    BY <1>1, <1>2
  <2> QED BY <1>1, <2>1, OneSpaceOn
<1> HIDE DEF v
<1>4. OnS(ReadType(v, "effect_value_type"), p + Len(Named(x)),
          [e EXCEPT !["effect_value_type"] = x.id], ps, SetString(ss, x.id, x.name))
  BY <1>1, <1>3, ReadTypeOn
<1>5. p + Len(Named(x)) = g
  BY <1>1 DEF IsEnd
<1>6. OnS(ReadType(v, "effect_value_type"), g,
          [e EXCEPT !["effect_value_type"] = x.id], ps, SetString(ss, x.id, x.name))
  BY <1>4, <1>5
<1> QED BY <1>1, <1>2, <1>3, <1>6 DEF v

\* A value with a type.
LEMMA TypedValueOn ==
    ASSUME line \in Words, NEW y, NEW a \in Nat, NEW e, NEW ps, NEW ss, NEW x, NEW g,
           On(y, a, e, ps, ss), Follows(a, Space), NameOk(x.name), IsNumber(x.id, IdValues),
           Stands(a + 1, Named(x)), IsEnd(g, a + 1, x), Follows(g, ")")
    PROVE  OnS(RestFrom(SkipSpaces(y)), g + 1, [e EXCEPT !["effect_value_type"] = x.id], ps,
               SetString(ss, x.id, x.name))
<1> DEFINE v == SkipSpaces(y)
           p == a + 1
           e2 == [e EXCEPT !["effect_value_type"] = x.id]
           ss2 == SetString(ss, x.id, x.name)
           t0 == ReadType(v, "effect_value_type")
           t == SkipSpaces(t0)
           c == x.name[1]
           g1 == g + 1
<1>1. /\ g \in Nat /\ p < g /\ p \in Nat /\ On(v, p, e, ps, ss) /\ Follows(p, c)
      /\ c \notin {Space, "]", "@", "(", ")", "-"} /\ OnS(t0, g, e2, ps, ss2)
  BY TypeReached
<1>2. t = SkipSpaces(t0) /\ t0 = ReadType(v, "effect_value_type") /\ p < g1 /\ g1 \in Nat
  BY <1>1
<1> HIDE DEF v, p, e2, ss2, t0, c
<1>3. On(t, g, e2, ps, ss2)
  <2>1. ")" # Space /\ On(t0, g, e2, ps, ss2)
    BY <1>1, SpaceIsNone, StrictOn
  <2> QED BY <1>1, <2>1, NoSpaceOn
<1>4. OnS(SecondFrom(t), g + 1, e2, ps, ss2)
  <2> HIDE DEF t
  <2> QED BY <1>1, <1>3, PlainRest
<1>5. OnS(SecondFrom(SkipSpaces(ReadType(v, "effect_value_type"))), g1, e2, ps, ss2)
  BY <1>2, <1>4
<1> HIDE DEF g1, t
<1>6. OnS(RestFrom(v), g1, e2, ps, ss2)
  <2>1. c # ")" /\ c # "-" /\ c # "("
    BY <1>1
  <2> QED BY <1>1, <1>2, <1>5, <2>1, RestBehindType
<1> QED BY <1>6 DEF v, g1, e2, ss2

\* A value with a second one and no type.
LEMMA SecondValueOn ==
    ASSUME line \in Words, NEW y, NEW a \in Nat, NEW e, NEW ps, NEW ss, NEW s, IsSecond(s),
           NEW k \in Nat, NEW n \in Nat,
           On(y, a, e, ps, ss), Follows(a, Space), SecondParts(a + 1, k, n, s), a + 1 < n,
           Follows(n + 1, ")")
    PROVE  \E m : /\ Small(s.value) => m = s.value
                  /\ OnS(RestFrom(SkipSpaces(y)), n + 2, SecondEntry(e, s, m), ps,
                         SetString(ss, s.type.id, s.type.name))
<1> DEFINE v == SkipSpaces(y)
           p == a + 1
           t == SkipSpaces(v)
           n2 == n + 2
           ss2 == SetString(ss, s.type.id, s.type.name)
<1>1. /\ p \in Nat /\ p < n /\ p < n2 /\ n2 \in Nat /\ SecondParts(p, k, n, s) /\ p = a + 1
      /\ Follows(p, "(")
  BY DEF SecondParts
<1>2. "(" # Space
  BY SpaceIsNone
<1> HIDE DEF p
<1>3. On(v, p, e, ps, ss)
  <2>1. Follows(a + 1, "(")
    BY <1>1
  <2>2. On(v, a + 1, e, ps, ss)
    BY <1>2, <2>1, OneSpaceOn
  <2> QED BY <1>1, <2>2
<1> HIDE DEF v
<1>4. On(t, p, e, ps, ss)
  BY <1>1, <1>2, <1>3, NoSpaceOn
<1> HIDE DEF t
<1>5. PICK m : /\ Small(s.value) => m = s.value
               /\ OnS(SecondFrom(t), n + 2, SecondEntry(e, s, m), ps, SetString(ss, s.type.id, s.type.name))
  BY <1>1, <1>4, SecondOn
<1> DEFINE e2 == SecondEntry(e, s, m)
<1>6. OnS(SecondFrom(t), n2, e2, ps, ss2)
  BY <1>5
<1>7. OnS(SecondFrom(SkipSpaces(v)), n2, e2, ps, ss2)
  BY <1>6 DEF t
<1> HIDE DEF n2, e2, ss2
<1>8. OnS(RestFrom(v), n2, e2, ps, ss2)
  BY <1>1, <1>3, <1>7, RestWithoutType
<1>9. OnS(RestFrom(SkipSpaces(y)), n + 2, SecondEntry(e, s, m), ps,
          SetString(ss, s.type.id, s.type.name))
  BY <1>8 DEF v, n2, e2, ss2
<1> QED BY <1>5, <1>9

\* A value with a type and a second value.
LEMMA FullValueOn ==
    ASSUME line \in Words, NEW y, NEW a \in Nat, NEW e, NEW ps, NEW ss, NEW x, NEW b, NEW s,
           IsSecond(s), NEW k \in Nat, NEW n \in Nat,
           On(y, a, e, ps, ss), Follows(a, Space), NameOk(x.name), IsNumber(x.id, IdValues),
           Stands(a + 1, Named(x)), IsEnd(b, a + 1, x), Follows(b, Space),
           SecondParts(b + 1, k, n, s), b + 1 < n, Follows(n + 1, ")")
    PROVE  \E m : /\ Small(s.value) => m = s.value
                  /\ OnS(RestFrom(SkipSpaces(y)), n + 2,
                         SecondEntry([e EXCEPT !["effect_value_type"] = x.id], s, m), ps,
                         SetString(SetString(ss, x.id, x.name), s.type.id, s.type.name))
<1> DEFINE v == SkipSpaces(y)
           p == a + 1
           q == b + 1
           e1 == [e EXCEPT !["effect_value_type"] = x.id]
           ss1 == SetString(ss, x.id, x.name)
           ss2 == SetString(ss1, s.type.id, s.type.name)
           t0 == ReadType(v, "effect_value_type")
           t == SkipSpaces(t0)
           c == x.name[1]
           n2 == n + 2
<1>1. /\ b \in Nat /\ p < b /\ p \in Nat /\ On(v, p, e, ps, ss) /\ Follows(p, c)
      /\ c \notin {Space, "]", "@", "(", ")", "-"} /\ OnS(t0, b, e1, ps, ss1)
  <2>1. /\ On(y, a, e, ps, ss) /\ Follows(a, Space) /\ NameOk(x.name) /\ IsNumber(x.id, IdValues)
        /\ Stands(a + 1, Named(x)) /\ IsEnd(b, a + 1, x) /\ line \in Words /\ a \in Nat
    OBVIOUS
  <2>2. /\ b \in Nat /\ a + 1 < b /\ On(SkipSpaces(y), a + 1, e, ps, ss)
        /\ Follows(a + 1, x.name[1]) /\ x.name[1] \notin {Space, "]", "@", "(", ")", "-"}
        /\ OnS(ReadType(SkipSpaces(y), "effect_value_type"), b,
               [e EXCEPT !["effect_value_type"] = x.id], ps, SetString(ss, x.id, x.name))
    BY ONLY <2>1, TypeReached
  <2> QED BY <2>2
<1>2. /\ q \in Nat /\ q < n /\ p < n2 /\ n2 \in Nat /\ SecondParts(q, k, n, s) /\ Follows(q, "(")
      /\ q = b + 1
  BY <1>1 DEF SecondParts
<1> HIDE DEF v, p, e1, ss1, c, q, t0
<1>3. On(t, q, e1, ps, ss1)
  <2>1. "(" # Space /\ On(t0, b, e1, ps, ss1) /\ Follows(b + 1, "(")
    BY <1>1, <1>2, SpaceIsNone, StrictOn
  <2>2. On(SkipSpaces(t0), b + 1, e1, ps, ss1)
    BY <1>1, <2>1, OneSpaceOn
  <2> QED BY <1>2, <2>2
<1> HIDE DEF t
<1>4. PICK m : /\ Small(s.value) => m = s.value
               /\ OnS(SecondFrom(t), n + 2, SecondEntry(e1, s, m), ps, SetString(ss1, s.type.id, s.type.name))
  BY <1>2, <1>3, SecondOn
<1> DEFINE e2 == SecondEntry(e1, s, m)
<1>5. OnS(SecondFrom(t), n2, e2, ps, ss2)
  BY <1>4
<1>6. OnS(SecondFrom(SkipSpaces(ReadType(v, "effect_value_type"))), n2, e2, ps, ss2)
  BY <1>5 DEF t, t0
<1> HIDE DEF n2, e2, ss2
<1>7. OnS(RestFrom(v), n2, e2, ps, ss2)
  <2>1. c # ")" /\ c # "-" /\ c # "("
    BY <1>1
  <2> QED BY <1>1, <1>2, <1>6, <2>1, RestBehindType
<1>8. OnS(RestFrom(SkipSpaces(y)), n + 2, SecondEntry([e EXCEPT !["effect_value_type"] = x.id], s, m), ps,
          SetString(SetString(ss, x.id, x.name), s.type.id, s.type.name))
  BY <1>7 DEF v, n2, e2, ss2, e1, ss1
<1> QED BY <1>4, <1>8

IsType(x) == x = NoSheet \/ (NameOk(x.name) /\ IsNumber(x.id, IdValues))
IsSecondOrNone(s) == s = NoSheet \/ IsSecond(s)

\* The parts of a type.
LEMMA TypeText ==
    ASSUME line \in Words, NEW x, IsType(x)
    PROVE  /\ Type(x) \in Words /\ Len(Type(x)) \in Nat
           /\ x = NoSheet => Len(Type(x)) = 0
           /\ x # NoSheet =>
                 \A a \in Nat : Stands(a, Type(x)) =>
                    /\ Follows(a, Space) /\ Stands(a + 1, Named(x))
                    /\ IsEnd(a + Len(Type(x)), a + 1, x)
<1>1. CASE x = NoSheet
  BY <1>1, SmallWords DEF Type
<1>2. CASE x # NoSheet
  <2> DEFINE u == <<Space>>
             d == Named(x)
  <2>1. Type(x) = u \o d
    BY <1>2 DEF Type
  <2>2. u \in Words /\ Len(u) = 1 /\ \A a \in Nat : Stands(a, u) <=> Follows(a, Space)
    BY MarksAreChars, OneText
  <2>3. d \in Words
    BY <1>2, NamedChars DEF IsType, IsNumber
  <2> HIDE DEF u, d
  <2>4. /\ u \o d \in Words /\ Len(u \o d) = 1 + Len(d) /\ Len(d) \in Nat
        /\ \A a \in Nat : Stands(a, u \o d) => Stands(a, u) /\ Stands(a + 1, d)
    <3>1. u \o d \in Words /\ Len(u \o d) = 1 + Len(d) /\ Len(d) \in Nat
      <4>1. u \in Words /\ d \in Words /\ Len(u) = 1
        BY <2>2, <2>3
      <4>2. u \o d \in Words /\ Len(u \o d) = Len(u) + Len(d) /\ Len(d) \in Nat
        BY ONLY <4>1, TextConcat
      <4> QED BY <4>1, <4>2
    <3>2. ASSUME NEW a \in Nat, Stands(a, u \o d) PROVE Stands(a, u) /\ Stands(a + 1, d)
      <4>1. Stands(a, u) /\ Stands(a + Len(u), d)
        BY <2>2, <2>3, <3>2, StandsConcat
      <4> QED BY <2>2, <4>1
    <3> QED BY <3>1, <3>2
  <2>5. ASSUME NEW a \in Nat, Stands(a, Type(x))
        PROVE  Follows(a, Space) /\ Stands(a + 1, Named(x)) /\ IsEnd(a + Len(Type(x)), a + 1, x)
    <3>1. Follows(a, Space) /\ Stands(a + 1, d)
      BY <2>1, <2>2, <2>4, <2>5
    <3>2. a + Len(Type(x)) = a + 1 + Len(d)
      BY <2>1, <2>4
    <3> QED BY <3>1, <3>2 DEF IsEnd, d
  <2> QED BY <1>2, <2>1, <2>4, <2>5
<1> QED BY <1>1, <1>2

\* The parts of the second value.
LEMMA SecondText ==
    ASSUME line \in Words, NEW s, IsSecondOrNone(s)
    PROVE  /\ Second(s) \in Words /\ Len(Second(s)) \in Nat
           /\ s = NoSheet => Len(Second(s)) = 0
           /\ s # NoSheet =>
                 \A b \in Nat : Stands(b, Second(s)) =>
                    /\ Follows(b, Space)
                    /\ \E k, n \in Nat : /\ SecondParts(b + 1, k, n, s) /\ b + 1 < n
                                         /\ b + Len(Second(s)) = n + 1
<1>1. CASE s = NoSheet
  BY <1>1, SmallWords DEF Second
<1>2. CASE s # NoSheet
  <2> DEFINE a == <<Space, "(">>
             b == Amount(s.value, s.crit)
             c == <<Space>>
             d == Named(s.type)
             z == <<")">>
             w == (((a \o b) \o c) \o d) \o z
  <2>1. /\ a \in Words /\ Len(a) = 2 /\ c \in Words /\ Len(c) = 1 /\ z \in Words /\ Len(z) = 1
    BY MarksAreChars, OneText, TwoText
  <2>2. ASSUME NEW p \in Nat
        PROVE  /\ Stands(p, a) <=> Follows(p, Space) /\ Follows(p + 1, "(")
               /\ Stands(p, c) <=> Follows(p, Space)
               /\ Stands(p, z) <=> Follows(p, ")")
    BY MarksAreChars, OneText, TwoText
  <2>3. b \in Words /\ d \in Words
    <3>1. /\ s.value \in Int /\ s.crit \in BOOLEAN /\ NameOk(s.type.name) /\ s.type.id \in Nat
      BY <1>2 DEF IsSecondOrNone, IsSecond, IsNumber
    <3> QED BY <3>1, AmountText, NamedChars
  <2>4. Second(s) = w
    BY <1>2 DEF Second
  <2> HIDE DEF a, b, c, d, z
  <2>5. /\ w \in Words /\ Len(w) = Len(a) + Len(b) + Len(c) + Len(d) + Len(z)
        /\ Len(b) \in Nat /\ Len(d) \in Nat
        /\ \A p \in Nat :
              Stands(p, w) <=>
                 /\ Stands(p, a) /\ Stands(p + Len(a), b)
                 /\ Stands(p + Len(a) + Len(b), c)
                 /\ Stands(p + Len(a) + Len(b) + Len(c), d)
                 /\ Stands(p + Len(a) + Len(b) + Len(c) + Len(d), z)
    <3>1. a \in Words /\ b \in Words /\ c \in Words /\ d \in Words /\ z \in Words
      BY <2>1, <2>3
    <3> QED BY <3>1, FiveTexts
  <2> HIDE DEF w
  <2>6. ASSUME NEW p \in Nat, Stands(p, w)
        PROVE  /\ Follows(p, Space)
               /\ \E k, n \in Nat : /\ SecondParts(p + 1, k, n, s) /\ p + 1 < n
                                    /\ p + Len(w) = n + 1
    <3> DEFINE k == p + 2 + Len(b)
               n == k + 1 + Len(d)
    <3>1. /\ k \in Nat /\ n \in Nat /\ p + 1 < n /\ p + Len(w) = n + 1
          /\ p + Len(a) = p + 2 /\ p + Len(a) + Len(b) = k
          /\ p + Len(a) + Len(b) + Len(c) = k + 1
          /\ p + Len(a) + Len(b) + Len(c) + Len(d) = n
          /\ p + 1 + 1 = p + 2 /\ k = (p + 1) + 1 + Len(b)
      BY <2>1, <2>5
    <3>2. IsEnd(n, k + 1, s.type) /\ Ends(k, p + 1, Len(b))
      BY <3>1 DEF IsEnd, Ends, d
    <3> HIDE DEF k, n
    <3>3. /\ Stands(p, a) /\ Stands(p + 2, b) /\ Stands(k, c) /\ Stands(k + 1, d) /\ Stands(n, z)
      BY <2>5, <2>6, <3>1
    <3>4. /\ Follows(p, Space) /\ Follows(p + 1, "(") /\ Follows(k, Space) /\ Follows(n, ")")
      BY <2>2, <3>1, <3>3
    <3>5. Stands((p + 1) + 1, b)
      BY <3>1, <3>3
    <3>6. SecondParts(p + 1, k, n, s)
      BY <3>2, <3>3, <3>4, <3>5 DEF SecondParts, b, d
    <3> QED BY <3>1, <3>4, <3>6
  <2> QED BY <1>2, <2>4, <2>5, <2>6
<1> QED BY <1>1, <1>2
-----------------------------------------------------------------------------

TypeEntry(e, x) == IF x = NoSheet THEN e ELSE [e EXCEPT !["effect_value_type"] = x.id]
TypeStrings(ss, x) == IF x = NoSheet THEN ss ELSE SetString(ss, x.id, x.name)
RestEntry(e, x, s, m) ==
    IF s = NoSheet THEN TypeEntry(e, x) ELSE SecondEntry(TypeEntry(e, x), s, m)
SecondStrings(ss, s) == IF s = NoSheet THEN ss ELSE SetString(ss, s.type.id, s.type.name)

\* What follows the amount is read, in each of its forms.
LEMMA RestOn ==
    ASSUME line \in Words, NEW y, NEW a \in Nat, NEW e, NEW ps, NEW ss, NEW x, NEW s,
           IsType(x), IsSecondOrNone(s), On(y, a, e, ps, ss),
           Stands(a, Type(x)), NEW b, b = a + Len(Type(x)), Stands(b, Second(s)),
           NEW g, g = b + Len(Second(s)), Follows(g, ")")
    PROVE  \E m : /\ s # NoSheet => (Small(s.value) => m = s.value)
                  /\ OnS(RestFrom(SkipSpaces(y)), g + 1, RestEntry(e, x, s, m), ps,
                         SecondStrings(TypeStrings(ss, x), s))
<1>1. b \in Nat /\ g \in Nat /\ (x = NoSheet => b = a) /\ (s = NoSheet => g = b)
  BY TypeText, SecondText
<1>2. x # NoSheet => /\ Follows(a, Space) /\ Stands(a + 1, Named(x)) /\ IsEnd(b, a + 1, x)
                     /\ NameOk(x.name) /\ IsNumber(x.id, IdValues)
  BY TypeText DEF IsType
<1>3. s # NoSheet => /\ IsSecond(s) /\ Follows(b, Space)
                     /\ \E k, n \in Nat : SecondParts(b + 1, k, n, s) /\ b + 1 < n /\ g = n + 1
  BY <1>1, SecondText DEF IsSecondOrNone
<1>4. CASE x = NoSheet /\ s = NoSheet
  <2>1. Follows(a, ")")
    BY <1>1, <1>4
  <2>2. OnS(RestFrom(SkipSpaces(y)), a + 1, e, ps, ss)
    BY <2>1, PlainValueOn
  <2>3. RestEntry(e, x, s, 0) = e /\ SecondStrings(TypeStrings(ss, x), s) = ss /\ a = g
    BY <1>1, <1>4 DEF RestEntry, TypeEntry, SecondStrings, TypeStrings
  <2> QED BY <1>4, <2>2, <2>3
<1>5. CASE x # NoSheet /\ s = NoSheet
  <2>1. Follows(b, ")")
    BY <1>1, <1>5
  <2>2. OnS(RestFrom(SkipSpaces(y)), b + 1, [e EXCEPT !["effect_value_type"] = x.id], ps,
            SetString(ss, x.id, x.name))
    <3>1. /\ Follows(a, Space) /\ Stands(a + 1, Named(x)) /\ IsEnd(b, a + 1, x)
          /\ NameOk(x.name) /\ IsNumber(x.id, IdValues)
      BY <1>2, <1>5
    <3> HIDE <1>1, <1>2, <1>3
    <3> QED BY <2>1, <3>1, TypedValueOn
  <2>3. /\ RestEntry(e, x, s, 0) = [e EXCEPT !["effect_value_type"] = x.id]
        /\ SecondStrings(TypeStrings(ss, x), s) = SetString(ss, x.id, x.name) /\ b = g
    BY <1>1, <1>5 DEF RestEntry, TypeEntry, SecondStrings, TypeStrings
  <2> QED BY <1>5, <2>2, <2>3
<1>6. CASE x = NoSheet /\ s # NoSheet
  <2>1. PICK k, n \in Nat : SecondParts(b + 1, k, n, s) /\ b + 1 < n /\ g = n + 1
    BY <1>3, <1>6
  <2>2. /\ IsSecond(s) /\ Follows(a, Space) /\ SecondParts(a + 1, k, n, s) /\ a + 1 < n
        /\ Follows(n + 1, ")") /\ g + 1 = n + 2
    BY <1>1, <1>3, <1>6, <2>1
  <2>3. PICK m : /\ Small(s.value) => m = s.value
                 /\ OnS(RestFrom(SkipSpaces(y)), n + 2, SecondEntry(e, s, m), ps,
                        SetString(ss, s.type.id, s.type.name))
    <3>1. line \in Words /\ a \in Nat /\ On(y, a, e, ps, ss) /\ k \in Nat /\ n \in Nat
      OBVIOUS
    <3> QED BY ONLY <2>2, <3>1, SecondValueOn
  <2>4. /\ RestEntry(e, x, s, m) = SecondEntry(e, s, m)
        /\ SecondStrings(TypeStrings(ss, x), s) = SetString(ss, s.type.id, s.type.name)
    BY <1>6 DEF RestEntry, TypeEntry, SecondStrings, TypeStrings
  <2> QED BY <2>2, <2>3, <2>4
<1>7. CASE x # NoSheet /\ s # NoSheet
  <2>1. PICK k, n \in Nat : SecondParts(b + 1, k, n, s) /\ b + 1 < n /\ g = n + 1
    BY <1>3, <1>7
  <2>2. /\ IsSecond(s) /\ Follows(b, Space) /\ SecondParts(b + 1, k, n, s) /\ b + 1 < n
        /\ Follows(n + 1, ")") /\ g + 1 = n + 2
        /\ Follows(a, Space) /\ Stands(a + 1, Named(x)) /\ IsEnd(b, a + 1, x)
        /\ NameOk(x.name) /\ IsNumber(x.id, IdValues)
    BY <1>1, <1>2, <1>3, <1>7, <2>1
  <2>3. PICK m : /\ Small(s.value) => m = s.value
                 /\ OnS(RestFrom(SkipSpaces(y)), n + 2,
                        SecondEntry([e EXCEPT !["effect_value_type"] = x.id], s, m), ps,
                        SetString(SetString(ss, x.id, x.name), s.type.id, s.type.name))
    <3>1. line \in Words /\ a \in Nat /\ On(y, a, e, ps, ss) /\ k \in Nat /\ n \in Nat
      OBVIOUS
    <3> QED BY ONLY <2>2, <3>1, FullValueOn
  <2>4. /\ RestEntry(e, x, s, m) = SecondEntry([e EXCEPT !["effect_value_type"] = x.id], s, m)
        /\ SecondStrings(TypeStrings(ss, x), s) =
              SetString(SetString(ss, x.id, x.name), s.type.id, s.type.name)
    BY <1>7 DEF RestEntry, TypeEntry, SecondStrings, TypeStrings
  <2> QED BY <2>2, <2>3, <2>4
<1> QED BY <1>4, <1>5, <1>6, <1>7

IsValue(s) == s.value \in Int /\ s.crit \in BOOLEAN /\ IsType(s.value_type) /\ IsSecondOrNone(s.second)

ValueStands(p, a, b, g, s) ==
    /\ Follows(p, "(") /\ Stands(p + 1, Amount(s.value, s.crit))
    /\ a = (p + 1) + Len(Amount(s.value, s.crit)) /\ Stands(a, Type(s.value_type))
    /\ b = a + Len(Type(s.value_type)) /\ Stands(b, Second(s.second))
    /\ g = b + Len(Second(s.second)) /\ Follows(g, ")")

\* The parts of the value.
LEMMA ValueText ==
    ASSUME line \in Words, NEW s, IsValue(s)
    PROVE  /\ Value(s) \in Words
           /\ \A p \in Nat : Stands(p, Value(s)) =>
                 \E a, b, g \in Nat : /\ ValueStands(p, a, b, g, s) /\ p + Len(Value(s)) = g + 1
                                      /\ p < a /\ a <= b /\ b <= g
<1> DEFINE u == <<"(">>
           v == Amount(s.value, s.crit)
           c == Type(s.value_type)
           d == Second(s.second)
           z == <<")">>
           w == (((u \o v) \o c) \o d) \o z
<1>1. /\ u \in Words /\ Len(u) = 1 /\ z \in Words /\ Len(z) = 1
  BY MarksAreChars, OneText
<1>2. ASSUME NEW p \in Nat
      PROVE  (Stands(p, u) <=> Follows(p, "(")) /\ (Stands(p, z) <=> Follows(p, ")"))
  BY MarksAreChars, OneText
<1>3. v \in Words /\ c \in Words /\ d \in Words
  <2>1. s.value \in Int /\ s.crit \in BOOLEAN /\ IsType(s.value_type) /\ IsSecondOrNone(s.second)
    BY DEF IsValue
  <2> QED BY <2>1, AmountText, TypeText, SecondText
<1>4. Value(s) = w
  BY DEF Value
<1> HIDE DEF u, v, c, d, z
<1>5. /\ w \in Words /\ Len(w) = Len(u) + Len(v) + Len(c) + Len(d) + Len(z)
      /\ Len(v) \in Nat /\ Len(c) \in Nat /\ Len(d) \in Nat
      /\ \A p \in Nat :
            Stands(p, w) <=>
               /\ Stands(p, u) /\ Stands(p + Len(u), v)
               /\ Stands(p + Len(u) + Len(v), c)
               /\ Stands(p + Len(u) + Len(v) + Len(c), d)
               /\ Stands(p + Len(u) + Len(v) + Len(c) + Len(d), z)
  <2>1. u \in Words /\ v \in Words /\ c \in Words /\ d \in Words /\ z \in Words
    BY <1>1, <1>3
  <2> QED BY <2>1, FiveTexts
<1> HIDE DEF w
<1>6. ASSUME NEW p \in Nat, Stands(p, w)
      PROVE  \E a, b, g \in Nat : /\ ValueStands(p, a, b, g, s) /\ p + Len(w) = g + 1
                                  /\ p < a /\ a <= b /\ b <= g
  <2> DEFINE a == (p + 1) + Len(v)
             b == a + Len(c)
             g == b + Len(d)
  <2>1. /\ a \in Nat /\ b \in Nat /\ g \in Nat /\ p + Len(w) = g + 1 /\ p < a /\ a <= b /\ b <= g
        /\ p + Len(u) = p + 1 /\ p + Len(u) + Len(v) = a
        /\ p + Len(u) + Len(v) + Len(c) = b
        /\ p + Len(u) + Len(v) + Len(c) + Len(d) = g
    BY <1>1, <1>5
  <2>2. a = (p + 1) + Len(v) /\ b = a + Len(c) /\ g = b + Len(d)
    OBVIOUS
  <2> HIDE DEF a, b, g
  <2>3. /\ Stands(p, u) /\ Stands(p + 1, v) /\ Stands(a, c) /\ Stands(b, d) /\ Stands(g, z)
    BY <1>5, <1>6, <2>1
  <2>4. Follows(p, "(") /\ Follows(g, ")")
    BY <1>2, <2>1, <2>3
  <2>5. ValueStands(p, a, b, g, s)
    BY <2>2, <2>3, <2>4 DEF ValueStands, v, c, d
  <2> QED BY <2>1, <2>5
<1> QED BY <1>4, <1>5, <1>6

ValueEntry(e, s, m1, m2) ==
    RestEntry(AmountEntry(e, "effect_value", m1, s.crit, 1), s.value_type, s.second, m2)
ValueStrings(ss, s) == SecondStrings(TypeStrings(ss, s.value_type), s.second)
AreRead(s, m1, m2) ==
    /\ Small(s.value) => m1 = s.value
    /\ s.second # NoSheet => (Small(s.second.value) => m2 = s.second.value)

\* The value is read behind its bracket.
LEMMA ValueFromOn ==
    ASSUME line \in Words, NEW r, NEW p1 \in Nat, NEW e, NEW ps, NEW ss, NEW s, IsValue(s),
           OnS(r, p1, e, ps, ss), Stands(p1, Amount(s.value, s.crit)),
           NEW a \in Nat, NEW g \in Nat, a = p1 + Len(Amount(s.value, s.crit)), p1 <= a, a <= g,
           Stands(a, Type(s.value_type)),
           NEW b \in Nat, b = a + Len(Type(s.value_type)), Stands(b, Second(s.second)),
           g = b + Len(Second(s.second)), Follows(g, ")")
    PROVE  \E m1, m2 : /\ AreRead(s, m1, m2)
                       /\ OnS(ValueFrom(r), g + 1, ValueEntry(e, s, m1, m2), ps, ValueStrings(ss, s))
<1> DEFINE y == FirstAmount(r)
           x == s.value_type
           t == s.second
           v == RestFrom(SkipSpaces(y))
<1>1. s.value \in Int /\ s.crit \in BOOLEAN /\ IsType(x) /\ IsSecondOrNone(t)
  BY DEF IsValue
<1>2. \E c : Follows(a, c) /\ c \notin ToSet(Digits) /\ c # "*"
  <2>1. /\ Space \notin ToSet(Digits) /\ ")" \notin ToSet(Digits) /\ Space # "*" /\ ")" # "*"
    BY NotDigits, SpaceIsNone
  <2>2. CASE x # NoSheet
    <3>1. Follows(a, Space)
      BY <1>1, <2>2, TypeText
    <3> QED BY <2>1, <3>1
  <2>3. CASE x = NoSheet /\ t # NoSheet
    <3>1. Follows(b, Space) /\ b = a
      <4>1. Follows(b, Space)
        BY <1>1, <2>3, SecondText
      <4>2. Len(Type(x)) = 0
        BY <1>1, <2>3, TypeText
      <4> QED BY <4>1, <4>2
    <3> QED BY <2>1, <3>1
  <2>4. CASE x = NoSheet /\ t = NoSheet
    <3>1. a = b /\ b = g
      BY <1>1, <2>4, TypeText, SecondText
    <3> QED BY <2>1, <3>1
  <2> QED BY <2>2, <2>3, <2>4
<1> DEFINE n == s.value
           crit == s.crit
<1>3. PICK m1 : /\ Small(n) => m1 = n
                /\ On(y, a, AmountEntry(e, "effect_value", m1, crit, 1), ps, ss)
  <2>1. On(r, p1, e, ps, ss)
    BY StrictOn
  <2>2. /\ n \in Int /\ crit \in BOOLEAN /\ Stands(p1, Amount(n, crit)) /\ a = p1 + Len(Amount(n, crit))
    BY <1>1
  <2>3. PICK c : Follows(a, c) /\ c \notin ToSet(Digits) /\ c # "*"
    BY <1>2
  <2> HIDE DEF n, crit, y
  <2>4. Follows(p1 + Len(Amount(n, crit)), c)
    BY <2>2, <2>3
  <2>5. \E m : /\ Small(n) => m = n
               /\ On(Crit(Put(SignedNumber(r), "effect_value"), 1), p1 + Len(Amount(n, crit)),
                     AmountEntry(e, "effect_value", m, crit, 1), ps, ss)
    BY <2>1, <2>2, <2>3, <2>4, AmountOn
  <2> QED BY <2>2, <2>5 DEF FirstAmount, y
<1> DEFINE e1 == AmountEntry(e, "effect_value", m1, crit, 1)
<1>4. PICK m2 : /\ t # NoSheet => (Small(t.value) => m2 = t.value)
                /\ OnS(v, g + 1, RestEntry(e1, x, t, m2), ps, SecondStrings(TypeStrings(ss, x), t))
  <2>1. On(y, a, e1, ps, ss) /\ IsType(x) /\ IsSecondOrNone(t) /\ line \in Words /\ a \in Nat
        /\ Stands(a, Type(x)) /\ b = a + Len(Type(x)) /\ Stands(b, Second(t))
        /\ g = b + Len(Second(t)) /\ Follows(g, ")")
    BY <1>1, <1>3
  <2> HIDE DEF e1, x, t, y, n, crit
  <2>2. \E m : /\ t # NoSheet => (Small(t.value) => m = t.value)
               /\ OnS(RestFrom(SkipSpaces(y)), g + 1, RestEntry(e1, x, t, m), ps,
                      SecondStrings(TypeStrings(ss, x), t))
    BY ONLY <2>1, RestOn
  <2> QED BY <2>2
<1>5. AreRead(s, m1, m2)
  BY <1>3, <1>4 DEF AreRead
<1>6. RestEntry(e1, x, t, m2) = ValueEntry(e, s, m1, m2)
      /\ SecondStrings(TypeStrings(ss, x), t) = ValueStrings(ss, s)
  BY DEF ValueEntry, ValueStrings
<1> HIDE DEF e1, x, t, n, crit
<1>7. ValueFrom(r) = IF At(r) = ")" THEN Step(r) ELSE v
  BY DEF ValueFrom
<1> HIDE DEF v, y
<1>8. OnS(ValueFrom(r), g + 1, ValueEntry(e, s, m1, m2), ps, ValueStrings(ss, s))
  <2>1. CASE p1 < Len(line)
    <3>1. PICK c : Follows(p1, c) /\ c # ")"
      BY <1>1, AmountFirst
    <3>2. Good(r, p1, e, ps, ss)
      <4>1. p1 <= Len(line)
        BY <2>1, LineLength
      <4> QED BY <4>1 DEF OnS
    <3>3. At(r) = c
      BY <2>1, <3>1, <3>2, AtMark
    <3> QED BY <1>4, <1>6, <1>7, <3>1, <3>3
  <2>2. CASE ~ (p1 < Len(line)) /\ p1 <= Len(line)
    <3>1. p1 = Len(line)
      BY <2>2, LineLength
    <3>2. IsReader(r) /\ r.at = Len(line)
      BY <2>2, <3>1 DEF OnS, Good
    <3>3. At(r) # ")"
      BY <3>2, AtEnd
    <3> QED BY <1>4, <1>6, <1>7, <3>3
  <2>3. CASE ~ (p1 <= Len(line))
    <3>1. ~ (g + 1 <= Len(line))
      BY <2>3, LineLength
    <3>2. Dead(r)
      BY <2>3 DEF OnS
    <3>3. Dead(Step(r))
      BY <3>2, DeadOps
    <3>4. Dead(v)
      BY <1>4, <3>1 DEF OnS
    <3> QED BY <1>7, <3>1, <3>3, <3>4 DEF OnS
  <2> QED BY <2>1, <2>2, <2>3
<1> QED BY <1>5, <1>8

\* The value of the format is read.
LEMMA ReadValueOn ==
    ASSUME line \in Words, NEW r0, NEW p \in Nat, NEW e, NEW ps, NEW ss, NEW s, IsValue(s),
           On(r0, p, e, ps, ss), Stands(p, Value(s)), NEW q, q = p + Len(Value(s))
    PROVE  \E m1, m2 : /\ AreRead(s, m1, m2)
                       /\ OnS(ReadValue(r0), q, ValueEntry(e, s, m1, m2), ps, ValueStrings(ss, s))
<1> DEFINE r == Expect(r0, "(")
           p1 == p + 1
<1>1. PICK a, b, g \in Nat : /\ ValueStands(p, a, b, g, s) /\ p + Len(Value(s)) = g + 1
                             /\ p < a /\ a <= b /\ b <= g
  BY ValueText
<1>2. /\ Follows(p, "(") /\ Stands(p1, Amount(s.value, s.crit))
      /\ a = p1 + Len(Amount(s.value, s.crit)) /\ Stands(a, Type(s.value_type))
      /\ b = a + Len(Type(s.value_type)) /\ Stands(b, Second(s.second))
      /\ g = b + Len(Second(s.second)) /\ Follows(g, ")")
  BY <1>1 DEF ValueStands
<1>3. OnS(r, p1, e, ps, ss) /\ p1 \in Nat
  <2>1. "(" # "end"
    OBVIOUS
  <2> QED BY <1>2, <2>1, ExpectOn
<1>4. p1 <= a /\ a <= g /\ q = g + 1
  BY <1>1
<1> HIDE DEF r, p1
<1>5. \E m1, m2 : /\ AreRead(s, m1, m2)
                  /\ OnS(ValueFrom(r), g + 1, ValueEntry(e, s, m1, m2), ps, ValueStrings(ss, s))
  <2>1. line \in Words /\ IsValue(s) /\ a \in Nat /\ b \in Nat /\ g \in Nat
    BY <1>1
  <2> QED BY ONLY <1>2, <1>3, <1>4, <2>1, ValueFromOn
<1> QED BY <1>4, <1>5, ValueParts DEF r

-----------------------------------------------------------------------------
(* The ability and the threat *)

Inside(x) == IF x = NoSheet THEN << >> ELSE Named(x)
AbilityEntry(e, x) == IF x = NoSheet THEN e ELSE [e EXCEPT !["ability"] = x.id]

\* The parts of the ability.
LEMMA AbilityText ==
    ASSUME line \in Words, NEW x, IsType(x)
    PROVE  LET w == Inside(x)
           IN  /\ Ability(x) \in Words /\ w \in Words
               /\ \A p \in Nat : Stands(p, Ability(x)) =>
                     LET q == p + 1 + Len(w)
                     IN  /\ Follows(p, "[") /\ Stands(p + 1, w) /\ q \in Nat
                         /\ Follows(q, "]") /\ Follows(q + 1, Space) /\ p + Len(Ability(x)) = q + 2
<1> DEFINE u == <<"[">>
           w == Inside(x)
           z == <<"]", Space>>
           t == (u \o w) \o z
<1>1. u \in Words /\ Len(u) = 1 /\ z \in Words /\ Len(z) = 2
  BY MarksAreChars, OneText, TwoText
<1>2. ASSUME NEW p \in Nat
      PROVE  (Stands(p, u) <=> Follows(p, "[")) /\ (Stands(p, z) <=> Follows(p, "]") /\ Follows(p + 1, Space))
  BY MarksAreChars, OneText, TwoText
<1>3. w \in Words
  <2>1. CASE x = NoSheet
    BY <2>1, SmallWords DEF Inside
  <2>2. CASE x # NoSheet
    BY <2>2, NamedChars DEF IsType, IsNumber, Inside
  <2> QED BY <2>1, <2>2
<1>4. Ability(x) = t
  BY DEF Ability, Inside
<1> HIDE DEF u, w, z
<1>5. /\ t \in Words /\ Len(t) = Len(u) + Len(w) + Len(z) /\ Len(w) \in Nat
      /\ \A p \in Nat :
            Stands(p, t) <=>
               /\ Stands(p, u) /\ Stands(p + Len(u), w) /\ Stands(p + Len(u) + Len(w), z)
  <2>1. u \in Words /\ w \in Words /\ z \in Words
    BY <1>1, <1>3
  <2> QED BY <2>1, ThreeTexts
<1> HIDE DEF t
<1>6. ASSUME NEW p \in Nat, Stands(p, t)
      PROVE  LET q == p + 1 + Len(w)
             IN  /\ Follows(p, "[") /\ Stands(p + 1, w) /\ q \in Nat
                 /\ Follows(q, "]") /\ Follows(q + 1, Space) /\ p + Len(t) = q + 2
  <2> DEFINE q == p + 1 + Len(w)
  <2>1. q \in Nat /\ p + Len(t) = q + 2 /\ p + Len(u) = p + 1 /\ p + Len(u) + Len(w) = q
    BY <1>1, <1>5
  <2>2. q = p + 1 + Len(w)
    OBVIOUS
  <2> HIDE DEF q
  <2>3. Stands(p, u) /\ Stands(p + 1, w) /\ Stands(q, z)
    BY <1>5, <1>6, <2>1
  <2>4. Follows(p, "[") /\ Follows(q, "]") /\ Follows(q + 1, Space)
    BY <1>2, <2>1, <2>3
  <2> QED BY <2>1, <2>2, <2>3, <2>4
<1> QED BY <1>3, <1>4, <1>5, <1>6 DEF w

\* The ability of the format is read.
LEMMA AbilityOn ==
    ASSUME line \in Words, NEW r, NEW p \in Nat, NEW e, NEW ps, NEW ss, NEW x, NEW next, IsType(x),
           On(r, p, e, ps, ss), Stands(p, Ability(x)),
           NEW q, q = p + Len(Ability(x)), Follows(q, next), next # Space
    PROVE  On(SkipSpaces(ReadLocalized(r, "[", "]", "ability")), q, AbilityEntry(e, x), ps,
              TypeStrings(ss, x))
<1> DEFINE y == ReadLocalized(r, "[", "]", "ability")
           w == Inside(x)
           j == p + 1 + Len(w)
           k == j + 1
           e2 == AbilityEntry(e, x)
           ss2 == TypeStrings(ss, x)
<1>1. /\ Follows(p, "[") /\ Stands(p + 1, w) /\ j \in Nat
      /\ Follows(j, "]") /\ Follows(j + 1, Space) /\ q = j + 2
  <2>1. /\ Follows(p, "[") /\ Stands(p + 1, w) /\ j \in Nat
        /\ Follows(j, "]") /\ Follows(j + 1, Space) /\ p + Len(Ability(x)) = j + 2
    BY ONLY line \in Words, p \in Nat, IsType(x), Stands(p, Ability(x)), AbilityText
  <2> QED BY <2>1
<1>2. k \in Nat /\ k = j + 1 /\ k + 1 = q
  BY <1>1
<1>3. OnS(y, k, e2, ps, ss2)
  <2>1. CASE x = NoSheet
    <3>1. Len(w) = 0
      BY <2>1, SmallWords DEF Inside
    <3> HIDE DEF w
    <3>2. j = p + 1 /\ k = p + 2
      BY <3>1
    <3> HIDE DEF j, k
    <3>3. Follows(p + 1, "]")
      BY <1>1, <3>2
    <3>4. OnS(y, p + 2, e, ps, ss)
      BY <1>1, <3>3, EmptyLocalizedOn
    <3> QED BY <2>1, <3>2, <3>4 DEF AbilityEntry, TypeStrings
  <2>2. CASE x # NoSheet
    <3> DEFINE m == p + 1
    <3>1. Stands(m, Named(x)) /\ IsEnd(j, m, x) /\ m \in Nat /\ m = p + 1
      BY <1>1, <2>2 DEF IsEnd, Inside
    <3> HIDE DEF m, j, k
    <3>2. NameOk(x.name) /\ IsNumber(x.id, IdValues) /\ "[" # "end"
      BY <2>2 DEF IsType
    <3>3. OnS(y, j + 1, [e EXCEPT !["ability"] = x.id], ps, SetString(ss, x.id, x.name))
      BY <1>1, <3>1, <3>2, LocalizedOn
    <3> QED BY <1>2, <2>2, <3>3 DEF AbilityEntry, TypeStrings
  <2> QED BY <2>1, <2>2
<1> HIDE DEF y, j, k, e2, ss2, w
<1>4. On(y, k, e2, ps, ss2) /\ Follows(k, Space) /\ Follows(k + 1, next)
  BY <1>1, <1>2, <1>3, StrictOn
<1>5. On(SkipSpaces(y), k + 1, e2, ps, ss2)
  BY <1>2, <1>4, OneSpaceOn
<1> QED BY <1>2, <1>5 DEF y, e2, ss2
-----------------------------------------------------------------------------
\* The threat, which may be missing.

\* The threat is read, or is missing; a part of it is refused.
LEMMA ThreatOn ==
    ASSUME line \in Words, NEW v, NEW b \in Nat, NEW e, NEW ps, NEW ss, NEW n \in Int, NEW k \in Nat,
           OnS(v, b, e, ps, ss), Follows(b, Space), Follows(b + 1, "<"), Stands(b + 2, Decimal(n)),
           k = (b + 2) + Len(Decimal(n)), Follows(k, ">")
    PROVE  LET t == ReadThreat(SkipSpaces(v))
           IN  /\ Len(line) < b => Dead(t)
               /\ Len(line) \in {b, b + 1} => Good(t, Len(line), e, ps, ss)
               /\ b + 2 <= Len(line) =>
                     \E m : /\ Small(n) => m = n
                            /\ OnS(t, k + 1, [e EXCEPT !["effect_thread"] = m], ps, ss)
<1> DEFINE y == SkipSpaces(v)
           t == ReadThreat(y)
           z == Step(y)
           c == SignedNumber(z)
           d == Put(c, "effect_thread")
           x == Expect(d, ">")
<1>1. Len(line) \in Nat
  BY LineLength
<1>2. t = IF At(y) # "<" THEN y ELSE x
  BY DEF ReadThreat
<1> HIDE DEF t, x, d, c, z
<1>3. ASSUME Len(line) < b PROVE Dead(t)
  <2>1. Dead(v)
    <3>1. ~ (b <= Len(line))
      BY <1>1, <1>3
    <3> QED BY <3>1 DEF OnS
  <2>2. Dead(y)
    BY <2>1, DeadOps
  <2> HIDE DEF y
  <2>3. Dead(z)
    BY <2>2, DeadOps DEF z
  <2>4. Dead(c)
    BY <2>3, DeadOps DEF c
  <2>5. Dead(d)
    BY <2>4, DeadOps DEF d
  <2>6. Dead(x)
    BY <2>5, DeadOps DEF x
  <2> QED BY <1>2, <2>2, <2>6
<1>4. ASSUME Len(line) = b PROVE Good(t, Len(line), e, ps, ss)
  <2>1. Good(v, b, e, ps, ss)
    BY <1>1, <1>4 DEF OnS
  <2>2. v.at \in 0..Len(line) /\ v.at = Len(line) /\ IsReader(v)
    BY <1>1, <1>4, <2>1 DEF Good
  <2>3. y = Jump(v, v.at)
    BY <2>2, NoSpaces
  <2> HIDE DEF y
  <2>4. Good(y, b, e, ps, ss)
    <3>1. /\ IsReader(y) /\ y.at = v.at /\ y.ok = v.ok /\ y.entry = v.entry
          /\ y.players = v.players /\ y.strings = v.strings
      BY <2>2, <2>3, JumpFacts
    <3> QED BY <2>1, <3>1 DEF Good
  <2>5. At(y) # "<"
    BY <1>4, <2>4, AtEnd DEF Good
  <2> QED BY <1>2, <1>4, <2>4, <2>5
<1>5. ASSUME b + 1 <= Len(line) PROVE Good(y, b + 1, e, ps, ss)
  <2>1. b <= Len(line)
    BY <1>1, <1>5
  <2>2. On(v, b, e, ps, ss)
    BY StrictOn
  <2>3. "<" # Space
    BY SpaceIsNone
  <2>4. On(y, b + 1, e, ps, ss)
    BY <2>2, <2>3, OneSpaceOn
  <2> QED BY <1>5, <2>4 DEF On
<1> HIDE DEF y
<1>6. ASSUME Len(line) = b + 1 PROVE Good(t, Len(line), e, ps, ss)
  <2>1. Good(y, Len(line), e, ps, ss)
    BY <1>1, <1>5, <1>6
  <2>2. At(y) # "<"
    BY <2>1, AtEnd DEF Good
  <2> QED BY <1>2, <2>1, <2>2
<1>7. ASSUME b + 2 <= Len(line)
      PROVE  \E m : /\ Small(n) => m = n
                    /\ OnS(t, k + 1, [e EXCEPT !["effect_thread"] = m], ps, ss)
  <2> DEFINE a == b + 1
             p == b + 2
  <2>1. a \in Nat /\ p \in Nat /\ a + 1 = p /\ a < Len(line) /\ a <= Len(line) /\ p <= Len(line)
    BY <1>1, <1>7
  <2>2. Good(y, a, e, ps, ss) /\ Follows(a, "<")
    BY <1>5, <2>1
  <2>3. Stands(p, Decimal(n)) /\ k = p + Len(Decimal(n))
    OBVIOUS
  <2> HIDE DEF a, p
  <2>4. t = x
    <3>1. At(y) = "<"
      BY <2>1, <2>2, AtMark
    <3> QED BY <1>2, <3>1
  <2>5. On(z, p, e, ps, ss)
    <3>1. Good(z, a + 1, e, ps, ss)
      BY <2>1, <2>2, StepOn DEF z
    <3> QED BY <2>1, <3>1 DEF On
  <2>6. On(c, k, e, ps, ss) /\ (k <= Len(line) /\ Small(n) => c.value = n)
    <3>1. Follows(p + Len(Decimal(n)), ">") /\ ">" \notin ToSet(Digits)
      BY <2>3, NotDigits
    <3> QED BY <2>1, <2>3, <2>5, <3>1, SignedOn DEF c
  <2> DEFINE m == IF k <= Len(line) THEN c.value ELSE n
  <2>7. (Small(n) => m = n) /\ (k <= Len(line) => c.value = m)
    BY <2>6
  <2> HIDE DEF m
  <2> DEFINE e2 == [e EXCEPT !["effect_thread"] = m]
  <2>8. On(d, k, e2, ps, ss)
    BY <2>6, <2>7, PutOn DEF d
  <2> HIDE DEF e2
  <2>9. OnS(x, k + 1, e2, ps, ss)
    <3>1. ">" # "end"
      OBVIOUS
    <3> QED BY <2>8, <3>1, ExpectOn DEF x
  <2> QED BY <2>4, <2>7, <2>9 DEF e2
<1> QED BY <1>1, <1>3, <1>4, <1>6, <1>7 DEF t, y

-----------------------------------------------------------------------------
(* The line as a whole *)

\* What the lemmas need to know of a line.
LEMMA SheetOk ==
    ASSUME NEW s, IsSheet(s)
    PROVE  /\ \A i \in 1..4 : IsNumber(s.time[i], IntValues)
           /\ IsEntity(s.src) /\ IsEntity(s.dst) /\ IsType(s.ability)
           /\ NameOk(s.action.name) /\ IsNumber(s.action.id, IdValues) /\ NoColon(s.action.name)
           /\ NameOk(s.type.name) /\ IsNumber(s.type.id, IdValues)
           /\ IsValue(s) /\ s.threat \in Int
<1>1. /\ \A i \in 1..4 : IsNumber(s.time[i], IntValues)
      /\ IsEntity(s.src) /\ IsEntity(s.dst)
      /\ \A x \in {s.ability, s.value_type} \ {NoSheet} : IsNamed(x)
      /\ IsNamed(s.action) /\ NoColon(s.action.name) /\ IsNamed(s.type)
      /\ s.value \in Int /\ s.crit \in BOOLEAN /\ s.threat \in Int
      /\ s.second # NoSheet =>
            s.second.value \in Int /\ s.second.crit \in BOOLEAN /\ IsNamed(s.second.type)
  BY DEF IsSheet
<1>2. ASSUME NEW x, IsNamed(x) PROVE NameOk(x.name) /\ IsNumber(x.id, IdValues)
  BY <1>2, NamesAreOk DEF IsNamed
<1>3. IsType(s.ability) /\ IsType(s.value_type)
  BY <1>1, <1>2 DEF IsType
<1>4. IsSecondOrNone(s.second)
  BY <1>1, <1>2 DEF IsSecondOrNone, IsSecond
<1> QED BY <1>1, <1>2, <1>3, <1>4 DEF IsValue

Joins(t, u, v) == t = u \o v

\* The end of a text stands behind its beginning.
LEMMA Prefix ==
    ASSUME line \in Words, NEW u \in Words, NEW v \in Words, NEW t, Joins(t, u, v)
    PROVE  /\ t \in Words /\ Len(u) \in Nat /\ Len(v) \in Nat /\ Len(t) = Len(u) + Len(v)
           /\ Stands(0, t) => Stands(0, u) /\ Stands(Len(u), v)
<1>1. t \in Words /\ Len(u) \in Nat /\ Len(v) \in Nat /\ Len(t) = Len(u) + Len(v)
  BY TextConcat DEF Joins
<1>2. Stands(0, t) => Stands(0, u) /\ Stands(0 + Len(u), v)
  BY StandsConcat DEF Joins
<1>3. 0 + Len(u) = Len(u)
  BY <1>1
<1> QED BY <1>1, <1>2, <1>3

BodyStands(s, p1, p2, p3, p4, p5, b) ==
    /\ Stands(0, Time(s.time)) /\ p1 = Len(Time(s.time))
    /\ Stands(p1, Entity(s.src)) /\ p2 = p1 + Len(Entity(s.src))
    /\ Stands(p2, Entity(s.dst)) /\ p3 = p2 + Len(Entity(s.dst))
    /\ Stands(p3, Ability(s.ability)) /\ p4 = p3 + Len(Ability(s.ability))
    /\ Stands(p4, Effect(s.action, s.type)) /\ p5 = p4 + Len(Effect(s.action, s.type))
    /\ Stands(p5, Value(s)) /\ b = p5 + Len(Value(s))

\* The parts of a line without threat.
LEMMA BodyText ==
    ASSUME line \in Words, NEW s, IsSheet(s)
    PROVE  /\ Body(s) \in Words
           /\ Stands(0, Body(s)) =>
                 \E p1, p2, p3, p4, p5 \in Nat : BodyStands(s, p1, p2, p3, p4, p5, Len(Body(s)))
<1> DEFINE w1 == Time(s.time)
           w2 == Entity(s.src)
           w3 == Entity(s.dst)
           w4 == Ability(s.ability)
           w5 == Effect(s.action, s.type)
           w6 == Value(s)
           t2 == w1 \o w2
           t3 == t2 \o w3
           t4 == t3 \o w4
           t5 == t4 \o w5
           t6 == t5 \o w6
<1>1. /\ w1 \in Words /\ w2 \in Words /\ w3 \in Words /\ w4 \in Words /\ w5 \in Words /\ w6 \in Words
  <2>1. /\ \A i \in 1..4 : s.time[i] \in Nat
        /\ IsEntity(s.src) /\ IsEntity(s.dst) /\ IsType(s.ability)
        /\ NameOk(s.action.name) /\ NameOk(s.type.name) /\ s.action.id \in Nat /\ s.type.id \in Nat
        /\ IsValue(s)
    BY SheetOk DEF IsNumber
  <2>2. w1 \in Words
    BY <2>1, TimeText
  <2>3. w2 \in Words /\ w3 \in Words
    BY <2>1, EntityText
  <2>4. w4 \in Words
    BY <2>1, AbilityText
  <2>5. w5 \in Words
    BY <2>1, EffectText
  <2>6. w6 \in Words
    BY <2>1, ValueText
  <2> QED BY <2>2, <2>3, <2>4, <2>5, <2>6
<1>2. Body(s) = t6
  BY DEF Body
<1>3. /\ Joins(t2, w1, w2) /\ Joins(t3, t2, w3) /\ Joins(t4, t3, w4) /\ Joins(t5, t4, w5)
      /\ Joins(t6, t5, w6) /\ line \in Words
  BY DEF Joins
<1> HIDE DEF w1, w2, w3, w4, w5, w6, t2, t3, t4, t5, t6
<1>4. /\ t2 \in Words /\ Len(w1) \in Nat /\ Len(t2) = Len(w1) + Len(w2)
      /\ Stands(0, t2) => Stands(0, w1) /\ Stands(Len(w1), w2)
  BY ONLY <1>1, <1>3, Prefix
<1>5. /\ t3 \in Words /\ Len(t2) \in Nat /\ Len(t3) = Len(t2) + Len(w3)
      /\ Stands(0, t3) => Stands(0, t2) /\ Stands(Len(t2), w3)
  BY ONLY <1>1, <1>3, <1>4, Prefix
<1>6. /\ t4 \in Words /\ Len(t3) \in Nat /\ Len(t4) = Len(t3) + Len(w4)
      /\ Stands(0, t4) => Stands(0, t3) /\ Stands(Len(t3), w4)
  BY ONLY <1>1, <1>3, <1>5, Prefix
<1>7. /\ t5 \in Words /\ Len(t4) \in Nat /\ Len(t5) = Len(t4) + Len(w5)
      /\ Stands(0, t5) => Stands(0, t4) /\ Stands(Len(t4), w5)
  BY ONLY <1>1, <1>3, <1>6, Prefix
<1>8. /\ t6 \in Words /\ Len(t5) \in Nat /\ Len(t6) = Len(t5) + Len(w6)
      /\ Stands(0, t6) => Stands(0, t5) /\ Stands(Len(t5), w6)
  BY ONLY <1>1, <1>3, <1>7, Prefix
<1>9. ASSUME Stands(0, t6)
      PROVE  BodyStands(s, Len(w1), Len(t2), Len(t3), Len(t4), Len(t5), Len(t6))
  BY <1>4, <1>5, <1>6, <1>7, <1>8, <1>9 DEF BodyStands, w1, w2, w3, w4, w5, w6
<1> QED BY <1>2, <1>4, <1>5, <1>6, <1>7, <1>8, <1>9

\* The parts of a whole line.
LEMMA LineText ==
    ASSUME line \in Words, NEW s, IsSheet(s)
    PROVE  LET b == Len(Body(s))
               k == (b + 2) + Len(Decimal(s.threat))
           IN  /\ WholeLine(s) \in Words /\ b \in Nat /\ k \in Nat /\ b + 2 <= k /\ Len(WholeLine(s)) = k + 1
               /\ Stands(0, WholeLine(s)) =>
                     /\ Stands(0, Body(s)) /\ Follows(b, Space) /\ Follows(b + 1, "<")
                     /\ Stands(b + 2, Decimal(s.threat)) /\ Follows(k, ">")
<1> DEFINE w1 == Body(s)
           w2 == <<Space, "<">>
           w3 == Decimal(s.threat)
           w4 == <<">">>
           t2 == w1 \o w2
           t3 == t2 \o w3
           t4 == t3 \o w4
           b == Len(w1)
           k == (b + 2) + Len(w3)
<1>1. /\ w2 \in Words /\ Len(w2) = 2 /\ w4 \in Words /\ Len(w4) = 1
  BY MarksAreChars, OneText, TwoText
<1>2. ASSUME NEW p \in Nat
      PROVE  (Stands(p, w2) <=> Follows(p, Space) /\ Follows(p + 1, "<")) /\ (Stands(p, w4) <=> Follows(p, ">"))
  BY MarksAreChars, OneText, TwoText
<1>3. w1 \in Words /\ w3 \in Words
  BY BodyText, SheetOk, DecimalText
<1>4. WholeLine(s) = t4
  BY DEF WholeLine
<1>5. Joins(t2, w1, w2) /\ Joins(t3, t2, w3) /\ Joins(t4, t3, w4) /\ line \in Words
  BY DEF Joins
<1> HIDE DEF w1, w2, w3, w4, t2, t3, t4
<1>6. /\ t2 \in Words /\ Len(w1) \in Nat /\ Len(t2) = Len(w1) + Len(w2)
      /\ Stands(0, t2) => Stands(0, w1) /\ Stands(Len(w1), w2)
  BY ONLY <1>1, <1>3, <1>5, Prefix
<1>7. /\ t3 \in Words /\ Len(t2) \in Nat /\ Len(w3) \in Nat /\ Len(t3) = Len(t2) + Len(w3)
      /\ Stands(0, t3) => Stands(0, t2) /\ Stands(Len(t2), w3)
  BY ONLY <1>3, <1>5, <1>6, Prefix
<1>8. /\ t4 \in Words /\ Len(t3) \in Nat /\ Len(t4) = Len(t3) + Len(w4)
      /\ Stands(0, t4) => Stands(0, t3) /\ Stands(Len(t3), w4)
  BY ONLY <1>1, <1>5, <1>7, Prefix
<1>9. /\ b \in Nat /\ k \in Nat /\ b + 2 <= k /\ Len(t4) = k + 1 /\ Len(t2) = b + 2 /\ Len(t3) = k
  BY <1>1, <1>6, <1>7, <1>8
<1>10. ASSUME Stands(0, t4)
       PROVE  /\ Stands(0, w1) /\ Follows(b, Space) /\ Follows(b + 1, "<") /\ Stands(b + 2, w3) /\ Follows(k, ">")
  <2>1. Stands(0, w1) /\ Stands(b, w2) /\ Stands(Len(t2), w3) /\ Stands(Len(t3), w4)
    BY <1>6, <1>7, <1>8, <1>10
  <2>2. Stands(b + 2, w3) /\ Stands(k, w4)
    BY <1>9, <2>1
  <2> HIDE DEF b, k
  <2>3. Follows(b, Space) /\ Follows(b + 1, "<") /\ Follows(k, ">")
    BY <1>2, <1>9, <2>1, <2>2
  <2> QED BY <2>1, <2>2, <2>3
<1> QED BY <1>4, <1>8, <1>9, <1>10 DEF w1, w3

\* The readers at the beginning of each block, and behind the last one.
SrcFrom(r) == SkipSpaces(ReadTime(r))
DstFrom(r) == SkipSpaces(ReadEntity(SrcFrom(r), "src", "src_minion", "src_id"))
AbilityFrom(r) == SkipSpaces(ReadEntity(DstFrom(r), "dst", "dst_minion", "dst_id"))
EffectFrom(r) == SkipSpaces(ReadLocalized(AbilityFrom(r), "[", "]", "ability"))
ValueAt(r) == SkipSpaces(ReadEffect(EffectFrom(r)))
BodyFrom(r) == ReadValue(ValueAt(r))

TimeEntry(s) == [Blank EXCEPT !["time"] = Clock(s.time)]
SrcEntry(s, ps) == EntityEntry(TimeEntry(s), ps, s.src, "src", "src_minion", "src_id")
DstEntry(s, ps) ==
    EntityEntry(SrcEntry(s, ps), EntityPlayers(ps, s.src), s.dst, "dst", "dst_minion", "dst_id")
EffectEntry(s, ps) ==
    [[AbilityEntry(DstEntry(s, ps), s.ability) EXCEPT !["effect_action"] = s.action.id]
        EXCEPT !["effect_type"] = s.type.id]
SheetEntry(s, ps, m1, m2) == ValueEntry(EffectEntry(s, ps), s, m1, m2)
SheetPlayers(s, ps) == EntityPlayers(EntityPlayers(ps, s.src), s.dst)
EntitiesStrings(s, ss) == EntityStrings(EntityStrings(ss, s.src), s.dst)
EffectStrings(s, ss) ==
    SetString(SetString(TypeStrings(EntitiesStrings(s, ss), s.ability), s.action.id, s.action.name),
              s.type.id, s.type.name)
SheetStrings(s, ss) == ValueStrings(EffectStrings(s, ss), s)

\* How the blocks begin.
LEMMA Beginnings ==
    ASSUME line \in Words, NEW s, IsSheet(s), NEW p \in Nat
    PROVE  /\ Stands(p, Entity(s.src)) => Follows(p, "[")
           /\ Stands(p, Entity(s.dst)) => Follows(p, "[")
           /\ Stands(p, Ability(s.ability)) => Follows(p, "[")
           /\ Stands(p, Effect(s.action, s.type)) => Follows(p, "[")
           /\ Stands(p, Value(s)) => Follows(p, "(")
           /\ Stands(p, Time(s.time)) => Follows(p, "[")
<1>1. /\ IsEntity(s.src) /\ IsEntity(s.dst) /\ IsType(s.ability) /\ \A i \in 1..4 : s.time[i] \in Nat
      /\ NameOk(s.action.name) /\ NameOk(s.type.name) /\ s.action.id \in Nat /\ s.type.id \in Nat
      /\ IsValue(s)
  BY SheetOk DEF IsNumber
<1>2. Stands(p, Entity(s.src)) => Follows(p, "[")
  BY <1>1, EntityText
<1>3. Stands(p, Entity(s.dst)) => Follows(p, "[")
  BY <1>1, EntityText
<1>4. Stands(p, Ability(s.ability)) => Follows(p, "[")
  BY <1>1, AbilityText
<1>5. Stands(p, Effect(s.action, s.type)) => Follows(p, "[")
  BY <1>1, EffectText DEF EffectParts
<1>6. Stands(p, Value(s)) => Follows(p, "(")
  BY <1>1, ValueText DEF ValueStands
<1>7. Stands(p, Time(s.time)) => Follows(p, "[")
  BY <1>1, TimeText
<1> QED BY <1>2, <1>3, <1>4, <1>5, <1>6, <1>7

\* All blocks but the threat are read.
LEMMA BodyOn ==
    ASSUME line \in Words, NEW s, IsSheet(s), NEW r, NEW ps, NEW ss,
           On(r, 0, Blank, ps, ss), Stands(0, Body(s))
    PROVE  \E m1, m2 : /\ AreRead(s, m1, m2)
                       /\ OnS(BodyFrom(r), Len(Body(s)), SheetEntry(s, ps, m1, m2),
                              SheetPlayers(s, ps), SheetStrings(s, ss))
<1> DEFINE b == Len(Body(s))
<1>1. PICK p1, p2, p3, p4, p5 \in Nat : BodyStands(s, p1, p2, p3, p4, p5, b)
  BY BodyText
<1>2. /\ Stands(0, Time(s.time)) /\ p1 = Len(Time(s.time))
      /\ Stands(p1, Entity(s.src)) /\ p2 = p1 + Len(Entity(s.src))
      /\ Stands(p2, Entity(s.dst)) /\ p3 = p2 + Len(Entity(s.dst))
      /\ Stands(p3, Ability(s.ability)) /\ p4 = p3 + Len(Ability(s.ability))
      /\ Stands(p4, Effect(s.action, s.type)) /\ p5 = p4 + Len(Effect(s.action, s.type))
      /\ Stands(p5, Value(s)) /\ b = p5 + Len(Value(s))
  BY <1>1 DEF BodyStands
<1> HIDE DEF b
<1>3. /\ Follows(p1, "[") /\ Follows(p2, "[") /\ Follows(p3, "[") /\ Follows(p4, "[") /\ Follows(p5, "(")
  BY <1>2, Beginnings
<1>4. "[" # Space /\ "(" # Space
  BY SpaceIsNone
<1>5. /\ \A i \in 1..4 : IsNumber(s.time[i], IntValues)
      /\ IsEntity(s.src) /\ IsEntity(s.dst) /\ IsType(s.ability)
      /\ NameOk(s.action.name) /\ IsNumber(s.action.id, IdValues) /\ NoColon(s.action.name)
      /\ NameOk(s.type.name) /\ IsNumber(s.type.id, IdValues)
      /\ IsValue(s)
  BY SheetOk
<1>6. line \in Words /\ 0 \in Nat
  OBVIOUS
<1>7. On(SrcFrom(r), p1, TimeEntry(s), ps, ss)
  <2>1. On(r, 0, Blank, ps, ss) /\ p1 = 0 + Len(Time(s.time))
    BY <1>2
  <2>2. On(SkipSpaces(ReadTime(r)), p1, [Blank EXCEPT !["time"] = Clock(s.time)], ps, ss)
    BY ONLY <1>2, <1>3, <1>4, <1>5, <1>6, <2>1, TimeOn
  <2> QED BY <2>2 DEF SrcFrom, TimeEntry
<1>8. On(DstFrom(r), p2, SrcEntry(s, ps), EntityPlayers(ps, s.src), EntityStrings(ss, s.src))
  <2> DEFINE x == s.src
             a == SrcFrom(r)
             e == TimeEntry(s)
  <2>1. /\ IsEntity(x) /\ On(a, p1, e, ps, ss) /\ Stands(p1, Entity(x)) /\ p1 \in Nat
        /\ p2 = p1 + Len(Entity(x)) /\ Follows(p2, "[")
    BY <1>2, <1>3, <1>5, <1>7
  <2> HIDE DEF x, a, e
  <2>2. On(SkipSpaces(ReadEntity(a, "src", "src_minion", "src_id")), p2,
           EntityEntry(e, ps, x, "src", "src_minion", "src_id"), EntityPlayers(ps, x), EntityStrings(ss, x))
    BY ONLY <1>4, <1>6, <2>1, EntityOn
  <2> QED BY <2>2 DEF DstFrom, SrcEntry, x, a, e
<1>9. On(AbilityFrom(r), p3, DstEntry(s, ps), SheetPlayers(s, ps), EntitiesStrings(s, ss))
  <2> DEFINE x == s.dst
             a == DstFrom(r)
             e == SrcEntry(s, ps)
             ps2 == EntityPlayers(ps, s.src)
             ss2 == EntityStrings(ss, s.src)
  <2>1. /\ IsEntity(x) /\ On(a, p2, e, ps2, ss2) /\ Stands(p2, Entity(x)) /\ p2 \in Nat
        /\ p3 = p2 + Len(Entity(x)) /\ Follows(p3, "[")
    BY <1>2, <1>3, <1>5, <1>8
  <2> HIDE DEF x, a, e, ps2, ss2
  <2>2. On(SkipSpaces(ReadEntity(a, "dst", "dst_minion", "dst_id")), p3,
           EntityEntry(e, ps2, x, "dst", "dst_minion", "dst_id"), EntityPlayers(ps2, x),
           EntityStrings(ss2, x))
    BY ONLY <1>4, <1>6, <2>1, EntityOn
  <2> QED BY <2>2 DEF AbilityFrom, DstEntry, SheetPlayers, EntitiesStrings, x, a, e, ps2, ss2
<1>10. On(EffectFrom(r), p4, AbilityEntry(DstEntry(s, ps), s.ability), SheetPlayers(s, ps),
          TypeStrings(EntitiesStrings(s, ss), s.ability))
  <2> DEFINE x == s.ability
             a == AbilityFrom(r)
             e == DstEntry(s, ps)
             ps2 == SheetPlayers(s, ps)
             ss2 == EntitiesStrings(s, ss)
  <2>1. /\ IsType(x) /\ On(a, p3, e, ps2, ss2) /\ Stands(p3, Ability(x)) /\ p3 \in Nat
        /\ p4 = p3 + Len(Ability(x)) /\ Follows(p4, "[")
    BY <1>2, <1>3, <1>5, <1>9
  <2> HIDE DEF x, a, e, ps2, ss2
  <2>2. On(SkipSpaces(ReadLocalized(a, "[", "]", "ability")), p4, AbilityEntry(e, x), ps2,
           TypeStrings(ss2, x))
    BY ONLY <1>4, <1>6, <2>1, AbilityOn
  <2> QED BY <2>2 DEF EffectFrom, x, a, e, ps2, ss2
<1>11. On(ValueAt(r), p5, EffectEntry(s, ps), SheetPlayers(s, ps), EffectStrings(s, ss))
  <2> DEFINE x == s.action
             y == s.type
             a == EffectFrom(r)
             e == AbilityEntry(DstEntry(s, ps), s.ability)
             ps2 == SheetPlayers(s, ps)
             ss2 == TypeStrings(EntitiesStrings(s, ss), s.ability)
  <2>1. /\ NameOk(x.name) /\ NoColon(x.name) /\ IsNumber(x.id, IdValues)
        /\ NameOk(y.name) /\ IsNumber(y.id, IdValues)
        /\ On(a, p4, e, ps2, ss2) /\ Stands(p4, Effect(x, y)) /\ p4 \in Nat
        /\ p5 = p4 + Len(Effect(x, y)) /\ Follows(p5, "(")
    BY <1>2, <1>3, <1>5, <1>10
  <2> HIDE DEF x, y, a, e, ps2, ss2
  <2>2. On(SkipSpaces(ReadEffect(a)), p5,
           [[e EXCEPT !["effect_action"] = x.id] EXCEPT !["effect_type"] = y.id], ps2,
           SetString(SetString(ss2, x.id, x.name), y.id, y.name))
    BY ONLY <1>4, <1>6, <2>1, EffectOn
  <2> QED BY <2>2 DEF ValueAt, EffectEntry, EffectStrings, x, y, a, e, ps2, ss2
<1>12. \E m1, m2 : /\ AreRead(s, m1, m2)
                   /\ OnS(BodyFrom(r), b, ValueEntry(EffectEntry(s, ps), s, m1, m2),
                          SheetPlayers(s, ps), ValueStrings(EffectStrings(s, ss), s))
  <2> DEFINE a == ValueAt(r)
             e == EffectEntry(s, ps)
             ps2 == SheetPlayers(s, ps)
             ss2 == EffectStrings(s, ss)
  <2>1. /\ IsValue(s) /\ On(a, p5, e, ps2, ss2) /\ Stands(p5, Value(s)) /\ p5 \in Nat
        /\ b = p5 + Len(Value(s))
    BY <1>2, <1>5, <1>11
  <2> HIDE DEF a, e, ps2, ss2
  <2>2. \E m1, m2 : /\ AreRead(s, m1, m2)
                    /\ OnS(ReadValue(a), b, ValueEntry(e, s, m1, m2), ps2, ValueStrings(ss2, s))
    BY ONLY <1>6, <2>1, ReadValueOn
  <2> QED BY <2>2 DEF BodyFrom, a, e, ps2, ss2
<1> QED BY <1>12 DEF SheetEntry, SheetStrings, b

FirstReader(ps, ss) ==
    [at |-> 0, ok |-> TRUE, value |-> 0, entry |-> Blank, players |-> ps, strings |-> ss]

\* parse_combat_log_line as a sequence of readers.
LEMMA ParsedParts ==
    Parsed = ReadThreat(SkipSpaces(BodyFrom(SkipSpaces(FirstReader(players, strings)))))
BY DEF Parsed, BodyFrom, ValueAt, EffectFrom, AbilityFrom, DstFrom, SrcFrom, FirstReader

Gives(r, e, ps, ss) == r.ok = TRUE /\ r.entry = e /\ r.players = ps /\ r.strings = ss

\* Where the parser starts.
LEMMA StartOn ==
    ASSUME line \in Words, NEW ps, NEW ss, Follows(0, "[")
    PROVE  On(SkipSpaces(FirstReader(ps, ss)), 0, Blank, ps, ss)
<1> DEFINE r == FirstReader(ps, ss)
<1>1. Good(r, 0, Blank, ps, ss)
  BY DEF Good, IsReader, FirstReader
<1>2. On(r, 0, Blank, ps, ss)
  BY <1>1, LineLength DEF On
<1>3. "[" # Space
  BY SpaceIsNone
<1> HIDE DEF r
<1>4. On(SkipSpaces(r), 0, Blank, ps, ss)
  BY <1>2, <1>3, NoSpaceOn
<1> QED BY <1>4 DEF r

\* What becomes of a line, or of the beginning of one.
LEMMA ParsedOn ==
    ASSUME line \in Words, NEW s, IsSheet(s), Stands(0, WholeLine(s)),
           Len(line) <= Len(WholeLine(s))
    PROVE  /\ Len(Body(s)) + 2 < Len(WholeLine(s))
           /\ \E m1, m2, m3 :
                /\ AreRead(s, m1, m2) /\ (Small(s.threat) => m3 = s.threat)
                /\ Len(line) = Len(WholeLine(s)) =>
                      Gives(Parsed, [SheetEntry(s, players, m1, m2) EXCEPT !["effect_thread"] = m3],
                            SheetPlayers(s, players), SheetStrings(s, strings))
                /\ Len(line) \in {Len(Body(s)), Len(Body(s)) + 1} =>
                      Gives(Parsed, SheetEntry(s, players, m1, m2),
                            SheetPlayers(s, players), SheetStrings(s, strings))
                /\ Len(line) # Len(WholeLine(s)) /\ Len(line) \notin {Len(Body(s)), Len(Body(s)) + 1} =>
                      Parsed.ok = FALSE
<1> DEFINE b == Len(Body(s))
           k == (b + 2) + Len(Decimal(s.threat))
           r == SkipSpaces(FirstReader(players, strings))
           n == s.threat
           ps2 == SheetPlayers(s, players)
           ss2 == SheetStrings(s, strings)
           t == ReadThreat(SkipSpaces(BodyFrom(r)))
<1>1. /\ b \in Nat /\ k \in Nat /\ b + 2 <= k /\ Len(WholeLine(s)) = k + 1
      /\ Stands(0, Body(s)) /\ Follows(b, Space) /\ Follows(b + 1, "<")
      /\ Stands(b + 2, Decimal(n)) /\ Follows(k, ">") /\ k = (b + 2) + Len(Decimal(n))
  <2>1. line \in Words /\ IsSheet(s) /\ Stands(0, WholeLine(s))
    OBVIOUS
  <2> QED BY ONLY <2>1, LineText
<1>2. n \in Int /\ line \in Words /\ Len(line) \in Nat
  BY SheetOk, LineLength
<1>3. Follows(0, "[")
  <2>1. \E p1, p2, p3, p4, p5 \in Nat : BodyStands(s, p1, p2, p3, p4, p5, b)
    BY <1>1, BodyText
  <2>2. Stands(0, Time(s.time))
    BY <2>1 DEF BodyStands
  <2> QED BY <2>2, Beginnings
<1>4. On(r, 0, Blank, players, strings)
  BY <1>3, StartOn
<1>5. Parsed = t
  BY ParsedParts
<1> HIDE DEF b, k, n, ps2, ss2, r
<1>6. PICK m1, m2 : /\ AreRead(s, m1, m2)
                    /\ OnS(BodyFrom(r), b, SheetEntry(s, players, m1, m2), ps2, ss2)
  BY <1>1, <1>4, BodyOn DEF b, ps2, ss2
<1> DEFINE e == SheetEntry(s, players, m1, m2)
           v == BodyFrom(r)
<1>7. OnS(v, b, e, ps2, ss2)
  BY <1>6
<1> HIDE DEF e, v
<1>8. /\ Len(line) < b => Dead(t)
      /\ Len(line) \in {b, b + 1} => Good(t, Len(line), e, ps2, ss2)
      /\ b + 2 <= Len(line) =>
            \E m : /\ Small(n) => m = n
                   /\ OnS(t, k + 1, [e EXCEPT !["effect_thread"] = m], ps2, ss2)
  <2>1. t = ReadThreat(SkipSpaces(v))
    BY DEF v
  <2> HIDE DEF t
  <2> QED BY ONLY <1>1, <1>2, <1>7, <2>1, ThreatOn
<1> HIDE DEF t
<1>9. \E m3 : /\ Small(n) => m3 = n
              /\ Len(line) = k + 1 => Gives(t, [e EXCEPT !["effect_thread"] = m3], ps2, ss2)
              /\ Len(line) \in {b, b + 1} => Gives(t, e, ps2, ss2)
              /\ Len(line) # k + 1 /\ Len(line) \notin {b, b + 1} => t.ok = FALSE
  <2>1. CASE Len(line) < b
    <3>1. t.ok = FALSE
      BY <1>8, <2>1 DEF Dead
    <3>2. Len(line) # k + 1 /\ Len(line) \notin {b, b + 1}
      BY <1>1, <1>2, <2>1
    <3> QED BY <3>1, <3>2
  <2>2. CASE Len(line) \in {b, b + 1}
    <3>1. Gives(t, e, ps2, ss2)
      BY <1>8, <2>2 DEF Good, Gives
    <3>2. Len(line) # k + 1
      BY <1>1, <1>2, <2>2
    <3> QED BY <2>2, <3>1, <3>2
  <2>3. CASE b + 2 <= Len(line)
    <3>1. PICK m3 : /\ Small(n) => m3 = n
                    /\ OnS(t, k + 1, [e EXCEPT !["effect_thread"] = m3], ps2, ss2)
      BY <1>8, <2>3
    <3>2. Len(line) \notin {b, b + 1}
      BY <1>1, <1>2, <2>3
    <3>3. ASSUME Len(line) = k + 1 PROVE Gives(t, [e EXCEPT !["effect_thread"] = m3], ps2, ss2)
      <4>1. k + 1 <= Len(line)
        BY <1>2, <3>3
      <4> QED BY <3>1, <4>1 DEF OnS, Good, Gives
    <3>4. ASSUME Len(line) # k + 1 PROVE t.ok = FALSE
      <4>1. ~ (k + 1 <= Len(line))
        BY <1>1, <1>2, <3>4 DEF b
      <4> QED BY <3>1, <4>1 DEF OnS, Dead
    <3> QED BY <3>1, <3>2, <3>3, <3>4
  <2>4. Len(line) < b \/ Len(line) \in {b, b + 1} \/ b + 2 <= Len(line)
    BY <1>1, <1>2
  <2> QED BY <2>1, <2>2, <2>3, <2>4
<1>10. b + 2 < Len(WholeLine(s))
  BY <1>1
<1> QED BY <1>1, <1>5, <1>6, <1>9, <1>10 DEF b, n, ps2, ss2, e

-----------------------------------------------------------------------------
(* string_db *)

\* An id stands for one name.
Unique(T) == \A x, y \in T : x.id = y.id => x.name = y.name

\* The strings are names of T; a name of T is there.
Known(ss, T) == \A i \in DOMAIN ss : \E x \in T : x.id = i /\ x.name = ss[i]
Holds(ss, x) == x.id \in DOMAIN ss /\ ss[x.id] = x.name

\* Strings of T were added, those of X among them.
Added(ss, new, T, X) ==
    /\ Known(new, T)
    /\ \A x \in X : Holds(new, x)
    /\ \A y : Holds(ss, y) => Holds(new, y)

\* string_db::set adds a name, and keeps those it has.
LEMMA SetAdds ==
    ASSUME NEW T, Unique(T), NEW ss, Known(ss, T), NEW x \in T
    PROVE  Added(ss, SetString(ss, x.id, x.name), T, {x})
<1> DEFINE new == SetString(ss, x.id, x.name)
<1>1. /\ DOMAIN new = DOMAIN ss \cup {x.id}
      /\ \A i \in DOMAIN ss \cup {x.id} : new[i] = IF i \in DOMAIN ss THEN ss[i] ELSE x.name
  BY DEF SetString
<1> HIDE DEF new
<1>2. Holds(new, x)
  <2>1. CASE x.id \in DOMAIN ss
    <3>1. PICK y \in T : y.id = x.id /\ y.name = ss[x.id]
      BY <2>1 DEF Known
    <3>2. y.name = x.name
      BY <3>1 DEF Unique
    <3> QED BY <1>1, <2>1, <3>1, <3>2 DEF Holds
  <2>2. CASE x.id \notin DOMAIN ss
    BY <1>1, <2>2 DEF Holds
  <2> QED BY <2>1, <2>2
<1>3. Known(new, T)
  <2>1. ASSUME NEW i \in DOMAIN new PROVE \E y \in T : y.id = i /\ y.name = new[i]
    <3>1. CASE i \in DOMAIN ss
      <4>1. PICK y \in T : y.id = i /\ y.name = ss[i]
        BY <3>1 DEF Known
      <4> QED BY <1>1, <3>1, <4>1
    <3>2. CASE i \notin DOMAIN ss
      BY <1>1, <2>1, <3>2
    <3> QED BY <3>1, <3>2
  <2> QED BY <2>1 DEF Known
<1>4. \A y : Holds(ss, y) => Holds(new, y)
  BY <1>1 DEF Holds
<1> QED BY <1>2, <1>3, <1>4 DEF Added, new

\* Nothing added.
LEMMA NothingAdded ==
    ASSUME NEW T, NEW ss, Known(ss, T)
    PROVE  Added(ss, ss, T, {})
BY DEF Added

\* Names added one after the other.
LEMMA AddedTwice ==
    ASSUME NEW T, NEW a, NEW b, NEW c, NEW X, NEW Y, Added(a, b, T, X), Added(b, c, T, Y)
    PROVE  Added(a, c, T, X \cup Y)
BY DEF Added

\* What the blocks add.
LEMMA BlocksAdd ==
    ASSUME NEW T, Unique(T), NEW ss, Known(ss, T), NEW x
    PROVE  /\ (x # NoSheet => x \in T) => Added(ss, TypeStrings(ss, x), T, {x} \ {NoSheet})
           /\ (x # NoSheet => x.type \in T) =>
                 Added(ss, SecondStrings(ss, x), T, IF x = NoSheet THEN {} ELSE {x.type})
           /\ NamedIn(x) \subseteq T /\ x.kind \in {"nobody", "player", "companion", "mob"} =>
                 Added(ss, EntityStrings(ss, x), T, NamedIn(x))
<1>1. ASSUME x # NoSheet => x \in T
      PROVE  Added(ss, TypeStrings(ss, x), T, {x} \ {NoSheet})
  <2>1. CASE x = NoSheet
    <3>1. TypeStrings(ss, x) = ss /\ {x} \ {NoSheet} = {}
      BY <2>1 DEF TypeStrings
    <3> QED BY <3>1, NothingAdded
  <2>2. CASE x # NoSheet
    <3>1. TypeStrings(ss, x) = SetString(ss, x.id, x.name) /\ {x} \ {NoSheet} = {x}
      BY <2>2 DEF TypeStrings
    <3> QED BY <1>1, <2>2, <3>1, SetAdds
  <2> QED BY <2>1, <2>2
<1>2. ASSUME x # NoSheet => x.type \in T
      PROVE  Added(ss, SecondStrings(ss, x), T, IF x = NoSheet THEN {} ELSE {x.type})
  <2>1. CASE x = NoSheet
    <3>1. SecondStrings(ss, x) = ss
      BY <2>1 DEF SecondStrings
    <3> QED BY <2>1, <3>1, NothingAdded
  <2>2. CASE x # NoSheet
    <3>1. SecondStrings(ss, x) = SetString(ss, x.type.id, x.type.name)
      BY <2>2 DEF SecondStrings
    <3> QED BY <1>2, <2>2, <3>1, SetAdds
  <2> QED BY <2>1, <2>2
<1>3. ASSUME NamedIn(x) \subseteq T, x.kind \in {"nobody", "player", "companion", "mob"}
      PROVE  Added(ss, EntityStrings(ss, x), T, NamedIn(x))
  <2>1. CASE x.kind = "companion"
    <3>1. EntityStrings(ss, x) = SetString(ss, x.minion.id, x.minion.name) /\ NamedIn(x) = {x.minion}
      BY <2>1 DEF EntityStrings, NamedIn
    <3> QED BY <1>3, <3>1, SetAdds
  <2>2. CASE x.kind = "mob"
    <3>1. EntityStrings(ss, x) = SetString(ss, x.id, x.name) /\ NamedIn(x) = {x}
      BY <2>2 DEF EntityStrings, NamedIn
    <3> QED BY <1>3, <3>1, SetAdds
  <2>3. CASE x.kind \in {"nobody", "player"}
    <3>1. EntityStrings(ss, x) = ss /\ NamedIn(x) = {}
      BY <2>3 DEF EntityStrings, NamedIn
    <3> QED BY <3>1, NothingAdded
  <2> QED BY <1>3, <2>1, <2>2, <2>3
<1> QED BY <1>1, <1>2, <1>3

\* All names of a line are translated, each under its id.
LEMMA StringsOfSheet ==
    ASSUME NEW s, IsSheet(s)
    PROVE  \A x \in Things(s) : Holds(SheetStrings(s, << >>), x)
<1> DEFINE T == Things(s)
           s0 == << >>
           s1 == EntityStrings(s0, s.src)
           s2 == EntitiesStrings(s, s0)
           s3 == TypeStrings(s2, s.ability)
           s4 == SetString(s3, s.action.id, s.action.name)
           s5 == EffectStrings(s, s0)
           s6 == TypeStrings(s5, s.value_type)
           s7 == SheetStrings(s, s0)
<1>1. Unique(T)
  BY DEF IsSheet, Unique
<1>2. /\ s.action \in T /\ s.type \in T
      /\ s.ability # NoSheet => s.ability \in T
      /\ s.value_type # NoSheet => s.value_type \in T
      /\ s.second # NoSheet => s.second.type \in T
      /\ NamedIn(s.src) \subseteq T /\ NamedIn(s.dst) \subseteq T
  BY DEF Things
<1>3. \A x \in T : \/ x \in {s.action} \/ x \in {s.type}
                   \/ x \in {s.ability} \ {NoSheet} \/ x \in {s.value_type} \ {NoSheet}
                   \/ x \in IF s.second = NoSheet THEN {} ELSE {s.second.type}
                   \/ x \in NamedIn(s.src) \/ x \in NamedIn(s.dst)
  BY DEF Things
<1>4. /\ s.src.kind \in {"nobody", "player", "companion", "mob"}
      /\ s.dst.kind \in {"nobody", "player", "companion", "mob"}
  <2>1. IsEntity(s.src) /\ IsEntity(s.dst)
    BY SheetOk
  <2> QED BY <2>1 DEF IsEntity
<1>5. /\ s2 = EntityStrings(s1, s.dst)
      /\ s5 = SetString(s4, s.type.id, s.type.name)
      /\ s7 = SecondStrings(s6, s.second)
  BY DEF EntitiesStrings, EffectStrings, SheetStrings, ValueStrings
<1>6. Known(s0, T)
  BY DEF Known
<1> HIDE DEF T, s0
<1>7. Added(s0, s1, T, NamedIn(s.src))
  BY <1>1, <1>2, <1>4, <1>6, BlocksAdd
<1> HIDE DEF s1, s2
<1>8. Added(s1, s2, T, NamedIn(s.dst))
  <2>1. Known(s1, T)
    BY <1>7 DEF Added
  <2> QED BY <1>1, <1>2, <1>4, <1>5, <2>1, BlocksAdd
<1>9. Added(s2, s3, T, {s.ability} \ {NoSheet})
  <2>1. Known(s2, T)
    BY <1>8 DEF Added
  <2> QED BY <1>1, <1>2, <2>1, BlocksAdd
<1> HIDE DEF s3
<1>10. Added(s3, s4, T, {s.action})
  <2>1. Known(s3, T)
    BY <1>9 DEF Added
  <2> QED BY <1>1, <1>2, <2>1, SetAdds
<1> HIDE DEF s4, s5
<1>11. Added(s4, s5, T, {s.type})
  <2>1. Known(s4, T)
    BY <1>10 DEF Added
  <2> QED BY <1>1, <1>2, <1>5, <2>1, SetAdds
<1>12. Added(s5, s6, T, {s.value_type} \ {NoSheet})
  <2>1. Known(s5, T)
    BY <1>11 DEF Added
  <2> QED BY <1>1, <1>2, <2>1, BlocksAdd
<1> HIDE DEF s6, s7
<1>13. Added(s6, s7, T, IF s.second = NoSheet THEN {} ELSE {s.second.type})
  <2>1. Known(s6, T)
    BY <1>12 DEF Added
  <2> QED BY <1>1, <1>2, <1>5, <2>1, BlocksAdd
<1>14. \A x \in T : Holds(s7, x)
  <2>1. /\ \A y : Holds(s6, y) => Holds(s7, y)
        /\ \A y : Holds(s5, y) => Holds(s6, y)
        /\ \A y : Holds(s4, y) => Holds(s5, y)
        /\ \A y : Holds(s3, y) => Holds(s4, y)
        /\ \A y : Holds(s2, y) => Holds(s3, y)
        /\ \A y : Holds(s1, y) => Holds(s2, y)
    BY <1>8, <1>9, <1>10, <1>11, <1>12, <1>13 DEF Added
  <2>2. /\ \A x \in NamedIn(s.src) : Holds(s1, x)
        /\ \A x \in NamedIn(s.dst) : Holds(s2, x)
        /\ \A x \in {s.ability} \ {NoSheet} : Holds(s3, x)
        /\ \A x \in {s.action} : Holds(s4, x)
        /\ \A x \in {s.type} : Holds(s5, x)
        /\ \A x \in {s.value_type} \ {NoSheet} : Holds(s6, x)
        /\ \A x \in IF s.second = NoSheet THEN {} ELSE {s.second.type} : Holds(s7, x)
    BY <1>7, <1>8, <1>9, <1>10, <1>11, <1>12, <1>13 DEF Added
  <2>3. /\ \A x \in NamedIn(s.src) : Holds(s7, x)
        /\ \A x \in NamedIn(s.dst) : Holds(s7, x)
        /\ \A x \in {s.ability} \ {NoSheet} : Holds(s7, x)
        /\ \A x \in {s.action} : Holds(s7, x)
        /\ \A x \in {s.type} : Holds(s7, x)
        /\ \A x \in {s.value_type} \ {NoSheet} : Holds(s7, x)
    BY <2>1, <2>2
  <2> QED BY <1>3, <2>2, <2>3
<1> QED BY <1>14 DEF T, s7, s0

-----------------------------------------------------------------------------
(* player_db *)

Keeps(old, new) == \A i \in DOMAIN old : old[i] # NoName => i \in DOMAIN new /\ new[i] = old[i]

IsUnder(db, id, name) == id \in DOMAIN db /\ db[id] = name

\* get_player_id stores a name under the id it returns, and moves no other.
LEMMA NameStored ==
    ASSUME NEW db, IsDatabase(db), NEW name, name # NoName
    PROVE  /\ IsDatabase(AfterGetPlayerId(db, name))
           /\ IsUnder(AfterGetPlayerId(db, name), PlayerId(db, name), name)
           /\ Keeps(db, AfterGetPlayerId(db, name))
<1> DEFINE n == Size(db)
           id == PlayerId(db, name)
           new == AfterGetPlayerId(db, name)
           grown == Grow(db, id)
<1>1. n \in Nat /\ DOMAIN db = 0..n - 1
  BY DEF IsDatabase
<1>2. CASE IsPlayerInDb(db, name)
  <2>1. Holders(db, name) \in SUBSET Nat /\ Holders(db, name) # {}
    BY <1>1, <1>2 DEF Holders, IsPlayerInDb
  <2>2. \E i \in Holders(db, name) : \A j \in Holders(db, name) : i <= j
    BY <2>1, NatMin
  <2>3. FirstHolder(db, name) \in Holders(db, name)
    BY <2>2 DEF FirstHolder
  <2>4. id = FirstHolder(db, name) /\ new = db
    BY <1>2 DEF PlayerId, AfterGetPlayerId
  <2> HIDE DEF id, new
  <2>5. IsUnder(new, id, name)
    BY <2>3, <2>4 DEF Holders, IsUnder
  <2> QED BY <2>4, <2>5 DEF Keeps, id, new
<1>3. CASE ~ IsPlayerInDb(db, name)
  <2>1. id = n \/ (id = 0 /\ n > 0 /\ db[0] = NoName)
    BY <1>1, <1>3 DEF PlayerId
  <2>2. id \in Nat
    BY <1>1, <2>1
  <2>3. PICK m \in Nat : DOMAIN db \cup 0..id = 0..m - 1
    <3>1. CASE id = n
      <4>1. 0..n - 1 \cup 0..n = 0..(n + 1) - 1 /\ n + 1 \in Nat
        <5> HIDE DEF n
        <5> QED BY <1>1
      <4>2. DOMAIN db \cup 0..id = 0..(n + 1) - 1
        BY <1>1, <3>1, <4>1
      <4> HIDE DEF n
      <4> QED BY <4>1, <4>2
    <3>2. CASE id = 0 /\ n > 0
      <4>1. DOMAIN db \cup 0..id = 0..n - 1
        BY <1>1, <3>2
      <4> QED BY <1>1, <4>1
    <3> QED BY <2>1, <3>1, <3>2
  <2>4. /\ grown = [i \in 0..m - 1 |-> IF i \in DOMAIN db THEN db[i] ELSE NoName]
        /\ id \in 0..m - 1 /\ DOMAIN db \subseteq 0..m - 1
    <3>1. id \in 0..id
      BY <2>2
    <3> QED BY <2>3, <3>1 DEF Grow
  <2>5. ~ IsPlayerInDb(grown, name)
    BY <1>3, <2>4 DEF IsPlayerInDb, Holders
  <2>6. new = [grown EXCEPT ![id] = name]
    BY <1>3, <2>5 DEF AfterGetPlayerId, SetPlayerName
  <2> HIDE DEF id, new, grown
  <2>7. DOMAIN new = 0..m - 1 /\ new[id] = name /\ \A i \in 0..m - 1 : i # id => new[i] = grown[i]
    BY <2>4, <2>6
  <2>8. IsDatabase(new)
    <3>1. Cardinality(0..m - 1) = m
      <4>1. 0 \in Int /\ m - 1 \in Int
        OBVIOUS
      <4> QED BY <4>1, FS_Interval
    <3> QED BY <2>7, <3>1 DEF IsDatabase, Size
  <2>9. id \in DOMAIN db => db[id] = NoName
    <3>1. n \notin DOMAIN db
      BY <1>1
    <3> QED BY <2>1, <3>1
  <2>10. Keeps(db, new)
    <3>1. ASSUME NEW i \in DOMAIN db, db[i] # NoName PROVE i \in DOMAIN new /\ new[i] = db[i]
      <4>1. i \in 0..m - 1 /\ i # id
        BY <2>4, <2>9, <3>1
      <4>2. grown[i] = db[i]
        BY <2>4, <3>1, <4>1
      <4> QED BY <2>7, <4>1, <4>2
    <3> QED BY <3>1 DEF Keeps
  <2>11. IsUnder(new, id, name)
    BY <2>4, <2>7 DEF IsUnder
  <2> QED BY <2>8, <2>10, <2>11 DEF id, new
<1> QED BY <1>2, <1>3

IsPlayer(x) == x.kind \in {"player", "companion"}

\* What an entity does to player_db.
LEMMA PlayersOfEntity ==
    ASSUME NEW db, IsDatabase(db), NEW x, IsEntity(x)
    PROVE  /\ IsDatabase(EntityPlayers(db, x)) /\ Keeps(db, EntityPlayers(db, x))
           /\ IsPlayer(x) => /\ x.name # NoName
                             /\ IsUnder(EntityPlayers(db, x), PlayerId(db, x.name), x.name)
<1>1. CASE IsPlayer(x)
  <2>1. x.name # NoName
    BY <1>1 DEF IsEntity, IsPlayer
  <2>2. EntityPlayers(db, x) = AfterGetPlayerId(db, x.name)
    BY <1>1 DEF EntityPlayers, IsPlayer
  <2> QED BY <2>1, <2>2, NameStored
<1>2. CASE ~ IsPlayer(x)
  BY <1>2 DEF EntityPlayers, IsPlayer, Keeps
<1> QED BY <1>1, <1>2

\* Behind both entities, their names are under the ids that were read.
LEMMA PlayersOfSheet ==
    ASSUME NEW db, IsDatabase(db), NEW s, IsEntity(s.src), IsEntity(s.dst)
    PROVE  /\ IsPlayer(s.src) => SheetPlayers(s, db)[PlayerId(db, s.src.name)] = s.src.name
           /\ IsPlayer(s.dst) =>
                 SheetPlayers(s, db)[PlayerId(EntityPlayers(db, s.src), s.dst.name)] = s.dst.name
<1> DEFINE d1 == EntityPlayers(db, s.src)
           d2 == SheetPlayers(s, db)
<1>1. IsDatabase(d1) /\ (IsPlayer(s.src) => /\ s.src.name # NoName
                                             /\ IsUnder(d1, PlayerId(db, s.src.name), s.src.name))
  BY PlayersOfEntity
<1>2. d2 = EntityPlayers(d1, s.dst)
  BY DEF SheetPlayers
<1> HIDE DEF d1, d2
<1>3. Keeps(d1, d2) /\ (IsPlayer(s.dst) => IsUnder(d2, PlayerId(d1, s.dst.name), s.dst.name))
  BY <1>1, <1>2, PlayersOfEntity
<1>4. IsPlayer(s.src) => d2[PlayerId(db, s.src.name)] = s.src.name
  BY <1>1, <1>3 DEF IsUnder, Keeps
<1>5. IsPlayer(s.dst) => d2[PlayerId(d1, s.dst.name)] = s.dst.name
  BY <1>3 DEF IsUnder
<1> QED BY <1>4, <1>5 DEF d1, d2

-----------------------------------------------------------------------------
(* The fields of the entry *)

\* The fields by name.
LEMMA FieldNames ==
    Fields = {"time", "src", "ability", "effect_action", "effect_type",
              "src_minion", "src_id", "dst", "dst_minion", "dst_id", "effect_value_type",
              "effect_value2", "effect_value_type2", "effect_thread", "effect_value",
              "entry_flags"}
<1>1. DOMAIN Order = 1..16
  BY DEF Order
<1>2. Fields = {Order[i] : i \in 1..16}
  BY <1>1 DEF Fields, ToSet
<1>3. 1..16 = {1, 2, 3, 4, 5, 6, 7, 8, 9, 10, 11, 12, 13, 14, 15, 16}
  OBVIOUS
<1>4. /\ Order[1] = "time" /\ Order[2] = "src" /\ Order[3] = "ability" /\ Order[4] = "effect_action"
      /\ Order[5] = "effect_type" /\ Order[6] = "src_minion" /\ Order[7] = "src_id"
      /\ Order[8] = "dst" /\ Order[9] = "dst_minion" /\ Order[10] = "dst_id"
      /\ Order[11] = "effect_value_type" /\ Order[12] = "effect_value2"
      /\ Order[13] = "effect_value_type2" /\ Order[14] = "effect_thread"
      /\ Order[15] = "effect_value" /\ Order[16] = "entry_flags"
  BY DEF Order
<1> QED BY <1>2, <1>3, <1>4

\* An entry that differs from another one in some fields only.
Differs(e, new, G) == DOMAIN new = Fields /\ \A f \in Fields \ G : new[f] = e[f]

\* One field replaced.
LEMMA PutDiffers ==
    ASSUME NEW e, DOMAIN e = Fields, NEW f \in Fields, NEW v
    PROVE  Differs(e, [e EXCEPT ![f] = v], {f}) /\ [e EXCEPT ![f] = v][f] = v
BY DEF Differs

\* One change after another.
LEMMA DiffersTwice ==
    ASSUME NEW a, NEW b, NEW c, NEW G, NEW H, Differs(a, b, G), Differs(b, c, H)
    PROVE  Differs(a, c, G \cup H)
BY DEF Differs

\* What the entry says of someone.
EntityFields(e, x, ps, name, minion, id) ==
    CASE x.kind = "nobody" -> e[name] = 0 /\ e[minion] = 0 /\ e[id] = 0
      [] x.kind = "player" -> e[name] = PlayerId(ps, x.name) /\ e[minion] = 0 /\ e[id] = 0
      [] x.kind = "companion" ->
            e[name] = PlayerId(ps, x.name) /\ e[minion] = x.minion.id /\ e[id] = 0
      [] x.kind = "mob" -> e[name] = x.id /\ e[minion] = 0 /\ e[id] = x.number

\* An entity changes its three fields only.
LEMMA EntityDiffers ==
    ASSUME NEW e, DOMAIN e = Fields, NEW ps, NEW x,
           x.kind \in {"nobody", "player", "companion", "mob"},
           NEW name \in Fields, NEW minion \in Fields, NEW id \in Fields,
           name # minion, name # id, minion # id, e[name] = 0, e[minion] = 0, e[id] = 0
    PROVE  LET new == EntityEntry(e, ps, x, name, minion, id)
           IN  Differs(e, new, {name, minion, id}) /\ EntityFields(new, x, ps, name, minion, id)
<1> DEFINE new == EntityEntry(e, ps, x, name, minion, id)
<1>1. CASE x.kind = "nobody"
  <2>1. new = e
    BY <1>1 DEF EntityEntry
  <2> HIDE DEF new
  <2> QED BY <1>1, <2>1 DEF EntityFields, Differs, new
<1>2. CASE x.kind = "player"
  <2> DEFINE p == PlayerId(ps, x.name)
  <2>1. new = [e EXCEPT ![name] = p]
    BY <1>2 DEF EntityEntry
  <2> HIDE DEF new, p
  <2>2. Differs(e, new, {name}) /\ new[name] = p
    BY <2>1, PutDiffers
  <2>3. Differs(e, new, {name, minion, id}) /\ new[minion] = 0 /\ new[id] = 0
    BY <2>2 DEF Differs
  <2> QED BY <1>2, <2>2, <2>3 DEF EntityFields, new, p
<1>3. CASE x.kind = "companion"
  <2> DEFINE p == PlayerId(ps, x.name)
             e1 == [e EXCEPT ![name] = p]
             v == x.minion.id
  <2>1. new = [e1 EXCEPT ![minion] = v]
    BY <1>3 DEF EntityEntry
  <2>2. Differs(e, e1, {name}) /\ e1[name] = p
    BY PutDiffers
  <2> HIDE DEF new, p, e1, v
  <2>3. Differs(e1, new, {minion}) /\ new[minion] = v
    BY <2>1, <2>2, PutDiffers DEF Differs
  <2>4. Differs(e, new, {name, minion, id}) /\ new[name] = p /\ new[id] = 0
    BY <2>2, <2>3 DEF Differs
  <2> QED BY <1>3, <2>3, <2>4 DEF EntityFields, new, p, v
<1>4. CASE x.kind = "mob"
  <2> DEFINE p == x.id
             e1 == [e EXCEPT ![name] = p]
             v == x.number
  <2>1. new = [e1 EXCEPT ![id] = v]
    BY <1>4 DEF EntityEntry
  <2>2. Differs(e, e1, {name}) /\ e1[name] = p
    BY PutDiffers
  <2> HIDE DEF new, p, e1, v
  <2>3. Differs(e1, new, {id}) /\ new[id] = v
    BY <2>1, <2>2, PutDiffers DEF Differs
  <2>4. Differs(e, new, {name, minion, id}) /\ new[name] = p /\ new[minion] = 0
    BY <2>2, <2>3 DEF Differs
  <2> QED BY <1>4, <2>3, <2>4 DEF EntityFields, new, p, v
<1> QED BY <1>1, <1>2, <1>3, <1>4

\* An amount and its mark.
LEMMA AmountDiffers ==
    ASSUME NEW e, DOMAIN e = Fields, NEW f \in Fields, NEW n, NEW crit \in BOOLEAN, NEW flag \in Int,
           f # "entry_flags", e["entry_flags"] \in Int
    PROVE  LET new == AmountEntry(e, f, n, crit, flag)
           IN  /\ Differs(e, new, {f, "entry_flags"}) /\ new[f] = n
               /\ new["entry_flags"] = e["entry_flags"] + (IF crit THEN flag ELSE 0)
<1> DEFINE e1 == [e EXCEPT ![f] = n]
           new == AmountEntry(e, f, n, crit, flag)
           g == "entry_flags"
<1>1. g \in Fields /\ f # g
  BY FieldNames
<1>2. Differs(e, e1, {f}) /\ e1[f] = n
  BY PutDiffers
<1>3. new = IF crit THEN Flagged(e1, flag) ELSE e1
  BY DEF AmountEntry
<1> HIDE DEF new, e1
<1>4. e1[g] = e[g] /\ DOMAIN e1 = Fields
  BY <1>1, <1>2 DEF Differs
<1>5. CASE crit
  <2>1. new = [e1 EXCEPT ![g] = e1[g] + flag]
    BY <1>3, <1>5 DEF Flagged
  <2> DEFINE v == e1[g] + flag
  <2>2. new = [e1 EXCEPT ![g] = v] /\ v = e[g] + flag
    BY <1>4, <2>1
  <2> HIDE DEF v
  <2>3. Differs(e1, new, {g}) /\ new[g] = v
    BY <1>1, <1>4, <2>2, PutDiffers
  <2>4. Differs(e, new, {f, g}) /\ new[f] = n
    BY <1>1, <1>2, <2>3 DEF Differs
  <2> QED BY <1>5, <2>2, <2>3, <2>4 DEF new
<1>6. CASE ~ crit
  <2>1. new = e1
    BY <1>3, <1>6
  <2>2. Differs(e, new, {f, g}) /\ new[f] = n /\ new[g] = e[g]
    BY <1>2, <1>4, <2>1 DEF Differs
  <2> QED BY <1>6, <2>2 DEF new
<1> QED BY <1>5, <1>6

\* What does not touch its fields keeps what the entry says of an entity.
LEMMA EntityFieldsKept ==
    ASSUME NEW e, NEW new, NEW G, Differs(e, new, G), NEW x, NEW ps,
           x.kind \in {"nobody", "player", "companion", "mob"},
           NEW name \in Fields \ G, NEW minion \in Fields \ G, NEW id \in Fields \ G,
           EntityFields(e, x, ps, name, minion, id)
    PROVE  EntityFields(new, x, ps, name, minion, id)
<1>1. new[name] = e[name] /\ new[minion] = e[minion] /\ new[id] = e[id]
  BY DEF Differs
<1> QED BY <1>1 DEF EntityFields

IdOf(x) == IF x = NoSheet THEN 0 ELSE x.id
FlagsOf(s) == (IF s.crit THEN 1 ELSE 0) + (IF s.second # NoSheet /\ s.second.crit THEN 2 ELSE 0)

\* The fields of the entry of a line without threat.
SheetFields(e, s, ps, m1, m2) ==
    /\ e["time"] = Clock(s.time)
    /\ EntityFields(e, s.src, ps, "src", "src_minion", "src_id")
    /\ EntityFields(e, s.dst, EntityPlayers(ps, s.src), "dst", "dst_minion", "dst_id")
    /\ e["ability"] = IdOf(s.ability)
    /\ e["effect_action"] = s.action.id /\ e["effect_type"] = s.type.id
    /\ e["effect_value"] = m1 /\ e["effect_value_type"] = IdOf(s.value_type)
    /\ IF s.second = NoSheet
       THEN e["effect_value2"] = 0 /\ e["effect_value_type2"] = 0
       ELSE e["effect_value2"] = m2 /\ e["effect_value_type2"] = s.second.type.id
    /\ e["entry_flags"] = FlagsOf(s)
    /\ e["effect_thread"] = 0

\* The ability and the type of the value change their fields only.
LEMMA OptionalDiffers ==
    ASSUME NEW e, DOMAIN e = Fields, NEW x
    PROVE  /\ Differs(e, AbilityEntry(e, x), {"ability"})
           /\ e["ability"] = 0 => AbilityEntry(e, x)["ability"] = IdOf(x)
           /\ Differs(e, TypeEntry(e, x), {"effect_value_type"})
           /\ e["effect_value_type"] = 0 => TypeEntry(e, x)["effect_value_type"] = IdOf(x)
<1>1. "ability" \in Fields /\ "effect_value_type" \in Fields
  BY FieldNames
<1>2. CASE x = NoSheet
  BY <1>2 DEF AbilityEntry, TypeEntry, Differs, IdOf
<1>3. CASE x # NoSheet
  <2> DEFINE a == [e EXCEPT !["ability"] = x.id]
             t == [e EXCEPT !["effect_value_type"] = x.id]
  <2>1. /\ Differs(e, a, {"ability"}) /\ a["ability"] = x.id
        /\ Differs(e, t, {"effect_value_type"}) /\ t["effect_value_type"] = x.id
    BY <1>1, PutDiffers
  <2>2. AbilityEntry(e, x) = a /\ TypeEntry(e, x) = t /\ IdOf(x) = x.id
    BY <1>3 DEF AbilityEntry, TypeEntry, IdOf
  <2> HIDE DEF a, t
  <2> QED BY <2>1, <2>2
<1> QED BY <1>2, <1>3

\* The entry in front of the value.
LEMMA EffectFields ==
    ASSUME NEW s, IsSheet(s), NEW ps
    PROVE  LET e == EffectEntry(s, ps)
           IN  /\ DOMAIN e = Fields
               /\ e["time"] = Clock(s.time)
               /\ EntityFields(e, s.src, ps, "src", "src_minion", "src_id")
               /\ EntityFields(e, s.dst, EntityPlayers(ps, s.src), "dst", "dst_minion", "dst_id")
               /\ e["ability"] = IdOf(s.ability)
               /\ e["effect_action"] = s.action.id /\ e["effect_type"] = s.type.id
               /\ \A f \in {"effect_value", "effect_value_type", "effect_value2",
                            "effect_value_type2", "entry_flags", "effect_thread"} : e[f] = 0
<1> DEFINE e0 == Blank
           e1 == TimeEntry(s)
           e2 == SrcEntry(s, ps)
           e3 == DstEntry(s, ps)
           e4 == AbilityEntry(e3, s.ability)
           e5 == [e4 EXCEPT !["effect_action"] = s.action.id]
           e6 == EffectEntry(s, ps)
           ps2 == EntityPlayers(ps, s.src)
           S == {"src", "src_minion", "src_id"}
           D == {"dst", "dst_minion", "dst_id"}
           V == {"effect_value", "effect_value_type", "effect_value2",
                 "effect_value_type2", "entry_flags", "effect_thread"}
<1>1. /\ s.src.kind \in {"nobody", "player", "companion", "mob"}
      /\ s.dst.kind \in {"nobody", "player", "companion", "mob"}
  <2>1. IsEntity(s.src) /\ IsEntity(s.dst)
    BY SheetOk
  <2> QED BY <2>1 DEF IsEntity
<1>2. DOMAIN e0 = Fields /\ \A f \in Fields : e0[f] = 0
  BY DEF Blank
<1>3. Differs(e0, e1, {"time"}) /\ e1["time"] = Clock(s.time)
  <2>1. "time" \in Fields
    BY FieldNames
  <2> HIDE DEF e0
  <2>2. e1 = [e0 EXCEPT !["time"] = Clock(s.time)]
    BY DEF TimeEntry, e0
  <2> HIDE DEF e1
  <2> QED BY <1>2, <2>1, <2>2, PutDiffers
<1> HIDE DEF e0, e1
<1>4. DOMAIN e1 = Fields /\ \A f \in Fields \ {"time"} : e1[f] = 0
  BY <1>2, <1>3 DEF Differs
<1>5. Differs(e1, e2, S) /\ EntityFields(e2, s.src, ps, "src", "src_minion", "src_id")
  <2>1. "src" \in Fields /\ "src_minion" \in Fields /\ "src_id" \in Fields
    BY FieldNames
  <2>2. e1["src"] = 0 /\ e1["src_minion"] = 0 /\ e1["src_id"] = 0
    BY <1>4, <2>1
  <2>3. e2 = EntityEntry(e1, ps, s.src, "src", "src_minion", "src_id")
    BY DEF SrcEntry, e1
  <2> HIDE DEF e2
  <2> QED BY <1>1, <1>4, <2>1, <2>2, <2>3, EntityDiffers
<1> HIDE DEF e2
<1>6. DOMAIN e2 = Fields /\ e2["time"] = e1["time"]
      /\ \A f \in Fields \ ({"time"} \cup S) : e2[f] = 0
  BY <1>4, <1>5, FieldNames DEF Differs
<1>7. Differs(e2, e3, D) /\ EntityFields(e3, s.dst, ps2, "dst", "dst_minion", "dst_id")
  <2>1. "dst" \in Fields /\ "dst_minion" \in Fields /\ "dst_id" \in Fields
    BY FieldNames
  <2>2. e2["dst"] = 0 /\ e2["dst_minion"] = 0 /\ e2["dst_id"] = 0
    BY <1>6, <2>1
  <2>3. e3 = EntityEntry(e2, ps2, s.dst, "dst", "dst_minion", "dst_id")
    BY DEF DstEntry, e2
  <2> HIDE DEF e3, ps2
  <2> QED BY <1>1, <1>6, <2>1, <2>2, <2>3, EntityDiffers
<1> HIDE DEF e3, ps2
<1>8. DOMAIN e3 = Fields /\ e3["ability"] = 0 /\ \A f \in V \cup {"ability", "effect_action", "effect_type"} : e3[f] = 0
  BY <1>6, <1>7, FieldNames DEF Differs
<1>9. Differs(e3, e4, {"ability"}) /\ e4["ability"] = IdOf(s.ability)
  BY <1>8, OptionalDiffers
<1> HIDE DEF e4
<1>10. Differs(e4, e5, {"effect_action"}) /\ e5["effect_action"] = s.action.id
  <2>1. "effect_action" \in Fields /\ DOMAIN e4 = Fields
    BY <1>9, FieldNames DEF Differs
  <2> QED BY <2>1, PutDiffers
<1>11. Differs(e5, e6, {"effect_type"}) /\ e6["effect_type"] = s.type.id
  <2>1. "effect_type" \in Fields /\ DOMAIN e5 = Fields
    BY <1>10, FieldNames DEF Differs
  <2>2. e6 = [e5 EXCEPT !["effect_type"] = s.type.id]
    BY DEF EffectEntry, e5, e4, e3
  <2> HIDE DEF e5, e6
  <2> QED BY <2>1, <2>2, PutDiffers
<1> HIDE DEF e5, e6
<1> DEFINE G == {"ability", "effect_action", "effect_type"}
<1>12. Differs(e3, e6, G)
  <2>1. Differs(e3, e5, {"ability"} \cup {"effect_action"})
    BY <1>9, <1>10, DiffersTwice
  <2>2. Differs(e3, e6, ({"ability"} \cup {"effect_action"}) \cup {"effect_type"})
    BY <1>11, <2>1, DiffersTwice
  <2>3. ({"ability"} \cup {"effect_action"}) \cup {"effect_type"} = G
    OBVIOUS
  <2> QED BY <2>2, <2>3
<1>13. EntityFields(e6, s.dst, ps2, "dst", "dst_minion", "dst_id")
  <2>1. "dst" \in Fields \ G /\ "dst_minion" \in Fields \ G /\ "dst_id" \in Fields \ G
    BY FieldNames
  <2> HIDE DEF G
  <2> QED BY <1>1, <1>7, <1>12, <2>1, EntityFieldsKept
<1>14. EntityFields(e6, s.src, ps, "src", "src_minion", "src_id")
  <2> DEFINE H == D \cup G
  <2>1. Differs(e2, e6, H)
    BY <1>7, <1>12, DiffersTwice
  <2>2. "src" \in Fields \ H /\ "src_minion" \in Fields \ H /\ "src_id" \in Fields \ H
    BY FieldNames
  <2> HIDE DEF H
  <2> QED BY <1>1, <1>5, <2>1, <2>2, EntityFieldsKept
<1>15. e6["time"] = Clock(s.time)
  <2>1. e6["time"] = e3["time"] /\ e3["time"] = e2["time"]
    BY <1>7, <1>12, FieldNames DEF Differs
  <2> QED BY <1>3, <1>6, <2>1
<1>16. e6["ability"] = IdOf(s.ability)
  <2>1. e6["ability"] = e5["ability"] /\ e5["ability"] = e4["ability"]
    BY <1>10, <1>11, FieldNames DEF Differs
  <2> QED BY <1>9, <2>1
<1>17. e6["effect_action"] = s.action.id
  <2>1. e6["effect_action"] = e5["effect_action"]
    BY <1>11, FieldNames DEF Differs
  <2> QED BY <1>10, <2>1
<1>18. \A f \in V : e6[f] = 0
  <2>1. \A f \in V : f \in Fields \ G
    BY FieldNames
  <2> QED BY <1>8, <1>12, <2>1 DEF Differs
<1>19. DOMAIN e6 = Fields
  BY <1>11 DEF Differs
<1> QED BY <1>11, <1>13, <1>14, <1>15, <1>16, <1>17, <1>18, <1>19 DEF e6, ps2

\* The second value in the entry.
SecondFields(e, t, m) ==
    IF t = NoSheet THEN e["effect_value2"] = 0 /\ e["effect_value_type2"] = 0
    ELSE e["effect_value2"] = m /\ e["effect_value_type2"] = t.type.id

\* The second value changes its fields only.
LEMMA SecondDiffers ==
    ASSUME NEW e, DOMAIN e = Fields, NEW t, t # NoSheet => t.crit \in BOOLEAN, NEW m, NEW new,
           new = IF t = NoSheet THEN e ELSE SecondEntry(e, t, m),
           e["effect_value2"] = 0, e["effect_value_type2"] = 0, e["entry_flags"] \in Int
    PROVE  /\ Differs(e, new, {"effect_value2", "effect_value_type2", "entry_flags"})
           /\ SecondFields(new, t, m)
           /\ new["entry_flags"] = e["entry_flags"] + (IF t # NoSheet /\ t.crit THEN 2 ELSE 0)
<1>1. CASE t = NoSheet
  <2>1. new = e
    BY <1>1
  <2> QED BY <1>1, <2>1 DEF Differs, SecondFields
<1>2. CASE t # NoSheet
  <2> DEFINE a == AmountEntry(e, "effect_value2", m, t.crit, 2)
             v == t.type.id
  <2>1. "effect_value2" \in Fields /\ "effect_value_type2" \in Fields /\ "entry_flags" \in Fields
    BY FieldNames
  <2>2. /\ Differs(e, a, {"effect_value2", "entry_flags"}) /\ a["effect_value2"] = m
        /\ a["entry_flags"] = e["entry_flags"] + (IF t.crit THEN 2 ELSE 0)
    <3> DEFINE crit == t.crit
               f == "effect_value2"
               flag == 2
    <3>1. /\ crit \in BOOLEAN /\ flag \in Int /\ f # "entry_flags" /\ f \in Fields
          /\ DOMAIN e = Fields /\ e["entry_flags"] \in Int
      BY <1>2, <2>1
    <3> HIDE DEF crit, f, flag
    <3>2. LET b == AmountEntry(e, f, m, crit, flag)
          IN  /\ Differs(e, b, {f, "entry_flags"}) /\ b[f] = m
              /\ b["entry_flags"] = e["entry_flags"] + (IF crit THEN flag ELSE 0)
      BY ONLY <3>1, AmountDiffers
    <3> QED BY <3>2 DEF crit, f, flag
  <2>3. new = [a EXCEPT !["effect_value_type2"] = v]
    BY <1>2 DEF SecondEntry
  <2> HIDE DEF a, v
  <2>4. DOMAIN a = Fields
    BY <2>2 DEF Differs
  <2>5. Differs(a, new, {"effect_value_type2"}) /\ new["effect_value_type2"] = v
    BY ONLY <2>1, <2>3, <2>4, PutDiffers
  <2>6. Differs(e, new, {"effect_value2", "effect_value_type2", "entry_flags"})
    <3>1. Differs(e, new, {"effect_value2", "entry_flags"} \cup {"effect_value_type2"})
      BY <2>2, <2>5, DiffersTwice
    <3>2. {"effect_value2", "entry_flags"} \cup {"effect_value_type2"} =
             {"effect_value2", "effect_value_type2", "entry_flags"}
      OBVIOUS
    <3> QED BY <3>1, <3>2
  <2>7. new["effect_value2"] = m /\ new["entry_flags"] = a["entry_flags"]
    BY <2>1, <2>2, <2>5 DEF Differs
  <2>8. SecondFields(new, t, m)
    BY <1>2, <2>5, <2>7 DEF SecondFields, v
  <2>9. t.crit <=> (t # NoSheet /\ t.crit)
    BY <1>2
  <2> QED BY <2>2, <2>6, <2>7, <2>8, <2>9
<1> QED BY <1>1, <1>2

\* The entry of a line, field by field.
LEMMA FieldsOfSheet ==
    ASSUME NEW s, IsSheet(s), NEW ps, NEW m1, NEW m2
    PROVE  DOMAIN SheetEntry(s, ps, m1, m2) = Fields /\ SheetFields(SheetEntry(s, ps, m1, m2), s, ps, m1, m2)
<1> DEFINE e == EffectEntry(s, ps)
           a == AmountEntry(e, "effect_value", m1, s.crit, 1)
           b == TypeEntry(a, s.value_type)
           new == SheetEntry(s, ps, m1, m2)
           t == s.second
           ps2 == EntityPlayers(ps, s.src)
           V == {"effect_value", "effect_value_type", "effect_value2",
                 "effect_value_type2", "entry_flags"}
<1>1. /\ DOMAIN e = Fields
      /\ e["time"] = Clock(s.time)
      /\ EntityFields(e, s.src, ps, "src", "src_minion", "src_id")
      /\ EntityFields(e, s.dst, ps2, "dst", "dst_minion", "dst_id")
      /\ e["ability"] = IdOf(s.ability)
      /\ e["effect_action"] = s.action.id /\ e["effect_type"] = s.type.id
      /\ \A f \in V \cup {"effect_thread"} : e[f] = 0
  BY EffectFields
<1>2. /\ s.crit \in BOOLEAN /\ (t # NoSheet => t.crit \in BOOLEAN)
      /\ s.src.kind \in {"nobody", "player", "companion", "mob"}
      /\ s.dst.kind \in {"nobody", "player", "companion", "mob"}
  <2>1. IsValue(s) /\ IsEntity(s.src) /\ IsEntity(s.dst)
    BY SheetOk
  <2> QED BY <2>1 DEF IsValue, IsSecondOrNone, IsSecond, IsEntity
<1>3. new = IF t = NoSheet THEN b ELSE SecondEntry(b, t, m2)
  BY DEF SheetEntry, ValueEntry, RestEntry
<1> HIDE DEF e, new, ps2
<1>4. /\ Differs(e, a, {"effect_value", "entry_flags"}) /\ a["effect_value"] = m1
      /\ a["entry_flags"] = (IF s.crit THEN 1 ELSE 0)
  <2> DEFINE crit == s.crit
             f == "effect_value"
             flag == 1
  <2>1. e["entry_flags"] = 0
    BY <1>1
  <2>2. /\ crit \in BOOLEAN /\ flag \in Int /\ f # "entry_flags" /\ f \in Fields
        /\ DOMAIN e = Fields /\ e["entry_flags"] \in Int
    BY <1>1, <1>2, <2>1, FieldNames
  <2> HIDE DEF crit, f, flag
  <2>3. LET c == AmountEntry(e, f, m1, crit, flag)
        IN  /\ Differs(e, c, {f, "entry_flags"}) /\ c[f] = m1
            /\ c["entry_flags"] = e["entry_flags"] + (IF crit THEN flag ELSE 0)
    BY ONLY <2>2, AmountDiffers
  <2> QED BY <2>1, <2>3 DEF crit, f, flag
<1> HIDE DEF a
<1>5. DOMAIN a = Fields /\ \A f \in {"effect_value_type", "effect_value2", "effect_value_type2"} : a[f] = 0
  BY <1>1, <1>4, FieldNames DEF Differs
<1>6. Differs(a, b, {"effect_value_type"}) /\ b["effect_value_type"] = IdOf(s.value_type)
  BY <1>5, OptionalDiffers
<1> HIDE DEF b
<1>7. /\ DOMAIN b = Fields /\ b["effect_value2"] = 0 /\ b["effect_value_type2"] = 0
      /\ b["entry_flags"] = (IF s.crit THEN 1 ELSE 0) /\ b["effect_value"] = m1
  BY <1>4, <1>5, <1>6, FieldNames DEF Differs
<1>8. /\ Differs(b, new, {"effect_value2", "effect_value_type2", "entry_flags"})
      /\ SecondFields(new, t, m2)
      /\ new["entry_flags"] = b["entry_flags"] + (IF t # NoSheet /\ t.crit THEN 2 ELSE 0)
  <2>1. b["entry_flags"] \in Int
    BY <1>7
  <2> HIDE DEF t
  <2> QED BY <1>2, <1>3, <1>7, <2>1, SecondDiffers
<1>9. new["effect_value"] = m1 /\ new["effect_value_type"] = IdOf(s.value_type)
  <2>1. new["effect_value"] = b["effect_value"] /\ new["effect_value_type"] = b["effect_value_type"]
    BY <1>8, FieldNames DEF Differs
  <2> QED BY <1>6, <1>7, <2>1
<1>10. Differs(e, new, V)
  <2>1. Differs(e, b, {"effect_value", "entry_flags"} \cup {"effect_value_type"})
    BY <1>4, <1>6, DiffersTwice
  <2>2. Differs(e, new, ({"effect_value", "entry_flags"} \cup {"effect_value_type"})
                           \cup {"effect_value2", "effect_value_type2", "entry_flags"})
    BY <1>8, <2>1, DiffersTwice
  <2>3. ({"effect_value", "entry_flags"} \cup {"effect_value_type"})
           \cup {"effect_value2", "effect_value_type2", "entry_flags"} = V
    OBVIOUS
  <2> QED BY <2>2, <2>3
<1>11. /\ new["time"] = e["time"] /\ new["ability"] = e["ability"]
       /\ new["effect_action"] = e["effect_action"] /\ new["effect_type"] = e["effect_type"]
       /\ new["effect_thread"] = e["effect_thread"] /\ DOMAIN new = Fields
  BY <1>10, FieldNames DEF Differs
<1>12. /\ EntityFields(new, s.src, ps, "src", "src_minion", "src_id")
       /\ EntityFields(new, s.dst, ps2, "dst", "dst_minion", "dst_id")
  <2>1. /\ "src" \in Fields \ V /\ "src_minion" \in Fields \ V /\ "src_id" \in Fields \ V
        /\ "dst" \in Fields \ V /\ "dst_minion" \in Fields \ V /\ "dst_id" \in Fields \ V
    BY FieldNames
  <2> HIDE DEF V
  <2>2. EntityFields(new, s.src, ps, "src", "src_minion", "src_id")
    BY <1>1, <1>2, <1>10, <2>1, EntityFieldsKept
  <2>3. EntityFields(new, s.dst, ps2, "dst", "dst_minion", "dst_id")
    BY <1>1, <1>2, <1>10, <2>1, EntityFieldsKept
  <2> QED BY <2>2, <2>3
<1>13. new["effect_thread"] = 0
  BY <1>1, <1>11
<1>14. new["entry_flags"] = FlagsOf(s)
  BY <1>7, <1>8 DEF FlagsOf
<1>15. SheetFields(new, s, ps, m1, m2)
  BY <1>1, <1>8, <1>9, <1>11, <1>12, <1>13, <1>14 DEF SheetFields, SecondFields, ps2
<1> QED BY <1>11, <1>15 DEF new

-----------------------------------------------------------------------------
(* Lines are text *)

\* A name with its id, whatever the line is.
LEMMA NamedIsText ==
    ASSUME NEW x, NameOk(x.name), x.id \in Nat
    PROVE  Named(x) \in Words
<1> DEFINE u == x.name
           b == <<Space, LBrace>>
           d == Decimal(x.id)
           z == <<RBrace>>
<1>1. u \in Words /\ b \in Words /\ d \in Words /\ z \in Words
  BY SmallWords, MarksAreChars, IdText DEF NameOk
<1>2. Named(x) = ((u \o b) \o d) \o z
  BY DEF Named
<1> HIDE DEF u, b, d, z
<1>3. u \o b \in Words
  BY <1>1, TextConcat
<1>4. (u \o b) \o d \in Words
  BY <1>1, <1>3, TextConcat
<1> QED BY <1>1, <1>2, <1>4, TextConcat

\* Texts one behind the other are a text.
LEMMA ThreeAreText ==
    ASSUME NEW u \in Words, NEW v \in Words, NEW w \in Words
    PROVE  (u \o v) \o w \in Words
<1>1. u \o v \in Words
  BY TextConcat
<1> QED BY <1>1, TextConcat

\* So are five of them.
LEMMA FiveAreText ==
    ASSUME NEW u \in Words, NEW v \in Words, NEW w \in Words, NEW y \in Words, NEW z \in Words
    PROVE  (((u \o v) \o w) \o y) \o z \in Words
<1> DEFINE t == (u \o v) \o w
<1>1. t \in Words
  BY ThreeAreText
<1> HIDE DEF t
<1>2. (t \o y) \o z \in Words
  BY <1>1, ThreeAreText
<1> QED BY <1>2 DEF t

\* What is in the brackets of an entity is text.
LEMMA ContentIsText ==
    ASSUME NEW x, IsEntity(x)
    PROVE  Content(x) \in Words
<1> DEFINE a == <<"@">>
           c == <<":">>
<1>1. a \in Words /\ c \in Words /\ << >> \in Words
  BY SmallWords, MarksAreChars
<1> HIDE DEF a, c
<1>2. CASE x.kind = "nobody"
  BY <1>1, <1>2 DEF Content
<1>3. CASE x.kind = "player"
  <2>1. x.name \in Words
    BY <1>3, NamesAreOk DEF IsEntity, NameOk
  <2>2. Content(x) = a \o x.name
    BY <1>3 DEF Content, a
  <2> QED BY <1>1, <2>1, <2>2, TextConcat
<1>4. CASE x.kind = "companion"
  <2> DEFINE u == x.name
             w == Named(x.minion)
  <2>1. NameOk(x.name) /\ NameOk(x.minion.name) /\ x.minion.id \in Nat
    BY <1>4, NamesAreOk DEF IsEntity, IsNamed, IsNumber
  <2>2. u \in Words /\ w \in Words
    BY <2>1, NamedIsText DEF NameOk
  <2>3. Content(x) = ((a \o u) \o c) \o w
    BY <1>4 DEF Content, a, c
  <2> HIDE DEF u, w
  <2>4. (a \o u) \o c \in Words
    BY <1>1, <2>2, ThreeAreText
  <2> QED BY <2>2, <2>3, <2>4, TextConcat
<1>5. CASE x.kind = "mob"
  <2> DEFINE u == Named(x)
             w == Decimal(x.number)
  <2>1. NameOk(x.name) /\ x.id \in Nat /\ x.number \in Nat
    BY <1>5, NamesAreOk DEF IsEntity, IsNamed, IsNumber
  <2>2. u \in Words /\ w \in Words
    BY <2>1, NamedIsText, IdText
  <2>3. Content(x) = (u \o c) \o w
    BY <1>5 DEF Content, c
  <2> HIDE DEF u, w
  <2> QED BY <1>1, <2>2, <2>3, ThreeAreText
<1>6. x.kind \in {"nobody", "player", "companion", "mob"}
  BY DEF IsEntity
<1> QED BY <1>2, <1>3, <1>4, <1>5, <1>6

\* An entity is text.
LEMMA EntityIsText ==
    ASSUME NEW x, IsEntity(x)
    PROVE  Entity(x) \in Words
<1> DEFINE a == <<"[">>
           u == Content(x)
           z == <<"]", Space>>
<1>1. a \in Words /\ u \in Words /\ z \in Words
  BY SmallWords, MarksAreChars, ContentIsText
<1>2. Entity(x) = (a \o u) \o z
  BY DEF Entity, Content
<1> HIDE DEF a, u, z
<1> QED BY <1>1, <1>2, ThreeAreText

\* The time is text.
LEMMA TimeIsText ==
    ASSUME NEW t, \A i \in 1..4 : t[i] \in Nat
    PROVE  Time(t) \in Words
<1> DEFINE a == <<"[", "0">>
           c == <<":">>
           p == <<".">>
           z == <<"]", Space>>
           h == Decimal(t[1])
           m == Decimal(t[2])
           s == Decimal(t[3])
           k == Decimal(t[4])
           f == (((a \o h) \o c) \o m) \o c
<1>1. a \in Words /\ c \in Words /\ p \in Words /\ z \in Words
  BY SmallWords, MarksAreChars
<1>2. h \in Words /\ m \in Words /\ s \in Words /\ k \in Words
  <2>1. t[1] \in Nat /\ t[2] \in Nat /\ t[3] \in Nat /\ t[4] \in Nat
    OBVIOUS
  <2> QED BY <2>1, IdText
<1>3. Time(t) = (((f \o s) \o p) \o k) \o z
  BY DEF Time
<1> HIDE DEF a, c, p, z, h, m, s, k
<1>4. f \in Words
  BY <1>1, <1>2, FiveAreText
<1> HIDE DEF f
<1> QED BY <1>1, <1>2, <1>3, <1>4, FiveAreText

\* A type and an ability are text.
LEMMA TypeIsText ==
    ASSUME NEW x, IsType(x)
    PROVE  Ability(x) \in Words /\ Type(x) \in Words
<1> DEFINE a == <<"[">>
           z == <<"]", Space>>
           sp == <<Space>>
           w == Inside(x)
<1>1. a \in Words /\ z \in Words /\ sp \in Words /\ << >> \in Words
  BY SmallWords, MarksAreChars
<1>2. CASE x = NoSheet
  <2>1. w = << >> /\ Type(x) = << >>
    BY <1>2 DEF Type, Inside
  <2>2. Ability(x) = (a \o w) \o z
    BY DEF Ability, Inside
  <2> HIDE DEF a, z, w
  <2> QED BY <1>1, <2>1, <2>2, ThreeAreText
<1>3. CASE x # NoSheet
  <2>1. w \in Words /\ Type(x) = sp \o w
    BY <1>3, NamedIsText DEF IsType, IsNumber, Type, Inside
  <2>2. Ability(x) = (a \o w) \o z
    BY DEF Ability, Inside
  <2> HIDE DEF a, z, w, sp
  <2> QED BY <1>1, <2>1, <2>2, ThreeAreText, TextConcat
<1> QED BY <1>2, <1>3

\* An amount is text.
LEMMA AmountIsText ==
    ASSUME NEW n \in Int, NEW crit \in BOOLEAN
    PROVE  Amount(n, crit) \in Words
<1> DEFINE u == Decimal(n)
           w == IF crit THEN <<"*">> ELSE << >>
<1>1. u \in Words
  BY DecimalText
<1>2. w \in Words
  BY SmallWords, MarksAreChars
<1>3. Amount(n, crit) = u \o w
  BY DEF Amount
<1> HIDE DEF u, w
<1> QED BY <1>1, <1>2, <1>3, TextConcat

\* The value is text.
LEMMA ValueIsText ==
    ASSUME NEW s, IsValue(s)
    PROVE  Value(s) \in Words
<1> DEFINE a == <<"(">>
           b == <<Space, "(">>
           sp == <<Space>>
           z == <<")">>
           v == Amount(s.value, s.crit)
           c == Type(s.value_type)
           t == s.second
           d == Second(t)
<1>1. a \in Words /\ b \in Words /\ sp \in Words /\ z \in Words /\ << >> \in Words
  BY SmallWords, MarksAreChars
<1>2. v \in Words /\ c \in Words
  BY AmountIsText, TypeIsText DEF IsValue
<1>3. d \in Words
  <2>1. CASE t = NoSheet
    BY <1>1, <2>1 DEF Second
  <2>2. CASE t # NoSheet
    <3> DEFINE u == Amount(t.value, t.crit)
               w == Named(t.type)
    <3>1. u \in Words /\ w \in Words
      BY <2>2, AmountIsText, NamedIsText DEF IsValue, IsSecondOrNone, IsSecond, IsNumber
    <3>2. d = (((b \o u) \o sp) \o w) \o z
      BY <2>2 DEF Second
    <3> HIDE DEF b, u, sp, w, z, d
    <3> QED BY <1>1, <3>1, <3>2, FiveAreText
  <2> QED BY <2>1, <2>2
<1>4. Value(s) = (((a \o v) \o c) \o d) \o z
  BY DEF Value
<1> HIDE DEF a, b, sp, z, v, c, d
<1> QED BY <1>1, <1>2, <1>3, <1>4, FiveAreText

\* A line is text.
LEMMA SheetIsText ==
    ASSUME NEW s, IsSheet(s)
    PROVE  WholeLine(s) \in Words
<1> DEFINE w1 == Time(s.time)
           w2 == Entity(s.src)
           w3 == Entity(s.dst)
           w4 == Ability(s.ability)
           w5 == Effect(s.action, s.type)
           w6 == Value(s)
           a == <<"[">>
           b == Named(s.action)
           c == <<":", Space>>
           d == Named(s.type)
           z == <<"]", Space>>
           y == <<Space, "<">>
           n == Decimal(s.threat)
           x == <<">">>
           t5 == (((w1 \o w2) \o w3) \o w4) \o w5
<1>1. /\ \A i \in 1..4 : s.time[i] \in Nat
      /\ IsEntity(s.src) /\ IsEntity(s.dst) /\ IsType(s.ability)
      /\ NameOk(s.action.name) /\ NameOk(s.type.name) /\ s.action.id \in Nat /\ s.type.id \in Nat
      /\ IsValue(s) /\ s.threat \in Int
  BY SheetOk DEF IsNumber
<1>2. a \in Words /\ c \in Words /\ z \in Words /\ y \in Words /\ x \in Words
  BY SmallWords, MarksAreChars
<1>3. b \in Words /\ d \in Words
  BY <1>1, NamedIsText
<1>4. w5 \in Words
  <2>1. w5 = (((a \o b) \o c) \o d) \o z
    BY DEF Effect
  <2> HIDE DEF w5, a, b, c, d, z
  <2> QED BY <1>2, <1>3, <2>1, FiveAreText
<1>5. w1 \in Words
  BY <1>1, TimeIsText
<1>6. w2 \in Words /\ w3 \in Words
  BY <1>1, EntityIsText
<1>7. w4 \in Words /\ w6 \in Words /\ n \in Words
  BY <1>1, TypeIsText, ValueIsText, DecimalText
<1>8. WholeLine(s) = (((t5 \o w6) \o y) \o n) \o x
  BY DEF WholeLine, Body
<1> HIDE DEF w1, w2, w3, w4, w5, w6, y, n, x
<1>9. t5 \in Words
  BY <1>4, <1>5, <1>6, <1>7, FiveAreText
<1> HIDE DEF t5
<1> QED BY <1>2, <1>7, <1>8, <1>9, FiveAreText

-----------------------------------------------------------------------------
(* What the entry says *)

Reached(x, ps, all) == IsPlayer(x) => all[PlayerId(ps, x.name)] = x.name
NamesHeld(x, ss) == \A y \in NamedIn(x) : Holds(ss, y)

\* Whom the entry means.
LEMMA EntitySays ==
    ASSUME NEW e, NEW x, x.kind \in {"nobody", "player", "companion", "mob"},
           NEW ps, NEW name, NEW minion, NEW id, EntityFields(e, x, ps, name, minion, id),
           NEW all, Reached(x, ps, all), NEW ss, NamesHeld(x, ss)
    PROVE  Is(x, e[name], e[minion], e[id], all, ss)
<1>1. CASE x.kind = "nobody"
  BY <1>1 DEF EntityFields, Is
<1>2. CASE x.kind = "player"
  <2>1. e[name] = PlayerId(ps, x.name) /\ e[minion] = 0 /\ e[id] = 0
    BY <1>2 DEF EntityFields
  <2>2. IsPlayer(x)
    BY <1>2 DEF IsPlayer
  <2> QED BY <1>2, <2>1, <2>2 DEF Is, Reached
<1>3. CASE x.kind = "companion"
  <2>1. e[name] = PlayerId(ps, x.name) /\ e[minion] = x.minion.id /\ e[id] = 0
    BY <1>3 DEF EntityFields
  <2>2. IsPlayer(x)
    BY <1>3 DEF IsPlayer
  <2>3. x.minion \in NamedIn(x)
    BY <1>3 DEF NamedIn
  <2>4. Names(x.minion, e[minion], ss)
    BY <2>1, <2>3 DEF Names, Holds, NamesHeld
  <2> QED BY <1>3, <2>1, <2>2, <2>4 DEF Is, Reached
<1>4. CASE x.kind = "mob"
  <2>1. e[name] = x.id /\ e[minion] = 0 /\ e[id] = x.number
    BY <1>4 DEF EntityFields
  <2>2. x \in NamedIn(x)
    BY <1>4 DEF NamedIn
  <2>3. Names(x, e[name], ss)
    BY <2>1, <2>2 DEF Names, Holds, NamesHeld
  <2> QED BY <1>4, <2>1, <2>3 DEF Is
<1> QED BY <1>1, <1>2, <1>3, <1>4

\* The numbers of a line can be read.
LEMMA ReadableNumbers ==
    ASSUME NEW s, Readable(s)
    PROVE  /\ Small(s.value) /\ Small(s.threat)
           /\ s.second # NoSheet => Small(s.second.value)
BY DEF Readable, Small

\* The entry of a line says what the line says.
LEMMA SheetSays ==
    ASSUME NEW s, IsSheet(s), NEW db, IsDatabase(db), Readable(s), NEW m1, NEW m2,
           AreRead(s, m1, m2), NEW e, SheetFields(e, s, db, m1, m2)
    PROVE  Says(s, e, 0, SheetPlayers(s, db), SheetStrings(s, << >>))
<1> DEFINE all == SheetPlayers(s, db)
           ss == SheetStrings(s, << >>)
           mid == EntityPlayers(db, s.src)
<1>1. \A x \in Things(s) : Holds(ss, x)
  BY StringsOfSheet
<1>2. /\ s.action \in Things(s) /\ s.type \in Things(s)
      /\ s.ability # NoSheet => s.ability \in Things(s)
      /\ s.value_type # NoSheet => s.value_type \in Things(s)
      /\ s.second # NoSheet => s.second.type \in Things(s)
      /\ NamedIn(s.src) \subseteq Things(s) /\ NamedIn(s.dst) \subseteq Things(s)
  BY DEF Things
<1>3. IsEntity(s.src) /\ IsEntity(s.dst)
  BY SheetOk
<1>4. /\ s.src.kind \in {"nobody", "player", "companion", "mob"}
      /\ s.dst.kind \in {"nobody", "player", "companion", "mob"}
  BY <1>3 DEF IsEntity
<1>5. /\ IsPlayer(s.src) => all[PlayerId(db, s.src.name)] = s.src.name
      /\ IsPlayer(s.dst) => all[PlayerId(mid, s.dst.name)] = s.dst.name
  BY <1>3, PlayersOfSheet
<1> HIDE DEF all, ss, mid
<1>6. Is(s.src, e["src"], e["src_minion"], e["src_id"], all, ss)
  <2> DEFINE x == s.src
             name == "src"
             minion == "src_minion"
             id == "src_id"
  <2>1. /\ EntityFields(e, x, db, name, minion, id)
        /\ x.kind \in {"nobody", "player", "companion", "mob"}
        /\ Reached(x, db, all) /\ NamesHeld(x, ss)
    BY <1>1, <1>2, <1>4, <1>5 DEF SheetFields, Reached, NamesHeld
  <2> HIDE DEF x, name, minion, id
  <2>2. Is(x, e[name], e[minion], e[id], all, ss)
    BY ONLY <2>1, EntitySays
  <2> QED BY <2>2 DEF x, name, minion, id
<1>7. Is(s.dst, e["dst"], e["dst_minion"], e["dst_id"], all, ss)
  <2> DEFINE x == s.dst
             name == "dst"
             minion == "dst_minion"
             id == "dst_id"
  <2>1. /\ EntityFields(e, x, mid, name, minion, id)
        /\ x.kind \in {"nobody", "player", "companion", "mob"}
        /\ Reached(x, mid, all) /\ NamesHeld(x, ss)
    BY <1>1, <1>2, <1>4, <1>5 DEF SheetFields, mid, Reached, NamesHeld
  <2> HIDE DEF x, name, minion, id
  <2>2. Is(x, e[name], e[minion], e[id], all, ss)
    BY ONLY <2>1, EntitySays
  <2> QED BY <2>2 DEF x, name, minion, id
<1>8. /\ e["ability"] = IdOf(s.ability) /\ e["effect_action"] = s.action.id
      /\ e["effect_type"] = s.type.id /\ e["effect_value_type"] = IdOf(s.value_type)
      /\ e["effect_value"] = m1 /\ e["effect_thread"] = 0 /\ e["entry_flags"] = FlagsOf(s)
      /\ e["time"] = Clock(s.time)
      /\ IF s.second = NoSheet
         THEN e["effect_value2"] = 0 /\ e["effect_value_type2"] = 0
         ELSE e["effect_value2"] = m2 /\ e["effect_value_type2"] = s.second.type.id
  BY DEF SheetFields
<1>9. MayName(s.ability, e["ability"], ss) /\ MayName(s.value_type, e["effect_value_type"], ss)
  BY <1>1, <1>2, <1>8 DEF MayName, Names, IdOf, Holds
<1>10. Names(s.action, e["effect_action"], ss) /\ Names(s.type, e["effect_type"], ss)
  BY <1>1, <1>2, <1>8 DEF Names, Holds
<1>11. m1 = s.value /\ (s.second # NoSheet => m2 = s.second.value)
  BY ReadableNumbers DEF AreRead
<1>12. IF s.second = NoSheet
       THEN e["effect_value2"] = 0 /\ e["effect_value_type2"] = 0
       ELSE /\ e["effect_value2"] = s.second.value
            /\ Names(s.second.type, e["effect_value_type2"], ss)
  BY <1>1, <1>2, <1>8, <1>11 DEF Names, Holds
<1> QED BY <1>6, <1>7, <1>8, <1>9, <1>10, <1>11, <1>12 DEF Says, Clock, FlagsOf, all, ss

\* The threat is set last.
LEMMA ThreatSays ==
    ASSUME NEW s, IsSheet(s), NEW e, DOMAIN e = Fields, NEW ps, NEW ss, Says(s, e, 0, ps, ss), NEW n
    PROVE  Says(s, [e EXCEPT !["effect_thread"] = n], n, ps, ss)
<1> DEFINE new == [e EXCEPT !["effect_thread"] = n]
<1>1. "effect_thread" \in Fields
  BY FieldNames
<1>2. Differs(e, new, {"effect_thread"}) /\ new["effect_thread"] = n
  BY <1>1, PutDiffers
<1> HIDE DEF new
<1>3. \A f \in Fields \ {"effect_thread"} : new[f] = e[f]
  BY <1>2 DEF Differs
<1>4. /\ new["time"] = e["time"] /\ new["src"] = e["src"] /\ new["ability"] = e["ability"]
      /\ new["effect_action"] = e["effect_action"] /\ new["effect_type"] = e["effect_type"]
      /\ new["src_minion"] = e["src_minion"] /\ new["src_id"] = e["src_id"]
      /\ new["dst"] = e["dst"] /\ new["dst_minion"] = e["dst_minion"] /\ new["dst_id"] = e["dst_id"]
      /\ new["effect_value_type"] = e["effect_value_type"]
      /\ new["effect_value2"] = e["effect_value2"]
      /\ new["effect_value_type2"] = e["effect_value_type2"]
      /\ new["effect_value"] = e["effect_value"] /\ new["entry_flags"] = e["entry_flags"]
  BY <1>3, FieldNames
<1>5. Says(s, new, n, ps, ss)
  BY <1>2, <1>4 DEF Says
<1> QED BY <1>5 DEF new

-----------------------------------------------------------------------------
(* The lines of the game come to their entries *)

IsPart(s, w) == \E n \in 1..Len(WholeLine(s)) : w = SubSeq(WholeLine(s), 1, n)

\* The beginning of a line.
LEMMA PartOfLine ==
    ASSUME NEW s, IsSheet(s), IsPart(s, line)
    PROVE  /\ line \in Words /\ Stands(0, WholeLine(s))
           /\ Len(line) \in Nat /\ Len(WholeLine(s)) \in Nat /\ Len(line) <= Len(WholeLine(s))
           /\ line = WholeLine(s) <=> Len(line) = Len(WholeLine(s))
<1> DEFINE w == WholeLine(s)
<1>1. w \in Seq(Char)
  BY SheetIsText DEF Words
<1>2. PICK n \in 1..Len(w) : line = SubSeq(w, 1, n)
  BY DEF IsPart
<1> HIDE DEF w
<1>3. Len(w) \in Nat
  BY <1>1, LenProperties
<1>4. line \in Seq(Char) /\ Len(line) = n /\ \A i \in 1..n : line[i] = w[i]
  <2>1. 1 \in Nat \ {0} /\ n \in Nat /\ n <= Len(w)
    BY <1>2, <1>3
  <2> QED BY <1>1, <1>2, <2>1, SubSeqProperties
<1>5. Stands(0, w)
  <2>1. ASSUME NEW k \in 1..Len(w), 0 + k <= Len(line) PROVE line[0 + k] = w[k]
    <3>1. 0 + k = k /\ k \in 1..n
      BY <1>2, <1>3, <1>4, <2>1
    <3> QED BY <1>4, <3>1
  <2> QED BY <2>1 DEF Stands
<1>6. Len(line) = Len(w) => line = w
  BY <1>1, <1>4, SeqEqual
<1> QED BY <1>2, <1>3, <1>4, <1>5, <1>6 DEF w, Words

\* A line that is not read yet is of the game, and nothing was translated before.
LineInv ==
    /\ LinesAreRead
    /\ stage = "written" => /\ sheet \in Sheets /\ IsPart(sheet, line)
                            /\ IsDatabase(players) /\ strings = << >>

\* It holds in the beginning.
LEMMA LineInitOk ==
    LineInit => LineInv
<1>1. ASSUME LogInit PROVE LineInv
  BY <1>1, DatabasesAssumption DEF LogInit, LineInv, LinesAreRead, IsPart
<1>2. ASSUME EntryInit PROVE LineInv
  BY <1>2 DEF EntryInit, CodecInit, LineInv, LinesAreRead
<1> QED BY <1>1, <1>2 DEF LineInit

\* A line that is read says what it says, one that is refused was cut off.
LEMMA ParseLineOk ==
    ASSUME LineInv, ParseLine
    PROVE  LinesAreRead'
<1> DEFINE s == sheet
           w == WholeLine(s)
           b == Len(Body(s))
           ps == SheetPlayers(s, players)
           ss == SheetStrings(s, << >>)
<1>1. /\ s \in Sheets /\ IsPart(s, line) /\ IsDatabase(players) /\ strings = << >>
      /\ sheet' = s /\ line' = line /\ players' = Parsed.players /\ strings' = Parsed.strings
      /\ IF Parsed.ok THEN stage' = "parsed" /\ entry' = Parsed.entry
         ELSE stage' = "refused" /\ UNCHANGED entry
  BY DEF LineInv, ParseLine
<1>2. IsSheet(s)
  BY <1>1, SheetsAssumption
<1>3. /\ line \in Words /\ Stands(0, w) /\ Len(line) \in Nat /\ Len(w) \in Nat /\ Len(line) <= Len(w)
      /\ line = w <=> Len(line) = Len(w)
  BY <1>1, <1>2, PartOfLine
<1>4. b \in Nat
  BY <1>2, <1>3, LineText
<1> HIDE DEF s, w, b
<1>5. /\ b + 2 < Len(w)
      /\ \E m1, m2, m3 :
           /\ AreRead(s, m1, m2) /\ (Small(s.threat) => m3 = s.threat)
           /\ Len(line) = Len(w) =>
                 Gives(Parsed, [SheetEntry(s, players, m1, m2) EXCEPT !["effect_thread"] = m3],
                       SheetPlayers(s, players), SheetStrings(s, strings))
           /\ Len(line) \in {b, b + 1} =>
                 Gives(Parsed, SheetEntry(s, players, m1, m2),
                       SheetPlayers(s, players), SheetStrings(s, strings))
           /\ Len(line) # Len(w) /\ Len(line) \notin {b, b + 1} => Parsed.ok = FALSE
  <2>1. line \in Words /\ IsSheet(s) /\ Stands(0, WholeLine(s)) /\ Len(line) <= Len(WholeLine(s))
    BY <1>2, <1>3 DEF w
  <2> QED BY <2>1, ParsedOn DEF w, b
<1> HIDE DEF ps, ss
<1>6. PICK m1, m2, m3 :
        /\ AreRead(s, m1, m2) /\ (Small(s.threat) => m3 = s.threat)
        /\ Len(line) = Len(w) =>
              Gives(Parsed, [SheetEntry(s, players, m1, m2) EXCEPT !["effect_thread"] = m3], ps, ss)
        /\ Len(line) \in {b, b + 1} => Gives(Parsed, SheetEntry(s, players, m1, m2), ps, ss)
        /\ Len(line) # Len(w) /\ Len(line) \notin {b, b + 1} => Parsed.ok = FALSE
  BY <1>1, <1>5 DEF ps, ss
<1> DEFINE e == SheetEntry(s, players, m1, m2)
<1>7. DOMAIN e = Fields /\ (Readable(s) => Says(s, e, 0, ps, ss))
  BY <1>1, <1>2, <1>6, FieldsOfSheet, SheetSays DEF ps, ss
<1> HIDE DEF e
<1>8. CASE Len(line) = Len(w)
  <2> DEFINE new == [e EXCEPT !["effect_thread"] = m3]
  <2>1. Gives(Parsed, new, ps, ss)
    BY <1>6, <1>8 DEF e
  <2>2. Readable(s) => Says(s, new, m3, ps, ss)
    BY <1>2, <1>7, ThreatSays
  <2>3. Readable(s) => m3 = s.threat
    BY <1>6, ReadableNumbers
  <2> HIDE DEF new
  <2>4. stage' = "parsed" /\ entry' = new /\ players' = ps /\ strings' = ss
    BY <1>1, <2>1 DEF Gives
  <2>5. Len(line) >= b /\ line = w
    <3>1. b + 2 < Len(w)
      BY <1>5
    <3> QED BY <1>3, <1>4, <1>8, <3>1
  <2>6. Readable(s) => Says(s, new, s.threat, ps, ss)
    BY <2>2, <2>3
  <2> QED BY <1>1, <2>4, <2>5, <2>6 DEF LinesAreRead, w, b
<1>9. CASE Len(line) \in {b, b + 1}
  <2>1. Gives(Parsed, e, ps, ss)
    BY <1>6, <1>9 DEF e
  <2>2. stage' = "parsed" /\ entry' = e /\ players' = ps /\ strings' = ss
    BY <1>1, <2>1 DEF Gives
  <2>3. Len(line) >= b /\ line # w
    <3>1. b + 2 < Len(w)
      BY <1>5
    <3> QED BY <1>3, <1>4, <1>9, <3>1
  <2> QED BY <1>1, <1>7, <2>2, <2>3 DEF LinesAreRead, w, b
<1>10. CASE Len(line) # Len(w) /\ Len(line) \notin {b, b + 1}
  <2>1. Parsed.ok = FALSE
    BY <1>6, <1>10
  <2>2. stage' = "refused"
    BY <1>1, <2>1
  <2>3. Len(line) < Len(w)
    BY <1>3, <1>10
  <2> QED BY <1>1, <2>2, <2>3 DEF LinesAreRead, w
<1> QED BY <1>8, <1>9, <1>10

\* Every line that the game writes is read, and its entry and the two databases say
\* what the line says; a beginning of one is refused, except when only the threat is
\* missing.  It is so for all names, numbers and databases, and for every beginning.
THEOREM LinesComeToEntries ==
    LineSpec => []LinesAreRead
<1>1. LineInit => LineInv
  BY LineInitOk
<1>2. LineInv /\ [LineNext]_<<codecVars, lineVars>> => LineInv'
  <2>1. ASSUME LineInv, ParseLine PROVE LineInv'
    <3>1. LinesAreRead'
      BY <2>1, ParseLineOk
    <3>2. stage' # "written"
      BY <2>1 DEF ParseLine
    <3> QED BY <3>1, <3>2 DEF LineInv
  <2>2. ASSUME LineInv, CodecNext PROVE LineInv'
    <3>1. stage' \in {"sent", "received"}
      BY <2>2 DEF CodecNext, Send, Receive
    <3> QED BY <3>1 DEF LineInv, LinesAreRead
  <2>3. ASSUME LineInv, UNCHANGED <<codecVars, lineVars>> PROVE LineInv'
    <3>1. stage' = stage /\ entry' = entry /\ sheet' = sheet /\ line' = line /\ players' = players
          /\ strings' = strings
      BY <2>3 DEF codecVars, lineVars
    <3> QED BY <2>3, <3>1 DEF LineInv, LinesAreRead
  <2> QED BY <2>1, <2>2, <2>3 DEF LineNext
<1>3. LineInv => LinesAreRead
  BY DEF LineInv
<1> QED BY <1>1, <1>2, <1>3, PTL DEF LineSpec
=============================================================================
