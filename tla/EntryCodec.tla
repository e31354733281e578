----------------------------- MODULE EntryCodec -----------------------------
(***************************************************************************)
(* How a log entry travels from a client to the server: compress,          *)
(* uncompress (swtor_log_parser.cpp) and the variable-length integers they *)
(* are made of, pack_int and unpack_int (int_compress.h).                  *)
(*                                                                         *)
(* An entry is a function from its fields to integers.  A byte is a        *)
(* number: the digit it carries, and Digit more when another one follows.  *)
(* The buffer of the code is the prefix of it that was written.            *)
(***************************************************************************)
EXTENDS Integers, Sequences, SequencesExt, FiniteSetsExt

CONSTANTS
    Entries,   \* entries to send
    Garbage,   \* what a shift by more than the width of an integer may leave
    DigitBits, \* bits of an integer in one byte (7)
    Digit,     \* values they have (128)
    IntBits,   \* bits of the signed integers (32)
    IdBits,    \* bits of the ids and of the time (64)
    Sizes,     \* bytes that the greatest value of a field takes
    ArraySize       \* bytes of the array (sizeof combat_log_entry + 16)

ASSUME BitsAssumption ==
    DigitBits \in Nat \ {0} /\ IntBits \in Nat \ {0} /\ IdBits \in Nat \ {0}
ASSUME DigitAssumption == Digit \in Nat \ {0, 1}
ASSUME DigitHasItsBits == Digit = 2 ^ DigitBits
ASSUME ArraySizeAssumption == ArraySize \in Nat \ {0}

\* The fields in the order in which compress and uncompress name them.
Order == <<"time", "src", "ability", "effect_action", "effect_type",
           "src_minion", "src_id", "dst", "dst_minion", "dst_id", "effect_value_type",
           "effect_value2", "effect_value_type2", "effect_thread", "effect_value",
           "entry_flags">>
Fields == ToSet(Order)
Required == {"time", "src", "ability", "effect_action", "effect_type"}

\* 1 << log_entry_optional_elements
FlagBit == [src_minion |-> 1, src_id |-> 2, dst |-> 4, dst_minion |-> 8, dst_id |-> 16,
            effect_value_type |-> 32, effect_value2 |-> 64, effect_value_type2 |-> 128,
            effect_thread |-> 256, effect_value |-> 512, entry_flags |-> 1024]
FlagSums == 0..2047

Signed == {"effect_value", "effect_value2", "effect_thread", "entry_flags"}

FlagsBits == 16  \* unsigned short
Bits(f) == IF f \in Signed THEN IntBits ELSE IF f = "flags" THEN FlagsBits ELSE IdBits

\* v after k shifts by the bits of a digit.  A negative value stays negative.
Shifted(v) ==
    LET shifted[k \in 0..ArraySize] == IF k = 0 THEN v ELSE shifted[k - 1] \div Digit
    IN  shifted

\* The bytes of an entry whose fields are all as long as they may be.
LongestEntry == FoldLeft(LAMBDA n, f : n + Sizes[f], Sizes["flags"], Order)

\* A field is not wider than its type, all of them fit into the array, and the
\* values are not larger than their fields.
ASSUME FieldSizesAssumption ==
    /\ Sizes \in [Fields \cup {"flags"} -> 1..ArraySize]
    /\ \A f \in Fields \cup {"flags"} : (Sizes[f] - 1) * DigitBits < Bits(f)
    /\ LongestEntry <= ArraySize
ASSUME FlagsAssumption == \A flags \in FlagSums : Shifted(flags)[Sizes["flags"]] = 0
ASSUME EntriesAssumption ==
    \A e \in Entries :
        /\ e \in [Fields -> Int]
        /\ \A f \in Fields : e[f] >= 0 => Shifted(e[f])[Sizes[f]] = 0
        /\ \A f \in Fields \ Signed : e[f] >= 0

VARIABLES
    entry,   \* the entry the client has
    bytes,   \* what compress wrote
    result,  \* what uncompress made of it
    taken,   \* number of bytes uncompress read
    stage    \* how far it has come

codecVars == <<entry, bytes, result, taken, stage>>

\* pack_int: the first byte is written whether there is room or not.
PackInt(b, v) ==
    LET rest == Shifted(v)
        Ends(k) == rest[k] = 0 \/ Len(b) + k >= ArraySize
        n == CHOOSE k \in 1..ArraySize : Ends(k) /\ \A j \in 1..k - 1 : ~ Ends(j)
    IN  b \o [k \in 1..n |-> (rest[k - 1] % Digit) + (IF rest[k] # 0 THEN Digit ELSE 0)]

\* The bytes from at on that unpack_int reads, up to the end of the array.
LastByte(b, at) ==
    LET stops == {k \in at + 1..Len(b) : k <= ArraySize /\ b[k] < Digit}
    IN  IF stops = {} THEN ArraySize ELSE Min(stops)

\* One turn of unpack_int: a digit more, of the next weight.
AddDigit(sum, byte) ==
    [value |-> sum.value + sum.weight * (byte % Digit), weight |-> sum.weight * Digit]

\* unpack_int: the value of width bits, and where it ends.
UnpackInt(b, at, width, garbage) ==
    LET last == LastByte(b, at)
        sum == FoldLeft(AddDigit, [value |-> 0, weight |-> 1], SubSeq(b, at + 1, last))
    IN  [at |-> last,
         value |-> IF (last - at - 1) * DigitBits >= width THEN garbage ELSE sum.value]

\* Slip: an entry without a target comes back with its source as target.
PresentNonZero(e, f) == e[f] # 0

\* The flag of an optional field: the target is left out when it is the source.
Present(e, f) == IF f = "dst" THEN e["src"] # e["dst"] ELSE e[f] # 0

Flags(e) ==
    LET Flag(f) == IF Present(e, f) THEN FlagBit[f] ELSE 0
    IN  Flag("src_minion") + Flag("src_id") + Flag("dst") + Flag("dst_minion")
        + Flag("dst_id") + Flag("effect_value_type") + Flag("effect_value2")
        + Flag("effect_value_type2") + Flag("effect_thread") + Flag("effect_value")
        + Flag("entry_flags")

HasFlag(flags, f) == (flags \div FlagBit[f]) % 2 = 1

\* PackValue and PackValueOptional
PackField(b, e, flags, f) ==
    IF f \in Required \/ HasFlag(flags, f) THEN PackInt(b, e[f]) ELSE b

Compress(e) ==
    FoldLeft(LAMBDA b, f : PackField(b, e, Flags(e), f), PackInt(<< >>, Flags(e)), Order)

\* UnpackValue and UnpackValueOptional; the target is the source until it is read itself.
UnpackField(b, r, flags, f, garbage) ==
    LET v == UnpackInt(b, r.at, Bits(f), garbage)
    IN  IF f \in Required \/ HasFlag(flags, f)
        THEN [at |-> v.at,
              entry |-> [g \in Fields |-> IF g = f \/ (f = "src" /\ g = "dst")
                                          THEN v.value ELSE r.entry[g]]]
        ELSE r

Uncompress(b, garbage) ==
    LET flags == UnpackInt(b, 0, FlagsBits, garbage)
    IN  FoldLeft(LAMBDA r, f : UnpackField(b, r, flags.value, f, garbage),
                 [at |-> flags.at, entry |-> [f \in Fields |-> 0]], Order)
-----------------------------------------------------------------------------
CodecInit ==
    /\ entry \in Entries
    /\ bytes = << >>
    /\ result = entry
    /\ taken = 0
    /\ stage = "parsed"

\* The client sends the entry.
Send ==
    /\ stage = "parsed"
    /\ stage' = "sent"
    /\ bytes' = Compress(entry)
    /\ UNCHANGED <<entry, result, taken>>

\* The server reads it.
Receive ==
    /\ stage = "sent"
    /\ stage' = "received"
    /\ \E garbage \in Garbage :
         LET r == Uncompress(bytes, garbage)
         IN  result' = r.entry /\ taken' = r.at
    /\ UNCHANGED <<entry, bytes>>

CodecNext == Send \/ Receive

CodecSpec == CodecInit /\ [][CodecNext]_codecVars
-----------------------------------------------------------------------------
\* The server gets the entry the client has, field by field, as long as nothing in
\* it is negative, and reads exactly the bytes that were written: "the number of bits
\* read from buffer_" is "the number of bits used in that array".  They fit into it.
RoundTrip ==
    stage = "received" /\ (\A f \in Signed : entry[f] >= 0) =>
        result = entry /\ taken = Len(bytes) /\ taken <= ArraySize

\* "returns compressed log entry an array and the number of bits used in that
\* array" (swtor_log_parser.h): no more bytes are used than the array has.
CompressedFits == Len(bytes) <= ArraySize
=============================================================================
