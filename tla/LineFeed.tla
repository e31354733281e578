------------------------------ MODULE LineFeed ------------------------------
(***************************************************************************)
(* What a log reader promises, whatever its buffer: it is fed a stream of  *)
(* bytes in pieces, and at every moment it has handed out the lines of the *)
(* stream so far, each one once, in order and without its line end.        *)
(***************************************************************************)
EXTENDS Naturals, Sequences, SequencesExt, FiniteSets

CONSTANT IsEnd(_)   \* is this byte a line end

VARIABLES
    stream,   \* the bytes fed so far
    lines     \* the lines handed out so far

LineEnds(s) == {k \in DOMAIN s : IsEnd(s[k])}

\* The position of the i-th line end; 0 stands for the one before the first.
NthEnd(s, i) ==
    IF i = 0 THEN 0
    ELSE CHOOSE k \in LineEnds(s) : Cardinality({e \in LineEnds(s) : e <= k}) = i

\* The lines of s, by the positions of its line ends.
LinesOf(s) ==
    [i \in 1..Cardinality(LineEnds(s)) |->
        SubSeq(s, NthEnd(s, i - 1) + 1, NthEnd(s, i) - 1)]

Init == stream = << >> /\ lines = << >>

Feed == IsPrefix(stream, stream') /\ lines' = LinesOf(stream')

Spec == Init /\ [][Feed]_<<stream, lines>>
=============================================================================
