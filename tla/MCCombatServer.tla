--------------------------- MODULE MCCombatServer ---------------------------
(***************************************************************************)
(* The instance of CombatServer for TLC: every kind of packet, with        *)
(* joining, leaving and messages that arrive late.                         *)
(***************************************************************************)
EXTENDS CombatServer, TLC

\* Sockets, names and translations are only ever compared for equality.
Symmetry == Permutations(Sockets)
            \cup Permutations(Names \ {NoName})
            \cup Permutations(Strings)
=============================================================================
