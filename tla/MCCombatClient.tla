--------------------------- MODULE MCCombatClient ---------------------------
(***************************************************************************)
(* An instance of CombatClient for TLC: lines with players, a mob and      *)
(* nobody in both places, of every kind that is stored, and one that is    *)
(* not; enter and exit are always about one player alone.                  *)
(***************************************************************************)
EXTENDS CombatClient, TLC

MCLines ==
    LET L(s, d, ev) == [src |-> s, dst |-> d, event |-> ev]
    IN  {L(n, n, ev) : n \in Names, ev \in {"enter", "exit"}}
        \cup {L(n, Mob, "hit") : n \in Names}
        \cup {L(Mob, n, "other") : n \in Names}
        \cup {L(Nobody, n, "hit") : n \in Names}

MCEntries ==
    [event : {"enter", "exit", "hit", "login", "other"},
     src : 0..Cardinality(Names) \cup {MobId},
     dst : 0..Cardinality(Names) \cup {MobId},
     line : Lines]

MCSymmetry == Permutations(Names)
=============================================================================
