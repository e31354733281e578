----------------------------- MODULE MCDisplay -----------------------------
(***************************************************************************)
(* An instance of Display: the player and two mobs of one name, an ability *)
(* that damages and one that does both.                                    *)
(***************************************************************************)
EXTENDS Display

CONSTANTS Mob, Strike, Drain

MCEntries ==
    LET Me == [name |-> Player, number |-> 0]
        First == [name |-> Mob, number |-> 1]
        Second == [name |-> Mob, number |-> 2]
        E(event, src, dst, ability, kind, value) ==
          [event |-> event, src |-> src, dst |-> dst, ability |-> ability,
           kind |-> kind, value |-> value]
    IN  {E(event, Me, Me, NoAbility, "none", 0) : event \in {"enter", "exit", "other"}}
        \cup {E("hit", Me, First, Strike, "damage", 2),
              E("hit", Me, Second, Drain, "damage", 1),
              E("hit", Me, Me, Drain, "heal", 1),
              E("hit", Second, Me, Strike, "damage", 1)}
=============================================================================
