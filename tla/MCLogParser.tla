---------------------------- MODULE MCLogParser ----------------------------
(***************************************************************************)
(* Lines for TLC: every kind of entity on both sides, names with brackets, *)
(* all forms of the value, numbers at the border of what can be read.      *)
(***************************************************************************)
EXTENDS LogParser, MCEntryCodec, TLC

\* An id stands for one name.
X(id, name) == [id |-> id, name |-> name]
Strike == X(7, <<"Strike">>)
Odd == X(12, <<"Strike", " ", "[", "Odd", "]">>)
Apply == X(3, <<"Apply">>)
Damage == X(4, <<"Damage">>)
Energy == X(5, <<"energy">>)
Absorbed == X(30, <<"absorbed">>)

Player(name) == [kind |-> "player", name |-> <<name>>]
Companion(name) == [kind |-> "companion", name |-> <<name>>, minion |-> X(20, <<"Kit", " ", "Kat">>)]
Mob == [kind |-> "mob", name |-> <<"Mob", "[", "Big", "]">>, id |-> 10, number |-> 25]
Nobody == [kind |-> "nobody"]
Entities == {Player("Ann"), Player("Bob"), Companion("Ann"), Mob, Nobody}

Sheet(src, dst, ability, value, crit, value_type, second, threat) ==
    [time |-> <<1, 2, 3, 5>>, src |-> src, dst |-> dst, ability |-> ability, action |-> Apply,
     type |-> Damage, value |-> value, crit |-> crit, value_type |-> value_type,
     second |-> second, threat |-> threat]
Shield(crit) == [value |-> 2, crit |-> crit, type |-> Absorbed]

MCSheets ==
    {Sheet(src, dst, a, 12, FALSE, Energy, NoSheet, 10) :
        src \in Entities, dst \in Entities, a \in {Strike, Odd, NoSheet}}
    \cup {Sheet(Player("Ann"), Mob, Strike, v, crit, type, second, threat) :
        v \in {0, 25}, crit \in BOOLEAN, type \in {NoSheet, Energy},
        second \in {NoSheet, Shield(TRUE), Shield(FALSE)}, threat \in {0, 25, 26, -3}}
    \cup {Sheet(Player("Ann"), Mob, Strike, 26, FALSE, Energy, NoSheet, 0)}

\* No log was read yet; another player's log was; the local player's slot is empty.
MCDatabases == {EmptyDb, 0 :> <<"Bob">>, (0 :> NoName) @@ (1 :> <<"Bob">>)}
=============================================================================
