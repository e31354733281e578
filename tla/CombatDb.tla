------------------------------ MODULE CombatDb ------------------------------
(***************************************************************************)
(* combat_db and encounter (combat_db.h, encounter.h): the entries of the  *)
(* combat log, sorted into encounters.  Every entry of the log arrives, in *)
(* the order of the log, which may begin anywhere: also in a fight.        *)
(*                                                                         *)
(* An entry is a record; its field event says what the database tells      *)
(* apart: enter and exit (of combat), hit (heal or damage), login (a hit   *)
(* by the ability SafeLogin), other.                                       *)
(***************************************************************************)
EXTENDS Naturals, Sequences

CONSTANTS
    Entries,    \* entries of the combat log
    MaxEntries  \* bound on how many are handled

ASSUME EntriesAssumption ==
    \A e \in Entries : e.event \in {"enter", "exit", "hit", "login", "other"}
ASSUME MaxEntriesAssumption == MaxEntries \in Nat

VARIABLES
    encounters,  \* _encounters
    handled,     \* number of entries handled
    depth,       \* history: enters without an exit, so the log is in a fight
    fights,      \* history: fights begun
    stray,       \* history: there was an exit outside of a fight
    missed       \* history: hits of a fight that were not stored

vars == <<encounters, handled, depth, fights, stray, missed>>
history == <<depth, fights, stray, missed>>

IsCombatBegin(e) == e.event = "enter"
IsCombatEnd(e) == e.event = "exit"

\* filter: these entries are not stored.
Filter(e) == e.event \in {"login", "other"}

NewEncounter == [table |-> << >>, begins |-> 0, ends |-> 0]

CombatHasFinishedEarly(enc) == enc.begins > 0 /\ enc.ends > 0  \* slip: the first exit

CombatHasFinished(enc) == enc.begins > 0 /\ enc.begins = enc.ends

\* encounter::insert; before the first enter an entry is only counted.
Insert(enc, e) ==
    LET begins == enc.begins + IF IsCombatBegin(e) THEN 1 ELSE 0
        ends == enc.ends + IF IsCombatEnd(e) THEN 1 ELSE 0
    IN  [table |-> IF begins > 0 THEN Append(enc.table, e) ELSE enc.table,
         begins |-> begins, ends |-> ends]

\* Slip: the next encounter begins with the next enter.
OpenedByEnter(e) ==
    IF encounters = << >> \/ IsCombatBegin(e)
    THEN Append(encounters, NewEncounter)
    ELSE encounters

\* The encounters on_combat_event inserts to: a new one when the last is over.
Opened(e) ==
    IF encounters = << >> \/ CombatHasFinished(encounters[Len(encounters)])
    THEN Append(encounters, NewEncounter)
    ELSE encounters

\* on_combat_event; Stored is its result.
Stored(e) ==
    ~ Filter(e) /\ Insert(Opened(e)[Len(Opened(e))], e).begins > 0
-----------------------------------------------------------------------------
Init ==
    /\ encounters = << >>
    /\ handled = 0
    /\ depth = 0
    /\ fights = 0
    /\ stray = FALSE
    /\ missed = 0

\* What the log says about fights, whatever the database makes of it.
Observe(e) ==
    /\ depth' = CASE IsCombatBegin(e) -> depth + 1
                  [] IsCombatEnd(e) /\ depth > 0 -> depth - 1
                  [] OTHER -> depth
    /\ fights' = IF IsCombatBegin(e) /\ depth = 0 THEN fights + 1 ELSE fights
    /\ stray' = (stray \/ (IsCombatEnd(e) /\ depth = 0))
    /\ missed' = IF e.event = "hit" /\ depth > 0 /\ ~ Stored(e) THEN missed + 1
                 ELSE missed

OnCombatEvent(e) ==
    /\ handled < MaxEntries
    /\ handled' = handled + 1
    /\ encounters' =
         IF Filter(e) THEN encounters
         ELSE [Opened(e) EXCEPT ![Len(Opened(e))] = Insert(@, e)]
    /\ Observe(e)

\* clear, called when tracking is stopped.
Clear ==
    /\ encounters # << >>
    /\ encounters' = << >>
    /\ depth' = 0 /\ fights' = 0 /\ stray' = FALSE /\ missed' = 0
    /\ UNCHANGED handled

Next == (\E e \in Entries : OnCombatEvent(e)) \/ Clear

Spec == Init /\ [][Next]_vars
-----------------------------------------------------------------------------
\* All variables have their types; an encounter stores nothing but hits, enters
\* and exits, which the queries of the display rely on.
Fighting == {e \in Entries : e.event \in {"enter", "exit", "hit"}}
Encounters == [table : Seq(Fighting), begins : Nat, ends : Nat]

TypeOK ==
    /\ encounters \in Seq(Encounters)
    /\ handled \in 0..MaxEntries
    /\ depth \in Nat
    /\ fights \in Nat
    /\ stray \in BOOLEAN
    /\ missed \in Nat

\* The display and the statistics take an encounter to be one fight.  Only the
\* last encounter can still change: all others have as many exits as enters,
\* and at least one.
OnlyLastOpen ==
    \A k \in DOMAIN encounters : k < Len(encounters) => CombatHasFinished(encounters[k])

\* What is stored of an encounter begins with an enter, also when the log begins
\* in a fight: get_combat_length measures from there.
BeginsWithEnter ==
    \A k \in DOMAIN encounters :
        encounters[k].table # << >> => IsCombatBegin(encounters[k].table[1])

\* While the log has no exit outside of a fight, no hit of a fight is lost: an
\* encounter is over when its fight is, however often enter is repeated in it,
\* and hits between two fights do not use up the encounter of the next one.
NoHitMissed == ~ stray => missed = 0

\* While the log has no exit outside of a fight, every fight has an encounter of
\* its own: there are as many encounters with an enter as fights have begun, and
\* the last one is open as long as the fight goes on.
Begun == IF encounters # << >> /\ encounters[Len(encounters)].begins = 0
         THEN Len(encounters) - 1
         ELSE Len(encounters)
OneEncounterPerFight ==
    ~ stray =>
        /\ Begun = fights
        /\ depth > 0 <=> /\ encounters # << >>
                         /\ encounters[Len(encounters)].begins > 0
                         /\ ~ CombatHasFinished(encounters[Len(encounters)])
=============================================================================
