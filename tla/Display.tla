------------------------------ MODULE Display ------------------------------
(***************************************************************************)
(* The statistics of the main window: the eight display modes              *)
(* (data_display_mode.cpp), the query they share (query_set.h), the rows   *)
(* and the info text (ui_element_manager.h), and the history of displays   *)
(* (main_ui.cpp).  It is composed with the combat_db they show, and with   *)
(* the main loop of app::operator(): messages, then the lines of the log,  *)
(* then the update.                                                        *)
(*                                                                         *)
(* The eight modes differ in three ways: what they count (kind), on which  *)
(* side of an event the entity stands (side), and whether they sum up the  *)
(* abilities of the entity, or for one ability the entities on the other   *)
(* side (skill views).  An entity is a name with a number, which tells     *)
(* mobs of the same name apart.                                            *)
(***************************************************************************)
EXTENDS CombatDb, Integers, SequencesExt

CONSTANTS
    Player,     \* the name of the local player, id 0
    NoAbility,  \* string_id(0)
    MaxHistory  \* bound on how many displays are kept to go back to

ASSUME MaxHistoryAssumption == MaxHistory \in Nat
\* effect_value is an int.
ASSUME ValuesAssumption == \A e \in Entries : e.value \in Int

VARIABLES
    display,    \* _data_display
    past,       \* _data_display_history
    rows,       \* _rows: what a row shows, and the display its callback is of
    shown,      \* how many rows are enabled
    info,       \* the display the info text is about
    stop,       \* the stop button is enabled, the start buttons are not
    update_ui,  \* _update_ui
    phase       \* what the main loop does: handle messages or read the log

uiVars == <<display, past, rows, shown, info, stop>>
dbVars == <<encounters, handled, depth, fights, stray, missed>>
allVars == <<dbVars, uiVars, update_ui, phase>>

Sides == {"done", "received"}
OtherSide(side) == IF side = "done" THEN "received" ELSE "done"

\* A display; an entity view has no ability.
View(side, kind, who, ability) ==
    [side |-> side, kind |-> kind, who |-> who, ability |-> ability]
NoView == View("none", "none", Player, NoAbility)
IsSkillView(v) == v.ability # NoAbility

\* The classes of displays, whose update_display is Update below.
DmgDone(who) == View("done", "damage", who, NoAbility)
HealingDone(who) == View("done", "heal", who, NoAbility)
DmgRecived(who) == View("received", "damage", who, NoAbility)
HealingRecived(who) == View("received", "heal", who, NoAbility)
SkillDmgDone(who, ability) == View("done", "damage", who, ability)
SkillHealingDone(who, ability) == View("done", "heal", who, ability)
SkillDmgRecived(who, ability) == View("received", "damage", who, ability)
SkillHealingRecived(who, ability) == View("received", "heal", who, ability)

\* The displays the user selects.
PlayerModes ==
    {DmgDone(Player), HealingDone(Player), DmgRecived(Player), HealingRecived(Player)}

Subject(e, side) == IF side = "done" THEN e.src ELSE e.dst
-----------------------------------------------------------------------------
(* query_set *)

\* A record of the entity, and of the ability in a skill view.
IsRecord(v, e) ==
    /\ Subject(e, v.side).name = v.who
    /\ IsSkillView(v) => e.ability = v.ability

HasRecords(v, table) == \E i \in DOMAIN table : IsRecord(v, table[i])

\* The entity views count one kind of effect, and only of abilities.  The skill
\* views take whatever the ability does.
Counts(v, e) ==
    IsSkillView(v) \/ (e.event = "hit" /\ e.kind = v.kind /\ e.ability # NoAbility)

Key(v, e) == IF IsSkillView(v) THEN Subject(e, OtherSide(v.side)) ELSE e.ability

\* Slip: a record is only compared with the last group.
JoinedIfAdjacent(v, groups, e) ==
    IF ~ (IsRecord(v, e) /\ Counts(v, e)) THEN groups
    ELSE IF groups # << >> /\ Last(groups).key = Key(v, e)
         THEN [groups EXCEPT ![Len(groups)].value = @ + e.value]
         ELSE Append(groups, [key |-> Key(v, e), value |-> e.value])

\* into: a record that passes the filters joins the first group it belongs to.
Joined(v, groups, e) ==
    LET at == {i \in DOMAIN groups : groups[i].key = Key(v, e)}
    IN  IF ~ (IsRecord(v, e) /\ Counts(v, e)) THEN groups
        ELSE IF at = {} THEN Append(groups, [key |-> Key(v, e), value |-> e.value])
             ELSE [groups EXCEPT ![Min(at)].value = @ + e.value]

Grouped(v, table) == FoldLeft(LAMBDA groups, e : Joined(v, groups, e), << >>, table)

\* std::sort leaves the order of equal values open.
Sortings(groups) ==
    {s \in [DOMAIN groups -> ToSet(groups)] :
        /\ ToSet(s) = ToSet(groups)
        /\ \A i \in 1 .. Len(groups) - 1 : s[i].value >= s[i + 1].value}

\* The total is not the sum of the groups: it is counted on the way, record by record.
Total(v, table) ==
    FoldLeft(LAMBDA sum, e : IF IsRecord(v, e) /\ Counts(v, e) THEN sum + e.value ELSE sum,
             0, table)
-----------------------------------------------------------------------------
(* The display and its rows *)

LastTable == IF encounters = << >> THEN << >> ELSE encounters[Len(encounters)].table

\* As many rows as there are groups are added or written anew; the others keep what
\* they had.
Filled(v, groups) ==
    [i \in DOMAIN rows \cup 1 .. Len(groups) |->
        IF i \in 1 .. Len(groups)
        THEN [key |-> groups[i].key, value |-> groups[i].value,
              max |-> Total(v, LastTable), owner |-> v]
        ELSE rows[i]]

\* Slip: there is nothing to show, and the rows stay as they are.
UpdateKeepsRows(v) ==
    LET groups == Grouped(v, LastTable)
    IN  /\ stop' = TRUE
        /\ IF ~ HasRecords(v, LastTable)
           THEN UNCHANGED <<rows, shown, info>>
           ELSE /\ \E s \in Sortings(groups) : rows' = Filled(v, s)
                /\ shown' = Len(groups)
                /\ info' = v

\* update_display for the last encounter.  Without an encounter the index wraps
\* around, and nothing is shown.
Update(v) ==
    LET groups == Grouped(v, LastTable)
    IN  /\ stop' = TRUE
        /\ IF ~ HasRecords(v, LastTable)
           THEN shown' = 0 /\ UNCHANGED <<rows, info>>
           ELSE /\ \E s \in Sortings(groups) : rows' = Filled(v, s)
                /\ shown' = Len(groups)
                /\ info' = v

\* The display that a click on a row opens.  A row about an entity forgets the
\* number.
Opens(row) ==
    LET v == row.owner
    IN  IF IsSkillView(v)
        THEN View(OtherSide(v.side), v.kind, row.key.name, NoAbility)
        ELSE View(v.side, v.kind, v.who, row.key)

ChangeDisplayMode(v) == display' = v /\ Update(v)
-----------------------------------------------------------------------------
DisplayInit ==
    /\ Init
    /\ display = NoView
    /\ past = << >>
    /\ rows = << >>
    /\ shown = 0
    /\ info = NoView
    /\ stop = FALSE
    /\ update_ui = FALSE
    /\ phase = "messages"

\* Slip: the history stays.
SetDisplayModeKeepsHistory(v) ==
    /\ ChangeDisplayMode(v)
    /\ UNCHANGED <<past, dbVars, update_ui, phase>>

\* set_display_mode and change_display_mode_reset_history.
SetDisplayMode(v) ==
    /\ past' = << >>
    /\ ChangeDisplayMode(v)
    /\ UNCHANGED <<dbVars, update_ui, phase>>

\* on_start_solo; the user selects another mode, which counts when there is a display.
StartSolo ==
    /\ phase = "messages" /\ ~ stop
    /\ \E v \in PlayerModes : SetDisplayMode(v)

SelectMode ==
    /\ phase = "messages" /\ display # NoView
    /\ \E v \in PlayerModes : SetDisplayMode(v)

\* Slip: the rows are gone, and still taken to be enabled.
OnStopKeepsCount ==
    /\ phase = "messages" /\ stop
    /\ IF encounters = << >> THEN UNCHANGED dbVars ELSE Clear
    /\ display' = NoView
    /\ rows' = << >>
    /\ info' = NoView
    /\ stop' = FALSE
    /\ UNCHANGED <<past, shown, update_ui, phase>>

\* on_stop; the history is kept.
OnStop ==
    /\ phase = "messages" /\ stop
    /\ IF encounters = << >> THEN UNCHANGED dbVars ELSE Clear
    /\ display' = NoView
    /\ rows' = << >>
    /\ shown' = 0
    /\ info' = NoView
    /\ stop' = FALSE
    /\ UNCHANGED <<past, update_ui, phase>>

\* on_click of a row that is enabled, and change_display_mode_with_history.
ClickRow ==
    /\ phase = "messages" /\ Len(past) < MaxHistory
    /\ \E i \in 1 .. shown : ChangeDisplayMode(Opens(rows[i]))
    /\ past' = IF display = NoView THEN past ELSE Append(past, display)
    /\ UNCHANGED <<dbVars, update_ui, phase>>

\* The link in the info text: data_display_mode_go_history_back.
ClickBack ==
    /\ phase = "messages" /\ info # NoView /\ past # << >>
    /\ ChangeDisplayMode(Last(past))
    /\ past' = Front(past)
    /\ UNCHANGED <<dbVars, update_ui, phase>>

\* handle_os_events returns.
ReadLog ==
    /\ phase = "messages"
    /\ phase' = "log"
    /\ UNCHANGED <<dbVars, uiVars, update_ui>>

\* A line of the log, which is read while tracking is on.
LogLine(e) ==
    /\ phase = "log" /\ stop
    /\ OnCombatEvent(e)
    /\ update_ui' = (update_ui \/ Stored(e))
    /\ UNCHANGED <<uiVars, phase>>

\* The rest of the loop: ui_needs_update_and_reset and update_stat_display.
UpdateStatDisplay ==
    /\ phase = "log"
    /\ phase' = "messages"
    /\ update_ui' = FALSE
    /\ IF update_ui /\ display # NoView THEN Update(display)
       ELSE UNCHANGED <<rows, shown, info, stop>>
    /\ UNCHANGED <<dbVars, display, past>>

DisplayNext ==
    \/ StartSolo \/ SelectMode \/ OnStop \/ ClickRow \/ ClickBack
    \/ ReadLog \/ (\E e \in Entries : LogLine(e)) \/ UpdateStatDisplay

DisplaySpec == DisplayInit /\ [][DisplayNext]_allVars
-----------------------------------------------------------------------------
Whos == {e.src.name : e \in Entries} \cup {e.dst.name : e \in Entries} \cup {Player}
Abilities == {e.ability : e \in Entries} \ {NoAbility}
Views ==
    (UNION {{DmgDone(who), HealingDone(who), DmgRecived(who), HealingRecived(who)} :
               who \in Whos})
    \cup (UNION {{SkillDmgDone(who, a), SkillHealingDone(who, a), SkillDmgRecived(who, a),
                  SkillHealingRecived(who, a)} : who \in Whos, a \in Abilities})

\* All variables have their types, every display is of one of the eight classes, and
\* no more rows are enabled than there are.
DisplayTypeOK ==
    /\ display \in Views \cup {NoView} /\ info \in Views \cup {NoView}
    /\ past \in Seq(Views) /\ Len(past) <= MaxHistory
    /\ \A i \in DOMAIN rows : rows[i].owner \in Views
    /\ shown \in 0 .. Len(rows)
    /\ {stop, update_ui} \subseteq BOOLEAN
    /\ phase \in {"messages", "log"}

\* The callback of a row points to the display that set it
\* (data_display_mode.cpp:82), which is deleted when the next one takes its place.
\* A row that can be clicked is always one of the present display, and so is the
\* text next to it.
RowsAreCurrent ==
    \A i \in 1 .. shown :
        rows[i].owner = display /\ display # NoView /\ info = display

\* When messages are handled, the rows are the sums over the last encounter: one
\* for each ability or entity, in order, with the total of all of them, which is
\* counted apart from them.  An
\* encounter in which nothing is stored yet leaves the one before on the screen.
Hits(v, table, key) ==
    {i \in DOMAIN table :
        /\ Subject(table[i], v.side).name = v.who
        /\ IsSkillView(v) => table[i].ability = v.ability
        /\ Counts(v, table[i]) /\ Key(v, table[i]) = key}
KeysOf(v, table) ==
    {key \in {Key(v, table[i]) : i \in DOMAIN table} : Hits(v, table, key) # {}}
Value(v, table, key) == MapThenSumSet(LAMBDA i : table[i].value, Hits(v, table, key))
Shows(table) ==
    /\ {[key |-> rows[i].key, value |-> rows[i].value] : i \in 1 .. shown} =
          {[key |-> k, value |-> Value(display, table, k)] : k \in KeysOf(display, table)}
    /\ shown = Cardinality(KeysOf(display, table))
    /\ \A i \in 1 .. shown :
          /\ i < shown => rows[i].value >= rows[i + 1].value
          /\ rows[i].max = MapThenSumSet(LAMBDA k : Value(display, table, k),
                                         KeysOf(display, table))
RowsAreSums ==
    phase = "messages" /\ display # NoView =>
        \/ Shows(LastTable)
        \/ LastTable = << >> /\ Len(encounters) > 1
           /\ Shows(encounters[Len(encounters) - 1].table)

\* "Back" goes the way the user came: the displays to go back to begin with one of
\* the player, and each was opened by a click on a row of the one before, which
\* leads from an entity to one of its abilities, and from there to an entity seen
\* from the other side.
IsStep(v, w) ==
    /\ v.kind = w.kind
    /\ IF IsSkillView(v) THEN w.side = OtherSide(v.side) /\ ~ IsSkillView(w)
       ELSE w.side = v.side /\ w.who = v.who
IsDrillDown(v, w) == IsStep(v, w) /\ (IsSkillView(v) \/ IsSkillView(w))
IsRoot(v) == v.who = Player /\ ~ IsSkillView(v)
Path == IF display = NoView THEN past ELSE Append(past, display)
DrillPath ==
    /\ Path # << >> => IsRoot(Path[1])
    /\ \A i \in 1 .. Len(Path) - 1 : IsDrillDown(Path[i], Path[i + 1])
=============================================================================
