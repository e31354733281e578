---------------------------- MODULE CombatClient ----------------------------
(***************************************************************************)
(* combat_client (combat_client.h) between the log and the display: the    *)
(* main loop of app::operator() (app.cpp), which handles window messages   *)
(* (start, stop, another display mode), then reads the lines the log has,  *)
(* then updates the display.  It composes the two databases of the client, *)
(* PlayerDb and CombatDb.                                                  *)
(*                                                                         *)
(* A line of the log names the entities of an event.  The parser turns the *)
(* name of a player into an id of _player_db; mobs have ids of their own,  *)
(* which are far above those of players, nobody ("[]") has id 0.  The game *)
(* writes one log per login, and its first line is about the player who    *)
(* logs in, the owner of the log.                                          *)
(***************************************************************************)
EXTENDS CombatDb, PlayerDb, SequencesExt

CONSTANTS
    Names,      \* names of players
    Mob,        \* an entity that is no player
    Nobody,     \* the empty entity
    MobId,      \* the id of Mob
    Lines,      \* lines of a log: [src, dst, event]
    NoLine,     \* no line
    MaxStarts   \* bound on how often tracking is started

ASSUME LinesAssumption ==
    /\ \A l \in Lines : {l.src, l.dst} \subseteq Names \cup {Mob, Nobody}
    /\ NoLine \notin Lines
    /\ NoName \notin Names \cup {Mob, Nobody}
    /\ Mob \notin Names /\ Nobody \notin Names /\ Mob # Nobody

\* The game numbers its mobs far above the players of a log.
ASSUME IdsAssumption ==
    IsFiniteSet(Names) /\ MobId \in Nat /\ MobId > Cardinality(Names)

ASSUME StartsAssumption == MaxStarts \in Nat

VARIABLES
    players,    \* _player_db
    name_send,  \* _name_send
    update_ui,  \* _update_ui
    link,       \* what was handed to the socket of the server
    tracking,   \* tracking is started
    phase,      \* what the main loop does: handle messages or read the log
    shown,      \* the rows the display shows
    tail,       \* the unfinished line that the reader kept of an earlier log
    starts,     \* how often tracking was started
    owner,      \* history: the player who wrote the log
    clean,      \* history: no earlier log gets in the way of this one
    begun,      \* history: the log's first line was read
    read,       \* history: the lines of this log that were handled
    mark        \* history: the length of link when the log was opened

clientVars == <<players, name_send, update_ui, link>>
appVars == <<tracking, phase, shown, tail, starts>>
logHistory == <<owner, clean, begun, read, mark>>
dbVars == <<encounters, handled, depth, fights, stray, missed>>
allVars == <<dbVars, clientVars, appVars, logHistory>>

\* read_entity_name: the database it leaves behind, and the id it returns.
Register(db, entity) == IF entity \in Names THEN AfterGetPlayerId(db, entity) ELSE db

IdOf(db, entity) ==
    IF entity = Mob THEN MobId
    ELSE IF entity = Nobody THEN 0
    ELSE PlayerId(db, entity)

\* The entry of a line, and the rows' history: the names it stood for.
EntryOf(l) ==
    LET afterSrc == Register(players, l.src)
    IN  [event |-> l.event, src |-> IdOf(players, l.src), dst |-> IdOf(afterSrc, l.dst),
         line |-> l]

IsPlayer(id) == id = 0

\* Slip: what is sent does not depend on the source being the local player.
SkipAllPlayers(db, e) == IsPlayerNameSet(db, e.src)

\* skip_combat_event_send: other players send their events themselves.
SkipCombatEventSend(db, e) == ~ IsPlayer(e.src) /\ IsPlayerNameSet(db, e.src)

PlayerName(db) == IF 0 \in DOMAIN db THEN db[0] ELSE NoName
NameMessage(name) == [kind |-> "name", name |-> name]
EventMessage(l) == [kind |-> "event", line |-> l]

\* Slip: the name follows the first event.
SentNameLast(db, e) ==
    IF name_send THEN <<EventMessage(e.line)>>
    ELSE <<EventMessage(e.line), NameMessage(PlayerName(db))>>

\* send_combat_event and send_player_name.
Sent(db, e) ==
    IF name_send THEN <<EventMessage(e.line)>>
    ELSE <<NameMessage(PlayerName(db)), EventMessage(e.line)>>

\* What the display shows of the database: the last encounter.
LastTable == IF encounters = << >> THEN << >> ELSE encounters[Len(encounters)].table
-----------------------------------------------------------------------------
ClientInit ==
    /\ Init
    /\ players = EmptyDb
    /\ name_send = FALSE
    /\ update_ui = FALSE
    /\ link = << >>
    /\ tracking = FALSE
    /\ phase = "messages"
    /\ shown = << >>
    /\ tail = NoLine
    /\ starts = 0
    /\ owner = NoName
    /\ clean = TRUE
    /\ begun = FALSE
    /\ read = << >>
    /\ mark = 0

\* Slip: the local player of the last log stays.
NewLogNot == UNCHANGED players

\* new_log
NewLog == players' = RemovePlayerName(players, 0)

\* start_tracking and the set_display_mode that follows; the buttons allow it
\* only when nothing is tracked.
StartTracking(o) ==
    /\ phase = "messages"
    /\ ~ tracking
    /\ starts < MaxStarts
    /\ starts' = starts + 1
    /\ tracking' = TRUE
    /\ NewLog
    /\ shown' = LastTable
    /\ owner' = o
    /\ clean' = (tail = NoLine /\ ~ IsPlayerInDb(RemovePlayerName(players, 0), o))
    /\ begun' = FALSE
    /\ read' = << >>
    /\ mark' = Len(link)
    /\ UNCHANGED <<dbVars, name_send, update_ui, link, phase, tail>>

\* stop_tracking and the reset of the display in main_ui::on_stop.  The log may
\* end in the middle of a line; an unfinished line kept before stays.
ForgetDisplay ==
    /\ tracking' = FALSE
    /\ shown' = << >>
    /\ tail' \in IF tail = NoLine THEN {NoLine} \cup Lines ELSE {tail}
    /\ UNCHANGED <<clientVars, phase, starts, logHistory>>

\* Slip: what was stored of the log stays.
StopTrackingKeepsDb ==
    /\ phase = "messages"
    /\ tracking
    /\ ForgetDisplay
    /\ UNCHANGED dbVars

StopTracking ==
    /\ phase = "messages"
    /\ tracking
    /\ ForgetDisplay
    /\ IF encounters = << >> THEN UNCHANGED dbVars ELSE Clear

\* The user selects a display mode: update_stat_display.
SetDisplayMode ==
    /\ phase = "messages"
    /\ tracking
    /\ shown' = LastTable
    /\ UNCHANGED <<dbVars, clientVars, tracking, phase, tail, starts, logHistory>>

\* handle_os_events returns.
ReadLog ==
    /\ phase = "messages"
    /\ phase' = "log"
    /\ UNCHANGED <<dbVars, clientVars, tracking, shown, tail, starts, logHistory>>

\* Slip: an event that is not stored takes the update back.
OnLineResets(l) ==
    LET db == Register(Register(players, l.src), l.dst)
        e == EntryOf(l)
    IN  /\ OnCombatEvent(e)
        /\ players' = db
        /\ update_ui' = Stored(e)
        /\ IF SkipCombatEventSend(db, e)
           THEN UNCHANGED <<link, name_send>>
           ELSE link' = link \o Sent(db, e) /\ name_send' = TRUE
        /\ read' = Append(read, l)

\* parse_combat_log_line and combat_client::on_combat_event.
OnLine(l) ==
    LET db == Register(Register(players, l.src), l.dst)
        e == EntryOf(l)
    IN  /\ OnCombatEvent(e)
        /\ players' = db
        /\ update_ui' = (update_ui \/ Stored(e))
        /\ IF SkipCombatEventSend(db, e)
           THEN UNCHANGED <<link, name_send>>
           ELSE link' = link \o Sent(db, e) /\ name_send' = TRUE
        /\ read' = Append(read, l)

\* The line cannot be parsed; n of its two entities were read before that.
OnBadLine(l, n) ==
    /\ handled < MaxEntries
    /\ handled' = handled + 1
    /\ players' = CASE n = 0 -> players
                    [] n = 1 -> Register(players, l.src)
                    [] n = 2 -> Register(Register(players, l.src), l.dst)
    /\ UNCHANGED <<encounters, depth, fights, stray, missed, name_send, update_ui,
                   link, read>>

\* A line of the log; the first one is about the owner.
Line(l) ==
    /\ phase = "log" /\ tracking
    /\ tail = NoLine
    /\ begun \/ l.src = owner
    /\ OnLine(l) \/ \E n \in 1..2 : OnBadLine(l, n)
    /\ begun' = TRUE
    /\ UNCHANGED <<appVars, owner, clean, mark>>

\* The first line of the log stands behind the tail of an earlier one, so the
\* parser sees the beginning of that, and never the owner's line.
GluedLine ==
    /\ phase = "log" /\ tracking
    /\ tail # NoLine
    /\ OnLine(tail) \/ \E n \in 0..2 : OnBadLine(tail, n)
    /\ tail' = NoLine
    /\ begun' = TRUE
    /\ UNCHANGED <<tracking, phase, shown, starts, owner, clean, mark>>

\* The rest of the loop of app::operator(): ui_needs_update_and_reset.
UpdateUi ==
    /\ phase = "log"
    /\ phase' = "messages"
    /\ shown' = IF update_ui /\ tracking THEN LastTable ELSE shown
    /\ update_ui' = FALSE
    /\ UNCHANGED <<dbVars, players, name_send, link, tracking, tail, starts, logHistory>>

ClientNext ==
    \/ \E o \in Names : StartTracking(o)
    \/ StopTracking
    \/ SetDisplayMode
    \/ ReadLog
    \/ \E l \in Lines : Line(l)
    \/ GluedLine
    \/ UpdateUi

ClientSpec == ClientInit /\ [][ClientNext]_allVars
-----------------------------------------------------------------------------
\* All variables have their types; no player's name is stored under two ids, and
\* slot 0 is the only one ever emptied.
ClientTypeOK ==
    /\ DOMAIN players = 0..Size(players) - 1
    /\ \A i \in DOMAIN players : players[i] \in Names \/ (i = 0 /\ players[i] = NoName)
    /\ \A i, j \in DOMAIN players : players[i] = players[j] => i = j
    /\ name_send \in BOOLEAN /\ update_ui \in BOOLEAN
    /\ tracking \in BOOLEAN /\ phase \in {"messages", "log"}
    /\ tail \in Lines \cup {NoLine}
    /\ starts \in 0..MaxStarts /\ mark \in 0..Len(link)

\* A stored row names the player it was about for as long as it is stored: ids
\* are given anew only when no row is left that uses them.
Means(id, entity) ==
    CASE entity \in Names -> IsPlayerNameSet(players, id) /\ players[id] = entity
      [] entity = Mob -> id = MobId
      [] entity = Nobody -> id = 0
RowsKeepNames ==
    \A k \in DOMAIN encounters : \A i \in DOMAIN encounters[k].table :
        LET row == encounters[k].table[i]
        IN  Means(row.src, row.line.src) /\ Means(row.dst, row.line.dst)

\* Unless an earlier log gets in the way (its tail is read as the first line, or it
\* already gave the owner another id), the local player, id 0, is the owner of
\* the log.
OwnerIsZero ==
    begun /\ clean => 0 \in DOMAIN players /\ players[0] = owner

\* Then the client sends exactly the events of its own player, of mobs and of
\* nobody, in order, and no event of another player: those send it themselves.  It
\* has sent as many events of this log as such lines were read, and the n-th event
\* is that of the n-th line.
EventsSent == {k \in mark + 1..Len(link) : link[k].kind = "event"}
OwnLines == {j \in DOMAIN read : read[j].src \notin Names \ {owner}}
Rank(S, k) == Cardinality({j \in S : j <= k})
SendsOwnEvents ==
    clean =>
        /\ Cardinality(EventsSent) = Cardinality(OwnLines)
        /\ \A k \in EventsSent, j \in OwnLines :
              Rank(EventsSent, k) = Rank(OwnLines, j) => link[k] = EventMessage(read[j])

\* The server is told one name, before the first event, and if that is during
\* such a log the name is the owner's and not empty.
AnnouncesName ==
    link # << >> =>
        /\ \A k \in DOMAIN link : link[k].kind = "name" <=> k = 1
        /\ clean /\ mark = 0 => link[1].name = owner

\* Whenever no update is pending, the display shows the last encounter, or the one
\* before if nothing is stored of the last one yet.
DisplayIsCurrent ==
    tracking /\ ~ update_ui =>
        \/ shown = LastTable
        \/ /\ LastTable = << >>
           /\ Len(encounters) > 1
           /\ shown = encounters[Len(encounters) - 1].table
=============================================================================
