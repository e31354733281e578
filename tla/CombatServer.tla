---------------------------- MODULE CombatServer ----------------------------
(***************************************************************************)
(* The raid hub: combat_server and combat_server_client (combat_server.h)  *)
(* with the socket handlers of app that drive them (app.cpp).  Everything  *)
(* runs on the UI thread, one window message at a time; what is hard is    *)
(* the order in which the messages of different sockets arrive, ids and    *)
(* socket handles that are used again, and messages that were posted for a *)
(* socket before it was closed.                                            *)
(*                                                                         *)
(* A connection is named by its socket handle.  on_packet is called with   *)
(* any well-formed packet; how packets are cut out of the byte stream is   *)
(* the subject of module PacketStream.                                     *)
(***************************************************************************)
EXTENDS Naturals, Sequences, SequencesExt, FiniteSetsExt, PlayerDb

CONSTANTS
    Sockets,    \* socket handles the operating system hands out
    Names,      \* player names, the empty one (NoName) included
    StringIds,  \* ids of translated strings
    Strings,    \* translations
    NoString,   \* marks a string that is not in the string database
    Units,      \* what src and dst of an event may be; 0 is "the sender"
    MaxWork     \* bound on the number of window messages that are handled

ASSUME SocketsAssumption == IsFiniteSet(Sockets)
ASSUME UnitsAssumption == Units \subseteq Nat
ASSUME NamesAssumption == NoName \in Names
ASSUME NoStringAssumption == NoString \notin Strings
ASSUME MaxWorkAssumption == MaxWork \in Nat

VARIABLES
    open,     \* sockets that are connected
    pid,      \* _players as a function: the id of a socket's entry, 0 if none
    next_id,  \* _next_id
    names,    \* _player_db
    strings,  \* _string_db
    events,   \* the calls of _combat_db.on_combat_event, in order
    sent,     \* what was sent on each connected socket, in order
    late,     \* closed sockets for which a message may still be queued
    joined,   \* history: how many events there were when a socket connected
    asked,    \* history: the strings a connected socket has queried
    work      \* number of messages handled

vars == <<open, pid, next_id, names, strings, events, sent, late, joined,
          asked, work>>

Players == {s \in Sockets : pid[s] # 0}

IsIdInUse(i) == \E s \in Players : pid[s] = i

\* The shortcut over _next_id is the code's.
IsAnyPlayer(i) == i < next_id /\ IsIdInUse(i)

\* get_next_id: the smallest id that is not in use.  The search of the code has
\* no bound; one id more than there are sockets is enough for it.
FreeIds == {i \in 1..Cardinality(Sockets) + 1 : ~ IsIdInUse(i)}
NewIdByCount == Cardinality(Players) + 1  \* slip: takes the count for an id
NewIdNext == next_id                      \* slip: never uses an id again
NewId == CHOOSE i \in FreeIds : \A j \in FreeIds : i <= j

\* sent after sending m to every socket of S; nothing reaches a closed one.
SentTo(S, m) ==
    [s \in Sockets |-> IF s \in S \cap open THEN Append(sent[s], m) ELSE sent[s]]
-----------------------------------------------------------------------------
Init ==
    /\ open = {}
    /\ pid = [s \in Sockets |-> 0]
    /\ next_id = 1
    /\ names = EmptyDb
    /\ strings = [i \in StringIds |-> NoString]
    /\ events = << >>
    /\ sent = [s \in Sockets |-> << >>]
    /\ late = {}
    /\ joined = [s \in Sockets |-> 0]
    /\ asked = [s \in Sockets |-> {}]
    /\ work = 0

Handle == work < MaxWork /\ work' = work + 1

\* Slip: _next_id is left behind.
GetClientOnly(s) ==
    IF s \in Players
    THEN UNCHANGED <<pid, next_id>>
    ELSE pid' = [pid EXCEPT ![s] = NewId] /\ UNCHANGED next_id

\* get_client_from_socket: finds the entry of s or makes one.
GetClient(s) ==
    IF s \in Players
    THEN UNCHANGED <<pid, next_id>>
    ELSE /\ pid' = [pid EXCEPT ![s] = NewId]
         /\ next_id' = IF NewId >= next_id THEN NewId + 1 ELSE next_id

\* on_listen_socket, FD_ACCEPT: one turn of the accept loop.
Accept(s) ==
    /\ Handle
    /\ s \notin open
    /\ open' = open \cup {s}
    /\ GetClient(s)
    /\ sent' = [sent EXCEPT ![s] = << >>]
    /\ joined' = [joined EXCEPT ![s] = Len(events)]
    /\ asked' = [asked EXCEPT ![s] = {}]
    /\ UNCHANGED <<names, strings, events, late>>

\* on_client_name, set_client_name.
ClientName(s, name) ==
    /\ Handle
    /\ s \in open
    /\ names' = SetPlayerName(names, name, pid[s])
    /\ sent' = SentTo({t \in Players : pid[t] # pid[s]},
                      [type |-> "client_set", id |-> pid[s], name |-> name])
    /\ UNCHANGED <<open, pid, next_id, strings, events, late, joined, asked>>

\* on_string_query, query_string.
StringQuery(s, i) ==
    /\ Handle
    /\ s \in open
    /\ IF strings[i] # NoString
       THEN sent' = SentTo({s}, [type |-> "string_result", id |-> i, str |-> strings[i]])
       ELSE sent' = SentTo(Players \ {s}, [type |-> "string_query", id |-> i])
    /\ asked' = [asked EXCEPT ![s] = @ \cup {i}]
    /\ UNCHANGED <<open, pid, next_id, names, strings, events, late, joined>>

\* Slip: a later answer replaces the first one.
StringResultReplaces(s, i, str) ==
    /\ Handle
    /\ s \in open
    /\ strings' = [strings EXCEPT ![i] = str]
    /\ sent' = SentTo(Players, [type |-> "string_result", id |-> i, str |-> str])
    /\ UNCHANGED <<open, pid, next_id, names, events, late, joined, asked>>

\* Slip: the result is not echoed to the client that answered.
StringResultToOthers(s, i, str) ==
    /\ Handle
    /\ s \in open
    /\ IF strings[i] = NoString
       THEN /\ strings' = [strings EXCEPT ![i] = str]
            /\ sent' = SentTo(Players \ {s}, [type |-> "string_result", id |-> i, str |-> str])
       ELSE UNCHANGED <<strings, sent>>
    /\ UNCHANGED <<open, pid, next_id, names, events, late, joined, asked>>

\* on_string_result, result_string: the first answer wins.
StringResult(s, i, str) ==
    /\ Handle
    /\ s \in open
    /\ IF strings[i] = NoString
       THEN /\ strings' = [strings EXCEPT ![i] = str]
            /\ sent' = SentTo(Players, [type |-> "string_result", id |-> i, str |-> str])
       ELSE UNCHANGED <<strings, sent>>
    /\ UNCHANGED <<open, pid, next_id, names, events, late, joined, asked>>

SkipPacketBelow(src) == src # 0 /\ src < next_id - 1  \* slip: off by one

\* skip_packet
SkipPacket(src) == src # 0 /\ IsAnyPlayer(src)

\* translate: the sender calls itself 0.
Translate(u, s) == IF u = 0 THEN pid[s] ELSE u

\* Slip: the event is echoed to its sender.
CombatEventEchoed(s, src, dst) ==
    /\ Handle
    /\ s \in open
    /\ IF SkipPacket(src)
       THEN UNCHANGED <<events, sent>>
       ELSE LET e == [src |-> Translate(src, s), dst |-> Translate(dst, s)]
            IN  /\ events' = Append(events, [from |-> s, entry |-> e])
                /\ sent' = SentTo(Players, [type |-> "combat_event", entry |-> e])
    /\ UNCHANGED <<open, pid, next_id, names, strings, late, joined, asked>>

\* on_combet_event, combat_event.
CombatEvent(s, src, dst) ==
    /\ Handle
    /\ s \in open
    /\ IF SkipPacket(src)
       THEN UNCHANGED <<events, sent>>
       ELSE LET e == [src |-> Translate(src, s), dst |-> Translate(dst, s)]
            IN  /\ events' = Append(events, [from |-> s, entry |-> e])
                /\ sent' = SentTo(Players \ {s}, [type |-> "combat_event", entry |-> e])
    /\ UNCHANGED <<open, pid, next_id, names, strings, late, joined, asked>>

\* Slip: the name stays in the database.
RemoveClientKeepName(s, i) ==
    /\ sent' = [SentTo({t \in Players : pid[t] # i},
                       [type |-> "client_remove", id |-> i]) EXCEPT ![s] = << >>]
    /\ names' = names
    /\ pid' = [pid EXCEPT ![s] = 0]

\* Slip: the other clients are not told.
RemoveClientSilently(s, i) ==
    /\ sent' = [sent EXCEPT ![s] = << >>]
    /\ names' = RemovePlayerName(names, i)
    /\ pid' = [pid EXCEPT ![s] = 0]

\* remove_client_by_socket for an entry with id i.
RemoveClient(s, i) ==
    /\ sent' = [SentTo({t \in Players : pid[t] # i},
                       [type |-> "client_remove", id |-> i]) EXCEPT ![s] = << >>]
    /\ names' = RemovePlayerName(names, i)
    /\ pid' = [pid EXCEPT ![s] = 0]

\* on_any_client_socket, FD_CLOSE or WSAENETDOWN.  Other messages may have been
\* posted for the socket already; closesocket does not take them back.
Close(s) ==
    /\ Handle
    /\ s \in open
    /\ open' = open \ {s}
    /\ RemoveClient(s, pid[s])
    /\ late' \in {late, late \cup {s}}
    /\ joined' = [joined EXCEPT ![s] = 0]
    /\ asked' = [asked EXCEPT ![s] = {}]
    /\ UNCHANGED <<next_id, strings, events>>

\* on_any_client_socket, a message of a closed socket that reports data or
\* room to send: the look-up makes a new entry, recv fails.
LateIo(s) ==
    /\ Handle
    /\ s \in late \ open
    /\ late' = late \ {s}
    /\ GetClient(s)
    /\ UNCHANGED <<open, names, strings, events, sent, joined, asked>>

\* on_any_client_socket, a second close message (WSAENETDOWN is reported with
\* every event): the look-up makes an entry and the handler removes it.
LateClose(s) ==
    /\ Handle
    /\ s \in late \ open
    /\ late' = late \ {s}
    /\ LET i == IF s \in Players THEN pid[s] ELSE NewId
       IN  /\ next_id' = IF i >= next_id THEN i + 1 ELSE next_id
           /\ RemoveClient(s, i)
    /\ UNCHANGED <<open, strings, events, joined, asked>>

Packet(s) ==
    \/ \E name \in Names : ClientName(s, name)
    \/ \E i \in StringIds : StringQuery(s, i)
    \/ \E i \in StringIds, str \in Strings : StringResult(s, i, str)
    \/ \E src, dst \in Units : CombatEvent(s, src, dst)

Next ==
    \E s \in Sockets :
        \/ Accept(s)
        \/ Packet(s)
        \/ Close(s)
        \/ LateIo(s)
        \/ LateClose(s)

Spec == Init /\ [][Next]_vars
-----------------------------------------------------------------------------
Ids == 0..Cardinality(Sockets) + 1
Entries == [src : Nat, dst : Nat]

Messages ==
    [type : {"client_set"}, id : Ids, name : Names]
    \cup [type : {"client_remove"}, id : Ids]
    \cup [type : {"string_query"}, id : StringIds]
    \cup [type : {"string_result"}, id : StringIds, str : Strings]
    \cup [type : {"combat_event"}, entry : Entries]

TypeOK ==
    /\ open \in SUBSET Sockets
    /\ pid \in [Sockets -> Ids]
    /\ next_id \in 1..Cardinality(Sockets) + 2
    /\ DOMAIN names \subseteq Ids
    /\ names \in [DOMAIN names -> Names]
    /\ strings \in [StringIds -> Strings \cup {NoString}]
    /\ events \in Seq([from : Sockets, entry : Entries])
    /\ sent \in [Sockets -> Seq(Messages)]
    /\ late \in SUBSET Sockets
    /\ joined \in [Sockets -> Nat]
    /\ asked \in [Sockets -> SUBSET StringIds]
    /\ work \in 0..MaxWork

\* Every connected socket has an entry, so the handlers of its packets never
\* meet (and never create) a player that the accept loop did not.
OpenHasEntry == open \subseteq Players

\* No two entries of _players share an id.  set_client_name and
\* remove_client_by_socket compare ids where they mean entries: with a shared id
\* a player would miss names and removals, and two players' events would be
\* counted as one's.  get_next_id runs while the new entry is already in the
\* vector and ids are used again after a player leaves.
UniqueIds == \A s, t \in Players : pid[s] = pid[t] => s = t

\* The shortcut of is_any_player over _next_id never hides a player.
NextIdCoversPlayers == \A i \in Ids : IsIdInUse(i) => IsAnyPlayer(i)

\* A name is only kept for an id some entry has, so a player that gets an id
\* for the second time does not inherit the name of its former owner.
NamesHaveOwners == \A i \in DOMAIN names : names[i] # NoName => IsIdInUse(i)

\* No two ids have the same name, whatever names the clients choose and in
\* whatever order: set_player_name takes the name from its former holder.
NamesDiffer ==
    \A i, j \in DOMAIN names : names[i] = names[j] /\ names[i] # NoName => i = j

\* What the messages sent to s so far say the name of player i is.
About(s, i) == {k \in DOMAIN sent[s] :
                  sent[s][k].type \in {"client_set", "client_remove"}
                    /\ sent[s][k].id = i}
Shown(s, i) ==
    IF About(s, i) = {} \/ sent[s][Max(About(s, i))].type = "client_remove"
    THEN NoName ELSE sent[s][Max(About(s, i))].name

\* set_client_name and remove_client_by_socket keep the clients' rosters right
\* across leaving, joining and the second use of an id: a client that follows
\* its messages shows no name for an id that is not in use, and where it shows
\* a name of a player the server has a name for, it is that name.
RosterFollows ==
    \A s \in open, i \in Ids :
        Shown(s, i) # NoName =>
            /\ IsIdInUse(i)
            /\ IsPlayerNameSet(names, i) => Shown(s, i) = names[i]

\* combat_event reaches every other client exactly once and in the server's
\* order: a client has been sent as many events as the server counted of the
\* others since it joined, and the n-th is the n-th.
EventsSentTo(s) == {k \in DOMAIN sent[s] : sent[s][k].type = "combat_event"}
EventsFor(s) == {j \in joined[s] + 1..Len(events) : events[j].from # s}
Rank(S, k) == Cardinality({j \in S : j <= k})
RelayExact ==
    \A s \in open :
        /\ Cardinality(EventsSentTo(s)) = Cardinality(EventsFor(s))
        /\ \A k \in EventsSentTo(s), j \in EventsFor(s) :
              Rank(EventsSentTo(s), k) = Rank(EventsFor(s), j) =>
                  sent[s][k].entry = events[j].entry

\* The rules above skip_packet: an event is only counted when its source is
\* its sender or nobody who is connected, "or we count healing etc twice".
NoDoubleCount ==
    [][\A k \in DOMAIN events' \ DOMAIN events :
         LET e == events'[k]
         IN  e.entry.src = pid[e.from] \/ ~ IsIdInUse(e.entry.src)]_vars

\* Two clients are never told different translations of one string, not even
\* when several clients answer a query differently (result_string).
ResultsAgree ==
    \A s \in open : \A k \in DOMAIN sent[s] :
        sent[s][k].type = "string_result" => sent[s][k].str = strings[sent[s][k].id]

\* query_string does not remember who asked; result_string makes up for it by
\* telling everybody: as soon as the server knows a string, every connected
\* client that has ever asked for it has been sent the result.
AskersAnswered ==
    \A s \in open : \A i \in asked[s] :
        strings[i] # NoString =>
            Contains(sent[s], [type |-> "string_result", id |-> i, str |-> strings[i]])

\* _next_id only grows when every id below it is in use (get_next_id takes the
\* smallest one), so ids stay as small as the raid is large.
NextIdGrowsWhenFull ==
    [][next_id' > next_id => \A i \in 1..next_id - 1 : IsIdInUse(i)]_vars
=============================================================================
