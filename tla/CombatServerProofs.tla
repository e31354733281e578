------------------------- MODULE CombatServerProofs -------------------------
(***************************************************************************)
(* Proofs about CombatServer for any finite set of sockets, any strings    *)
(* and any number of messages: types, the id discipline of _players and    *)
(* the name database; then what is sent: translations agree and reach      *)
(* everybody who asked, no event is counted twice, rosters follow the      *)
(* names, and every event is relayed once and in order.                    *)
(***************************************************************************)
EXTENDS CombatServer, DataFacts, SequenceTheorems, FunctionTheorems

-----------------------------------------------------------------------------
\* What the operators of the model return.

\* get_next_id finds an id: the smallest one that no entry has.
LEMMA NewIdIsSmallest ==
    ASSUME pid \in [Sockets -> Nat]
    PROVE  /\ NewId \in 1..Cardinality(Sockets) + 1
           /\ ~ IsIdInUse(NewId)
           /\ \A j \in 1..Cardinality(Sockets) + 1 : j < NewId => IsIdInUse(j)
<1>1. Cardinality(Sockets) \in Nat
  BY SocketsAssumption, FS_CardinalityType
<1>2. FreeIds # {}
  BY SocketsAssumption, FunctionMissesOne DEF FreeIds, IsIdInUse, Players
<1>3. FreeIds \in SUBSET Nat
  BY <1>1 DEF FreeIds
<1>4. \E i \in FreeIds : \A j \in FreeIds : i <= j
  BY <1>2, <1>3, NatMin
<1>5. NewId \in FreeIds /\ \A j \in FreeIds : NewId <= j
  BY <1>4 DEF NewId
<1>6. ASSUME NEW j \in 1..Cardinality(Sockets) + 1, j < NewId
      PROVE  IsIdInUse(j)
  <2>1. j \notin FreeIds
    BY <1>1, <1>3, <1>5, <1>6
  <2> QED BY <2>1 DEF FreeIds
<1> QED BY <1>5, <1>6 DEF FreeIds

\* The name database after a step, in which the id has got the name.
NameIsSet(id, name) ==
    /\ DOMAIN names' = DOMAIN names \cup 0..id
    /\ names' \in [DOMAIN names' -> Names]
    /\ names'[id] = name
    /\ \A i \in DOMAIN names' :
         i # id => names'[i] = NoName
                     \/ (i \in DOMAIN names /\ names'[i] = names[i])
    /\ \A i \in DOMAIN names' : i # id /\ name # NoName => names'[i] # name

\* set_player_name on a database whose names differ stores the name; every other
\* slot keeps its name or is emptied, and none of them holds the new name.
LEMMA SetPlayerNameFacts ==
    ASSUME DOMAIN names \subseteq Nat, names \in [DOMAIN names -> Names], NamesDiffer,
           NEW name \in Names, NEW id \in Nat,
           names' = SetPlayerName(names, name, id)
    PROVE  NameIsSet(id, name)
<1> USE DEF NameIsSet
<1> USE NamesAssumption
<1> DEFINE grown == Grow(names, id)
<1>1. /\ DOMAIN grown = DOMAIN names \cup 0..id
      /\ grown \in [DOMAIN grown -> Names]
      /\ \A i \in DOMAIN grown :
           grown[i] = IF i \in DOMAIN names THEN names[i] ELSE NoName
  BY DEF Grow
<1>2. id \in DOMAIN grown
  BY <1>1
<1> HIDE DEF grown
<1>3. CASE IsPlayerInDb(grown, name)
  <2> DEFINE old == FirstHolder(grown, name)
  <2>1. Holders(grown, name) \in SUBSET Nat /\ Holders(grown, name) # {}
    BY <1>1, <1>3 DEF Holders, IsPlayerInDb
  <2>2. \E i \in Holders(grown, name) : \A j \in Holders(grown, name) : i <= j
    BY <2>1, NatMin
  <2>3. old \in Holders(grown, name)
    BY <2>2 DEF FirstHolder
  <2>4. old \in DOMAIN grown /\ grown[old] = name
    BY <2>3 DEF Holders
  <2> HIDE DEF old
  <2>5. names' = [grown EXCEPT ![old] = NoName, ![id] = name]
    BY <1>3 DEF SetPlayerName, grown, old
  <2>6. /\ DOMAIN names' = DOMAIN grown
        /\ \A i \in DOMAIN names' :
             names'[i] = IF i = id THEN name ELSE IF i = old THEN NoName ELSE grown[i]
    BY <1>1, <1>2, <2>4, <2>5
  <2>7. names' \in [DOMAIN names' -> Names]
    BY <1>1, <1>2, <2>4, <2>5
  <2>8. ASSUME NEW i \in DOMAIN names', i # id, name # NoName
        PROVE  names'[i] # name
    BY <1>1, <2>4, <2>6, <2>8 DEF NamesDiffer
  <2> QED BY <1>1, <1>2, <2>6, <2>7, <2>8
<1>4. CASE ~ IsPlayerInDb(grown, name)
  <2>1. names' = [grown EXCEPT ![id] = name]
    BY <1>4 DEF SetPlayerName, grown
  <2>2. \A i \in DOMAIN grown : grown[i] # name
    BY <1>4 DEF IsPlayerInDb, Holders
  <2>3. /\ DOMAIN names' = DOMAIN grown
        /\ \A i \in DOMAIN names' : names'[i] = IF i = id THEN name ELSE grown[i]
    BY <1>1, <1>2, <2>1
  <2>4. names' \in [DOMAIN names' -> Names]
    BY <1>1, <1>2, <2>1
  <2> QED BY <1>1, <1>2, <2>2, <2>3, <2>4
<1> QED BY <1>3, <1>4

\* remove_player_name empties one slot and keeps the others.
LEMMA RemovePlayerNameFacts ==
    ASSUME NEW N, NoName \in N, NEW db, db \in [DOMAIN db -> N], NEW id,
           NEW new, new = RemovePlayerName(db, id)
    PROVE  /\ DOMAIN new = DOMAIN db
           /\ new \in [DOMAIN new -> N]
           /\ \A i \in DOMAIN new : new[i] = IF i = id THEN NoName ELSE db[i]
BY DEF RemovePlayerName

\* Sending a message keeps the channels sequences of messages.
LEMMA SentToType ==
    ASSUME sent \in [Sockets -> Seq(Messages)], NEW S, NEW m \in Messages
    PROVE  SentTo(S, m) \in [Sockets -> Seq(Messages)]
BY AppendProperties DEF SentTo

-----------------------------------------------------------------------------
\* The inductive invariant.  The parts need each other: ids are unique because
\* _next_id and the search cover every entry, and a name can be cleared by id
\* only because ids are unique.
IInv ==
    /\ TypeOK
    /\ OpenHasEntry
    /\ UniqueIds
    /\ NextIdCoversPlayers
    /\ NamesHaveOwners
    /\ NamesDiffer

\* The number of sockets is a number, and ids are numbers.
LEMMA IdsAreNumbers ==
    /\ Cardinality(Sockets) \in Nat
    /\ Ids \subseteq Nat
<1>1. Cardinality(Sockets) \in Nat
  BY SocketsAssumption, FS_CardinalityType
<1> QED BY <1>1 DEF Ids

\* get_client_from_socket keeps ids unique and below _next_id, and takes no id
\* away from anybody.
LEMMA GetClientKeeps ==
    ASSUME IInv, NEW s \in Sockets, GetClient(s)
    PROVE  /\ pid' \in [Sockets -> Ids]
           /\ next_id' \in 1..Cardinality(Sockets) + 2
           /\ Players' = Players \cup {s}
           /\ \A i : IsIdInUse(i) => IsIdInUse(i)'
           /\ UniqueIds'
           /\ NextIdCoversPlayers'
<1> USE IdsAreNumbers
<1> DEFINE n == Cardinality(Sockets)
<1>1. pid \in [Sockets -> Ids] /\ next_id \in 1..n + 2
  BY DEF IInv, TypeOK
<1>2. CASE s \in Players
  <2>1. UNCHANGED <<pid, next_id>>
    BY <1>2 DEF GetClient
  <2>2. UniqueIds'
    BY <2>1 DEF IInv, UniqueIds, Players
  <2>3. NextIdCoversPlayers'
    BY <2>1 DEF IInv, NextIdCoversPlayers, IsAnyPlayer, IsIdInUse, Players
  <2> QED BY <1>1, <1>2, <2>1, <2>2, <2>3 DEF IsIdInUse, Players
<1>3. CASE s \notin Players
  <2>1. /\ pid' = [pid EXCEPT ![s] = NewId]
        /\ next_id' = IF NewId >= next_id THEN NewId + 1 ELSE next_id
    BY <1>3 DEF GetClient
  <2>2. /\ NewId \in 1..n + 1
        /\ ~ IsIdInUse(NewId)
    BY <1>1, NewIdIsSmallest
  <2>3. NewId \in Ids /\ NewId # 0 /\ NewId \in Nat
    BY <2>2 DEF Ids
  <2>4. pid' \in [Sockets -> Ids]
    BY <1>1, <2>1, <2>3
  <2>5. next_id' \in 1..n + 2 /\ NewId < next_id' /\ next_id <= next_id'
    BY <1>1, <2>1, <2>2
  <2>6. \A t \in Sockets : pid'[t] = IF t = s THEN NewId ELSE pid[t]
    BY <1>1, <2>1
  <2>7. Players' = Players \cup {s}
    BY <2>3, <2>6 DEF Players
  <2>8. \A i : IsIdInUse(i) => IsIdInUse(i)'
    BY <1>3, <2>6, <2>7 DEF IsIdInUse, Players
  <2>9. UniqueIds'
    BY <1>3, <2>2, <2>6, <2>7 DEF IInv, UniqueIds, IsIdInUse, Players
  <2>10. ASSUME NEW i \in Ids, IsIdInUse(i)'
         PROVE  IsAnyPlayer(i)'
    <3>1. i = NewId \/ IsIdInUse(i)
      BY <1>3, <2>6, <2>7, <2>10 DEF IsIdInUse, Players
    <3>2. IsIdInUse(i) => i < next_id
      BY DEF IInv, NextIdCoversPlayers, IsAnyPlayer
    <3>3. i < next_id'
      BY <1>1, <2>5, <3>1, <3>2
    <3> QED BY <2>10, <3>3 DEF IsAnyPlayer
  <2> QED BY <2>4, <2>5, <2>7, <2>8, <2>9, <2>10 DEF NextIdCoversPlayers
<1> QED BY <1>2, <1>3

\* An action that adds entries at most and leaves the names alone keeps the
\* two invariants about names.
LEMMA NamesKept ==
    ASSUME IInv, names' = names, \A i : IsIdInUse(i) => IsIdInUse(i)'
    PROVE  NamesHaveOwners' /\ NamesDiffer'
BY DEF IInv, NamesHaveOwners, NamesDiffer

\* remove_client_by_socket for the id i of s, or for an id that nobody has.
LEMMA RemoveClientKeeps ==
    ASSUME IInv, NEW s \in Sockets, NEW i \in Ids, RemoveClient(s, i),
           i = pid[s] \/ s \notin Players
    PROVE  /\ pid' \in [Sockets -> Ids]
           /\ DOMAIN names' \subseteq Ids
           /\ names' \in [DOMAIN names' -> Names]
           /\ sent' \in [Sockets -> Seq(Messages)]
           /\ Players' = Players \ {s}
           /\ UniqueIds'
           /\ NamesHaveOwners'
           /\ NamesDiffer'
<1> USE IdsAreNumbers
<1>1. /\ pid \in [Sockets -> Ids]
      /\ sent \in [Sockets -> Seq(Messages)]
      /\ names \in [DOMAIN names -> Names]
      /\ DOMAIN names \subseteq Ids
  BY DEF IInv, TypeOK
<1>2. /\ pid' = [pid EXCEPT ![s] = 0]
      /\ names' = RemovePlayerName(names, i)
  BY DEF RemoveClient
<1>3. \A t \in Sockets : pid'[t] = IF t = s THEN 0 ELSE pid[t]
  BY <1>1, <1>2
<1>4. 0 \in Ids
  BY DEF Ids
<1>5. pid' \in [Sockets -> Ids] /\ Players' = Players \ {s}
  BY <1>1, <1>2, <1>3, <1>4 DEF Players
<1>6. /\ DOMAIN names' = DOMAIN names
      /\ names' \in [DOMAIN names' -> Names]
      /\ \A k \in DOMAIN names' : names'[k] = IF k = i THEN NoName ELSE names[k]
  BY <1>1, <1>2, NamesAssumption, RemovePlayerNameFacts
<1>7. sent' \in [Sockets -> Seq(Messages)]
  <2> DEFINE m == [type |-> "client_remove", id |-> i]
             S == {t \in Players : pid[t] # i}
  <2>1. m \in Messages
    BY DEF Messages
  <2>2. SentTo(S, m) \in [Sockets -> Seq(Messages)]
    <3> HIDE DEF m, S
    <3> QED BY <1>1, <2>1, SentToType
  <2>3. sent' = [SentTo(S, m) EXCEPT ![s] = << >>]
    BY DEF RemoveClient
  <2> HIDE DEF m, S
  <2> QED BY <2>2, <2>3
<1>8. UniqueIds'
  BY <1>3, <1>5 DEF IInv, UniqueIds, Players
<1>9. ASSUME NEW k \in DOMAIN names', names'[k] # NoName
      PROVE  IsIdInUse(k)'
  <2>1. k # i /\ names[k] # NoName /\ k \in DOMAIN names
    BY <1>6, <1>9
  <2>2. IsIdInUse(k)
    BY <2>1 DEF IInv, NamesHaveOwners
  <2>3. PICK t \in Players : pid[t] = k
    BY <2>2 DEF IsIdInUse
  <2>4. t # s
    BY <2>1, <2>3
  <2> QED BY <1>3, <1>5, <2>3, <2>4 DEF IsIdInUse, Players
<1>10. NamesDiffer'
  BY <1>6 DEF IInv, NamesDiffer
<1> QED BY <1>1, <1>5, <1>6, <1>7, <1>8, <1>9, <1>10 DEF NamesHaveOwners

-----------------------------------------------------------------------------
LEMMA InitEstablishes == Init => IInv
<1> SUFFICES ASSUME Init PROVE IInv
  OBVIOUS
<1> USE IdsAreNumbers DEF Init
<1>1. DOMAIN names = {}
  BY DEF EmptyDb
<1>2. TypeOK
  BY <1>1, MaxWorkAssumption DEF TypeOK, Ids, EmptyDb
<1>3. Players = {}
  BY DEF Players
<1> QED BY <1>1, <1>2, <1>3 DEF IInv, OpenHasEntry, UniqueIds,
           NextIdCoversPlayers, IsIdInUse, NamesHaveOwners, NamesDiffer

LEMMA StepKeeps == IInv /\ [Next]_vars => IInv'
<1> SUFFICES ASSUME IInv, [Next]_vars PROVE IInv'
  OBVIOUS
<1> USE IdsAreNumbers
<1>type. TypeOK
  BY DEF IInv
<1>entry. open \subseteq Players
  BY DEF IInv, OpenHasEntry
<1>work. Handle => work' \in 0..MaxWork
  BY <1>type, MaxWorkAssumption DEF Handle, TypeOK
<1>same. \* a step that leaves entries, sockets and names alone
      ASSUME UNCHANGED <<open, pid, next_id, names>>, TypeOK'
      PROVE  IInv'
  <2>1. Players' = Players /\ \A i : IsIdInUse(i)' = IsIdInUse(i)
    BY <1>same DEF Players, IsIdInUse
  <2>2. OpenHasEntry' /\ UniqueIds'
    BY <1>same, <2>1 DEF IInv, OpenHasEntry, UniqueIds
  <2>3. NextIdCoversPlayers'
    BY <1>same, <2>1 DEF IInv, NextIdCoversPlayers, IsAnyPlayer
  <2> QED BY <1>same, <2>1, <2>2, <2>3, NamesKept DEF IInv
<1>1. ASSUME NEW s \in Sockets, Accept(s)
      PROVE  IInv'
  <2> USE <1>1 DEF Accept
  <2>1. TypeOK'
    <3>1. events \in Seq([from : Sockets, entry : Entries]) => Len(events) \in Nat
      BY LenProperties
    <3> QED BY <1>type, <1>work, <3>1, GetClientKeeps DEF TypeOK
  <2>2. OpenHasEntry'
    BY <1>entry, GetClientKeeps DEF OpenHasEntry
  <2> QED BY <2>1, <2>2, GetClientKeeps, NamesKept DEF IInv
<1>2. ASSUME NEW s \in Sockets, NEW name \in Names, ClientName(s, name)
      PROVE  IInv'
  <2> DEFINE m == [type |-> "client_set", id |-> pid[s], name |-> name]
             S == {t \in Players : pid[t] # pid[s]}
  <2>0. /\ Handle
        /\ s \in open
        /\ names' = SetPlayerName(names, name, pid[s])
        /\ sent' = SentTo(S, m)
        /\ UNCHANGED <<open, pid, next_id, strings, events, late, joined, asked>>
    BY <1>2 DEF ClientName
  <2>1. s \in Players /\ pid[s] \in Ids /\ pid[s] \in Nat
    BY <2>0, <1>type, <1>entry DEF TypeOK
  <2>2. /\ DOMAIN names' = DOMAIN names \cup 0..pid[s]
        /\ names' \in [DOMAIN names' -> Names]
        /\ names'[pid[s]] = name
        /\ \A i \in DOMAIN names' :
             i # pid[s] => names'[i] = NoName
                             \/ (i \in DOMAIN names /\ names'[i] = names[i])
        /\ \A i \in DOMAIN names' : i # pid[s] /\ name # NoName => names'[i] # name
    <3>1. names \in [DOMAIN names -> Names] /\ DOMAIN names \subseteq Nat
      BY <1>type DEF TypeOK
    <3>2. NamesDiffer
      BY DEF IInv
    <3> HIDE DEF m, S
    <3>3. names' = SetPlayerName(names, name, pid[s])
      BY <2>0
    <3>4. NameIsSet(pid[s], name)
      BY <2>1, <3>1, <3>2, <3>3, SetPlayerNameFacts
    <3> QED BY <3>4 DEF NameIsSet
  <2>3. DOMAIN names' \subseteq Ids
    BY <1>type, <2>1, <2>2 DEF TypeOK, Ids
  <2>4. sent' \in [Sockets -> Seq(Messages)]
    <3>1. m \in Messages
      BY <2>1 DEF Messages
    <3> HIDE DEF m, S
    <3>2. sent \in [Sockets -> Seq(Messages)]
      BY <1>type DEF TypeOK
    <3>3. SentTo(S, m) \in [Sockets -> Seq(Messages)]
      BY <3>1, <3>2, SentToType
    <3> QED BY <2>0, <3>3
  <2>5. TypeOK'
    BY <2>0, <1>type, <1>work, <2>2, <2>3, <2>4 DEF TypeOK
  <2>6. Players' = Players /\ \A i : IsIdInUse(i)' = IsIdInUse(i)
    BY <2>0 DEF Players, IsIdInUse
  <2>7. OpenHasEntry' /\ UniqueIds' /\ NextIdCoversPlayers'
    BY <2>0, <2>6 DEF IInv, OpenHasEntry, UniqueIds, NextIdCoversPlayers, IsAnyPlayer
  <2>8. IsIdInUse(pid[s])
    BY <2>1 DEF IsIdInUse
  <2>9. NamesHaveOwners'
    BY <2>2, <2>6, <2>8 DEF IInv, NamesHaveOwners
  <2>10. NamesDiffer'
    BY <2>2 DEF IInv, NamesDiffer
  <2> QED BY <2>5, <2>7, <2>9, <2>10 DEF IInv
<1>3. ASSUME NEW s \in Sockets, NEW i \in StringIds, StringQuery(s, i)
      PROVE  IInv'
  <2> USE <1>3 DEF StringQuery
  <2>1. sent' \in [Sockets -> Seq(Messages)]
    <3>1. CASE strings[i] # NoString
      <4> DEFINE m == [type |-> "string_result", id |-> i, str |-> strings[i]]
      <4>1. m \in Messages
        BY <1>type, <3>1 DEF Messages, TypeOK
      <4>2. sent' = SentTo({s}, m)
        BY <3>1
      <4> HIDE DEF m
      <4> QED BY <1>type, <4>1, <4>2, SentToType DEF TypeOK
    <3>2. CASE strings[i] = NoString
      <4> DEFINE m == [type |-> "string_query", id |-> i]
      <4>1. m \in Messages
        BY DEF Messages
      <4>2. sent' = SentTo(Players \ {s}, m)
        BY <3>2
      <4> HIDE DEF m
      <4> QED BY <1>type, <4>1, <4>2, SentToType DEF TypeOK
    <3> QED BY <3>1, <3>2
  <2>2. TypeOK'
    BY <1>type, <1>work, <2>1 DEF TypeOK
  <2> QED BY <1>same, <2>2
<1>4. ASSUME NEW s \in Sockets, NEW i \in StringIds, NEW str \in Strings,
             StringResult(s, i, str)
      PROVE  IInv'
  <2> USE <1>4 DEF StringResult
  <2> DEFINE m == [type |-> "string_result", id |-> i, str |-> str]
  <2>1. m \in Messages
    BY DEF Messages
  <2>2. \/ UNCHANGED <<strings, sent>>
        \/ strings' = [strings EXCEPT ![i] = str] /\ sent' = SentTo(Players, m)
    OBVIOUS
  <2>3. sent' \in [Sockets -> Seq(Messages)]
    <3> HIDE DEF m
    <3> QED BY <1>type, <2>1, <2>2, SentToType DEF TypeOK
  <2>4. strings' \in [StringIds -> Strings \cup {NoString}]
    BY <1>type, <2>2 DEF TypeOK
  <2>5. TypeOK'
    BY <1>type, <1>work, <2>3, <2>4 DEF TypeOK
  <2> QED BY <1>same, <2>5
<1>5. ASSUME NEW s \in Sockets, NEW src \in Units, NEW dst \in Units,
             CombatEvent(s, src, dst)
      PROVE  IInv'
  <2> DEFINE e == [src |-> Translate(src, s), dst |-> Translate(dst, s)]
             m == [type |-> "combat_event", entry |-> e]
             r == [from |-> s, entry |-> e]
  <2>1. /\ Handle
        /\ UNCHANGED <<open, pid, next_id, names, strings, late, joined, asked>>
        /\ \/ UNCHANGED <<events, sent>>
           \/ events' = Append(events, r) /\ sent' = SentTo(Players \ {s}, m)
    BY <1>5 DEF CombatEvent
  <2>2. Translate(src, s) \in Nat /\ Translate(dst, s) \in Nat
    BY <1>type, UnitsAssumption DEF Translate, TypeOK
  <2>3. m \in Messages /\ r \in [from : Sockets, entry : Entries]
    BY <2>2 DEF Messages, Entries
  <2> HIDE DEF e, m, r
  <2>4. sent' \in [Sockets -> Seq(Messages)]
    BY <1>type, <2>1, <2>3, SentToType DEF TypeOK
  <2>5. events' \in Seq([from : Sockets, entry : Entries])
    <3> DEFINE R == [from : Sockets, entry : Entries]
    <3>1. events \in Seq(R) /\ r \in R
      BY <1>type, <2>3 DEF TypeOK
    <3> HIDE DEF R
    <3>2. Append(events, r) \in Seq(R)
      BY <3>1, AppendProperties
    <3>3. events' \in Seq(R)
      BY <2>1, <3>1, <3>2
    <3> QED BY <3>3 DEF R
  <2>6. TypeOK'
    BY <1>type, <1>work, <2>1, <2>4, <2>5 DEF TypeOK
  <2> QED BY <1>same, <2>1, <2>6
<1>6. ASSUME NEW s \in Sockets, Close(s)
      PROVE  IInv'
  <2> USE <1>6 DEF Close
  <2>1. pid[s] \in Ids /\ RemoveClient(s, pid[s])
    BY <1>type DEF TypeOK
  <2>2. TypeOK'
    BY <1>type, <1>work, <2>1, RemoveClientKeeps DEF TypeOK
  <2>3. OpenHasEntry'
    BY <1>entry, <2>1, RemoveClientKeeps DEF OpenHasEntry
  <2>4. NextIdCoversPlayers'
    BY <1>type, <2>1, RemoveClientKeeps
       DEF IInv, NextIdCoversPlayers, IsAnyPlayer, IsIdInUse, RemoveClient, TypeOK, Players
  <2> QED BY <2>1, <2>2, <2>3, <2>4, RemoveClientKeeps DEF IInv
<1>7. ASSUME NEW s \in Sockets, LateIo(s)
      PROVE  IInv'
  <2> USE <1>7 DEF LateIo
  <2>1. TypeOK'
    BY <1>type, <1>work, GetClientKeeps DEF TypeOK
  <2>2. OpenHasEntry'
    BY <1>entry, GetClientKeeps DEF OpenHasEntry
  <2> QED BY <2>1, <2>2, GetClientKeeps, NamesKept DEF IInv
<1>8. ASSUME NEW s \in Sockets, LateClose(s)
      PROVE  IInv'
  <2> DEFINE i == IF s \in Players THEN pid[s] ELSE NewId
  <2>1. /\ Handle
        /\ s \notin open
        /\ late' = late \ {s}
        /\ next_id' = IF i >= next_id THEN i + 1 ELSE next_id
        /\ RemoveClient(s, i)
        /\ UNCHANGED <<open, strings, events, joined, asked>>
    BY <1>8 DEF LateClose
  <2>2. pid \in [Sockets -> Ids] /\ pid \in [Sockets -> Nat]
    BY <1>type DEF TypeOK
  <2>3. NewId \in 1..Cardinality(Sockets) + 1
    BY <2>2, NewIdIsSmallest
  <2>4. i \in Ids /\ i \in 0..Cardinality(Sockets) + 1
    BY <2>2, <2>3 DEF Ids
  <2>5. i = pid[s] \/ s \notin Players
    OBVIOUS
  <2> HIDE DEF i
  <2>6. next_id' \in 1..Cardinality(Sockets) + 2 /\ next_id <= next_id'
    BY <1>type, <2>1, <2>4 DEF TypeOK
  <2>7. TypeOK'
    BY <1>type, <1>work, <2>1, <2>4, <2>5, <2>6, RemoveClientKeeps DEF TypeOK
  <2>8. OpenHasEntry'
    BY <1>entry, <2>1, <2>4, <2>5, RemoveClientKeeps DEF OpenHasEntry
  <2>9. ASSUME NEW j \in Ids, IsIdInUse(j)'
        PROVE  IsAnyPlayer(j)'
    <3>1. IsIdInUse(j)
      BY <2>1, <2>2, <2>4, <2>5, <2>9, RemoveClientKeeps
         DEF IsIdInUse, RemoveClient, Players
    <3>2. j < next_id /\ next_id \in Nat
      BY <1>type, <3>1 DEF IInv, NextIdCoversPlayers, IsAnyPlayer, TypeOK
    <3> QED BY <2>6, <2>9, <3>2 DEF IsAnyPlayer
  <2>10. NextIdCoversPlayers'
    BY <2>9 DEF NextIdCoversPlayers
  <2> QED BY <2>1, <2>4, <2>5, <2>7, <2>8, <2>10, RemoveClientKeeps DEF IInv
<1>9. CASE UNCHANGED vars
  <2>1. TypeOK'
    BY <1>type, <1>9 DEF TypeOK, vars
  <2> QED BY <1>9, <1>same, <2>1 DEF vars
<1> QED
  BY <1>1, <1>2, <1>3, <1>4, <1>5, <1>6, <1>7, <1>8, <1>9 DEF Next, Packet

-----------------------------------------------------------------------------
\* The inductive invariant holds in every run, for every finite set of sockets.
THEOREM Invariance == Spec => []IInv
  BY InitEstablishes, StepKeeps, PTL DEF Spec

\* The variables keep their types; in particular no id exceeds the number of
\* sockets by more than one, however often sockets come and go.
THEOREM TypeCorrect == Spec => []TypeOK
<1>1. IInv => TypeOK
  BY DEF IInv
<1> QED BY <1>1, Invariance, PTL

\* get_next_id never hands out an id that another entry of _players has, with
\* late messages of closed sockets and used-again handles included.
THEOREM IdsAreUnique == Spec => []UniqueIds
<1>1. IInv => UniqueIds
  BY DEF IInv
<1> QED BY <1>1, Invariance, PTL

\* is_any_player recognises every connected player: skip_packet never lets an
\* event of another player through because of the _next_id shortcut.
THEOREM PlayersAreRecognised == Spec => []NextIdCoversPlayers
<1>1. IInv => NextIdCoversPlayers
  BY DEF IInv
<1> QED BY <1>1, Invariance, PTL

\* The name database names only ids that are in use (remove_client_by_socket takes
\* the name of a player who left).
THEOREM NamesAreOwned == Spec => []NamesHaveOwners
<1>1. IInv => NamesHaveOwners
  BY DEF IInv
<1> QED BY <1>1, Invariance, PTL

\* It has no name twice (set_player_name moves a name to its new owner).
THEOREM NamesAreDistinct == Spec => []NamesDiffer
<1>1. IInv => NamesDiffer
  BY DEF IInv
<1> QED BY <1>1, Invariance, PTL

\* _next_id only grows when no smaller id is free.
THEOREM NextIdIsThrifty == Spec => NextIdGrowsWhenFull
<1> DEFINE A == next_id' > next_id => \A i \in 1..next_id - 1 : IsIdInUse(i)
<1>1. IInv /\ [Next]_vars => [A]_vars
  <2> SUFFICES ASSUME IInv, [Next]_vars, next_id' > next_id,
                      NEW i \in 1..next_id - 1
               PROVE  IsIdInUse(i)
    OBVIOUS
  <2>1. /\ pid \in [Sockets -> Nat]
        /\ next_id \in 1..Cardinality(Sockets) + 2
        /\ Cardinality(Sockets) \in Nat
    BY IdsAreNumbers DEF IInv, TypeOK
  <2>2. \A s \in Players : pid[s] < next_id
    BY <2>1 DEF IInv, NextIdCoversPlayers, IsAnyPlayer, IsIdInUse, Players, TypeOK
  <2>3. PICK s \in Sockets : GetClient(s) \/ LateClose(s)
    <3>1. next_id' # next_id
      BY <2>1
    <3>2. PICK s \in Sockets :
            Accept(s) \/ Packet(s) \/ Close(s) \/ LateIo(s) \/ LateClose(s)
      BY <3>1 DEF Next, vars
    <3>3. ~ Packet(s)
      <4>1. \A name \in Names : ~ ClientName(s, name)
        BY <3>1 DEF ClientName
      <4>2. \A id \in StringIds : ~ StringQuery(s, id)
        BY <3>1 DEF StringQuery
      <4>3. \A id \in StringIds, str \in Strings : ~ StringResult(s, id, str)
        BY <3>1 DEF StringResult
      <4>4. \A src, dst \in Units : ~ CombatEvent(s, src, dst)
        BY <3>1 DEF CombatEvent
      <4> QED BY <4>1, <4>2, <4>3, <4>4 DEF Packet
    <3>4. ~ Close(s)
      BY <3>1 DEF Close
    <3>5. Accept(s) \/ LateIo(s) => GetClient(s)
      BY DEF Accept, LateIo
    <3> QED BY <3>2, <3>3, <3>4, <3>5
  <2>4. NewId >= next_id
    <3>1. NewId \in Nat
      BY <2>1, NewIdIsSmallest
    <3>2. CASE GetClient(s)
      BY <2>1, <3>1, <3>2 DEF GetClient
    <3>3. CASE LateClose(s)
      BY <2>1, <2>2, <3>1, <3>3 DEF LateClose
    <3> QED BY <2>3, <3>2, <3>3
  <2>5. i \in 1..Cardinality(Sockets) + 1 /\ i < NewId
    BY <2>1, <2>4, NewIdIsSmallest
  <2> QED BY <2>1, <2>5, NewIdIsSmallest
<1>2. [][A]_vars <=> NextIdGrowsWhenFull
  BY DEF NextIdGrowsWhenFull
<1> QED BY <1>1, <1>2, Invariance, PTL DEF Spec
-----------------------------------------------------------------------------
(* What is sent *)

\* The two properties of string_result, which are inductive together with IInv.
Results == ResultsAgree /\ AskersAnswered

\* A step in which no result is sent: of every socket that is connected behind it, the
\* connection is new, or nothing was sent, or something else than a result.
Quiet ==
    /\ strings' = strings
    /\ \A s \in open' :
          \/ sent'[s] = << >> /\ asked'[s] = {}
          \/ /\ s \in open /\ asked'[s] = asked[s]
             /\ \/ sent'[s] = sent[s]
                \/ \E m \in Messages :
                      m.type # "string_result" /\ sent'[s] = Append(sent[s], m)

-----------------------------------------------------------------------------
\* What Append does, element by element.
LEMMA AppendFacts ==
    ASSUME NEW c \in Seq(Messages), NEW m \in Messages
    PROVE  /\ \A k \in DOMAIN c : Append(c, m)[k] = c[k]
           /\ \A k \in DOMAIN Append(c, m) : Append(c, m)[k] = m \/ k \in DOMAIN c
           /\ Contains(Append(c, m), m)
           /\ \A x : Contains(c, x) => Contains(Append(c, m), x)
<1>1. Len(c) \in Nat /\ DOMAIN c = 1..Len(c)
  BY LenProperties
<1>2. /\ Append(c, m) \in Seq(Messages) /\ Len(Append(c, m)) = Len(c) + 1
      /\ Append(c, m)[Len(c) + 1] = m
      /\ \A k \in 1..Len(c) : Append(c, m)[k] = c[k]
  BY AppendProperties
<1>3. DOMAIN Append(c, m) = 1..Len(c) + 1
  BY <1>2, LenProperties
<1>4. Len(c) + 1 \in 1..Len(c) + 1 /\ 1..Len(c) \subseteq 1..Len(c) + 1
  BY <1>1
<1>5. Contains(Append(c, m), m)
  BY <1>2, <1>4 DEF Contains
<1>6. \A x : Contains(c, x) => Contains(Append(c, m), x)
  BY <1>2, <1>4 DEF Contains
<1> QED BY <1>1, <1>2, <1>3, <1>5, <1>6

\* What send does to one socket.
LEMMA SentToFacts ==
    ASSUME sent \in [Sockets -> Seq(Messages)], NEW S, NEW m, NEW s \in Sockets
    PROVE  SentTo(S, m)[s] = IF s \in S \cap open THEN Append(sent[s], m) ELSE sent[s]
BY DEF SentTo

LEMMA QuietKeeps ==
    ASSUME TypeOK, Results, Quiet
    PROVE  Results'
<1>1. SUFFICES ASSUME NEW s \in open'
      PROVE  /\ \A k \in DOMAIN sent'[s] : sent'[s][k].type = "string_result" =>
                   sent'[s][k].str = strings'[sent'[s][k].id]
             /\ \A i \in asked'[s] : strings'[i] # NoString =>
                   Contains(sent'[s], [type |-> "string_result", id |-> i, str |-> strings'[i]])
  BY DEF Results, ResultsAgree, AskersAnswered
<1>2. CASE sent'[s] = << >> /\ asked'[s] = {}
  BY <1>2
<1>3. CASE s \in open /\ asked'[s] = asked[s] /\ sent'[s] = sent[s]
  BY <1>3 DEF Quiet, Results, ResultsAgree, AskersAnswered
<1>4. ASSUME s \in open, asked'[s] = asked[s], NEW m \in Messages,
             m.type # "string_result", sent'[s] = Append(sent[s], m)
      PROVE  /\ \A k \in DOMAIN sent'[s] : sent'[s][k].type = "string_result" =>
                   sent'[s][k].str = strings'[sent'[s][k].id]
             /\ \A i \in asked'[s] : strings'[i] # NoString =>
                   Contains(sent'[s], [type |-> "string_result", id |-> i, str |-> strings'[i]])
  <2>1. sent[s] \in Seq(Messages)
    BY <1>4 DEF TypeOK
  <2>2. strings' = strings
    BY DEF Quiet
  <2>3. /\ \A k \in DOMAIN sent[s] : sent'[s][k] = sent[s][k]
        /\ \A k \in DOMAIN sent'[s] : sent'[s][k] = m \/ k \in DOMAIN sent[s]
        /\ \A x : Contains(sent[s], x) => Contains(sent'[s], x)
    <3>1. /\ \A k \in DOMAIN sent[s] : Append(sent[s], m)[k] = sent[s][k]
          /\ \A k \in DOMAIN Append(sent[s], m) :
                Append(sent[s], m)[k] = m \/ k \in DOMAIN sent[s]
          /\ \A x : Contains(sent[s], x) => Contains(Append(sent[s], m), x)
      BY <2>1, AppendFacts
    <3> QED BY <1>4, <3>1
  <2> QED BY <1>4, <2>2, <2>3 DEF Results, ResultsAgree, AskersAnswered
<1> QED BY <1>2, <1>3, <1>4 DEF Quiet

\* remove_client_by_socket sends no result.
LEMMA RemoveClientQuiet ==
    ASSUME TypeOK, NEW s \in Sockets, NEW i \in Ids, RemoveClient(s, i),
           NEW t \in Sockets, t # s
    PROVE  \/ sent'[t] = sent[t]
           \/ \E m \in Messages :
                 m.type # "string_result" /\ sent'[t] = Append(sent[t], m)
<1> DEFINE m == [type |-> "client_remove", id |-> i]
           S == {u \in Players : pid[u] # i}
<1>1. m \in Messages /\ m.type # "string_result"
  BY DEF Messages
<1>2. sent' = [SentTo(S, m) EXCEPT ![s] = << >>]
  BY DEF RemoveClient
<1> HIDE DEF m, S
<1>3. sent'[t] = SentTo(S, m)[t]
  BY <1>2 DEF SentTo
<1>4. sent \in [Sockets -> Seq(Messages)]
  BY DEF TypeOK
<1>5. SentTo(S, m)[t] = IF t \in S \cap open THEN Append(sent[t], m) ELSE sent[t]
  BY <1>4, SentToFacts
<1> QED BY <1>1, <1>3, <1>5
\* The result of string i as it was sent to t.
Result(i) == [type |-> "string_result", id |-> i, str |-> strings[i]]

\* A client that asks for a known string gets it, and only that one is sent.
LEMMA StringQueryKeeps ==
    ASSUME IInv, Results, NEW s \in Sockets, NEW i \in StringIds, StringQuery(s, i)
    PROVE  Results'
<1>type. /\ sent \in [Sockets -> Seq(Messages)] /\ open \subseteq Sockets
         /\ strings \in [StringIds -> Strings \cup {NoString}]
         /\ asked \in [Sockets -> SUBSET StringIds]
  BY DEF IInv, TypeOK
<1>1. /\ open' = open /\ strings' = strings /\ s \in open
      /\ asked' = [asked EXCEPT ![s] = @ \cup {i}]
  BY DEF StringQuery
<1>2. CASE strings[i] = NoString
  <2> DEFINE m == [type |-> "string_query", id |-> i]
             S == Players \ {s}
  <2>1. m \in Messages /\ m.type # "string_result"
    BY DEF Messages
  <2>2. sent' = SentTo(S, m)
    BY <1>2 DEF StringQuery
  <2> HIDE DEF m, S
  <2>3. ASSUME NEW t \in open
        PROVE  sent'[t] = sent[t] \/ sent'[t] = Append(sent[t], m)
    <3>1. SentTo(S, m)[t] = IF t \in S \cap open THEN Append(sent[t], m) ELSE sent[t]
      BY <1>type, SentToFacts
    <3> QED BY <2>2, <3>1
  <2>4. ResultsAgree'
    <3> SUFFICES ASSUME NEW t \in open, NEW k \in DOMAIN sent'[t],
                        sent'[t][k].type = "string_result"
                 PROVE  sent'[t][k].str = strings[sent'[t][k].id]
      BY <1>1 DEF ResultsAgree
    <3>1. sent[t] \in Seq(Messages)
      BY <1>type
    <3>2. k \in DOMAIN sent[t] /\ sent'[t][k] = sent[t][k]
      <4>1. /\ \A j \in DOMAIN sent[t] : Append(sent[t], m)[j] = sent[t][j]
            /\ \A j \in DOMAIN Append(sent[t], m) :
                  Append(sent[t], m)[j] = m \/ j \in DOMAIN sent[t]
        BY <2>1, <3>1, AppendFacts
      <4> QED BY <2>1, <2>3, <4>1
    <3> QED BY <3>2 DEF Results, ResultsAgree
  <2>5. AskersAnswered'
    <3> SUFFICES ASSUME NEW t \in open, NEW j \in asked'[t], strings[j] # NoString
                 PROVE  Contains(sent'[t], Result(j))
      BY <1>1 DEF AskersAnswered, Result
    <3>1. sent[t] \in Seq(Messages)
      BY <1>type
    <3>2. j \in asked[t]
      BY <1>1, <1>2, <1>type
    <3>3. Contains(sent[t], Result(j))
      BY <3>2 DEF Results, AskersAnswered, Result
    <3>4. Contains(Append(sent[t], m), Result(j))
      BY <2>1, <3>1, <3>3, AppendFacts
    <3> QED BY <2>3, <3>3, <3>4
  <2> QED BY <2>4, <2>5 DEF Results
<1>3. CASE strings[i] # NoString
  <2> DEFINE m == Result(i)
  <2>1. m \in Messages /\ m.str = strings[i] /\ m.id = i
    BY <1>3, <1>type DEF Messages, Result
  <2>2. sent' = SentTo({s}, m)
    BY <1>3 DEF StringQuery, Result
  <2> HIDE DEF m
  <2>3. ASSUME NEW t \in open
        PROVE  sent'[t] = IF t = s THEN Append(sent[t], m) ELSE sent[t]
    BY <1>type, <2>2, SentToFacts
  <2>4. ResultsAgree'
    <3> SUFFICES ASSUME NEW t \in open, NEW k \in DOMAIN sent'[t],
                        sent'[t][k].type = "string_result"
                 PROVE  sent'[t][k].str = strings[sent'[t][k].id]
      BY <1>1 DEF ResultsAgree
    <3>1. sent[t] \in Seq(Messages)
      BY <1>type
    <3>2. (k \in DOMAIN sent[t] /\ sent'[t][k] = sent[t][k]) \/ sent'[t][k] = m
      <4>1. /\ \A j \in DOMAIN sent[t] : Append(sent[t], m)[j] = sent[t][j]
            /\ \A j \in DOMAIN Append(sent[t], m) :
                  Append(sent[t], m)[j] = m \/ j \in DOMAIN sent[t]
        BY <2>1, <3>1, AppendFacts
      <4> QED BY <2>3, <4>1
    <3> QED BY <2>1, <3>2 DEF Results, ResultsAgree
  <2>5. AskersAnswered'
    <3> SUFFICES ASSUME NEW t \in open, NEW j \in asked'[t], strings[j] # NoString
                 PROVE  Contains(sent'[t], Result(j))
      BY <1>1 DEF AskersAnswered, Result
    <3>1. sent[t] \in Seq(Messages)
      BY <1>type
    <3>2. CASE j \in asked[t]
      <4>1. Contains(sent[t], Result(j))
        BY <3>2 DEF Results, AskersAnswered, Result
      <4>2. Contains(Append(sent[t], m), Result(j))
        BY <2>1, <3>1, <4>1, AppendFacts
      <4> QED BY <2>3, <4>1, <4>2
    <3>3. CASE j \notin asked[t]
      <4>1. t = s /\ j = i
        BY <1>1, <1>type, <3>3
      <4>2. Contains(Append(sent[t], m), m)
        BY <2>1, <3>1, AppendFacts
      <4> QED BY <2>3, <4>1, <4>2 DEF m
    <3> QED BY <3>2, <3>3
  <2> QED BY <2>4, <2>5 DEF Results
<1> QED BY <1>2, <1>3
\* The first answer is stored and sent to everybody; before it no result of the
\* string was sent, since only strings that are known are.
LEMMA StringResultKeeps ==
    ASSUME IInv, Results, NEW s \in Sockets, NEW i \in StringIds, NEW str \in Strings,
           StringResult(s, i, str)
    PROVE  Results'
<1>type. /\ sent \in [Sockets -> Seq(Messages)] /\ open \subseteq Sockets
         /\ strings \in [StringIds -> Strings \cup {NoString}]
         /\ asked \in [Sockets -> SUBSET StringIds]
         /\ open \subseteq Players
  BY DEF IInv, TypeOK, OpenHasEntry
<1>1. open' = open /\ asked' = asked
  BY DEF StringResult
<1>2. CASE strings[i] # NoString
  BY <1>1, <1>2 DEF StringResult, Results, ResultsAgree, AskersAnswered
<1>3. CASE strings[i] = NoString
  <2> DEFINE m == [type |-> "string_result", id |-> i, str |-> str]
  <2>1. m \in Messages /\ m.str = str /\ m.id = i
    BY DEF Messages
  <2>2. strings' = [strings EXCEPT ![i] = str] /\ sent' = SentTo(Players, m)
    BY <1>3 DEF StringResult
  <2>3. strings'[i] = str /\ \A j \in StringIds \ {i} : strings'[j] = strings[j]
    BY <1>type, <2>2
  <2> HIDE DEF m
  <2>4. ASSUME NEW t \in open
        PROVE  sent'[t] = Append(sent[t], m)
    BY <1>type, <2>2, SentToFacts
  <2>5. ResultsAgree'
    <3> SUFFICES ASSUME NEW t \in open, NEW k \in DOMAIN sent'[t],
                        sent'[t][k].type = "string_result"
                 PROVE  sent'[t][k].str = strings'[sent'[t][k].id]
      BY <1>1 DEF ResultsAgree
    <3>1. sent[t] \in Seq(Messages)
      BY <1>type
    <3>2. (k \in DOMAIN sent[t] /\ sent'[t][k] = sent[t][k]) \/ sent'[t][k] = m
      <4>1. /\ \A j \in DOMAIN sent[t] : Append(sent[t], m)[j] = sent[t][j]
            /\ \A j \in DOMAIN Append(sent[t], m) :
                  Append(sent[t], m)[j] = m \/ j \in DOMAIN sent[t]
        BY <2>1, <3>1, AppendFacts
      <4> QED BY <2>4, <4>1
    <3>3. CASE k \in DOMAIN sent[t] /\ sent'[t][k] = sent[t][k]
      <4>1. sent[t][k] \in Messages /\ sent[t][k].type = "string_result"
        BY <3>1, <3>3
      <4>2. sent[t][k].id \in StringIds /\ sent[t][k].str \in Strings
        BY <4>1 DEF Messages
      <4>3. sent[t][k].str = strings[sent[t][k].id]
        BY <3>3, <4>1 DEF Results, ResultsAgree
      <4>4. sent[t][k].id # i
        BY <1>3, <4>2, <4>3, NoStringAssumption
      <4> QED BY <2>3, <3>3, <4>2, <4>3, <4>4
    <3> QED BY <2>1, <2>3, <3>2, <3>3
  <2>6. AskersAnswered'
    <3> SUFFICES ASSUME NEW t \in open, NEW j \in asked[t], strings'[j] # NoString
                 PROVE  Contains(sent'[t], Result(j)')
      BY <1>1 DEF AskersAnswered, Result
    <3>1. sent[t] \in Seq(Messages) /\ j \in StringIds
      BY <1>type
    <3>2. CASE j = i
      <4>1. Contains(Append(sent[t], m), m)
        BY <2>1, <3>1, AppendFacts
      <4>2. Result(j)' = m
        BY <2>3, <3>2 DEF Result, m
      <4> QED BY <2>4, <4>1, <4>2
    <3>3. CASE j # i
      <4>1. Result(j)' = Result(j) /\ strings[j] # NoString
        BY <2>3, <3>1, <3>3 DEF Result
      <4>2. Contains(sent[t], Result(j))
        BY <4>1 DEF Results, AskersAnswered, Result
      <4>3. Contains(Append(sent[t], m), Result(j))
        BY <2>1, <3>1, <4>2, AppendFacts
      <4> QED BY <2>4, <4>1, <4>3
    <3> QED BY <3>2, <3>3
  <2> QED BY <2>5, <2>6 DEF Results
<1> QED BY <1>2, <1>3
-----------------------------------------------------------------------------
\* Steps that send no result.
LEMMA GetClientIsQuiet ==
    ASSUME UNCHANGED <<open, strings, sent, asked>>
    PROVE  Quiet
BY DEF Quiet

LEMMA QuietSteps ==
    ASSUME IInv, NEW s \in Sockets,
           \/ Accept(s) \/ Close(s) \/ LateIo(s) \/ LateClose(s)
           \/ \E name \in Names : ClientName(s, name)
           \/ \E src, dst \in Units : CombatEvent(s, src, dst)
    PROVE  Quiet
<1> USE IdsAreNumbers
<1>type. /\ TypeOK
         /\ sent \in [Sockets -> Seq(Messages)] /\ open \subseteq Sockets
         /\ asked \in [Sockets -> SUBSET StringIds]
         /\ pid \in [Sockets -> Ids] /\ pid \in [Sockets -> Nat]
  BY DEF IInv, TypeOK
<1>1. CASE Accept(s)
  <2>1. /\ strings' = strings /\ open' = open \cup {s}
        /\ sent' = [sent EXCEPT ![s] = << >>] /\ asked' = [asked EXCEPT ![s] = {}]
    BY <1>1 DEF Accept
  <2>2. ASSUME NEW t \in open'
        PROVE  \/ sent'[t] = << >> /\ asked'[t] = {}
               \/ t \in open /\ sent'[t] = sent[t] /\ asked'[t] = asked[t]
    BY <1>type, <2>1
  <2> QED BY <2>1, <2>2 DEF Quiet
<1>2. CASE Close(s)
  <2>1. /\ strings' = strings /\ open' = open \ {s} /\ RemoveClient(s, pid[s])
        /\ asked' = [asked EXCEPT ![s] = {}] /\ pid[s] \in Ids
    BY <1>2, <1>type DEF Close
  <2>2. ASSUME NEW t \in open'
        PROVE  /\ t \in open /\ asked'[t] = asked[t]
               /\ \/ sent'[t] = sent[t]
                  \/ \E m \in Messages :
                        m.type # "string_result" /\ sent'[t] = Append(sent[t], m)
    BY <1>type, <2>1, RemoveClientQuiet
  <2> QED BY <2>1, <2>2 DEF Quiet
<1>3. CASE LateIo(s)
  BY <1>3, GetClientIsQuiet DEF LateIo
<1>4. CASE LateClose(s)
  <2> DEFINE i == IF s \in Players THEN pid[s] ELSE NewId
  <2>1. /\ strings' = strings /\ open' = open /\ s \notin open /\ asked' = asked
        /\ RemoveClient(s, i)
    BY <1>4 DEF LateClose
  <2>2. i \in Ids
    <3>1. NewId \in 1..Cardinality(Sockets) + 1
      BY <1>type, NewIdIsSmallest
    <3> QED BY <1>type, <3>1 DEF Ids
  <2> HIDE DEF i
  <2>3. ASSUME NEW t \in open'
        PROVE  /\ t \in open /\ asked'[t] = asked[t]
               /\ \/ sent'[t] = sent[t]
                  \/ \E m \in Messages :
                        m.type # "string_result" /\ sent'[t] = Append(sent[t], m)
    BY <1>type, <2>1, <2>2, RemoveClientQuiet
  <2> QED BY <2>1, <2>3 DEF Quiet
<1>5. ASSUME NEW name \in Names, ClientName(s, name)
      PROVE  Quiet
  <2> DEFINE m == [type |-> "client_set", id |-> pid[s], name |-> name]
             S == {t \in Players : pid[t] # pid[s]}
  <2>1. UNCHANGED <<open, strings, asked>> /\ sent' = SentTo(S, m)
    BY <1>5 DEF ClientName
  <2>2. m \in Messages /\ m.type # "string_result"
    BY <1>type DEF Messages
  <2> HIDE DEF m, S
  <2>3. ASSUME NEW t \in open
        PROVE  sent'[t] = sent[t] \/ sent'[t] = Append(sent[t], m)
    <3>1. SentTo(S, m)[t] = IF t \in S \cap open THEN Append(sent[t], m) ELSE sent[t]
      BY <1>type, SentToFacts
    <3> QED BY <2>1, <3>1
  <2> QED BY <2>1, <2>2, <2>3 DEF Quiet
<1>6. ASSUME NEW src \in Units, NEW dst \in Units, CombatEvent(s, src, dst)
      PROVE  Quiet
  <2> DEFINE e == [src |-> Translate(src, s), dst |-> Translate(dst, s)]
             m == [type |-> "combat_event", entry |-> e]
             S == Players \ {s}
  <2>1. UNCHANGED <<open, strings, asked>> /\ (sent' = sent \/ sent' = SentTo(S, m))
    BY <1>6 DEF CombatEvent
  <2>2. m \in Messages /\ m.type # "string_result"
    <3>1. Translate(src, s) \in Nat /\ Translate(dst, s) \in Nat
      BY <1>type, UnitsAssumption DEF Translate
    <3> QED BY <3>1 DEF Messages, Entries
  <2> HIDE DEF e, m, S
  <2>3. ASSUME NEW t \in open
        PROVE  sent'[t] = sent[t] \/ sent'[t] = Append(sent[t], m)
    <3>1. SentTo(S, m)[t] = IF t \in S \cap open THEN Append(sent[t], m) ELSE sent[t]
      BY <1>type, SentToFacts
    <3> QED BY <2>1, <3>1
  <2> QED BY <2>1, <2>2, <2>3 DEF Quiet
<1> QED BY <1>1, <1>2, <1>3, <1>4, <1>5, <1>6

-----------------------------------------------------------------------------
LEMMA ResultsKept == IInv /\ Results /\ [Next]_vars => Results'
<1> SUFFICES ASSUME IInv, Results, [Next]_vars PROVE Results'
  OBVIOUS
<1>type. TypeOK
  BY DEF IInv
<1>1. CASE UNCHANGED vars
  BY <1>1, <1>type, GetClientIsQuiet, QuietKeeps DEF vars
<1>2. ASSUME NEW s \in Sockets, NEW i \in StringIds,
             StringQuery(s, i) \/ \E str \in Strings : StringResult(s, i, str)
      PROVE  Results'
  BY <1>2, StringQueryKeeps, StringResultKeeps
<1>3. ASSUME NEW s \in Sockets,
             \/ Accept(s) \/ Close(s) \/ LateIo(s) \/ LateClose(s)
             \/ \E name \in Names : ClientName(s, name)
             \/ \E src, dst \in Units : CombatEvent(s, src, dst)
      PROVE  Results'
  BY <1>3, <1>type, QuietSteps, QuietKeeps
<1> QED BY <1>1, <1>2, <1>3 DEF Next, Packet

LEMMA ResultsInvariance == Spec => []Results
<1>1. Init => Results
  BY DEF Init, Results, ResultsAgree, AskersAnswered
<1> QED BY <1>1, ResultsKept, Invariance, PTL DEF Spec

\* No two clients are ever told different translations of a string, however many of
\* them answer a query (result_string keeps the first answer).
THEOREM TranslationsAgree == Spec => []ResultsAgree
<1>1. Results => ResultsAgree
  BY DEF Results
<1> QED BY <1>1, ResultsInvariance, PTL

\* Whoever has asked for a string is sent it as soon as the server knows it, though
\* query_string does not remember who asked.
THEOREM QueriesAreAnswered == Spec => []AskersAnswered
<1>1. Results => AskersAnswered
  BY DEF Results
<1> QED BY <1>1, ResultsInvariance, PTL

-----------------------------------------------------------------------------
\* skip_packet and the shortcut of is_any_player: an event is only counted from its
\* source or for somebody who is not connected.
THEOREM CountedOnce == Spec => NoDoubleCount
<1> DEFINE A == \A k \in DOMAIN events' \ DOMAIN events :
                   LET e == events'[k]
                   IN  e.entry.src = pid[e.from] \/ ~ IsIdInUse(e.entry.src)
<1>1. IInv /\ [Next]_vars => [A]_vars
  <2> SUFFICES ASSUME IInv, [Next]_vars, NEW k \in DOMAIN events' \ DOMAIN events
               PROVE  \/ events'[k].entry.src = pid[events'[k].from]
                      \/ ~ IsIdInUse(events'[k].entry.src)
    OBVIOUS
  <2>1. PICK s \in Sockets, src \in Units, dst \in Units : CombatEvent(s, src, dst)
    <3>1. events' # events
      OBVIOUS
    <3>2. PICK s \in Sockets :
            Accept(s) \/ Packet(s) \/ Close(s) \/ LateIo(s) \/ LateClose(s)
      BY <3>1 DEF Next, vars
    <3>3. ~ Accept(s) /\ ~ Close(s) /\ ~ LateIo(s) /\ ~ LateClose(s)
      BY <3>1 DEF Accept, Close, LateIo, LateClose
    <3>4. /\ \A name \in Names : ~ ClientName(s, name)
          /\ \A id \in StringIds : ~ StringQuery(s, id)
          /\ \A id \in StringIds, str \in Strings : ~ StringResult(s, id, str)
      BY <3>1 DEF ClientName, StringQuery, StringResult
    <3> QED BY <3>2, <3>3, <3>4 DEF Packet
  <2> DEFINE e == [src |-> Translate(src, s), dst |-> Translate(dst, s)]
             r == [from |-> s, entry |-> e]
             R == [from : Sockets, entry : Entries]
  <2>2. ~ SkipPacket(src) /\ events' = Append(events, r)
    BY <2>1 DEF CombatEvent
  <2>3. events'[k] = r
    <3>1. events \in Seq(R)
      BY DEF IInv, TypeOK
    <3>2. r \in R
      <4>1. Translate(src, s) \in Nat /\ Translate(dst, s) \in Nat
        BY UnitsAssumption, IdsAreNumbers DEF Translate, IInv, TypeOK
      <4> QED BY <4>1 DEF Entries
    <3> HIDE DEF r, R
    <3>3. /\ Len(events) \in Nat /\ DOMAIN events = 1..Len(events)
          /\ events' \in Seq(R) /\ Len(events') = Len(events) + 1
          /\ events'[Len(events) + 1] = r
      BY <2>2, <3>1, <3>2, LenProperties, AppendProperties
    <3>4. DOMAIN events' = 1..Len(events) + 1
      BY <3>3, LenProperties
    <3>5. k = Len(events) + 1
      BY <3>3, <3>4
    <3> QED BY <3>3, <3>5
  <2>4. Translate(src, s) = pid[s] \/ ~ IsIdInUse(Translate(src, s))
    <3>1. CASE src = 0
      BY <3>1 DEF Translate
    <3>2. CASE src # 0
      <4>1. ~ IsAnyPlayer(src)
        BY <2>2, <3>2 DEF SkipPacket
      <4>2. IsIdInUse(src) => src \in Ids
        BY DEF IsIdInUse, IInv, TypeOK, Players
      <4>3. ~ IsIdInUse(src)
        BY <4>1, <4>2 DEF IInv, NextIdCoversPlayers
      <4> QED BY <3>2, <4>3 DEF Translate
    <3> QED BY <3>1, <3>2
  <2> QED BY <2>3, <2>4
<1>2. [][A]_vars <=> NoDoubleCount
  BY DEF NoDoubleCount
<1> QED BY <1>1, <1>2, Invariance, PTL DEF Spec

-----------------------------------------------------------------------------
\* The roster of a client is right, and it says nothing about the client itself: its own
\* id is the one entry that nobody corrects when it gets a name.
Roster ==
    /\ RosterFollows
    /\ \A s \in open : Shown(s, pid[s]) = NoName

\* What one more message makes of the name a client shows for i.
LEMMA ShownAfter ==
    ASSUME NEW s, sent[s] \in Seq(Messages), NEW m \in Messages,
           sent'[s] = Append(sent[s], m), NEW i
    PROVE  /\ m.type \notin {"client_set", "client_remove"} \/ m.id # i =>
                 Shown(s, i)' = Shown(s, i)
           /\ m.type = "client_remove" /\ m.id = i => Shown(s, i)' = NoName
           /\ m.type = "client_set" /\ m.id = i => Shown(s, i)' = m.name
<1> DEFINE n == Len(sent[s])
           P(x) == x.type \in {"client_set", "client_remove"} /\ x.id = i
<1>1. n \in Nat /\ DOMAIN sent[s] = 1..n
  BY LenProperties
<1>2. /\ DOMAIN sent'[s] = 1..n + 1 /\ sent'[s][n + 1] = m
      /\ \A k \in 1..n : sent'[s][k] = sent[s][k]
  <2>1. /\ Append(sent[s], m) \in Seq(Messages) /\ Len(Append(sent[s], m)) = n + 1
        /\ Append(sent[s], m)[n + 1] = m
        /\ \A k \in 1..n : Append(sent[s], m)[k] = sent[s][k]
    BY AppendProperties
  <2> QED BY <2>1, LenProperties
<1> DEFINE A == About(s, i)
<1> HIDE DEF n
<1>3. A = {k \in 1..n : P(sent[s][k])}
  BY <1>1 DEF About
<1>4. A' = {k \in 1..n + 1 : P(sent'[s][k])}
  BY <1>2 DEF About
<1>5. CASE ~ P(m)
  <2>1. A' = A
    <3> HIDE DEF P, A
    <3> QED BY <1>1, <1>2, <1>3, <1>4, <1>5
  <2>2. A # {} => Max(A) \in 1..n
    <3>1. A \in SUBSET (1..n)
      BY <1>3
    <3> HIDE DEF A
    <3> QED BY <1>1, <3>1, MaxInside
  <2>3. A # {} => sent'[s][Max(A)] = sent[s][Max(A)]
    BY <1>2, <2>2
  <2>4. Shown(s, i)' = Shown(s, i)
    BY <2>1, <2>3 DEF Shown
  <2> QED BY <2>4, <1>5
<1>6. CASE P(m)
  <2>1. n + 1 \in A' /\ A' \in SUBSET (1..n + 1) /\ n + 1 \in Nat
    BY <1>1, <1>2, <1>4, <1>6
  <2>2. Max(A') = n + 1
    <3>1. \A y \in A' : n + 1 >= y /\ y \in Nat
      BY <1>1, <2>1
    <3>2. \A x \in A' : (\A y \in A' : x >= y) => x = n + 1
      BY <2>1, <3>1
    <3> HIDE DEF A
    <3> QED BY <2>1, <3>1, <3>2 DEF Max
  <2>3. Shown(s, i)' = IF m.type = "client_remove" THEN NoName ELSE m.name
    BY <2>1, <2>2, <1>2 DEF Shown
  <2>4. m.type = "client_set" => m.type # "client_remove"
    OBVIOUS
  <2> QED BY <1>6, <2>3, <2>4
<1> QED BY <1>5, <1>6

\* Nothing sent, nothing changed.
LEMMA ShownSame ==
    ASSUME NEW s, sent'[s] = sent[s], NEW i
    PROVE  Shown(s, i)' = Shown(s, i)
BY DEF Shown, About

\* A new connection has been told nothing.
LEMMA ShownNew ==
    ASSUME NEW s, sent'[s] = << >>, NEW i
    PROVE  Shown(s, i)' = NoName
<1>1. DOMAIN << >> = {}
  OBVIOUS
<1> QED BY <1>1 DEF Shown, About

\* A step that leaves ids and names alone and tells nobody a name.
LEMMA RosterUntouched ==
    ASSUME IInv, Roster, UNCHANGED <<open, pid, names>>,
           \A t \in open : \/ sent'[t] = sent[t]
                           \/ \E m \in Messages :
                                 /\ m.type \notin {"client_set", "client_remove"}
                                 /\ sent'[t] = Append(sent[t], m)
    PROVE  Roster'
<1>1. ASSUME NEW t \in open, NEW i
      PROVE  Shown(t, i)' = Shown(t, i)
  <2>1. CASE sent'[t] = sent[t]
    BY <2>1, ShownSame
  <2>2. ASSUME NEW m \in Messages, m.type \notin {"client_set", "client_remove"},
               sent'[t] = Append(sent[t], m)
        PROVE  Shown(t, i)' = Shown(t, i)
    <3>1. sent[t] \in Seq(Messages)
      BY DEF IInv, TypeOK
    <3> QED BY <2>2, <3>1, ShownAfter
  <2> QED BY <2>1, <2>2
<1>2. \A i : IsIdInUse(i)' = IsIdInUse(i) /\ IsPlayerNameSet(names, i)' = IsPlayerNameSet(names, i)
  BY DEF IsIdInUse, Players, IsPlayerNameSet
<1> QED BY <1>1, <1>2 DEF Roster, RosterFollows

\* A connection gets an entry: its id is one nobody shows a name for.
LEMMA RosterGetClient ==
    ASSUME IInv, Roster, NEW s \in Sockets, GetClient(s), names' = names,
           \A t \in open' : \/ t \in open /\ sent'[t] = sent[t]
                            \/ t = s /\ sent'[t] = << >>
    PROVE  Roster'
<1>1. ASSUME NEW t \in open', NEW i
      PROVE  /\ Shown(t, i)' # NoName => t \in open /\ Shown(t, i)' = Shown(t, i)
             /\ t \in open => Shown(t, i)' = Shown(t, i) \/ Shown(t, i)' = NoName
  BY ShownSame, ShownNew
<1>2. \A i : IsIdInUse(i) => IsIdInUse(i)'
  BY GetClientKeeps
<1>3. RosterFollows'
  <2>1. SUFFICES ASSUME NEW t \in open', NEW i \in Ids, Shown(t, i)' # NoName
                 PROVE  /\ IsIdInUse(i)'
                        /\ IsPlayerNameSet(names, i)' => Shown(t, i)' = names'[i]
    BY DEF RosterFollows, Ids
  <2>2. t \in open /\ Shown(t, i)' = Shown(t, i)
    BY <1>1, <2>1
  <2>3. IsPlayerNameSet(names, i)' = IsPlayerNameSet(names, i)
    BY DEF IsPlayerNameSet
  <2> QED BY <1>2, <2>1, <2>2, <2>3 DEF Roster, RosterFollows
<1>4. ASSUME NEW t \in open', NEW i, i = pid'[t]
      PROVE  Shown(t, i)' = NoName
  <2>1. CASE t \in open
    <3>1. pid'[t] = pid[t]
      BY <2>1 DEF IInv, TypeOK, OpenHasEntry, GetClient, Players
    <3> QED BY <1>1, <1>4, <2>1, <3>1 DEF Roster
  <2>2. CASE t \notin open
    BY <1>1, <2>2
  <2> QED BY <2>1, <2>2
<1>5. ASSUME NEW t \in open'
      PROVE  Shown(t, pid[t])' = NoName
  <2>1. \A i : i = pid'[t] => Shown(t, i)' = NoName
    BY <1>4
  <2> QED BY <2>1 DEF Shown, About
<1> QED BY <1>3, <1>5 DEF Roster

\* The new name goes to everybody but its owner, and nobody keeps showing a name the
\* database has taken from somebody else.
LEMMA RosterClientName ==
    ASSUME IInv, Roster, NEW s \in Sockets, NEW name \in Names, ClientName(s, name)
    PROVE  Roster'
<1> USE IdsAreNumbers
<1> DEFINE m == [type |-> "client_set", id |-> pid[s], name |-> name]
           S == {t \in Players : pid[t] # pid[s]}
<1>1. /\ s \in open
      /\ names' = SetPlayerName(names, name, pid[s])
      /\ sent' = SentTo(S, m)
      /\ UNCHANGED <<open, pid>>
  BY DEF ClientName
<1>2. /\ sent \in [Sockets -> Seq(Messages)] /\ open \subseteq Sockets
      /\ open \subseteq Players /\ pid \in [Sockets -> Ids] /\ pid[s] \in Nat
      /\ DOMAIN names \subseteq Nat /\ names \in [DOMAIN names -> Names] /\ NamesDiffer
  BY DEF IInv, TypeOK, OpenHasEntry
<1>3. m \in Messages /\ m.type = "client_set" /\ m.id = pid[s] /\ m.name = name
  BY <1>2 DEF Messages
<1>4. S = {t \in Players : pid[t] # pid[s]}
  OBVIOUS
<1> HIDE DEF m, S
<1>5. /\ DOMAIN names' = DOMAIN names \cup 0..pid[s]
      /\ names' \in [DOMAIN names' -> Names]
      /\ names'[pid[s]] = name
      /\ \A i \in DOMAIN names' :
           i # pid[s] => names'[i] = NoName
                           \/ (i \in DOMAIN names /\ names'[i] = names[i])
      /\ \A i \in DOMAIN names' : i # pid[s] /\ name # NoName => names'[i] # name
  <2>1. names' = SetPlayerName(names, name, pid[s])
    BY <1>1
  <2>2. /\ pid[s] \in Nat /\ DOMAIN names \subseteq Nat
        /\ names \in [DOMAIN names -> Names] /\ NamesDiffer
    BY <1>2
  <2>3. NameIsSet(pid[s], name)
    BY <2>1, <2>2, SetPlayerNameFacts
  <2> QED BY <2>3 DEF NameIsSet
<1>6. ASSUME NEW t \in open, NEW i
      PROVE  /\ t = s \/ i # pid[s] => Shown(t, i)' = Shown(t, i)
             /\ t # s /\ i = pid[s] => Shown(t, i)' = name
  <2>1. sent[t] \in Seq(Messages) /\ t \in Players
    BY <1>2
  <2>2. SentTo(S, m)[t] = IF t \in S \cap open THEN Append(sent[t], m) ELSE sent[t]
    BY <1>2, SentToFacts
  <2>3. CASE t = s
    <3>1. sent'[t] = sent[t]
      BY <1>1, <1>4, <2>2, <2>3
    <3> QED BY <3>1, <2>3, ShownSame
  <2>4. CASE t # s
    <3>1. sent'[t] = Append(sent[t], m)
      BY <1>1, <1>2, <1>4, <2>1, <2>2, <2>4 DEF IInv, UniqueIds
    <3> QED BY <1>3, <2>1, <2>4, <3>1, ShownAfter
  <2> QED BY <2>3, <2>4
<1>7. \A i : IsIdInUse(i)' = IsIdInUse(i)
  BY <1>1 DEF IsIdInUse, Players
<1>8. ASSUME NEW t \in open, NEW i \in Ids, Shown(t, i)' # NoName
      PROVE  /\ IsIdInUse(i)'
             /\ IsPlayerNameSet(names, i)' => Shown(t, i)' = names'[i]
  <2>1. CASE t = s \/ i # pid[s]
    <3>1. Shown(t, i)' = Shown(t, i)
      BY <1>6, <2>1
    <3>2. i # pid[s]
      BY <1>8, <2>1, <3>1 DEF Roster
    <3>3. IsPlayerNameSet(names, i)' => IsPlayerNameSet(names, i) /\ names'[i] = names[i]
      BY <1>5, <3>2 DEF IsPlayerNameSet
    <3> QED BY <1>7, <1>8, <3>1, <3>3 DEF Roster, RosterFollows
  <2>2. CASE t # s /\ i = pid[s]
    <3>1. IsIdInUse(i)
      BY <1>1, <1>2, <2>2 DEF IsIdInUse
    <3> QED BY <1>5, <1>6, <1>7, <2>2, <3>1
  <2> QED BY <2>1, <2>2
<1>9. ASSUME NEW t \in open
      PROVE  Shown(t, pid[t])' = NoName
  <2>1. ASSUME NEW i, i = pid[t] PROVE Shown(t, i)' = NoName
    <3>1. t = s \/ i # pid[s]
      BY <1>1, <1>2, <2>1 DEF IInv, UniqueIds
    <3> QED BY <1>6, <2>1, <3>1 DEF Roster
  <2>2. \A i : i = pid'[t] => Shown(t, i)' = NoName
    BY <1>1, <2>1
  <2> QED BY <2>2 DEF Shown, About
<1> QED BY <1>1, <1>8, <1>9 DEF Roster, RosterFollows, Ids

\* Everybody who showed a name for the id of an entry that goes is told so.
LEMMA RosterRemove ==
    ASSUME IInv, Roster, NEW s \in Sockets, NEW i \in Ids, RemoveClient(s, i),
           open' = open \ {s}, i = pid[s] \/ s \notin Players,
           \A t \in Players \ {s} : pid[t] # i
    PROVE  Roster'
<1> USE IdsAreNumbers
<1> DEFINE m == [type |-> "client_remove", id |-> i]
           S == {t \in Players : pid[t] # i}
<1>1. /\ sent' = [SentTo(S, m) EXCEPT ![s] = << >>]
      /\ names' = RemovePlayerName(names, i)
      /\ pid' = [pid EXCEPT ![s] = 0]
  BY DEF RemoveClient
<1>2. /\ sent \in [Sockets -> Seq(Messages)] /\ open \subseteq Sockets
      /\ open \subseteq Players /\ pid \in [Sockets -> Ids]
      /\ names \in [DOMAIN names -> Names]
  BY DEF IInv, TypeOK, OpenHasEntry
<1>3. m \in Messages /\ m.type = "client_remove" /\ m.id = i
  BY DEF Messages
<1>4. open' \subseteq S /\ open' \subseteq open
  BY <1>2
<1> HIDE DEF m, S
<1>5. /\ DOMAIN names' = DOMAIN names
      /\ \A k \in DOMAIN names' : names'[k] = IF k = i THEN NoName ELSE names[k]
  BY <1>1, <1>2, NamesAssumption, RemovePlayerNameFacts, SMTT(30)
<1>6. ASSUME NEW t \in open', NEW k
      PROVE  /\ k # i => Shown(t, k)' = Shown(t, k)
             /\ k = i => Shown(t, k)' = NoName
  <2>1. sent[t] \in Seq(Messages) /\ t \in Sockets
    BY <1>2, <1>4
  <2>2. SentTo(S, m)[t] = IF t \in S \cap open THEN Append(sent[t], m) ELSE sent[t]
    BY <1>2, <2>1, SentToFacts
  <2>3. sent'[t] = SentTo(S, m)[t]
    BY <1>1, <2>1 DEF SentTo
  <2>4. sent'[t] = Append(sent[t], m)
    BY <1>4, <2>2, <2>3
  <2> QED BY <1>3, <2>1, <2>4, ShownAfter
<1>7. ASSUME NEW t \in open', NEW k \in Ids, Shown(t, k)' # NoName
      PROVE  /\ IsIdInUse(k)'
             /\ IsPlayerNameSet(names, k)' => Shown(t, k)' = names'[k]
  <2>1. k # i /\ Shown(t, k)' = Shown(t, k) /\ t \in open
    BY <1>4, <1>6, <1>7
  <2>2. IsIdInUse(k) /\ (IsPlayerNameSet(names, k) => Shown(t, k) = names[k])
    BY <1>7, <2>1 DEF Roster, RosterFollows
  <2>3. PICK u \in Players : pid[u] = k
    BY <2>2 DEF IsIdInUse
  <2>4. u # s
    BY <2>1, <2>3
  <2>5. u \in Players' /\ pid'[u] = k
    BY <1>1, <1>2, <2>3, <2>4 DEF Players
  <2>6. IsPlayerNameSet(names, k)' => IsPlayerNameSet(names, k) /\ names'[k] = names[k]
    BY <1>5, <2>1 DEF IsPlayerNameSet
  <2> QED BY <2>1, <2>2, <2>5, <2>6 DEF IsIdInUse
<1>8. ASSUME NEW t \in open'
      PROVE  Shown(t, pid[t])' = NoName
  <2>1. pid'[t] = pid[t]
    BY <1>1, <1>2
  <2>2. \A k : k = pid'[t] => Shown(t, k)' = NoName
    BY <1>4, <1>6, <2>1 DEF Roster
  <2> QED BY <2>2 DEF Shown, About
<1> QED BY <1>7, <1>8 DEF Roster, RosterFollows, Ids

\* What the handlers of strings send.
LEMMA StringsSent ==
    ASSUME IInv, NEW s \in Sockets, NEW i \in StringIds,
           StringQuery(s, i) \/ \E str \in Strings : StringResult(s, i, str)
    PROVE  /\ UNCHANGED <<open, pid, names, events, joined>>
           /\ \A t \in open :
                 \/ sent'[t] = sent[t]
                 \/ \E m \in Messages : /\ m.type \in {"string_query", "string_result"}
                                        /\ sent'[t] = Append(sent[t], m)
<1>type. /\ sent \in [Sockets -> Seq(Messages)] /\ open \subseteq Sockets
         /\ strings \in [StringIds -> Strings \cup {NoString}]
  BY DEF IInv, TypeOK
<1>1. UNCHANGED <<open, pid, names, events, joined>>
  BY DEF StringQuery, StringResult
<1>2. \/ sent' = sent
      \/ \E S, m : /\ m \in Messages /\ m.type \in {"string_query", "string_result"}
                  /\ sent' = SentTo(S, m)
  <2>1. CASE StringQuery(s, i)
    <3>1. CASE strings[i] # NoString
      <4> DEFINE m == [type |-> "string_result", id |-> i, str |-> strings[i]]
      <4>1. m \in Messages /\ m.type = "string_result" /\ sent' = SentTo({s}, m)
        BY <1>type, <2>1, <3>1 DEF Messages, StringQuery
      <4> QED BY <4>1
    <3>2. CASE strings[i] = NoString
      <4> DEFINE m == [type |-> "string_query", id |-> i]
      <4>1. m \in Messages /\ m.type = "string_query" /\ sent' = SentTo(Players \ {s}, m)
        BY <2>1, <3>2 DEF Messages, StringQuery
      <4> QED BY <4>1
    <3> QED BY <3>1, <3>2
  <2>2. ASSUME NEW str \in Strings, StringResult(s, i, str)
        PROVE  \/ sent' = sent
               \/ \E S, m : /\ m \in Messages /\ m.type \in {"string_query", "string_result"}
                           /\ sent' = SentTo(S, m)
    <3> DEFINE m == [type |-> "string_result", id |-> i, str |-> str]
    <3>1. m \in Messages /\ m.type = "string_result"
      BY DEF Messages
    <3>2. sent' = sent \/ sent' = SentTo(Players, m)
      BY <2>2 DEF StringResult
    <3> QED BY <3>1, <3>2
  <2> QED BY <2>1, <2>2
<1>3. CASE sent' = sent
  BY <1>1, <1>3
<1>4. ASSUME NEW S, NEW m \in Messages, m.type \in {"string_query", "string_result"},
             sent' = SentTo(S, m), NEW t \in open
      PROVE  sent'[t] = sent[t] \/ sent'[t] = Append(sent[t], m)
  <2>1. SentTo(S, m)[t] = IF t \in S \cap open THEN Append(sent[t], m) ELSE sent[t]
    BY <1>type, SentToFacts
  <2> QED BY <1>4, <2>1
<1> QED BY <1>1, <1>2, <1>3, <1>4

\* An event that is counted goes to every other client.
LEMMA EventSent ==
    ASSUME IInv, NEW s \in Sockets, NEW src \in Units, NEW dst \in Units,
           CombatEvent(s, src, dst)
    PROVE  /\ UNCHANGED <<open, pid, names, joined>>
           /\ \/ UNCHANGED <<events, sent>>
              \/ \E e \in Entries :
                    /\ events' = Append(events, [from |-> s, entry |-> e])
                    /\ [type |-> "combat_event", entry |-> e] \in Messages
                    /\ \A t \in open :
                          /\ t = s => sent'[t] = sent[t]
                          /\ t # s => sent'[t] =
                                Append(sent[t], [type |-> "combat_event", entry |-> e])
<1> DEFINE e == [src |-> Translate(src, s), dst |-> Translate(dst, s)]
           m == [type |-> "combat_event", entry |-> e]
           S == Players \ {s}
<1>1. UNCHANGED <<open, pid, names, joined>>
  BY DEF CombatEvent
<1>2. CASE SkipPacket(src)
  BY <1>1, <1>2 DEF CombatEvent
<1>3. CASE ~ SkipPacket(src)
  <2>1. events' = Append(events, [from |-> s, entry |-> e]) /\ sent' = SentTo(S, m)
    BY <1>3 DEF CombatEvent
  <2>2. e \in Entries
    <3>1. Translate(src, s) \in Nat /\ Translate(dst, s) \in Nat
      BY UnitsAssumption, IdsAreNumbers DEF Translate, IInv, TypeOK
    <3> QED BY <3>1 DEF Entries
  <2> HIDE DEF e
  <2>3. m \in Messages
    BY <2>2 DEF Messages
  <2> HIDE DEF m
  <2>4. ASSUME NEW t \in open
        PROVE  /\ t = s => sent'[t] = sent[t]
               /\ t # s => sent'[t] = Append(sent[t], m)
    <3>1. sent \in [Sockets -> Seq(Messages)] /\ t \in Sockets /\ t \in Players
      BY DEF IInv, TypeOK, OpenHasEntry
    <3>2. SentTo(S, m)[t] = IF t \in S \cap open THEN Append(sent[t], m) ELSE sent[t]
      BY <3>1, SentToFacts
    <3> QED BY <2>1, <3>1, <3>2
  <2> QED BY <1>1, <2>1, <2>2, <2>3, <2>4 DEF m
<1> QED BY <1>2, <1>3

\* Every step keeps the rosters right.
LEMMA RosterKept == IInv /\ Roster /\ [Next]_vars => Roster'
<1> SUFFICES ASSUME IInv, Roster, [Next]_vars PROVE Roster'
  OBVIOUS
<1>type. /\ sent \in [Sockets -> Seq(Messages)] /\ open \subseteq Sockets
         /\ pid \in [Sockets -> Ids]
  BY DEF IInv, TypeOK
<1>1. CASE UNCHANGED vars
  BY <1>1, RosterUntouched DEF vars
<1>2. ASSUME NEW s \in Sockets, Accept(s) \/ LateIo(s)
      PROVE  Roster'
  <2>1. GetClient(s)
    BY <1>2 DEF Accept, LateIo
  <2>2. names' = names
    BY <1>2 DEF Accept, LateIo
  <2>3. \A t \in open' : \/ t \in open /\ sent'[t] = sent[t]
                         \/ t = s /\ sent'[t] = << >>
    BY <1>2, <1>type DEF Accept, LateIo
  <2> QED BY <2>1, <2>2, <2>3, RosterGetClient
<1>3. ASSUME NEW s \in Sockets, NEW name \in Names, ClientName(s, name)
      PROVE  Roster'
  BY <1>3, RosterClientName
<1>4. ASSUME NEW s \in Sockets, NEW i \in StringIds,
             StringQuery(s, i) \/ \E str \in Strings : StringResult(s, i, str)
      PROVE  Roster'
  <2>1. /\ UNCHANGED <<open, pid, names>>
        /\ \A t \in open :
              \/ sent'[t] = sent[t]
              \/ \E m \in Messages : /\ m.type \in {"string_query", "string_result"}
                                     /\ sent'[t] = Append(sent[t], m)
    BY <1>4, StringsSent
  <2>2. \A m : m.type \in {"string_query", "string_result"} =>
                 m.type \notin {"client_set", "client_remove"}
    OBVIOUS
  <2> QED BY <2>1, <2>2, RosterUntouched
<1>5. ASSUME NEW s \in Sockets, NEW src \in Units, NEW dst \in Units,
             CombatEvent(s, src, dst)
      PROVE  Roster'
  <2>1. /\ UNCHANGED <<open, pid, names>>
        /\ \/ sent' = sent
           \/ \E e \in Entries :
                 /\ [type |-> "combat_event", entry |-> e] \in Messages
                 /\ \A t \in open :
                       /\ t = s => sent'[t] = sent[t]
                       /\ t # s => sent'[t] =
                             Append(sent[t], [type |-> "combat_event", entry |-> e])
    BY <1>5, EventSent
  <2>2. \A e : [type |-> "combat_event", entry |-> e].type \notin {"client_set", "client_remove"}
    OBVIOUS
  <2> QED BY <2>1, <2>2, RosterUntouched
<1>6. ASSUME NEW s \in Sockets, Close(s)
      PROVE  Roster'
  <2>1. /\ s \in open /\ open' = open \ {s} /\ RemoveClient(s, pid[s])
        /\ pid[s] \in Ids /\ s \in Players
    BY <1>6, <1>type DEF Close, IInv, OpenHasEntry
  <2>2. \A t \in Players \ {s} : pid[t] # pid[s]
    BY <2>1 DEF IInv, UniqueIds
  <2> QED BY <2>1, <2>2, RosterRemove
<1>7. ASSUME NEW s \in Sockets, LateClose(s)
      PROVE  Roster'
  <2> DEFINE i == IF s \in Players THEN pid[s] ELSE NewId
  <2>1. s \notin open /\ open' = open /\ RemoveClient(s, i)
    BY <1>7 DEF LateClose
  <2>2. NewId \in 1..Cardinality(Sockets) + 1 /\ ~ IsIdInUse(NewId)
    BY <1>type, IdsAreNumbers, NewIdIsSmallest
  <2>3. i \in Ids
    BY <1>type, <2>2, IdsAreNumbers DEF Ids
  <2>4. \A t \in Players \ {s} : pid[t] # i
    BY <2>2 DEF IInv, UniqueIds, IsIdInUse
  <2>5. i = pid[s] \/ s \notin Players
    OBVIOUS
  <2>6. open' = open \ {s}
    BY <2>1
  <2> HIDE DEF i
  <2> QED BY <2>1, <2>3, <2>4, <2>5, <2>6, RosterRemove
<1> QED BY <1>1, <1>2, <1>3, <1>4, <1>5, <1>6, <1>7 DEF Next, Packet

\* Rosters are right in every run, the clients' own entries included.
LEMMA RosterInvariance == Spec => []Roster
<1>1. Init => Roster
  BY DEF Init, Roster, RosterFollows
<1> QED BY <1>1, RosterKept, Invariance, PTL DEF Spec

\* set_client_name and remove_client_by_socket keep every client's roster right, in
\* whatever order clients join, leave and name themselves and with ids used again.
THEOREM RostersFollow == Spec => []RosterFollows
<1>1. Roster => RosterFollows
  BY DEF Roster
<1> QED BY <1>1, RosterInvariance, PTL

-----------------------------------------------------------------------------
\* The relay is exact, and no client joined in the future: what is counted next counts
\* for everybody who is there.
Relay ==
    /\ RelayExact
    /\ \A s \in open : joined[s] <= Len(events)

\* What RelayExact says of one client.
Exact(s) ==
    /\ Cardinality(EventsSentTo(s)) = Cardinality(EventsFor(s))
    /\ \A k \in EventsSentTo(s), j \in EventsFor(s) :
          Rank(EventsSentTo(s), k) = Rank(EventsFor(s), j) =>
              sent[s][k].entry = events[j].entry

\* A message that is no event does not change which events a client was sent.
LEMMA EventsSentKept ==
    ASSUME NEW s, sent[s] \in Seq(Messages), NEW m \in Messages,
           m.type # "combat_event", sent'[s] = Append(sent[s], m)
    PROVE  /\ EventsSentTo(s)' = EventsSentTo(s)
           /\ \A k \in EventsSentTo(s) : sent'[s][k] = sent[s][k]
<1> DEFINE n == Len(sent[s])
<1>1. n \in Nat /\ DOMAIN sent[s] = 1..n
  BY LenProperties
<1>2. /\ Append(sent[s], m) \in Seq(Messages) /\ Len(Append(sent[s], m)) = n + 1
      /\ Append(sent[s], m)[n + 1] = m
      /\ \A k \in 1..n : Append(sent[s], m)[k] = sent[s][k]
  BY AppendProperties
<1>3. DOMAIN sent'[s] = 1..n + 1
  BY <1>2, LenProperties
<1> HIDE DEF n
<1>4. EventsSentTo(s)' = {k \in 1..n + 1 : sent'[s][k].type = "combat_event"}
  BY <1>3 DEF EventsSentTo
<1>5. EventsSentTo(s) = {k \in 1..n : sent[s][k].type = "combat_event"}
  BY <1>1 DEF EventsSentTo
<1>6. \A k \in 1..n + 1 : k = n + 1 \/ k \in 1..n
  BY <1>1
<1> QED BY <1>1, <1>2, <1>4, <1>5, <1>6

\* Exact depends on nothing but these sets and what they point at.
LEMMA ExactSame ==
    ASSUME NEW s, Exact(s), EventsSentTo(s)' = EventsSentTo(s), EventsFor(s)' = EventsFor(s),
           \A k \in EventsSentTo(s) : sent'[s][k] = sent[s][k],
           \A j \in EventsFor(s) : events'[j] = events[j]
    PROVE  Exact(s)'
BY DEF Exact, Rank

\* A client that was sent nothing, or nothing but other messages, while nothing was counted.
LEMMA ExactUntouched ==
    ASSUME TypeOK, NEW s \in open, Exact(s), joined'[s] = joined[s], events' = events,
           \/ sent'[s] = sent[s]
           \/ \E m \in Messages : m.type # "combat_event" /\ sent'[s] = Append(sent[s], m)
    PROVE  Exact(s)'
<1>1. /\ EventsSentTo(s)' = EventsSentTo(s)
      /\ \A k \in EventsSentTo(s) : sent'[s][k] = sent[s][k]
  <2>1. CASE sent'[s] = sent[s]
    BY <2>1 DEF EventsSentTo
  <2>2. sent[s] \in Seq(Messages)
    BY DEF TypeOK
  <2> QED BY <2>1, <2>2, EventsSentKept
<1>2. EventsFor(s)' = EventsFor(s)
  BY DEF EventsFor
<1> QED BY <1>1, <1>2, ExactSame

\* A client that joins has been sent nothing, and nothing was counted since.
LEMMA ExactNew ==
    ASSUME TypeOK, NEW s \in Sockets, joined'[s] = Len(events), events' = events,
           sent'[s] = << >>
    PROVE  Exact(s)'
<1>1. Len(events) \in Nat
  BY LenProperties DEF TypeOK
<1>2. EventsSentTo(s)' = {} /\ EventsFor(s)' = {}
  BY <1>1 DEF EventsSentTo, EventsFor
<1> QED BY <1>2 DEF Exact

\* Its own event counts for nobody else's rank.
LEMMA ExactSender ==
    ASSUME TypeOK, NEW s \in open, Exact(s), joined[s] <= Len(events), joined'[s] = joined[s],
           NEW e \in Entries, events' = Append(events, [from |-> s, entry |-> e]),
           sent'[s] = sent[s]
    PROVE  Exact(s)'
<1> DEFINE R == [from : Sockets, entry : Entries]
           r == [from |-> s, entry |-> e]
           n == Len(events)
<1>1. events \in Seq(R) /\ r \in R /\ joined[s] \in Nat /\ r.from = s
  BY DEF TypeOK
<1>2. EventsSentTo(s)' = EventsSentTo(s)
  BY DEF EventsSentTo
<1> HIDE DEF R, r
<1>3. /\ n \in Nat /\ Len(events') = n + 1 /\ events'[n + 1] = r
      /\ \A k \in 1..n : events'[k] = events[k]
  BY <1>1, LenProperties, AppendProperties DEF r
<1>4. \A k \in joined[s] + 1..n + 1 : k = n + 1 \/ k \in joined[s] + 1..n
  BY <1>1, <1>3
<1>5. joined[s] + 1..n \subseteq 1..n /\ joined[s] + 1..n \subseteq joined[s] + 1..n + 1
  BY <1>1, <1>3
<1>6. /\ EventsFor(s)' = EventsFor(s)
      /\ \A j \in EventsFor(s) : events'[j] = events[j]
  <2>1. EventsFor(s)' = {j \in joined[s] + 1..n + 1 : events'[j].from # s}
    BY <1>3 DEF EventsFor
  <2>2. EventsFor(s) = {j \in joined[s] + 1..n : events[j].from # s}
    BY DEF EventsFor
  <2> HIDE DEF n
  <2> QED BY <1>1, <1>3, <1>4, <1>5, <2>1, <2>2
<1> HIDE DEF n
<1>7. \A k : sent'[s][k] = sent[s][k]
  OBVIOUS
<1> QED BY <1>2, <1>6, <1>7, ExactSame

\* The ranks of positions, when the position behind the last is added.
LEMMA RanksOfMore ==
    ASSUME NEW n \in Nat, NEW S \in SUBSET (1..n), NEW T, T = S \cup {n + 1}
    PROVE  /\ Cardinality(S) \in Nat /\ Cardinality(T) = Cardinality(S) + 1
           /\ Rank(T, n + 1) = Cardinality(S) + 1
           /\ \A k \in S : /\ Rank(T, k) = Rank(S, k)
                           /\ Rank(S, k) \in Nat /\ Rank(S, k) <= Cardinality(S)
BY RankFacts DEF Rank

\* The others are sent the event as the last of both orders.
LEMMA ExactReceiver ==
    ASSUME TypeOK, NEW s \in open, Exact(s), joined[s] <= Len(events), joined'[s] = joined[s],
           NEW t \in Sockets, t # s,
           NEW e \in Entries, events' = Append(events, [from |-> t, entry |-> e]),
           [type |-> "combat_event", entry |-> e] \in Messages,
           sent'[s] = Append(sent[s], [type |-> "combat_event", entry |-> e])
    PROVE  Exact(s)'
<1> DEFINE R == [from : Sockets, entry : Entries]
           r == [from |-> t, entry |-> e]
           m == [type |-> "combat_event", entry |-> e]
           n == Len(events)
           l == Len(sent[s])
           C == EventsSentTo(s)
           E == EventsFor(s)
<1>1. /\ events \in Seq(R) /\ r \in R /\ joined[s] \in Nat /\ r.from = t /\ r.entry = e
      /\ sent[s] \in Seq(Messages) /\ m \in Messages /\ m.type = "combat_event" /\ m.entry = e
  BY DEF TypeOK
<1>2. events' = Append(events, r) /\ sent'[s] = Append(sent[s], m)
  OBVIOUS
<1> HIDE DEF R, r, m
<1>3. /\ n \in Nat /\ Len(events') = n + 1 /\ events'[n + 1] = r
      /\ \A k \in 1..n : events'[k] = events[k]
  BY <1>1, <1>2, LenProperties, AppendProperties
<1>4. /\ l \in Nat /\ DOMAIN sent[s] = 1..l /\ DOMAIN sent'[s] = 1..l + 1
      /\ sent'[s][l + 1] = m /\ \A k \in 1..l : sent'[s][k] = sent[s][k]
  <2>1. /\ Append(sent[s], m) \in Seq(Messages) /\ Len(Append(sent[s], m)) = l + 1
        /\ Append(sent[s], m)[l + 1] = m
        /\ \A k \in 1..l : Append(sent[s], m)[k] = sent[s][k]
    BY <1>1, AppendProperties
  <2> QED BY <1>1, <1>2, <2>1, LenProperties
<1> HIDE DEF n, l
<1>5. C \in SUBSET (1..l) /\ EventsSentTo(s)' = C \cup {l + 1}
  <2>1. C = {k \in 1..l : sent[s][k].type = "combat_event"}
    BY <1>4 DEF EventsSentTo
  <2>2. EventsSentTo(s)' = {k \in 1..l + 1 : sent'[s][k].type = "combat_event"}
    BY <1>4 DEF EventsSentTo
  <2>3. \A k : k \in 1..l + 1 <=> k = l + 1 \/ k \in 1..l
    BY <1>4
  <2> HIDE DEF C
  <2> QED BY <1>1, <1>4, <2>1, <2>2, <2>3
<1>6. E \in SUBSET (1..n) /\ EventsFor(s)' = E \cup {n + 1}
  <2>1. E = {j \in joined[s] + 1..n : events[j].from # s}
    BY DEF EventsFor, n
  <2>2. EventsFor(s)' = {j \in joined[s] + 1..n + 1 : events'[j].from # s}
    BY <1>3 DEF EventsFor
  <2>3. \A k : k \in joined[s] + 1..n + 1 <=> k = n + 1 \/ k \in joined[s] + 1..n
    BY <1>1, <1>3 DEF n
  <2>4. \A k \in joined[s] + 1..n : k \in 1..n
    BY <1>1, <1>3
  <2> HIDE DEF E
  <2> QED BY <1>1, <1>3, <2>1, <2>2, <2>3, <2>4
<1> HIDE DEF C, E
<1> DEFINE C2 == C \cup {l + 1}
           E2 == E \cup {n + 1}
<1>7. /\ Cardinality(C) \in Nat /\ Cardinality(C2) = Cardinality(C) + 1
      /\ Rank(C2, l + 1) = Cardinality(C) + 1
      /\ \A k \in C : /\ Rank(C2, k) = Rank(C, k)
                      /\ Rank(C, k) \in Nat /\ Rank(C, k) <= Cardinality(C)
  BY <1>4, <1>5, RanksOfMore
<1>8. /\ Cardinality(E) \in Nat /\ Cardinality(E2) = Cardinality(E) + 1
      /\ Rank(E2, n + 1) = Cardinality(E) + 1
      /\ \A k \in E : /\ Rank(E2, k) = Rank(E, k)
                      /\ Rank(E, k) \in Nat /\ Rank(E, k) <= Cardinality(E)
  BY <1>3, <1>6, RanksOfMore
<1>9. Cardinality(C) = Cardinality(E)
  BY DEF Exact, C, E
<1>10. ASSUME NEW k \in C2, NEW j \in E2, Rank(C2, k) = Rank(E2, j)
       PROVE  sent'[s][k].entry = events'[j].entry
  <2>1. CASE k \in C /\ j \in E
    <3>1. Rank(C, k) = Rank(E, j)
      BY <1>7, <1>8, <1>10, <2>1
    <3>2. sent[s][k].entry = events[j].entry
      BY <2>1, <3>1 DEF Exact, C, E
    <3> QED BY <1>3, <1>4, <1>5, <1>6, <2>1, <3>2
  <2>2. CASE k = l + 1 /\ j = n + 1
    BY <1>1, <1>3, <1>4, <2>2
  <2>3. CASE k = l + 1 /\ j \in E
    BY <1>7, <1>8, <1>9, <1>10, <2>3
  <2>4. CASE k \in C /\ j = n + 1
    BY <1>7, <1>8, <1>9, <1>10, <2>4
  <2> QED BY <2>1, <2>2, <2>3, <2>4
<1>11. EventsSentTo(s)' = C2 /\ EventsFor(s)' = E2
  BY <1>5, <1>6
<1>12. Cardinality(C2) = Cardinality(E2)
  BY <1>7, <1>8, <1>9
<1> HIDE DEF C2, E2
<1> QED BY <1>10, <1>11, <1>12 DEF Exact, Rank

\* Every step keeps the relay exact.
LEMMA RelayKept == IInv /\ Relay /\ [Next]_vars => Relay'
<1> SUFFICES ASSUME IInv, Relay, [Next]_vars PROVE Relay'
  OBVIOUS
<1>type. /\ TypeOK /\ open \subseteq Sockets
         /\ sent \in [Sockets -> Seq(Messages)] /\ joined \in [Sockets -> Nat]
         /\ pid \in [Sockets -> Ids] /\ Len(events) \in Nat
  BY LenProperties DEF IInv, TypeOK
<1>exact. \A s \in open : Exact(s) /\ joined[s] <= Len(events)
  BY DEF Relay, RelayExact, Exact
<1>goal. SUFFICES ASSUME NEW t \in open'
                  PROVE  Exact(t)' /\ joined'[t] <= Len(events')
  BY DEF Relay, RelayExact, Exact
<1>quiet. \* a step that counts nothing and sends t something else, if anything
      ASSUME t \in open, events' = events, joined'[t] = joined[t],
             \/ sent'[t] = sent[t]
             \/ \E m \in Messages : m.type # "combat_event" /\ sent'[t] = Append(sent[t], m)
      PROVE  Exact(t)' /\ joined'[t] <= Len(events')
  BY <1>quiet, <1>type, <1>exact, ExactUntouched
<1>1. CASE UNCHANGED vars
  BY <1>1, <1>quiet DEF vars
<1>2. ASSUME NEW s \in Sockets, Accept(s)
      PROVE  Exact(t)' /\ joined'[t] <= Len(events')
  <2>1. /\ open' = open \cup {s} /\ events' = events
        /\ sent' = [sent EXCEPT ![s] = << >>]
        /\ joined' = [joined EXCEPT ![s] = Len(events)]
    BY <1>2 DEF Accept
  <2>2. CASE t = s
    BY <1>type, <2>1, <2>2, ExactNew
  <2>3. CASE t # s
    <3>1. t \in open /\ joined'[t] = joined[t] /\ sent'[t] = sent[t]
      BY <1>type, <2>1, <2>3
    <3> QED BY <1>quiet, <2>1, <3>1
  <2> QED BY <2>2, <2>3
<1>3. ASSUME NEW s \in Sockets, NEW name \in Names, ClientName(s, name)
      PROVE  Exact(t)' /\ joined'[t] <= Len(events')
  <2> DEFINE m == [type |-> "client_set", id |-> pid[s], name |-> name]
             S == {u \in Players : pid[u] # pid[s]}
  <2>1. UNCHANGED <<open, events, joined>> /\ sent' = SentTo(S, m)
    BY <1>3 DEF ClientName
  <2>2. m \in Messages /\ m.type # "combat_event"
    BY <1>type DEF Messages
  <2> HIDE DEF m, S
  <2>3. SentTo(S, m)[t] = IF t \in S \cap open THEN Append(sent[t], m) ELSE sent[t]
    BY <1>type, <2>1, SentToFacts
  <2> QED BY <1>quiet, <2>1, <2>2, <2>3
<1>4. ASSUME NEW s \in Sockets, NEW i \in StringIds,
             StringQuery(s, i) \/ \E str \in Strings : StringResult(s, i, str)
      PROVE  Exact(t)' /\ joined'[t] <= Len(events')
  <2>1. /\ UNCHANGED <<open, events, joined>>
        /\ \A u \in open :
              \/ sent'[u] = sent[u]
              \/ \E m \in Messages : /\ m.type \in {"string_query", "string_result"}
                                     /\ sent'[u] = Append(sent[u], m)
    BY <1>4, StringsSent
  <2>2. \A m : m.type \in {"string_query", "string_result"} => m.type # "combat_event"
    OBVIOUS
  <2> QED BY <1>quiet, <2>1, <2>2
<1>5. ASSUME NEW s \in Sockets, NEW src \in Units, NEW dst \in Units,
             CombatEvent(s, src, dst)
      PROVE  Exact(t)' /\ joined'[t] <= Len(events')
  <2>1. UNCHANGED <<open, joined>>
    BY <1>5, EventSent
  <2>2. CASE UNCHANGED <<events, sent>>
    BY <1>quiet, <2>1, <2>2
  <2>3. ASSUME NEW e \in Entries,
               events' = Append(events, [from |-> s, entry |-> e]),
               [type |-> "combat_event", entry |-> e] \in Messages,
               \A u \in open :
                  /\ u = s => sent'[u] = sent[u]
                  /\ u # s => sent'[u] =
                        Append(sent[u], [type |-> "combat_event", entry |-> e])
        PROVE  Exact(t)' /\ joined'[t] <= Len(events')
    <3>1. t \in open /\ joined'[t] = joined[t] /\ Exact(t) /\ joined[t] <= Len(events)
      BY <1>exact, <2>1
    <3>2. Exact(t)'
      <4>1. CASE t = s
        BY <1>type, <2>3, <3>1, <4>1, ExactSender
      <4>2. CASE t # s
        BY <1>type, <2>3, <3>1, <4>2, ExactReceiver
      <4> QED BY <4>1, <4>2
    <3>3. Len(events') = Len(events) + 1
      <4> DEFINE r == [from |-> s, entry |-> e]
                 R == [from : Sockets, entry : Entries]
      <4>1. events \in Seq(R) /\ r \in R /\ events' = Append(events, r)
        BY <1>type, <2>3 DEF TypeOK
      <4> HIDE DEF r, R
      <4> QED BY <4>1, AppendProperties
    <3>4. joined'[t] \in Nat
      BY <1>type, <2>1, <3>1
    <3> QED BY <1>type, <3>1, <3>2, <3>3, <3>4
  <2> QED BY <1>5, <2>2, <2>3, EventSent
<1>6. ASSUME NEW s \in Sockets, NEW i \in Ids, RemoveClient(s, i), events' = events,
             t \in open, t # s, joined'[t] = joined[t]
      PROVE  Exact(t)' /\ joined'[t] <= Len(events')
  <2> DEFINE m == [type |-> "client_remove", id |-> i]
             S == {u \in Players : pid[u] # i}
  <2>1. m \in Messages /\ m.type # "combat_event"
    BY DEF Messages
  <2>2. sent' = [SentTo(S, m) EXCEPT ![s] = << >>]
    BY <1>6 DEF RemoveClient
  <2> HIDE DEF m, S
  <2>3. sent'[t] = SentTo(S, m)[t]
    BY <1>6, <1>type, <2>2 DEF SentTo
  <2>4. SentTo(S, m)[t] = IF t \in S \cap open THEN Append(sent[t], m) ELSE sent[t]
    BY <1>6, <1>type, SentToFacts
  <2> QED BY <1>quiet, <1>6, <2>1, <2>3, <2>4
<1>7. ASSUME NEW s \in Sockets, Close(s)
      PROVE  Exact(t)' /\ joined'[t] <= Len(events')
  <2>1. /\ RemoveClient(s, pid[s]) /\ events' = events /\ open' = open \ {s}
        /\ joined' = [joined EXCEPT ![s] = 0] /\ pid[s] \in Ids
    BY <1>7, <1>type DEF Close
  <2>2. t \in open /\ t # s /\ joined'[t] = joined[t]
    BY <1>type, <2>1
  <2> QED BY <1>6, <2>1, <2>2
<1>8. ASSUME NEW s \in Sockets, LateClose(s)
      PROVE  Exact(t)' /\ joined'[t] <= Len(events')
  <2> DEFINE i == IF s \in Players THEN pid[s] ELSE NewId
  <2>1. RemoveClient(s, i) /\ s \notin open /\ UNCHANGED <<open, events, joined>>
    BY <1>8 DEF LateClose
  <2>2. i \in Ids
    <3>1. NewId \in 1..Cardinality(Sockets) + 1
      BY <1>type, IdsAreNumbers, NewIdIsSmallest
    <3> QED BY <1>type, <3>1, IdsAreNumbers DEF Ids
  <2> HIDE DEF i
  <2> QED BY <1>6, <2>1, <2>2
<1>9. ASSUME NEW s \in Sockets, LateIo(s)
      PROVE  Exact(t)' /\ joined'[t] <= Len(events')
  BY <1>quiet, <1>9 DEF LateIo
<1> QED BY <1>1, <1>2, <1>3, <1>4, <1>5, <1>7, <1>8, <1>9 DEF Next, Packet

\* The relay is exact in every run, and nobody joined in the future.
LEMMA RelayInvariance == Spec => []Relay
<1>1. Init => Relay
  BY DEF Init, Relay, RelayExact
<1> QED BY <1>1, RelayKept, Invariance, PTL DEF Spec

\* combat_event relays every event that is counted to every other client that was there,
\* once and in the server's order, however joining, leaving and events interleave.
THEOREM RelayIsExact == Spec => []RelayExact
<1>1. Relay => RelayExact
  BY DEF Relay
<1> QED BY <1>1, RelayInvariance, PTL
=============================================================================
