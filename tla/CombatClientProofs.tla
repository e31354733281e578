------------------------- MODULE CombatClientProofs -------------------------
(***************************************************************************)
(* Proofs about CombatClient, for any names and lines and logs of any      *)
(* length: what the two databases of the client know of each other.        *)
(***************************************************************************)
EXTENDS CombatClient, DataFacts

-----------------------------------------------------------------------------
(* The database of players *)

\* A vector of different names, where only slot 0 may be empty.
WellFormed(db) ==
    /\ \E n \in Nat : db \in [0..n - 1 -> Names \cup {NoName}]
    /\ \A i \in DOMAIN db : db[i] = NoName => i = 0
    /\ \A i, j \in DOMAIN db : db[i] = db[j] => i = j

\* Every name that is stored in old is stored under the same id in new.
KeepsNames(old, new) ==
    \A i \in DOMAIN old : old[i] # NoName => i \in DOMAIN new /\ new[i] = old[i]

Free(db, name) == ~ IsPlayerInDb(db, name) /\ (0 \in DOMAIN db => db[0] = NoName)

LEMMA SizeFacts ==
    ASSUME NEW db, WellFormed(db)
    PROVE  Size(db) \in Nat /\ DOMAIN db = 0..Size(db) - 1
<1>1. PICK n \in Nat : db \in [0..n - 1 -> Names \cup {NoName}]
  BY DEF WellFormed
<1>2. DOMAIN db = 0..n - 1
  BY <1>1
<1>3. Cardinality(0..n - 1) = n
  BY FS_Interval
<1> QED BY <1>2, <1>3 DEF Size

\* get_player_id for a name that is stored.
LEMMA KnownName ==
    ASSUME NEW db, WellFormed(db), NEW name \in Names, IsPlayerInDb(db, name)
    PROVE  PlayerId(db, name) \in DOMAIN db /\ db[PlayerId(db, name)] = name
<1>1. PICK k \in DOMAIN db : db[k] = name
  BY DEF IsPlayerInDb, Holders
<1>2. k \in Nat /\ Holders(db, name) = {k}
  BY <1>1, SizeFacts DEF WellFormed, Holders
<1>3. FirstHolder(db, name) = k
  BY <1>2 DEF FirstHolder
<1> QED BY <1>1, <1>3 DEF PlayerId

\* get_player_id for a new name.
LEMMA NewName ==
    ASSUME NEW db, WellFormed(db), NEW name \in Names, ~ IsPlayerInDb(db, name),
           NEW id, id = PlayerId(db, name), NEW new, new = AfterGetPlayerId(db, name)
    PROVE  /\ WellFormed(new)
           /\ id \in DOMAIN new /\ new[id] = name
           /\ KeepsNames(db, new)
           /\ (0 \in DOMAIN db => db[0] = NoName) => id = 0
<1> DEFINE n == Size(db)
           grown == Grow(db, id)
<1>1. n \in Nat /\ DOMAIN db = 0..n - 1
  BY SizeFacts
<1>2. id = n \/ (id = 0 /\ n > 0 /\ db[0] = NoName)
  BY <1>1 DEF PlayerId
<1>3. PICK m \in Nat : DOMAIN db \cup 0..id = 0..m - 1
  <2>1. CASE id = n
    <3>1. DOMAIN db \cup 0..id = 0..(n + 1) - 1
      BY <1>1, <2>1
    <3> QED BY <3>1, <1>1
  <2>2. CASE id = 0 /\ n > 0
    <3>1. DOMAIN db \cup 0..id = 0..n - 1
      BY <1>1, <2>2
    <3> QED BY <3>1, <1>1
  <2> QED BY <1>2, <2>1, <2>2
<1>4. /\ grown = [i \in 0..m - 1 |-> IF i \in DOMAIN db THEN db[i] ELSE NoName]
      /\ id \in 0..m - 1
  <2>1. id \in 0..id
    BY <1>1, <1>2
  <2> QED BY <1>3, <2>1 DEF Grow
<1>5. \A i \in DOMAIN db : db[i] \in Names \cup {NoName} /\ db[i] # name
  BY DEF WellFormed, IsPlayerInDb, Holders
<1>6. NoName # name
  BY LinesAssumption
<1>7. ~ IsPlayerInDb(grown, name)
  BY <1>4, <1>5, <1>6 DEF IsPlayerInDb, Holders
<1>8. new = [grown EXCEPT ![id] = name]
  BY <1>7 DEF AfterGetPlayerId, SetPlayerName
<1>9. /\ DOMAIN new = 0..m - 1 /\ new[id] = name
      /\ \A i \in 0..m - 1 : i # id => i \in DOMAIN db /\ new[i] = db[i]
  <2>1. \A i \in 0..m - 1 : i # id => i \in DOMAIN db
    BY <1>1, <1>2, <1>3
  <2> QED BY <1>4, <1>8, <2>1
<1>10. id \in DOMAIN db => db[id] = NoName
  BY <1>1, <1>2
<1>11. new \in [0..m - 1 -> Names \cup {NoName}]
  BY <1>4, <1>5, <1>8
<1>12. WellFormed(new)
  <2>1. \A i \in DOMAIN new : new[i] = NoName => i = 0
    BY <1>6, <1>9 DEF WellFormed
  <2>2. \A i, j \in DOMAIN new : new[i] = new[j] => i = j
    BY <1>5, <1>9 DEF WellFormed
  <2> QED BY <1>11, <2>1, <2>2 DEF WellFormed
<1>13. KeepsNames(db, new)
  BY <1>3, <1>9, <1>10 DEF KeepsNames
<1>14. (0 \in DOMAIN db => db[0] = NoName) => id = 0
  BY <1>1 DEF PlayerId
<1> QED BY <1>4, <1>9, <1>12, <1>13, <1>14

\* read_entity_name, for players, mobs and nobody.
Entities == Names \cup {Mob, Nobody}
MeansIn(db, id, entity) ==
    /\ entity \in Names => IsPlayerNameSet(db, id) /\ db[id] = entity
    /\ entity = Mob => id = MobId
    /\ entity = Nobody => id = 0

LEMMA RegisterFacts ==
    ASSUME NEW db, WellFormed(db), NEW entity \in Entities
    PROVE  /\ WellFormed(Register(db, entity))
           /\ KeepsNames(db, Register(db, entity))
           /\ MeansIn(Register(db, entity), IdOf(db, entity), entity)
           /\ IdOf(db, entity) \in Nat \cup {MobId}
           /\ Free(db, entity) /\ entity \in Names =>
                 0 \in DOMAIN Register(db, entity) /\ Register(db, entity)[0] = entity
<1>1. CASE entity \notin Names
  <2>1. Register(db, entity) = db
    BY <1>1 DEF Register
  <2>2. /\ IdOf(db, entity) \in Nat \cup {MobId}
        /\ entity = Mob => IdOf(db, entity) = MobId
        /\ entity = Nobody => IdOf(db, entity) = 0
    BY <1>1, LinesAssumption DEF Entities, IdOf
  <2> QED BY <1>1, <2>1, <2>2 DEF KeepsNames, MeansIn
<1>2. ASSUME entity \in Names
      PROVE  /\ entity # NoName /\ entity # Mob /\ entity # Nobody
             /\ IdOf(db, entity) = PlayerId(db, entity)
  BY <1>2, LinesAssumption DEF IdOf
<1>3. CASE entity \in Names /\ IsPlayerInDb(db, entity)
  <2>1. Register(db, entity) = db
    BY <1>3 DEF Register, AfterGetPlayerId
  <2>2. PlayerId(db, entity) \in DOMAIN db /\ db[PlayerId(db, entity)] = entity
    BY <1>3, KnownName
  <2>3. PlayerId(db, entity) \in Nat
    BY <2>2, SizeFacts
  <2> QED
    BY <1>2, <1>3, <2>1, <2>2, <2>3 DEF KeepsNames, MeansIn, IsPlayerNameSet, Free
<1>4. CASE entity \in Names /\ ~ IsPlayerInDb(db, entity)
  <2> DEFINE new == Register(db, entity)
             id == PlayerId(db, entity)
  <2>1. new = AfterGetPlayerId(db, entity)
    BY <1>4 DEF Register
  <2>2. /\ WellFormed(new) /\ id \in DOMAIN new /\ new[id] = entity
        /\ KeepsNames(db, new)
        /\ (0 \in DOMAIN db => db[0] = NoName) => id = 0
    BY <1>4, <2>1, NewName
  <2>3. id \in Nat
    BY <2>2, SizeFacts
  <2> HIDE DEF new, id
  <2>4. Register(db, entity) = new /\ IdOf(db, entity) = id
    BY <1>2, <1>4 DEF new, id
  <2> QED
    BY <1>2, <1>4, <2>2, <2>3, <2>4 DEF MeansIn, IsPlayerNameSet, Free
<1> QED BY <1>1, <1>3, <1>4
-----------------------------------------------------------------------------
(* The database of encounters *)

Row == [event : {l.event : l \in Lines}, src : Nat \cup {MobId},
        dst : Nat \cup {MobId}, line : Lines]

\* An encounter holds something when it had an enter.
Encounter == {enc \in [table : Seq(Row), begins : Nat, ends : Nat] :
                 enc.begins > 0 => enc.table # << >>}

LEMMA InsertFacts ==
    ASSUME NEW enc \in Encounter, NEW e \in Row
    PROVE  /\ Insert(enc, e) \in Encounter
           /\ Insert(enc, e).table = IF Insert(enc, e).begins > 0
                                     THEN Append(enc.table, e) ELSE enc.table
<1> DEFINE b == enc.begins + IF IsCombatBegin(e) THEN 1 ELSE 0
           n == enc.ends + IF IsCombatEnd(e) THEN 1 ELSE 0
           t == IF b > 0 THEN Append(enc.table, e) ELSE enc.table
<1>1. Insert(enc, e) = [table |-> t, begins |-> b, ends |-> n]
  BY DEF Insert
<1>2. enc.table \in Seq(Row) /\ enc.begins \in Nat /\ enc.ends \in Nat
  BY DEF Encounter
<1>3. b \in Nat /\ n \in Nat
  BY <1>2
<1>4. Append(enc.table, e) \in Seq(Row) /\ Append(enc.table, e) # << >>
  <2> HIDE DEF Row
  <2> QED BY <1>2
<1>5. t \in Seq(Row) /\ (b > 0 => t # << >>) /\ t = IF b > 0 THEN Append(enc.table, e) ELSE enc.table
  BY <1>2, <1>4
<1> HIDE DEF b, n, t
<1> QED BY <1>1, <1>3, <1>5 DEF Encounter

\* What on_combat_event does with an entry that passes the filter.
LEMMA OpenedFacts ==
    ASSUME encounters \in Seq(Encounter), NEW e \in Row
    PROVE  /\ Opened(e) \in Seq(Encounter) /\ Opened(e) # << >>
           /\ \/ encounters # << >> /\ Opened(e) = encounters
              \/ /\ encounters # << >> => LastTable # << >>
                 /\ Opened(e) = Append(encounters, NewEncounter)
<1>1. NewEncounter \in Encounter
  <2>1. << >> \in Seq(Row)
    OBVIOUS
  <2> QED BY <2>1 DEF NewEncounter, Encounter
<1>2. CASE encounters = << >> \/ CombatHasFinished(encounters[Len(encounters)])
  <2>1. Opened(e) = Append(encounters, NewEncounter)
    BY <1>2 DEF Opened
  <2>2. Opened(e) \in Seq(Encounter) /\ Opened(e) # << >>
    <3> HIDE DEF Encounter, NewEncounter
    <3> QED BY <1>1, <2>1
  <2>3. encounters # << >> => LastTable # << >>
    <3> SUFFICES ASSUME encounters # << >> PROVE LastTable # << >>
      OBVIOUS
    <3>1. Len(encounters) \in DOMAIN encounters
      BY LenProperties, EmptySeq
    <3>2. encounters[Len(encounters)] \in Encounter
      BY <3>1, ElementOfSeq, LenProperties
    <3> QED BY <1>2, <3>2 DEF CombatHasFinished, LastTable, Encounter
  <2> QED BY <2>1, <2>2, <2>3
<1>3. CASE ~ (encounters = << >> \/ CombatHasFinished(encounters[Len(encounters)]))
  BY <1>3 DEF Opened
<1> QED BY <1>2, <1>3

LEMMA StoreFacts ==
    ASSUME encounters \in Seq(Encounter), NEW e \in Row, OnCombatEvent(e), ~ Filter(e)
    PROVE  /\ encounters' \in Seq(Encounter)
           /\ encounters' # << >> /\ Len(encounters') = Len(Opened(e))
           /\ \A k \in 1..Len(Opened(e)) :
                 encounters'[k] = IF k = Len(Opened(e)) THEN Insert(Opened(e)[k], e)
                                  ELSE Opened(e)[k]
<1> DEFINE O == Opened(e)
<1>1. O \in Seq(Encounter) /\ O # << >>
  BY OpenedFacts
<1>2. encounters' = [O EXCEPT ![Len(O)] = Insert(O[Len(O)], e)]
  BY DEF OnCombatEvent
<1> HIDE DEF O
<1>3. Len(O) \in 1..Len(O) /\ DOMAIN O = 1..Len(O) /\ Len(O) \in Nat
  BY <1>1, LenProperties, EmptySeq
<1>4. Insert(O[Len(O)], e) \in Encounter
  BY <1>1, <1>3, ElementOfSeq, InsertFacts
<1>5. encounters' \in Seq(Encounter) /\ Len(encounters') = Len(O)
  BY <1>1, <1>2, <1>3, <1>4, ExceptSeq
<1>6. \A k \in 1..Len(O) : encounters'[k] = IF k = Len(O) THEN Insert(O[k], e) ELSE O[k]
  BY <1>2, <1>3
<1>7. encounters' # << >>
  BY <1>3, <1>5, EmptySeq
<1> QED BY <1>5, <1>6, <1>7 DEF O

\* A row that is stored after an entry is that entry, or was stored before.
LEMMA RowsOf ==
    ASSUME encounters \in Seq(Encounter), NEW e \in Row, OnCombatEvent(e)
    PROVE  /\ encounters' \in Seq(Encounter)
           /\ \A k \in DOMAIN encounters' : \A i \in DOMAIN encounters'[k].table :
                 \/ encounters'[k].table[i] = e
                 \/ /\ k \in DOMAIN encounters /\ i \in DOMAIN encounters[k].table
                    /\ encounters'[k].table[i] = encounters[k].table[i]
<1>1. CASE Filter(e)
  BY <1>1 DEF OnCombatEvent
<1>2. CASE ~ Filter(e)
  <2> DEFINE O == Opened(e)
  <2>1. O \in Seq(Encounter)
    BY OpenedFacts
  <2>2. /\ encounters' \in Seq(Encounter) /\ DOMAIN encounters' = 1..Len(O)
        /\ \A k \in 1..Len(O) :
              encounters'[k] = IF k = Len(O) THEN Insert(O[k], e) ELSE O[k]
    BY <1>2, StoreFacts, LenProperties
  <2>3. \A k \in 1..Len(O) :
           \/ k \in DOMAIN encounters /\ O[k] = encounters[k]
           \/ O[k].table = << >>
    <3>1. CASE O = encounters
      BY <3>1, LenProperties
    <3>2. CASE O = Append(encounters, NewEncounter)
      <4>1. /\ Len(encounters) \in Nat /\ DOMAIN encounters = 1..Len(encounters)
            /\ Len(O) = Len(encounters) + 1
            /\ \A k \in 1..Len(encounters) : O[k] = encounters[k]
            /\ O[Len(encounters) + 1] = NewEncounter
        BY <3>2, AppendProperties, LenProperties
      <4> QED BY <4>1 DEF NewEncounter
    <3> QED BY <3>1, <3>2, OpenedFacts
  <2> HIDE DEF O
  <2>4. ASSUME NEW k \in 1..Len(O), NEW i \in DOMAIN encounters'[k].table
        PROVE  \/ encounters'[k].table[i] = e
               \/ i \in DOMAIN O[k].table /\ encounters'[k].table[i] = O[k].table[i]
    <3>1. O[k] \in Encounter
      BY <2>1, ElementOfSeq
    <3>2. O[k].table \in Seq(Row)
      BY <3>1 DEF Encounter
    <3>3. encounters'[k].table = O[k].table \/ encounters'[k].table = Append(O[k].table, e)
      BY <2>2, <3>1, InsertFacts
    <3>4. CASE encounters'[k].table = Append(O[k].table, e)
      <4> DEFINE t == O[k].table
      <4>1. t \in Seq(Row) /\ encounters'[k].table = Append(t, e)
        BY <3>2, <3>4
      <4> HIDE DEF t, Row
      <4>2. /\ Len(t) \in Nat /\ DOMAIN t = 1..Len(t)
            /\ DOMAIN Append(t, e) = 1..Len(t) + 1
            /\ \A j \in 1..Len(t) : Append(t, e)[j] = t[j]
            /\ Append(t, e)[Len(t) + 1] = e
        BY <4>1, AppendProperties, LenProperties
      <4> QED BY <4>1, <4>2 DEF t
    <3> QED BY <3>3, <3>4
  <2>5. ASSUME NEW k \in 1..Len(O), O[k].table = << >>
        PROVE  \A i \in DOMAIN O[k].table : FALSE
    BY <2>5
  <2> QED BY <2>2, <2>3, <2>4, <2>5
<1> QED BY <1>1, <1>2
-----------------------------------------------------------------------------
(* A line of the log *)

Handles(l) == OnLine(l) \/ \E n \in 0..2 : OnBadLine(l, n)

LEMMA LineEntities ==
    ASSUME NEW l \in Lines
    PROVE  l.src \in Entities /\ l.dst \in Entities
BY LinesAssumption DEF Entities

\* Whether it can be parsed or not, no stored name moves.
LEMMA LineKeepsNames ==
    ASSUME WellFormed(players), NEW l \in Lines, Handles(l)
    PROVE  WellFormed(players') /\ KeepsNames(players, players')
<1> DEFINE one == Register(players, l.src)
           two == Register(one, l.dst)
<1>1. WellFormed(one) /\ KeepsNames(players, one)
  BY LineEntities, RegisterFacts
<1>2. WellFormed(two) /\ KeepsNames(one, two)
  BY <1>1, LineEntities, RegisterFacts
<1>3. KeepsNames(players, two) /\ KeepsNames(players, players)
  BY <1>1, <1>2 DEF KeepsNames
<1>4. players' \in {players, one, two}
  BY DEF Handles, OnLine, OnBadLine
<1> QED BY <1>1, <1>2, <1>3, <1>4

\* The first line of a log gives the owner id 0, if nothing stands in the way.
LEMMA FirstLine ==
    ASSUME WellFormed(players), NEW l \in Lines, l.src \in Names,
           Free(players, l.src), OnLine(l) \/ \E n \in 1..2 : OnBadLine(l, n)
    PROVE  0 \in DOMAIN players' /\ players'[0] = l.src
<1> DEFINE one == Register(players, l.src)
           two == Register(one, l.dst)
<1>1. WellFormed(one) /\ 0 \in DOMAIN one /\ one[0] = l.src
  BY LineEntities, RegisterFacts
<1>2. KeepsNames(one, two)
  BY <1>1, LineEntities, RegisterFacts
<1>3. 0 \in DOMAIN two /\ two[0] = l.src
  BY <1>1, <1>2, LinesAssumption DEF KeepsNames
<1>4. players' \in {one, two}
  BY DEF OnLine, OnBadLine
<1> QED BY <1>1, <1>3, <1>4

\* The entry of a line means what the line says.
LEMMA EntryFacts ==
    ASSUME WellFormed(players), NEW l \in Lines, OnLine(l)
    PROVE  /\ EntryOf(l) \in Row /\ EntryOf(l).line = l
           /\ MeansIn(players', EntryOf(l).src, l.src)
           /\ MeansIn(players', EntryOf(l).dst, l.dst)
<1> DEFINE one == Register(players, l.src)
           two == Register(one, l.dst)
<1>1. /\ WellFormed(one) /\ MeansIn(one, IdOf(players, l.src), l.src)
      /\ IdOf(players, l.src) \in Nat \cup {MobId}
  BY LineEntities, RegisterFacts
<1>2. /\ KeepsNames(one, two) /\ MeansIn(two, IdOf(one, l.dst), l.dst)
      /\ IdOf(one, l.dst) \in Nat \cup {MobId}
  BY <1>1, LineEntities, RegisterFacts
<1>3. players' = two
  BY DEF OnLine
<1>4. MeansIn(two, IdOf(players, l.src), l.src)
  BY <1>1, <1>2 DEF MeansIn, KeepsNames, IsPlayerNameSet
<1>5. /\ EntryOf(l) = [event |-> l.event, src |-> IdOf(players, l.src),
                       dst |-> IdOf(one, l.dst), line |-> l]
  BY DEF EntryOf
<1>6. EntryOf(l) \in Row
  BY <1>1, <1>2, <1>5 DEF Row
<1> QED BY <1>2, <1>3, <1>4, <1>5, <1>6

-----------------------------------------------------------------------------
(* The two databases together *)

RowMeans(db, row) == MeansIn(db, row.src, row.line.src) /\ MeansIn(db, row.dst, row.line.dst)

\* The rows mean what their lines said; and when nothing is tracked there are
\* none, so the next log may give id 0 to somebody else.
Databases ==
    /\ WellFormed(players)
    /\ encounters \in Seq(Encounter)
    /\ tail \in Lines \cup {NoLine}
    /\ tracking \/ encounters = << >>
    /\ \A k \in DOMAIN encounters : \A i \in DOMAIN encounters[k].table :
          RowMeans(players, encounters[k].table[i])

LEMMA KeptMeaning ==
    ASSUME NEW old, NEW new, KeepsNames(old, new), NEW row, RowMeans(old, row)
    PROVE  RowMeans(new, row)
BY DEF KeepsNames, RowMeans, MeansIn, IsPlayerNameSet

LEMMA RemoveFacts ==
    ASSUME NEW db, WellFormed(db)
    PROVE  /\ WellFormed(RemovePlayerName(db, 0))
           /\ 0 \in DOMAIN RemovePlayerName(db, 0) => RemovePlayerName(db, 0)[0] = NoName
<1>1. CASE 0 \notin DOMAIN db
  BY <1>1 DEF RemovePlayerName
<1>2. CASE 0 \in DOMAIN db
  <2> DEFINE new == [db EXCEPT ![0] = NoName]
  <2>1. /\ RemovePlayerName(db, 0) = new /\ DOMAIN new = DOMAIN db /\ new[0] = NoName
        /\ \A i \in DOMAIN db : i # 0 => new[i] = db[i]
    BY <1>2 DEF RemovePlayerName
  <2>2. \E n \in Nat : new \in [0..n - 1 -> Names \cup {NoName}]
    BY DEF WellFormed
  <2> HIDE DEF new
  <2>3. \A i \in DOMAIN new : new[i] = NoName => i = 0
    BY <2>1 DEF WellFormed
  <2>4. \A i, j \in DOMAIN new : new[i] = new[j] => i = j
    BY <2>1, <2>3 DEF WellFormed
  <2>5. WellFormed(new)
    BY <2>2, <2>3, <2>4 DEF WellFormed
  <2> QED BY <2>1, <2>5
<1> QED BY <1>1, <1>2

LEMMA LineDatabases ==
    ASSUME Databases, tracking, tracking' = tracking, tail' \in {tail, NoLine},
           NEW l \in Lines, Handles(l)
    PROVE  Databases'
<1>1. WellFormed(players') /\ KeepsNames(players, players')
  BY LineKeepsNames DEF Databases
<1>2. CASE OnLine(l)
  <2> DEFINE e == EntryOf(l)
  <2>1. e \in Row /\ RowMeans(players', e)
    BY <1>2, EntryFacts DEF Databases, RowMeans
  <2>2. OnCombatEvent(e)
    BY <1>2 DEF OnLine
  <2> HIDE DEF e
  <2>3. /\ encounters' \in Seq(Encounter)
        /\ \A k \in DOMAIN encounters' : \A i \in DOMAIN encounters'[k].table :
              \/ encounters'[k].table[i] = e
              \/ /\ k \in DOMAIN encounters /\ i \in DOMAIN encounters[k].table
                 /\ encounters'[k].table[i] = encounters[k].table[i]
    BY <2>1, <2>2, RowsOf DEF Databases
  <2>4. \A k \in DOMAIN encounters' : \A i \in DOMAIN encounters'[k].table :
           RowMeans(players', encounters'[k].table[i])
    BY <1>1, <2>1, <2>3, KeptMeaning DEF Databases
  <2> QED BY <1>1, <2>3, <2>4 DEF Databases
<1>3. CASE \E n \in 0..2 : OnBadLine(l, n)
  <2>1. encounters' = encounters
    BY <1>3 DEF OnBadLine
  <2>2. \A k \in DOMAIN encounters' : \A i \in DOMAIN encounters'[k].table :
           RowMeans(players', encounters'[k].table[i])
    BY <1>1, <2>1, KeptMeaning DEF Databases
  <2> QED BY <1>1, <2>1, <2>2 DEF Databases
<1> QED BY <1>2, <1>3 DEF Handles

LEMMA NextDatabases == Databases /\ [ClientNext]_allVars => Databases'
<1> SUFFICES ASSUME Databases, [ClientNext]_allVars PROVE Databases'
  OBVIOUS
<1>1. ASSUME UNCHANGED <<encounters, players, tail, tracking>> PROVE Databases'
  BY <1>1 DEF Databases
<1>2. ASSUME NEW l \in Lines, Line(l) PROVE Databases'
  <2>1. Handles(l)
    BY <1>2 DEF Line, Handles
  <2> QED BY <1>2, <2>1, LineDatabases DEF Line, appVars
<1>3. CASE GluedLine
  <2>1. tail \in Lines
    BY <1>3 DEF GluedLine, Databases
  <2>2. Handles(tail)
    BY <1>3 DEF GluedLine, Handles
  <2> QED BY <1>3, <2>1, <2>2, LineDatabases DEF GluedLine
<1>4. ASSUME NEW o \in Names, StartTracking(o) PROVE Databases'
  <2>1. /\ encounters = << >> /\ encounters' = encounters /\ tail' = tail /\ tracking' = TRUE
        /\ players' = RemovePlayerName(players, 0)
    BY <1>4 DEF StartTracking, Databases, NewLog, dbVars
  <2> QED BY <2>1, RemoveFacts DEF Databases
<1>5. CASE StopTracking
  <2>1. encounters' = << >>
    BY <1>5 DEF StopTracking, Clear, dbVars
  <2>2. players' = players /\ tail' \in Lines \cup {NoLine}
    BY <1>5 DEF StopTracking, ForgetDisplay, clientVars, Databases
  <2>3. << >> \in Seq(Encounter)
    BY EmptySeq
  <2> QED BY <2>1, <2>2, <2>3 DEF Databases
<1>6. CASE SetDisplayMode \/ ReadLog \/ UpdateUi \/ UNCHANGED allVars
  BY <1>1, <1>6 DEF SetDisplayMode, ReadLog, UpdateUi, allVars, dbVars, clientVars, appVars
<1> QED BY <1>2, <1>3, <1>4, <1>5, <1>6 DEF ClientNext

LEMMA InitDatabases == ClientInit => Databases
<1> SUFFICES ASSUME ClientInit PROVE Databases
  OBVIOUS
<1>1. /\ players = EmptyDb /\ encounters = << >> /\ tail = NoLine
  BY DEF ClientInit, Init
<1>2. DOMAIN EmptyDb = {} /\ EmptyDb \in [0..0 - 1 -> Names \cup {NoName}]
  BY DEF EmptyDb
<1>3. WellFormed(EmptyDb)
  BY <1>2 DEF WellFormed
<1>4. << >> \in Seq(Encounter)
  BY EmptySeq
<1> QED BY <1>1, <1>3, <1>4 DEF Databases

LEMMA DatabasesHold == ClientSpec => []Databases
BY InitDatabases, NextDatabases, PTL DEF ClientSpec

\* An id that a stored row uses keeps its meaning as long as the row is stored,
\* though new_log empties slot 0 and get_player_id fills it anew.
THEOREM RowsKeepTheirNames == ClientSpec => []RowsKeepNames
<1>1. Databases => RowsKeepNames
  <2> SUFFICES ASSUME Databases, NEW k \in DOMAIN encounters,
                      NEW i \in DOMAIN encounters[k].table
               PROVE  LET row == encounters[k].table[i]
                      IN  Means(row.src, row.line.src) /\ Means(row.dst, row.line.dst)
    BY DEF RowsKeepNames
  <2> DEFINE row == encounters[k].table[i]
  <2>1. encounters[k] \in Encounter
    BY ElementOfSeq, LenProperties DEF Databases
  <2>2. row \in Row
    BY <2>1, ElementOfSeq, LenProperties DEF Encounter
  <2>3. row.line \in Lines
    BY <2>2 DEF Row
  <2>4. RowMeans(players, row)
    BY DEF Databases
  <2> HIDE DEF row
  <2>5. ASSUME NEW id, NEW entity \in Entities, MeansIn(players, id, entity)
        PROVE  Means(id, entity)
    BY <2>5, LinesAssumption DEF MeansIn, Means, Entities
  <2>6. Means(row.src, row.line.src) /\ Means(row.dst, row.line.dst)
    BY <2>3, <2>4, <2>5, LineEntities DEF RowMeans
  <2> QED BY <2>6 DEF row
<1> QED BY <1>1, DatabasesHold, PTL
-----------------------------------------------------------------------------
(* The owner of the log *)

\* Until the first line of an undisturbed log is read its owner is unknown and slot
\* 0 is free; from then on the owner is there.
Ownership ==
    /\ tracking => owner \in Names
    /\ tracking /\ clean => tail = NoLine
    /\ tracking /\ clean /\ ~ begun => Free(players, owner)
    /\ begun /\ clean =>
          owner \in Names /\ 0 \in DOMAIN players /\ players[0] = owner

LEMMA NextOwnership == Databases /\ Ownership /\ [ClientNext]_allVars => Ownership'
<1> SUFFICES ASSUME Databases, Ownership, [ClientNext]_allVars PROVE Ownership'
  OBVIOUS
<1>1. ASSUME UNCHANGED <<players, owner, clean, begun>>,
             tracking' = tracking \/ tracking' = FALSE,
             tracking' = tracking => tail' = tail
      PROVE  Ownership'
  BY <1>1 DEF Ownership
<1>2. ASSUME NEW l \in Lines, Line(l) PROVE Ownership'
  <2>1. /\ Handles(l) /\ UNCHANGED <<tracking, tail, owner, clean>> /\ begun' = TRUE
        /\ tracking
        /\ ~ begun => l.src = owner
        /\ OnLine(l) \/ \E n \in 1..2 : OnBadLine(l, n)
    BY <1>2 DEF Line, Handles, appVars
  <2>2. KeepsNames(players, players')
    BY <2>1, LineKeepsNames DEF Databases
  <2>3. CASE begun
    <3>1. begun /\ clean => 0 \in DOMAIN players' /\ players'[0] = owner
      BY <2>2, LinesAssumption DEF Ownership, KeepsNames
    <3> QED BY <2>1, <2>3, <3>1 DEF Ownership
  <2>4. CASE ~ begun
    <3>1. clean => 0 \in DOMAIN players' /\ players'[0] = owner
      BY <2>1, <2>4, FirstLine DEF Ownership, Databases
    <3> QED BY <2>1, <2>4, <3>1 DEF Ownership
  <2> QED BY <2>3, <2>4
<1>3. CASE GluedLine
  <2>1. tracking /\ tail # NoLine /\ UNCHANGED <<tracking, owner, clean>> /\ begun' = TRUE
    BY <1>3 DEF GluedLine
  <2>2. ~ clean
    BY <2>1 DEF Ownership
  <2> QED BY <2>1, <2>2 DEF Ownership
<1>4. ASSUME NEW o \in Names, StartTracking(o) PROVE Ownership'
  <2>1. /\ owner' = o /\ tail' = tail /\ begun' = FALSE
        /\ players' = RemovePlayerName(players, 0)
        /\ clean' = (tail = NoLine /\ ~ IsPlayerInDb(players', o))
    BY <1>4 DEF StartTracking, NewLog
  <2>2. 0 \in DOMAIN players' => players'[0] = NoName
    BY <2>1, RemoveFacts DEF Databases
  <2> QED BY <2>1, <2>2 DEF Ownership, Free
<1>5. CASE StopTracking
  BY <1>1, <1>5 DEF StopTracking, ForgetDisplay, clientVars, logHistory, Ownership
<1>6. CASE SetDisplayMode \/ ReadLog \/ UpdateUi \/ UNCHANGED allVars
  BY <1>1, <1>6 DEF SetDisplayMode, ReadLog, UpdateUi, allVars, clientVars, appVars, logHistory
<1> QED BY <1>2, <1>3, <1>4, <1>5, <1>6 DEF ClientNext

LEMMA OwnershipHolds == ClientSpec => []Ownership
<1>1. ClientInit => Ownership
  BY DEF ClientInit, Ownership
<1> QED BY <1>1, NextOwnership, DatabasesHold, PTL DEF ClientSpec

\* Id 0, which the client takes for the local player, is the player who wrote the
\* log, unless an earlier log gets in the way.
THEOREM OwnerHasIdZero == ClientSpec => []OwnerIsZero
<1>1. Ownership => OwnerIsZero
  BY DEF Ownership, OwnerIsZero
<1> QED BY <1>1, OwnershipHolds, PTL

-----------------------------------------------------------------------------
(* What is sent *)

Packets == [kind : {"name"}, name : Names \cup {NoName}] \cup [kind : {"event"}, line : Lines]

Announced ==
    /\ link \in Seq(Packets)
    /\ mark \in 0..Len(link)
    /\ name_send \in BOOLEAN
    /\ name_send <=> link # << >>
    /\ AnnouncesName

LEMMA LineSends ==
    ASSUME Databases, NEW l \in Lines, Handles(l), link \in Seq(Packets)
    PROVE  \/ UNCHANGED <<link, name_send>>
           \/ /\ name_send /\ name_send' = TRUE
              /\ link' = link \o <<EventMessage(l)>>
           \/ /\ ~ name_send /\ name_send' = TRUE
              /\ link' = link \o <<NameMessage(PlayerName(players')), EventMessage(l)>>
<1>1. CASE OnLine(l)
  BY <1>1 DEF OnLine, Sent, EntryOf
<1>2. CASE \E n \in 0..2 : OnBadLine(l, n)
  BY <1>2 DEF OnBadLine
<1> QED BY <1>1, <1>2 DEF Handles

LEMMA LineAnnounces ==
    ASSUME Databases, Announced, NEW l \in Lines, Handles(l), mark' = mark,
           clean' => 0 \in DOMAIN players' /\ players'[0] = owner',
           clean' = clean, owner' = owner
    PROVE  Announced'
<1>1. CASE UNCHANGED <<link, name_send>>
  BY <1>1 DEF Announced, AnnouncesName
<1>n. NameMessage(PlayerName(players')) \in Packets /\ EventMessage(l) \in Packets
  <2>1. WellFormed(players')
    BY LineKeepsNames DEF Databases
  <2> QED BY <2>1 DEF Packets, NameMessage, EventMessage, PlayerName, WellFormed
<1>2. CASE /\ name_send /\ name_send' = TRUE
           /\ link' = link \o <<EventMessage(l)>>
  <2> DEFINE m == EventMessage(l)
  <2>1. m \in Packets /\ m.kind = "event" /\ link' = link \o <<m>>
    BY <1>2, <1>n DEF EventMessage
  <2> HIDE DEF m, Packets
  <2>2. /\ link' \in Seq(Packets) /\ Len(link') = Len(link) + 1
        /\ Len(link) \in Nat \ {0}
        /\ \A k \in 1..Len(link) : link'[k] = link[k]
        /\ link'[Len(link) + 1] = m
        /\ DOMAIN link = 1..Len(link) /\ DOMAIN link' = 1..Len(link) + 1
    BY <1>2, <2>1, EmptySeq, LenProperties DEF Announced
  <2>3. AnnouncesName'
    <3>1. \A k \in DOMAIN link' : link'[k].kind = "name" <=> k = 1
      BY <2>1, <2>2 DEF Announced, AnnouncesName
    <3>2. link'[1] = link[1] /\ link # << >>
      BY <1>2, <2>2 DEF Announced
    <3> QED BY <3>1, <3>2 DEF Announced, AnnouncesName
  <2> QED BY <1>2, <2>2, <2>3, EmptySeq DEF Announced
<1>3. CASE /\ ~ name_send /\ name_send' = TRUE
           /\ link' = link \o <<NameMessage(PlayerName(players')), EventMessage(l)>>
  <2> DEFINE m == EventMessage(l)
             h == NameMessage(PlayerName(players'))
  <2>1. /\ m \in Packets /\ m.kind = "event"
        /\ h \in Packets /\ h.kind = "name" /\ h.name = PlayerName(players')
        /\ link' = link \o <<h, m>>
    BY <1>3, <1>n DEF EventMessage, NameMessage
  <2> HIDE DEF m, h, Packets
  <2>2. link = << >>
    BY <1>3 DEF Announced
  <2>3. link' = <<h, m>>
    BY <2>1, <2>2
  <2>e. link'[1] = h /\ link'[2] = m /\ DOMAIN link' = {1, 2}
    BY <2>3
  <2>4. \A k \in DOMAIN link' : link'[k].kind = "name" <=> k = 1
    BY <2>1, <2>e
  <2>5. clean' => link'[1].name = owner'
    BY <2>1, <2>3 DEF PlayerName
  <2>6. AnnouncesName'
    BY <2>4, <2>5 DEF AnnouncesName
  <2>7. link' \in Seq(Packets) /\ Len(link') = 2 /\ mark = 0
    BY <2>1, <2>2, <2>3 DEF Announced
  <2> QED BY <1>3, <2>3, <2>6, <2>7 DEF Announced
<1> QED BY <1>1, <1>2, <1>3, LineSends DEF Announced

LEMMA NextAnnounced ==
    Databases /\ Ownership /\ Ownership' /\ Announced /\ [ClientNext]_allVars => Announced'
<1> SUFFICES ASSUME Databases, Ownership, Ownership', Announced, [ClientNext]_allVars
             PROVE  Announced'
  OBVIOUS
<1>1. ASSUME NEW l \in Lines, Line(l) PROVE Announced'
  <2>1. Handles(l) /\ UNCHANGED <<owner, clean, mark>> /\ begun' = TRUE
    BY <1>1 DEF Line, Handles
  <2> QED BY <2>1, LineAnnounces DEF Ownership
<1>2. CASE GluedLine
  <2>1. tail \in Lines
    BY <1>2 DEF GluedLine, Databases
  <2>2. Handles(tail) /\ UNCHANGED <<owner, clean, mark>> /\ begun' = TRUE
    BY <1>2 DEF GluedLine, Handles
  <2> QED BY <2>1, <2>2, LineAnnounces DEF Ownership
<1>3. ASSUME NEW o \in Names, StartTracking(o) PROVE Announced'
  <2>1. UNCHANGED <<link, name_send>> /\ mark' = Len(link)
    BY <1>3 DEF StartTracking
  <2>2. Len(link) \in Nat /\ (Len(link) = 0 => link = << >>)
    BY EmptySeq, LenProperties DEF Announced
  <2> QED BY <2>1, <2>2 DEF Announced, AnnouncesName
<1>4. CASE StopTracking \/ SetDisplayMode \/ ReadLog \/ UpdateUi \/ UNCHANGED allVars
  <2>1. UNCHANGED <<link, name_send, mark, clean, owner>>
    BY <1>4 DEF StopTracking, ForgetDisplay, SetDisplayMode, ReadLog, UpdateUi, allVars,
       clientVars, logHistory
  <2> QED BY <2>1 DEF Announced, AnnouncesName
<1> QED BY <1>1, <1>2, <1>3, <1>4 DEF ClientNext

LEMMA AnnouncedHolds == ClientSpec => []Announced
<1>1. ClientInit => Announced
  <2> SUFFICES ASSUME ClientInit PROVE Announced
    OBVIOUS
  <2>1. link = << >> /\ mark = 0 /\ name_send = FALSE
    BY DEF ClientInit
  <2>2. link \in Seq(Packets) /\ mark \in 0..Len(link)
    BY <2>1, EmptySeq
  <2> QED BY <2>1, <2>2 DEF Announced, AnnouncesName
<1> QED BY <1>1, NextAnnounced, DatabasesHold, OwnershipHolds, PTL DEF ClientSpec

\* The name is sent once, before all events, and it is the owner's.
THEOREM NameComesFirst == ClientSpec => []AnnouncesName
<1>1. Announced => AnnouncesName
  BY DEF Announced
<1> QED BY <1>1, AnnouncedHolds, PTL
-----------------------------------------------------------------------------
(* Which events are sent *)

\* There are fewer players than the smallest id of a mob.
LEMMA MobsAreNoPlayers ==
    ASSUME NEW db, WellFormed(db)
    PROVE  MobId \notin DOMAIN db
<1> SUFFICES ASSUME MobId \in DOMAIN db PROVE FALSE
  OBVIOUS
<1>1. PICK n \in Nat : db \in [0..n - 1 -> Names \cup {NoName}]
  BY DEF WellFormed
<1> DEFINE m == MobId
           f == [i \in 1..m |-> db[i]]
<1>2. m \in Nat /\ m > Cardinality(Names) /\ m <= n - 1 /\ IsFiniteSet(Names)
  BY <1>1, IdsAssumption
<1>3. Cardinality(Names) \in Nat
  BY <1>2, FS_CardinalityType
<1>4. \A i \in 1..m : i \in DOMAIN db /\ db[i] \in Names
  <2>1. \A i \in 1..m : i \in 0..n - 1 /\ i # 0
    BY <1>1, <1>2
  <2> HIDE DEF m
  <2> QED BY <1>1, <2>1 DEF WellFormed
<1> HIDE DEF m
<1>5. f \in Injection(1..m, Names)
  <2>1. f \in [1..m -> Names]
    BY <1>4
  <2>2. \A i, j \in 1..m : f[i] = f[j] => i = j
    BY <1>4 DEF WellFormed
  <2> HIDE DEF f
  <2> QED BY <2>1, <2>2 DEF Injection, IsInjective
<1> HIDE DEF f
<1>6. Cardinality(1..m) = m
  BY <1>2, FS_Interval
<1>7. Cardinality(1..m) <= Cardinality(Names)
  BY <1>2, <1>5, FS_Injection
<1> QED BY <1>2, <1>3, <1>6, <1>7

\* When the local player is the owner of the log, the lines that are not sent are those
\* of other players.
LEMMA WhoIsSkipped ==
    ASSUME WellFormed(players), NEW l \in Lines, OnLine(l),
           NEW o \in Names, 0 \in DOMAIN players', players'[0] = o
    PROVE  SkipCombatEventSend(players', EntryOf(l)) <=> l.src \in Names \ {o}
<1> DEFINE id == EntryOf(l).src
<1>1. MeansIn(players', id, l.src)
  BY EntryFacts
<1>2. WellFormed(players')
  BY LineKeepsNames DEF Handles
<1>3. SkipCombatEventSend(players', EntryOf(l)) <=> id # 0 /\ IsPlayerNameSet(players', id)
  BY DEF SkipCombatEventSend, IsPlayer
<1> HIDE DEF id
<1>4. CASE l.src \in Names
  <2>1. id \in DOMAIN players' /\ players'[id] = l.src /\ IsPlayerNameSet(players', id)
    BY <1>1, <1>4 DEF MeansIn, IsPlayerNameSet
  <2>2. id = 0 <=> l.src = o
    BY <1>2, <2>1 DEF WellFormed
  <2> QED BY <1>3, <1>4, <2>1, <2>2
<1>5. CASE l.src = Mob
  <2>1. id \notin DOMAIN players'
    BY <1>1, <1>2, <1>5, MobsAreNoPlayers DEF MeansIn
  <2> QED BY <1>3, <1>5, <2>1, LinesAssumption DEF IsPlayerNameSet
<1>6. CASE l.src = Nobody
  BY <1>1, <1>3, <1>6, LinesAssumption DEF MeansIn
<1> QED BY <1>4, <1>5, <1>6, LineEntities DEF Entities

\* What SendsOwnEvents says of a log that nothing gets in the way of.
Exact ==
    /\ Cardinality(EventsSent) = Cardinality(OwnLines)
    /\ \A k \in EventsSent, j \in OwnLines :
          Rank(EventsSent, k) = Rank(OwnLines, j) => link[k] = EventMessage(read[j])

LEMMA RanksOfMore ==
    ASSUME NEW n \in Nat, NEW S \in SUBSET (1..n), NEW T, T = S \cup {n + 1}
    PROVE  /\ Cardinality(S) \in Nat /\ Cardinality(T) = Cardinality(S) + 1
           /\ Rank(T, n + 1) = Cardinality(S) + 1
           /\ \A k \in S : /\ Rank(T, k) = Rank(S, k)
                           /\ Rank(S, k) \in Nat /\ Rank(S, k) <= Cardinality(S)
BY RankFacts DEF Rank

\* One more event at the end of what was sent, possibly behind the name, and one more line
\* at the end of what was read.
LEMMA OneMoreSent ==
    ASSUME NEW n \in Nat, NEW p \in Nat, n <= p, Len(link) = n, Len(link') = p + 1,
           mark \in 0..n, mark' = mark, owner' = owner,
           \A k \in 1..n : link'[k] = link[k],
           \A k \in n + 1..p : link'[k].kind # "event",
           read \in Seq(Lines), NEW l \in Lines, l.src \notin Names \ {owner},
           link'[p + 1] = EventMessage(l), read' = Append(read, l), Exact
    PROVE  Exact'
<1> DEFINE C == EventsSent
           E == OwnLines
           r == Len(read)
           C2 == C \cup {p + 1}
           E2 == E \cup {r + 1}
<1>1. /\ r \in Nat /\ DOMAIN read = 1..r /\ DOMAIN read' = 1..r + 1
      /\ read'[r + 1] = l /\ \A j \in 1..r : read'[j] = read[j]
  BY LenProperties, AppendProperties
<1>2. C \in SUBSET (1..p) /\ EventsSent' = C2
  <2>1. link'[p + 1].kind = "event"
    BY DEF EventMessage
  <2>2. C = {k \in mark + 1..n : link[k].kind = "event"}
    BY DEF EventsSent
  <2>3. EventsSent' = {k \in mark + 1..p + 1 : link'[k].kind = "event"}
    BY DEF EventsSent
  <2>4. \A k : k \in mark + 1..p + 1 <=> k \in mark + 1..n \/ k \in n + 1..p \/ k = p + 1
    OBVIOUS
  <2>5. \A k \in mark + 1..n : k \in 1..n /\ k \in 1..p
    OBVIOUS
  <2> HIDE DEF C
  <2> QED BY <2>1, <2>2, <2>3, <2>4, <2>5
<1>3. E \in SUBSET (1..r) /\ OwnLines' = E2
  <2>1. E = {j \in 1..r : read[j].src \notin Names \ {owner}}
    BY <1>1 DEF OwnLines
  <2>2. OwnLines' = {j \in 1..r + 1 : read'[j].src \notin Names \ {owner}}
    BY <1>1 DEF OwnLines
  <2>3. \A j : j \in 1..r + 1 <=> j \in 1..r \/ j = r + 1
    BY <1>1
  <2> HIDE DEF E, r
  <2> QED BY <1>1, <2>1, <2>2, <2>3
<1>4. Cardinality(C) = Cardinality(E)
  BY DEF Exact
<1>5. \A k \in C, j \in E : Rank(C, k) = Rank(E, j) => link[k] = EventMessage(read[j])
  BY DEF Exact
<1>6. \A k \in C : k \in 1..n
  BY DEF EventsSent
<1> HIDE DEF C, E, r
<1>7. /\ Cardinality(C) \in Nat /\ Cardinality(C2) = Cardinality(C) + 1
      /\ Rank(C2, p + 1) = Cardinality(C) + 1
      /\ \A k \in C : /\ Rank(C2, k) = Rank(C, k)
                      /\ Rank(C, k) \in Nat /\ Rank(C, k) <= Cardinality(C)
  BY <1>2, RanksOfMore
<1>r. r \in Nat /\ E \in SUBSET (1..r)
  BY <1>1, <1>3
<1>8. /\ Cardinality(E) \in Nat /\ Cardinality(E2) = Cardinality(E) + 1
      /\ Rank(E2, r + 1) = Cardinality(E) + 1
      /\ \A j \in E : /\ Rank(E2, j) = Rank(E, j)
                      /\ Rank(E, j) \in Nat /\ Rank(E, j) <= Cardinality(E)
  BY <1>r, RanksOfMore
<1>9. ASSUME NEW k \in C2, NEW j \in E2, Rank(C2, k) = Rank(E2, j)
      PROVE  link'[k] = EventMessage(read'[j])
  <2>1. CASE k \in C /\ j \in E
    <3>1. Rank(C, k) = Rank(E, j)
      BY <1>7, <1>8, <1>9, <2>1
    <3>2. link[k] = EventMessage(read[j])
      BY <1>5, <2>1, <3>1
    <3>3. link'[k] = link[k] /\ read'[j] = read[j]
      BY <1>1, <1>3, <1>6, <2>1
    <3> QED BY <3>2, <3>3
  <2>2. CASE k = p + 1 /\ j = r + 1
    BY <1>1, <2>2
  <2>3. CASE k = p + 1 /\ j \in E
    BY <1>4, <1>7, <1>8, <1>9, <2>3
  <2>4. CASE k \in C /\ j = r + 1
    BY <1>4, <1>7, <1>8, <1>9, <2>4
  <2> QED BY <2>1, <2>2, <2>3, <2>4
<1> HIDE DEF C2, E2
<1>10. Cardinality(EventsSent') = Cardinality(OwnLines')
  BY <1>2, <1>3, <1>4, <1>7, <1>8
<1>11. \A k \in EventsSent', j \in OwnLines' :
          Rank(EventsSent', k) = Rank(OwnLines', j) => link'[k] = EventMessage(read'[j])
  BY <1>2, <1>3, <1>9
<1> QED BY <1>10, <1>11 DEF Exact, Rank, EventMessage

\* A line of another player adds nothing to either side.
LEMMA NothingSent ==
    ASSUME read \in Seq(Lines), NEW l \in Lines, l.src \in Names \ {owner},
           read' = Append(read, l), UNCHANGED <<link, mark, owner>>, Exact
    PROVE  Exact'
<1> DEFINE r == Len(read)
<1>1. /\ r \in Nat /\ DOMAIN read = 1..r /\ DOMAIN read' = 1..r + 1
      /\ read'[r + 1] = l /\ \A j \in 1..r : read'[j] = read[j]
  BY LenProperties, AppendProperties
<1> HIDE DEF r
<1>2. OwnLines' = OwnLines
  <2>1. \A j : j \in 1..r + 1 <=> j \in 1..r \/ j = r + 1
    BY <1>1
  <2> QED BY <1>1, <2>1 DEF OwnLines
<1>3. EventsSent' = EventsSent
  BY DEF EventsSent
<1>4. \A j \in OwnLines : read'[j] = read[j]
  BY <1>1 DEF OwnLines
<1>5. Cardinality(EventsSent') = Cardinality(OwnLines')
  BY <1>2, <1>3 DEF Exact
<1>6. \A k \in EventsSent', j \in OwnLines' :
         Rank(EventsSent', k) = Rank(OwnLines', j) => link'[k] = EventMessage(read'[j])
  <2>1. ASSUME NEW k \in EventsSent, NEW j \in OwnLines, Rank(EventsSent, k) = Rank(OwnLines, j)
        PROVE  link'[k] = EventMessage(read'[j])
    <3>1. link[k] = EventMessage(read[j])
      BY <2>1 DEF Exact
    <3> QED BY <1>4, <3>1
  <2> QED BY <1>2, <1>3, <2>1
<1> QED BY <1>5, <1>6 DEF Exact, Rank, EventMessage

Sends == read \in Seq(Lines) /\ SendsOwnEvents

LEMMA LineSendsOwn ==
    ASSUME Databases, Announced, Sends, NEW l \in Lines, Handles(l),
           UNCHANGED <<mark, owner, clean>>,
           clean => owner \in Names /\ 0 \in DOMAIN players' /\ players'[0] = owner
    PROVE  Sends'
<1>1. CASE \E n \in 0..2 : OnBadLine(l, n)
  <2>1. UNCHANGED <<link, read>>
    BY <1>1 DEF OnBadLine
  <2> QED BY <2>1 DEF Sends, SendsOwnEvents, EventsSent, OwnLines, Rank
<1>2. CASE OnLine(l)
  <2>1. read' = Append(read, l) /\ read \in Seq(Lines)
    BY <1>2 DEF OnLine, Sends
  <2>2. read' \in Seq(Lines)
    BY <2>1, AppendProperties
  <2>3. SUFFICES ASSUME clean PROVE Exact'
    BY <2>2, <2>3 DEF Sends, SendsOwnEvents, Exact
  <2>4. Exact
    BY <2>3 DEF Sends, SendsOwnEvents, Exact
  <2>5. SkipCombatEventSend(players', EntryOf(l)) <=> l.src \in Names \ {owner}
    BY <1>2, <2>3, WhoIsSkipped DEF Databases
  <2>6. CASE l.src \in Names \ {owner}
    <3>1. UNCHANGED link
      BY <1>2, <2>5, <2>6 DEF OnLine
    <3> QED BY <2>1, <2>4, <2>6, <3>1, NothingSent
  <2>7. CASE l.src \notin Names \ {owner}
    <3> DEFINE n == Len(link)
               m == EventMessage(l)
               h == NameMessage(PlayerName(players'))
    <3>1. link' = link \o <<m>> \/ link' = link \o <<h, m>>
      BY <1>2, <2>5, <2>7 DEF OnLine, Sent, EntryOf
    <3>2. /\ n \in Nat /\ mark \in 0..n /\ link \in Seq(Packets)
      BY LenProperties DEF Announced
    <3>3. h.kind # "event"
      BY DEF NameMessage
    <3> HIDE DEF m, h, Packets
    <3>4. CASE link' = link \o <<m>>
      <4>1. /\ Len(link') = n + 1 /\ link'[n + 1] = m
            /\ \A k \in 1..n : link'[k] = link[k]
        BY <3>2, <3>4
      <4> HIDE DEF n
      <4>2. \A k \in n + 1..n : FALSE
        BY <3>2
      <4> QED BY <2>1, <2>4, <2>7, <3>2, <4>1, <4>2, OneMoreSent DEF m, n
    <3>5. CASE link' = link \o <<h, m>>
      <4>1. /\ Len(link') = (n + 1) + 1 /\ link'[n + 1] = h /\ link'[(n + 1) + 1] = m
            /\ \A k \in 1..n : link'[k] = link[k]
        BY <3>2, <3>5
      <4> HIDE DEF n
      <4>2. \A k \in n + 1..n + 1 : link'[k].kind # "event"
        BY <3>2, <3>3, <4>1
      <4>3. n + 1 \in Nat /\ n <= n + 1
        BY <3>2
      <4> QED BY <2>1, <2>4, <2>7, <3>2, <4>1, <4>2, <4>3, OneMoreSent DEF m, n
    <3> QED BY <3>1, <3>4, <3>5
  <2> QED BY <2>6, <2>7
<1> QED BY <1>1, <1>2 DEF Handles

LEMMA NextSends ==
    Databases /\ Ownership /\ Ownership' /\ Announced /\ Sends /\ [ClientNext]_allVars => Sends'
<1> SUFFICES ASSUME Databases, Ownership, Ownership', Announced, Sends, [ClientNext]_allVars
             PROVE  Sends'
  OBVIOUS
<1>1. ASSUME NEW l \in Lines, Line(l) PROVE Sends'
  <2>1. Handles(l) /\ UNCHANGED <<owner, clean, mark>> /\ begun' = TRUE
    BY <1>1 DEF Line, Handles
  <2>2. clean => owner \in Names /\ 0 \in DOMAIN players' /\ players'[0] = owner
    BY <2>1 DEF Ownership
  <2> QED BY <2>1, <2>2, LineSendsOwn
<1>2. CASE GluedLine
  <2>1. tail \in Lines
    BY <1>2 DEF GluedLine, Databases
  <2>2. Handles(tail) /\ UNCHANGED <<owner, clean, mark>> /\ begun' = TRUE
    BY <1>2 DEF GluedLine, Handles
  <2>3. clean => owner \in Names /\ 0 \in DOMAIN players' /\ players'[0] = owner
    BY <2>2 DEF Ownership
  <2> QED BY <2>1, <2>2, <2>3, LineSendsOwn
<1>3. ASSUME NEW o \in Names, StartTracking(o) PROVE Sends'
  <2>1. link' = link /\ mark' = Len(link) /\ read' = << >>
    BY <1>3 DEF StartTracking
  <2>2. Len(link) \in Nat
    BY LenProperties DEF Announced
  <2>3. EventsSent' = {} /\ OwnLines' = {}
    BY <2>1, <2>2 DEF EventsSent, OwnLines
  <2>4. read' \in Seq(Lines)
    BY <2>1
  <2> QED BY <2>3, <2>4 DEF Sends, SendsOwnEvents
<1>4. CASE StopTracking \/ SetDisplayMode \/ ReadLog \/ UpdateUi \/ UNCHANGED allVars
  <2>1. UNCHANGED <<link, mark, clean, owner, read>>
    BY <1>4 DEF StopTracking, ForgetDisplay, SetDisplayMode, ReadLog, UpdateUi, allVars,
       clientVars, logHistory
  <2> QED BY <2>1 DEF Sends, SendsOwnEvents, EventsSent, OwnLines, Rank
<1> QED BY <1>1, <1>2, <1>3, <1>4 DEF ClientNext

\* Exactly the events of the local player, of mobs and of nobody are sent, in the order of
\* the log, unless an earlier log gets in the way.
THEOREM OwnEventsAreSent == ClientSpec => []SendsOwnEvents
<1>1. ClientInit => Sends
  <2> SUFFICES ASSUME ClientInit PROVE Sends
    OBVIOUS
  <2>1. link = << >> /\ mark = 0 /\ read = << >>
    BY DEF ClientInit
  <2>2. EventsSent = {} /\ OwnLines = {}
    BY <2>1 DEF EventsSent, OwnLines
  <2> QED BY <2>1, <2>2 DEF Sends, SendsOwnEvents
<1>2. Sends => SendsOwnEvents
  BY DEF Sends
<1> QED BY <1>1, <1>2, NextSends, DatabasesHold, OwnershipHolds, AnnouncedHolds, PTL DEF ClientSpec
-----------------------------------------------------------------------------
(* What the display shows *)

\* An entry that is not stored leaves the last table, or opens an encounter that is
\* still empty behind one that is not.
LEMMA NotStored ==
    ASSUME encounters \in Seq(Encounter), NEW e \in Row, OnCombatEvent(e), ~ Stored(e)
    PROVE  \/ /\ LastTable' = LastTable /\ Len(encounters') = Len(encounters)
              /\ \A k \in 1..Len(encounters) : encounters'[k].table = encounters[k].table
           \/ LastTable' = << >> /\ encounters = << >>
           \/ /\ LastTable' = << >> /\ LastTable # << >>
              /\ Len(encounters') = Len(encounters) + 1 /\ Len(encounters) > 0
              /\ encounters'[Len(encounters') - 1].table = LastTable
<1>1. CASE Filter(e)
  BY <1>1 DEF OnCombatEvent, LastTable
<1>2. CASE ~ Filter(e)
  <2> DEFINE O == Opened(e)
  <2>1. O \in Seq(Encounter) /\ O # << >>
    BY OpenedFacts
  <2>2. /\ encounters' # << >> /\ Len(encounters') = Len(O)
        /\ \A k \in 1..Len(O) :
              encounters'[k] = IF k = Len(O) THEN Insert(O[k], e) ELSE O[k]
    BY <1>2, StoreFacts
  <2>3. ~ (Insert(O[Len(O)], e).begins > 0)
    BY <1>2 DEF Stored
  <2>4. \/ encounters # << >> /\ O = encounters
        \/ /\ encounters # << >> => LastTable # << >>
           /\ O = Append(encounters, NewEncounter)
    BY OpenedFacts
  <2> HIDE DEF O
  <2>5. Len(O) \in Nat \ {0} /\ Len(O) \in 1..Len(O)
    BY <2>1, EmptySeq
  <2>6. Insert(O[Len(O)], e).table = O[Len(O)].table
    BY <2>1, <2>3, <2>5, ElementOfSeq, InsertFacts
  <2>7. \A k \in 1..Len(O) : encounters'[k].table = O[k].table
    BY <2>2, <2>6
  <2>8. LastTable' = O[Len(O)].table
    BY <2>2, <2>5, <2>7 DEF LastTable
  <2>9. CASE encounters # << >> /\ O = encounters
    BY <2>2, <2>7, <2>8, <2>9 DEF LastTable
  <2>10. CASE /\ encounters # << >> => LastTable # << >>
              /\ O = Append(encounters, NewEncounter)
    <3>1. /\ Len(encounters) \in Nat
          /\ Len(O) = Len(encounters) + 1
          /\ \A k \in 1..Len(encounters) : O[k] = encounters[k]
          /\ O[Len(O)].table = << >>
      BY <2>10, AppendProperties, LenProperties DEF NewEncounter
    <3>2. CASE encounters = << >>
      BY <2>8, <3>1, <3>2
    <3>3. CASE encounters # << >>
      <4>1. Len(encounters) \in 1..Len(O) /\ Len(encounters) \in 1..Len(encounters)
        BY <3>1, <3>3, EmptySeq
      <4>2. encounters'[Len(encounters)].table = LastTable
        BY <2>7, <3>1, <3>3, <4>1 DEF LastTable
      <4>3. Len(encounters') - 1 = Len(encounters)
        BY <2>2, <3>1
      <4>4. LastTable' = << >> /\ LastTable # << >>
        BY <2>8, <2>10, <3>1, <3>3
      <4>5. Len(encounters') = Len(encounters) + 1 /\ Len(encounters) > 0
        BY <2>2, <3>1, <4>1
      <4> QED BY <4>2, <4>3, <4>4, <4>5
    <3> QED BY <3>2, <3>3
  <2> QED BY <2>4, <2>9, <2>10
<1> QED BY <1>1, <1>2

LEMMA LineDisplays ==
    ASSUME Databases, DisplayIsCurrent, tracking, tracking' = tracking, shown' = shown,
           NEW l \in Lines, Handles(l)
    PROVE  DisplayIsCurrent'
<1>1. CASE OnLine(l)
  <2> DEFINE e == EntryOf(l)
  <2>1. e \in Row /\ OnCombatEvent(e) /\ update_ui' = (update_ui \/ Stored(e))
    BY <1>1, EntryFacts DEF Databases, OnLine
  <2> HIDE DEF e
  <2>2. SUFFICES ASSUME ~ update_ui, ~ Stored(e) PROVE DisplayIsCurrent'
    BY <2>1 DEF DisplayIsCurrent
  <2>3. Len(encounters) \in Nat /\ encounters \in Seq(Encounter)
    BY LenProperties DEF Databases
  <2>4. CASE /\ LastTable' = LastTable /\ Len(encounters') = Len(encounters)
             /\ \A k \in 1..Len(encounters) : encounters'[k].table = encounters[k].table
    BY <2>2, <2>3, <2>4 DEF DisplayIsCurrent
  <2>5. CASE LastTable' = << >> /\ encounters = << >>
    <3>1. LastTable = << >> /\ ~ (Len(encounters) > 1)
      BY <2>5 DEF LastTable
    <3> QED BY <2>2, <2>5, <3>1 DEF DisplayIsCurrent
  <2>6. CASE /\ LastTable' = << >> /\ LastTable # << >>
             /\ Len(encounters') = Len(encounters) + 1 /\ Len(encounters) > 0
             /\ encounters'[Len(encounters') - 1].table = LastTable
    BY <2>2, <2>3, <2>6 DEF DisplayIsCurrent
  <2> QED BY <2>1, <2>2, <2>3, <2>4, <2>5, <2>6, NotStored
<1>2. CASE \E n \in 0..2 : OnBadLine(l, n)
  BY <1>2 DEF OnBadLine, DisplayIsCurrent, LastTable
<1> QED BY <1>1, <1>2 DEF Handles

LEMMA NextDisplay ==
    Databases /\ DisplayIsCurrent /\ [ClientNext]_allVars => DisplayIsCurrent'
<1> SUFFICES ASSUME Databases, DisplayIsCurrent, [ClientNext]_allVars
             PROVE  DisplayIsCurrent'
  OBVIOUS
<1>1. ASSUME NEW l \in Lines, Line(l) PROVE DisplayIsCurrent'
  <2>1. Handles(l) /\ tracking /\ UNCHANGED <<tracking, shown>>
    BY <1>1 DEF Line, Handles, appVars
  <2> QED BY <2>1, LineDisplays
<1>2. CASE GluedLine
  <2>1. Handles(tail) /\ tail \in Lines /\ tracking /\ UNCHANGED <<tracking, shown>>
    BY <1>2 DEF GluedLine, Handles, Databases
  <2> QED BY <2>1, LineDisplays
<1>3. ASSUME NEW o \in Names, StartTracking(o) PROVE DisplayIsCurrent'
  <2>1. shown' = LastTable'
    BY <1>3 DEF StartTracking, dbVars, LastTable
  <2> QED BY <2>1 DEF DisplayIsCurrent
<1>4. CASE StopTracking
  BY <1>4 DEF StopTracking, ForgetDisplay, DisplayIsCurrent
<1>5. CASE SetDisplayMode
  <2>1. shown' = LastTable'
    BY <1>5 DEF SetDisplayMode, dbVars, LastTable
  <2> QED BY <2>1 DEF DisplayIsCurrent
<1>6. CASE UpdateUi
  <2>1. /\ shown' = IF update_ui /\ tracking THEN LastTable ELSE shown
        /\ UNCHANGED <<encounters, tracking>>
    BY <1>6 DEF UpdateUi, dbVars
  <2> QED BY <2>1 DEF DisplayIsCurrent, LastTable
<1>7. CASE ReadLog \/ UNCHANGED allVars
  <2>1. UNCHANGED <<encounters, tracking, shown, update_ui>>
    BY <1>7 DEF ReadLog, allVars, dbVars, clientVars, appVars
  <2> QED BY <2>1 DEF DisplayIsCurrent, LastTable
<1> QED BY <1>1, <1>2, <1>3, <1>4, <1>5, <1>6, <1>7 DEF ClientNext

\* No event that is stored is forgotten by the display: ui_needs_update_and_reset
\* loses no update, over all lines of a turn of the main loop.
THEOREM DisplayFollows == ClientSpec => []DisplayIsCurrent
<1>1. ClientInit => DisplayIsCurrent
  BY DEF ClientInit, DisplayIsCurrent
<1> QED BY <1>1, NextDisplay, DatabasesHold, PTL DEF ClientSpec
-----------------------------------------------------------------------------
(* Types *)

Types ==
    /\ update_ui \in BOOLEAN
    /\ tracking \in BOOLEAN /\ phase \in {"messages", "log"}
    /\ starts \in 0..MaxStarts

LEMMA NextTypes == Types /\ [ClientNext]_allVars => Types'
<1> SUFFICES ASSUME Types, [ClientNext]_allVars PROVE Types'
  OBVIOUS
<1>1. ASSUME NEW l, OnLine(l) \/ \E n \in 0..2 : OnBadLine(l, n)
      PROVE  update_ui' \in BOOLEAN
  BY <1>1 DEF Types, OnLine, OnBadLine
<1>2. ASSUME NEW l \in Lines, Line(l) PROVE Types'
  BY <1>1, <1>2 DEF Types, Line, appVars
<1>3. CASE GluedLine
  BY <1>1, <1>3 DEF Types, GluedLine
<1>4. ASSUME NEW o \in Names, StartTracking(o) PROVE Types'
  <2>1. starts' \in 0..MaxStarts
    BY <1>4, StartsAssumption DEF Types, StartTracking
  <2> QED BY <1>4, <2>1 DEF Types, StartTracking
<1>5. CASE StopTracking \/ SetDisplayMode \/ ReadLog \/ UpdateUi \/ UNCHANGED allVars
  BY <1>5 DEF Types, StopTracking, ForgetDisplay, SetDisplayMode, ReadLog, UpdateUi,
     allVars, clientVars, appVars
<1> QED BY <1>2, <1>3, <1>4, <1>5 DEF ClientNext

\* The variables keep their types; no player's name is stored under two ids, however
\* often slot 0 is emptied and given away again.
THEOREM ClientTypeCorrect == ClientSpec => []ClientTypeOK
<1>1. Databases /\ Announced /\ Types => ClientTypeOK
  <2> SUFFICES ASSUME Databases, Announced, Types PROVE ClientTypeOK
    OBVIOUS
  <2>1. /\ DOMAIN players = 0..Size(players) - 1
        /\ \A i, j \in DOMAIN players : players[i] = players[j] => i = j
    BY SizeFacts DEF Databases, WellFormed
  <2>2. \A i \in DOMAIN players : players[i] \in Names \/ (i = 0 /\ players[i] = NoName)
    BY DEF Databases, WellFormed
  <2> QED BY <2>1, <2>2 DEF ClientTypeOK, Databases, Announced, Types
<1>2. ClientInit => Types
  <2> SUFFICES ASSUME ClientInit PROVE Types
    OBVIOUS
  <2>1. 0 \in 0..MaxStarts
    BY StartsAssumption
  <2> QED BY <2>1 DEF ClientInit, Types
<1> QED BY <1>1, <1>2, NextTypes, DatabasesHold, AnnouncedHolds, PTL DEF ClientSpec
=============================================================================
