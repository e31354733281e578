--------------------------- MODULE DisplayProofs ---------------------------
(***************************************************************************)
(* Proofs about CombatDb and Display, for logs of any entries and any      *)
(* length and for any number of displays to go back to: first about the    *)
(* combat_db, then about the displays composed with it.                    *)
(***************************************************************************)
EXTENDS Display, DataFacts

-----------------------------------------------------------------------------
(* The combat_db *)

\* What is known of an encounter: it holds something exactly when it had an
\* enter, and then it begins with one.
WellBegun(enc) ==
    /\ enc.begins > 0 <=> enc.table # << >>
    /\ enc.table # << >> => IsCombatBegin(enc.table[1])

LastEncounter == encounters[Len(encounters)]

\* The log and the last encounter agree on how deep in a fight they are.
Depth ==
    /\ encounters = << >> => depth = 0 /\ fights = 0
    /\ encounters # << >> => LastEncounter.begins = LastEncounter.ends + depth /\ fights = Begun

\* The inductive invariant.
DbInv ==
    /\ TypeOK
    /\ OnlyLastOpen
    /\ \A k \in DOMAIN encounters : WellBegun(encounters[k])
    /\ ~ stray => Depth /\ missed = 0

-----------------------------------------------------------------------------
\* insert keeps an encounter well formed and counts what it is given.
LEMMA InsertFacts ==
    ASSUME NEW enc \in Encounters, WellBegun(enc),
           NEW e \in Entries, ~ Filter(e)
    PROVE  /\ Insert(enc, e) \in Encounters
           /\ WellBegun(Insert(enc, e))
           /\ Insert(enc, e).begins = enc.begins + IF IsCombatBegin(e) THEN 1 ELSE 0
           /\ Insert(enc, e).ends = enc.ends + IF IsCombatEnd(e) THEN 1 ELSE 0
<1> DEFINE b == enc.begins + IF IsCombatBegin(e) THEN 1 ELSE 0
           n == enc.ends + IF IsCombatEnd(e) THEN 1 ELSE 0
           t == IF b > 0 THEN Append(enc.table, e) ELSE enc.table
<1>1. Insert(enc, e) = [table |-> t, begins |-> b, ends |-> n]
  BY DEF Insert
<1>2. enc.table \in Seq(Fighting) /\ enc.begins \in Nat /\ enc.ends \in Nat
  BY DEF Encounters
<1>3. e \in Fighting
  BY EntriesAssumption DEF Fighting, Filter
<1>4. b \in Nat /\ n \in Nat
  BY <1>2
<1>5. Append(enc.table, e) \in Seq(Fighting) /\ Append(enc.table, e) # << >>
  BY <1>2, <1>3
<1>6. t \in Seq(Fighting)
  BY <1>2, <1>5
<1>7. b > 0 <=> t # << >>
  <2>1. CASE b > 0  BY <2>1, <1>5
  <2>2. CASE ~ (b > 0)
    <3>1. ~ (enc.begins > 0)
      BY <2>2, <1>2
    <3> QED BY <3>1, <2>2 DEF WellBegun
  <2> QED BY <2>1, <2>2
<1>8. t # << >> => IsCombatBegin(t[1])
  <2> SUFFICES ASSUME t # << >> PROVE IsCombatBegin(t[1])
    OBVIOUS
  <2>1. b > 0 /\ t = Append(enc.table, e)
    BY <1>7
  <2>2. CASE enc.table = << >>
    <3>1. ~ (enc.begins > 0)
      BY <2>2 DEF WellBegun
    <3>2. IsCombatBegin(e)
      BY <3>1, <2>1, <1>2
    <3>3. t[1] = e
      BY <2>1, <2>2
    <3> QED BY <3>2, <3>3
  <2>3. CASE enc.table # << >>
    <3>1. t[1] = enc.table[1]
      BY <2>1, <2>3, <1>2, <1>3
    <3> QED BY <3>1, <2>3 DEF WellBegun
  <2> QED BY <2>2, <2>3
<1> HIDE DEF b, n, t
<1>9. Insert(enc, e) \in Encounters
  BY <1>1, <1>4, <1>6 DEF Encounters
<1>10. WellBegun(Insert(enc, e))
  BY <1>1, <1>7, <1>8 DEF WellBegun
<1> QED BY <1>1, <1>9, <1>10 DEF b, n

\* Where on_combat_event inserts: to the last encounter, or to a new one when
\* there is none or the last is over.
LEMMA OpenedFacts ==
    ASSUME encounters \in Seq(Encounters), NEW e \in Entries
    PROVE  /\ Opened(e) \in Seq(Encounters)
           /\ Opened(e) # << >>
           /\ \/ /\ encounters # << >>
                 /\ ~ CombatHasFinished(LastEncounter)
                 /\ Opened(e) = encounters
              \/ /\ encounters = << >> \/ CombatHasFinished(LastEncounter)
                 /\ Len(Opened(e)) = Len(encounters) + 1
                 /\ Opened(e)[Len(encounters) + 1] = NewEncounter
                 /\ \A k \in 1..Len(encounters) : Opened(e)[k] = encounters[k]
<1>1. << >> \in Seq(Fighting)
  OBVIOUS
<1>2. NewEncounter \in Encounters
  BY <1>1 DEF NewEncounter, Encounters
<1>3. CASE encounters = << >> \/ CombatHasFinished(LastEncounter)
  <2>1. Opened(e) = Append(encounters, NewEncounter)
    BY <1>3 DEF Opened, LastEncounter
  <2> HIDE DEF NewEncounter, Encounters
  <2>2. Opened(e) \in Seq(Encounters) /\ Opened(e) # << >>
    BY <2>1, <1>2
  <2>3. /\ Len(Opened(e)) = Len(encounters) + 1
        /\ Opened(e)[Len(encounters) + 1] = NewEncounter
        /\ \A k \in 1..Len(encounters) : Opened(e)[k] = encounters[k]
    BY <2>1, <1>2
  <2> QED BY <2>2, <2>3, <1>3
<1>4. CASE ~ (encounters = << >> \/ CombatHasFinished(LastEncounter))
  BY <1>4 DEF Opened, LastEncounter
<1> QED BY <1>3, <1>4

\* What an entry that passes the filter does to the encounters: all but the last
\* one stay, and are over if they were last before.
LEMMA StoredFacts ==
    ASSUME encounters \in Seq(Encounters), OnlyLastOpen,
           \A k \in DOMAIN encounters : WellBegun(encounters[k]),
           NEW e \in Entries, ~ Filter(e),
           encounters' = [Opened(e) EXCEPT ![Len(Opened(e))] = Insert(@, e)]
    PROVE  /\ encounters' \in Seq(Encounters)
           /\ encounters' # << >>
           /\ Len(encounters') = Len(Opened(e))
           /\ LastEncounter' = Insert(Opened(e)[Len(Opened(e))], e)
           /\ Opened(e)[Len(Opened(e))] \in Encounters
           /\ WellBegun(Opened(e)[Len(Opened(e))])
           /\ OnlyLastOpen'
           /\ \A k \in DOMAIN encounters' : WellBegun(encounters'[k])
<1> DEFINE n == Len(Opened(e))
           s == Opened(e)
           new == Insert(s[n], e)
<1>1. s \in Seq(Encounters) /\ s # << >> /\ n \in Nat \ {0}
  BY OpenedFacts
<1>2. s[n] \in Encounters
  BY <1>1
<1>3. WellBegun(NewEncounter)
  BY DEF WellBegun, NewEncounter
<1>4. /\ WellBegun(s[n])
      /\ \A k \in 1..n : k < n => /\ k \in DOMAIN encounters
                                  /\ s[k] = encounters[k]
                                  /\ CombatHasFinished(encounters[k])
  <2>1. CASE encounters # << >> /\ s = encounters
    BY <2>1, <1>1 DEF OnlyLastOpen
  <2>2. CASE /\ encounters = << >> \/ CombatHasFinished(LastEncounter)
             /\ n = Len(encounters) + 1
             /\ s[Len(encounters) + 1] = NewEncounter
             /\ \A k \in 1..Len(encounters) : s[k] = encounters[k]
    <3>1. WellBegun(s[n])
      BY <2>2, <1>3
    <3>2. ASSUME NEW k \in 1..n, k < n
          PROVE  /\ k \in DOMAIN encounters
                 /\ s[k] = encounters[k]
                 /\ CombatHasFinished(encounters[k])
      <4>1. k \in 1..Len(encounters) /\ encounters # << >>
        BY <2>2, <3>2
      <4>2. CASE k = Len(encounters)  BY <2>2, <4>1, <4>2 DEF LastEncounter
      <4>3. CASE k # Len(encounters)
        BY <2>2, <4>1, <4>3 DEF OnlyLastOpen
      <4> QED BY <4>1, <4>2, <4>3, <2>2
    <3> QED BY <3>1, <3>2
  <2> QED BY <2>1, <2>2, OpenedFacts
<1>5. new \in Encounters /\ WellBegun(new)
  BY <1>2, <1>4, InsertFacts
<1>6. encounters' = [s EXCEPT ![n] = new] /\ n = Len(s) /\ n \in 1..Len(s)
  BY <1>1
<1> HIDE DEF n, s, new
<1>7. /\ encounters' \in Seq(Encounters)
      /\ Len(encounters') = n
      /\ encounters'[n] = new
      /\ \A k \in 1..n : k # n => encounters'[k] = s[k]
  <2>1. s \in Seq(Encounters) /\ n \in 1..Len(s) /\ new \in Encounters
    BY <1>1, <1>5, <1>6
  <2>2. /\ [s EXCEPT ![n] = new] \in Seq(Encounters)
        /\ Len([s EXCEPT ![n] = new]) = Len(s)
        /\ \A j \in 1..Len(s) :
             [s EXCEPT ![n] = new][j] = IF j = n THEN new ELSE s[j]
    BY <2>1, ExceptSeq
  <2> QED BY <2>1, <2>2, <1>6
<1>8. OnlyLastOpen'
  BY <1>1, <1>4, <1>7 DEF OnlyLastOpen
<1>9. \A k \in DOMAIN encounters' : WellBegun(encounters'[k])
  <2> SUFFICES ASSUME NEW k \in 1..n PROVE WellBegun(encounters'[k])
    BY <1>1, <1>7
  <2>1. CASE k = n  BY <2>1, <1>5, <1>7
  <2>2. CASE k # n
    <3>1. k < n /\ k \in 1..n
      BY <2>2, <1>1
    <3>2. k \in DOMAIN encounters /\ encounters'[k] = encounters[k]
      BY <3>1, <2>2, <1>4, <1>7
    <3> QED BY <3>2
  <2> QED BY <2>1, <2>2
<1>10. encounters' # << >>
  BY <1>1, <1>7
<1> QED BY <1>1, <1>2, <1>4, <1>7, <1>8, <1>9, <1>10 DEF n, s, new, LastEncounter

-----------------------------------------------------------------------------
LEMMA InitDbInv == Init => DbInv
<1> SUFFICES ASSUME Init PROVE DbInv
  OBVIOUS
<1>1. << >> \in Seq(Encounters) /\ DOMAIN << >> = {}
  BY EmptySeq
<1>2. 0 \in 0..MaxEntries /\ 0 \in Nat /\ FALSE \in BOOLEAN
  BY MaxEntriesAssumption
<1>3. TypeOK
  BY <1>1, <1>2 DEF Init, TypeOK
<1>4. OnlyLastOpen /\ \A k \in DOMAIN encounters : WellBegun(encounters[k])
  BY <1>1 DEF Init, OnlyLastOpen
<1>5. Depth /\ missed = 0
  BY DEF Init, Depth
<1> QED BY <1>3, <1>4, <1>5 DEF DbInv

LEMMA ClearDbInv ==
    ASSUME DbInv, Clear
    PROVE  DbInv'
<1>1. << >> \in Seq(Encounters) /\ DOMAIN << >> = {}
  BY EmptySeq
<1>2. TypeOK'
  BY <1>1 DEF DbInv, TypeOK, Clear
<1>3. OnlyLastOpen' /\ \A k \in DOMAIN encounters' : WellBegun(encounters'[k])
  BY <1>1 DEF Clear, OnlyLastOpen
<1>4. Depth' /\ missed' = 0
  BY DEF Clear, Depth
<1> QED BY <1>2, <1>3, <1>4 DEF DbInv

LEMMA OnCombatEventDbInv ==
    ASSUME DbInv, NEW e \in Entries, OnCombatEvent(e)
    PROVE  DbInv'
<1> DEFINE n == Len(Opened(e))
           old == Opened(e)[n]
<1>1. /\ encounters \in Seq(Encounters) /\ handled \in 0..MaxEntries
      /\ depth \in Nat /\ fights \in Nat /\ stray \in BOOLEAN /\ missed \in Nat
  BY DEF DbInv, TypeOK
<1>2. /\ handled' \in 0..MaxEntries
      /\ depth' \in Nat /\ fights' \in Nat /\ stray' \in BOOLEAN /\ missed' \in Nat
  BY <1>1, MaxEntriesAssumption DEF OnCombatEvent, Observe
<1>3. CASE Filter(e)
  <2>1. UNCHANGED <<encounters, depth, fights, missed>>
    BY <1>3 DEF OnCombatEvent, Observe, Filter, IsCombatBegin, IsCombatEnd
  <2>2. TypeOK'
    BY <1>1, <1>2, <2>1 DEF TypeOK
  <2>3. ~ stray' => ~ stray
    BY Zenon DEF OnCombatEvent, Observe
  <2> QED BY <2>3, <2>1, <2>2 DEF DbInv, OnlyLastOpen, Depth, Begun, LastEncounter
<1>4. CASE ~ Filter(e)
  <2>1. encounters' = [Opened(e) EXCEPT ![Len(Opened(e))] = Insert(@, e)]
    BY <1>4 DEF OnCombatEvent
  <2>2. OnlyLastOpen /\ \A k \in DOMAIN encounters : WellBegun(encounters[k])
    BY DEF DbInv
  <2>3. /\ encounters' \in Seq(Encounters)
        /\ encounters' # << >>
        /\ Len(encounters') = n
        /\ LastEncounter' = Insert(old, e)
        /\ old \in Encounters
        /\ WellBegun(old)
        /\ OnlyLastOpen'
        /\ \A k \in DOMAIN encounters' : WellBegun(encounters'[k])
    BY <1>1, <1>4, <2>1, <2>2, StoredFacts
  <2>4. TypeOK'
    BY <1>2, <2>3 DEF TypeOK
  <2>5. ASSUME ~ stray'
        PROVE  Depth' /\ missed' = 0
    <3>1. ~ stray /\ Depth /\ missed = 0 /\ (IsCombatEnd(e) => depth > 0)
      <4>1. stray' = (stray \/ (IsCombatEnd(e) /\ depth = 0))
        BY DEF OnCombatEvent, Observe
      <4>2. ~ stray /\ ~ (IsCombatEnd(e) /\ depth = 0)
        BY <4>1, <2>5, Zenon
      <4>3. Depth /\ missed = 0
        BY <4>2 DEF DbInv
      <4> QED BY <4>2, <4>3, <1>1
    <3>2. /\ LastEncounter'.begins = old.begins + IF IsCombatBegin(e) THEN 1 ELSE 0
          /\ LastEncounter'.ends = old.ends + IF IsCombatEnd(e) THEN 1 ELSE 0
          /\ old.begins \in Nat /\ old.ends \in Nat
      BY <1>4, <2>3, InsertFacts DEF Encounters
    <3>3. \/ /\ encounters # << >>
             /\ ~ CombatHasFinished(LastEncounter)
             /\ old = LastEncounter
             /\ n = Len(encounters)
          \/ /\ encounters = << >> \/ CombatHasFinished(LastEncounter)
             /\ old = NewEncounter
             /\ n = Len(encounters) + 1
      BY <1>1, OpenedFacts DEF LastEncounter
    <3>4. CombatHasFinished(LastEncounter) /\ encounters # << >> => depth = 0 /\ fights = Len(encounters)
      <4> SUFFICES ASSUME CombatHasFinished(LastEncounter), encounters # << >>
                   PROVE  depth = 0 /\ fights = Len(encounters)
        OBVIOUS
      <4>1. LastEncounter \in Encounters
        BY <1>1 DEF LastEncounter
      <4>2. LastEncounter.begins > 0 /\ LastEncounter.begins = LastEncounter.ends
        BY DEF CombatHasFinished
      <4> QED BY <4>1, <4>2, <3>1, <1>1 DEF Depth, Begun, LastEncounter, Encounters
    <3>5. old.begins = old.ends + depth
      BY <3>1, <3>3, <3>4 DEF Depth, NewEncounter
    <3>6. LastEncounter'.begins = LastEncounter'.ends + depth'
      <4>1. depth' = CASE IsCombatBegin(e) -> depth + 1
                       [] IsCombatEnd(e) /\ depth > 0 -> depth - 1
                       [] OTHER -> depth
        BY DEF OnCombatEvent, Observe
      <4>2. ~ (IsCombatBegin(e) /\ IsCombatEnd(e))
        BY DEF IsCombatBegin, IsCombatEnd
      <4> QED BY <4>1, <4>2, <3>1, <3>2, <3>5, <1>1
    <3>7. fights' = Begun'
      <4>1. fights' = IF IsCombatBegin(e) /\ depth = 0 THEN fights + 1 ELSE fights
        BY DEF OnCombatEvent, Observe
      <4>2. Begun' = IF LastEncounter'.begins = 0 THEN n - 1 ELSE n
        BY <2>3 DEF Begun, LastEncounter
      <4>3. CASE encounters # << >> /\ ~ CombatHasFinished(LastEncounter) /\ old = LastEncounter /\ n = Len(encounters)
        <5>1. fights = IF old.begins = 0 THEN n - 1 ELSE n
          BY <4>3, <3>1 DEF Depth, Begun, LastEncounter
        <5>2. old.begins > 0 => old.begins # old.ends
          BY <4>3 DEF CombatHasFinished
        <5>3. n \in Nat
          BY <4>3, <1>1
        <5> HIDE DEF n, old
        <5> QED BY <4>1, <4>2, <5>1, <5>2, <5>3, <3>2, <3>5, <1>1
      <4>4. CASE /\ encounters = << >> \/ CombatHasFinished(LastEncounter)
                 /\ old = NewEncounter
                 /\ n = Len(encounters) + 1
        <5>1. depth = 0 /\ fights = n - 1 /\ n \in Nat
          BY <4>4, <3>1, <3>4, <1>1 DEF Depth
        <5>2. old.begins = 0
          BY <4>4 DEF NewEncounter
        <5> HIDE DEF n, old
        <5> QED BY <4>1, <4>2, <5>1, <5>2, <3>2
      <4> QED BY <3>3, <4>3, <4>4
    <3>8. missed' = 0
      <4>1. missed' = IF e.event = "hit" /\ depth > 0 /\ ~ Stored(e) THEN missed + 1 ELSE missed
        BY DEF OnCombatEvent, Observe
      <4>2. ASSUME depth > 0 PROVE Stored(e)
        <5>1. LastEncounter'.begins > 0
          BY <4>2, <3>2, <3>5, <1>1
        <5> QED BY <5>1, <1>4, <2>3 DEF Stored
      <4> QED BY <4>1, <4>2, <3>1
    <3> QED BY <2>3, <3>6, <3>7, <3>8 DEF Depth
  <2> QED BY <2>3, <2>4, <2>5 DEF DbInv
<1> QED BY <1>3, <1>4

-----------------------------------------------------------------------------
\* The invariant holds in every reachable state.
THEOREM DbInvariance == Spec => []DbInv
<1>1. DbInv /\ [Next]_vars => DbInv'
  <2> SUFFICES ASSUME DbInv, [Next]_vars PROVE DbInv'
    OBVIOUS
  <2>1. ASSUME NEW e \in Entries, OnCombatEvent(e) PROVE DbInv'
    BY <2>1, OnCombatEventDbInv
  <2>2. CASE Clear
    BY <2>2, ClearDbInv
  <2>3. CASE UNCHANGED vars
    BY <2>3 DEF vars, DbInv, TypeOK, OnlyLastOpen, Depth, Begun, LastEncounter, WellBegun
  <2> QED BY <2>1, <2>2, <2>3 DEF Next
<1> QED BY <1>1, InitDbInv, PTL DEF Spec

\* All variables keep their types, and encounters store only entries of fights.
THEOREM TypeCorrect == Spec => []TypeOK
BY DbInvariance, PTL DEF DbInv

\* Only the last encounter can still change, whatever the log looks like.
THEOREM EarlierAreOver == Spec => []OnlyLastOpen
BY DbInvariance, PTL DEF DbInv

\* What is stored of an encounter begins with an enter, whatever the log looks
\* like and wherever it begins.
THEOREM StoredFromEnter == Spec => []BeginsWithEnter
<1>1. DbInv => BeginsWithEnter
  BY DEF DbInv, BeginsWithEnter, WellBegun
<1> QED BY <1>1, DbInvariance, PTL

\* As long as the log has no exit outside of a fight, no hit of a fight is lost ...
THEOREM HitsAreStored == Spec => []NoHitMissed
<1>1. DbInv => NoHitMissed
  BY DEF DbInv, NoHitMissed
<1> QED BY <1>1, DbInvariance, PTL

\* ... and every fight has an encounter of its own, open as long as it goes on.
THEOREM FightsAreEncounters == Spec => []OneEncounterPerFight
<1>1. ASSUME DbInv PROVE OneEncounterPerFight
  <2> SUFFICES ASSUME ~ stray PROVE OneEncounterPerFight
    BY DEF OneEncounterPerFight
  <2>1. Depth /\ encounters \in Seq(Encounters) /\ depth \in Nat
    BY <1>1 DEF DbInv, TypeOK
  <2>2. CASE encounters = << >>
    BY <2>1, <2>2 DEF Depth, OneEncounterPerFight, Begun
  <2>3. CASE encounters # << >>
    <3>1. /\ LastEncounter.begins \in Nat /\ LastEncounter.ends \in Nat
          /\ LastEncounter.begins = LastEncounter.ends + depth /\ fights = Begun
      <4>1. LastEncounter \in Encounters
        BY <2>1, <2>3 DEF LastEncounter
      <4> QED BY <4>1, <2>1, <2>3 DEF Depth, Encounters
    <3> QED BY <3>1, <2>1, <2>3 DEF OneEncounterPerFight, CombatHasFinished, LastEncounter
  <2> QED BY <2>2, <2>3
<1> QED BY <1>1, DbInvariance, PTL

-----------------------------------------------------------------------------
(* The query: what it makes of a table, for every display and every table *)

Amounts(table) == [i \in DOMAIN table |-> table[i].value]
LEMMA FightingFacts ==
    ASSUME NEW table \in Seq(Fighting)
    PROVE  /\ Len(table) \in Nat /\ DOMAIN table = 1..Len(table) /\ IsFiniteSet(1..Len(table))
           /\ \A i \in 1..Len(table) : table[i] \in Entries /\ Amounts(table)[i] \in Int
                                       /\ Amounts(table)[i] = table[i].value
<1>1. /\ Len(table) \in Nat /\ DOMAIN table = 1..Len(table)
      /\ \A i \in 1..Len(table) : table[i] \in Fighting
  BY LenProperties, ElementOfSeq
<1>2. IsFiniteSet(1..Len(table))
  BY <1>1, FS_Interval
<1>3. \A i \in 1..Len(table) : table[i] \in Entries /\ table[i].value \in Int
  BY <1>1, ValuesAssumption DEF Fighting
<1> QED BY <1>1, <1>2, <1>3 DEF Amounts

LEMMA ValueIsSum ==
    ASSUME NEW table \in Seq(Fighting), NEW v, NEW key
    PROVE  IsSumOf(Value(v, table, key), Amounts(table), Hits(v, table, key))
<1> DEFINE S == Hits(v, table, key)
           f == Amounts(table)
           Val(it, T) == IF T = {} THEN 0
                         ELSE table[CHOOSE x \in T : TRUE].value + it[T \ {CHOOSE x \in T : TRUE}]
           Eq(it) == it = [T \in SUBSET S |-> Val(it, T)]
           F == CHOOSE it : Eq(it)
<1>1. Value(v, table, key) = F[S]
  BY DEF Value, MapThenSumSet, MapThenFoldSet
<1>2. IsFiniteSet(S) /\ Numbers(f, S) /\ \A i \in S : f[i] = table[i].value
  <2>1. S \in SUBSET (1..Len(table))
    BY FightingFacts DEF Hits
  <2> HIDE DEF S, f
  <2> QED BY <2>1, FightingFacts, FS_Subset DEF Numbers, f
<1> HIDE DEF S, f
<1>3. PICK it : IsSum(it, f, S)
  BY <1>2, SumExists
<1>4. it = [T \in SUBSET S |-> it[T]] /\ \A T \in SUBSET S : it[T] = Val(it, T)
  <2>1. ASSUME NEW T \in SUBSET S PROVE it[T] = Val(it, T)
    <3>1. T # {} => (CHOOSE x \in T : TRUE) \in S
      OBVIOUS
    <3> QED BY <1>2, <1>3, <3>1 DEF IsSum, Adds, AnyOf
  <2>2. it \in [SUBSET S -> Int]
    BY <1>3 DEF IsSum
  <2> HIDE DEF Val
  <2> QED BY <2>1, <2>2
<1>5. Eq(it)
  <2> HIDE DEF Val
  <2> QED BY <1>4
<1>6. Eq(F)
  <2> HIDE DEF Eq
  <2> QED BY <1>5
<1> HIDE DEF F
<1>7. \A T \in SUBSET S : F[T] = Val(F, T)
  <2> HIDE DEF Val
  <2> QED BY <1>6
<1>8. Adds(F, f, S)
  <2>1. \A T \in SUBSET S : T # {} => (CHOOSE x \in T : TRUE) \in S
    OBVIOUS
  <2> QED BY <1>2, <1>7, <2>1 DEF Adds, AnyOf
<1>9. F[S] = it[S]
  <2>1. S \in SUBSET (S \cap S)
    OBVIOUS
  <2> QED BY <1>2, <1>3, <1>8, <2>1, SumUnique DEF IsSum
<1> QED BY <1>1, <1>3, <1>9 DEF IsSumOf, S, f

Entities == {e.src : e \in Entries} \cup {e.dst : e \in Entries}
KeySet(v) == IF IsSkillView(v) THEN Entities ELSE Abilities
Groups(v) == [key : KeySet(v), value : Int]

\* Does the entry go to a group of the display?
Joins(v, e) == IsRecord(v, e) /\ Counts(v, e)

LEMMA KeyType ==
    ASSUME NEW v, NEW e \in Entries, Joins(v, e)
    PROVE  Key(v, e) \in KeySet(v)
<1>1. CASE IsSkillView(v)
  BY <1>1 DEF Key, KeySet, Entities, Subject
<1>2. CASE ~ IsSkillView(v)
  BY <1>2 DEF Joins, Counts, Key, KeySet, Abilities
<1> QED BY <1>1, <1>2

HasKey(groups, k) == \E i \in 1..Len(groups) : groups[i].key = k

\* h is groups with x more in the group of the key, which is the p-th.
GrowsAt(groups, h, p, key, x) ==
    /\ p \in 1..Len(groups) /\ groups[p].key = key
    /\ Len(h) = Len(groups)
    /\ \A i \in 1..Len(groups) :
          h[i] = IF i = p THEN [key |-> key, value |-> groups[p].value + x] ELSE groups[i]

\* What an entry does to the groups: to the one of its key, or to a new one.
LEMMA JoinedFacts ==
    ASSUME NEW v, NEW groups \in Seq(Groups(v)), NEW e \in Entries
    PROVE  /\ Joined(v, groups, e) \in Seq(Groups(v))
           /\ ~ Joins(v, e) => Joined(v, groups, e) = groups
           /\ Joins(v, e) /\ ~ HasKey(groups, Key(v, e)) =>
                 Joined(v, groups, e) = Append(groups, [key |-> Key(v, e), value |-> e.value])
           /\ Joins(v, e) /\ HasKey(groups, Key(v, e)) =>
                 \E p : GrowsAt(groups, Joined(v, groups, e), p, Key(v, e), e.value)
<1> DEFINE at == {i \in DOMAIN groups : groups[i].key = Key(v, e)}
           new == [key |-> Key(v, e), value |-> e.value]
<1>1. Len(groups) \in Nat /\ DOMAIN groups = 1..Len(groups) /\ e.value \in Int
  BY LenProperties, ValuesAssumption
<1>2. CASE ~ Joins(v, e)
  BY <1>2 DEF Joined, Joins
<1>3. CASE Joins(v, e) /\ at = {}
  <2>1. Joined(v, groups, e) = Append(groups, new)
    BY <1>3 DEF Joined, Joins
  <2>2. new \in Groups(v)
    BY <1>1, <1>3, KeyType DEF Groups
  <2> HIDE DEF new
  <2>3. Append(groups, new) \in Seq(Groups(v))
    BY <2>2, AppendProperties
  <2>4. ~ HasKey(groups, Key(v, e))
    BY <1>1, <1>3 DEF HasKey
  <2> QED BY <1>3, <2>1, <2>3, <2>4 DEF new
<1>4. CASE Joins(v, e) /\ at # {}
  <2> DEFINE k == Min(at)
             new2 == [key |-> Key(v, e), value |-> groups[k].value + e.value]
  <2>1. k \in 1..Len(groups) /\ groups[k].key = Key(v, e)
    <3>1. at \in SUBSET Nat /\ \A i \in at : i \in 1..Len(groups) /\ groups[i].key = Key(v, e)
      BY <1>1
    <3> HIDE DEF at
    <3>2. PICK x \in at : \A y \in at : x <= y
      BY <1>4, <3>1, NatMin
    <3>3. Min(at) \in at
      BY <3>2 DEF Min
    <3> QED BY <3>1, <3>3
  <2>2. Joined(v, groups, e) = [groups EXCEPT ![k].value = groups[k].value + e.value]
    BY <1>4 DEF Joined, Joins
  <2>3. groups[k] \in Groups(v)
    BY <2>1, ElementOfSeq
  <2> HIDE DEF k
  <2>4. [groups[k] EXCEPT !.value = groups[k].value + e.value] = new2
    BY <2>1, <2>3 DEF Groups
  <2>5. Joined(v, groups, e) = [groups EXCEPT ![k] = new2]
    BY <2>2, <2>4
  <2>6. new2 \in Groups(v)
    BY <1>1, <2>3, <1>4, KeyType DEF Groups
  <2> HIDE DEF new2
  <2>7. /\ Joined(v, groups, e) \in Seq(Groups(v))
        /\ Len(Joined(v, groups, e)) = Len(groups)
        /\ \A i \in 1..Len(groups) :
              Joined(v, groups, e)[i] = IF i = k THEN new2 ELSE groups[i]
    BY <2>1, <2>5, <2>6, ExceptSeq
  <2>8. HasKey(groups, Key(v, e))
    BY <2>1 DEF HasKey
  <2>9. GrowsAt(groups, Joined(v, groups, e), k, Key(v, e), e.value)
    BY <2>1, <2>7 DEF GrowsAt, new2
  <2> QED BY <1>4, <2>7, <2>8, <2>9
<1> QED BY <1>2, <1>3, <1>4

\* The loop over the records ends with what the last of its steps has made.
LEMMA GroupingSteps ==
    ASSUME NEW v, NEW table \in Seq(Fighting)
    PROVE  \E g : /\ g[0] = << >>
                  /\ \A i \in 1..Len(table) : g[i] = Joined(v, g[i - 1], table[i])
                  /\ Grouped(v, table) = g[Len(table)]
<1> DEFINE n == Len(table)
           X == Seq(Groups(v))
           Val(it, S) == IF S = {} THEN << >> ELSE Joined(v, it[S \ {Max(S)}], table[Max(S)])
           Eq(it) == it = [S \in SUBSET (1..n) |-> Val(it, S)]
           F == CHOOSE it : Eq(it)
           step == [i \in Nat |-> [acc \in X |-> IF i \in 1..n THEN Joined(v, acc, table[i]) ELSE acc]]
<1>1. n \in Nat /\ DOMAIN table = 1..n /\ \A i \in 1..n : table[i] \in Entries
  BY FightingFacts
<1>2. Grouped(v, table) = F[1..n]
  BY <1>1 DEF Grouped, FoldLeft, MapThenFoldSet
<1>3. step \in [Nat -> [X -> X]]
  <2> HIDE DEF n, X
  <2>1. \A i \in 1..n, acc \in X : Joined(v, acc, table[i]) \in X
    BY <1>1, JoinedFacts DEF X
  <2> QED BY <2>1
<1>4. \A i \in 1..n, acc \in X : step[i][acc] = Joined(v, acc, table[i])
  BY <1>1
<1>5. << >> \in X
  OBVIOUS
<1> HIDE DEF step, n, X
<1>6. PICK it \in [SUBSET (1..n) -> X] : IsFold(it, << >>, step, n)
  BY <1>1, <1>3, <1>5, FoldExists
<1>7. ASSUME NEW S \in SUBSET (1..n), S # {}
      PROVE  it[S] = Joined(v, it[S \ {Max(S)}], table[Max(S)])
  BY <1>1, <1>4, <1>6, <1>7, MaxInside DEF IsFold
<1>8. Eq(it)
  BY <1>6, <1>7 DEF IsFold
<1>9. Eq(F)
  <2> HIDE DEF Eq
  <2> QED BY <1>8
<1>10. F[{}] = << >> /\ \A i \in 1..n : F[1..i] = Joined(v, F[1..i - 1], table[i])
  <2> HIDE DEF F
  <2>1. F[{}] = << >>
    BY <1>9
  <2>2. ASSUME NEW i \in 1..n PROVE F[1..i] = Joined(v, F[1..i - 1], table[i])
    <3>1. 1..i \in SUBSET (1..n) /\ i \in Nat /\ i > 0
      BY <1>1
    <3>2. Max(1..i) = i /\ 1..i # {} /\ (1..i) \ {i} = 1..i - 1
      BY <3>1, TopOfInterval
    <3> QED BY <3>1, <3>2, <1>9
  <2> QED BY <2>1, <2>2
<1> DEFINE g == [i \in 0..n |-> F[1..i]]
<1> HIDE DEF F
<1>11. g[0] = << >> /\ g[n] = F[1..n] /\ \A i \in 1..n : g[i] = Joined(v, g[i - 1], table[i])
  BY <1>1, <1>10
<1> HIDE DEF g
<1> QED BY <1>2, <1>11 DEF n

\* The hits of a key among the first n entries.
UpTo(v, table, key, n) == {i \in Hits(v, table, key) : i <= n}

\* The groups have different keys, those of the first n entries, and their sums.
SumsUpTo(v, table, n, groups) ==
    \A i \in 1..Len(groups) :
        /\ UpTo(v, table, groups[i].key, n) # {}
        /\ IsSumOf(groups[i].value, Amounts(table), UpTo(v, table, groups[i].key, n))
KeysDiffer(groups) ==
    \A i, j \in 1..Len(groups) : groups[i].key = groups[j].key => i = j
IsGrouping(v, table, n, groups) ==
    /\ groups \in Seq(Groups(v))
    /\ KeysDiffer(groups)
    /\ SumsUpTo(v, table, n, groups)
    /\ \A k : UpTo(v, table, k, n) # {} => HasKey(groups, k)

LEMMA UpToType ==
    ASSUME NEW v, NEW table \in Seq(Fighting), NEW k, NEW n \in Nat
    PROVE  UpTo(v, table, k, n) \in SUBSET (1..n) /\ IsFiniteSet(UpTo(v, table, k, n))
<1> DEFINE U == UpTo(v, table, k, n)
<1>1. \A i \in 1..Len(table) : i <= n => i \in 1..n
  OBVIOUS
<1>2. U \in SUBSET (1..n)
  BY <1>1, FightingFacts DEF UpTo, Hits
<1> HIDE DEF U
<1>3. IsFiniteSet(1..n)
  BY FS_Interval
<1> QED BY <1>2, <1>3, FS_Subset DEF U

LEMMA HitFacts ==
    ASSUME NEW v, NEW table \in Seq(Fighting), NEW k, NEW i \in 1..Len(table)
    PROVE  i \in Hits(v, table, k) <=> Joins(v, table[i]) /\ Key(v, table[i]) = k
BY FightingFacts DEF Hits, Joins, IsRecord

LEMMA UpToGrows ==
    ASSUME NEW v, NEW table \in Seq(Fighting), NEW k, NEW n \in Nat, n + 1 \in Hits(v, table, k)
    PROVE  UpTo(v, table, k, n + 1) = UpTo(v, table, k, n) \cup {n + 1}
<1> DEFINE H == Hits(v, table, k)
<1>1. \A i \in H : i \in Nat
  BY FightingFacts DEF Hits
<1>2. n + 1 \in H
  OBVIOUS
<1> HIDE DEF H
<1>3. \A i \in H : i <= n + 1 <=> i <= n \/ i = n + 1
  BY <1>1
<1> QED BY <1>2, <1>3 DEF UpTo, H

LEMMA UpToStays ==
    ASSUME NEW v, NEW table \in Seq(Fighting), NEW k, NEW n \in Nat, n + 1 \notin Hits(v, table, k)
    PROVE  UpTo(v, table, k, n + 1) = UpTo(v, table, k, n)
<1> DEFINE H == Hits(v, table, k)
<1>1. \A i \in H : i \in Nat
  BY FightingFacts DEF Hits
<1>2. n + 1 \notin H
  OBVIOUS
<1> HIDE DEF H
<1>3. \A i \in H : i <= n + 1 <=> i <= n
  BY <1>1, <1>2
<1> QED BY <1>3 DEF UpTo, H

\* The sum of the key grows by the entry's value.
LEMMA UpToSum ==
    ASSUME NEW v, NEW table \in Seq(Fighting), NEW k, NEW n \in Nat, n + 1 \in Hits(v, table, k),
           NEW x, IsSumOf(x, Amounts(table), UpTo(v, table, k, n))
    PROVE  IsSumOf(x + table[n + 1].value, Amounts(table), UpTo(v, table, k, n + 1))
<1> DEFINE U == UpTo(v, table, k, n)
           V == UpTo(v, table, k, n + 1)
           f == Amounts(table)
<1>1. U \in SUBSET (1..n) /\ IsFiniteSet(U)
  BY UpToType
<1>2. V = U \cup {n + 1}
  BY UpToGrows
<1>3. V \in SUBSET (1..Len(table)) /\ n + 1 \in 1..Len(table)
  BY FightingFacts DEF UpTo, Hits
<1> HIDE DEF U, V
<1>4. n + 1 \notin U
  BY <1>1
<1>5. Numbers(f, U \cup {n + 1}) /\ f[n + 1] = table[n + 1].value
  BY <1>2, <1>3, FightingFacts DEF Numbers
<1>6. IsSumOf(x, f, U)
  BY DEF U
<1> HIDE DEF f
<1>7. IsSumOf(x + f[n + 1], f, U \cup {n + 1})
  BY <1>1, <1>4, <1>5, <1>6, SumOfMore
<1> QED BY <1>2, <1>5, <1>7 DEF V, f

LEMMA GroupingGrows ==
    ASSUME NEW v, NEW table \in Seq(Fighting), NEW n \in Nat, n + 1 \in 1..Len(table),
           NEW groups, IsGrouping(v, table, n, groups),
           NEW e, e = table[n + 1], NEW key, key = Key(v, e), NEW h, h = Joined(v, groups, e)
    PROVE  IsGrouping(v, table, n + 1, h)
<1> DEFINE m == Len(groups)
<1>1. /\ e \in Entries /\ groups \in Seq(Groups(v)) /\ m \in Nat
      /\ KeysDiffer(groups) /\ SumsUpTo(v, table, n, groups)
      /\ \A k : UpTo(v, table, k, n) # {} => HasKey(groups, k)
  BY FightingFacts, LenProperties DEF IsGrouping
<1>10. h \in Seq(Groups(v))
  BY <1>1, JoinedFacts
<1>12. ~ Joins(v, e) => h = groups
  BY <1>1, JoinedFacts
<1>13. Joins(v, e) /\ ~ HasKey(groups, key) => h = Append(groups, [key |-> key, value |-> e.value])
  BY <1>1, JoinedFacts
<1>14. Joins(v, e) /\ HasKey(groups, key) => \E p : GrowsAt(groups, h, p, key, e.value)
  BY <1>1, JoinedFacts
<1>11. Joins(v, e) => n + 1 \in Hits(v, table, key)
  BY HitFacts
<1>2. ASSUME NEW k, ~ (Joins(v, e) /\ k = key)
      PROVE  UpTo(v, table, k, n + 1) = UpTo(v, table, k, n)
  <2>1. n + 1 \notin Hits(v, table, k)
    BY <1>2, HitFacts
  <2> QED BY <2>1, UpToStays
<1>3. CASE ~ Joins(v, e)
  <2>1. h = groups
    BY <1>3, <1>12
  <2>2. \A k : UpTo(v, table, k, n + 1) = UpTo(v, table, k, n)
    BY <1>2, <1>3
  <2>3. SumsUpTo(v, table, n + 1, groups)
    BY <1>1, <2>2 DEF SumsUpTo
  <2> QED BY <1>1, <2>1, <2>2, <2>3 DEF IsGrouping
<1>4. CASE Joins(v, e) /\ ~ HasKey(groups, key)
  <2> DEFINE new == [key |-> key, value |-> e.value]
  <2>1. h = Append(groups, new)
    BY <1>4, <1>13
  <2>2. new \in Groups(v)
    BY <1>1, <1>4, KeyType, ValuesAssumption DEF Groups
  <2>3. new.key = key /\ new.value = e.value
    OBVIOUS
  <2> HIDE DEF new
  <2>4. /\ Len(h) = m + 1 /\ h[m + 1] = new /\ \A i \in 1..m : h[i] = groups[i]
    BY <1>1, <2>1, <2>2, AppendProperties
  <2>5. UpTo(v, table, key, n + 1) = UpTo(v, table, key, n) \cup {n + 1}
    BY <1>4, <1>11, UpToGrows
  <2>6. UpTo(v, table, key, n) = {}
    BY <1>1, <1>4
  <2>7. IsSumOf(e.value, Amounts(table), UpTo(v, table, key, n + 1))
    <3>1. IsSumOf(0, Amounts(table), UpTo(v, table, key, n))
      BY <2>6, SumOfNone
    <3>2. IsSumOf(0 + e.value, Amounts(table), UpTo(v, table, key, n + 1))
      BY <1>4, <1>11, <3>1, UpToSum
    <3>3. 0 + e.value = e.value
      BY <1>1, ValuesAssumption
    <3> QED BY <3>2, <3>3
  <2>8. \A i \in 1..m : groups[i].key # key
    BY <1>4 DEF HasKey
  <2> HIDE DEF m
  <2>9. \A i \in 1..m + 1 : i = m + 1 \/ i \in 1..m
    BY <1>1
  <2>10. KeysDiffer(h)
    <3> SUFFICES ASSUME NEW i \in 1..m + 1, NEW j \in 1..m + 1, h[i].key = h[j].key
                 PROVE  i = j
      BY <2>4 DEF KeysDiffer
    <3>1. CASE i = m + 1 \/ j = m + 1
      BY <2>3, <2>4, <2>8, <2>9, <3>1
    <3>2. CASE i \in 1..m /\ j \in 1..m
      BY <1>1, <2>4, <3>2 DEF KeysDiffer, m
    <3> QED BY <2>9, <3>1, <3>2
  <2>11. SumsUpTo(v, table, n + 1, h)
    <3> SUFFICES ASSUME NEW i \in 1..m + 1
                 PROVE  /\ UpTo(v, table, h[i].key, n + 1) # {}
                        /\ IsSumOf(h[i].value, Amounts(table), UpTo(v, table, h[i].key, n + 1))
      BY <2>4 DEF SumsUpTo
    <3>1. CASE i = m + 1
      BY <2>3, <2>4, <2>5, <2>7, <3>1
    <3>2. CASE i \in 1..m
      <4>1. h[i] = groups[i] /\ groups[i].key # key
        BY <2>4, <2>8, <3>2
      <4>2. UpTo(v, table, groups[i].key, n + 1) = UpTo(v, table, groups[i].key, n)
        BY <1>2, <4>1
      <4> QED BY <1>1, <3>2, <4>1, <4>2 DEF SumsUpTo, m
    <3> QED BY <2>9, <3>1, <3>2
  <2>12. ASSUME NEW k, UpTo(v, table, k, n + 1) # {}
         PROVE  HasKey(h, k)
    <3>1. CASE k = key
      <4>1. m + 1 \in 1..Len(h)
        BY <1>1, <2>4
      <4> QED BY <2>3, <2>4, <3>1, <4>1 DEF HasKey
    <3>2. CASE k # key
      <4>1. UpTo(v, table, k, n) # {}
        BY <1>2, <2>12, <3>2
      <4>2. PICK i \in 1..m : groups[i].key = k
        BY <1>1, <4>1 DEF HasKey, m
      <4>3. i \in 1..Len(h) /\ h[i] = groups[i]
        BY <1>1, <2>4, <4>2
      <4> QED BY <4>2, <4>3 DEF HasKey
    <3> QED BY <3>1, <3>2
  <2> QED BY <1>10, <2>10, <2>11, <2>12 DEF IsGrouping
<1>5. CASE Joins(v, e) /\ HasKey(groups, key)
  <2>1. PICK p : GrowsAt(groups, h, p, key, e.value)
    BY <1>5, <1>14
  <2>2. /\ p \in 1..m /\ groups[p].key = key /\ Len(h) = m
        /\ h[p].key = key /\ h[p].value = groups[p].value + e.value
        /\ \A i \in 1..m : h[i].key = groups[i].key
        /\ \A i \in 1..m : i # p => h[i] = groups[i]
    BY <2>1 DEF GrowsAt
  <2>3. UpTo(v, table, key, n + 1) = UpTo(v, table, key, n) \cup {n + 1}
    BY <1>5, <1>11, UpToGrows
  <2>4. IsSumOf(h[p].value, Amounts(table), UpTo(v, table, key, n + 1))
    <3>1. IsSumOf(groups[p].value, Amounts(table), UpTo(v, table, key, n))
      BY <1>1, <2>2 DEF SumsUpTo
    <3>2. IsSumOf(groups[p].value + e.value, Amounts(table), UpTo(v, table, key, n + 1))
      BY <1>5, <1>11, <3>1, UpToSum
    <3> QED BY <2>2, <3>2
  <2> HIDE DEF m
  <2>5. KeysDiffer(h)
    BY <1>1, <2>2 DEF KeysDiffer, m
  <2>6. SumsUpTo(v, table, n + 1, h)
    <3> SUFFICES ASSUME NEW i \in 1..m
                 PROVE  /\ UpTo(v, table, h[i].key, n + 1) # {}
                        /\ IsSumOf(h[i].value, Amounts(table), UpTo(v, table, h[i].key, n + 1))
      BY <2>2 DEF SumsUpTo
    <3>1. CASE i = p
      BY <2>2, <2>3, <2>4, <3>1
    <3>2. CASE i # p
      <4>1. h[i] = groups[i] /\ groups[i].key # key
        BY <1>1, <2>2, <3>2 DEF KeysDiffer, m
      <4>2. UpTo(v, table, groups[i].key, n + 1) = UpTo(v, table, groups[i].key, n)
        BY <1>2, <4>1
      <4> QED BY <1>1, <4>1, <4>2 DEF SumsUpTo, m
    <3> QED BY <3>1, <3>2
  <2>7. ASSUME NEW k, UpTo(v, table, k, n + 1) # {}
        PROVE  HasKey(h, k)
    <3>1. CASE k = key
      BY <2>2, <3>1 DEF HasKey
    <3>2. CASE k # key
      <4>1. UpTo(v, table, k, n) # {}
        BY <1>2, <2>7, <3>2
      <4>2. PICK i \in 1..m : groups[i].key = k
        BY <1>1, <4>1 DEF HasKey, m
      <4> QED BY <2>2, <4>2 DEF HasKey
    <3> QED BY <3>1, <3>2
  <2> QED BY <1>10, <2>5, <2>6, <2>7 DEF IsGrouping
<1> QED BY <1>3, <1>4, <1>5

\* What the loop has made of all the records.
LEMMA GroupedIsGrouping ==
    ASSUME NEW v, NEW table \in Seq(Fighting)
    PROVE  IsGrouping(v, table, Len(table), Grouped(v, table))
<1> DEFINE N == Len(table)
<1>1. PICK g : /\ g[0] = << >>
               /\ \A i \in 1..N : g[i] = Joined(v, g[i - 1], table[i])
               /\ Grouped(v, table) = g[N]
  BY GroupingSteps
<1>2. N \in Nat
  BY FightingFacts
<1> DEFINE P == {n \in Nat : n <= N => IsGrouping(v, table, n, g[n])}
<1>3. 0 \in P
  <2>1. \A k : UpTo(v, table, k, 0) = {}
    <3> SUFFICES ASSUME NEW k PROVE UpTo(v, table, k, 0) = {}
      OBVIOUS
    <3>1. UpTo(v, table, k, 0) \in SUBSET (1..0)
      BY UpToType
    <3> QED BY <3>1
  <2>2. << >> \in Seq(Groups(v)) /\ Len(<< >>) = 0
    OBVIOUS
  <2>3. KeysDiffer(<< >>) /\ SumsUpTo(v, table, 0, << >>)
    BY <2>2 DEF KeysDiffer, SumsUpTo
  <2>4. IsGrouping(v, table, 0, << >>)
    BY <2>1, <2>2, <2>3 DEF IsGrouping
  <2> QED BY <1>1, <2>4
<1>4. ASSUME NEW n \in Nat, n \in P PROVE n + 1 \in P
  <2> SUFFICES ASSUME n + 1 <= N PROVE IsGrouping(v, table, n + 1, g[n + 1])
    OBVIOUS
  <2>1. n + 1 \in 1..N /\ IsGrouping(v, table, n, g[n])
    BY <1>2, <1>4
  <2>2. g[n + 1] = Joined(v, g[n], table[n + 1])
    <3>1. (n + 1) - 1 = n
      OBVIOUS
    <3> QED BY <1>1, <2>1, <3>1
  <2> QED BY <2>1, <2>2, GroupingGrows
<1> HIDE DEF P
<1>5. N \in P
  BY <1>2, <1>3, <1>4, Induct
<1> QED BY <1>1, <1>2, <1>5 DEF P

LEMMA KeysOfHits ==
    ASSUME NEW v, NEW table \in Seq(Fighting), NEW k
    PROVE  /\ UpTo(v, table, k, Len(table)) = Hits(v, table, k)
           /\ k \in KeysOf(v, table) <=> Hits(v, table, k) # {}
<1> DEFINE H == Hits(v, table, k)
<1>1. \A i \in H : i \in DOMAIN table /\ Key(v, table[i]) = k /\ i <= Len(table)
  BY FightingFacts DEF Hits
<1> HIDE DEF H
<1> QED BY <1>1 DEF UpTo, KeysOf, H

\* A group for each key, with the sum of its hits.
LEMMA GroupedFacts ==
    ASSUME NEW v, NEW table \in Seq(Fighting), NEW G, G = Grouped(v, table)
    PROVE  /\ G \in Seq(Groups(v)) /\ KeysDiffer(G)
           /\ \A i \in 1..Len(G) : G[i].key \in KeysOf(v, table)
           /\ \A i \in 1..Len(G) : G[i].value = Value(v, table, G[i].key)
           /\ \A k \in KeysOf(v, table) : HasKey(G, k)
<1>1. IsGrouping(v, table, Len(table), G)
  BY GroupedIsGrouping
<1>2. ASSUME NEW i \in 1..Len(G)
      PROVE  G[i].key \in KeysOf(v, table) /\ G[i].value = Value(v, table, G[i].key)
  <2> DEFINE k == G[i].key
             U == UpTo(v, table, k, Len(table))
  <2>1. U # {} /\ IsSumOf(G[i].value, Amounts(table), U)
    BY <1>1 DEF IsGrouping, SumsUpTo
  <2>2. U = Hits(v, table, k) /\ IsFiniteSet(U)
    BY KeysOfHits, UpToType, FightingFacts
  <2> HIDE DEF U
  <2>3. k \in KeysOf(v, table)
    BY <2>1, <2>2, KeysOfHits
  <2>4. IsSumOf(Value(v, table, k), Amounts(table), U)
    BY <2>2, ValueIsSum
  <2> DEFINE f == Amounts(table)
  <2> HIDE DEF f, k
  <2>5. G[i].value = Value(v, table, k)
    <3>1. IsSumOf(G[i].value, f, U) /\ IsSumOf(Value(v, table, k), f, U)
      BY <2>1, <2>4 DEF f
    <3>2. \A y \in U : f[y] = f[y]
      OBVIOUS
    <3> QED BY <2>2, <3>1, <3>2, SumOfSame
  <2> QED BY <2>3, <2>5 DEF k
<1>3. ASSUME NEW k \in KeysOf(v, table) PROVE HasKey(G, k)
  BY <1>1, KeysOfHits DEF IsGrouping
<1> QED BY <1>1, <1>2, <1>3 DEF IsGrouping

\* Sorting keeps the groups: each is there once.
LEMMA SortingFacts ==
    ASSUME NEW v, NEW G \in Seq(Groups(v)), KeysDiffer(G), NEW s \in Sortings(G)
    PROVE  /\ s \in Seq(Groups(v)) /\ Len(s) = Len(G) /\ KeysDiffer(s)
           /\ \A i \in 1..Len(s) : \E j \in 1..Len(G) : s[i] = G[j]
           /\ \A j \in 1..Len(G) : \E i \in 1..Len(s) : s[i] = G[j]
           /\ \A i \in 1..Len(s) - 1 : s[i].value >= s[i + 1].value
<1> DEFINE n == Len(G)
           S == ToSet(G)
<1>1. n \in Nat /\ DOMAIN G = 1..n /\ G \in [1..n -> S] /\ \A i \in 1..n : G[i] \in Groups(v)
  BY LenProperties, ElementOfSeq DEF ToSet
<1>2. S = {G[i] : i \in 1..n}
  BY <1>1 DEF ToSet
<1>3. /\ s \in [1..n -> S]
      /\ S = {s[i] : i \in 1..n}
      /\ \A i \in 1..n - 1 : s[i].value >= s[i + 1].value
  BY <1>1 DEF Sortings, ToSet
<1> HIDE DEF n, S
<1>4. S \in SUBSET Groups(v)
  BY <1>1, <1>2
<1>5. s \in Seq(Groups(v)) /\ Len(s) = n
  <2>1. s \in [1..n -> Groups(v)]
    BY <1>3, <1>4
  <2> QED BY <1>1, <2>1
<1>6. IsFiniteSet(1..n) /\ Cardinality(1..n) = n
  BY <1>1, FS_Interval
<1>7. \A i, j \in 1..n : s[i] = s[j] => i = j
  <2>1. \A i, j \in 1..n : G[i] = G[j] => i = j
    BY DEF KeysDiffer, n
  <2>2. G \in Injection(1..n, S) /\ G \in Surjection(1..n, S)
    BY <1>1, <1>2, <2>1 DEF Injection, Surjection, IsInjective
  <2>3. Cardinality(S) = Cardinality(1..n)
    BY <1>6, <2>2, FS_Surjection
  <2>4. s \in Surjection(1..n, S)
    BY <1>3 DEF Surjection
  <2>5. s \in Injection(1..n, S)
    BY <1>6, <2>3, <2>4, FS_Surjection
  <2> QED BY <1>3, <2>5 DEF Injection, IsInjective
<1>8. \A i \in 1..n : \E j \in 1..n : s[i] = G[j]
  BY <1>2, <1>3
<1>9. \A j \in 1..n : \E i \in 1..n : s[i] = G[j]
  BY <1>2, <1>3
<1>10. KeysDiffer(s)
  <2> SUFFICES ASSUME NEW i \in 1..n, NEW j \in 1..n, s[i].key = s[j].key
               PROVE  i = j
    BY <1>5 DEF KeysDiffer
  <2>1. PICK p \in 1..n : s[i] = G[p]
    BY <1>8
  <2>2. PICK q \in 1..n : s[j] = G[q]
    BY <1>8
  <2>3. p = q
    BY <2>1, <2>2 DEF KeysDiffer, n
  <2> QED BY <1>7, <2>1, <2>2, <2>3
<1> QED BY <1>3, <1>5, <1>8, <1>9, <1>10 DEF n

\* There are as many keys as groups.
LEMMA KeysAreCounted ==
    ASSUME NEW v, NEW table \in Seq(Fighting)
    PROVE  /\ IsFiniteSet(KeysOf(v, table))
           /\ Cardinality(KeysOf(v, table)) = Len(Grouped(v, table))
<1> DEFINE G == Grouped(v, table)
           K == KeysOf(v, table)
           f == [i \in 1..Len(G) |-> G[i].key]
<1>1. /\ G \in Seq(Groups(v)) /\ KeysDiffer(G)
      /\ \A i \in 1..Len(G) : G[i].key \in K
      /\ \A k \in K : HasKey(G, k)
  BY GroupedFacts
<1>2. Len(G) \in Nat
  BY <1>1, LenProperties
<1> HIDE DEF G, K
<1>3. f \in [1..Len(G) -> K]
  BY <1>1
<1>4. f \in Surjection(1..Len(G), K) /\ f \in Injection(1..Len(G), K)
  <2>1. \A k \in K : \E i \in 1..Len(G) : f[i] = k
    BY <1>1 DEF HasKey
  <2>2. \A i, j \in 1..Len(G) : f[i] = f[j] => i = j
    BY <1>1 DEF KeysDiffer
  <2> HIDE DEF f
  <2> QED BY <1>3, <2>1, <2>2 DEF Surjection, Injection, IsInjective
<1>5. IsFiniteSet(1..Len(G)) /\ Cardinality(1..Len(G)) = Len(G)
  <2> DEFINE n == Len(G)
  <2>1. n \in Nat
    BY <1>2
  <2> HIDE DEF n
  <2>2. IsFiniteSet(1..n) /\ Cardinality(1..n) = n
    BY <2>1, FS_Interval
  <2> QED BY <2>2 DEF n
<1> HIDE DEF f
<1> QED BY <1>4, <1>5, FS_Surjection DEF G, K

\* The sum over all the keys.
Sums(v, table) == [k \in KeysOf(v, table) |-> Value(v, table, k)]
MaxOf(v, table) == MapThenSumSet(LAMBDA k : Value(v, table, k), KeysOf(v, table))

LEMMA SumsAreNumbers ==
    ASSUME NEW v, NEW table \in Seq(Fighting)
    PROVE  Numbers(Sums(v, table), KeysOf(v, table))
<1>1. ASSUME NEW k PROVE Value(v, table, k) \in Int
  <2> DEFINE S == Hits(v, table, k)
  <2>1. IsSumOf(Value(v, table, k), Amounts(table), S)
    BY ValueIsSum
  <2> HIDE DEF S
  <2> QED BY <2>1 DEF IsSumOf, IsSum
<1> QED BY <1>1 DEF Numbers, Sums

LEMMA MaxIsSum ==
    ASSUME NEW v, NEW table \in Seq(Fighting)
    PROVE  IsSumOf(MaxOf(v, table), Sums(v, table), KeysOf(v, table))
<1> DEFINE S == KeysOf(v, table)
           f == Sums(v, table)
           Val(it, T) == IF T = {} THEN 0
                         ELSE Value(v, table, CHOOSE x \in T : TRUE) + it[T \ {CHOOSE x \in T : TRUE}]
           Eq(it) == it = [T \in SUBSET S |-> Val(it, T)]
           F == CHOOSE it : Eq(it)
<1>1. MaxOf(v, table) = F[S]
  BY DEF MaxOf, MapThenSumSet, MapThenFoldSet
<1>2. IsFiniteSet(S) /\ Numbers(f, S) /\ \A k \in S : f[k] = Value(v, table, k)
  BY KeysAreCounted, SumsAreNumbers DEF Sums
<1> HIDE DEF S, f
<1>3. PICK it : IsSum(it, f, S)
  BY <1>2, SumExists
<1>4. it = [T \in SUBSET S |-> it[T]] /\ \A T \in SUBSET S : it[T] = Val(it, T)
  <2>1. ASSUME NEW T \in SUBSET S PROVE it[T] = Val(it, T)
    <3>1. T # {} => (CHOOSE x \in T : TRUE) \in S
      OBVIOUS
    <3> QED BY <1>2, <1>3, <3>1 DEF IsSum, Adds, AnyOf
  <2>2. it \in [SUBSET S -> Int]
    BY <1>3 DEF IsSum
  <2> HIDE DEF Val
  <2> QED BY <2>1, <2>2
<1>5. Eq(it)
  <2> HIDE DEF Val
  <2> QED BY <1>4
<1>6. Eq(F)
  <2> HIDE DEF Eq
  <2> QED BY <1>5
<1> HIDE DEF F
<1>7. \A T \in SUBSET S : F[T] = Val(F, T)
  <2> HIDE DEF Val
  <2> QED BY <1>6
<1>8. Adds(F, f, S)
  <2>1. \A T \in SUBSET S : T # {} => (CHOOSE x \in T : TRUE) \in S
    OBVIOUS
  <2> QED BY <1>2, <1>7, <2>1 DEF Adds, AnyOf
<1>9. F[S] = it[S]
  <2>1. S \in SUBSET (S \cap S)
    OBVIOUS
  <2> QED BY <1>2, <1>3, <1>8, <2>1, SumUnique DEF IsSum
<1> QED BY <1>1, <1>3, <1>9 DEF IsSumOf, S, f

\* The total of the loop over the records, one after the other.
LEMMA TotalSteps ==
    ASSUME NEW v, NEW table \in Seq(Fighting)
    PROVE  \E g : /\ g[0] = 0
                  /\ \A i \in 1..Len(table) :
                        g[i] = IF Joins(v, table[i]) THEN g[i - 1] + table[i].value ELSE g[i - 1]
                  /\ Total(v, table) = g[Len(table)]
<1> DEFINE n == Len(table)
           More(x, e) == IF Joins(v, e) THEN x + e.value ELSE x
           Val(it, S) == IF S = {} THEN 0 ELSE More(it[S \ {Max(S)}], table[Max(S)])
           Eq(it) == it = [S \in SUBSET (1..n) |-> Val(it, S)]
           F == CHOOSE it : Eq(it)
           step == [i \in Nat |-> [acc \in Int |-> IF i \in 1..n THEN More(acc, table[i]) ELSE acc]]
<1>1. n \in Nat /\ DOMAIN table = 1..n /\ \A i \in 1..n : table[i].value \in Int
  BY FightingFacts, ValuesAssumption
<1>2. Total(v, table) = F[1..n]
  BY <1>1 DEF Total, FoldLeft, MapThenFoldSet, Joins
<1>3. step \in [Nat -> [Int -> Int]]
  BY <1>1
<1>4. \A i \in 1..n, acc \in Int : step[i][acc] = More(acc, table[i])
  BY <1>1
<1> HIDE DEF step, n, More
<1>6. PICK it \in [SUBSET (1..n) -> Int] : IsFold(it, 0, step, n)
  <2> DEFINE X == Int
  <2>1. 0 \in X
    OBVIOUS
  <2>2. step \in [Nat -> [X -> X]]
    BY <1>3
  <2> HIDE DEF X
  <2>3. \E it \in [SUBSET (1..n) -> X] : IsFold(it, 0, step, n)
    BY <1>1, <2>1, <2>2, FoldExists
  <2> QED BY <2>3 DEF X
<1>7. ASSUME NEW S \in SUBSET (1..n), S # {}
      PROVE  it[S] = More(it[S \ {Max(S)}], table[Max(S)])
  BY <1>1, <1>4, <1>6, <1>7, MaxInside DEF IsFold
<1>8. Eq(it)
  BY <1>6, <1>7 DEF IsFold
<1>9. Eq(F)
  <2> HIDE DEF Eq
  <2> QED BY <1>8
<1>10. F[{}] = 0 /\ \A i \in 1..n : F[1..i] = More(F[1..i - 1], table[i])
  <2> HIDE DEF F
  <2>1. F[{}] = 0
    BY <1>9
  <2>2. ASSUME NEW i \in 1..n PROVE F[1..i] = More(F[1..i - 1], table[i])
    <3>1. 1..i \in SUBSET (1..n) /\ i \in Nat /\ i > 0
      BY <1>1
    <3>2. Max(1..i) = i /\ 1..i # {} /\ (1..i) \ {i} = 1..i - 1
      BY <3>1, TopOfInterval
    <3> QED BY <3>1, <3>2, <1>9
  <2> QED BY <2>1, <2>2
<1> DEFINE g == [i \in 0..n |-> F[1..i]]
<1> HIDE DEF F
<1>11. g[0] = 0 /\ g[n] = F[1..n] /\ \A i \in 1..n : g[i] = More(g[i - 1], table[i])
  BY <1>1, <1>10
<1> HIDE DEF g
<1> QED BY <1>2, <1>11 DEF n, More

\* x is what the values of the groups add up to.
IsTotal(x, groups) ==
    \E g \in [0..Len(groups) -> Int] :
        /\ g[0] = 0
        /\ \A i \in 1..Len(groups) : g[i] = g[i - 1] + groups[i].value
        /\ x = g[Len(groups)]

LEMMA PlusSwaps ==
    \A a, b, c \in Int : (a + b) + c = a + (b + c) /\ (a + b) + c = (a + c) + b
OBVIOUS

\* Total and groups grow by the same record.
LEMMA TotalGrows ==
    ASSUME NEW v, NEW groups \in Seq(Groups(v)), NEW e \in Entries, NEW x, IsTotal(x, groups)
    PROVE  IsTotal(IF Joins(v, e) THEN x + e.value ELSE x, Joined(v, groups, e))
<1> DEFINE m == Len(groups)
           key == Key(v, e)
           h == Joined(v, groups, e)
           d == e.value
<1>1. m \in Nat /\ d \in Int /\ \A i \in 1..m : groups[i].value \in Int
  <2>1. m \in Nat /\ \A i \in 1..m : groups[i] \in Groups(v)
    BY LenProperties, ElementOfSeq
  <2> QED BY <2>1, ValuesAssumption DEF Groups
<1>2. PICK g \in [0..m -> Int] :
         g[0] = 0 /\ x = g[m] /\ \A i \in 1..m : g[i] = g[i - 1] + groups[i].value
  BY DEF IsTotal
<1>3. CASE ~ Joins(v, e)
  <2>1. h = groups
    BY <1>3, JoinedFacts
  <2> QED BY <1>3, <2>1
<1>4. CASE Joins(v, e) /\ ~ HasKey(groups, key)
  <2> DEFINE new == [key |-> key, value |-> d]
             f == [i \in 0..m + 1 |-> IF i = m + 1 THEN g[m] + d ELSE g[i]]
  <2>1. h = Append(groups, new)
    BY <1>4, JoinedFacts
  <2>2. new.value = d
    OBVIOUS
  <2> HIDE DEF new, d
  <2>3. Len(h) = m + 1 /\ h[m + 1] = new /\ \A i \in 1..m : h[i] = groups[i]
    BY <2>1, AppendProperties
  <2> HIDE DEF h, m
  <2>4. f \in [0..m + 1 -> Int] /\ f[0] = 0 /\ f[m + 1] = x + d
    BY <1>1, <1>2
  <2>5. ASSUME NEW i \in 1..m + 1 PROVE f[i] = f[i - 1] + h[i].value
    <3>1. CASE i = m + 1
      <4>1. f[i] = g[m] + d /\ f[i - 1] = g[m]
        BY <1>1, <3>1
      <4> QED BY <2>2, <2>3, <3>1, <4>1
    <3>2. CASE i \in 1..m
      <4>1. f[i] = g[i] /\ f[i - 1] = g[i - 1]
        BY <1>1, <3>2
      <4> QED BY <1>2, <2>3, <3>2, <4>1
    <3> QED BY <1>1, <3>1, <3>2
  <2> HIDE DEF f
  <2>6. IsTotal(x + d, h)
    BY <2>3, <2>4, <2>5 DEF IsTotal
  <2> QED BY <1>4, <2>6 DEF h, d
<1>5. CASE Joins(v, e) /\ HasKey(groups, key)
  <2>1. PICK p : GrowsAt(groups, h, p, key, d)
    BY <1>5, JoinedFacts
  <2> DEFINE f == [i \in 0..m |-> IF i < p THEN g[i] ELSE g[i] + d]
  <2>2. /\ p \in 1..m /\ Len(h) = m /\ h[p].value = groups[p].value + d
        /\ \A i \in 1..m : i # p => h[i] = groups[i]
    BY <2>1 DEF GrowsAt
  <2> HIDE DEF h, m, d
  <2>3. f \in [0..m -> Int] /\ f[0] = 0 /\ f[m] = x + d
    BY <1>1, <1>2, <2>2
  <2>4. ASSUME NEW i \in 1..m PROVE f[i] = f[i - 1] + h[i].value
    <3>1. g[i] = g[i - 1] + groups[i].value /\ g[i] \in Int /\ g[i - 1] \in Int
      BY <1>1, <1>2
    <3>2. groups[i].value \in Int /\ d \in Int /\ i \in Nat /\ p \in Nat
      BY <1>1, <2>2
    <3>3. CASE i < p
      <4>1. f[i] = g[i] /\ f[i - 1] = g[i - 1] /\ h[i] = groups[i]
        BY <1>1, <2>2, <3>2, <3>3
      <4> QED BY <3>1, <4>1
    <3>4. CASE i = p
      <4>1. f[i] = g[i] + d /\ f[i - 1] = g[i - 1] /\ h[i].value = groups[i].value + d
        BY <1>1, <2>2, <3>2, <3>4
      <4>2. (g[i - 1] + groups[i].value) + d = g[i - 1] + (groups[i].value + d)
        BY <3>1, <3>2, PlusSwaps
      <4> HIDE DEF f
      <4> QED BY <3>1, <4>1, <4>2
    <3>5. CASE i > p
      <4>1. ~ (i < p) /\ ~ (i - 1 < p) /\ i \in 0..m /\ i - 1 \in 0..m /\ i # p
        BY <1>1, <3>2, <3>5
      <4>2. f[i] = g[i] + d /\ f[i - 1] = g[i - 1] + d /\ h[i] = groups[i]
        BY <2>2, <4>1
      <4>3. (g[i - 1] + groups[i].value) + d = (g[i - 1] + d) + groups[i].value
        BY <3>1, <3>2, PlusSwaps
      <4> HIDE DEF f
      <4> QED BY <3>1, <4>2, <4>3
    <3> QED BY <3>2, <3>3, <3>4, <3>5
  <2> HIDE DEF f
  <2>5. IsTotal(x + d, h)
    BY <2>2, <2>3, <2>4 DEF IsTotal
  <2> QED BY <1>5, <2>5 DEF h, d
<1> QED BY <1>3, <1>4, <1>5

\* So the total is what the groups add up to.
LEMMA TotalOfGroups ==
    ASSUME NEW v, NEW table \in Seq(Fighting)
    PROVE  IsTotal(Total(v, table), Grouped(v, table))
<1> DEFINE N == Len(table)
<1>1. PICK g : /\ g[0] = << >>
               /\ \A i \in 1..N : g[i] = Joined(v, g[i - 1], table[i])
               /\ Grouped(v, table) = g[N]
  BY GroupingSteps
<1>2. PICK t : /\ t[0] = 0
               /\ \A i \in 1..N : t[i] = IF Joins(v, table[i]) THEN t[i - 1] + table[i].value
                                         ELSE t[i - 1]
               /\ Total(v, table) = t[N]
  BY TotalSteps
<1>3. N \in Nat /\ \A i \in 1..N : table[i] \in Entries
  BY FightingFacts
<1> DEFINE P == {n \in Nat : n <= N => g[n] \in Seq(Groups(v)) /\ IsTotal(t[n], g[n])}
<1>4. 0 \in P
  <2> DEFINE z == [i \in 0..0 |-> 0]
  <2>1. z \in [0..0 -> Int] /\ z[0] = 0 /\ 1..0 = {} /\ Len(<< >>) = 0
    OBVIOUS
  <2> HIDE DEF z
  <2>2. IsTotal(0, << >>)
    BY <2>1 DEF IsTotal
  <2>3. << >> \in Seq(Groups(v))
    OBVIOUS
  <2> QED BY <1>1, <1>2, <2>2, <2>3
<1>5. ASSUME NEW n \in Nat, n \in P PROVE n + 1 \in P
  <2> SUFFICES ASSUME n + 1 <= N
               PROVE  g[n + 1] \in Seq(Groups(v)) /\ IsTotal(t[n + 1], g[n + 1])
    OBVIOUS
  <2>1. n + 1 \in 1..N /\ (n + 1) - 1 = n /\ table[n + 1] \in Entries
    BY <1>3
  <2>2. g[n] \in Seq(Groups(v)) /\ IsTotal(t[n], g[n])
    BY <1>3, <1>5
  <2>3. /\ g[n + 1] = Joined(v, g[n], table[n + 1])
        /\ t[n + 1] = IF Joins(v, table[n + 1]) THEN t[n] + table[n + 1].value ELSE t[n]
    BY <1>1, <1>2, <2>1
  <2>4. Joined(v, g[n], table[n + 1]) \in Seq(Groups(v))
    BY <2>1, <2>2, JoinedFacts
  <2> QED BY <2>1, <2>2, <2>3, <2>4, TotalGrows
<1> HIDE DEF P
<1>6. N \in P
  BY <1>3, <1>4, <1>5, Induct
<1> QED BY <1>1, <1>2, <1>3, <1>6 DEF P

\* What is known of the groups once they are sorted.
LEMMA SortedFacts ==
    ASSUME NEW v, NEW table \in Seq(Fighting), NEW s \in Sortings(Grouped(v, table))
    PROVE  /\ s \in Seq(Groups(v)) /\ Len(s) = Cardinality(KeysOf(v, table)) /\ KeysDiffer(s)
           /\ \A i \in 1..Len(s) : s[i].key \in KeysOf(v, table)
           /\ \A i \in 1..Len(s) : s[i].value = Value(v, table, s[i].key)
           /\ \A k \in KeysOf(v, table) : HasKey(s, k)
           /\ \A i \in 1..Len(s) - 1 : s[i].value >= s[i + 1].value
<1> DEFINE G == Grouped(v, table)
           K == KeysOf(v, table)
           val == [k \in K |-> Value(v, table, k)]
<1>1. /\ G \in Seq(Groups(v)) /\ KeysDiffer(G)
      /\ \A i \in 1..Len(G) : G[i].key \in K
      /\ \A i \in 1..Len(G) : G[i].value = Value(v, table, G[i].key)
      /\ \A k \in K : HasKey(G, k)
  BY GroupedFacts
<1>2. Len(G) = Cardinality(K)
  BY KeysAreCounted
<1>3. s \in Sortings(G)
  OBVIOUS
<1> HIDE DEF G, K
<1>4. /\ s \in Seq(Groups(v)) /\ Len(s) = Len(G) /\ KeysDiffer(s)
      /\ \A i \in 1..Len(s) : \E j \in 1..Len(G) : s[i] = G[j]
      /\ \A j \in 1..Len(G) : \E i \in 1..Len(s) : s[i] = G[j]
      /\ \A i \in 1..Len(s) - 1 : s[i].value >= s[i + 1].value
  BY <1>1, <1>3, SortingFacts
<1>5. ASSUME NEW i \in 1..Len(s) PROVE s[i].key \in K /\ s[i].value = Value(v, table, s[i].key)
  <2>1. PICK j \in 1..Len(G) : s[i] = G[j]
    BY <1>4
  <2>2. G[j].key \in K /\ G[j].value = Value(v, table, G[j].key)
    BY <1>1
  <2> QED BY <2>1, <2>2
<1>6. \A k \in K : HasKey(s, k)
  <2> SUFFICES ASSUME NEW k \in K PROVE \E i \in 1..Len(s) : s[i].key = k
    BY DEF HasKey
  <2>1. PICK j \in 1..Len(G) : G[j].key = k
    BY <1>1 DEF HasKey
  <2> QED BY <1>4, <2>1
<1> QED BY <1>2, <1>4, <1>5, <1>6 DEF G, K

\* The total is the sum over the keys.
LEMMA TotalIsMax ==
    ASSUME NEW v, NEW table \in Seq(Fighting)
    PROVE  Total(v, table) = MaxOf(v, table) /\ Total(v, table) \in Int
<1> DEFINE K == KeysOf(v, table)
           f == Sums(v, table)
           s == Grouped(v, table)
           N == Len(s)
           U(n) == {s[i].key : i \in 1..n}
<1>1. /\ s \in Seq(Groups(v)) /\ KeysDiffer(s) /\ N \in Nat
      /\ \A i \in 1..N : s[i].key \in K
      /\ \A i \in 1..N : s[i].value = f[s[i].key]
      /\ \A k \in K : HasKey(s, k)
  BY GroupedFacts, LenProperties DEF Sums
<1>2. Numbers(f, K)
  BY SumsAreNumbers
<1>3. PICK g : /\ g[0] = 0
               /\ \A i \in 1..N : g[i] = g[i - 1] + s[i].value
               /\ Total(v, table) = g[N]
  BY TotalOfGroups DEF IsTotal
<1>4. IsSumOf(MaxOf(v, table), f, K) /\ IsFiniteSet(K)
  BY MaxIsSum, KeysAreCounted
<1> HIDE DEF K, f, s
<1> DEFINE P == {n \in Nat : n <= N => IsFiniteSet(U(n)) /\ IsSumOf(g[n], f, U(n))}
<1>5. 0 \in P
  <2>1. U(0) = {}
    OBVIOUS
  <2>2. IsFiniteSet({}) /\ IsSumOf(0, f, {})
    BY FS_EmptySet, SumOfNone
  <2> QED BY <1>3, <2>1, <2>2
<1>6. ASSUME NEW n \in Nat, n \in P PROVE n + 1 \in P
  <2> SUFFICES ASSUME n + 1 <= N
               PROVE  IsFiniteSet(U(n + 1)) /\ IsSumOf(g[n + 1], f, U(n + 1))
    OBVIOUS
  <2> DEFINE a == s[n + 1].key
  <2>1. n + 1 \in 1..N /\ \A i \in 1..n : i \in 1..N /\ i # n + 1
    BY <1>1
  <2>2. IsFiniteSet(U(n)) /\ IsSumOf(g[n], f, U(n))
    BY <1>1, <1>6
  <2>3. \A i \in 1..n + 1 : i \in 1..n \/ i = n + 1
    OBVIOUS
  <2>4. U(n + 1) = U(n) \cup {a}
    BY <2>1, <2>3
  <2>5. a \notin U(n)
    <3>1. \A i \in 1..n : s[i].key # s[n + 1].key
      BY <1>1, <2>1 DEF KeysDiffer
    <3> QED BY <3>1
  <2>6. Numbers(f, U(n) \cup {a})
    BY <1>1, <1>2, <2>1 DEF Numbers
  <2>7. g[n + 1] = g[n] + f[a]
    <3>1. (n + 1) - 1 = n
      OBVIOUS
    <3> QED BY <1>1, <1>3, <2>1, <3>1
  <2> HIDE DEF U, a
  <2>8. IsFiniteSet(U(n) \cup {a})
    BY <2>2, <2>5, FS_AddElement
  <2>9. IsSumOf(g[n] + f[a], f, U(n) \cup {a})
    BY <2>2, <2>5, <2>6, SumOfMore
  <2> QED BY <2>4, <2>7, <2>8, <2>9
<1> HIDE DEF P
<1>7. N \in P
  BY <1>1, <1>5, <1>6, Induct
<1>8. U(N) = K
  <2>1. \A k \in K : \E i \in 1..N : s[i].key = k
    BY <1>1 DEF HasKey
  <2> QED BY <1>1, <2>1
<1>9. IsSumOf(g[N], f, K)
  <2> HIDE DEF U
  <2>1. IsSumOf(g[N], f, U(N))
    BY <1>1, <1>7 DEF P
  <2> QED BY <1>8, <2>1
<1>10. g[N] = MaxOf(v, table)
  <2>1. \A k \in K : f[k] = f[k]
    OBVIOUS
  <2> QED BY <1>4, <1>9, <2>1, SumOfSame
<1>11. g[N] \in Int
  BY <1>9 DEF IsSumOf, IsSum
<1> QED BY <1>3, <1>10, <1>11

\* The display shows the groups of the table: Shows with its variables as parameters.
IsShown(v, table, r, n) ==
    /\ {[key |-> r[i].key, value |-> r[i].value] : i \in 1 .. n} =
          {[key |-> k, value |-> Value(v, table, k)] : k \in KeysOf(v, table)}
    /\ n = Cardinality(KeysOf(v, table))
    /\ \A i \in 1 .. n :
          /\ i < n => r[i].value >= r[i + 1].value
          /\ r[i].max = MaxOf(v, table)

\* Rows that are filled with the sorted groups show them.
LEMMA FilledShows ==
    ASSUME NEW v, NEW table \in Seq(Fighting), NEW s \in Sortings(Grouped(v, table)),
           NEW r, \A i \in 1..Len(s) : r[i] = [key |-> s[i].key, value |-> s[i].value,
                                               max |-> Total(v, table), owner |-> v]
    PROVE  IsShown(v, table, r, Len(s))
<1> DEFINE n == Len(s)
           K == KeysOf(v, table)
           val == [k \in K |-> Value(v, table, k)]
<1>1. /\ n \in Nat /\ n = Cardinality(K)
      /\ \A i \in 1..n : s[i].key \in K
      /\ \A i \in 1..n : s[i].value = Value(v, table, s[i].key)
      /\ \A k \in K : HasKey(s, k)
      /\ \A i \in 1..n - 1 : s[i].value >= s[i + 1].value
  BY SortedFacts, LenProperties
<1>2. Total(v, table) = MaxOf(v, table)
  BY TotalIsMax
<1>3. ASSUME NEW i \in 1..n
      PROVE  r[i].key = s[i].key /\ r[i].value = s[i].value /\ r[i].max = MaxOf(v, table)
  <2>1. r[i] = [key |-> s[i].key, value |-> s[i].value, max |-> Total(v, table), owner |-> v]
    OBVIOUS
  <2>2. r[i].key = s[i].key /\ r[i].value = s[i].value /\ r[i].max = Total(v, table)
    BY <2>1
  <2> QED BY <1>2, <2>2
<1>4. \A k \in K : \E i \in 1..n : s[i].key = k
  BY <1>1 DEF HasKey
<1> HIDE DEF n, K
<1>5. {[key |-> r[i].key, value |-> r[i].value] : i \in 1..n} =
         {[key |-> k, value |-> Value(v, table, k)] : k \in K}
  <2> DEFINE X(i) == [key |-> r[i].key, value |-> r[i].value]
             Y(k) == [key |-> k, value |-> Value(v, table, k)]
  <2>1. ASSUME NEW i \in 1..n PROVE s[i].key \in K /\ X(i) = Y(s[i].key)
    BY <1>1, <1>3
  <2>2. ASSUME NEW k \in K PROVE \E i \in 1..n : X(i) = Y(k)
    <3>1. PICK i \in 1..n : s[i].key = k
      BY <1>4
    <3> QED BY <2>1, <3>1
  <2> HIDE DEF X, Y
  <2>3. {X(i) : i \in 1..n} = {Y(k) : k \in K}
    BY <2>1, <2>2
  <2> QED BY <2>3 DEF X, Y
<1>6. ASSUME NEW i \in 1..n, i < n PROVE r[i].value >= r[i + 1].value
  <2>1. i \in 1..n - 1 /\ i + 1 \in 1..n
    BY <1>1, <1>6
  <2> QED BY <1>1, <1>3, <2>1
<1> QED BY <1>1, <1>3, <1>5, <1>6 DEF IsShown, n, K

\* Without a record there is nothing to show.
LEMMA NothingShows ==
    ASSUME NEW v, NEW table \in Seq(Fighting), ~ HasRecords(v, table), NEW r
    PROVE  IsShown(v, table, r, 0)
<1>1. \A k : Hits(v, table, k) = {}
  BY DEF HasRecords, IsRecord, Hits
<1>2. KeysOf(v, table) = {}
  BY <1>1 DEF KeysOf
<1>3. Cardinality(KeysOf(v, table)) = 0
  BY <1>2, FS_EmptySet
<1> QED BY <1>2, <1>3 DEF IsShown

-----------------------------------------------------------------------------
(* The displays with the combat_db *)

\* Nothing that the window does changes what the combat_db does.
LEMMA StepOfDb == [DisplayNext]_allVars => [Next]_vars
<1> SUFFICES ASSUME [DisplayNext]_allVars, vars' # vars PROVE Next
  OBVIOUS
<1>1. ~ UNCHANGED dbVars
  BY DEF dbVars, vars
<1>2. ASSUME NEW v, SetDisplayMode(v) PROVE FALSE
  BY <1>1, <1>2 DEF SetDisplayMode
<1>3. CASE StartSolo \/ SelectMode
  BY <1>2, <1>3 DEF StartSolo, SelectMode
<1>4. CASE OnStop
  BY <1>1, <1>4 DEF OnStop, Next
<1>5. CASE ClickRow \/ ClickBack \/ ReadLog \/ UpdateStatDisplay
  BY <1>1, <1>5 DEF ClickRow, ClickBack, ReadLog, UpdateStatDisplay
<1>6. ASSUME NEW e \in Entries, LogLine(e) PROVE Next
  BY <1>6 DEF LogLine, Next
<1>7. CASE UNCHANGED allVars
  BY <1>1, <1>7 DEF allVars
<1> QED BY <1>3, <1>4, <1>5, <1>6, <1>7 DEF DisplayNext

\* Inside the window the combat_db does what its own specification says.
THEOREM DatabaseInside == DisplaySpec => Spec
<1>1. DisplayInit => Init
  BY DEF DisplayInit
<1> QED BY <1>1, StepOfDb, PTL DEF DisplaySpec, Spec

\* So no hit of a fight is missing in what the displays show ...
THEOREM ShownHitsAreStored == DisplaySpec => []NoHitMissed
BY DatabaseInside, HitsAreStored, PTL

\* ... and what they show is one fight.
THEOREM ShownFightsAreEncounters == DisplaySpec => []OneEncounterPerFight
BY DatabaseInside, FightsAreEncounters, PTL

LEMMA LastTableType == TypeOK => LastTable \in Seq(Fighting)
<1> SUFFICES ASSUME TypeOK PROVE LastTable \in Seq(Fighting)
  OBVIOUS
<1>1. encounters \in Seq(Encounters)
  BY DEF TypeOK
<1>2. CASE encounters = << >>
  BY <1>2 DEF LastTable
<1>3. CASE encounters # << >>
  <2>1. encounters[Len(encounters)] \in Encounters
    BY <1>1, <1>3
  <2> QED BY <1>3, <2>1 DEF LastTable, Encounters
<1> QED BY <1>2, <1>3

-----------------------------------------------------------------------------
Kinds == {"damage", "heal"}

\* The eight classes are all that sides, kinds, and abilities or none give.
LEMMA ViewsAre ==
    ASSUME NEW v
    PROVE  v \in Views <=> \E side \in Sides, kind \in Kinds, who \in Whos,
                              a \in Abilities \cup {NoAbility} : v = View(side, kind, who, a)
<1> DEFINE Entity(who) == {DmgDone(who), HealingDone(who), DmgRecived(who), HealingRecived(who)}
           Skill(who, a) == {SkillDmgDone(who, a), SkillHealingDone(who, a),
                             SkillDmgRecived(who, a), SkillHealingRecived(who, a)}
<1>0. v \in Views <=> \/ \E who \in Whos : v \in Entity(who)
                      \/ \E who \in Whos, a \in Abilities : v \in Skill(who, a)
  <2>1. Views = (UNION {Entity(who) : who \in Whos})
                \cup (UNION {Skill(who, a) : who \in Whos, a \in Abilities})
    BY DEF Views
  <2> HIDE DEF Entity, Skill
  <2> QED BY <2>1
<1>1. ASSUME v \in Views
      PROVE  \E side \in Sides, kind \in Kinds, who \in Whos,
                a \in Abilities \cup {NoAbility} : v = View(side, kind, who, a)
  <2>1. ASSUME NEW who \in Whos,
               v \in {DmgDone(who), HealingDone(who), DmgRecived(who), HealingRecived(who)}
        PROVE  \E side \in Sides, kind \in Kinds : v = View(side, kind, who, NoAbility)
    BY <2>1 DEF DmgDone, HealingDone, DmgRecived, HealingRecived, Sides, Kinds
  <2>2. ASSUME NEW who \in Whos, NEW a \in Abilities,
               v \in {SkillDmgDone(who, a), SkillHealingDone(who, a), SkillDmgRecived(who, a),
                      SkillHealingRecived(who, a)}
        PROVE  \E side \in Sides, kind \in Kinds : v = View(side, kind, who, a)
    BY <2>2 DEF SkillDmgDone, SkillHealingDone, SkillDmgRecived, SkillHealingRecived, Sides, Kinds
  <2>3. CASE \E who \in Whos : v \in Entity(who)
    BY <2>1, <2>3
  <2>4. CASE \E who \in Whos, a \in Abilities : v \in Skill(who, a)
    BY <2>2, <2>4
  <2> QED BY <1>1, <1>0, <2>3, <2>4
<1>2. ASSUME NEW side \in Sides, NEW kind \in Kinds, NEW who \in Whos,
             NEW a \in Abilities \cup {NoAbility}, v = View(side, kind, who, a)
      PROVE  v \in Views
  <2>1. CASE a = NoAbility
    <3>1. v \in Entity(who)
      BY <1>2, <2>1 DEF DmgDone, HealingDone, DmgRecived, HealingRecived, Sides, Kinds
    <3> HIDE DEF Entity
    <3> QED BY <1>0, <3>1
  <2>2. CASE a \in Abilities
    <3>1. v \in Skill(who, a)
      BY <1>2 DEF SkillDmgDone, SkillHealingDone, SkillDmgRecived, SkillHealingRecived, Sides, Kinds
    <3> HIDE DEF Skill
    <3> QED BY <1>0, <2>2, <3>1
  <2> QED BY <2>1, <2>2
<1> QED BY <1>1, <1>2

LEMMA ViewFacts ==
    ASSUME NEW v \in Views
    PROVE  /\ v.side \in Sides /\ v.kind \in Kinds /\ v.who \in Whos
           /\ v.ability \in Abilities \cup {NoAbility} /\ v # NoView
<1>1. PICK side \in Sides, kind \in Kinds, who \in Whos, a \in Abilities \cup {NoAbility} :
         v = View(side, kind, who, a)
  BY ViewsAre
<1>2. v.side = side /\ v.kind = kind /\ v.who = who /\ v.ability = a
  BY <1>1 DEF View
<1>3. v # NoView
  BY <1>2 DEF NoView, View, Sides
<1> QED BY <1>2, <1>3

\* A row: a group of the display that has set it.
Row == [key : Entities \cup Abilities, value : Int, max : Int, owner : Views]
Rows == {r \in Row : r.key \in KeySet(r.owner)}

\* All variables have their types: DisplayTypeOK, and what the rows are.
Types ==
    /\ display \in Views \cup {NoView} /\ info \in Views \cup {NoView}
    /\ past \in Seq(Views) /\ Len(past) <= MaxHistory
    /\ rows \in Seq(Rows) /\ shown \in 0 .. Len(rows)
    /\ stop \in BOOLEAN /\ update_ui \in BOOLEAN
    /\ phase \in {"messages", "log"}

\* The displays to go back to, and the present one behind them, are a path of
\* clicks from a display of the player.
Chain ==
    /\ past # << >> => IsRoot(past[1])
    /\ past = << >> /\ display # NoView => IsRoot(display)
    /\ \A i \in 1 .. Len(past) - 1 : IsDrillDown(past[i], past[i + 1])
    /\ past # << >> /\ display # NoView => IsDrillDown(past[Len(past)], display)

\* The inductive invariant.
IInv == Types /\ RowsAreCurrent /\ Chain

-----------------------------------------------------------------------------
\* The rows that are filled in are those of the sorted groups.
LEMMA FilledFacts ==
    ASSUME NEW v \in Views, LastTable \in Seq(Fighting),
           NEW s \in Sortings(Grouped(v, LastTable)), rows \in Seq(Rows)
    PROVE  /\ Filled(v, s) \in Seq(Rows) /\ Len(s) \in 0 .. Len(Filled(v, s))
           /\ \A i \in 1..Len(s) :
                 Filled(v, s)[i] = [key |-> s[i].key, value |-> s[i].value,
                                    max |-> Total(v, LastTable), owner |-> v]
<1> DEFINE m == Len(s)
           n == Len(rows)
           F == Filled(v, s)
           T == Total(v, LastTable)
           R(i) == [key |-> s[i].key, value |-> s[i].value, max |-> T, owner |-> v]
<1>1. m \in Nat /\ \A i \in 1..m : s[i] \in Groups(v)
  BY SortedFacts, LenProperties, ElementOfSeq
<1>2. n \in Nat /\ DOMAIN rows = 1..n /\ \A i \in 1..n : rows[i] \in Rows
  BY LenProperties, ElementOfSeq
<1>3. T \in Int
  BY TotalIsMax
<1>4. F = [i \in 1..n \cup 1..m |-> IF i \in 1..m THEN R(i) ELSE rows[i]]
  BY <1>2 DEF Filled
<1> HIDE DEF m, n, F, T
<1>5. ASSUME NEW i \in 1..m PROVE R(i) \in Rows
  <2>1. s[i].key \in KeySet(v) /\ s[i].value \in Int
    BY <1>1 DEF Groups
  <2>2. s[i].key \in Entities \cup Abilities
    BY <2>1 DEF KeySet
  <2>3. R(i) \in Row
    BY <1>3, <2>1, <2>2 DEF Row
  <2> QED BY <2>1, <2>3 DEF Rows
<1> HIDE DEF R
<1>6. PICK l \in Nat : l >= m /\ 1..l = 1..n \cup 1..m
  <2>1. CASE n >= m
    BY <1>1, <1>2, <2>1
  <2>2. CASE ~ (n >= m)
    BY <1>1, <1>2, <2>2
  <2> QED BY <2>1, <2>2
<1>7. F = [i \in 1..l |-> IF i \in 1..m THEN R(i) ELSE rows[i]]
  BY <1>4, <1>6
<1>8. \A i \in 1..l : F[i] \in Rows
  BY <1>2, <1>5, <1>6, <1>7
<1>9. F \in [1..l -> Rows]
  BY <1>7, <1>8
<1>10. F \in Seq(Rows) /\ Len(F) = l
  BY <1>9
<1>11. \A i \in 1..m : F[i] = R(i)
  BY <1>6, <1>7
<1> QED BY <1>1, <1>6, <1>10, <1>11 DEF m, F, R, T

\* After an update every row that is enabled is one of the display it is for, and the
\* rows show the last encounter.
LEMMA UpdateFacts ==
    ASSUME Types, TypeOK, NEW v \in Views, display' = v, Update(v)
    PROVE  /\ RowsAreCurrent'
           /\ rows' \in Seq(Rows) /\ shown' \in 0 .. Len(rows')
           /\ info' \in Views \cup {NoView} /\ stop' \in BOOLEAN
           /\ IsShown(v, LastTable, rows', shown')
<1>1. v # NoView /\ LastTable \in Seq(Fighting) /\ stop' \in BOOLEAN
  BY ViewFacts, LastTableType DEF Update
<1>2. rows \in Seq(Rows) /\ shown \in 0 .. Len(rows) /\ info \in Views \cup {NoView}
  BY DEF Types
<1>3. CASE ~ HasRecords(v, LastTable)
  <2>1. shown' = 0 /\ rows' = rows /\ info' = info
    BY <1>3 DEF Update
  <2>2. IsShown(v, LastTable, rows', 0)
    BY <1>1, <1>3, NothingShows
  <2>3. RowsAreCurrent'
    BY <2>1 DEF RowsAreCurrent
  <2>4. 0 \in 0 .. Len(rows)
    BY <1>2, LenProperties
  <2> QED BY <1>1, <1>2, <2>1, <2>2, <2>3, <2>4
<1>4. CASE HasRecords(v, LastTable)
  <2>1. PICK s \in Sortings(Grouped(v, LastTable)) : rows' = Filled(v, s)
    BY <1>4 DEF Update
  <2>2. shown' = Len(Grouped(v, LastTable)) /\ info' = v
    BY <1>4 DEF Update
  <2>3. Len(s) = shown'
    BY <1>1, <2>2, SortedFacts, KeysAreCounted
  <2>4. /\ rows' \in Seq(Rows) /\ shown' \in 0 .. Len(rows')
        /\ \A i \in 1..Len(s) : rows'[i] = [key |-> s[i].key, value |-> s[i].value,
                                            max |-> Total(v, LastTable), owner |-> v]
    BY <1>1, <1>2, <2>1, <2>3, FilledFacts
  <2>5. IsShown(v, LastTable, rows', shown')
    BY <1>1, <2>3, <2>4, FilledShows
  <2>6. ASSUME NEW i \in 1 .. shown' PROVE rows'[i].owner = v
    <3>1. rows'[i] = [key |-> s[i].key, value |-> s[i].value, max |-> Total(v, LastTable), owner |-> v]
      BY <2>3, <2>4
    <3> QED BY <3>1
  <2>7. RowsAreCurrent'
    BY <1>1, <2>2, <2>6 DEF RowsAreCurrent
  <2> QED BY <1>1, <2>2, <2>4, <2>5, <2>7
<1> QED BY <1>3, <1>4

LEMMA InitIInv == DisplayInit => IInv
<1> SUFFICES ASSUME DisplayInit PROVE IInv
  OBVIOUS
<1>1. /\ past = << >> /\ rows = << >> /\ display = NoView /\ info = NoView /\ shown = 0
      /\ stop = FALSE /\ update_ui = FALSE /\ phase = "messages"
  BY DEF DisplayInit
<1>2. << >> \in Seq(Views) /\ << >> \in Seq(Rows) /\ Len(<< >>) = 0
  OBVIOUS
<1>3. Types
  <2>1. past \in Seq(Views) /\ rows \in Seq(Rows)
    BY <1>1, <1>2
  <2>2. Len(past) = 0 /\ Len(rows) = 0
    BY <1>1, <1>2
  <2>3. Len(past) <= MaxHistory /\ shown \in 0 .. Len(rows)
    BY <1>1, <2>2, MaxHistoryAssumption
  <2> QED BY <1>1, <2>1, <2>3 DEF Types
<1>4. RowsAreCurrent /\ Chain
  BY <1>1, <1>2 DEF Chain, RowsAreCurrent
<1> QED BY <1>3, <1>4 DEF IInv

\* Start and mode changes forget the history and show a display of the player.
LEMMA StepSetDisplayMode ==
    ASSUME IInv, TypeOK, NEW v \in PlayerModes, SetDisplayMode(v)
    PROVE  IInv'
<1>1. v \in Views /\ IsRoot(v)
  <2>1. \E side \in Sides, kind \in Kinds : v = View(side, kind, Player, NoAbility)
    BY DEF PlayerModes, DmgDone, HealingDone, DmgRecived, HealingRecived, Sides, Kinds
  <2>2. Player \in Whos
    BY DEF Whos
  <2>3. v \in Views
    BY <2>1, <2>2, ViewsAre
  <2> QED BY <2>1, <2>3 DEF IsRoot, IsSkillView, View
<1>2. /\ past' = << >> /\ display' = v /\ Update(v)
      /\ UNCHANGED <<update_ui, phase>>
  BY DEF SetDisplayMode, ChangeDisplayMode
<1>3. << >> \in Seq(Views) /\ Len(<< >>) = 0
  OBVIOUS
<1>4. /\ RowsAreCurrent'
      /\ rows' \in Seq(Rows) /\ shown' \in 0 .. Len(rows')
      /\ info' \in Views \cup {NoView} /\ stop' \in BOOLEAN
  BY <1>1, <1>2, UpdateFacts DEF IInv
<1>5. Types'
  BY <1>1, <1>2, <1>3, <1>4, MaxHistoryAssumption DEF IInv, Types
<1>6. Chain'
  BY <1>1, <1>2, <1>3 DEF Chain
<1> QED BY <1>4, <1>5, <1>6 DEF IInv

\* A click on a row leads from an entity to one of its abilities, and from an ability to
\* an entity on the other side.
LEMMA OpensFacts ==
    ASSUME NEW r \in Rows
    PROVE  Opens(r) \in Views /\ IsDrillDown(r.owner, Opens(r))
<1> DEFINE v == r.owner
           w == Opens(r)
<1>1. v \in Views /\ r.key \in KeySet(v)
  BY DEF Rows, Row
<1>2. /\ v.side \in Sides /\ v.kind \in Kinds /\ v.who \in Whos
  BY <1>1, ViewFacts
<1>3. OtherSide(v.side) \in Sides
  BY <1>2 DEF OtherSide, Sides
<1>4. CASE IsSkillView(v)
  <2>1. r.key.name \in Whos
    BY <1>1, <1>4 DEF KeySet, Entities, Whos
  <2>2. w = View(OtherSide(v.side), v.kind, r.key.name, NoAbility)
    BY <1>4 DEF Opens
  <2>3. w \in Views
    BY <1>2, <1>3, <2>1, <2>2, ViewsAre
  <2> QED BY <1>4, <2>2, <2>3 DEF IsDrillDown, IsStep, IsSkillView, View
<1>5. CASE ~ IsSkillView(v)
  <2>1. r.key \in Abilities /\ r.key # NoAbility
    BY <1>1, <1>5 DEF KeySet, Abilities
  <2>2. w = View(v.side, v.kind, v.who, r.key)
    BY <1>5 DEF Opens
  <2>3. w \in Views
    BY <1>2, <2>1, <2>2, ViewsAre
  <2> QED BY <1>5, <2>1, <2>2, <2>3 DEF IsDrillDown, IsStep, IsSkillView, View
<1> QED BY <1>4, <1>5

\* A click opens a display one step further, and the present one goes to the end of
\* the history.
LEMMA StepClickRow ==
    ASSUME IInv, TypeOK, ClickRow
    PROVE  IInv'
<1>1. PICK i \in 1 .. shown : ChangeDisplayMode(Opens(rows[i]))
  BY DEF ClickRow
<1> DEFINE v == Opens(rows[i])
<1>2. rows[i].owner = display /\ display # NoView /\ display \in Views
  BY <1>1 DEF IInv, RowsAreCurrent, Types
<1>3. rows[i] \in Rows
  <2>1. i \in 1 .. Len(rows)
    BY <1>1, LenProperties DEF IInv, Types
  <2> QED BY <2>1, ElementOfSeq DEF IInv, Types
<1>4. v \in Views /\ IsDrillDown(display, v)
  BY <1>2, <1>3, OpensFacts
<1>5. display' = v /\ Update(v)
  BY <1>1 DEF ChangeDisplayMode
<1> HIDE DEF v
<1>6. /\ RowsAreCurrent'
      /\ rows' \in Seq(Rows) /\ shown' \in 0 .. Len(rows')
      /\ info' \in Views \cup {NoView} /\ stop' \in BOOLEAN
  BY <1>4, <1>5, UpdateFacts DEF IInv
<1>7. past' = Append(past, display) /\ Len(past) < MaxHistory /\ UNCHANGED <<update_ui, phase>>
  BY <1>2 DEF ClickRow
<1>8. past \in Seq(Views)
  BY DEF IInv, Types
<1>9. /\ past' \in Seq(Views)
      /\ Len(past') = Len(past) + 1 /\ past'[Len(past) + 1] = display
      /\ \A k \in 1 .. Len(past) : past'[k] = past[k]
      /\ Len(past) \in Nat
  BY <1>2, <1>7, <1>8, AppendProperties, LenProperties
<1>10. Types'
  <2>1. Len(past') <= MaxHistory
    BY <1>7, <1>9, MaxHistoryAssumption
  <2> QED BY <1>4, <1>5, <1>6, <1>7, <1>9, <2>1 DEF IInv, Types
<1>11. Chain'
  <2>1. past' # << >>
    BY <1>9
  <2>2. IsRoot(past'[1])
    <3>1. CASE past = << >>
      <4>1. Len(past) = 0
        BY <3>1
      <4> QED BY <1>2, <1>9, <3>1, <4>1 DEF IInv, Chain
    <3>2. CASE past # << >>
      <4>1. 1 \in 1 .. Len(past)
        BY <1>8, <1>9, <3>2, EmptySeq
      <4> QED BY <1>9, <3>2, <4>1 DEF IInv, Chain
    <3> QED BY <3>1, <3>2
  <2>3. \A k \in 1 .. Len(past') - 1 : IsDrillDown(past'[k], past'[k + 1])
    <3> SUFFICES ASSUME NEW k \in 1 .. Len(past) PROVE IsDrillDown(past'[k], past'[k + 1])
      BY <1>9
    <3>1. CASE k = Len(past)
      <4>1. past # << >>
        BY <3>1, <1>9
      <4> QED BY <1>2, <1>9, <3>1, <4>1 DEF IInv, Chain
    <3>2. CASE k # Len(past)
      <4>1. k \in 1 .. Len(past) - 1 /\ k + 1 \in 1 .. Len(past)
        BY <1>9, <3>2
      <4> QED BY <1>9, <4>1 DEF IInv, Chain
    <3> QED BY <3>1, <3>2
  <2>4. IsDrillDown(past'[Len(past')], display')
    BY <1>4, <1>5, <1>9
  <2> QED BY <2>1, <2>2, <2>3, <2>4 DEF Chain
<1> QED BY <1>6, <1>10, <1>11 DEF IInv

\* Back takes the last display from the history.
LEMMA StepClickBack ==
    ASSUME IInv, TypeOK, ClickBack
    PROVE  IInv'
<1>1. past \in Seq(Views) /\ past # << >>
  BY DEF IInv, Types, ClickBack
<1>2. Len(past) \in Nat \ {0} /\ DOMAIN past = 1 .. Len(past)
  BY <1>1, EmptySeq, LenProperties
<1> DEFINE v == past[Len(past)]
<1>3. /\ display' = v /\ Update(v) /\ past' = SubSeq(past, 1, Len(past) - 1)
      /\ UNCHANGED <<update_ui, phase>>
  BY DEF ClickBack, ChangeDisplayMode, Last, Front
<1>4. Len(past) - 1 \in 0 .. Len(past)
  BY <1>2
<1>5. /\ past' \in Seq(Views) /\ Len(past') = Len(past) - 1
      /\ \A k \in 1 .. Len(past) - 1 : past'[k] = past[k]
  BY <1>1, <1>2, <1>3, <1>4
<1>6. v \in Views
  BY <1>1, <1>2
<1>7. /\ RowsAreCurrent'
      /\ rows' \in Seq(Rows) /\ shown' \in 0 .. Len(rows')
      /\ info' \in Views \cup {NoView} /\ stop' \in BOOLEAN
  <2> HIDE DEF v
  <2> QED BY <1>3, <1>6, UpdateFacts DEF IInv
<1>8. Types'
  <2>1. Len(past') <= MaxHistory
    BY <1>2, <1>5, MaxHistoryAssumption DEF IInv, Types
  <2> QED BY <1>3, <1>5, <1>6, <1>7, <2>1 DEF IInv, Types
<1>9. Chain'
  <2>1. past' # << >> => IsRoot(past'[1]) /\ IsDrillDown(past'[Len(past')], display')
    <3> SUFFICES ASSUME past' # << >>
                 PROVE  IsRoot(past'[1]) /\ IsDrillDown(past'[Len(past')], display')
      OBVIOUS
    <3>1. Len(past) - 1 \in 1 .. Len(past) - 1 /\ 1 \in 1 .. Len(past) - 1
      BY <1>2, <1>5, EmptySeq
    <3>2. IsDrillDown(past[Len(past) - 1], past[Len(past) - 1 + 1])
      BY <3>1 DEF IInv, Chain
    <3>3. Len(past) - 1 + 1 = Len(past)
      BY <1>2
    <3> QED BY <1>1, <1>2, <1>3, <1>5, <3>1, <3>2, <3>3 DEF IInv, Chain
  <2>2. past' = << >> => IsRoot(display')
    <3> SUFFICES ASSUME past' = << >> PROVE IsRoot(display')
      OBVIOUS
    <3>1. Len(past') = 0
      OBVIOUS
    <3>2. Len(past) = 1
      <4>1. Len(past) - 1 = 0
        BY <1>5, <3>1, Zenon
      <4> DEFINE n == Len(past)
      <4>2. n - 1 = 0 /\ n \in Nat
        BY <1>2, <4>1
      <4> HIDE DEF n
      <4>3. n = 1
        BY <4>2
      <4> QED BY <4>3 DEF n
    <3>3. display' = past[1]
      BY <1>3, <3>2
    <3>4. IsRoot(past[1])
      BY <1>1 DEF IInv, Chain
    <3> QED BY <3>3, <3>4 DEF IsRoot
  <2>3. \A k \in 1 .. Len(past') - 1 : IsDrillDown(past'[k], past'[k + 1])
    <3> SUFFICES ASSUME NEW k \in 1 .. Len(past) - 2
                 PROVE  IsDrillDown(past'[k], past'[k + 1])
      BY <1>2, <1>5
    <3>1. k \in 1 .. Len(past) - 1 /\ k + 1 \in 1 .. Len(past) - 1
      BY <1>2
    <3> QED BY <1>5, <3>1 DEF IInv, Chain
  <2> QED BY <2>1, <2>2, <2>3 DEF Chain
<1> QED BY <1>7, <1>8, <1>9 DEF IInv

LEMMA NextIInv == IInv /\ TypeOK /\ [DisplayNext]_allVars => IInv'
<1> SUFFICES ASSUME IInv, TypeOK, [DisplayNext]_allVars PROVE IInv'
  OBVIOUS
<1>1. CASE StartSolo \/ SelectMode
  BY <1>1, StepSetDisplayMode DEF StartSolo, SelectMode
<1>2. CASE OnStop
  <2>1. /\ past' = past /\ display' = NoView /\ shown' = 0 /\ rows' = << >> /\ info' = NoView
        /\ stop' = FALSE /\ UNCHANGED <<update_ui, phase>>
    BY <1>2 DEF OnStop
  <2>2. << >> \in Seq(Rows) /\ Len(<< >>) = 0
    OBVIOUS
  <2>3. rows' \in Seq(Rows) /\ Len(rows') = 0
    BY <2>1, <2>2
  <2>4. shown' \in 0 .. Len(rows')
    BY <2>1, <2>3
  <2>5. Types'
    BY <2>1, <2>3, <2>4 DEF IInv, Types
  <2> QED BY <2>1, <2>5 DEF IInv, RowsAreCurrent, Chain
<1>3. CASE ClickRow
  BY <1>3, StepClickRow
<1>4. CASE ClickBack
  BY <1>4, StepClickBack
<1>5. ASSUME UNCHANGED uiVars, update_ui' \in BOOLEAN, phase' \in {"messages", "log"} PROVE IInv'
  BY <1>5 DEF IInv, Types, RowsAreCurrent, Chain, uiVars
<1>6. CASE UpdateStatDisplay
  <2>1. past' = past /\ display' = display /\ update_ui' = FALSE /\ phase' = "messages"
    BY <1>6 DEF UpdateStatDisplay
  <2>2. CASE update_ui /\ display # NoView
    <3>1. Update(display) /\ display \in Views
      BY <1>6, <2>2 DEF UpdateStatDisplay, IInv, Types
    <3>2. /\ RowsAreCurrent'
          /\ rows' \in Seq(Rows) /\ shown' \in 0 .. Len(rows')
          /\ info' \in Views \cup {NoView} /\ stop' \in BOOLEAN
      BY <2>1, <3>1, UpdateFacts DEF IInv
    <3>3. Types'
      BY <2>1, <3>2 DEF IInv, Types
    <3> QED BY <2>1, <3>2, <3>3 DEF IInv, Chain
  <2>3. CASE ~ (update_ui /\ display # NoView)
    <3>1. UNCHANGED uiVars
      BY <1>6, <2>1, <2>3 DEF UpdateStatDisplay, uiVars
    <3> QED BY <1>5, <2>1, <3>1
  <2> QED BY <2>2, <2>3
<1>7. CASE ReadLog
  BY <1>5, <1>7 DEF ReadLog, IInv, Types
<1>8. ASSUME NEW e \in Entries, LogLine(e) PROVE IInv'
  <2>1. UNCHANGED uiVars /\ phase' = phase /\ update_ui' = (update_ui \/ Stored(e))
    BY <1>8 DEF LogLine
  <2>2. update_ui' \in BOOLEAN
    BY <2>1, Zenon
  <2> QED BY <1>5, <2>1, <2>2 DEF IInv, Types
<1>9. CASE UNCHANGED allVars
  BY <1>5, <1>9 DEF allVars, uiVars, IInv, Types
<1> QED BY <1>1, <1>2, <1>3, <1>4, <1>6, <1>7, <1>8, <1>9 DEF DisplayNext

\* The invariant of the displays holds on top of that of the combat_db.
THEOREM DisplayInvariance == DisplaySpec => [](DbInv /\ IInv)
<1>1. DisplaySpec => []DbInv
  BY DatabaseInside, DbInvariance, PTL
<1>2. DbInv => TypeOK
  BY DEF DbInv
<1> QED BY <1>1, <1>2, InitIInv, NextIInv, PTL DEF DisplaySpec

\* All variables keep their types: every display is of one of the eight classes, and no
\* more rows are enabled than there are.
THEOREM DisplayTypeCorrect == DisplaySpec => []DisplayTypeOK
<1>1. ASSUME IInv PROVE DisplayTypeOK
  <2>1. Types
    BY <1>1 DEF IInv
  <2>2. \A i \in DOMAIN rows : rows[i].owner \in Views
    <3>1. \A i \in DOMAIN rows : rows[i] \in Rows
      BY <2>1, LenProperties, ElementOfSeq DEF Types
    <3> QED BY <3>1 DEF Rows, Row
  <2>3. {stop, update_ui} \subseteq BOOLEAN
    BY <2>1 DEF Types
  <2> QED BY <2>1, <2>2, <2>3 DEF Types, DisplayTypeOK
<1> QED BY <1>1, DisplayInvariance, PTL

\* A row that can be clicked never calls back into a display that was deleted, and
\* the text next to it is about the same display.
THEOREM CallbacksAreCurrent == DisplaySpec => []RowsAreCurrent
<1>1. IInv => RowsAreCurrent
  BY DEF IInv
<1> QED BY DisplayInvariance, <1>1, PTL

LEMMA ChainIsPath == IInv => DrillPath
<1> SUFFICES ASSUME IInv PROVE DrillPath
  OBVIOUS
<1>1. CASE display = NoView
  BY <1>1 DEF IInv, Chain, DrillPath, Path
<1>2. CASE display # NoView
  <2>1. past \in Seq(Views) /\ display \in Views
    BY <1>2 DEF IInv, Types
  <2>2. /\ Path = Append(past, display)
        /\ Len(Path) = Len(past) + 1 /\ Path[Len(past) + 1] = display
        /\ \A k \in 1 .. Len(past) : Path[k] = past[k]
        /\ Len(past) \in Nat
    BY <1>2, <2>1, AppendProperties, LenProperties DEF Path
  <2>3. IsRoot(Path[1])
    <3>1. CASE past = << >>
      <4>1. Len(past) = 0
        BY <3>1
      <4> QED BY <1>2, <2>2, <3>1, <4>1 DEF IInv, Chain
    <3>2. CASE past # << >>
      <4>1. 1 \in 1 .. Len(past)
        BY <2>1, <2>2, <3>2, EmptySeq
      <4> QED BY <2>2, <3>2, <4>1 DEF IInv, Chain
    <3> QED BY <3>1, <3>2
  <2>4. \A k \in 1 .. Len(Path) - 1 : IsDrillDown(Path[k], Path[k + 1])
    <3> SUFFICES ASSUME NEW k \in 1 .. Len(past) PROVE IsDrillDown(Path[k], Path[k + 1])
      BY <2>2
    <3>1. CASE k = Len(past)
      <4>1. past # << >>
        BY <3>1, <2>2
      <4> QED BY <1>2, <2>2, <3>1, <4>1 DEF IInv, Chain
    <3>2. CASE k # Len(past)
      <4>1. k \in 1 .. Len(past) - 1 /\ k + 1 \in 1 .. Len(past)
        BY <3>2, <2>2
      <4> QED BY <2>2, <4>1 DEF IInv, Chain
    <3> QED BY <3>1, <3>2
  <2> QED BY <2>3, <2>4 DEF DrillPath
<1> QED BY <1>1, <1>2

\* However the user clicks, starts and stops, "Back" leads along the clicks that
\* led to the present display, the first of which was made in one of the player's.
THEOREM BackFollowsPath == DisplaySpec => []DrillPath
BY DisplayInvariance, ChainIsPath, PTL

-----------------------------------------------------------------------------
(* The rows are the sums *)

\* The rows show the last encounter, or the one before as long as nothing is stored in
\* the last.
UpToDate ==
    \/ IsShown(display, LastTable, rows, shown)
    \/ /\ LastTable = << >> /\ Len(encounters) > 1
       /\ IsShown(display, encounters[Len(encounters) - 1].table, rows, shown)

\* The inductive invariant: when messages are handled there is no update due, and while
\* none is due the rows are up to date.
SumsInv ==
    /\ phase = "messages" => ~ update_ui
    /\ display # NoView /\ ~ update_ui => UpToDate

\* An entry that is not stored leaves the tables as they are, or opens an encounter
\* behind one that is over.
LEMMA QuietEntry ==
    ASSUME DbInv, NEW e \in Entries, OnCombatEvent(e), ~ Stored(e)
    PROVE  \/ /\ LastTable' = LastTable
              /\ Len(encounters) > 1 =>
                    /\ Len(encounters') = Len(encounters)
                    /\ encounters'[Len(encounters) - 1] = encounters[Len(encounters) - 1]
           \/ /\ LastTable # << >> /\ LastTable' = << >> /\ Len(encounters') > 1
              /\ encounters'[Len(encounters') - 1].table = LastTable
<1> DEFINE n == Len(Opened(e))
           s == Opened(e)
           new == Insert(s[n], e)
           N == Len(encounters)
<1>1. /\ encounters \in Seq(Encounters) /\ OnlyLastOpen
      /\ \A k \in DOMAIN encounters : WellBegun(encounters[k])
      /\ N \in Nat
  BY LenProperties DEF DbInv, TypeOK
<1>2. CASE Filter(e)
  <2>1. encounters' = encounters
    BY <1>2 DEF OnCombatEvent
  <2> QED BY <2>1 DEF LastTable
<1>3. CASE ~ Filter(e)
  <2>1. encounters' = [s EXCEPT ![n] = Insert(@, e)]
    BY <1>3 DEF OnCombatEvent
  <2>2. /\ encounters' \in Seq(Encounters) /\ encounters' # << >> /\ Len(encounters') = n
        /\ LastEncounter' = new /\ s[n] \in Encounters /\ WellBegun(s[n])
        /\ \A k \in DOMAIN encounters' : WellBegun(encounters'[k])
    BY <1>1, <1>3, <2>1, StoredFacts
  <2>3. s \in Seq(Encounters) /\ s # << >> /\ n \in Nat \ {0}
    BY <1>1, OpenedFacts
  <2>4. ~ (new.begins > 0)
    BY <1>3 DEF Stored
  <2>5. LastTable' = new.table
    BY <2>2 DEF LastTable, LastEncounter
  <2>6. new.table = << >> /\ new.begins = 0 /\ s[n].begins = 0 /\ s[n].table = << >>
    <3>1. WellBegun(new) /\ new \in Encounters
      BY <1>3, <2>2, InsertFacts
    <3>2. new.begins = s[n].begins + IF IsCombatBegin(e) THEN 1 ELSE 0
      BY <1>3, <2>2, InsertFacts
    <3>3. new.begins \in Nat /\ s[n].begins \in Nat
      BY <2>2, <3>1 DEF Encounters
    <3> HIDE DEF new, s, n
    <3>4. new.begins = 0 /\ s[n].begins = 0
      BY <2>4, <3>2, <3>3
    <3> QED BY <2>2, <3>1, <3>4 DEF WellBegun
  <2>7. \A k \in 1..n : k # n => encounters'[k] = s[k]
    BY <2>1, <2>3
  <2>8. CASE encounters # << >> /\ ~ CombatHasFinished(LastEncounter) /\ s = encounters
    <3>1. LastTable = << >> /\ N = n
      BY <2>6, <2>8 DEF LastTable
    <3>2. N > 1 => encounters'[N - 1] = encounters[N - 1]
      <4>1. N > 1 => N - 1 \in 1..n /\ N - 1 # n
        BY <1>1, <3>1
      <4> QED BY <2>7, <2>8, <4>1
    <3> QED BY <2>2, <2>5, <2>6, <3>1, <3>2
  <2>9. CASE /\ encounters = << >> \/ CombatHasFinished(LastEncounter)
             /\ n = N + 1
             /\ \A k \in 1..N : s[k] = encounters[k]
    <3>1. CASE encounters = << >>
      <4>1. LastTable = << >> /\ N = 0
        BY <3>1 DEF LastTable
      <4> QED BY <2>5, <2>6, <4>1
    <3>2. CASE encounters # << >> /\ CombatHasFinished(LastEncounter)
      <4>1. N \in 1..N /\ N \in DOMAIN encounters /\ N > 0
        BY <1>1, <3>2, EmptySeq, LenProperties
      <4>2. LastTable = LastEncounter.table /\ LastEncounter = encounters[N]
        BY <3>2 DEF LastTable, LastEncounter
      <4>3. WellBegun(LastEncounter) /\ LastEncounter.begins > 0
        BY <1>1, <3>2, <4>1, <4>2 DEF CombatHasFinished
      <4>4. LastTable # << >>
        BY <4>2, <4>3 DEF WellBegun
      <4>5. Len(encounters') = N + 1 /\ (N + 1) - 1 = N
        BY <1>1, <2>2, <2>9
      <4>6. encounters'[N] = encounters[N]
        <5>1. N \in 1..n /\ N # n
          BY <1>1, <2>9, <4>1
        <5> QED BY <2>7, <2>9, <4>1, <5>1
      <4>7. Len(encounters') > 1 /\ encounters'[Len(encounters') - 1] = encounters[N]
        <5> HIDE DEF N
        <5> QED BY <1>1, <4>1, <4>5, <4>6
      <4> QED BY <2>5, <2>6, <4>2, <4>4, <4>7
    <3> QED BY <2>9, <3>1, <3>2
  <2> QED BY <1>1, <2>8, <2>9, OpenedFacts
<1> QED BY <1>2, <1>3

LEMMA StepLogLine ==
    ASSUME DbInv, SumsInv, NEW e \in Entries, LogLine(e)
    PROVE  SumsInv'
<1>1. /\ phase = "log" /\ phase' = phase /\ OnCombatEvent(e)
      /\ UNCHANGED <<display, rows, shown>>
      /\ update_ui' = (update_ui \/ Stored(e))
  BY DEF LogLine, uiVars
<1> SUFFICES ASSUME display # NoView, ~ update_ui' PROVE UpToDate'
  BY <1>1 DEF SumsInv
<1>2. ~ update_ui /\ ~ Stored(e)
  BY <1>1, Zenon
<1>3. UpToDate
  BY <1>2 DEF SumsInv
<1>4. CASE /\ LastTable' = LastTable
           /\ Len(encounters) > 1 =>
                 /\ Len(encounters') = Len(encounters)
                 /\ encounters'[Len(encounters) - 1] = encounters[Len(encounters) - 1]
  BY <1>1, <1>3, <1>4 DEF UpToDate
<1>5. CASE /\ LastTable # << >> /\ LastTable' = << >> /\ Len(encounters') > 1
           /\ encounters'[Len(encounters') - 1].table = LastTable
  BY <1>1, <1>3, <1>5 DEF UpToDate
<1> QED BY <1>1, <1>2, <1>4, <1>5, QuietEntry

\* A display that was just updated is up to date.
LEMMA UpdatedIsUpToDate ==
    ASSUME Types, TypeOK, NEW v \in Views, display' = v, Update(v), UNCHANGED dbVars
    PROVE  UpToDate'
<1>1. IsShown(v, LastTable, rows', shown')
  BY UpdateFacts
<1>2. LastTable' = LastTable
  BY DEF dbVars, LastTable
<1> QED BY <1>1, <1>2 DEF UpToDate

LEMMA NextSumsInv == DbInv /\ IInv /\ IInv' /\ SumsInv /\ [DisplayNext]_allVars => SumsInv'
<1> SUFFICES ASSUME DbInv, IInv, IInv', SumsInv, [DisplayNext]_allVars PROVE SumsInv'
  OBVIOUS
<1>1. Types /\ TypeOK /\ display' \in Views \cup {NoView}
  BY DEF DbInv, IInv, Types
<1>2. ASSUME NEW v, ChangeDisplayMode(v), UNCHANGED <<dbVars, update_ui, phase>>
      PROVE  SumsInv'
  <2>1. display' = v /\ Update(v)
    BY <1>2 DEF ChangeDisplayMode
  <2>2. v \in Views => UpToDate'
    BY <1>1, <1>2, <2>1, UpdatedIsUpToDate
  <2> QED BY <1>1, <1>2, <2>1, <2>2 DEF SumsInv
<1>3. CASE StartSolo \/ SelectMode
  BY <1>2, <1>3 DEF StartSolo, SelectMode, SetDisplayMode
<1>4. CASE ClickRow
  BY <1>2, <1>4 DEF ClickRow
<1>5. CASE ClickBack
  BY <1>2, <1>5 DEF ClickBack
<1>6. CASE OnStop
  BY <1>6 DEF OnStop, SumsInv
<1>7. ASSUME UNCHANGED <<dbVars, display, rows, shown>>, update_ui' = update_ui, phase' # "messages" \/ ~ update_ui
      PROVE  SumsInv'
  BY <1>7 DEF SumsInv, UpToDate, LastTable, dbVars
<1>8. CASE ReadLog
  BY <1>7, <1>8 DEF ReadLog, uiVars
<1>9. ASSUME NEW e \in Entries, LogLine(e) PROVE SumsInv'
  BY <1>9, StepLogLine
<1>10. CASE UpdateStatDisplay
  <2>1. display' = display /\ update_ui' = FALSE /\ UNCHANGED dbVars
    BY <1>10 DEF UpdateStatDisplay
  <2>2. CASE update_ui /\ display # NoView
    <3>1. Update(display) /\ display \in Views
      BY <1>1, <1>10, <2>1, <2>2 DEF UpdateStatDisplay
    <3> QED BY <1>1, <2>1, <3>1, UpdatedIsUpToDate DEF SumsInv
  <2>3. CASE ~ (update_ui /\ display # NoView)
    <3>1. UNCHANGED <<rows, shown>>
      BY <1>10, <2>3 DEF UpdateStatDisplay
    <3> QED BY <2>1, <2>3, <3>1 DEF SumsInv, UpToDate, LastTable, dbVars
  <2> QED BY <2>2, <2>3
<1>11. CASE UNCHANGED allVars
  BY <1>11 DEF allVars, dbVars, uiVars, SumsInv, UpToDate, LastTable
<1> QED BY <1>3, <1>4, <1>5, <1>6, <1>8, <1>9, <1>10, <1>11 DEF DisplayNext

\* Whatever the log says and whatever the user does, the rows that can be seen are the
\* sums over the last encounter: one row for each ability or entity, the greatest first,
\* with the total of all of them.
THEOREM SumsAreShown == DisplaySpec => []RowsAreSums
<1>1. DisplayInit => SumsInv
  BY DEF DisplayInit, SumsInv
<1>2. DisplaySpec => []SumsInv
  BY <1>1, DisplayInvariance, NextSumsInv, PTL DEF DisplaySpec
<1>3. SumsInv => RowsAreSums
  <2>1. ASSUME NEW table, IsShown(display, table, rows, shown) PROVE Shows(table)
    BY <2>1 DEF IsShown, Shows, MaxOf
  <2> QED BY <2>1 DEF SumsInv, UpToDate, RowsAreSums
<1> QED BY <1>2, <1>3, PTL
=============================================================================
