------------------------------ MODULE DataFacts ------------------------------
(***************************************************************************)
(* What the proofs of this project know of data: least elements, induction *)
(* over the natural numbers, counting, functions that are defined by       *)
(* recursion and the folds of SequencesExt.                                *)
(*                                                                         *)
(* The library's induction theorems take an operator as a parameter.  Here *)
(* a property of numbers is the set of the numbers that have it, and the   *)
(* step of a recursion is a function; both can be handed to a lemma.       *)
(***************************************************************************)
EXTENDS Integers, Sequences, SequencesExt, FiniteSets, FiniteSetsExt, FiniteSetTheorems,
        SequenceTheorems, WellFoundedInduction, TLAPS

\* A non-empty set of natural numbers has a least element: what the search
\* loops that count upwards (get_next_id, std::find) rely on.
LEMMA NatMin ==
    ASSUME NEW T \in SUBSET Nat, T # {}
    PROVE  \E x \in T : \A y \in T : x <= y
<1> DEFINE R == OpToRel(<, Nat)
<1>1. IsWellFoundedOn(R, Nat)
  BY NatLessThanWellFounded
<1>2. PICK x \in T : \A y \in T : ~ (<<y, x>> \in R)
  <2> HIDE DEF R
  <2> QED BY <1>1, WFMin
<1>3. \A y \in T : y < x => <<y, x>> \in R
  BY DEF OpToRel
<1> HIDE DEF R
<1>4. \A y \in T : ~ (y < x)
  BY <1>2, <1>3, Zenon
<1> QED BY <1>4, SMT

\* Induction, for a property that is given as the set of the numbers that have it.
LEMMA Induct ==
    ASSUME NEW P, 0 \in P, \A n \in Nat : n \in P => n + 1 \in P
    PROVE  \A n \in Nat : n \in P
<1> DEFINE T == Nat \ P
<1>1. SUFFICES ASSUME T # {} PROVE FALSE
  OBVIOUS
<1>2. PICK x \in T : \A y \in T : x <= y
  BY <1>1, NatMin
<1>3. x # 0 /\ x \in Nat
  OBVIOUS
<1>4. x - 1 \in Nat /\ x - 1 \notin T
  BY <1>2, <1>3
<1> QED BY <1>3, <1>4

\* A recursive function whose values lie in X is what its definition says: step
\* gives the value at i from the one before.
LEMMA Iteration ==
    ASSUME NEW X, NEW base \in X, NEW step \in [Nat -> [X -> X]], NEW n \in Nat
    PROVE  \E g \in [0..n -> X] :
              g[0] = base /\ \A i \in 1..n : g[i] = step[i][g[i - 1]]
<1> DEFINE Q(m, g) == g[0] = base /\ \A i \in 1..m : g[i] = step[i][g[i - 1]]
           P == {m \in Nat : \E g \in [0..m -> X] : Q(m, g)}
<1>1. 0 \in P
  <2>1. [i \in 0..0 |-> base] \in [0..0 -> X] /\ Q(0, [i \in 0..0 |-> base])
    OBVIOUS
  <2> QED BY <2>1
<1>2. ASSUME NEW m \in Nat, m \in P PROVE m + 1 \in P
  <2>1. PICK g \in [0..m -> X] : Q(m, g)
    BY <1>2
  <2> DEFINE x == step[m + 1][g[m]]
             h == [i \in 0..m + 1 |-> IF i = m + 1 THEN x ELSE g[i]]
  <2>2. x \in X
    BY m \in 0..m
  <2>3. \A i \in 0..m : g[i] \in X
    OBVIOUS
  <2>4. h \in [0..m + 1 -> X] /\ h[0] = base
    <3> HIDE DEF x
    <3>1. \A i \in 0..m + 1 : i = m + 1 \/ i \in 0..m
      OBVIOUS
    <3>2. 0 # m + 1 /\ 0 \in 0..m + 1
      OBVIOUS
    <3> QED BY <2>1, <2>2, <2>3, <3>1, <3>2
  <2>5. ASSUME NEW i \in 1..m + 1 PROVE h[i] = step[i][h[i - 1]]
    <3>1. CASE i = m + 1
      <4>1. h[i] = x /\ h[i - 1] = g[m] /\ i - 1 = m
        <5> HIDE DEF x
        <5> QED BY <3>1
      <4> QED BY <4>1, <3>1
    <3>2. CASE i # m + 1
      <4>1. i \in 1..m /\ i - 1 \in 0..m + 1 /\ i - 1 # m + 1 /\ i \in 0..m + 1
        BY <3>2
      <4>2. h[i] = g[i] /\ h[i - 1] = g[i - 1]
        <5> HIDE DEF x
        <5> QED BY <4>1, <3>2
      <4> QED BY <2>1, <4>1, <4>2
    <3> QED BY <3>1, <3>2
  <2> HIDE DEF h
  <2>6. Q(m + 1, h) /\ m + 1 \in Nat
    BY <2>4, <2>5
  <2> HIDE DEF Q
  <2> QED BY <2>4, <2>6
<1> HIDE DEF P
<1>3. n \in P
  BY <1>1, <1>2, Induct
<1> QED BY <1>3 DEF P

\* There is one such function: two of them agree as far as both are defined.
LEMMA IterationUnique ==
    ASSUME NEW step, NEW m \in Nat, NEW n \in Nat, NEW g, NEW h, g[0] = h[0],
           \A i \in 1..m : g[i] = step[i][g[i - 1]],
           \A i \in 1..n : h[i] = step[i][h[i - 1]]
    PROVE  \A i \in 0..m : i <= n => g[i] = h[i]
<1> DEFINE P == {i \in Nat : i <= m /\ i <= n => g[i] = h[i]}
<1>1. 0 \in P
  OBVIOUS
<1>2. ASSUME NEW i \in Nat, i \in P PROVE i + 1 \in P
  <2>1. CASE i + 1 <= m /\ i + 1 <= n
    <3>1. g[i + 1] = step[i + 1][g[i]] /\ h[i + 1] = step[i + 1][h[i]]
      <4>1. i + 1 \in 1..m /\ i + 1 \in 1..n /\ (i + 1) - 1 = i
        BY <2>1
      <4> QED BY <4>1
    <3>2. g[i] = h[i]
      BY <1>2, <2>1
    <3> QED BY <3>1, <3>2
  <2> QED BY <2>1
<1> HIDE DEF P
<1>3. \A i \in Nat : i \in P
  BY <1>1, <1>2, Induct
<1> QED BY <1>3 DEF P

\* The greatest of an interval, and what is left without it.
LEMMA TopOfInterval ==
    ASSUME NEW n \in Nat, n > 0
    PROVE  Max(1..n) = n /\ 1..n # {} /\ (1..n) \ {n} = 1..n - 1
<1>1. n \in 1..n /\ \A y \in 1..n : n >= y
  OBVIOUS
<1>2. \A x \in 1..n : (\A y \in 1..n : x >= y) => x = n
  BY <1>1
<1>3. Max(1..n) = n
  BY <1>1, <1>2 DEF Max
<1> QED BY <1>1, <1>3

\* g gives the fold of every set of positions up to n: base for none, and step of the
\* last position after the fold of the others.
IsFold(g, base, step, n) ==
    \A S \in SUBSET (1..n) :
        g[S] = IF S = {} THEN base ELSE step[Max(S)][g[S \ {Max(S)}]]

\* FoldLeft is defined by recursion over sets of positions.  There is a function that
\* does what the definition says: step gives the value with one position more.
LEMMA FoldExists ==
    ASSUME NEW X, NEW base \in X, NEW step \in [Nat -> [X -> X]], NEW n \in Nat
    PROVE  \E g \in [SUBSET (1..n) -> X] : IsFold(g, base, step, n)
<1> DEFINE Q(m, g) == \A S \in SUBSET (1..m) :
                 g[S] = IF S = {} THEN base ELSE step[Max(S)][g[S \ {Max(S)}]]
           P == {m \in Nat : \E g \in [SUBSET (1..m) -> X] : Q(m, g)}
<1>1. 0 \in P
  <2> DEFINE g == [S \in SUBSET (1..0) |-> base]
  <2>1. \A S \in SUBSET (1..0) : S = {}
    OBVIOUS
  <2>2. g \in [SUBSET (1..0) -> X] /\ Q(0, g)
    BY <2>1
  <2> QED BY <2>2
<1>2. ASSUME NEW m \in Nat, m \in P PROVE m + 1 \in P
  <2>1. PICK f \in [SUBSET (1..m) -> X] : Q(m, f)
    BY <1>2
  <2> DEFINE V(S) == IF m + 1 \in S THEN step[m + 1][f[S \ {m + 1}]] ELSE f[S]
             h == [S \in SUBSET (1..m + 1) |-> V(S)]
  <2>2. ASSUME NEW S \in SUBSET (1..m + 1)
        PROVE  /\ m + 1 \notin S => S \in SUBSET (1..m)
               /\ S \ {m + 1} \in SUBSET (1..m)
    <3>1. \A x \in S : x # m + 1 => x \in 1..m
      OBVIOUS
    <3> QED BY <3>1
  <2>3. \A S \in SUBSET (1..m + 1) : V(S) \in X
    <3> SUFFICES ASSUME NEW S \in SUBSET (1..m + 1) PROVE V(S) \in X
      OBVIOUS
    <3>1. CASE m + 1 \in S
      <4>1. f[S \ {m + 1}] \in X /\ step[m + 1] \in [X -> X]
        BY <2>2
      <4> QED BY <4>1, <3>1
    <3>2. CASE m + 1 \notin S
      BY <2>2, <3>2
    <3> QED BY <3>1, <3>2
  <2>4. \A S \in SUBSET (1..m + 1) : h[S] = V(S)
    <3> HIDE DEF V
    <3> QED OBVIOUS
  <2>5. h \in [SUBSET (1..m + 1) -> X]
    <3> HIDE DEF V
    <3> QED BY <2>3
  <2> HIDE DEF h
  <2>6. ASSUME NEW S \in SUBSET (1..m + 1)
        PROVE  h[S] = IF S = {} THEN base ELSE step[Max(S)][h[S \ {Max(S)}]]
    <3>1. CASE m + 1 \in S
      <4>1. \A y \in S : m + 1 >= y /\ y \in Nat
        OBVIOUS
      <4>2. \A x \in S : (\A y \in S : x >= y) => x = m + 1
        BY <4>1, <3>1
      <4>3. Max(S) = m + 1
        BY <4>1, <4>2, <3>1 DEF Max
      <4>4. h[S \ {m + 1}] = f[S \ {m + 1}]
        BY <2>4
      <4> QED BY <4>3, <4>4, <3>1, <2>4
    <3>2. CASE m + 1 \notin S
      <4>1. S \in SUBSET (1..m) /\ h[S] = f[S]
        BY <2>2, <2>4, <3>2
      <4>2. h[S \ {Max(S)}] = f[S \ {Max(S)}]
        BY <2>4, <3>2
      <4> QED BY <4>1, <4>2, <2>1
    <3> QED BY <3>1, <3>2
  <2>7. Q(m + 1, h) /\ m + 1 \in Nat
    BY <2>6, SMTT(30)
  <2> HIDE DEF Q
  <2> QED BY <2>5, <2>7
<1> HIDE DEF P
<1>3. n \in P
  BY <1>1, <1>2, Induct
<1> QED BY <1>3 DEF P, IsFold

\* A non-empty set of positions has a last one.
LEMMA MaxInside ==
    ASSUME NEW n \in Nat, NEW S \in SUBSET (1..n), S # {}
    PROVE  Max(S) \in S
<1> DEFINE T == {n - x : x \in S}
<1>1. T \in SUBSET Nat /\ T # {}
  <2>1. \A x \in S : n - x \in Nat
    OBVIOUS
  <2> QED BY <2>1
<1>2. PICK t \in T : \A u \in T : t <= u
  <2> HIDE DEF T
  <2> QED BY <1>1, NatMin
<1>3. PICK x \in S : t = n - x
  OBVIOUS
<1>4. \A y \in S : n - y \in T /\ y \in Nat
  OBVIOUS
<1>5. \A y \in S : x >= y
  BY <1>2, <1>3, <1>4
<1> QED BY <1>3, <1>5 DEF Max

\* Pigeonhole: a function on a finite set misses one of the first n + 1
\* positive numbers, n the size of the set.
LEMMA FunctionMissesOne ==
    ASSUME NEW S, IsFiniteSet(S), NEW f \in [S -> Nat]
    PROVE  \E i \in 1..Cardinality(S) + 1 : \A s \in S : f[s] # i
<1> DEFINE n == Cardinality(S)
           T == {f[s] : s \in S}
<1>1. n \in Nat
  BY FS_CardinalityType
<1>2. f \in Surjection(S, T)
  BY DEF Surjection
<1>3. IsFiniteSet(T) /\ Cardinality(T) <= n
  <2> HIDE DEF T
  <2> QED BY <1>2, FS_Surjection
<1>4. Cardinality(1..n + 1) = n + 1
  <2> HIDE DEF n
  <2> QED BY <1>1, FS_Interval
<1>5. Cardinality(T) \in Nat
  BY <1>3, FS_CardinalityType
<1>6. ~ (1..n + 1 \subseteq T)
  <2> HIDE DEF n, T
  <2>1. ASSUME 1..n + 1 \subseteq T PROVE FALSE
    <3>1. Cardinality(1..n + 1) <= Cardinality(T)
      BY <2>1, <1>3, FS_Subset
    <3> QED BY <3>1, <1>1, <1>3, <1>4, <1>5
  <2> QED BY <2>1
<1> QED BY <1>6

\* Counting along a set of positions that gets one more at its end: the rank of a
\* position is the number of those up to it.
LEMMA RankFacts ==
    ASSUME NEW n \in Nat, NEW S \in SUBSET (1..n)
    PROVE  /\ Cardinality(S) \in Nat
           /\ Cardinality(S \cup {n + 1}) = Cardinality(S) + 1
           /\ {j \in S \cup {n + 1} : j <= n + 1} = S \cup {n + 1}
           /\ \A k \in S : {j \in S \cup {n + 1} : j <= k} = {j \in S : j <= k}
           /\ \A k \in S : /\ Cardinality({j \in S : j <= k}) \in Nat
                           /\ Cardinality({j \in S : j <= k}) <= Cardinality(S)
<1>1. IsFiniteSet(1..n)
  BY FS_Interval
<1>2. IsFiniteSet(S)
  BY <1>1, FS_Subset
<1>3. Cardinality(S) \in Nat
  BY <1>2, FS_CardinalityType
<1>4. Cardinality(S \cup {n + 1}) = Cardinality(S) + 1
  <2>1. n + 1 \notin S
    OBVIOUS
  <2> QED BY <1>2, <2>1, FS_AddElement
<1>5. ASSUME NEW k \in S
      PROVE  /\ Cardinality({j \in S : j <= k}) \in Nat
             /\ Cardinality({j \in S : j <= k}) <= Cardinality(S)
  <2> DEFINE T == {j \in S : j <= k}
  <2>1. T \in SUBSET S
    OBVIOUS
  <2> HIDE DEF T
  <2>2. IsFiniteSet(T) /\ Cardinality(T) <= Cardinality(S)
    BY <1>2, <2>1, FS_Subset
  <2>3. Cardinality(T) \in Nat
    BY <2>2, FS_CardinalityType
  <2> QED BY <2>2, <2>3 DEF T
<1>6. {j \in S \cup {n + 1} : j <= n + 1} = S \cup {n + 1}
  <2> DEFINE T == S \cup {n + 1}
  <2>1. \A j \in T : j <= n + 1
    OBVIOUS
  <2> HIDE DEF T
  <2>2. {j \in T : j <= n + 1} = T
    BY <2>1
  <2> QED BY <2>2 DEF T
<1>7. \A k \in S : {j \in S \cup {n + 1} : j <= k} = {j \in S : j <= k}
  <2>1. \A k \in S : ~ (n + 1 <= k)
    OBVIOUS
  <2> QED BY <2>1
<1> QED BY <1>3, <1>4, <1>5, <1>6, <1>7

\* Counting along a set of positions reaches every number up to its size, at one position.
LEMMA RankOnto ==
    ASSUME NEW n \in Nat, NEW S \in SUBSET (1..n), NEW i \in 1..Cardinality(S)
    PROVE  \E k \in S : /\ Cardinality({j \in S : j <= k}) = i
                        /\ \A l \in S : Cardinality({j \in S : j <= l}) = i => l = k
<1> DEFINE Up(T, k) == {j \in T : j <= k}
           Q(T, r) == \E k \in T : /\ Cardinality(Up(T, k)) = r
                                   /\ \A l \in T : Cardinality(Up(T, l)) = r => l = k
           P == {m \in Nat : \A T \in SUBSET (1..m) : \A r \in 1..Cardinality(T) : Q(T, r)}
<1>1. 0 \in P
  <2>1. ASSUME NEW T \in SUBSET (1..0) PROVE Cardinality(T) = 0
    <3>1. T = {}
      OBVIOUS
    <3> QED BY <3>1, FS_EmptySet
  <2> HIDE DEF Q
  <2> QED BY <2>1
<1>2. ASSUME NEW m \in Nat, m \in P PROVE m + 1 \in P
  <2>1. SUFFICES ASSUME NEW T \in SUBSET (1..m + 1), NEW r \in 1..Cardinality(T)
                 PROVE  Q(T, r)
    BY <1>2
  <2>2. CASE T \in SUBSET (1..m)
    <3> HIDE DEF Q
    <3> QED BY <1>2, <2>1, <2>2
  <2>3. CASE T \notin SUBSET (1..m)
    <3> DEFINE R == T \ {m + 1}
    <3>1. T = R \cup {m + 1} /\ R \in SUBSET (1..m)
      <4>1. \A x \in T : x # m + 1 => x \in 1..m
        OBVIOUS
      <4> QED BY <2>3, <4>1
    <3> HIDE DEF R
    <3>2. /\ Cardinality(R) \in Nat
          /\ Cardinality(T) = Cardinality(R) + 1
          /\ Up(T, m + 1) = T
          /\ \A k \in R : Up(T, k) = Up(R, k)
          /\ \A k \in R : /\ Cardinality(Up(R, k)) \in Nat
                          /\ Cardinality(Up(R, k)) <= Cardinality(R)
      BY <3>1, RankFacts
    <3> HIDE DEF Up
    <3>3. CASE r = Cardinality(T)
      <4>1. \A l \in T : Cardinality(Up(T, l)) = r => l = m + 1
        <5>1. SUFFICES ASSUME NEW l \in R PROVE Cardinality(Up(T, l)) # r
          BY <3>1
        <5>2. Cardinality(Up(T, l)) = Cardinality(Up(R, l))
          BY <3>2
        <5> QED BY <3>2, <3>3, <5>2
      <4>2. m + 1 \in T
        BY <3>1
      <4> QED BY <3>2, <3>3, <4>1, <4>2
    <3>4. CASE r # Cardinality(T)
      <4>1. r \in 1..Cardinality(R)
        BY <2>1, <3>2, <3>4
      <4>2. Q(R, r)
        <5> HIDE DEF Q
        <5> QED BY <1>2, <3>1, <4>1
      <4>3. PICK k \in R : /\ Cardinality(Up(R, k)) = r
                           /\ \A l \in R : Cardinality(Up(R, l)) = r => l = k
        BY <4>2
      <4>4. Cardinality(Up(T, m + 1)) # r
        BY <3>2, <3>4
      <4>5. \A l \in T : Cardinality(Up(T, l)) = r => l = k
        BY <3>1, <3>2, <4>3, <4>4
      <4> QED BY <3>1, <3>2, <4>3, <4>5
    <3> QED BY <3>3, <3>4
  <2> QED BY <2>2, <2>3
<1> HIDE DEF P
<1>3. n \in P
  BY <1>1, <1>2, Induct
<1> QED BY <1>3 DEF P

-----------------------------------------------------------------------------
\* Sums over finite sets.

AnyOf(T) == CHOOSE x \in T : TRUE

Numbers(f, S) == \A x \in S : f[x] \in Int

\* it gives the sum of f over every subset of S, as FiniteSetsExt defines it: any
\* element, and the sum over the others.
Adds(it, f, S) ==
    \A T \in SUBSET S : it[T] = IF T = {} THEN 0 ELSE f[AnyOf(T)] + it[T \ {AnyOf(T)}]
IsSum(it, f, S) == it \in [SUBSET S -> Int] /\ Adds(it, f, S)

\* There is such a function.
LEMMA SumExists ==
    ASSUME NEW S, IsFiniteSet(S), NEW f, Numbers(f, S)
    PROVE  \E it : IsSum(it, f, S)
<1> DEFINE Small(n) == {T \in SUBSET S : Cardinality(T) <= n}
           Val(it, T) == IF T = {} THEN 0 ELSE f[AnyOf(T)] + it[T \ {AnyOf(T)}]
           P == {n \in Nat : \E it \in [Small(n) -> Int] :
                                \A T \in Small(n) : it[T] = Val(it, T)}
<1> USE DEF Numbers
<1>1. \A T \in SUBSET S : IsFiniteSet(T) /\ Cardinality(T) \in Nat
  BY FS_Subset, FS_CardinalityType
<1>2. 0 \in P
  <2> DEFINE it == [T \in Small(0) |-> 0]
  <2>1. \A T \in Small(0) : T = {}
    <3> SUFFICES ASSUME NEW T \in SUBSET S, Cardinality(T) <= 0 PROVE T = {}
      OBVIOUS
    <3>1. Cardinality(T) = 0
      BY <1>1
    <3> QED BY <1>1, <3>1, FS_EmptySet
  <2>2. it \in [Small(0) -> Int] /\ \A T \in Small(0) : it[T] = Val(it, T)
    <3> HIDE DEF Small
    <3> QED BY <2>1
  <2> QED BY <2>2
<1>3. ASSUME NEW n \in Nat, n \in P PROVE n + 1 \in P
  <2>1. PICK it \in [Small(n) -> Int] : \A T \in Small(n) : it[T] = Val(it, T)
    BY <1>3
  <2> DEFINE h == [T \in Small(n + 1) |-> Val(it, T)]
  <2>2. ASSUME NEW T \in Small(n + 1), T # {}
        PROVE  AnyOf(T) \in T /\ T \ {AnyOf(T)} \in Small(n)
    <3>1. AnyOf(T) \in T
      BY <2>2 DEF AnyOf
    <3>2. Cardinality(T \ {AnyOf(T)}) = Cardinality(T) - 1
      BY <1>1, <3>1, FS_RemoveElement
    <3> QED BY <1>1, <3>1, <3>2
  <2>3. ASSUME NEW T \in Small(n + 1)
        PROVE  Val(it, T) \in Int
    <3>1. CASE T = {}
      BY <3>1
    <3>2. CASE T # {}
      <4>1. f[AnyOf(T)] \in Int /\ it[T \ {AnyOf(T)}] \in Int
        <5>1. AnyOf(T) \in S
          BY <2>2, <3>2
        <5> HIDE DEF Small
        <5> QED BY <2>1, <2>2, <3>2, <5>1
      <4> QED BY <3>2, <4>1
    <3> QED BY <3>1, <3>2
  <2>4. \A T \in Small(n) : T \in Small(n + 1)
    BY <1>1
  <2> HIDE DEF Small
  <2>5. h \in [Small(n + 1) -> Int]
    <3> HIDE DEF Val
    <3> QED BY <2>3
  <2>6. \A T \in Small(n) : h[T] = it[T]
    <3> HIDE DEF Val
    <3> QED BY <2>1, <2>4
  <2>7. \A T \in Small(n + 1) : h[T] = Val(it, T)
    <3> HIDE DEF Val
    <3> QED OBVIOUS
  <2>8. \A T \in Small(n + 1) : h[T] = Val(h, T)
    <3> HIDE DEF h
    <3> QED BY <2>2, <2>6, <2>7
  <2> HIDE DEF h, Val
  <2> QED BY <2>5, <2>8
<1>4. Cardinality(S) \in P
  <2> HIDE DEF P
  <2> QED BY <1>1, <1>2, <1>3, Induct
<1>5. PICK it \in [Small(Cardinality(S)) -> Int] :
         \A T \in Small(Cardinality(S)) : it[T] = Val(it, T)
  BY <1>4
<1>6. Small(Cardinality(S)) = SUBSET S
  BY FS_Subset
<1> HIDE DEF Small
<1> QED BY <1>5, <1>6 DEF IsSum, Adds

\* Any element can be taken first.
LEMMA SumRemove ==
    ASSUME NEW S, IsFiniteSet(S), NEW f, Numbers(f, S),
           NEW it, IsSum(it, f, S), NEW R \in SUBSET S, NEW a \in R
    PROVE  it[R] = f[a] + it[R \ {a}]
<1> DEFINE P == {n \in Nat : \A T \in SUBSET S :
                    Cardinality(T) = n => \A x \in T : it[T] = f[x] + it[T \ {x}]}
<1>1. \A T \in SUBSET S : IsFiniteSet(T) /\ Cardinality(T) \in Nat
  BY FS_Subset, FS_CardinalityType
<1>2. \A T \in SUBSET S : \A x \in T :
         Cardinality(T \ {x}) = Cardinality(T) - 1 /\ T \ {x} \in SUBSET S
  BY <1>1, FS_RemoveElement
<1>3. 0 \in P
  <2> SUFFICES ASSUME NEW T \in SUBSET S, Cardinality(T) = 0 PROVE T = {}
    OBVIOUS
  <2> QED BY <1>1, FS_EmptySet
<1>4. ASSUME NEW n \in Nat, n \in P PROVE n + 1 \in P
  <2>1. SUFFICES ASSUME NEW T \in SUBSET S, Cardinality(T) = n + 1, NEW x \in T
                 PROVE  it[T] = f[x] + it[T \ {x}]
    OBVIOUS
  <2> DEFINE c == AnyOf(T)
             U == T \ {c}
             W == T \ {x}
  <2>2. c \in T /\ it[T] = f[c] + it[U]
    BY <2>1 DEF IsSum, Adds, AnyOf
  <2>3. CASE x = c
    BY <2>2, <2>3
  <2>4. CASE x # c
    <3>1. /\ U \in SUBSET S /\ W \in SUBSET S /\ x \in U /\ c \in W
          /\ U \ {x} = W \ {c} /\ U \ {x} \in SUBSET S
      BY <2>2, <2>4
    <3>2. Cardinality(U) = n /\ Cardinality(W) = n
      BY <1>2, <2>1, <2>2
    <3> HIDE DEF c, U, W
    <3>3. it[U] = f[x] + it[U \ {x}] /\ it[W] = f[c] + it[W \ {c}]
      BY <1>4, <3>1, <3>2
    <3>4. f[x] \in Int /\ f[c] \in Int /\ it[U \ {x}] \in Int
      BY <2>1, <2>2, <3>1 DEF IsSum, Adds, Numbers
    <3>5. it[T] = f[c] + it[U] /\ it[U \ {x}] = it[W \ {c}]
      BY <2>2, <3>1
    <3>6. it[T] = f[x] + it[W]
      BY <3>3, <3>4, <3>5
    <3> QED BY <3>6 DEF W
  <2> QED BY <2>3, <2>4
<1> HIDE DEF P
<1>5. \A n \in Nat : n \in P
  BY <1>3, <1>4, Induct
<1> QED BY <1>1, <1>5 DEF P

\* Sums of functions that agree on a set are the same, whatever sets they are part of.
LEMMA SumUnique ==
    ASSUME NEW R, NEW S, NEW f, NEW g, NEW it, NEW kt, Adds(it, f, R), Adds(kt, g, S),
           NEW T \in SUBSET (R \cap S), IsFiniteSet(T), \A x \in T : f[x] = g[x]
    PROVE  it[T] = kt[T]
<1> DEFINE P == {n \in Nat : \A U \in SUBSET T : Cardinality(U) = n => it[U] = kt[U]}
<1>1. \A U \in SUBSET T : IsFiniteSet(U) /\ Cardinality(U) \in Nat
  BY FS_Subset, FS_CardinalityType
<1>2. 0 \in P
  <2> SUFFICES ASSUME NEW U \in SUBSET T, Cardinality(U) = 0 PROVE it[U] = kt[U]
    OBVIOUS
  <2>1. U = {}
    BY <1>1, FS_EmptySet
  <2> QED BY <2>1 DEF IsSum, Adds
<1>3. ASSUME NEW n \in Nat, n \in P PROVE n + 1 \in P
  <2>1. SUFFICES ASSUME NEW U \in SUBSET T, Cardinality(U) = n + 1 PROVE it[U] = kt[U]
    OBVIOUS
  <2> DEFINE c == AnyOf(U)
             W == U \ {c}
  <2>2. U # {}
    BY <2>1, FS_EmptySet
  <2>3. c \in U
    BY <2>2 DEF AnyOf
  <2>4. U \in SUBSET R /\ U \in SUBSET S
    OBVIOUS
  <2>5. it[U] = f[c] + it[W] /\ kt[U] = g[c] + kt[W]
    BY <2>2, <2>4 DEF IsSum, Adds
  <2>6. W \in SUBSET T /\ Cardinality(W) = n
    <3>1. Cardinality(W) = Cardinality(U) - 1
      BY <1>1, <2>3, FS_RemoveElement
    <3> QED BY <2>1, <3>1
  <2> HIDE DEF c, W
  <2>7. it[W] = kt[W] /\ f[c] = g[c]
    BY <1>3, <2>3, <2>6
  <2> QED BY <2>5, <2>7
<1> HIDE DEF P
<1>4. \A n \in Nat : n \in P
  BY <1>2, <1>3, Induct
<1> QED BY <1>1, <1>4 DEF P

\* x is the sum of f over S.
IsSumOf(x, f, S) == \E it : IsSum(it, f, S) /\ x = it[S]

LEMMA SumOfNone == \A f : IsSumOf(0, f, {})
<1> TAKE f
<1> DEFINE it == [T \in SUBSET {} |-> 0]
<1>1. it \in [SUBSET {} -> Int] /\ it[{}] = 0 /\ \A T \in SUBSET {} : T = {}
  OBVIOUS
<1> QED BY <1>1 DEF IsSumOf, IsSum, Adds

LEMMA SumOfMore ==
    ASSUME NEW S, IsFiniteSet(S), NEW a, a \notin S, NEW f,
           Numbers(f, S \cup {a}), NEW x, IsSumOf(x, f, S)
    PROVE  x \in Int /\ IsSumOf(x + f[a], f, S \cup {a})
<1> DEFINE R == S \cup {a}
<1>1. IsFiniteSet(R) /\ R \ {a} = S /\ a \in R
  BY FS_AddElement
<1>2. PICK kt : IsSum(kt, f, S) /\ x = kt[S]
  BY DEF IsSumOf
<1>3. PICK it : IsSum(it, f, R)
  <2>1. Numbers(f, R)
    OBVIOUS
  <2> HIDE DEF R
  <2> QED BY <1>1, <2>1, SumExists
<1>4. it[R] = f[a] + it[S]
  <2>1. Numbers(f, R) /\ R \in SUBSET R
    OBVIOUS
  <2> HIDE DEF R
  <2>2. it[R] = f[a] + it[R \ {a}]
    BY <1>1, <1>3, <2>1, SumRemove
  <2> QED BY <1>1, <2>2
<1>5. it[S] = kt[S]
  <2>1. S \in SUBSET (R \cap S)
    OBVIOUS
  <2> HIDE DEF R
  <2> QED BY <1>2, <1>3, <2>1, SumUnique DEF IsSum
<1>6. x \in Int /\ f[a] \in Int
  BY <1>2 DEF IsSum, Adds, Numbers
<1>7. it[R] = x + f[a]
  BY <1>2, <1>4, <1>5, <1>6
<1> HIDE DEF R
<1>8. IsSumOf(x + f[a], f, R)
  BY <1>3, <1>7 DEF IsSumOf
<1> QED BY <1>6, <1>8 DEF R

LEMMA SumOfSame ==
    ASSUME NEW S, IsFiniteSet(S), NEW f, NEW g, \A y \in S : f[y] = g[y],
           NEW x, IsSumOf(x, f, S), NEW z, IsSumOf(z, g, S)
    PROVE  x = z
<1>1. PICK it : IsSum(it, f, S) /\ x = it[S]
  BY DEF IsSumOf
<1>2. PICK kt : IsSum(kt, g, S) /\ z = kt[S]
  BY DEF IsSumOf
<1>3. S \in SUBSET (S \cap S)
  OBVIOUS
<1> QED BY <1>1, <1>2, <1>3, SumUnique DEF IsSum
=============================================================================
