--------------------------- MODULE StartupProofs ----------------------------
(***************************************************************************)
(* Theorems about Startup, for every finite set of names and every graph   *)
(* of dependencies: the groups of startup_order are a start order, it      *)
(* refuses exactly the graphs with a cycle, and `up` starts nothing before *)
(* what it depends on.                                                     *)
(***************************************************************************)
EXTENDS Startup, TLAPS, FiniteSetTheorems, WellFoundedInduction

(* The state of startup_order keeps its types.                             *)
OrderTypes ==
    /\ deps \in [Names -> Seq(Names \cup {Unknown})]
    /\ DOMAIN remaining \subseteq Names
    /\ remaining \in [DOMAIN remaining -> Nat]
    /\ groups \in Seq(SUBSET Names)

(* A degree counts the dependencies that are in no group yet, and a name   *)
(* whose degree is 0 waited for one in the last group.                     *)
Open(n) == {i \in DOMAIN deps[n] : deps[n][i] \notin Placed}
Degrees == \A n \in DOMAIN remaining : remaining[n] = Cardinality(Open(n))
Tight ==
    \A n \in DOMAIN remaining : remaining[n] = 0 /\ groups # <<>> =>
        Mentions(n) \cap groups[Len(groups)] # {}

OrderInv == OrderTypes /\ OrderCorrect /\ Degrees /\ Tight

-----------------------------------------------------------------------------
(* The positions of a depends_on list, and any part of them, are finite.   *)
LEMMA FiniteLists ==
    ASSUME OrderTypes, NEW n \in Names, NEW T \in SUBSET DOMAIN deps[n]
    PROVE  IsFiniteSet(T) /\ Cardinality(T) \in Nat
  <1>1. deps[n] \in Seq(Names \cup {Unknown})
    BY DEF OrderTypes
  <1>2. DOMAIN deps[n] = 1..Len(deps[n]) /\ Len(deps[n]) \in Nat
    BY <1>1
  <1>3. IsFiniteSet(DOMAIN deps[n])
    BY <1>2, FS_Interval
  <1>4. IsFiniteSet(T)
    BY <1>3, FS_Subset
  <1> QED
    BY <1>4, FS_CardinalityType

(* A name without open dependencies has all of them in groups.             *)
LEMMA FreeIsCovered ==
    ASSUME OrderInv, NEW n \in Free
    PROVE  n \in Names /\ Mentions(n) \subseteq Placed
  <1>1. n \in DOMAIN remaining /\ n \in Names /\ remaining[n] = 0
    BY DEF Free, OrderInv, OrderTypes
  <1>2. Cardinality(Open(n)) = 0
    BY <1>1 DEF OrderInv, Degrees
  <1>3. Open(n) \in SUBSET DOMAIN deps[n]
    BY DEF Open
  <1>4. IsFiniteSet(Open(n))
    BY <1>1, <1>3, FiniteLists DEF OrderInv
  <1>5. Open(n) = {}
    BY <1>2, <1>4, FS_EmptySet
  <1> QED
    BY <1>1, <1>5 DEF Open, Mentions

(* Initially no name is in a group, and a degree counts a whole list.      *)
LEMMA InitOrder == Init => OrderInv
  <1> SUFFICES ASSUME Init PROVE OrderInv
    OBVIOUS
  <1>1. /\ deps \in [Names -> DepLists] /\ groups = <<>>
        /\ remaining = [n \in Names |-> Cardinality(DOMAIN deps[n])]
    BY DEF Init
  <1>2. deps \in [Names -> Seq(Names \cup {Unknown})]
    BY <1>1, DepListsAssumption
  <1>3. \A n \in Names : Cardinality(DOMAIN deps[n]) \in Nat
    <2> TAKE n \in Names
    <2>1. deps[n] \in Seq(Names \cup {Unknown})
      BY <1>2
    <2>2. DOMAIN deps[n] = 1..Len(deps[n]) /\ Len(deps[n]) \in Nat
      BY <2>1
    <2>3. IsFiniteSet(DOMAIN deps[n])
      BY <2>2, FS_Interval
    <2> QED
      BY <2>3, FS_CardinalityType
  <1>4. DOMAIN remaining = Names
    BY <1>1
  <1>5. groups \in Seq(SUBSET Names) /\ DOMAIN groups = {}
    BY <1>1
  <1>6. OrderTypes
    BY <1>1, <1>2, <1>3, <1>4, <1>5 DEF OrderTypes
  <1>7. Placed = {}
    BY <1>5 DEF Placed
  <1>8. OrderCorrect
    BY <1>4, <1>5, <1>7 DEF OrderCorrect
  <1>9. Degrees
    <2> SUFFICES ASSUME NEW n \in Names
                 PROVE  Cardinality(DOMAIN deps[n]) = Cardinality(Open(n))
      BY <1>1, <1>4 DEF Degrees
    <2>1. Open(n) = DOMAIN deps[n]
      BY <1>7 DEF Open
    <2> QED
      BY <2>1
  <1>10. Tight
    BY <1>1 DEF Tight
  <1> QED
    BY <1>6, <1>8, <1>9, <1>10 DEF OrderInv

(* What PlaceGroup appends is a group of its own.                          *)
LEMMA PlacedGrows ==
    ASSUME OrderTypes, groups' = Append(groups, Free)
    PROVE  /\ groups' \in Seq(SUBSET Names)
           /\ Len(groups') = Len(groups) + 1
           /\ DOMAIN groups' = 1..(Len(groups) + 1)
           /\ DOMAIN groups = 1..Len(groups)
           /\ \A k \in 1..Len(groups) : groups'[k] = groups[k]
           /\ groups'[Len(groups) + 1] = Free
           /\ Placed' = Placed \cup Free
  <1>1. Free \in SUBSET Names /\ groups \in Seq(SUBSET Names)
    BY DEF Free, OrderTypes
  <1>2. /\ groups' \in Seq(SUBSET Names)
        /\ Len(groups') = Len(groups) + 1
        /\ DOMAIN groups' = 1..(Len(groups) + 1)
        /\ DOMAIN groups = 1..Len(groups) /\ Len(groups) \in Nat
        /\ \A k \in 1..Len(groups) : groups'[k] = groups[k]
        /\ groups'[Len(groups) + 1] = Free
    BY <1>1
  <1>3. Placed' = Placed \cup Free
    <2>1. \A k \in DOMAIN groups' : k = Len(groups) + 1 \/ k \in DOMAIN groups
      BY <1>2
    <2>2. \A x : x \in Placed' <=> \E k \in DOMAIN groups' : x \in groups'[k]
      BY DEF Placed
    <2>3. \A x : x \in Placed <=> \E k \in DOMAIN groups : x \in groups[k]
      BY DEF Placed
    <2>4. Len(groups) + 1 \in DOMAIN groups' /\ \A k \in DOMAIN groups : k \in DOMAIN groups'
      BY <1>2
    <2>5. \A x : x \in Placed' <=> x \in Placed \/ x \in Free
      BY <1>2, <2>1, <2>2, <2>3, <2>4, Zenon
    <2> QED
      BY <2>5
  <1> QED
    BY <1>2, <1>3

(* A turn of the loop: the new group has its dependencies in earlier ones, *)
(* and the degrees go down by the edges into it.                           *)
LEMMA PlaceGroupStep ==
    ASSUME OrderInv, PlaceGroup
    PROVE  OrderInv'
  <1>1. /\ Free # {}
        /\ remaining' = [n \in DOMAIN remaining \ Free |-> Decremented(n)]
        /\ groups' = Append(groups, Free) /\ deps' = deps
    BY DEF PlaceGroup
  <1>2. /\ OrderTypes /\ OrderCorrect /\ Degrees /\ Tight
    BY DEF OrderInv
  <1>3. /\ groups' \in Seq(SUBSET Names)
        /\ Len(groups') = Len(groups) + 1
        /\ DOMAIN groups' = 1..(Len(groups) + 1)
        /\ DOMAIN groups = 1..Len(groups)
        /\ \A k \in 1..Len(groups) : groups'[k] = groups[k]
        /\ groups'[Len(groups) + 1] = Free
        /\ Placed' = Placed \cup Free
    BY <1>1, <1>2, PlacedGrows
  <1>4. DOMAIN remaining' = DOMAIN remaining \ Free /\ Len(groups) \in Nat
    BY <1>1, <1>2 DEF OrderTypes
  <1>5. /\ Placed = Names \ DOMAIN remaining
        /\ DOMAIN remaining \subseteq Names /\ Free \subseteq DOMAIN remaining
        /\ \A k, l \in DOMAIN groups : k # l => groups[k] \cap groups[l] = {}
        /\ \A k \in DOMAIN groups : groups[k] \subseteq Placed
    BY <1>2 DEF OrderCorrect, OrderTypes, Free, Placed
  <1>6. ASSUME NEW n \in DOMAIN remaining \ Free
        PROVE  /\ remaining[n] # 0 /\ remaining[n] \in Nat
               /\ Decremented(n) \in Nat
               /\ Decremented(n) = Cardinality(Open(n)')
               /\ Decremented(n) = 0 => Mentions(n) \cap Free # {}
    <2>1. n \in Names /\ remaining[n] # 0 /\ remaining[n] \in Nat
      BY <1>2, <1>6 DEF OrderTypes, Free
    <2>2. Open(n)' = Open(n) \ EdgesFrom(n, Free) /\ EdgesFrom(n, Free) \subseteq Open(n)
      BY <1>1, <1>3, <1>5 DEF Open, EdgesFrom
    <2>3. Open(n) \in SUBSET DOMAIN deps[n] /\ EdgesFrom(n, Free) \in SUBSET DOMAIN deps[n]
      BY DEF Open, EdgesFrom
    <2>4. IsFiniteSet(Open(n)) /\ Cardinality(Open(n)) \in Nat
      BY <1>2, <2>1, <2>3, FiniteLists
    <2>5. Cardinality(EdgesFrom(n, Free)) \in Nat
      BY <1>2, <2>1, <2>3, FiniteLists
    <2>6. Open(n) \cap EdgesFrom(n, Free) = EdgesFrom(n, Free)
      BY <2>2
    <2>7. /\ IsFiniteSet(Open(n)')
          /\ Cardinality(Open(n)') = Cardinality(Open(n)) - Cardinality(EdgesFrom(n, Free))
      BY <2>2, <2>4, <2>6, FS_Difference
    <2>8. Cardinality(Open(n)') \in Nat
      BY <2>7, FS_CardinalityType
    <2>9. Decremented(n) = Cardinality(Open(n)')
      BY <1>2, <1>6, <2>7 DEF Decremented, Degrees
    <2>10. ASSUME Decremented(n) = 0 PROVE EdgesFrom(n, Free) # {}
      <3>1. Cardinality(EdgesFrom(n, Free)) # 0
        BY <2>1, <2>5, <2>10 DEF Decremented
      <3> QED
        BY <3>1, FS_EmptySet
    <2> QED
      BY <2>1, <2>8, <2>9, <2>10 DEF EdgesFrom, Mentions
  <1>7. OrderTypes'
    BY <1>1, <1>2, <1>3, <1>4, <1>6 DEF OrderTypes
  <1>8. OrderCorrect'
    <2>1. Placed' = Names \ DOMAIN remaining'
      BY <1>3, <1>4, <1>5
    <2>2. ASSUME NEW k \in DOMAIN groups', NEW l \in DOMAIN groups', k # l
          PROVE  groups'[k] \cap groups'[l] = {}
      <3>1. CASE k \in DOMAIN groups /\ l \in DOMAIN groups
        BY <1>3, <1>5, <2>2, <3>1
      <3>2. CASE k = Len(groups) + 1 /\ l \in DOMAIN groups
        BY <1>3, <1>5, <3>2
      <3>3. CASE l = Len(groups) + 1 /\ k \in DOMAIN groups
        BY <1>3, <1>5, <3>3
      <3> QED
        BY <1>3, <1>4, <2>2, <3>1, <3>2, <3>3
    <2>3. ASSUME NEW k \in DOMAIN groups', NEW n \in groups'[k]
          PROVE  /\ \A d \in Mentions(n)' : \E l \in 1..(k - 1) : d \in groups'[l]
                 /\ k > 1 => Mentions(n)' \cap groups'[k - 1] # {}
      <3>0. Mentions(n)' = Mentions(n)
        BY <1>1 DEF Mentions
      <3>1. CASE k \in DOMAIN groups
        <4>1. n \in groups[k] /\ 1..(k - 1) \subseteq 1..Len(groups)
          BY <1>3, <1>4, <2>3, <3>1
        <4>2. /\ \A d \in Mentions(n) : \E l \in 1..(k - 1) : d \in groups[l]
              /\ k > 1 => Mentions(n) \cap groups[k - 1] # {}
          BY <1>2, <3>1, <4>1 DEF OrderCorrect
        <4>3. k > 1 => groups'[k - 1] = groups[k - 1]
          BY <1>3, <1>4, <3>1
        <4> QED
          BY <1>3, <3>0, <4>1, <4>2, <4>3
      <3>2. CASE k = Len(groups) + 1
        <4>1. n \in Free
          BY <1>3, <2>3, <3>2
        <4>2. Mentions(n) \subseteq Placed
          BY <4>1, FreeIsCovered
        <4>3. ASSUME NEW d \in Mentions(n) PROVE \E l \in 1..(k - 1) : d \in groups'[l]
          <5>1. PICK l \in DOMAIN groups : d \in groups[l]
            BY <4>2, <4>3 DEF Placed
          <5> QED
            BY <1>3, <1>4, <3>2, <5>1
        <4>4. ASSUME k > 1 PROVE Mentions(n) \cap groups'[k - 1] # {}
          <5>1. k - 1 = Len(groups) /\ Len(groups) \in 1..Len(groups) /\ groups # <<>>
            BY <1>4, <3>2, <4>4
          <5>2. n \in DOMAIN remaining /\ remaining[n] = 0
            BY <4>1 DEF Free
          <5>3. Mentions(n) \cap groups[Len(groups)] # {}
            BY <1>2, <5>1, <5>2 DEF Tight
          <5> QED
            BY <1>3, <5>1, <5>3
        <4> QED
          BY <3>0, <4>3, <4>4
      <3> QED
        BY <1>3, <1>4, <2>3, <3>1, <3>2
    <2> QED
      BY <2>1, <2>2, <2>3 DEF OrderCorrect
  <1>9. Degrees'
    BY <1>1, <1>4, <1>6 DEF Degrees
  <1>10. Tight'
    <2> SUFFICES ASSUME NEW n \in DOMAIN remaining', remaining'[n] = 0
                 PROVE  Mentions(n)' \cap groups'[Len(groups')] # {}
      BY DEF Tight
    <2>1. n \in DOMAIN remaining \ Free /\ Decremented(n) = 0
      BY <1>1, <1>4
    <2>2. Mentions(n)' = Mentions(n)
      BY <1>1 DEF Mentions
    <2> QED
      BY <1>3, <1>6, <2>1, <2>2
  <1> QED
    BY <1>7, <1>8, <1>9, <1>10 DEF OrderInv

(* Every other step leaves the order alone.                                *)
LEMMA OrderStep ==
    ASSUME OrderInv, [Next]_vars
    PROVE  OrderInv'
  <1>1. CASE PlaceGroup
    BY <1>1, PlaceGroupStep
  <1>2. CASE UNCHANGED order
    <2>1. deps' = deps /\ remaining' = remaining /\ groups' = groups
      BY <1>2 DEF order
    <2>2. Placed' = Placed /\ \A n : Mentions(n)' = Mentions(n)
      BY <2>1 DEF Placed, Mentions
    <2>3. \A n : Open(n)' = Open(n)
      BY <2>1, <2>2 DEF Open
    <2>4. OrderTypes' /\ Degrees'
      BY <2>1, <2>3 DEF OrderInv, OrderTypes, Degrees
    <2>5. OrderCorrect' /\ Tight'
      BY <2>1, <2>2 DEF OrderInv, OrderCorrect, Tight
    <2> QED
      BY <2>4, <2>5 DEF OrderInv
  <1>3. PlaceGroup \/ UNCHANGED order
    BY DEF Next, StartupOrder, Up, Answers, Exited, UnknownDep, CycleDetected,
           Ordered, EnableProxy, StartGroup, Started, Waited, AllStarted,
           RunAnswered, WaitGivesUp, PrintReady, WaitMatch, order, vars
  <1> QED
    BY <1>1, <1>2, <1>3

(* For every graph of dependencies, startup_order's groups are a start     *)
(* order at every turn: disjoint, every dependency in an earlier group,    *)
(* and no name in a later group than its dependencies require.             *)
THEOREM OrderCorrectHolds == Spec => []OrderCorrect
  <1>1. Init => OrderInv
    BY InitOrder
  <1>2. OrderInv /\ [Next]_vars => OrderInv'
    BY OrderStep
  <1>3. OrderInv => OrderCorrect
    BY DEF OrderInv
  <1> QED
    BY <1>1, <1>2, <1>3, PTL DEF Spec

-----------------------------------------------------------------------------
(* Cycles.  What startup_order knew when it gave its verdict still holds:  *)
(* some names were left and none of them was free, or no name was left.    *)
Verdict ==
    /\ pc = "cycle" => KnownDeps /\ Free = {} /\ DOMAIN remaining # {}
    /\ pc \notin {"order", "cycle", "unknown"} => DOMAIN remaining = {}

(* A nonempty set of naturals has a least member.                          *)
LEMMA LeastNatural ==
    ASSUME NEW T \in SUBSET Nat, T # {}
    PROVE  \E m \in T : \A k \in T : m <= k
  <1> DEFINE Less == {ss \in Nat \X Nat : ss[1] < ss[2]}
  <1>1. IsWellFoundedOn(Less, Nat)
    BY NatLessThanWellFounded DEF OpToRel
  <1>2. PICK m \in T : \A k \in T : <<k, m>> \notin Less
    <2> HIDE DEF Less
    <2> QED
      BY <1>1, WFMin
  <1>3. \A k \in T : ~(k < m)
    BY <1>2
  <1> QED
    BY <1>2, <1>3

LEMMA VerdictStep ==
    ASSUME Verdict, [Next]_vars
    PROVE  Verdict'
  <1>1. CASE PlaceGroup
    BY <1>1 DEF PlaceGroup, Verdict
  <1>2. CASE CycleDetected
    BY <1>2 DEF CycleDetected, order, Verdict, KnownDeps, Mentions, Free
  <1>3. CASE \E r, o \in SUBSET Names : Ordered(r, o)
    BY <1>3 DEF Ordered, order, Verdict
  <1>4. CASE /\ UNCHANGED order
             /\ \/ pc' = pc
                \/ pc' = "unknown"
                \/ /\ pc \in {"proxy", "next", "starting", "waiting"}
                   /\ pc' \in {"next", "starting", "waiting", "failed", "started"}
    <2>1. deps' = deps /\ remaining' = remaining
      BY <1>4 DEF order
    <2>2. KnownDeps' = KnownDeps /\ Free' = Free
      BY <2>1 DEF KnownDeps, Mentions, Free
    <2>3. CASE pc' = pc \/ pc' = "unknown"
      BY <2>1, <2>2, <2>3 DEF Verdict
    <2>4. CASE /\ pc \in {"proxy", "next", "starting", "waiting"}
               /\ pc' \in {"next", "starting", "waiting", "failed", "started"}
      BY <2>1, <2>4 DEF Verdict
    <2> QED
      BY <1>4, <2>3, <2>4
  <1>5. CASE UnknownDep \/ Up \/ Answers \/ Exited \/ UNCHANGED vars
             \/ \E n \in Names : PrintReady(n) \/ WaitMatch(n)
    BY <1>4, <1>5
       DEF Up, Answers, Exited, UnknownDep, EnableProxy, StartGroup, Started,
           Waited, AllStarted, RunAnswered, WaitGivesUp, PrintReady, WaitMatch,
           order, vars
  <1> QED
    BY <1>1, <1>2, <1>3, <1>5 DEF Next, StartupOrder

(* A dependency comes before its dependent, and so does what comes before  *)
(* it.                                                                     *)
LEMMA DependencyPrecedes ==
    ASSUME NEW n \in Names, NEW d \in Mentions(n)
    PROVE  Precedes(d, n) /\ \A x : Precedes(x, d) => Precedes(x, n)
  <1>1. Precedes(d, n)
    BY DEF Precedes
  <1>2. ASSUME NEW x, Precedes(x, d), NEW S \in SUBSET Names,
               Mentions(n) \subseteq S, \A y \in S : Mentions(y) \subseteq S
        PROVE  x \in S
    BY <1>2 DEF Precedes
  <1> QED
    BY <1>1, <1>2 DEF Precedes

(* When no name that is left is free, one of them comes before itself.     *)
(* Otherwise take one with the fewest names left that come before it: it   *)
(* has a dependency that is left, and fewer come before that one.          *)
LEMMA StuckIsCyclic ==
    ASSUME OrderInv, KnownDeps, Free = {}, DOMAIN remaining # {}
    PROVE  \E n \in Names : Precedes(n, n)
  <1> SUFFICES ASSUME \A n \in Names : ~Precedes(n, n) PROVE FALSE
    OBVIOUS
  <1> DEFINE R == DOMAIN remaining
             Before(n) == {d \in R : Precedes(d, n)}
             T == {Cardinality(Before(n)) : n \in R}
  <1>1. R \subseteq Names /\ IsFiniteSet(R)
    BY NamesFinite, FS_Subset DEF OrderInv, OrderTypes
  <1>2. \A n \in R : IsFiniteSet(Before(n)) /\ Cardinality(Before(n)) \in Nat
    BY <1>1, FS_Subset, FS_CardinalityType
  <1>3. PICK n \in R : \A m \in R : Cardinality(Before(n)) <= Cardinality(Before(m))
    <2>1. T \in SUBSET Nat /\ T # {}
      BY <1>2
    <2>2. PICK least \in T : \A k \in T : least <= k
      <3> HIDE DEF T
      <3> QED
        BY <2>1, LeastNatural
    <2> QED
      BY <2>2
  <1>4. PICK d \in Mentions(n) : d \in R
    <2>1. n \in Names /\ remaining[n] \in Nat /\ remaining[n] # 0
      BY <1>1 DEF Free, OrderInv, OrderTypes
    <2>2. Cardinality(Open(n)) # 0
      BY <2>1 DEF OrderInv, Degrees
    <2>3. PICK i \in DOMAIN deps[n] : deps[n][i] \notin Placed
      BY <2>2, FS_EmptySet DEF Open
    <2>4. deps[n][i] \in Names
      <3>1. deps[n] \in Seq(Names \cup {Unknown})
        BY <2>1 DEF OrderInv, OrderTypes
      <3>2. deps[n][i] \in Names \cup {Unknown}
        BY <2>3, <3>1
      <3> QED
        BY <2>1, <2>3, <3>2 DEF KnownDeps, Mentions
    <2>5. Placed = Names \ R
      BY DEF OrderInv, OrderCorrect
    <2> QED
      BY <2>3, <2>4, <2>5 DEF Mentions
  <1>5. /\ Precedes(d, n) /\ ~Precedes(d, d)
        /\ \A x : Precedes(x, d) => Precedes(x, n)
    BY <1>1, <1>4, DependencyPrecedes
  <1>6. Before(d) \subseteq Before(n) /\ d \in Before(n) \ Before(d)
    BY <1>4, <1>5
  <1>7. Cardinality(Before(d)) < Cardinality(Before(n))
    <2>1. Before(d) # Before(n)
      BY <1>6
    <2>2. Before(d) \in SUBSET Before(n) /\ IsFiniteSet(Before(n))
      BY <1>2, <1>6
    <2>3. Cardinality(Before(d)) <= Cardinality(Before(n))
          /\ (Cardinality(Before(d)) = Cardinality(Before(n)) => Before(d) = Before(n))
      <3> HIDE DEF Before
      <3> QED
        BY <2>2, FS_Subset
    <2> HIDE DEF Before
    <2> QED
      BY <1>2, <1>4, <2>1, <2>3
  <1> HIDE DEF Before
  <1> QED
    BY <1>2, <1>3, <1>4, <1>7

(* When every name is in a group, none comes before itself: the groups     *)
(* before its own are closed under dependencies.                           *)
LEMMA OrderedIsAcyclic ==
    ASSUME OrderInv, DOMAIN remaining = {}, NEW n \in Names
    PROVE  ~Precedes(n, n)
  <1>1. /\ groups \in Seq(SUBSET Names) /\ DOMAIN groups = 1..Len(groups)
        /\ Len(groups) \in Nat
    BY DEF OrderInv, OrderTypes
  <1>2. PICK k \in DOMAIN groups : n \in groups[k]
    BY DEF OrderInv, OrderCorrect, Placed
  <1> DEFINE S == {x \in Names : \E l \in 1..(k - 1) : x \in groups[l]}
  <1>3. \A l \in 1..k : \A x \in groups[l] : Mentions(x) \subseteq S
    <2> SUFFICES ASSUME NEW l \in 1..k, NEW x \in groups[l], NEW y \in Mentions(x)
                 PROVE  y \in S
      OBVIOUS
    <2>1. l \in DOMAIN groups
      BY <1>1, <1>2
    <2>2. PICK j \in 1..(l - 1) : y \in groups[j]
      BY <2>1 DEF OrderInv, OrderCorrect
    <2>3. j \in 1..(k - 1) /\ j \in DOMAIN groups
      BY <1>1, <1>2, <2>1
    <2> QED
      BY <1>1, <2>2, <2>3
  <1>4. Mentions(n) \subseteq S /\ \A x \in S : Mentions(x) \subseteq S
    <2>1. k \in 1..k /\ 1..(k - 1) \subseteq 1..k
      BY <1>1, <1>2
    <2> QED
      BY <1>2, <1>3, <2>1
  <1>5. n \notin S
    <2> SUFFICES ASSUME NEW l \in 1..(k - 1), n \in groups[l] PROVE FALSE
      OBVIOUS
    <2>1. l \in DOMAIN groups /\ l # k
      BY <1>1, <1>2
    <2> QED
      BY <1>2, <2>1 DEF OrderInv, OrderCorrect
  <1> QED
    BY <1>4, <1>5 DEF Precedes

(* For every graph of dependencies, startup_order reports CycleDetected    *)
(* only of one in which a process comes before itself, and completes an    *)
(* order only of one in which none does.                                   *)
THEOREM CycleExactHolds == Spec => []CycleExact
  <1>1. Init => OrderInv /\ Verdict
    BY InitOrder DEF Init, Verdict
  <1>2. OrderInv /\ Verdict /\ [Next]_vars => OrderInv' /\ Verdict'
    BY OrderStep, VerdictStep
  <1>3. OrderInv /\ Verdict => CycleExact
    BY StuckIsCyclic, OrderedIsAcyclic DEF Verdict, CycleExact
  <1> QED
    BY <1>1, <1>2, <1>3, PTL DEF Spec

-----------------------------------------------------------------------------
(* `up`.  Before the first group nothing is begun; what is begun is in a   *)
(* group that is; groups before the current one are settled, and so is the *)
(* current one when `up` goes on; Waits are sent once every Run succeeded. *)
UpTypes ==
    /\ current \in 0..Len(groups)
    /\ run \in [Names -> {"none", "sent", "ok", "error"}]
    /\ wait \in [Names -> {"none", "sent", "match", "timeout", "error", "lost"}]

Idle == pc \in {"order", "proxy"} => current = 0
Begun == \A n \in Names : run[n] # "none" => \E k \in 1..current : n \in groups[k]
Passed(k) == k < current \/ pc \in {"next", "started"}
Earlier == \A k \in 1..current : Passed(k) => \A d \in groups[k] \cap only : Settled(d)
Here ==
    /\ pc \in {"starting", "waiting"} => current > 0
    /\ pc = "starting" => \A n \in Members : run[n] # "none"
    /\ pc = "waiting" => \A n \in Members : run[n] = "ok" /\ (n \in ready => wait[n] # "none")

UpInv == OrderInv /\ UpTypes /\ Idle /\ Begun /\ Earlier /\ Here

(* Until the first group is begun the parts on groups say nothing.         *)
LEMMA NothingBegun ==
    ASSUME UpInv, OrderInv', current = 0, UNCHANGED <<current, run, wait>>,
           pc' \notin {"starting", "waiting"}
    PROVE  UpInv'
  <1>1. current' = 0 /\ run' = run /\ wait' = wait /\ Len(groups') \in Nat
    BY DEF OrderInv, OrderTypes
  <1>2. UpTypes' /\ Idle'
    BY <1>1 DEF UpInv, UpTypes, Idle
  <1>3. Begun'
    BY <1>1 DEF UpInv, Begun
  <1>4. Earlier' /\ Here'
    BY <1>1 DEF Earlier, Here
  <1> QED
    BY <1>2, <1>3, <1>4 DEF UpInv

(* Facts about groups that later steps use: they do not overlap.           *)
LEMMA GroupsApart ==
    ASSUME OrderInv, UpTypes, NEW k \in 1..current, NEW l \in 1..Len(groups), k # l
    PROVE  groups[k] \cap groups[l] = {} /\ groups[k] \subseteq Names
  <1>1. groups \in Seq(SUBSET Names) /\ DOMAIN groups = 1..Len(groups) /\ Len(groups) \in Nat
    BY DEF OrderInv, OrderTypes
  <1>2. k \in DOMAIN groups /\ l \in DOMAIN groups
    BY <1>1 DEF UpTypes
  <1> QED
    BY <1>1, <1>2 DEF OrderInv, OrderCorrect

LEMMA StartGroupStep ==
    ASSUME UpInv, StartGroup, OrderInv'
    PROVE  UpInv'
  <1>1. /\ pc = "next" /\ pc' = "starting" /\ current < Len(groups)
        /\ current' = current + 1 /\ wait' = wait /\ groups' = groups
        /\ ready' = ready /\ only' = only
        /\ run' = [n \in Names |-> IF n \in groups[current + 1] \cap only
                                   THEN "sent" ELSE run[n]]
    BY DEF StartGroup, order
  <1>2. OrderInv /\ UpTypes /\ Begun /\ Earlier
    BY DEF UpInv
  <1>3. current \in Nat /\ Len(groups) \in Nat /\ current + 1 \in 1..Len(groups)
    BY <1>1, <1>2 DEF UpTypes, OrderInv, OrderTypes
  <1>4. UpTypes' /\ Idle'
    BY <1>1, <1>2, <1>3 DEF UpTypes, Idle
  <1>5. Begun'
    <2> SUFFICES ASSUME NEW n \in Names, run'[n] # "none"
                 PROVE  \E k \in 1..(current + 1) : n \in groups[k]
      BY <1>1 DEF Begun
    <2>1. CASE n \in groups[current + 1]
      BY <1>3, <2>1
    <2>2. CASE n \notin groups[current + 1]
      <3>1. run[n] # "none"
        BY <1>1, <2>2
      <3>2. PICK k \in 1..current : n \in groups[k]
        BY <1>2, <3>1 DEF Begun
      <3> QED
        BY <1>3, <3>2
    <2> QED
      BY <2>1, <2>2
  <1>6. Earlier'
    <2> SUFFICES ASSUME NEW k \in 1..(current + 1), k < current + 1,
                        NEW d \in groups[k] \cap only
                 PROVE  Settled(d)'
      BY <1>1 DEF Earlier, Passed
    <2>1. k \in 1..current /\ k # current + 1
      BY <1>3
    <2>2. Settled(d)
      BY <1>1, <1>2, <2>1 DEF Earlier, Passed
    <2>3. d \in Names /\ d \notin groups[current + 1]
      BY <1>2, <1>3, <2>1, GroupsApart
    <2> QED
      BY <1>1, <2>2, <2>3 DEF Settled
  <1>7. Here'
    <2>1. groups[current + 1] \subseteq Names
      BY <1>2, <1>3 DEF OrderInv, OrderTypes
    <2> QED
      BY <1>1, <1>3, <2>1 DEF Here, Members
  <1> QED
    BY <1>4, <1>5, <1>6, <1>7 DEF UpInv

LEMMA RunAnsweredStep ==
    ASSUME UpInv, NEW n \in Names, NEW answer \in {"ok", "error"},
           RunAnswered(n, answer), OrderInv'
    PROVE  UpInv'
  <1>1. /\ run[n] = "sent" /\ run' = [run EXCEPT ![n] = answer]
        /\ pc' = pc /\ current' = current /\ wait' = wait /\ groups' = groups
        /\ ready' = ready /\ only' = only
    BY DEF RunAnswered, order
  <1>2. UpTypes /\ Idle /\ Begun /\ Earlier /\ Here
    BY DEF UpInv
  <1>3. UpTypes' /\ Idle'
    BY <1>1, <1>2 DEF UpTypes, Idle
  <1>4. /\ run'[n] \in {"ok", "error"}
        /\ \A x \in Names : x # n => run'[x] = run[x]
        /\ \A x : run[x] # "sent" => run'[x] = run[x]
    BY <1>1, <1>2 DEF UpTypes
  <1>5. Begun'
    BY <1>1, <1>2, <1>4 DEF Begun
  <1>6. Earlier'
    <2>1. \A d : Settled(d) => Settled(d)'
      BY <1>1, <1>4 DEF Settled
    <2> QED
      BY <1>1, <1>2, <2>1 DEF Earlier, Passed
  <1>7. Here'
    <2>1. Members' = Members
      BY <1>1 DEF Members
    <2>2. pc = "starting" => \A x \in Members : run'[x] # "none"
      BY <1>1, <1>2, <1>4 DEF Here
    <2>3. pc = "waiting" => \A x \in Members : run'[x] = "ok" /\ (x \in ready => wait[x] # "none")
      BY <1>2, <1>4 DEF Here
    <2> QED
      BY <1>1, <1>2, <2>1, <2>2, <2>3 DEF Here
  <1> QED
    BY <1>3, <1>5, <1>6, <1>7 DEF UpInv

LEMMA StartedStep ==
    ASSUME UpInv, Started, OrderInv'
    PROVE  UpInv'
  <1>1. /\ pc = "starting" /\ \A n \in Members : run[n] # "sent"
        /\ current' = current /\ run' = run /\ groups' = groups
        /\ ready' = ready /\ only' = only
        /\ \/ pc' = "failed" /\ wait' = wait
           \/ /\ pc' = "waiting" /\ \A n \in Members : run[n] # "error"
              /\ wait' = [n \in Names |-> IF n \in Members \cap ready
                                          THEN "sent" ELSE wait[n]]
    BY DEF Started, order
  <1>2. OrderInv /\ UpTypes /\ Begun /\ Earlier /\ Here
    BY DEF UpInv
  <1>3. current \in 1..Len(groups) /\ groups[current] \subseteq Names
    BY <1>1, <1>2 DEF Here, UpTypes, OrderInv, OrderTypes
  <1>4. UpTypes' /\ Idle' /\ Begun'
    <2>1. wait' \in [Names -> {"none", "sent", "match", "timeout", "error", "lost"}]
      BY <1>1, <1>2 DEF UpTypes
    <2> QED
      BY <1>1, <1>2, <2>1 DEF UpTypes, Idle, Begun
  <1>5. Earlier'
    <2> SUFFICES ASSUME NEW k \in 1..current, k < current,
                        NEW d \in groups[k] \cap only
                 PROVE  Settled(d)'
      BY <1>1 DEF Earlier, Passed
    <2>1. Settled(d)
      BY <1>2 DEF Earlier, Passed
    <2>2. d \in Names /\ d \notin groups[current]
      BY <1>2, <1>3, GroupsApart
    <2>3. wait'[d] = wait[d]
      BY <1>1, <2>2 DEF Members
    <2> QED
      BY <1>1, <2>1, <2>3 DEF Settled
  <1>6. Here'
    <2>1. Members' = Members /\ Members \subseteq Names
      BY <1>1, <1>3 DEF Members
    <2>2. \A n \in Members : run[n] \in {"none", "sent", "ok", "error"} /\ run[n] # "none"
      BY <1>1, <1>2, <2>1 DEF UpTypes, Here
    <2>3. CASE pc' = "failed"
      BY <2>3 DEF Here
    <2>4. CASE pc' = "waiting"
      BY <1>1, <1>3, <2>1, <2>2, <2>4 DEF Here
    <2> QED
      BY <1>1, <2>3, <2>4
  <1> QED
    BY <1>4, <1>5, <1>6 DEF UpInv

LEMMA AnsweredStep ==
    ASSUME UpInv, NEW n \in Names, NEW answer \in {"match", "timeout", "error", "lost"},
           wait[n] = "sent", wait' = [wait EXCEPT ![n] = answer],
           UNCHANGED <<order, pc, current, ready, only, run>>, OrderInv'
    PROVE  UpInv'
  <1>1. /\ pc' = pc /\ current' = current /\ run' = run /\ groups' = groups
        /\ ready' = ready /\ only' = only
    BY DEF order
  <1>2. UpTypes /\ Idle /\ Begun /\ Earlier /\ Here
    BY DEF UpInv
  <1>3. /\ wait'[n] # "none"
        /\ \A x : wait[x] # "sent" => wait'[x] = wait[x]
        /\ \A x \in Names : x # n => wait'[x] = wait[x]
    BY <1>2 DEF UpTypes
  <1>4. UpTypes' /\ Idle' /\ Begun'
    BY <1>1, <1>2 DEF UpTypes, Idle, Begun
  <1>5. Earlier'
    <2>1. \A d : Settled(d) => Settled(d)'
      BY <1>1, <1>3 DEF Settled
    <2> QED
      BY <1>1, <1>2, <2>1 DEF Earlier, Passed
  <1>6. Here'
    <2>1. Members' = Members
      BY <1>1 DEF Members
    <2>2. \A x : wait[x] # "none" => wait'[x] # "none"
      BY <1>3
    <2> QED
      BY <1>1, <1>2, <2>1, <2>2 DEF Here
  <1> QED
    BY <1>4, <1>5, <1>6 DEF UpInv

LEMMA WaitedStep ==
    ASSUME UpInv, Waited, OrderInv'
    PROVE  UpInv'
  <1>1. /\ pc = "waiting" /\ \A n \in Members : wait[n] # "sent"
        /\ current' = current /\ run' = run /\ wait' = wait /\ groups' = groups
        /\ ready' = ready /\ only' = only
        /\ pc' = "failed" \/ (pc' = "next" /\ \A n \in Members : wait[n] # "error")
    BY DEF Waited, order
  <1>2. OrderInv /\ UpTypes /\ Begun /\ Earlier /\ Here
    BY DEF UpInv
  <1>3. current \in 1..Len(groups) /\ groups[current] \subseteq Names
    BY <1>1, <1>2 DEF Here, UpTypes, OrderInv, OrderTypes
  <1>4. UpTypes' /\ Idle' /\ Begun' /\ Here'
    BY <1>1, <1>2 DEF UpTypes, Idle, Begun, Here
  <1>5. ASSUME pc' = "next", NEW d \in Members PROVE Settled(d)
    <2>1. d \in Names /\ run[d] = "ok" /\ (d \in ready => wait[d] # "none")
      BY <1>1, <1>2, <1>3, <1>5 DEF Here, Members
    <2>2. wait[d] \in {"none", "sent", "match", "timeout", "error", "lost"}
      BY <1>2, <2>1 DEF UpTypes
    <2> QED
      BY <1>1, <1>5, <2>1, <2>2 DEF Settled
  <1>6. Earlier'
    <2>1. \A d : Settled(d)' <=> Settled(d)
      BY <1>1 DEF Settled
    <2>2. ASSUME NEW k \in 1..current, Passed(k)', NEW d \in groups[k] \cap only
          PROVE  Settled(d)
      <3>1. CASE k < current
        BY <1>2, <2>2, <3>1 DEF Earlier, Passed
      <3>2. CASE k = current
        BY <1>1, <1>3, <1>5, <2>2, <3>2 DEF Passed, Members
      <3> QED
        BY <1>3, <3>1, <3>2
    <2> QED
      BY <1>1, <2>1, <2>2 DEF Earlier
  <1> QED
    BY <1>4, <1>6 DEF UpInv

LEMMA AllStartedStep ==
    ASSUME UpInv, AllStarted, OrderInv'
    PROVE  UpInv'
  <1>1. /\ pc = "next" /\ pc' = "started"
        /\ UNCHANGED <<current, run, wait, groups, ready, only>>
    BY DEF AllStarted, order
  <1>2. UpTypes' /\ Idle' /\ Begun' /\ Here'
    BY <1>1 DEF UpInv, UpTypes, Idle, Begun, Here
  <1>3. \A d : Settled(d)' <=> Settled(d)
    BY <1>1 DEF Settled
  <1>4. Earlier'
    BY <1>1, <1>3 DEF UpInv, Earlier, Passed
  <1> QED
    BY <1>2, <1>4 DEF UpInv

(* What changes nothing that UpInv reads preserves it.                     *)
LEMMA QuietStep ==
    ASSUME UpInv, OrderInv', UNCHANGED <<groups, pc, current, ready, only, run, wait>>
    PROVE  UpInv'
  <1>1. UpTypes' /\ Idle' /\ Begun'
    BY DEF UpInv, UpTypes, Idle, Begun
  <1>2. Members' = Members /\ \A d : Settled(d)' <=> Settled(d)
    BY DEF Members, Settled
  <1>3. Earlier' /\ Here'
    BY <1>2 DEF UpInv, Earlier, Here, Passed
  <1> QED
    BY <1>1, <1>3 DEF UpInv

LEMMA UpStep ==
    ASSUME UpInv, [Next]_vars
    PROVE  UpInv'
  <1>0. OrderInv'
    BY OrderStep DEF UpInv
  <1>1. CASE StartupOrder
    <2>1. /\ pc = "order" /\ pc' \notin {"starting", "waiting"}
          /\ UNCHANGED <<current, run, wait>>
      BY <1>1 DEF StartupOrder, UnknownDep, PlaceGroup, CycleDetected, Ordered
    <2> QED
      BY <1>0, <2>1, NothingBegun DEF UpInv, Idle
  <1>2. ASSUME NEW fails \in BOOLEAN, EnableProxy(fails) PROVE UpInv'
    <2>1. /\ pc = "proxy" /\ pc' \notin {"starting", "waiting"}
          /\ UNCHANGED <<current, run, wait>>
      BY <1>2 DEF EnableProxy
    <2> QED
      BY <1>0, <2>1, NothingBegun DEF UpInv, Idle
  <1>3. ASSUME NEW n \in Names, NEW answer \in {"ok", "error"}, RunAnswered(n, answer)
        PROVE  UpInv'
    BY <1>0, <1>3, RunAnsweredStep
  <1>4. ASSUME NEW n \in Names, NEW answer \in {"timeout", "error", "lost"},
               WaitGivesUp(n, answer)
        PROVE  UpInv'
    BY <1>0, <1>4, AnsweredStep DEF WaitGivesUp
  <1>5. ASSUME NEW n \in Names, WaitMatch(n) PROVE UpInv'
    BY <1>0, <1>5, AnsweredStep DEF WaitMatch
  <1>6. ASSUME NEW n \in Names, PrintReady(n) PROVE UpInv'
    BY <1>0, <1>6, QuietStep DEF PrintReady, order
  <1>7. CASE UNCHANGED vars
    BY <1>0, <1>7, QuietStep DEF vars
  <1>8. CASE StartGroup \/ Started \/ Waited \/ AllStarted
    BY <1>0, <1>8, StartGroupStep, StartedStep, WaitedStep, AllStartedStep
  <1> QED
    BY <1>1, <1>2, <1>3, <1>4, <1>5, <1>6, <1>7, <1>8
       DEF Next, Up, Answers, Exited

LEMMA InitUp == Init => UpInv
  <1> SUFFICES ASSUME Init PROVE UpInv
    OBVIOUS
  <1>1. OrderInv
    BY InitOrder
  <1>2. /\ current = 0 /\ pc = "order" /\ groups = <<>>
        /\ run = [n \in Names |-> "none"] /\ wait = [n \in Names |-> "none"]
    BY DEF Init
  <1>3. UpTypes /\ Idle /\ Begun /\ Earlier /\ Here
    BY <1>2 DEF UpTypes, Idle, Begun, Earlier, Here
  <1> QED
    BY <1>1, <1>3 DEF UpInv

(* The names in groups before the k-th have their dependencies among them, *)
(* so all that precedes a member of the k-th is there.                     *)
LEMMA UpInvImpliesDepsFirst == UpInv => DepsFirst
  <1> SUFFICES ASSUME UpInv, NEW n \in Names, run[n] # "none",
                      NEW d \in only, Precedes(d, n)
               PROVE  Settled(d)
    BY DEF DepsFirst
  <1>1. PICK k \in 1..current : n \in groups[k]
    BY DEF UpInv, Begun
  <1>2. /\ groups \in Seq(SUBSET Names) /\ DOMAIN groups = 1..Len(groups)
        /\ Len(groups) \in Nat /\ current \in 0..Len(groups)
    BY DEF UpInv, OrderInv, OrderTypes, UpTypes
  <1>3. \A l \in 1..current : groups[l] \subseteq Names /\
          \A x \in groups[l] : \A y \in Mentions(x) : \E j \in 1..(l - 1) : y \in groups[j]
    <2>1. \A l \in DOMAIN groups : \A x \in groups[l] : \A y \in Mentions(x) :
             \E j \in 1..(l - 1) : y \in groups[j]
      BY DEF UpInv, OrderInv, OrderCorrect
    <2>2. \A l \in 1..current : l \in DOMAIN groups /\ groups[l] \subseteq Names
      BY <1>2
    <2> QED
      BY <2>1, <2>2
  <1> DEFINE S == {x \in Names : \E l \in 1..(k - 1) : x \in groups[l]}
  <1>4. \A l \in 1..k : \A x \in groups[l] : Mentions(x) \subseteq S
    <2> SUFFICES ASSUME NEW l \in 1..k, NEW x \in groups[l], NEW y \in Mentions(x)
                 PROVE  y \in S
      OBVIOUS
    <2>1. l \in 1..current
      BY <1>2
    <2>2. PICK j \in 1..(l - 1) : y \in groups[j]
      BY <1>3, <2>1
    <2>3. j \in 1..(k - 1) /\ j \in 1..current
      BY <1>2, <2>1
    <2> QED
      BY <1>3, <2>2, <2>3
  <1>5. Mentions(n) \subseteq S
    BY <1>1, <1>4
  <1>6. \A x \in S : Mentions(x) \subseteq S
    <2> SUFFICES ASSUME NEW x \in S PROVE Mentions(x) \subseteq S
      OBVIOUS
    <2>1. PICK l \in 1..(k - 1) : x \in groups[l]
      OBVIOUS
    <2>2. l \in 1..k
      BY <1>2
    <2> QED
      BY <1>4, <2>1, <2>2
  <1>7. d \in S
    BY <1>5, <1>6 DEF Precedes
  <1>8. PICK l \in 1..(k - 1) : d \in groups[l]
    BY <1>7
  <1>9. l \in 1..current /\ l < current
    BY <1>2
  <1> QED
    BY <1>8, <1>9 DEF UpInv, Earlier, Passed

(* For every graph, every --only and every answer of the daemon: `up`      *)
(* starts no process before each one it depends on, directly or through    *)
(* others, was started and waited for.                                     *)
THEOREM DepsFirstHolds == Spec => []DepsFirst
  <1>1. Init => UpInv
    BY InitUp
  <1>2. UpInv /\ [Next]_vars => UpInv'
    BY UpStep
  <1>3. UpInv => DepsFirst
    BY UpInvImpliesDepsFirst
  <1> QED
    BY <1>1, <1>2, <1>3, PTL DEF Spec
=============================================================================
