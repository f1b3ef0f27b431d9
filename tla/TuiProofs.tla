----------------------------- MODULE TuiProofs ------------------------------
(***************************************************************************)
(* Theorems about Tui, for every size of the buffer, of the window and of  *)
(* the preload, every number of lines and every user.                      *)
(***************************************************************************)
EXTENDS Tui, TLAPS, FiniteSetTheorems, FunctionTheorems, SequenceTheorems

-----------------------------------------------------------------------------
(* The operators the model is built from.                                  *)

Least(a, b) == IF a <= b THEN a ELSE b

LEMMA MinOfTwo ==
    ASSUME NEW a \in Int, NEW b \in Int
    PROVE  Min({a, b}) = Least(a, b)
  BY DEF Min, Least

LEMMA MaxOfTwo ==
    ASSUME NEW a \in Int, NEW b \in Int
    PROVE  Max({a, b}) = IF a >= b THEN a ELSE b
  BY DEF Max

LEMMA SubIs ==
    ASSUME NEW a \in Nat, NEW b \in Nat
    PROVE  /\ Sub(a, b) \in Nat /\ Sub(a, b) <= a
           /\ a >= b => Sub(a, b) = a - b
           /\ a <= b => Sub(a, b) = 0
  BY DEF Sub

(* How many members of S are below x: InOrder puts x after that many.      *)
Below(S, x) == {y \in S : y < x}
Rank(S) == [x \in S |-> Cardinality(Below(S, x))]

LEMMA RankGrows ==
    ASSUME NEW S \in SUBSET Nat, IsFiniteSet(S), NEW x \in S, NEW z \in S, x < z
    PROVE  Rank(S)[x] < Rank(S)[z]
  <1>1. Below(S, x) \in SUBSET Below(S, z) /\ x \in Below(S, z) /\ x \notin Below(S, x)
    <2>1. x \in Nat /\ z \in Nat /\ ~(x < x)
      OBVIOUS
    <2>2. \A y \in S : y < x => y < z
      BY <2>1
    <2> QED
      BY <2>1, <2>2 DEF Below
  <1>2. IsFiniteSet(Below(S, z)) /\ IsFiniteSet(Below(S, x))
    BY FS_Subset DEF Below
  <1>3. Cardinality(Below(S, x)) \in Nat /\ Cardinality(Below(S, z)) \in Nat
    BY <1>2, FS_CardinalityType
  <1>4. Cardinality(Below(S, x)) <= Cardinality(Below(S, z))
        /\ Cardinality(Below(S, x)) # Cardinality(Below(S, z))
    BY <1>1, <1>2, FS_Subset
  <1> QED
    BY <1>3, <1>4 DEF Rank

LEMMA RankType ==
    ASSUME NEW S \in SUBSET Nat, IsFiniteSet(S), NEW x \in S
    PROVE  /\ Cardinality(S) \in Nat
           /\ Rank(S)[x] \in 0..(Cardinality(S) - 1) /\ Rank(S)[x] \in Nat
  <1>1. Below(S, x) \in SUBSET S /\ x \notin Below(S, x)
    BY DEF Below
  <1>2. Cardinality(Below(S, x)) \in Nat /\ Cardinality(S) \in Nat
    BY <1>1, FS_Subset, FS_CardinalityType
  <1>3. Cardinality(Below(S, x)) <= Cardinality(S) /\ Cardinality(Below(S, x)) # Cardinality(S)
    BY <1>1, FS_Subset
  <1> QED
    BY <1>2, <1>3 DEF Rank

LEMMA RankUnique ==
    ASSUME NEW S \in SUBSET Nat, IsFiniteSet(S), NEW x \in S, NEW z \in S,
           Rank(S)[x] = Rank(S)[z]
    PROVE  x = z
  <1>1. Rank(S)[x] \in Nat /\ Rank(S)[z] \in Nat
    BY RankType
  <1>2. ASSUME x < z PROVE FALSE
    <2>1. Rank(S)[x] < Rank(S)[z]
      BY <1>2, RankGrows
    <2> QED
      BY <1>1, <2>1
  <1>3. ASSUME z < x PROVE FALSE
    <2>1. Rank(S)[z] < Rank(S)[x]
      BY <1>3, RankGrows
    <2> QED
      BY <1>1, <2>1
  <1>4. x \in Nat /\ z \in Nat
    OBVIOUS
  <1> QED
    BY <1>2, <1>3, <1>4

(* Every number below the cardinality of S is the rank of one member.      *)
LEMMA RankOnto ==
    ASSUME NEW S \in SUBSET Nat, IsFiniteSet(S), NEW i \in 1..Cardinality(S)
    PROVE  \E x \in S : Rank(S)[x] = i - 1
  <1>1. Cardinality(S) \in Nat
    BY FS_CardinalityType
  <1>2. PICK n \in Nat : n = Cardinality(S)
    BY <1>1
  <1>3. Rank(S) \in [S -> 0..(n - 1)]
    <2>1. \A x \in S : Rank(S)[x] \in 0..(n - 1)
      BY <1>2, RankType
    <2> QED
      BY <2>1 DEF Rank
  <1>4. \A x, z \in S : Rank(S)[x] = Rank(S)[z] => x = z
    BY RankUnique
  <1>5. Rank(S) \in Injection(S, 0..(n - 1))
    BY <1>3, <1>4 DEF Injection, IsInjective
  <1>6. IsFiniteSet(0..(n - 1)) /\ Cardinality(0..(n - 1)) = n
    BY FS_Interval
  <1>7. Rank(S) \in Surjection(S, 0..(n - 1))
    BY <1>2, <1>5, <1>6, FS_Injection
  <1>8. i - 1 \in 0..(n - 1)
    BY <1>2
  <1> QED
    BY <1>7, <1>8 DEF Surjection

(* InOrder lists the members of a finite set once each, ascending.         *)
LEMMA InOrderAt ==
    ASSUME NEW S \in SUBSET Nat, IsFiniteSet(S), NEW i \in 1..Cardinality(S)
    PROVE  InOrder(S)[i] \in S /\ Rank(S)[InOrder(S)[i]] = i - 1
  <1>1. \E x \in S : Cardinality({y \in S : y < x}) = i - 1
    BY RankOnto DEF Rank, Below
  <1>2. InOrder(S)[i] = CHOOSE x \in S : Cardinality({y \in S : y < x}) = i - 1
    BY DEF InOrder
  <1> QED
    BY <1>1, <1>2 DEF Rank, Below

LEMMA InOrderAscends ==
    ASSUME NEW S \in SUBSET Nat, IsFiniteSet(S),
           NEW i \in 1..Cardinality(S), NEW j \in 1..Cardinality(S), i < j
    PROVE  InOrder(S)[i] < InOrder(S)[j]
  <1>1. PICK x \in S : x = InOrder(S)[i] /\ Rank(S)[x] = i - 1
    BY InOrderAt
  <1>2. PICK z \in S : z = InOrder(S)[j] /\ Rank(S)[z] = j - 1
    BY InOrderAt
  <1>3. i \in Nat /\ j \in Nat /\ x \in Nat /\ z \in Nat
    BY FS_CardinalityType
  <1>4. x # z
    BY <1>1, <1>2, <1>3
  <1>5. ASSUME z < x PROVE FALSE
    <2>1. Rank(S)[z] < Rank(S)[x]
      BY <1>5, RankGrows
    <2> QED
      BY <1>1, <1>2, <1>3, <2>1
  <1>6. x < z
    BY <1>3, <1>4, <1>5
  <1> QED
    BY <1>1, <1>2, <1>6

LEMMA InOrderAll ==
    ASSUME NEW S \in SUBSET Nat, IsFiniteSet(S)
    PROVE  /\ Cardinality(S) \in Nat
           /\ InOrder(S) \in Seq(S) /\ Len(InOrder(S)) = Cardinality(S)
           /\ DOMAIN InOrder(S) = 1..Cardinality(S)
           /\ ToSet(InOrder(S)) = S
  <1>1. PICK n \in Nat : n = Cardinality(S)
    BY FS_CardinalityType
  <1>2. \A i \in 1..n : InOrder(S)[i] \in S
    BY <1>1, InOrderAt
  <1>3. DOMAIN InOrder(S) = 1..n /\ InOrder(S) = [i \in 1..n |-> InOrder(S)[i]]
    BY <1>1 DEF InOrder
  <1>4. InOrder(S) \in Seq(S) /\ Len(InOrder(S)) = n
    BY <1>2, <1>3
  <1>5. ASSUME NEW x \in S PROVE \E i \in 1..n : InOrder(S)[i] = x
    <2>1. Rank(S)[x] \in 0..(n - 1)
      BY <1>1, RankType
    <2>2. PICK i \in 1..n : i - 1 = Rank(S)[x]
      <3>1. Rank(S)[x] + 1 \in 1..n /\ (Rank(S)[x] + 1) - 1 = Rank(S)[x]
        BY <2>1
      <3> QED
        BY <3>1
    <2>3. PICK z \in S : z = InOrder(S)[i] /\ Rank(S)[z] = i - 1
      BY <1>1, InOrderAt
    <2>4. z = x
      BY <2>2, <2>3, RankUnique
    <2> QED
      BY <2>3, <2>4
  <1>6. ToSet(InOrder(S)) = S
    BY <1>2, <1>3, <1>5 DEF ToSet
  <1> QED
    BY <1>1, <1>3, <1>4, <1>6

(* Members that come after all of S do not move those of S.                *)
LEMMA InOrderExtends ==
    ASSUME NEW T \in SUBSET Nat, IsFiniteSet(T), NEW S \in SUBSET T,
           \A x \in S, y \in T \ S : x < y
    PROVE  /\ IsFiniteSet(S) /\ Cardinality(S) <= Cardinality(T)
           /\ \A i \in 1..Cardinality(S) : InOrder(T)[i] = InOrder(S)[i]
  <1>1. IsFiniteSet(S) /\ Cardinality(S) <= Cardinality(T) /\ S \in SUBSET Nat
    BY FS_Subset
  <1>2. Cardinality(S) \in Nat /\ Cardinality(T) \in Nat
    BY <1>1, FS_CardinalityType
  <1>3. ASSUME NEW i \in 1..Cardinality(S) PROVE InOrder(T)[i] = InOrder(S)[i]
    <2>1. PICK x \in S : x = InOrder(S)[i] /\ Rank(S)[x] = i - 1
      BY <1>1, InOrderAt
    <2>2. i \in 1..Cardinality(T)
      BY <1>1, <1>2
    <2>3. PICK z \in T : z = InOrder(T)[i] /\ Rank(T)[z] = i - 1
      BY <2>2, InOrderAt
    <2>4. Below(T, x) = Below(S, x)
      <3>1. \A y \in T : y < x => y \in S
        <4> SUFFICES ASSUME NEW y \in T, y < x, y \notin S PROVE FALSE
          OBVIOUS
        <4>1. x < y /\ x \in Nat /\ y \in Nat
          OBVIOUS
        <4> QED
          BY <4>1
      <3> QED
        BY <3>1 DEF Below
    <2>5. x \in T /\ Rank(T)[x] = Rank(T)[z]
      BY <2>1, <2>3, <2>4 DEF Rank
    <2>6. x = z
      BY <2>5, RankUnique
    <2> QED
      BY <2>1, <2>3, <2>6
  <1> QED
    BY <1>1, <1>3

-----------------------------------------------------------------------------
(* Types.                                                                  *)
Line == [n : Nat, src : Streams, hit : BOOLEAN]

Apps ==
    [procs : Seq({"p", "q"}), selected : Nat, hot : Seq(Line), reader : BOOLEAN,
     mode : Modes, paused : BOOLEAN, offset : Nat,
     typing : BOOLEAN, filter : BOOLEAN, running : BOOLEAN]

Indexes == [mode : Modes, lines : Seq(Nat), scanned : Nat] \cup {NoIndex}

Types ==
    /\ disk \in [Streams -> Seq(Line)] /\ late \in [Streams -> Seq(Line)]
    /\ printed \in Nat /\ inbox \in Seq(Line)
    /\ app \in Apps /\ index \in Indexes

LEMMA ToSetFinite ==
    ASSUME NEW X, NEW q \in Seq(X)
    PROVE  /\ IsFiniteSet(ToSet(q)) /\ ToSet(q) \in SUBSET X
           /\ DOMAIN q = 1..Len(q) /\ Len(q) \in Nat
  <1>1. DOMAIN q = 1..Len(q) /\ Len(q) \in Nat /\ q \in [1..Len(q) -> X]
    OBVIOUS
  <1>2. q \in Surjection(1..Len(q), ToSet(q))
    BY <1>1 DEF Surjection, ToSet
  <1>3. IsFiniteSet(1..Len(q))
    BY <1>1, FS_Interval
  <1>4. IsFiniteSet(ToSet(q))
    BY <1>2, <1>3, FS_Surjection
  <1> QED
    BY <1>1, <1>4 DEF ToSet

Numbers(S) == {l.n : l \in S}

LEMMA NumbersFinite ==
    ASSUME NEW S \in SUBSET Line, IsFiniteSet(S)
    PROVE  Numbers(S) \in SUBSET Nat /\ IsFiniteSet(Numbers(S))
  <1>1. Numbers(S) \in SUBSET Nat
    BY DEF Numbers, Line
  <1>2. [l \in S |-> l.n] \in Surjection(S, Numbers(S))
    BY DEF Surjection, Numbers
  <1> QED
    BY <1>1, <1>2, FS_Surjection

(* ByNumber lists lines of a set, by their numbers.                        *)
LEMMA ByNumberSeq ==
    ASSUME NEW S \in SUBSET Line, IsFiniteSet(S)
    PROVE  /\ ByNumber(S) \in Seq(S) /\ Len(ByNumber(S)) = Cardinality(Numbers(S))
           /\ Cardinality(Numbers(S)) \in Nat
           /\ \A i \in 1..Cardinality(Numbers(S)) :
                /\ ByNumber(S)[i] \in S
                /\ ByNumber(S)[i].n = InOrder(Numbers(S))[i]
                /\ ByNumber(S)[i] = CHOOSE l \in S : l.n = InOrder(Numbers(S))[i]
  <1>1. Numbers(S) \in SUBSET Nat /\ IsFiniteSet(Numbers(S))
    BY NumbersFinite
  <1>2. PICK n \in Nat : n = Cardinality(Numbers(S))
    BY <1>1, FS_CardinalityType
  <1>3. DOMAIN InOrder(Numbers(S)) = 1..n
    BY <1>1, <1>2, InOrderAll
  <1>4. ByNumber(S) = [i \in 1..n |-> CHOOSE l \in S : l.n = InOrder(Numbers(S))[i]]
    BY <1>3 DEF ByNumber, Numbers
  <1>5. ASSUME NEW i \in 1..n
        PROVE  /\ ByNumber(S)[i] \in S
               /\ ByNumber(S)[i].n = InOrder(Numbers(S))[i]
               /\ ByNumber(S)[i] = CHOOSE l \in S : l.n = InOrder(Numbers(S))[i]
    <2>1. InOrder(Numbers(S))[i] \in Numbers(S)
      BY <1>1, <1>2, InOrderAt
    <2>2. \E l \in S : l.n = InOrder(Numbers(S))[i]
      BY <2>1 DEF Numbers
    <2> QED
      BY <1>4, <2>2
  <1>6. ByNumber(S) \in Seq(S) /\ Len(ByNumber(S)) = n
    BY <1>4, <1>5
  <1> QED
    BY <1>2, <1>5, <1>6

LEMMA DiskSeq ==
    ASSUME Types, NEW mode \in Modes
    PROVE  DiskLines(mode) \in Seq(Line) /\ Len(DiskLines(mode)) \in Nat
  <1>1. disk["out"] \in Seq(Line) /\ disk["err"] \in Seq(Line)
    BY DEF Types, Streams
  <1>2. CASE ~app.reader
    <2>1. DiskLines(mode) = <<>>
      BY <1>2 DEF DiskLines
    <2> QED
      BY <2>1
  <1>3. CASE app.reader /\ mode = "both"
    <2>1. PICK S : S = ToSet(disk["out"]) \cup ToSet(disk["err"])
      OBVIOUS
    <2>2. S \in SUBSET Line /\ IsFiniteSet(S)
      BY <1>1, <2>1, ToSetFinite, FS_Union
    <2>3. ByNumber(S) \in Seq(S)
      BY <2>2, ByNumberSeq
    <2>4. DiskLines(mode) = ByNumber(S)
      BY <1>3, <2>1 DEF DiskLines
    <2>5. ByNumber(S) \in Seq(Line)
      BY <2>2, <2>3
    <2> QED
      BY <2>4, <2>5
  <1>4. CASE app.reader /\ mode # "both"
    <2>1. DiskLines(mode) = disk[mode] /\ mode \in Streams
      BY <1>4 DEF DiskLines, Modes
    <2> QED
      BY <2>1 DEF Types
  <1> QED
    BY <1>2, <1>3, <1>4

LEMMA HotSeq ==
    ASSUME Types, NEW mode
    PROVE  HotLines(mode) \in Seq(Line) /\ Len(HotLines(mode)) \in Nat
  <1>1. app.hot \in Seq(Line)
    BY DEF Types, Apps
  <1>2. DOMAIN app.hot = 1..Len(app.hot) /\ Len(app.hot) \in Nat
    BY <1>1
  <1>3. PICK S : S = {i \in DOMAIN app.hot : InMode(app.hot[i], mode)}
    OBVIOUS
  <1>4. S \in SUBSET DOMAIN app.hot /\ S \in SUBSET Nat
    BY <1>2, <1>3
  <1>5. IsFiniteSet(S)
    <2>1. PICK k \in Nat : k = Len(app.hot)
      BY <1>2
    <2>2. IsFiniteSet(1..k)
      BY FS_Interval
    <2>3. IsFiniteSet(DOMAIN app.hot)
      BY <1>2, <2>1, <2>2
    <2> QED
      BY <1>4, <2>3, FS_Subset
  <1>6. PICK at : at = InOrder(S)
    OBVIOUS
  <1>7. /\ Len(at) \in Nat /\ DOMAIN at = 1..Len(at)
        /\ \A j \in 1..Len(at) : at[j] \in DOMAIN app.hot
    <2>1. at \in Seq(S)
      BY <1>4, <1>5, <1>6, InOrderAll
    <2> QED
      BY <1>4, <2>1
  <1>8. HotLines(mode) = [j \in 1..Len(at) |-> app.hot[at[j]]]
    BY <1>3, <1>6, <1>7 DEF HotLines
  <1>9. \A j \in 1..Len(at) : app.hot[at[j]] \in Line
    BY <1>1, <1>7
  <1> QED
    BY <1>7, <1>8, <1>9

-----------------------------------------------------------------------------
(* The window.  A stretch of a sequence, element by element.               *)
LEMMA Stretch ==
    ASSUME NEW X, NEW s \in Seq(X), NEW a \in Nat, NEW e \in Nat, a <= e, e <= Len(s)
    PROVE  /\ SubSeq(s, a + 1, e) \in Seq(X) /\ Len(SubSeq(s, a + 1, e)) = e - a
           /\ \A i \in 1..(e - a) : SubSeq(s, a + 1, e)[i] = s[a + i]
  OBVIOUS

(* t ends with s.                                                          *)
Continues(s, t) ==
    /\ Len(s) <= Len(t)
    /\ \A j \in 1..Len(s) : s[j] = t[Len(t) - Len(s) + j]

(* What visible_lines puts together, cut at b.                             *)
Joined(log, hot, start, end, b) ==
    SubSeq(log, start + 1, Least(end, b)) \o
      SubSeq(hot, Sub(start, b) + 1, Least(Sub(end, b), Len(hot)))

Cut(log, hot, start, end, b) ==
    /\ log \in Seq(Line) /\ hot \in Seq(Line) /\ Continues(hot, log)
    /\ start \in Nat /\ end \in Nat /\ start <= end /\ end <= Len(log)
    /\ b \in Nat /\ Len(log) = b + Len(hot)

(* The lines of the log before the buffer, then the buffer:                *)
(* cut at any two places, the parts of the two are that stretch of the log.*)
LEMMA Seam ==
    ASSUME NEW log, NEW hot, NEW start, NEW end, NEW b, Cut(log, hot, start, end, b)
    PROVE  Joined(log, hot, start, end, b) = SubSeq(log, start + 1, end)
  <1> SUFFICES ASSUME NEW p, p = IF end <= b THEN end ELSE b,
                      NEW q, q = IF Sub(end, b) <= Len(hot) THEN Sub(end, b) ELSE Len(hot)
               PROVE  SubSeq(log, start + 1, p) \o SubSeq(hot, Sub(start, b) + 1, q)
                      = SubSeq(log, start + 1, end)
    BY DEF Joined, Least
  <1> /\ log \in Seq(Line) /\ hot \in Seq(Line) /\ Continues(hot, log)
      /\ start \in Nat /\ end \in Nat /\ start <= end /\ end <= Len(log)
      /\ b \in Nat /\ Len(log) = b + Len(hot)
    BY DEF Cut
  <1>1. Len(log) \in Nat /\ Len(hot) \in Nat /\ Len(hot) <= Len(log) /\ b \in Nat
    BY DEF Continues
  <1> DEFINE Fits == \A j \in 1..Len(hot) : hot[j] = log[b + j]
  <1>0. Fits
    BY DEF Continues
  <1> HIDE DEF Fits
  <1>2. CASE end <= b
    <2>1. Sub(end, b) = 0 /\ Sub(start, b) + 1 = 1
      BY <1>1, <1>2 DEF Sub
    <2>2. SubSeq(hot, 1, 0) = <<>>
      OBVIOUS
    <2>3. SubSeq(log, start + 1, end) \in Seq(Line)
      BY <1>1
    <2>4. SubSeq(log, start + 1, end) \o <<>> = SubSeq(log, start + 1, end)
      BY <2>3
    <2> QED
      BY <1>1, <1>2, <2>1, <2>2, <2>4
  <1>3. CASE b < end
    <2>1. Sub(end, b) = end - b /\ end - b <= Len(hot) /\ ~(end <= b)
      BY <1>1, <1>3 DEF Sub
    <2>2. CASE b <= start
      <3>1. Sub(start, b) = start - b
        BY <1>1, <2>2, SubIs
      <3>2. SubSeq(log, start + 1, b) = <<>>
        BY <1>1, <2>2
      <3>3. SubSeq(hot, start - b + 1, end - b) = SubSeq(log, start + 1, end)
        <4>1. PICK u : u = SubSeq(hot, start - b + 1, end - b)
          OBVIOUS
        <4>2. PICK v : v = SubSeq(log, start + 1, end)
          OBVIOUS
        <4>3. /\ u \in Seq(Line) /\ Len(u) = end - start
              /\ \A i \in 1..(end - start) : u[i] = hot[start - b + i]
          BY <1>1, <1>3, <2>1, <2>2, <4>1
        <4>4. /\ v \in Seq(Line) /\ Len(v) = end - start
              /\ \A i \in 1..(end - start) : v[i] = log[start + i]
          BY <4>2, Stretch
        <4>5. \A i \in 1..(end - start) : hot[start - b + i] = log[start + i]
          <5> SUFFICES ASSUME NEW i \in 1..(end - start)
                       PROVE  hot[start - b + i] = log[start + i]
            OBVIOUS
          <5>1. start - b + i \in 1..Len(hot) /\ b + (start - b + i) = start + i
            BY <1>1, <2>2
          <5> QED
            BY <1>0, <5>1 DEF Fits
        <4>6. u = v
          <5>1. \A i \in 1..Len(u) : u[i] = v[i]
            BY <4>3, <4>4, <4>5
          <5> QED
            BY <4>3, <4>4, <5>1, SeqEqual
        <4> QED
          BY <4>1, <4>2, <4>6
      <3>4. SubSeq(log, start + 1, end) \in Seq(Line)
        BY <1>1
      <3>5. <<>> \o SubSeq(log, start + 1, end) = SubSeq(log, start + 1, end)
        BY <3>4
      <3> QED
        BY <2>1, <3>1, <3>2, <3>3, <3>5
    <2>3. CASE start < b
      <3>1. Sub(start, b) + 1 = 1
        BY <1>1, <2>3 DEF Sub
      <3>2. PICK u : u = SubSeq(log, start + 1, b)
        OBVIOUS
      <3>3. PICK v : v = SubSeq(hot, 1, end - b)
        OBVIOUS
      <3>4. PICK w : w = SubSeq(log, start + 1, end)
        OBVIOUS
      <3>5. /\ u \in Seq(Line) /\ Len(u) = b - start
            /\ \A i \in 1..(b - start) : u[i] = log[start + i]
        <4>1. start <= b /\ b <= Len(log)
          BY <1>1, <2>3
        <4> QED
          BY ONLY <1>1, <3>2, <4>1, Stretch, start \in Nat, log \in Seq(Line)
      <3>6. /\ v \in Seq(Line) /\ Len(v) = end - b
            /\ \A i \in 1..(end - b) : v[i] = hot[i]
        BY <1>1, <1>3, <2>1, <3>3
      <3>7. /\ w \in Seq(Line) /\ Len(w) = end - start
            /\ \A i \in 1..(end - start) : w[i] = log[start + i]
        BY <3>4, Stretch
      <3>8. u \o v = w
        <4>1. /\ u \o v \in Seq(Line) /\ Len(u \o v) = end - start
              /\ \A i \in 1..(end - start) :
                   (u \o v)[i] = IF i <= b - start THEN u[i] ELSE v[i - (b - start)]
          <5>1. Len(u) + Len(v) = end - start
            BY <1>1, <1>3, <2>3, <3>5, <3>6
          <5>2. /\ u \o v \in Seq(Line) /\ Len(u \o v) = Len(u) + Len(v)
                /\ \A i \in 1..(Len(u) + Len(v)) :
                     (u \o v)[i] = IF i <= Len(u) THEN u[i] ELSE v[i - Len(u)]
            <6>1. u \in Seq(Line) /\ v \in Seq(Line)
              BY <3>5, <3>6
            <6> QED
              BY ONLY <6>1, ConcatProperties
          <5> QED
            BY <3>5, <5>1, <5>2
        <4>2. ASSUME NEW i \in 1..(end - start) PROVE (u \o v)[i] = w[i]
          <5>1. CASE i <= b - start
            BY <1>1, <2>3, <3>5, <3>7, <4>1, <5>1
          <5>2. CASE ~(i <= b - start)
            <6>1. i - (b - start) \in 1..(end - b) /\ i - (b - start) \in 1..Len(hot)
                  /\ b + (i - (b - start)) = start + i
              BY <1>1, <1>3, <2>3, <5>2
            <6>2. (u \o v)[i] = hot[i - (b - start)]
              BY <3>6, <4>1, <5>2, <6>1
            <6>3. hot[i - (b - start)] = log[start + i]
              BY <1>0, <6>1 DEF Fits
            <6> QED
              BY <3>7, <6>2, <6>3
          <5> QED
            BY <5>1, <5>2
        <4> QED
          BY <3>7, <4>1, <4>2, SeqEqual
      <3> QED
        BY <2>1, <3>1, <3>2, <3>3, <3>4, <3>8
    <2>4. b <= start \/ start < b
      BY <1>1
    <2> QED
      BY <2>2, <2>3, <2>4
  <1>4. end <= b \/ b < end
    BY <1>1
  <1> QED
    BY <1>2, <1>3, <1>4

(* The log is a sequence, at least as long as what is counted of it.       *)
LEMMA LogSeq ==
    ASSUME Types, NEW mode \in Modes
    PROVE  /\ Log(mode) \in Seq(Line) /\ Len(Log(mode)) \in Nat
           /\ Len(DiskLines(mode)) <= Len(Log(mode))
  <1>1. \A s \in Streams : /\ disk[s] \in Seq(Line) /\ late[s] \in Seq(Line)
                           /\ disk[s] \o late[s] \in Seq(Line)
    BY ConcatProperties DEF Types
  <1>3. \A s \in Streams : ToSet(disk[s]) \subseteq ToSet(disk[s] \o late[s])
    <2> SUFFICES ASSUME NEW s \in Streams, NEW i \in DOMAIN disk[s]
                 PROVE  disk[s][i] \in ToSet(disk[s] \o late[s])
      BY DEF ToSet
    <2>1. PICK u \in Seq(Line) : u = disk[s]
      BY <1>1
    <2>2. PICK v \in Seq(Line) : v = late[s]
      BY <1>1
    <2>3. i \in 1..Len(u) /\ Len(u) \in Nat /\ Len(v) \in Nat
      BY <2>1
    <2>4. i \in 1..Len(u \o v) /\ (u \o v)[i] = u[i] /\ u \o v \in Seq(Line)
      BY <2>3, ConcatProperties
    <2>5. i \in DOMAIN (u \o v)
      BY <2>4
    <2> QED
      BY <2>1, <2>2, <2>4, <2>5 DEF ToSet
  <1>4. DiskLines(mode) \in Seq(Line) /\ Len(DiskLines(mode)) \in Nat
    BY DiskSeq
  <1>5. CASE mode = "both"
    <2>1. PICK S : S = ToSet(disk["out"]) \cup ToSet(disk["err"])
      OBVIOUS
    <2>2. PICK T : T = ToSet(disk["out"] \o late["out"]) \cup ToSet(disk["err"] \o late["err"])
      OBVIOUS
    <2>3. "out" \in Streams /\ "err" \in Streams
      BY DEF Streams
    <2>4. T \in SUBSET Line /\ IsFiniteSet(T) /\ S \in SUBSET T
      BY <1>1, <1>3, <2>1, <2>2, <2>3, ToSetFinite, FS_Union
    <2>5. Log(mode) = ByNumber(T)
      BY <1>5, <2>2 DEF Log
    <2>6. /\ ByNumber(T) \in Seq(T) /\ Len(ByNumber(T)) = Cardinality(Numbers(T))
          /\ Cardinality(Numbers(T)) \in Nat
      BY <2>4, ByNumberSeq
    <2>7. ByNumber(T) \in Seq(Line)
      BY <2>4, <2>6
    <2>8. S \in SUBSET Line /\ IsFiniteSet(S)
      BY <2>4, FS_Subset
    <2>9. Len(ByNumber(S)) = Cardinality(Numbers(S))
      BY <2>8, ByNumberSeq
    <2>10. Cardinality(Numbers(S)) <= Cardinality(Numbers(T))
      <3>1. Numbers(S) \in SUBSET Numbers(T)
        BY <2>4 DEF Numbers
      <3> QED
        BY <2>4, <3>1, NumbersFinite, FS_Subset
    <2>11. DiskLines(mode) = IF app.reader THEN ByNumber(S) ELSE <<>>
      BY <1>5, <2>1 DEF DiskLines
    <2>12. Len(DiskLines(mode)) <= Len(Log(mode))
      BY <2>5, <2>6, <2>9, <2>10, <2>11
    <2> QED
      BY <2>5, <2>6, <2>7, <2>12
  <1>6. CASE mode # "both"
    <2>1. mode \in Streams
      BY <1>6 DEF Modes
    <2>2. PICK u \in Seq(Line) : u = disk[mode]
      BY <1>1, <2>1
    <2>3. PICK v \in Seq(Line) : v = late[mode]
      BY <1>1, <2>1
    <2>4. Log(mode) = u \o v
      BY <1>6, <2>2, <2>3 DEF Log
    <2>5. u \o v \in Seq(Line) /\ Len(u \o v) = Len(u) + Len(v)
      BY ConcatProperties
    <2>6. DiskLines(mode) = IF app.reader THEN u ELSE <<>>
      BY <1>6, <2>2 DEF DiskLines
    <2>7. Len(u) \in Nat /\ Len(v) \in Nat
      OBVIOUS
    <2>8. Len(DiskLines(mode)) <= Len(u) + Len(v)
      BY <2>6, <2>7
    <2> QED
      BY <2>4, <2>5, <2>7, <2>8
  <1> QED
    BY <1>5, <1>6

(* A suffix, element by element.                                           *)
LEMMA SuffixIs ==
    ASSUME NEW X, NEW s \in Seq(X), NEW t \in Seq(X), IsSuffix(s, t)
    PROVE  Continues(s, t)
  <1>1. PICK m \in Nat : m = Len(s)
    OBVIOUS
  <1>2. PICK n \in Nat : n = Len(t)
    OBVIOUS
  <1>3. PICK u : u = [i \in 1..m |-> s[m - i + 1]]
    OBVIOUS
  <1>4. PICK v : v = [i \in 1..n |-> t[n - i + 1]]
    OBVIOUS
  <1>5. u = Reverse(s) /\ v = Reverse(t)
    BY <1>1, <1>2, <1>3, <1>4 DEF Reverse
  <1>6. \A i \in 1..m : s[m - i + 1] \in X
    <2> TAKE i \in 1..m
    <2>1. m - i + 1 \in 1..m
      OBVIOUS
    <2> QED
      BY <1>1, <2>1, ElementOfSeq
  <1>7. \A i \in 1..n : t[n - i + 1] \in X
    <2> TAKE i \in 1..n
    <2>1. n - i + 1 \in 1..n
      OBVIOUS
    <2> QED
      BY <1>2, <2>1, ElementOfSeq
  <1>8. u \in Seq(X) /\ Len(u) = m /\ v \in Seq(X) /\ Len(v) = n
    BY <1>3, <1>4, <1>6, <1>7
  <1>9. m <= n /\ SubSeq(u, 1, m) = SubSeq(v, 1, m)
    BY <1>5, <1>8 DEF IsSuffix, IsPrefix
  <1>10. \A i \in 1..m : u[i] = v[i]
    <2>1. \A i \in 1..m : SubSeq(u, 1, m)[i] = u[i]
      BY <1>8
    <2>2. \A i \in 1..m : SubSeq(v, 1, m)[i] = v[i]
      BY <1>8, <1>9
    <2> QED
      BY <1>9, <2>1, <2>2
  <1>11. ASSUME NEW j \in 1..m PROVE s[j] = t[n - m + j]
    <2>1. m - j + 1 \in 1..m /\ m - j + 1 \in 1..n
      BY <1>9
    <2>2. u[m - j + 1] = s[m - (m - j + 1) + 1]
      BY <1>3, <2>1
    <2>3. v[m - j + 1] = t[n - (m - j + 1) + 1]
      BY <1>4, <2>1
    <2>4. m - (m - j + 1) + 1 = j /\ n - (m - j + 1) + 1 = n - m + j
      OBVIOUS
    <2> QED
      BY <1>10, <2>1, <2>2, <2>3, <2>4
  <1> QED
    BY <1>1, <1>2, <1>9, <1>11 DEF Continues

-----------------------------------------------------------------------------
(* Every step keeps the types.                                             *)
LEMMA CountNat ==
    ASSUME Types
    PROVE  line_count_for \in Nat
  <1>1. app.mode \in Modes /\ index.lines \in Seq(Nat)
    <2>1. app.mode \in Modes
      BY DEF Types, Apps
    <2>2. CASE index = NoIndex
      BY <2>1, <2>2 DEF NoIndex
    <2>3. CASE index # NoIndex
      BY <2>1, <2>3 DEF Types, Indexes
    <2> QED
      BY <2>2, <2>3
  <1>2. Len(HotLines(app.mode)) \in Nat /\ Len(DiskLines(app.mode)) \in Nat
    BY <1>1, HotSeq, DiskSeq
  <1>3. total_line_count \in Nat
    <2>1. PICK h \in Nat : h = Len(HotLines(app.mode))
      BY <1>2
    <2>2. PICK d \in Nat : d = Len(DiskLines(app.mode))
      BY <1>2
    <2>3. Max({h, d}) \in Nat
      BY MaxOfTwo
    <2> QED
      BY <2>1, <2>2, <2>3 DEF total_line_count
  <1>4. Len(index.lines) \in Nat
    BY <1>1
  <1> QED
    BY <1>3, <1>4 DEF line_count_for

LEMMA NewestSeq ==
    ASSUME NEW q \in Seq(Line), NEW n \in Nat
    PROVE  Newest(q, n) \in Seq(Line)
  <1>1. Len(q) \in Nat
    OBVIOUS
  <1>2. Sub(Len(q), n) \in Nat
    BY <1>1, SubIs
  <1> QED
    BY <1>1, <1>2 DEF Newest

LEMMA PushSeq ==
    ASSUME NEW q \in Seq(Line), NEW line \in Line
    PROVE  push(q, line) \in Seq(Line)
  <1>1. MaxBuffer \in Nat \ {0}
    BY SizesAssumption
  <1>2. CASE Len(q) = MaxBuffer
    <2>1. q # <<>>
      BY <1>1, <1>2
    <2>2. Tail(q) \in Seq(Line)
      BY <2>1, HeadTailProperties
    <2> QED
      BY <1>2, <2>2 DEF push
  <1>3. CASE Len(q) # MaxBuffer
    BY <1>3 DEF push
  <1> QED
    BY <1>2, <1>3

(* Matching lines from a place on: each once, ascending.                   *)
LEMMA ScanExact ==
    ASSUME Types, NEW mode \in Modes, NEW from \in Nat
    PROVE  LET found == scan_matching_lines_from(mode, from)
               lines == DiskLines(mode)
           IN  /\ found \in Seq(Nat)
               /\ ToSet(found) = {i \in 1..Len(lines) : i > from /\ lines[i].hit}
               /\ \A i, j \in DOMAIN found : i < j => found[i] < found[j]
  <1>1. PICK lines : lines = DiskLines(mode)
    OBVIOUS
  <1>2. PICK k \in Nat : k = Len(lines)
    BY <1>1, DiskSeq
  <1>3. PICK S : S = {i \in 1..k : i > from /\ lines[i].hit}
    OBVIOUS
  <1>4. S \in SUBSET (1..k) /\ S \in SUBSET Nat
    BY <1>3
  <1>5. IsFiniteSet(S)
    <2>1. IsFiniteSet(1..k)
      BY FS_Interval
    <2> QED
      BY <1>4, <2>1, FS_Subset
  <1>6. scan_matching_lines_from(mode, from) = InOrder(S)
    BY <1>1, <1>2, <1>3 DEF scan_matching_lines_from
  <1>7. /\ InOrder(S) \in Seq(S) /\ ToSet(InOrder(S)) = S
        /\ DOMAIN InOrder(S) = 1..Cardinality(S)
    BY <1>4, <1>5, InOrderAll
  <1>8. InOrder(S) \in Seq(Nat)
    BY <1>4, <1>7, SeqMonotonic
  <1>9. \A i, j \in DOMAIN InOrder(S) : i < j => InOrder(S)[i] < InOrder(S)[j]
    BY <1>4, <1>5, <1>7, InOrderAscends
  <1> QED
    BY <1>1, <1>2, <1>3, <1>6, <1>7, <1>8, <1>9

LEMMA BuildType ==
    ASSUME Types, NEW mode \in Modes
    PROVE  build_filtered_index(mode) \in Indexes
  <1>1. scan_matching_lines_from(mode, 0) \in Seq(Nat) /\ Len(DiskLines(mode)) \in Nat
    BY ScanExact, DiskSeq
  <1> QED
    BY <1>1 DEF build_filtered_index, Indexes, Types

LEMMA UpdateType ==
    ASSUME Types
    PROVE  update_filtered_index \in Indexes
  <1>1. CASE index = NoIndex
    BY <1>1 DEF update_filtered_index, Types
  <1>2. CASE index # NoIndex
    <2>1. /\ index \in [mode : Modes, lines : Seq(Nat), scanned : Nat]
          /\ index.mode \in Modes /\ index.lines \in Seq(Nat) /\ index.scanned \in Nat
      BY <1>2 DEF Types, Indexes
    <2>2. PICK found : found = scan_matching_lines_from(index.mode, index.scanned)
      OBVIOUS
    <2>3. found \in Seq(Nat) /\ Len(DiskLines(index.mode)) \in Nat
      BY <2>1, <2>2, ScanExact, DiskSeq
    <2>4. index.lines \o found \in Seq(Nat)
      BY <2>1, <2>3, ConcatProperties
    <2>5. \/ update_filtered_index = index
          \/ update_filtered_index =
               [index EXCEPT !.lines = index.lines \o found,
                             !.scanned = Len(DiskLines(index.mode))]
      BY <2>2 DEF update_filtered_index
    <2> QED
      BY <2>1, <2>3, <2>4, <2>5 DEF Indexes
  <1> QED
    BY <1>1, <1>2

LEMMA InitTypes == Init => Types
  <1> SUFFICES ASSUME Init PROVE Types
    OBVIOUS
  <1>1. <<>> \in Seq(Line) /\ <<>> \in Seq({"p", "q"})
    OBVIOUS
  <1>2. Blank \in Apps
    BY <1>1 DEF Blank, Apps, Modes, Streams
  <1> QED
    BY <1>1, <1>2 DEF Init, Types, Indexes

(* What the daemon does to files.                                          *)
LEMMA DaemonTypes ==
    ASSUME Types, Daemon
    PROVE  Types'
  <1>1. ASSUME NEW kind \in Kinds, NEW lost \in BOOLEAN, PrintLine(kind, lost)
        PROVE  Types'
    <2>1. PICK line : line = [n |-> printed + 1, src |-> kind[1], hit |-> kind[2]]
      OBVIOUS
    <2>2. kind[1] \in Streams /\ kind[2] \in BOOLEAN
      BY KindsAssumption DEF AllKinds
    <2>3. line \in Line
      BY <2>1, <2>2 DEF Line, Types
    <2>4. late[kind[1]] \in Seq(Line) /\ inbox \in Seq(Line)
      BY <2>2 DEF Types
    <2>5. Append(late[kind[1]], line) \in Seq(Line) /\ Append(inbox, line) \in Seq(Line)
      BY <2>3, <2>4
    <2>6. /\ late' = [late EXCEPT ![kind[1]] = Append(late[kind[1]], line)]
          /\ inbox' = IF lost THEN inbox ELSE Append(inbox, line)
          /\ printed' = printed + 1
          /\ UNCHANGED <<disk, app, index>>
      BY <1>1, <2>1 DEF PrintLine
    <2> QED
      BY <2>2, <2>4, <2>5, <2>6 DEF Types
  <1>2. ASSUME NEW s \in Streams, Flush(s) \/ Rotate(s) PROVE Types'
    <2>1. PICK f : f = disk[s] \o late[s]
      OBVIOUS
    <2>2. f \in Seq(Line) /\ <<>> \in Seq(Line)
      BY <2>1, ConcatProperties DEF Types
    <2>3. UNCHANGED <<printed, inbox, app, index>> /\ late' = [late EXCEPT ![s] = <<>>]
      BY <1>2 DEF Flush, Rotate, link
    <2>4. CASE Flush(s)
      <3>1. disk' = [disk EXCEPT ![s] = f]
        BY <2>1, <2>4 DEF Flush
      <3> QED
        BY <2>2, <2>3, <3>1 DEF Types
    <2>5. CASE Rotate(s)
      <3>1. disk' = [disk EXCEPT ![s] = Tail(f)] /\ f # <<>>
        BY <2>1, <2>5 DEF Rotate
      <3>2. Tail(f) \in Seq(Line)
        BY <2>2, <3>1, HeadTailProperties
      <3> QED
        BY <2>2, <2>3, <3>1, <3>2 DEF Types
    <2> QED
      BY <1>2, <2>4, <2>5
  <1>3. CASE Truncate
    BY <1>3 DEF Truncate, Types, link
  <1> QED
    BY <1>1, <1>2, <1>3 DEF Daemon

(* What the event loop does.                                               *)
LEMMA LoopTypes ==
    ASSUME Types, Loop
    PROVE  Types'
  <1>1. ASSUME NEW s \in Streams, NEW exists \in BOOLEAN,
               NEW cur \in [Streams -> 0..MaxLines], Start(s, exists, cur)
        PROVE  Types'
    <2>1. PICK second : second = CHOOSE t \in Streams : t # s
      OBVIOUS
    <2>2. second \in Streams
      BY <2>1 DEF Streams
    <2>3. \A t \in Streams : Tail_Of(t, cur[t]) \in Seq(Line)
      <3> TAKE t \in Streams
      <3>1. disk[t] \o late[t] \in Seq(Line)
        BY ConcatProperties DEF Types
      <3>2. cur[t] \in Nat /\ Preload \in Nat
        BY SizesAssumption
      <3>3. Min({Preload, cur[t]}) \in Nat
        BY <3>2, MinOfTwo DEF Least
      <3> QED
        BY <3>1, <3>3, NewestSeq DEF Tail_Of
    <2>4. PICK hot : hot = Newest(Tail_Of(s, cur[s]) \o Tail_Of(second, cur[second]), MaxBuffer)
      OBVIOUS
    <2>5. hot \in Seq(Line)
      <3>1. Tail_Of(s, cur[s]) \o Tail_Of(second, cur[second]) \in Seq(Line)
        BY <2>2, <2>3, ConcatProperties
      <3> QED
        BY <2>4, <3>1, NewestSeq, SizesAssumption
    <2>7. app' = [app EXCEPT !.reader = exists, !.hot = hot]
      BY <1>1, <2>1, <2>4 DEF Start
    <2>8. app' \in Apps
      BY <2>5, <2>7 DEF Types, Apps
    <2> QED
      BY <1>1, <2>8 DEF Start, Types, daemon
  <1>2. CASE Connecting \/ Break \/ handle_reconnect
    BY <1>2 DEF Connecting, Connect, Break, handle_reconnect, Types, daemon
  <1>3. CASE OutputLine
    <2>1. PICK line : line = Head(inbox)
      OBVIOUS
    <2>2. inbox \in Seq(Line) /\ inbox # <<>> /\ app.hot \in Seq(Line) /\ app \in Apps
      BY <1>3 DEF OutputLine, Types, Apps
    <2>3. line \in Line /\ Tail(inbox) \in Seq(Line)
      BY <2>1, <2>2, HeadTailProperties
    <2>4. push(app.hot, line) \in Seq(Line)
      BY <2>2, <2>3, PushSeq
    <2>5. app' = [app EXCEPT !.hot = push(app.hot, line)] /\ inbox' = Tail(inbox)
      BY <1>3, <2>1 DEF OutputLine
    <2>6. app' \in Apps
      BY <2>2, <2>4, <2>5 DEF Apps
    <2>7. index' \in Indexes
      BY <1>3, UpdateType DEF OutputLine, Types
    <2> QED
      BY <1>3, <2>3, <2>5, <2>6, <2>7 DEF OutputLine, Types, daemon
  <1>4. ASSUME NEW procs \in {<<"p">>, <<"q", "p">>}, StatusUpdate(procs) PROVE Types'
    <2>1. procs \in Seq({"p", "q"}) /\ Len(procs) \in Nat /\ Len(procs) > 0
      <3>1. CASE procs = <<"p">>
        BY <3>1
      <3>2. CASE procs = <<"q", "p">>
        BY <3>2
      <3> QED
        BY <3>1, <3>2
    <2>2. PICK reader \in BOOLEAN :
            reader = (app.reader \/ \E i \in DOMAIN procs : procs[i] = "p")
      OBVIOUS
    <2>3. PICK sel : sel = IF app.selected >= Len(procs) /\ procs # <<>>
                           THEN Len(procs) - 1 ELSE app.selected
      OBVIOUS
    <2>4. sel \in Nat
      BY <2>1, <2>3 DEF Types, Apps
    <2>5. app' = [app EXCEPT !.procs = procs, !.reader = reader, !.selected = sel]
      BY <1>4, <2>2, <2>3 DEF StatusUpdate
    <2>6. app' \in Apps
      BY <2>1, <2>4, <2>5 DEF Types, Apps
    <2> QED
      BY <1>4, <2>6 DEF StatusUpdate, Types, daemon, link
  <1> QED
    BY <1>1, <1>2, <1>3, <1>4 DEF Loop

(* What keys and the mouse do.                                             *)
LEMMA KeyTypes ==
    ASSUME Types, Key
    PROVE  Types'
  <1> USE DEF Mouse, Normal, Prompt
  <1>0. app \in Apps
    BY DEF Types
  <1>1. ASSUME NEW row \in Rows, Select(row) PROVE Types'
    <2>1. row \in Nat
      <3>1. PICK n \in Nat : n = Len(app.procs)
        BY <1>0 DEF Apps
      <3>2. app.selected \in Nat
        BY <1>0 DEF Apps
      <3>3. CASE n = 0
        BY <1>1, <3>1, <3>3 DEF Rows
      <3>4. CASE n # 0
        <4>1. (app.selected + 1) % n \in Nat
          BY <3>2, <3>4
        <4>2. app.selected # 0 => app.selected - 1 \in Nat
          BY <3>2
        <4> QED
          BY <3>1, <3>4, <4>1, <4>2 DEF Rows
      <3> QED
        BY <3>3, <3>4
    <2>2. app' \in Apps
      BY <1>0, <1>1, <2>1 DEF Select, Apps
    <2> QED
      BY <1>1, <2>2 DEF Select, Types, daemon, link
  <1>2. CASE cycle_stream_mode
    <2>1. PICK m : m = NextMode[app.mode]
      OBVIOUS
    <2>2. m \in Modes
      BY <1>0, <2>1 DEF NextMode, Modes, Streams, Apps
    <2>3. app' \in Apps
      BY <1>0, <1>2, <2>1, <2>2 DEF cycle_stream_mode, Apps
    <2>4. index' \in Indexes
      BY <1>2, <2>1, <2>2, BuildType DEF cycle_stream_mode, Types
    <2> QED
      BY <1>2, <2>3, <2>4 DEF cycle_stream_mode, Types, daemon, link
  <1>3. CASE toggle_pause
    <2>1. PICK paused \in BOOLEAN : paused = ~app.paused
      OBVIOUS
    <2>2. PICK offset \in Nat : offset = IF app.paused /\ OnP THEN 0 ELSE app.offset
      BY <1>0 DEF Apps
    <2>3. app' = [app EXCEPT !.paused = paused, !.offset = offset]
      BY <1>3, <2>1, <2>2 DEF toggle_pause
    <2>4. app' \in Apps
      BY <1>0, <2>3 DEF Apps
    <2> QED
      BY <1>3, <2>4 DEF toggle_pause, Types, daemon, link
  <1>4. ASSUME NEW lines \in Nat, scroll_up_by(lines) \/ scroll_down_by(lines) PROVE Types'
    <2>1. app.offset \in Nat /\ line_count_for \in Nat /\ Height \in Nat
      BY <1>0, CountNat, SizesAssumption DEF Apps
    <2>2. CASE scroll_up_by(lines)
      <3>1. PICK a \in Nat : a = Sub(line_count_for, Height)
        BY <2>1, SubIs
      <3>2. PICK offset : offset = IF OnP THEN Min({app.offset + lines, a}) ELSE app.offset
        OBVIOUS
      <3>3. offset \in Nat
        <4>1. app.offset + lines \in Nat
          BY <2>1
        <4>2. Min({app.offset + lines, a}) = Least(app.offset + lines, a)
          BY <4>1, MinOfTwo
        <4> QED
          BY <2>1, <3>2, <4>1, <4>2 DEF Least
      <3>4. app' = [app EXCEPT !.paused = TRUE, !.offset = offset]
        BY <2>2, <3>1, <3>2 DEF scroll_up_by
      <3>5. app' \in Apps
        BY <1>0, <3>3, <3>4 DEF Apps
      <3> QED
        BY <2>2, <3>5 DEF scroll_up_by, Types, daemon, link
    <2>3. CASE scroll_down_by(lines)
      <3>1. PICK down : down = IF OnP THEN Sub(app.offset, lines) ELSE 0
        OBVIOUS
      <3>2. PICK offset : offset = IF OnP THEN down ELSE app.offset
        OBVIOUS
      <3>3. offset \in Nat
        <4>1. Sub(app.offset, lines) \in Nat
          BY <2>1, SubIs
        <4> QED
          BY <2>1, <3>1, <3>2, <4>1
      <3>4. PICK paused \in BOOLEAN : paused = (app.paused /\ down # 0)
        OBVIOUS
      <3>5. app' = [app EXCEPT !.offset = offset, !.paused = paused]
        BY <2>3, <3>1, <3>2, <3>4 DEF scroll_down_by
      <3>6. app' \in Apps
        BY <1>0, <3>3, <3>5 DEF Apps
      <3> QED
        BY <2>3, <3>6 DEF scroll_down_by, Types, daemon, link
    <2> QED
      BY <1>4, <2>2, <2>3
  <1>5. CASE scroll_to_top \/ scroll_to_bottom
    <2>1. PICK paused \in BOOLEAN, offset \in Nat :
            app' = [app EXCEPT !.paused = paused, !.offset = offset]
      <3>1. app.offset \in Nat /\ line_count_for \in Nat
        BY <1>0, CountNat DEF Apps
      <3>2. CASE scroll_to_top
        <4>1. PICK offset \in Nat : offset = IF OnP THEN line_count_for ELSE app.offset
          BY <3>1
        <4>2. app' = [app EXCEPT !.paused = TRUE, !.offset = offset]
          BY <3>2, <4>1 DEF scroll_to_top
        <4> QED
          BY <4>2
      <3>3. CASE scroll_to_bottom
        <4>1. PICK offset \in Nat : offset = IF OnP THEN 0 ELSE app.offset
          BY <3>1
        <4>2. app' = [app EXCEPT !.paused = FALSE, !.offset = offset]
          BY <3>3, <4>1 DEF scroll_to_bottom
        <4> QED
          BY <4>2
      <3> QED
        BY <1>5, <3>2, <3>3
    <2>2. app' \in Apps
      BY <1>0, <2>1 DEF Apps
    <2> QED
      BY <1>5, <2>2 DEF scroll_to_top, scroll_to_bottom, Types, daemon, link
  <1>6. CASE start_filter \/ cancel_filter
    <2>1. app' \in Apps
      BY <1>0, <1>6 DEF start_filter, cancel_filter, Apps
    <2> QED
      BY <1>6, <2>1 DEF start_filter, cancel_filter, Types, daemon, link
  <1>7. CASE clear_filter
    <2>1. app' \in Apps
      BY <1>0, <1>7 DEF clear_filter, Apps
    <2> QED
      BY <1>7, <2>1 DEF clear_filter, Types, Indexes, daemon, link
  <1>8. ASSUME NEW text \in BOOLEAN, confirm_filter(text) PROVE Types'
    <2>1. app' \in Apps
      BY <1>0, <1>8 DEF confirm_filter, Apps
    <2>2. app.mode \in Modes
      BY <1>0 DEF Apps
    <2>3. index' \in Indexes
      BY <1>8, <2>2, BuildType DEF confirm_filter, Indexes
    <2> QED
      BY <1>8, <2>1, <2>3 DEF confirm_filter, Types, daemon, link
  <1>9. CASE quit
    <2>1. <<>> \in Seq(Line) /\ <<>> \in Seq({"p", "q"})
      OBVIOUS
    <2>2. app' \in Apps
      BY <1>9, <2>1 DEF quit, Blank, Apps, Modes, Streams
    <2> QED
      BY <1>9, <2>1, <2>2 DEF quit, Types, Indexes, daemon
  <1>10. HalfPage \in Nat /\ MouseLines \in Nat
    <2>1. Height \div 2 \in Int
      BY SizesAssumption
    <2>2. Max({Height \div 2, 1}) \in Nat
      BY <2>1, MaxOfTwo
    <2> QED
      BY <2>2 DEF HalfPage, MouseLines
  <1> QED
    BY <1>1, <1>2, <1>3, <1>4, <1>5, <1>6, <1>7, <1>8, <1>9, <1>10 DEF Key

LEMMA TypesStep ==
    ASSUME Types, [Next]_vars
    PROVE  Types'
  <1>1. CASE UNCHANGED vars
    BY <1>1 DEF vars, Types
  <1> QED
    BY <1>1, DaemonTypes, LoopTypes, KeyTypes DEF Next

-----------------------------------------------------------------------------
(* The files.  In each the numbers go up, and no number is in both.        *)
File(s) == disk[s] \o late[s]

Ascends(f) == \A i, j \in DOMAIN f : i < j => f[i].n < f[j].n
Apart(f, g) == \A i \in DOMAIN f, j \in DOMAIN g : f[i].n # g[j].n

Numbered ==
    /\ \A s \in Streams : Ascends(File(s)) /\ \A i \in DOMAIN File(s) : File(s)[i].n <= printed
    /\ \A s, t \in Streams : s # t => Apart(File(s), File(t))

LEMMA FileParts ==
    ASSUME Types, NEW s \in Streams
    PROVE  /\ File(s) \in Seq(Line) /\ DOMAIN File(s) = 1..Len(File(s))
           /\ Len(File(s)) = Len(disk[s]) + Len(late[s])
           /\ disk[s] \in Seq(Line) /\ DOMAIN disk[s] = 1..Len(disk[s])
           /\ late[s] \in Seq(Line) /\ DOMAIN late[s] = 1..Len(late[s])
           /\ Len(disk[s]) \in Nat /\ Len(late[s]) \in Nat
           /\ \A i \in 1..Len(disk[s]) : File(s)[i] = disk[s][i]
           /\ \A i \in 1..Len(late[s]) : File(s)[Len(disk[s]) + i] = late[s][i]
  <1>1. PICK u \in Seq(Line) : u = disk[s]
    BY DEF Types
  <1>2. PICK v \in Seq(Line) : v = late[s]
    BY DEF Types
  <1>3. Len(u) \in Nat /\ Len(v) \in Nat /\ DOMAIN u = 1..Len(u) /\ DOMAIN v = 1..Len(v)
    BY LenProperties
  <1>4. /\ u \o v \in Seq(Line) /\ Len(u \o v) = Len(u) + Len(v)
        /\ \A i \in 1..(Len(u) + Len(v)) :
             (u \o v)[i] = IF i <= Len(u) THEN u[i] ELSE v[i - Len(u)]
    BY ONLY <1>1, <1>2, ConcatProperties
  <1>5. DOMAIN (u \o v) = 1..Len(u \o v)
    BY <1>4, LenProperties
  <1>6. \A i \in 1..Len(u) : (u \o v)[i] = u[i]
    BY <1>3, <1>4
  <1>7. \A i \in 1..Len(v) : (u \o v)[Len(u) + i] = v[i]
    BY <1>3, <1>4
  <1> QED
    BY <1>1, <1>2, <1>3, <1>4, <1>5, <1>6, <1>7 DEF File

(* A line more, or one less at the front, keeps a file in order.           *)
LEMMA AppendAscends ==
    ASSUME NEW f \in Seq(Line), Ascends(f), NEW line \in Line,
           \A i \in DOMAIN f : f[i].n < line.n
    PROVE  /\ Ascends(Append(f, line))
           /\ \A i \in DOMAIN Append(f, line) :
                Append(f, line)[i] = line \/ (i \in DOMAIN f /\ Append(f, line)[i] = f[i])
  <1>1. PICK g : g = Append(f, line)
    OBVIOUS
  <1>2. /\ Len(f) \in Nat /\ DOMAIN f = 1..Len(f) /\ DOMAIN g = 1..(Len(f) + 1)
        /\ \A i \in 1..Len(f) : g[i] = f[i]
        /\ g[Len(f) + 1] = line
    BY <1>1
  <1>3. \A i \in DOMAIN g : g[i] = line \/ (i \in DOMAIN f /\ g[i] = f[i])
    BY <1>2
  <1>4. ASSUME NEW i \in DOMAIN g, NEW j \in DOMAIN g, i < j PROVE g[i].n < g[j].n
    <2>1. i \in DOMAIN f /\ g[i] = f[i]
      BY <1>2, <1>4
    <2>2. CASE j = Len(f) + 1
      BY <1>2, <2>1, <2>2
    <2>3. CASE j # Len(f) + 1
      <3>1. j \in DOMAIN f /\ g[j] = f[j]
        BY <1>2, <2>3
      <3> QED
        BY <1>4, <2>1, <3>1 DEF Ascends
    <2> QED
      BY <2>2, <2>3
  <1> QED
    BY <1>1, <1>3, <1>4 DEF Ascends

LEMMA TailAscends ==
    ASSUME NEW f \in Seq(Line), f # <<>>, Ascends(f)
    PROVE  /\ Ascends(Tail(f))
           /\ \A i \in DOMAIN Tail(f) : i + 1 \in DOMAIN f /\ Tail(f)[i] = f[i + 1]
  <1>1. PICK g : g = Tail(f)
    OBVIOUS
  <1>2. /\ g \in Seq(Line) /\ Len(g) = Len(f) - 1
        /\ \A i \in 1..Len(g) : g[i] = f[i + 1]
    BY <1>1, HeadTailProperties
  <1>3. Len(f) \in Nat /\ DOMAIN f = 1..Len(f) /\ DOMAIN g = 1..Len(g)
    BY <1>2, LenProperties
  <1>4. \A i \in DOMAIN g : i + 1 \in DOMAIN f /\ g[i] = f[i + 1]
    BY <1>2, <1>3
  <1>5. ASSUME NEW i \in DOMAIN g, NEW j \in DOMAIN g, i < j PROVE g[i].n < g[j].n
    <2>1. i + 1 < j + 1
      BY <1>2, <1>3, <1>5
    <2> QED
      BY <1>4, <2>1 DEF Ascends
  <1> QED
    BY <1>1, <1>4, <1>5 DEF Ascends

LEMMA LineNumber == \A l \in Line : l.n \in Nat
  BY DEF Line

LEMMA AppendConcat ==
    ASSUME NEW u \in Seq(Line), NEW v \in Seq(Line), NEW line \in Line
    PROVE  u \o Append(v, line) = Append(u \o v, line)
  <1>0. <<line>> \in Seq(Line)
    OBVIOUS
  <1>1. PICK one \in Seq(Line) : one = <<line>>
    BY <1>0
  <1>2. PICK f \in Seq(Line) : f = u \o v
    BY ConcatProperties
  <1>3. Append(v, line) = v \o one /\ Append(f, line) = f \o one
    BY <1>1, AppendIsConcat
  <1>4. u \o (v \o one) = (u \o v) \o one
    BY ConcatAssociative
  <1> QED
    BY <1>2, <1>3, <1>4

LEMMA NumberedStep ==
    ASSUME Types, Numbered, [Next]_vars
    PROVE  Numbered'
  <1>1. ASSUME NEW kind \in Kinds, NEW lost \in BOOLEAN, PrintLine(kind, lost)
        PROVE  Numbered'
    <2>1. PICK s \in Streams : s = kind[1]
      BY KindsAssumption DEF AllKinds
    <2>2. PICK line \in Line : line = [n |-> printed + 1, src |-> s, hit |-> kind[2]]
      <3>1. kind[2] \in BOOLEAN /\ printed + 1 \in Nat
        BY KindsAssumption DEF AllKinds, Types
      <3> QED
        BY <3>1 DEF Line
    <2>3. /\ disk' = disk /\ printed' = printed + 1 /\ printed \in Nat
          /\ late' = [late EXCEPT ![s] = Append(late[s], line)]
      BY <1>1, <2>1, <2>2 DEF PrintLine, Types
    <2>4. PICK f \in Seq(Line) : f = File(s)
      BY FileParts
    <2>5. PICK g : g = Append(f, line)
      OBVIOUS
    <2>6. File(s)' = g
      <3>1. disk'[s] = disk[s] /\ late'[s] = Append(late[s], line)
        BY <2>3 DEF Types
      <3>2. disk[s] \in Seq(Line) /\ late[s] \in Seq(Line)
        BY DEF Types
      <3>3. disk[s] \o Append(late[s], line) = Append(disk[s] \o late[s], line)
        BY <3>2, AppendConcat
      <3> QED
        BY <2>4, <2>5, <3>1, <3>3 DEF File
    <2>7. \A t \in Streams : t # s => File(t)' = File(t)
      BY <2>3 DEF File, Types
    <2>8. Ascends(f) /\ \A i \in DOMAIN f : f[i].n <= printed
      BY <2>4 DEF Numbered
    <2>9. \A i \in DOMAIN f : f[i].n \in Nat
      BY LineNumber
    <2>10. line.n = printed + 1
      BY <2>2
    <2>11. \A i \in DOMAIN f : f[i].n < line.n
      BY <2>3, <2>8, <2>9, <2>10
    <2>12. Ascends(g) /\ \A i \in DOMAIN g : g[i] = line \/ (i \in DOMAIN f /\ g[i] = f[i])
      BY <2>5, <2>8, <2>11, AppendAscends
    <2>13. \A i \in DOMAIN g : g[i].n <= printed'
      BY <2>3, <2>8, <2>9, <2>10, <2>12
    <2>14. ASSUME NEW t \in Streams, t # s
           PROVE  /\ Ascends(File(t)')
                  /\ \A i \in DOMAIN File(t)' : File(t)'[i].n <= printed'
                  /\ Apart(g, File(t)') /\ Apart(File(t)', g)
      <3>1. PICK h \in Seq(Line) : h = File(t) /\ h = File(t)'
        BY <2>7, <2>14, FileParts
      <3>2. /\ Ascends(h) /\ \A i \in DOMAIN h : h[i].n <= printed
            /\ Apart(f, h) /\ Apart(h, f)
        BY <2>4, <2>14, <3>1 DEF Numbered
      <3>3. \A i \in DOMAIN h : h[i].n \in Nat
        BY LineNumber
      <3>4. \A i \in DOMAIN h : h[i].n <= printed' /\ h[i].n # line.n
        BY <2>3, <2>10, <3>2, <3>3
      <3>5. Apart(g, h) /\ Apart(h, g)
        BY <2>12, <3>2, <3>4 DEF Apart
      <3> QED
        BY <3>1, <3>2, <3>4, <3>5
    <2> QED
      BY <2>6, <2>12, <2>13, <2>14 DEF Numbered, Streams
  <1>2. ASSUME NEW s \in Streams, Flush(s) PROVE Numbered'
    <2>1. /\ disk' = [disk EXCEPT ![s] = disk[s] \o late[s]] /\ printed' = printed
          /\ late' = [late EXCEPT ![s] = <<>>]
      BY <1>2 DEF Flush
    <2>2. PICK f \in Seq(Line) : f = disk[s] \o late[s]
      BY FileParts DEF File
    <2>3. f \o <<>> = f
      BY ConcatEmptySeq
    <2>4. \A t \in Streams : File(t)' = File(t)
      BY <2>1, <2>2, <2>3 DEF File, Types
    <2> QED
      BY <2>1, <2>4 DEF Numbered
  <1>3. ASSUME NEW s \in Streams, Rotate(s) PROVE Numbered'
    <2>1. PICK f \in Seq(Line) : f = File(s)
      BY FileParts
    <2>2. /\ disk' = [disk EXCEPT ![s] = Tail(f)] /\ printed' = printed
          /\ late' = [late EXCEPT ![s] = <<>>] /\ f # <<>>
      BY <1>3, <2>1 DEF Rotate, File
    <2>3. PICK g \in Seq(Line) : g = Tail(f)
      BY <2>2, HeadTailProperties
    <2>4. g \o <<>> = g
      BY ConcatEmptySeq
    <2>5. File(s)' = g /\ \A t \in Streams : t # s => File(t)' = File(t)
      BY <2>2, <2>3, <2>4 DEF File, Types
    <2>6. Ascends(f) /\ \A i \in DOMAIN f : f[i].n <= printed
      BY <2>1 DEF Numbered
    <2>7. Ascends(g) /\ \A i \in DOMAIN g : i + 1 \in DOMAIN f /\ g[i] = f[i + 1]
      BY <2>2, <2>3, <2>6, TailAscends
    <2>8. \A i \in DOMAIN g : g[i].n <= printed'
      BY <2>2, <2>6, <2>7
    <2>9. ASSUME NEW t \in Streams, t # s
          PROVE  /\ Ascends(File(t)')
                 /\ \A i \in DOMAIN File(t)' : File(t)'[i].n <= printed'
                 /\ Apart(g, File(t)') /\ Apart(File(t)', g)
      <3>1. PICK h \in Seq(Line) : h = File(t) /\ h = File(t)'
        BY <2>5, <2>9, FileParts
      <3>2. /\ Ascends(h) /\ \A i \in DOMAIN h : h[i].n <= printed
            /\ Apart(f, h) /\ Apart(h, f)
        BY <2>1, <2>9, <3>1 DEF Numbered
      <3>3. Apart(g, h) /\ Apart(h, g)
        BY <2>7, <3>2 DEF Apart
      <3> QED
        BY <2>2, <3>1, <3>2, <3>3
    <2> QED
      BY <2>5, <2>7, <2>8, <2>9 DEF Numbered, Streams
  <1>4. CASE Truncate
    <2>1. \A s \in Streams : disk'[s] = <<>> /\ late'[s] = <<>>
      BY <1>4 DEF Truncate
    <2>2. <<>> \o <<>> = <<>>
      BY ConcatEmptySeq
    <2>3. \A s \in Streams : File(s)' = <<>>
      BY <2>1, <2>2 DEF File
    <2> QED
      BY <2>3 DEF Numbered, Ascends, Apart
  <1>5. CASE Key \/ Loop \/ UNCHANGED vars
    <2>1. UNCHANGED daemon
      BY <1>5 DEF Key, Loop, vars, daemon, Select, cycle_stream_mode, toggle_pause,
         scroll_up_by, scroll_down_by, scroll_to_top, scroll_to_bottom, start_filter,
         cancel_filter, clear_filter, confirm_filter, quit, Start, Connecting, Connect,
         Break, handle_reconnect, OutputLine, StatusUpdate
    <2> QED
      BY <2>1 DEF daemon, Numbered, File
  <1> QED
    BY <1>1, <1>2, <1>3, <1>4, <1>5 DEF Next, Daemon

LEMMA InitNumbered == Init => Numbered
  <1> SUFFICES ASSUME Init PROVE Numbered
    OBVIOUS
  <1>1. <<>> \o <<>> = <<>>
    BY ConcatEmptySeq
  <1>2. \A s \in Streams : File(s) = <<>>
    BY <1>1 DEF Init, File
  <1> QED
    BY <1>2 DEF Numbered, Ascends, Apart

-----------------------------------------------------------------------------
(* The filtered index.  It names what matches among the first k lines.     *)
Scanned(lines, at, k) ==
    /\ k <= Len(lines)
    /\ ToSet(at) = {i \in 1..k : lines[i].hit}
    /\ \A i, j \in DOMAIN at : i < j => at[i] < at[j]

Grows(lines, more) ==
    Len(lines) <= Len(more) /\ \A i \in 1..Len(lines) : more[i] = lines[i]

LEMMA ConcatSet ==
    ASSUME NEW X, NEW u \in Seq(X), NEW v \in Seq(X)
    PROVE  ToSet(u \o v) = ToSet(u) \cup ToSet(v) /\ Grows(u, u \o v)
  <1>1. PICK a \in Nat : a = Len(u) /\ DOMAIN u = 1..a
    BY LenProperties
  <1>2. PICK b \in Nat : b = Len(v) /\ DOMAIN v = 1..b
    BY LenProperties
  <1>3. PICK w \in Seq(X) : w = u \o v
    BY ConcatProperties
  <1>4. /\ Len(w) = a + b /\ DOMAIN w = 1..(a + b)
        /\ \A i \in 1..(a + b) : w[i] = IF i <= a THEN u[i] ELSE v[i - a]
    <2>1. /\ Len(w) = a + b
          /\ \A i \in 1..(a + b) : w[i] = IF i <= a THEN u[i] ELSE v[i - a]
      BY <1>1, <1>2, <1>3, ConcatProperties
    <2> QED
      BY <2>1, LenProperties
  <1>5. \A i \in 1..a : w[i] = u[i] /\ i \in DOMAIN w
    BY <1>4
  <1>6. \A i \in 1..b : w[a + i] = v[i] /\ a + i \in DOMAIN w
    BY <1>4
  <1>7. ASSUME NEW i \in DOMAIN w PROVE w[i] \in ToSet(u) \cup ToSet(v)
    <2>1. CASE i \in 1..a
      BY <1>1, <1>5, <2>1 DEF ToSet
    <2>2. CASE i \notin 1..a
      <3>1. i - a \in 1..b /\ w[i] = v[i - a]
        BY <1>4, <2>2
      <3> QED
        BY <1>2, <3>1 DEF ToSet
    <2> QED
      BY <2>1, <2>2
  <1>8. \A i \in DOMAIN u : u[i] \in ToSet(w)
    BY <1>1, <1>5 DEF ToSet
  <1>9. \A i \in DOMAIN v : v[i] \in ToSet(w)
    BY <1>2, <1>6 DEF ToSet
  <1>10. /\ ToSet(w) = {w[i] : i \in DOMAIN w}
         /\ ToSet(u) = {u[i] : i \in DOMAIN u}
         /\ ToSet(v) = {v[i] : i \in DOMAIN v}
    BY DEF ToSet
  <1>11. ToSet(w) \subseteq ToSet(u) \cup ToSet(v)
    BY <1>7, <1>10
  <1>12. ToSet(u) \subseteq ToSet(w) /\ ToSet(v) \subseteq ToSet(w)
    BY <1>8, <1>9, <1>10
  <1>13. Grows(u, w)
    BY <1>1, <1>4, <1>5 DEF Grows
  <1> QED
    BY <1>3, <1>11, <1>12, <1>13

LEMMA FileSet ==
    ASSUME Types, NEW s \in Streams
    PROVE  /\ ToSet(File(s)) = ToSet(disk[s]) \cup ToSet(late[s])
           /\ Grows(disk[s], File(s))
  <1>1. disk[s] \in Seq(Line) /\ late[s] \in Seq(Line)
    BY DEF Types
  <1> QED
    BY <1>1, ConcatSet DEF File

LEMMA ScannedKept ==
    ASSUME NEW lines \in Seq(Line), NEW more \in Seq(Line), Grows(lines, more),
           NEW at, NEW k \in Nat, Scanned(lines, at, k)
    PROVE  Scanned(more, at, k)
  <1>1. Len(lines) \in Nat /\ Len(more) \in Nat
    BY LenProperties
  <1>2. k <= Len(more) /\ \A i \in 1..k : more[i] = lines[i]
    BY <1>1 DEF Grows, Scanned
  <1>3. {i \in 1..k : lines[i].hit} = {i \in 1..k : more[i].hit}
    BY <1>2
  <1> QED
    BY <1>2, <1>3 DEF Scanned

LEMMA BuildScanned ==
    ASSUME Types, NEW mode \in Modes
    PROVE  Scanned(DiskLines(mode), scan_matching_lines_from(mode, 0),
                   Len(DiskLines(mode)))
  <1>1. PICK found : found = scan_matching_lines_from(mode, 0)
    OBVIOUS
  <1>2. PICK lines : lines = DiskLines(mode)
    OBVIOUS
  <1>3. PICK k \in Nat : k = Len(lines)
    BY <1>2, DiskSeq
  <1>4. /\ ToSet(found) = {i \in 1..k : i > 0 /\ lines[i].hit}
        /\ \A i, j \in DOMAIN found : i < j => found[i] < found[j]
    BY <1>1, <1>2, <1>3, ScanExact
  <1>5. {i \in 1..k : i > 0 /\ lines[i].hit} = {i \in 1..k : lines[i].hit}
    OBVIOUS
  <1>6. Scanned(lines, found, k)
    BY <1>3, <1>4, <1>5 DEF Scanned
  <1> QED
    BY <1>1, <1>2, <1>3, <1>6

(* What was found before, then what is found from there on.                *)
LEMMA UpdateScanned ==
    ASSUME Types, NEW mode \in Modes, NEW at \in Seq(Nat), NEW from \in Nat,
           Scanned(DiskLines(mode), at, from)
    PROVE  Scanned(DiskLines(mode), at \o scan_matching_lines_from(mode, from),
                   Len(DiskLines(mode)))
  <1>1. PICK found : found = scan_matching_lines_from(mode, from)
    OBVIOUS
  <1>2. PICK lines : lines = DiskLines(mode)
    OBVIOUS
  <1>3. PICK k \in Nat : k = Len(lines)
    BY <1>2, DiskSeq
  <1>4. /\ found \in Seq(Nat)
        /\ ToSet(found) = {i \in 1..k : i > from /\ lines[i].hit}
        /\ \A i, j \in DOMAIN found : i < j => found[i] < found[j]
    <2>1. LET there == scan_matching_lines_from(mode, from)
              all == DiskLines(mode)
          IN  /\ there \in Seq(Nat)
              /\ ToSet(there) = {i \in 1..Len(all) : i > from /\ all[i].hit}
              /\ \A i, j \in DOMAIN there : i < j => there[i] < there[j]
      BY ScanExact, Zenon
    <2> QED
      BY <1>1, <1>2, <1>3, <2>1
  <1>5. /\ from <= k /\ ToSet(at) = {i \in 1..from : lines[i].hit}
        /\ \A i, j \in DOMAIN at : i < j => at[i] < at[j]
    BY <1>2, <1>3 DEF Scanned
  <1>6. PICK a \in Nat : a = Len(at) /\ DOMAIN at = 1..a
    BY LenProperties
  <1>7. PICK b \in Nat : b = Len(found) /\ DOMAIN found = 1..b
    BY <1>4, LenProperties
  <1>8. PICK all \in Seq(Nat) : all = at \o found
    BY <1>4, ConcatProperties
  <1>9. /\ DOMAIN all = 1..(a + b)
        /\ \A i \in 1..(a + b) : all[i] = IF i <= a THEN at[i] ELSE found[i - a]
    <2>1. /\ Len(all) = a + b
          /\ \A i \in 1..(a + b) : all[i] = IF i <= a THEN at[i] ELSE found[i - a]
      BY <1>4, <1>6, <1>7, <1>8, ConcatProperties
    <2> QED
      BY <2>1, LenProperties
  <1>10. \A i \in 1..a : all[i] = at[i] /\ i \in DOMAIN all
    BY <1>9
  <1>11. \A i \in 1..b : all[a + i] = found[i] /\ a + i \in DOMAIN all
    BY <1>9
  <1>12. \A i \in DOMAIN all : i \in 1..a \/ \E j \in 1..b : i = a + j
    <2> SUFFICES ASSUME NEW i \in DOMAIN all, i \notin 1..a PROVE \E j \in 1..b : i = a + j
      OBVIOUS
    <2>1. i - a \in 1..b /\ i = a + (i - a)
      BY <1>9
    <2> QED
      BY <2>1
  <1>13. ToSet(all) = ToSet(at) \cup ToSet(found)
    BY <1>4, <1>8, ConcatSet
  <1>14. ToSet(all) = {i \in 1..k : lines[i].hit}
    BY <1>4, <1>5, <1>13
  <1>15. \A i \in 1..a : at[i] \in 1..from
    BY <1>5, <1>6 DEF ToSet
  <1>16. \A i \in 1..b : found[i] > from /\ found[i] \in Nat
    <2>1. \A i \in 1..b : found[i] \in ToSet(found)
      BY <1>7 DEF ToSet
    <2> QED
      BY <1>4, <2>1
  <1>17. ASSUME NEW i \in DOMAIN all, NEW j \in DOMAIN all, i < j
         PROVE  all[i] < all[j]
    <2>1. CASE i \in 1..a /\ j \in 1..a
      BY <1>5, <1>6, <1>10, <1>17, <2>1
    <2>2. CASE i \in 1..a /\ j \notin 1..a
      <3>1. PICK m \in 1..b : j = a + m
        BY <1>12, <2>2
      <3>2. all[i] \in 1..from /\ all[j] > from /\ all[j] \in Nat
        BY <1>10, <1>11, <1>15, <1>16, <2>2, <3>1
      <3> QED
        BY <3>2
    <2>3. CASE i \notin 1..a
      <3>1. PICK l \in 1..b : i = a + l
        BY <1>12, <2>3
      <3>2. j \notin 1..a
        BY <1>9, <1>17, <2>3
      <3>3. PICK m \in 1..b : j = a + m
        BY <1>12, <3>2
      <3>4. l < m
        BY <1>17, <3>1, <3>3
      <3> QED
        BY <1>4, <1>7, <1>11, <3>1, <3>3, <3>4
    <2> QED
      BY <2>1, <2>2, <2>3
  <1>18. Scanned(lines, all, k)
    BY <1>3, <1>14, <1>17 DEF Scanned
  <1> QED
    BY <1>1, <1>2, <1>3, <1>8, <1>18

(* What a flush does to the merged view: when the index has not been put   *)
(* out of step, lines are only added behind those that were there.         *)
LEMMA SameNumber ==
    ASSUME Types, Numbered, NEW s \in Streams, NEW t \in Streams,
           NEW l \in ToSet(File(s)), NEW m \in ToSet(File(t)), l.n = m.n
    PROVE  l = m
  <1>1. PICK i \in DOMAIN File(s) : l = File(s)[i]
    BY DEF ToSet
  <1>2. PICK j \in DOMAIN File(t) : m = File(t)[j]
    BY DEF ToSet
  <1>3. s = t
    BY <1>1, <1>2 DEF Numbered, Apart
  <1>4. i \in Nat /\ j \in Nat
    BY FileParts
  <1>5. \A x, y \in DOMAIN File(s) : x < y => File(s)[x].n < File(s)[y].n
    BY DEF Numbered, Ascends
  <1>6. File(s)[i].n \in Nat /\ File(s)[j].n \in Nat
    <2>1. File(s)[i] \in Line /\ File(s)[j] \in Line
      BY <1>2, <1>3, FileParts, ElementOfSeq
    <2> QED
      BY <2>1, LineNumber
  <1>7. i = j
    BY <1>1, <1>2, <1>3, <1>4, <1>5, <1>6
  <1> QED
    BY <1>1, <1>2, <1>3, <1>7

Counted == ToSet(disk["out"]) \cup ToSet(disk["err"])

LEMMA CountedFinite ==
    ASSUME Types
    PROVE  Counted \in SUBSET Line /\ IsFiniteSet(Counted)
  <1>1. disk["out"] \in Seq(Line) /\ disk["err"] \in Seq(Line)
    BY DEF Types, Streams
  <1> QED
    BY <1>1, ToSetFinite, FS_Union DEF Counted

(* A line on disk is before every line that a flush adds.                  *)
LEMMA FlushAfter ==
    ASSUME Types, Numbered, NEW s \in Streams, late[s] # <<>>,
           \A t \in Streams \ {s} :
             disk[t] # <<>> => ~(Last(disk[t]).n > Head(late[s]).n),
           NEW l \in Counted, NEW m \in ToSet(late[s])
    PROVE  l.n < m.n
  <1>1. PICK j \in 1..Len(late[s]) : m = late[s][j]
    BY FileParts DEF ToSet
  <1>2. PICK d \in Nat : d = Len(disk[s])
    BY FileParts
  <1>3. PICK f \in Seq(Line) : f = File(s)
    BY FileParts
  <1>4. /\ DOMAIN f = 1..(d + Len(late[s])) /\ Len(late[s]) \in Nat
        /\ \A i \in 1..d : f[i] = disk[s][i]
        /\ \A i \in 1..Len(late[s]) : f[d + i] = late[s][i]
    BY <1>2, <1>3, FileParts
  <1>5. Ascends(f)
    BY <1>3 DEF Numbered
  <1>6. d + j \in DOMAIN f /\ f[d + j] = m
    BY <1>1, <1>4
  <1>7. PICK t \in Streams : l \in ToSet(disk[t])
    BY DEF Counted, Streams
  <1>8. PICK i \in 1..Len(disk[t]) : l = disk[t][i]
    BY <1>7, FileParts DEF ToSet
  <1>9. CASE t = s
    <2>1. i \in DOMAIN f /\ f[i] = l /\ i < d + j
      <3>1. i \in 1..d /\ l = disk[s][i]
        BY <1>2, <1>8, <1>9
      <3> QED
        BY <1>1, <1>4, <3>1
    <2> QED
      BY <1>5, <1>6, <2>1 DEF Ascends
  <1>10. CASE t # s
    <2>1. PICK g \in Seq(Line) : g = File(t)
      BY FileParts
    <2>2. PICK e \in Nat : e = Len(disk[t])
      BY FileParts
    <2>3. /\ 1..e \subseteq DOMAIN g
          /\ \A x \in 1..e : g[x] = disk[t][x]
      <3>1. /\ DOMAIN g = 1..(e + Len(late[t])) /\ Len(late[t]) \in Nat
            /\ \A x \in 1..e : g[x] = disk[t][x]
        BY <2>1, <2>2, FileParts
      <3> QED
        BY <3>1
    <2>4. e \in 1..e /\ i \in 1..e /\ disk[t] # <<>>
      BY <1>8, <2>2
    <2>5. Last(disk[t]) = g[e] /\ Head(late[s]) = f[d + 1]
      <3>1. Head(late[s]) = late[s][1] /\ 1 \in 1..Len(late[s])
        BY <1>1, <1>4, FileParts, HeadTailProperties
      <3> QED
        BY <1>4, <2>2, <2>3, <2>4, <3>1 DEF Last
    <2>6. ~(g[e].n > f[d + 1].n)
      BY <1>10, <2>4, <2>5
    <2>7. /\ g[i] = l /\ i \in DOMAIN g /\ e \in DOMAIN g
          /\ d + 1 \in DOMAIN f
      BY <1>1, <1>4, <1>8, <2>2, <2>3, <2>4
    <2>8. g[e].n \in Nat /\ f[d + 1].n \in Nat /\ l.n \in Nat /\ m.n \in Nat
      <3>1. g[e] \in Line /\ g[i] \in Line /\ f[d + 1] \in Line /\ f[d + j] \in Line
        BY <1>6, <2>7
      <3> QED
        BY <1>6, <2>7, <3>1, LineNumber
    <2>9. l.n <= g[e].n
      <3>1. CASE i = e
        BY <2>7, <2>8, <3>1
      <3>2. CASE i # e
        <4>1. i < e /\ Ascends(g)
          BY <2>1, <2>4, <3>2 DEF Numbered
        <4> QED
          BY <2>7, <2>8, <4>1 DEF Ascends
      <3> QED
        BY <3>1, <3>2
    <2>10. f[d + 1].n <= m.n
      <3>1. CASE j = 1
        BY <1>6, <2>8, <3>1
      <3>2. CASE j # 1
        <4>1. d + 1 < d + j
          BY <1>1, <1>4, <3>2
        <4> QED
          BY <1>5, <1>6, <2>7, <2>8, <4>1 DEF Ascends
      <3> QED
        BY <3>1, <3>2
    <2>11. l.n # m.n
      <3>1. Apart(g, f)
        BY <1>3, <1>10, <2>1 DEF Numbered
      <3> QED
        BY <1>6, <2>7, <3>1 DEF Apart
    <2> QED
      BY <2>6, <2>8, <2>9, <2>10, <2>11
  <1> QED
    BY <1>9, <1>10

LEMMA ByNumberGrows ==
    ASSUME NEW T \in SUBSET Line, IsFiniteSet(T), NEW S \in SUBSET T, IsFiniteSet(S),
           \A l \in S, m \in T \ S : l.n < m.n,
           \A l, m \in T : l.n = m.n => l = m
    PROVE  Grows(ByNumber(S), ByNumber(T))
  <1>1. /\ Numbers(T) \in SUBSET Nat /\ IsFiniteSet(Numbers(T))
        /\ Numbers(S) \in SUBSET Nat /\ IsFiniteSet(Numbers(S))
    BY NumbersFinite
  <1>2. Numbers(S) \in SUBSET Numbers(T)
    BY DEF Numbers
  <1>3. \A x \in Numbers(S), y \in Numbers(T) \ Numbers(S) : x < y
    BY DEF Numbers
  <1>4. /\ Cardinality(Numbers(S)) <= Cardinality(Numbers(T))
        /\ \A i \in 1..Cardinality(Numbers(S)) :
             InOrder(Numbers(T))[i] = InOrder(Numbers(S))[i]
    BY <1>1, <1>2, <1>3, InOrderExtends
  <1>5. PICK a \in Nat : a = Cardinality(Numbers(S))
    BY <1>1, FS_CardinalityType
  <1>6. PICK b \in Nat : b = Cardinality(Numbers(T))
    BY <1>1, FS_CardinalityType
  <1>7. /\ Len(ByNumber(S)) = a
        /\ \A i \in 1..a : ByNumber(S)[i] \in S /\ ByNumber(S)[i].n = InOrder(Numbers(S))[i]
    BY <1>5, ByNumberSeq
  <1>8. /\ Len(ByNumber(T)) = b
        /\ \A i \in 1..b : ByNumber(T)[i] \in T /\ ByNumber(T)[i].n = InOrder(Numbers(T))[i]
    BY <1>6, ByNumberSeq
  <1>9. ASSUME NEW i \in 1..a PROVE ByNumber(T)[i] = ByNumber(S)[i]
    <2>1. i \in 1..b
      BY <1>4, <1>5, <1>6
    <2>2. ByNumber(T)[i].n = ByNumber(S)[i].n
      BY <1>4, <1>5, <1>7, <1>8, <2>1
    <2>3. ByNumber(T)[i] \in T /\ ByNumber(S)[i] \in T
      BY <1>7, <1>8, <2>1
    <2> QED
      BY <2>2, <2>3
  <1> QED
    BY <1>4, <1>5, <1>6, <1>7, <1>8, <1>9 DEF Grows

LEMMA FlushGrows ==
    ASSUME Types, Numbered, NEW s \in Streams, Flush(s), ~shrunk',
           NEW mode \in Modes, index.mode = mode
    PROVE  Grows(DiskLines(mode), DiskLines(mode)')
  <1>1. Types'
    BY DaemonTypes DEF Daemon
  <1>2. /\ disk' = [disk EXCEPT ![s] = disk[s] \o late[s]]
        /\ app' = app /\ late[s] # <<>> /\ late' = [late EXCEPT ![s] = <<>>]
    BY DEF Flush
  <1>3. CASE ~app.reader
    <2>1. DiskLines(mode) = <<>> /\ DiskLines(mode)' = <<>>
      BY <1>2, <1>3 DEF DiskLines
    <2> QED
      BY <2>1 DEF Grows
  <1>4. CASE app.reader /\ mode # "both"
    <2>1. mode \in Streams /\ DiskLines(mode) = disk[mode] /\ DiskLines(mode)' = disk'[mode]
      BY <1>2, <1>4 DEF DiskLines, Modes
    <2>2. CASE mode # s
      <3>1. disk'[mode] = disk[mode] /\ Len(disk[mode]) \in Nat
        BY <1>2, <2>1, <2>2, FileParts DEF Types
      <3> QED
        BY <2>1, <3>1 DEF Grows
    <2>3. CASE mode = s
      <3>1. disk'[s] = File(s)
        BY <1>2 DEF File, Types
      <3>2. Grows(disk[s], File(s))
        BY FileSet
      <3> QED
        BY <2>1, <2>3, <3>1, <3>2
    <2> QED
      BY <2>2, <2>3
  <1>5. CASE app.reader /\ mode = "both"
    <2>1. DiskLines(mode) = ByNumber(Counted) /\ DiskLines(mode)' = ByNumber(Counted')
      BY <1>2, <1>5 DEF DiskLines, Counted
    <2>2. PICK S : S = Counted
      OBVIOUS
    <2>3. PICK T : T = Counted'
      OBVIOUS
    <2>4. S \in SUBSET Line /\ IsFiniteSet(S)
      BY <2>2, CountedFinite
    <2>5. T \in SUBSET Line /\ IsFiniteSet(T)
      <3>1. disk'["out"] \in Seq(Line) /\ disk'["err"] \in Seq(Line)
        BY <1>1 DEF Types, Streams
      <3> QED
        BY <2>3, <3>1, ToSetFinite, FS_Union DEF Counted
    <2>6. /\ \A t \in Streams : t # s => disk'[t] = disk[t]
          /\ disk'[s] = File(s)
      BY <1>2 DEF Types, File
    <2>7. ToSet(File(s)) = ToSet(disk[s]) \cup ToSet(late[s])
      BY FileSet
    <2>8. S \in SUBSET T
      BY <2>2, <2>3, <2>6, <2>7 DEF Counted, Streams
    <2>9. \A m \in T \ S : m \in ToSet(late[s])
      BY <2>2, <2>3, <2>6, <2>7 DEF Counted, Streams
    <2>10. \A t \in Streams \ {s} : disk[t] # <<>> => ~(Last(disk[t]).n > Head(late[s]).n)
      BY <1>5 DEF Flush
    <2>11. \A l \in S, m \in T \ S : l.n < m.n
      BY <1>2, <2>2, <2>9, <2>10, FlushAfter
    <2>12. \A m \in T : \E t \in Streams : m \in ToSet(File(t))
      <3>1. \A t \in Streams : ToSet(disk[t]) \subseteq ToSet(File(t))
        BY FileSet
      <3>2. \A m \in T : m \in ToSet(File(s)) \/ \E t \in Streams : m \in ToSet(disk[t])
        BY <2>3, <2>6 DEF Counted, Streams
      <3> QED
        BY <3>1, <3>2
    <2>13. \A l, m \in T : l.n = m.n => l = m
      BY <2>12, SameNumber
    <2>14. Grows(ByNumber(S), ByNumber(T))
      BY <2>4, <2>5, <2>8, <2>11, <2>13, ByNumberGrows
    <2> QED
      BY <2>1, <2>2, <2>3, <2>14
  <1> QED
    BY <1>3, <1>4, <1>5

(* The index is of a filter in use and of a reader, and is right until the *)
(* lines it numbers move; before the start there is no reader.             *)
IndexInv ==
    /\ index # NoIndex => app.filter /\ app.reader /\ index.mode = app.mode
    /\ index # NoIndex /\ ~shrunk => Scanned(DiskLines(app.mode), index.lines, index.scanned)
    /\ stream = "off" => ~app.reader

LEMMA IndexFields ==
    ASSUME Types, index # NoIndex
    PROVE  /\ index \in [mode : Modes, lines : Seq(Nat), scanned : Nat]
           /\ index.mode \in Modes /\ index.lines \in Seq(Nat) /\ index.scanned \in Nat
  BY DEF Types, Indexes

(* A step that leaves the files, the index, its mode and its reader alone. *)
LEMMA IndexKept ==
    ASSUME Types, IndexInv, UNCHANGED <<disk, index, shrunk>>,
           app'.filter = app.filter, app'.mode = app.mode, app'.reader = app.reader,
           stream # "off" => stream' # "off"
    PROVE  IndexInv'
  <1>1. DiskLines(app.mode)' = DiskLines(app.mode)
    BY DEF DiskLines
  <1> QED
    BY <1>1 DEF IndexInv

LEMMA DiskAlwaysSeq == Types => \A m \in Modes : DiskLines(m) \in Seq(Line)
  BY DiskSeq

LEMMA IndexDaemon ==
    ASSUME Types, Numbered, IndexInv, Daemon
    PROVE  IndexInv'
  <1>1. ASSUME NEW kind \in Kinds, NEW lost \in BOOLEAN, PrintLine(kind, lost)
        PROVE  IndexInv'
    <2>1. UNCHANGED <<disk, index, shrunk, app, stream>>
      BY <1>1 DEF PrintLine
    <2> QED
      BY <2>1, IndexKept
  <1>2. ASSUME NEW s \in Streams, Flush(s) PROVE IndexInv'
    <2>1. UNCHANGED <<index, app, stream>> /\ (shrunk => shrunk')
      BY <1>2 DEF Flush, link
    <2>2. ASSUME index # NoIndex, ~shrunk'
          PROVE  Scanned(DiskLines(app.mode)', index.lines, index.scanned)
      <3>1. PICK mode \in Modes : mode = app.mode /\ mode = index.mode
        BY <2>2 DEF IndexInv, Types, Apps
      <3>2. Scanned(DiskLines(mode), index.lines, index.scanned)
        BY <2>1, <2>2, <3>1 DEF IndexInv
      <3>3. Grows(DiskLines(mode), DiskLines(mode)')
        BY <1>2, <2>2, <3>1, FlushGrows
      <3>4. DiskLines(mode) \in Seq(Line) /\ index.scanned \in Nat
        BY <2>2, DiskSeq, IndexFields
      <3>5. DiskLines(mode)' \in Seq(Line)
        <4>1. Types'
          BY DaemonTypes
        <4>2. (Types => \A m \in Modes : DiskLines(m) \in Seq(Line))'
          BY DiskAlwaysSeq, PTL
        <4> QED
          BY <4>1, <4>2
      <3>6. Scanned(DiskLines(mode)', index.lines, index.scanned)
        BY <3>2, <3>3, <3>4, <3>5, ScannedKept
      <3>7. DiskLines(mode)' = DiskLines(app.mode)'
        BY <2>1, <3>1 DEF DiskLines
      <3> QED
        BY <3>6, <3>7
    <2> QED
      BY <2>1, <2>2 DEF IndexInv
  <1>3. ASSUME NEW s \in Streams, Rotate(s) PROVE IndexInv'
    BY <1>3 DEF Rotate, IndexInv, link
  <1>4. CASE Truncate
    BY <1>4 DEF Truncate, IndexInv, link
  <1> QED
    BY <1>1, <1>2, <1>3, <1>4 DEF Daemon

LEMMA IndexLoop ==
    ASSUME Types, IndexInv, Loop
    PROVE  IndexInv'
  <1>0. app \in Apps
    BY DEF Types
  <1>1. ASSUME NEW s \in Streams, NEW exists \in BOOLEAN,
               NEW cur \in [Streams -> 0..MaxLines], Start(s, exists, cur)
        PROVE  IndexInv'
    <2>1. index = NoIndex /\ index' = index /\ stream' = "connecting"
      BY <1>1 DEF Start, IndexInv
    <2> QED
      BY <2>1 DEF IndexInv
  <1>2. CASE Connecting \/ Break \/ handle_reconnect
    <2>1. UNCHANGED <<disk, index, shrunk, app>> /\ stream' # "off"
      BY <1>2 DEF Connecting, Connect, Break, handle_reconnect, daemon
    <2> QED
      BY <2>1, IndexKept
  <1>3. CASE OutputLine
    <2>1. /\ UNCHANGED <<disk, shrunk, stream>>
          /\ app' = [app EXCEPT !.hot = push(app.hot, Head(inbox))]
          /\ index' = IF app.filter THEN update_filtered_index ELSE index
      BY <1>3 DEF OutputLine, daemon
    <2>2. app'.filter = app.filter /\ app'.mode = app.mode /\ app'.reader = app.reader
      BY <1>0, <2>1 DEF Apps
    <2>3. DiskLines(app.mode)' = DiskLines(app.mode)
      BY <2>1, <2>2 DEF DiskLines
    <2>4. CASE index' = index
      BY <2>1, <2>2, <2>4, IndexKept
    <2>5. CASE index' # index
      <3>1. /\ app.filter /\ index # NoIndex
            /\ index' = [index EXCEPT
                 !.lines = index.lines \o scan_matching_lines_from(index.mode, index.scanned),
                 !.scanned = Len(DiskLines(index.mode))]
        BY <2>1, <2>5 DEF update_filtered_index
      <3>2. PICK mode \in Modes : mode = app.mode /\ mode = index.mode
        BY <3>1 DEF IndexInv, Types, Apps
      <3>3. PICK at \in Seq(Nat) : at = index.lines
        BY <3>1, IndexFields
      <3>4. PICK from \in Nat : from = index.scanned
        BY <3>1, IndexFields
      <3>5. /\ index'.mode = mode /\ index'.scanned = Len(DiskLines(mode))
            /\ index'.lines = at \o scan_matching_lines_from(mode, from)
        BY <3>1, <3>2, <3>3, <3>4, IndexFields
      <3>6. ASSUME ~shrunk'
            PROVE  Scanned(DiskLines(app.mode)', index'.lines, index'.scanned)
        <4>1. Scanned(DiskLines(mode), at, from)
          BY <2>1, <3>1, <3>2, <3>3, <3>4, <3>6 DEF IndexInv
        <4>2. Scanned(DiskLines(mode), at \o scan_matching_lines_from(mode, from),
                      Len(DiskLines(mode)))
          BY <4>1, UpdateScanned
        <4> QED
          BY <2>3, <3>2, <3>5, <4>2
      <3> QED
        BY <2>1, <2>2, <3>1, <3>2, <3>5, <3>6 DEF IndexInv
    <2> QED
      BY <2>4, <2>5
  <1>4. ASSUME NEW procs \in {<<"p">>, <<"q", "p">>}, StatusUpdate(procs)
        PROVE  IndexInv'
    <2>1. UNCHANGED <<disk, index, shrunk, stream>> /\ stream # "off"
      BY <1>4 DEF StatusUpdate, daemon, link
    <2>2. app'.filter = app.filter /\ app'.mode = app.mode /\ (app.reader => app'.reader)
      BY <1>0, <1>4 DEF StatusUpdate, Apps
    <2>3. CASE index = NoIndex
      BY <2>1, <2>3 DEF IndexInv
    <2>4. CASE index # NoIndex
      <3>1. app.reader /\ app'.reader
        BY <2>2, <2>4 DEF IndexInv
      <3>2. DiskLines(app.mode)' = DiskLines(app.mode)
        BY <2>1, <2>2, <3>1 DEF DiskLines
      <3> QED
        BY <2>1, <2>2, <3>1, <3>2 DEF IndexInv
    <2> QED
      BY <2>3, <2>4
  <1> QED
    BY <1>1, <1>2, <1>3, <1>4 DEF Loop

(* A build of the index makes it right, in whichever mode.                 *)
LEMMA IndexBuilt ==
    ASSUME Types, IndexInv, UNCHANGED <<disk, stream>>, NEW mode \in Modes,
           app'.filter, app'.mode = mode, app'.reader = app.reader,
           index' = build_filtered_index(mode)
    PROVE  IndexInv'
  <1>1. CASE ~app.reader
    <2>1. index' = NoIndex
      BY <1>1 DEF IndexInv, build_filtered_index
    <2> QED
      BY <2>1 DEF IndexInv
  <1>2. CASE app.reader
    <2>1. /\ index'.mode = mode /\ index'.lines = scan_matching_lines_from(mode, 0)
          /\ index'.scanned = Len(DiskLines(mode))
      BY <1>2 DEF build_filtered_index
    <2>2. Scanned(DiskLines(mode), index'.lines, index'.scanned)
      BY <2>1, BuildScanned
    <2>3. DiskLines(app.mode)' = DiskLines(mode)
      BY DEF DiskLines
    <2> QED
      BY <1>2, <2>1, <2>2, <2>3 DEF IndexInv
  <1> QED
    BY <1>1, <1>2

LEMMA IndexKey ==
    ASSUME Types, IndexInv, Key
    PROVE  IndexInv'
  <1>0. app \in Apps
    BY DEF Types
  <1>1. CASE \/ \E row \in Rows : Select(row)
             \/ toggle_pause \/ scroll_to_top \/ scroll_to_bottom
             \/ start_filter \/ cancel_filter
             \/ \E n \in {HalfPage, MouseLines} : scroll_up_by(n) \/ scroll_down_by(n)
    <2>1. UNCHANGED <<disk, index, shrunk, stream>>
      BY <1>1 DEF Select, toggle_pause, scroll_up_by, scroll_down_by, scroll_to_top,
         scroll_to_bottom, start_filter, cancel_filter, daemon, link
    <2>2. app'.filter = app.filter /\ app'.mode = app.mode /\ app'.reader = app.reader
      <3>1. ASSUME NEW row \in Rows, Select(row)
            PROVE  app'.filter = app.filter /\ app'.mode = app.mode /\ app'.reader = app.reader
        BY <1>0, <3>1 DEF Apps, Select
      <3>2. CASE toggle_pause
        BY <1>0, <3>2 DEF Apps, toggle_pause
      <3>3. CASE scroll_to_top \/ scroll_to_bottom
        BY <1>0, <3>3 DEF Apps, scroll_to_top, scroll_to_bottom
      <3>4. CASE start_filter \/ cancel_filter
        BY <1>0, <3>4 DEF Apps, start_filter, cancel_filter
      <3>5. ASSUME NEW n, scroll_up_by(n) \/ scroll_down_by(n)
            PROVE  app'.filter = app.filter /\ app'.mode = app.mode /\ app'.reader = app.reader
        BY <1>0, <3>5 DEF Apps, scroll_up_by, scroll_down_by
      <3> QED
        BY <1>1, <3>1, <3>2, <3>3, <3>4, <3>5
    <2> QED
      BY <2>1, <2>2, IndexKept
  <1>2. CASE cycle_stream_mode
    <2>1. PICK mode \in Modes : mode = NextMode[app.mode]
      BY <1>0 DEF Apps, NextMode, Modes, Streams
    <2>2. /\ UNCHANGED <<disk, stream>> /\ app' = [app EXCEPT !.mode = mode]
          /\ index' = IF app.filter THEN build_filtered_index(mode) ELSE index
      BY <1>2, <2>1 DEF cycle_stream_mode, daemon, link
    <2>3. app'.filter = app.filter /\ app'.mode = mode /\ app'.reader = app.reader
      BY <1>0, <2>2 DEF Apps
    <2>4. CASE app.filter
      BY <2>2, <2>3, <2>4, IndexBuilt
    <2>5. CASE ~app.filter
      <3>1. index' = NoIndex
        BY <2>2, <2>5 DEF IndexInv
      <3> QED
        BY <2>2, <2>3, <3>1 DEF IndexInv
    <2> QED
      BY <2>4, <2>5
  <1>3. ASSUME NEW text \in BOOLEAN, confirm_filter(text) PROVE IndexInv'
    <2>1. /\ UNCHANGED <<disk, stream>>
          /\ app' = [app EXCEPT !.typing = FALSE, !.filter = text]
          /\ index' = IF text THEN build_filtered_index(app.mode) ELSE NoIndex
      BY <1>3 DEF confirm_filter, daemon, link
    <2>2. app'.filter = text /\ app'.mode = app.mode /\ app'.reader = app.reader
      BY <1>0, <2>1 DEF Apps
    <2>3. PICK mode \in Modes : mode = app.mode
      BY <1>0 DEF Apps
    <2>4. CASE text
      BY <2>1, <2>2, <2>3, <2>4, IndexBuilt
    <2>5. CASE ~text
      BY <2>1, <2>2, <2>5 DEF IndexInv
    <2> QED
      BY <2>4, <2>5
  <1>4. CASE clear_filter
    <2>1. index' = NoIndex /\ stream' = stream /\ app'.reader = app.reader
      BY <1>0, <1>4 DEF clear_filter, link, Apps
    <2> QED
      BY <2>1 DEF IndexInv
  <1>5. CASE quit
    <2>1. index' = NoIndex /\ stream' = "none"
      BY <1>5 DEF quit
    <2> QED
      BY <2>1 DEF IndexInv
  <1> QED
    BY <1>1, <1>2, <1>3, <1>4, <1>5 DEF Key

LEMMA IndexStep ==
    ASSUME Types, Numbered, IndexInv, [Next]_vars
    PROVE  IndexInv'
  <1>1. CASE UNCHANGED vars
    BY <1>1, IndexKept DEF vars
  <1> QED
    BY <1>1, IndexDaemon, IndexLoop, IndexKey DEF Next

LEMMA WindowFits ==
    ASSUME Types
    PROVE  Len(filtered_window) <= Height
  <1>1. PICK at \in Seq(Nat) : at = index.lines
    <2>1. CASE index = NoIndex
      <3>1. index.lines = <<>> /\ <<>> \in Seq(Nat)
        BY <2>1 DEF NoIndex
      <3> QED
        BY <3>1
    <2>2. CASE index # NoIndex
      BY <2>2, IndexFields
    <2> QED
      BY <2>1, <2>2
  <1>2. PICK k \in Nat : k = Len(at)
    BY LenProperties
  <1>3. PICK end \in Nat : end = WindowEnd(k) /\ end <= k
    <2>1. (IF app.paused THEN app.offset ELSE 0) \in Nat
      BY DEF Types, Apps
    <2> QED
      BY <2>1, SubIs DEF WindowEnd
  <1>4. PICK h \in Nat : h = Height
    BY SizesAssumption
  <1>5. PICK start \in Nat : start = Sub(end, h) /\ start <= end /\ end - start <= h
    <2>1. CASE end > h
      <3>1. Sub(end, h) = end - h /\ end - h \in Nat /\ end - (end - h) <= h
        BY <2>1 DEF Sub
      <3> QED
        BY <2>1, <3>1
    <2>2. CASE ~(end > h)
      <3>1. Sub(end, h) = 0 /\ end - 0 <= h
        BY <2>2 DEF Sub
      <3> QED
        BY <3>1
    <2> QED
      BY <2>1, <2>2
  <1>6. filtered_window = SubSeq(at, start + 1, end)
    BY <1>1, <1>2, <1>3, <1>4, <1>5 DEF filtered_window
  <1>7. Len(SubSeq(at, start + 1, end)) = end - start
    <2>1. CASE start = end
      BY <2>1, SubSeqEmpty
    <2>2. CASE start # end
      <3>1. start + 1 \in 1..k + 1 /\ end \in start..k /\ start + 1 <= end
        BY <1>3, <1>5, <2>2
      <3> QED
        BY <1>2, <3>1, SubSeqProperties
    <2> QED
      BY <2>1, <2>2
  <1> QED
    BY <1>4, <1>5, <1>6, <1>7

(* The filtered index names every matching line up to where it has scanned *)
(* once and in order, for every number of lines, filter and stream mode,   *)
(* wherever new lines, flushes and changes of mode fall between its scans, *)
(* until lines it has scanned are deleted or, in the merged view, a flush  *)
(* puts lines before them: from there (shrunk) to the next rebuild nothing *)
(* is claimed but the index's mode and the size of its window.             *)
THEOREM FilterExactHolds == Spec => []FilterExact
  <1>1. Init => Types /\ Numbered /\ IndexInv
    <2>1. Init => IndexInv
      BY DEF Init, IndexInv, Blank
    <2> QED
      BY <2>1, InitTypes, InitNumbered
  <1>2. Types /\ Numbered /\ IndexInv /\ [Next]_vars => (Types /\ Numbered /\ IndexInv)'
    BY TypesStep, NumberedStep, IndexStep
  <1>3. Types /\ IndexInv => FilterExact
    BY WindowFits DEF IndexInv, Scanned, FilterExact
  <1> QED
    BY <1>1, <1>2, <1>3, PTL DEF Spec
-----------------------------------------------------------------------------
(* What is drawn.  An ascending map of places leaves room behind each.     *)
Ascending(at, m) == \A i, j \in 1..m : i < j => at[i] < at[j]

LEMMA Room ==
    ASSUME NEW d \in Nat, NEW n \in Nat, NEW g \in [1..d -> 1..n], Ascending(g, d),
           NEW i \in 1..d
    PROVE  g[i] + (d - i) <= n
  <1>1. PICK k \in 1..n : k = g[i]
    OBVIOUS
  <1>2. PICK f : f = [j \in i..d |-> g[j]]
    OBVIOUS
  <1>3. ASSUME NEW j \in i..d PROVE g[j] \in k..n
    <2>1. j \in 1..d /\ g[j] \in 1..n
      OBVIOUS
    <2>2. i < j => g[i] < g[j]
      BY <2>1 DEF Ascending
    <2>3. i < j \/ i = j
      OBVIOUS
    <2> QED
      BY <1>1, <2>1, <2>2, <2>3
  <1>4. ASSUME NEW x \in i..d, NEW y \in i..d, g[x] = g[y] PROVE x = y
    <2>1. x \in 1..d /\ y \in 1..d /\ g[x] \in Int /\ g[y] \in Int
      OBVIOUS
    <2>2. (x < y => g[x] < g[y]) /\ (y < x => g[y] < g[x])
      BY <2>1 DEF Ascending
    <2> QED
      BY <1>4, <2>1, <2>2
  <1>5. f \in Injection(i..d, k..n)
    BY <1>2, <1>3, <1>4 DEF Injection, IsInjective
  <1>6. IsFiniteSet(k..n) /\ Cardinality(k..n) = n - k + 1 /\ Cardinality(i..d) = d - i + 1
    BY FS_Interval
  <1>7. Cardinality(i..d) <= Cardinality(k..n)
    BY <1>5, <1>6, FS_Injection
  <1> QED
    BY <1>1, <1>6, <1>7

(* Every line counted on disk has its place in the log, in the same order. *)
Placed(lines, log, g) ==
    /\ g \in [1..Len(lines) -> 1..Len(log)] /\ Ascending(g, Len(lines))
    /\ \A i \in 1..Len(lines) : lines[i] = log[g[i]]

LEMMA DiskPlaced ==
    ASSUME Types, Numbered, app.reader, NEW mode \in Modes
    PROVE  \E g : Placed(DiskLines(mode), Log(mode), g)
  <1>1. CASE mode # "both"
    <2>1. mode \in Streams
      BY <1>1 DEF Modes
    <2>2. DiskLines(mode) = disk[mode] /\ Log(mode) = File(mode)
      BY <1>1 DEF DiskLines, Log, File
    <2>3. /\ Len(disk[mode]) \in Nat /\ Len(late[mode]) \in Nat
          /\ Len(File(mode)) = Len(disk[mode]) + Len(late[mode])
          /\ \A i \in 1..Len(disk[mode]) : File(mode)[i] = disk[mode][i]
      BY <2>1, FileParts
    <2>4. PICK g : g = [i \in 1..Len(disk[mode]) |-> i]
      OBVIOUS
    <2>5. Placed(disk[mode], File(mode), g)
      <3>1. PICK d \in Nat : d = Len(disk[mode])
        BY <2>3
      <3>2. PICK n \in Nat : n = Len(File(mode)) /\ d <= n
        <4>1. PICK k \in Nat : k = Len(late[mode])
          BY <2>3
        <4>2. Len(File(mode)) = Len(disk[mode]) + Len(late[mode])
          BY <2>1, FileParts
        <4>3. Len(File(mode)) = d + k
          BY ONLY <3>1, <4>1, <4>2
        <4>4. d + k \in Nat /\ d <= d + k
          BY ONLY d \in Nat, k \in Nat
        <4> QED
          BY <4>3, <4>4
      <3>3. g \in [1..d -> 1..n] /\ \A i \in 1..d : g[i] = i
        BY <2>4, <3>1, <3>2
      <3>4. Ascending(g, d)
        BY <3>3 DEF Ascending
      <3> QED
        BY <2>3, <3>1, <3>2, <3>3, <3>4 DEF Placed
    <2> QED
      BY <2>2, <2>5
  <1>2. CASE mode = "both"
    <2>1. PICK S : S = Counted
      OBVIOUS
    <2>2. PICK T : T = ToSet(File("out")) \cup ToSet(File("err"))
      OBVIOUS
    <2>3. "out" \in Streams /\ "err" \in Streams
      BY DEF Streams
    <2>4. DiskLines(mode) = ByNumber(S) /\ Log(mode) = ByNumber(T)
      BY <1>2, <2>1, <2>2 DEF DiskLines, Log, Counted, File
    <2>5. S \in SUBSET Line /\ IsFiniteSet(S)
      BY <2>1, CountedFinite
    <2>6. T \in SUBSET Line /\ IsFiniteSet(T)
      BY <2>2, <2>3, FileParts, ToSetFinite, FS_Union
    <2>7. S \in SUBSET T
      <3>1. \A s \in Streams : disk[s] \in Seq(Line) /\ late[s] \in Seq(Line)
        BY DEF Types
      <3>2. \A s \in Streams : ToSet(File(s)) = ToSet(disk[s]) \cup ToSet(late[s])
        BY <3>1, ConcatSet DEF File
      <3> QED
        BY <2>1, <2>2, <2>3, <3>2 DEF Counted
    <2>8. PICK N : N = Numbers(S)
      OBVIOUS
    <2>9. PICK M : M = Numbers(T)
      OBVIOUS
    <2>10. N \in SUBSET Nat /\ IsFiniteSet(N) /\ M \in SUBSET Nat /\ IsFiniteSet(M) /\ N \in SUBSET M
      BY <2>5, <2>6, <2>7, <2>8, <2>9, NumbersFinite DEF Numbers
    <2>11. PICK d \in Nat : d = Cardinality(N)
      BY <2>10, FS_CardinalityType
    <2>12. PICK n \in Nat : n = Cardinality(M)
      BY <2>10, FS_CardinalityType
    <2>13. PICK x : x = InOrder(N)
      OBVIOUS
    <2>14. PICK y : y = InOrder(M)
      OBVIOUS
    <2>15. /\ \A i \in 1..d : x[i] \in N
           /\ \A i, j \in 1..d : i < j => x[i] < x[j]
      BY <2>10, <2>11, <2>13, InOrderAt, InOrderAscends
    <2>16. /\ \A i \in 1..n : y[i] \in M
           /\ \A i, j \in 1..n : i < j => y[i] < y[j]
      BY <2>10, <2>12, <2>14, InOrderAt, InOrderAscends
    <2>17. \A z \in M : \E p \in 1..n : y[p] = z
      <3>1. DOMAIN y = 1..n /\ ToSet(y) = M
        BY <2>10, <2>12, <2>14, InOrderAll
      <3> QED
        BY <3>1 DEF ToSet
    <2>18. \A i \in 1..d : \E p \in 1..n : y[p] = x[i]
      BY <2>10, <2>15, <2>17
    <2>19. PICK g : g = [i \in 1..d |-> CHOOSE p \in 1..n : y[p] = x[i]]
      OBVIOUS
    <2>20. g \in [1..d -> 1..n] /\ \A i \in 1..d : y[g[i]] = x[i]
      <3>1. \A i \in 1..d : g[i] \in 1..n /\ y[g[i]] = x[i]
        BY <2>18, <2>19
      <3> QED
        BY <2>19, <3>1
    <2>21. Ascending(g, d)
      <3> SUFFICES ASSUME NEW i \in 1..d, NEW j \in 1..d, i < j, ~(g[i] < g[j]) PROVE FALSE
        BY DEF Ascending
      <3>1. g[i] \in 1..n /\ g[j] \in 1..n /\ y[g[i]] = x[i] /\ y[g[j]] = x[j]
        BY <2>20
      <3>2. x[i] < x[j] /\ x[i] \in Nat /\ x[j] \in Nat
        BY <2>10, <2>15
      <3>3. g[j] < g[i] \/ g[j] = g[i]
        BY <3>1
      <3>4. CASE g[j] = g[i]
        BY <3>1, <3>2, <3>4
      <3>5. CASE g[j] < g[i]
        <4>1. x[j] < x[i]
          BY <2>16, <3>1, <3>5
        <4> QED
          BY <3>2, <4>1
      <3> QED
        BY <3>3, <3>4, <3>5
    <2>22. /\ Len(ByNumber(S)) = d
           /\ \A i \in 1..d : ByNumber(S)[i] \in S /\ ByNumber(S)[i].n = x[i]
      BY <2>5, <2>8, <2>11, <2>13, ByNumberSeq
    <2>23. /\ Len(ByNumber(T)) = n
           /\ \A i \in 1..n : ByNumber(T)[i] \in T /\ ByNumber(T)[i].n = y[i]
      BY <2>6, <2>9, <2>12, <2>14, ByNumberSeq
    <2>24. ASSUME NEW i \in 1..d PROVE ByNumber(S)[i] = ByNumber(T)[g[i]]
      <3>1. PICK l \in T : l = ByNumber(S)[i]
        BY <2>7, <2>22
      <3>2. PICK k \in T : k = ByNumber(T)[g[i]]
        BY <2>20, <2>23
      <3>3. l.n = k.n
        BY <2>20, <2>22, <2>23, <3>1, <3>2
      <3>4. \A s, t \in Streams : l \in ToSet(File(s)) /\ k \in ToSet(File(t)) => l = k
        BY <3>3, SameNumber
      <3>5. l = k
        BY <2>2, <2>3, <3>4
      <3> QED
        BY <3>1, <3>2, <3>5
    <2>25. Placed(ByNumber(S), ByNumber(T), g)
      BY <2>20, <2>21, <2>22, <2>23, <2>24 DEF Placed
    <2> QED
      BY <2>4, <2>25
  <1> QED
    BY <1>1, <1>2

(* The first b of the placed lines and the last h of the log: the places   *)
(* of the b leave room for the h.                                          *)
Kept(at, g, n, h, b, m) ==
    /\ at \in [1..m -> 1..n] /\ Ascending(at, m)
    /\ \A p \in 1..n : p > n - h => \E i \in 1..m : at[i] = p
    /\ \A i \in 1..b : at[i] = g[i]
    /\ \A j \in 1..h : at[b + j] = n - h + j

LEMMA Places ==
    ASSUME NEW n \in Nat, NEW d \in Nat, NEW h \in Nat, NEW b \in Nat, NEW m \in Nat,
           h <= n, b <= d, d <= m, b > 0 => b = d - h, m = b + h,
           NEW g \in [1..d -> 1..n], Ascending(g, d)
    PROVE  m <= n /\ \E at : Kept(at, g, n, h, b, m)
  <1>1. ASSUME NEW i \in 1..b PROVE i \in 1..d /\ g[i] \in 1..n /\ g[i] <= n - h - (b - i)
    <2>1. i \in 1..d /\ b = d - h
      OBVIOUS
    <2>2. g[i] \in 1..n /\ g[i] + (d - i) <= n
      BY <2>1, Room
    <2> QED
      BY <2>1, <2>2
  <1>2. m <= n
    <2>1. CASE b = 0
      BY <2>1
    <2>2. CASE b > 0
      <3>1. 1 \in 1..b
        BY <2>2
      <3>2. g[1] \in 1..n /\ g[1] <= n - h - (b - 1)
        BY <1>1, <3>1
      <3> QED
        BY <3>2
    <2> QED
      BY <2>1, <2>2
  <1>3. PICK at : at = [i \in 1..m |-> IF i <= b THEN g[i] ELSE n - m + i]
    OBVIOUS
  <1>4. ASSUME NEW i \in 1..m PROVE i <= b => i \in 1..b /\ at[i] = g[i]
    BY <1>3
  <1>5. ASSUME NEW i \in 1..m PROVE i > b => at[i] = n - m + i
    <2>1. i > b => ~(i <= b)
      OBVIOUS
    <2> QED
      BY <1>3, <2>1
  <1>6. ASSUME NEW i \in 1..m PROVE at[i] \in 1..n
    <2>1. CASE i <= b
      BY <1>1, <1>4, <2>1
    <2>2. CASE i > b
      <3>1. n - m + i \in 1..n
        BY <1>2
      <3> QED
        BY <1>5, <2>2, <3>1
    <2> QED
      BY <2>1, <2>2
  <1>7. at \in [1..m -> 1..n]
    BY <1>3, <1>6
  <1>8. ASSUME NEW i \in 1..m, NEW j \in 1..m, i < j PROVE at[i] < at[j]
    <2>1. CASE j <= b
      <3>1. i <= b
        BY <1>8, <2>1
      <3>2. /\ i \in 1..b /\ at[i] = g[i] /\ i \in 1..d
            /\ j \in 1..b /\ at[j] = g[j] /\ j \in 1..d
        BY <1>1, <1>4, <2>1, <3>1
      <3>3. g[i] < g[j]
        BY <1>8, <3>2 DEF Ascending
      <3> QED
        BY <3>2, <3>3
    <2>2. CASE i <= b /\ j > b
      <3>1. PICK k \in 1..n : k = at[i] /\ k <= n - h - (b - i)
        BY <1>1, <1>4, <2>2
      <3>2. at[j] = n - m + j
        BY <1>5, <2>2
      <3>3. k < n - m + j
        BY <1>8, <2>2, <3>1
      <3> QED
        BY <3>1, <3>2, <3>3
    <2>3. CASE i > b
      <3>1. j > b
        BY <1>8, <2>3
      <3>2. at[i] = n - m + i /\ at[j] = n - m + j
        BY <1>5, <2>3, <3>1
      <3>3. n - m + i < n - m + j
        BY <1>8
      <3> QED
        BY <3>2, <3>3
    <2> QED
      BY <2>1, <2>2, <2>3
  <1>9. ASSUME NEW p \in 1..n, p > n - h PROVE \E i \in 1..m : at[i] = p
    <2>1. PICK i \in 1..m : i = p - (n - m) /\ i > b /\ n - m + i = p
      BY <1>2, <1>9
    <2> QED
      BY <1>5, <2>1
  <1>10. ASSUME NEW j \in 1..h PROVE at[b + j] = n - h + j
    <2>1. PICK i \in 1..m : i = b + j /\ i > b /\ n - m + i = n - h + j
      OBVIOUS
    <2> QED
      BY <1>5, <2>1
  <1>11. ASSUME NEW i \in 1..b PROVE at[i] = g[i]
    <2>1. i \in 1..m /\ i <= b
      OBVIOUS
    <2> QED
      BY <1>4, <2>1
  <1>12. Ascending(at, m)
    BY <1>8 DEF Ascending
  <1> QED
    BY <1>2, <1>7, <1>9, <1>10, <1>11, <1>12 DEF Kept

(* The counted lines before the boundary, then the ring buffer, are the    *)
(* log with some lines left out before the buffer.                         *)
Thinned(log, hot, m, at) ==
    /\ at \in [1..m -> 1..Len(log)] /\ Ascending(at, m)
    /\ \A p \in 1..Len(log) : p > Len(log) - Len(hot) => \E i \in 1..m : at[i] = p

Shown(log, lines, hot, b, m, at, shown) ==
    /\ Thinned(log, hot, m, at)
    /\ shown = [i \in 1..m |-> log[at[i]]]
    /\ shown \in Seq(Line) /\ Len(shown) = m /\ Continues(hot, shown)
    /\ \A i \in 1..b : shown[i] = lines[i]

LEMMA SeamThins ==
    ASSUME NEW log \in Seq(Line), NEW lines \in Seq(Line), NEW hot \in Seq(Line),
           Continues(hot, log), NEW g, Placed(lines, log, g),
           NEW b \in Nat, NEW m \in Nat, b <= Len(lines), Len(lines) <= m,
           b > 0 => b = Len(lines) - Len(hot), m = b + Len(hot)
    PROVE  m <= Len(log) /\ \E at, shown : Shown(log, lines, hot, b, m, at, shown)
  <1>1. PICK n \in Nat : n = Len(log)
    OBVIOUS
  <1>2. PICK d \in Nat : d = Len(lines)
    OBVIOUS
  <1>3. PICK h \in Nat : h = Len(hot)
    OBVIOUS
  <1>4. h <= n /\ \A j \in 1..h : hot[j] = log[n - h + j]
    BY <1>1, <1>3 DEF Continues
  <1>5. g \in [1..d -> 1..n] /\ Ascending(g, d) /\ \A i \in 1..d : lines[i] = log[g[i]]
    BY <1>1, <1>2 DEF Placed
  <1>6. b <= d /\ d <= m /\ (b > 0 => b = d - h) /\ m = b + h
    BY <1>2, <1>3
  <1>7. m <= n /\ \E at : Kept(at, g, n, h, b, m)
    <2>1. g \in [1..d -> 1..n]
      BY <1>5
    <2> QED
      BY ONLY <1>4, <1>5, <1>6, <2>1, Places, b \in Nat, m \in Nat, n \in Nat, d \in Nat, h \in Nat
  <1>8. PICK at : /\ at \in [1..m -> 1..n] /\ Ascending(at, m)
                  /\ \A p \in 1..n : p > n - h => \E i \in 1..m : at[i] = p
                  /\ \A i \in 1..b : at[i] = g[i]
                  /\ \A j \in 1..h : at[b + j] = n - h + j
    BY <1>7 DEF Kept
  <1>9. Thinned(log, hot, m, at)
    BY <1>1, <1>3, <1>8 DEF Thinned
  <1>10. PICK shown : shown = [i \in 1..m |-> log[at[i]]]
    OBVIOUS
  <1>11. shown \in Seq(Line) /\ Len(shown) = m /\ \A i \in 1..m : shown[i] = log[at[i]]
    <2>1. \A i \in 1..m : log[at[i]] \in Line
      BY <1>1, <1>8, ElementOfSeq
    <2> QED
      BY <1>10, <2>1
  <1>12. Continues(hot, shown)
    <2>1. ASSUME NEW j \in 1..h PROVE hot[j] = shown[m - h + j]
      <3>1. PICK k \in 1..m : k = b + j /\ k = m - h + j
        BY ONLY <1>6, b \in Nat, m \in Nat, h \in Nat, j \in 1..h
      <3>2. shown[k] = log[at[k]] /\ at[k] = n - h + j
        BY <1>8, <1>11, <3>1
      <3> QED
        BY <1>4, <3>1, <3>2
    <2>2. h <= m
      BY ONLY <1>6, b \in Nat, m \in Nat, h \in Nat
    <2> QED
      BY <1>3, <1>11, <2>1, <2>2 DEF Continues
  <1>13. ASSUME NEW i \in 1..b PROVE shown[i] = lines[i]
    <2>1. i \in 1..m /\ i \in 1..d
      BY ONLY <1>6, b \in Nat, m \in Nat, d \in Nat, h \in Nat, i \in 1..b
    <2>2. shown[i] = log[at[i]] /\ at[i] = g[i] /\ lines[i] = log[g[i]]
      BY <1>5, <1>8, <1>11, <2>1
    <2> QED
      BY <2>2
  <1>14. Shown(log, lines, hot, b, m, at, shown)
    BY <1>9, <1>10, <1>11, <1>12, <1>13 DEF Shown
  <1> QED
    BY <1>1, <1>7, <1>14

(* Up to the boundary it does not matter which of the two is read.         *)
LEMMA SameStretch ==
    ASSUME NEW lines \in Seq(Line), NEW shown \in Seq(Line), NEW b \in Nat,
           b <= Len(lines), b <= Len(shown), \A i \in 1..b : shown[i] = lines[i],
           NEW start \in Nat, NEW q \in Nat, q <= b
    PROVE  SubSeq(lines, start + 1, q) = SubSeq(shown, start + 1, q)
  <1>1. CASE q <= start
    BY <1>1, SubSeqEmpty
  <1>2. CASE start < q
    <2>1. PICK u : u = SubSeq(lines, start + 1, q)
      OBVIOUS
    <2>2. PICK v : v = SubSeq(shown, start + 1, q)
      OBVIOUS
    <2>3. /\ u \in Seq(Line) /\ Len(u) = q - start
          /\ \A i \in 1..(q - start) : u[i] = lines[start + i]
      BY <1>2, <2>1, Stretch
    <2>4. /\ v \in Seq(Line) /\ Len(v) = q - start
          /\ \A i \in 1..(q - start) : v[i] = shown[start + i]
      BY <1>2, <2>2, Stretch
    <2>5. \A i \in 1..(q - start) : start + i \in 1..b
      BY <1>2
    <2>6. \A i \in 1..Len(u) : u[i] = v[i]
      BY <2>3, <2>4, <2>5
    <2>7. u = v
      BY <2>3, <2>4, <2>6, SeqEqual
    <2> QED
      BY <2>1, <2>2, <2>7
  <1> QED
    BY <1>1, <1>2

(* The window over the two parts is the window over the thinned log.       *)
LEMMA WindowIsThinned ==
    ASSUME Types, Numbered
    PROVE  ViewExact
  <1> SUFFICES ASSUME Continued
               PROVE  \E m \in Len(DiskLines(app.mode))..Len(Log(app.mode)) :
                      \E at \in [1..m -> 1..Len(Log(app.mode))] :
                        /\ Thinned(Log(app.mode), HotLines(app.mode), m, at)
                        /\ visible_lines = Window([i \in 1..m |-> Log(app.mode)[at[i]]])
    BY DEF ViewExact, Thinned, Ascending
  <1>1. app.mode \in Modes /\ app.offset \in Nat /\ app.reader
    BY DEF Types, Apps, Continued
  <1>2. PICK log : log = Log(app.mode)
    OBVIOUS
  <1>3. PICK lines : lines = DiskLines(app.mode)
    OBVIOUS
  <1>4. PICK hot : hot = HotLines(app.mode)
    OBVIOUS
  <1>5. /\ log \in Seq(Line) /\ Len(log) \in Nat
        /\ lines \in Seq(Line) /\ Len(lines) \in Nat
        /\ hot \in Seq(Line) /\ Len(hot) \in Nat
    BY <1>1, <1>2, <1>3, <1>4, LogSeq, DiskSeq, HotSeq
  <1>6. Continues(hot, log)
    BY <1>2, <1>4, <1>5, SuffixIs DEF Continued
  <1>7. PICK g : Placed(lines, log, g)
    BY <1>1, <1>2, <1>3, DiskPlaced
  <1>8. PICK b : b = Sub(Len(lines), Len(hot))
    OBVIOUS
  <1>9. /\ b \in Nat /\ b <= Len(lines) /\ disk_boundary = b
        /\ b + Len(hot) = IF Len(hot) >= Len(lines) THEN Len(hot) ELSE Len(lines)
        /\ Len(lines) <= b + Len(hot) /\ (b > 0 => b = Len(lines) - Len(hot))
    <2>1. PICK d \in Nat : d = Len(lines)
      BY <1>5
    <2>2. PICK h \in Nat : h = Len(hot)
      BY <1>5
    <2>3. b = IF d > h THEN d - h ELSE 0
      BY <1>8, <2>1, <2>2 DEF Sub
    <2>4. /\ b \in Nat /\ b <= d /\ b + h = (IF h >= d THEN h ELSE d) /\ d <= b + h
          /\ b > 0 => b = d - h
      BY ONLY <2>3, d \in Nat, h \in Nat
    <2>5. disk_boundary = b
      BY <1>3, <1>4, <1>8 DEF disk_boundary
    <2> QED
      BY <2>1, <2>2, <2>4, <2>5
  <1>10. PICK m \in Nat : m = b + Len(hot)
    BY <1>5, <1>9
  <1>11. m <= Len(log) /\ \E at, shown : Shown(log, lines, hot, b, m, at, shown)
    BY ONLY <1>5, <1>6, <1>7, <1>9, <1>10, SeamThins, m \in Nat
  <1>12. PICK at, shown : Shown(log, lines, hot, b, m, at, shown)
    BY <1>11
  <1>13. /\ m \in Len(lines)..Len(log) /\ Thinned(log, hot, m, at)
         /\ shown = [i \in 1..m |-> log[at[i]]]
         /\ shown \in Seq(Line) /\ Len(shown) = m /\ Continues(hot, shown)
         /\ \A i \in 1..b : shown[i] = lines[i]
    <2>1. Len(lines) <= m /\ m <= Len(log)
      BY <1>9, <1>10, <1>11
    <2>2. m \in Len(lines)..Len(log)
      BY ONLY <1>5, <2>1, m \in Nat
    <2> QED
      BY <1>12, <2>2 DEF Shown
  <1>14. m \in Nat /\ total_line_count = m
    <2>1. Max({Len(hot), Len(lines)}) = IF Len(hot) >= Len(lines) THEN Len(hot) ELSE Len(lines)
      BY <1>5, MaxOfTwo
    <2> QED
      BY <1>3, <1>4, <1>5, <1>9, <1>10, <2>1 DEF total_line_count
  <1>15. PICK end : end = WindowEnd(m)
    OBVIOUS
  <1>16. /\ end \in Nat /\ end <= m
         /\ end = IF ~app.paused THEN m
                  ELSE IF app.offset > m THEN 0 ELSE m - app.offset
    BY <1>1, <1>14, <1>15 DEF WindowEnd, Sub
  <1>17. PICK start : start = Sub(end, Height)
    OBVIOUS
  <1>18. /\ start \in Nat /\ start <= end
         /\ Max({1, end - Height + 1}) = start + 1
    <2>1. Height \in Nat /\ Height # 0
      BY SizesAssumption
    <2>2. end - Height + 1 \in Int
      BY <1>16, <2>1
    <2>3. Max({1, end - Height + 1}) = IF 1 >= end - Height + 1 THEN 1 ELSE end - Height + 1
      BY <2>2, MaxOfTwo
    <2> QED
      BY <1>16, <1>17, <2>1, <2>3 DEF Sub
  <1>19. Sub(end, b) \in Nat /\ Sub(start, b) \in Nat
    BY <1>9, <1>16, <1>18, SubIs
  <1>20. Min({end, b}) = Least(end, b)
    BY <1>9, <1>16, MinOfTwo
  <1>21. Min({Sub(end, b), Len(hot)}) = Least(Sub(end, b), Len(hot))
    BY <1>5, <1>19, MinOfTwo
  <1>22. visible_lines = Joined(lines, hot, start, end, b)
    BY <1>3, <1>4, <1>9, <1>14, <1>15, <1>17, <1>20, <1>21 DEF visible_lines, Joined
  <1>23. Joined(lines, hot, start, end, b) = Joined(shown, hot, start, end, b)
    <2>1. PICK q \in Nat : q = Least(end, b) /\ q <= b
      BY <1>9, <1>16 DEF Least
    <2>2. b <= Len(shown)
      BY <1>5, <1>9, <1>10, <1>13
    <2>3. SubSeq(lines, start + 1, q) = SubSeq(shown, start + 1, q)
      <3>1. /\ lines \in Seq(Line) /\ shown \in Seq(Line) /\ b \in Nat /\ start \in Nat
            /\ b <= Len(lines) /\ q <= b /\ \A i \in 1..b : shown[i] = lines[i]
        BY <1>5, <1>9, <1>13, <1>18, <2>1
      <3> QED
        BY ONLY <2>2, <3>1, SameStretch, q \in Nat
    <2> QED
      BY <2>1, <2>3 DEF Joined
  <1>24. Joined(shown, hot, start, end, b) = SubSeq(shown, start + 1, end)
    <2>1. Cut(shown, hot, start, end, b)
      BY <1>5, <1>9, <1>10, <1>13, <1>16, <1>18 DEF Cut
    <2> QED
      BY <2>1, Seam
  <1>25. visible_lines = Window(shown)
    BY <1>13, <1>16, <1>18, <1>22, <1>23, <1>24 DEF Window
  <1>26. at \in [1..m -> 1..Len(log)]
    BY <1>13 DEF Thinned
  <1> QED
    BY <1>2, <1>3, <1>4, <1>13, <1>25, <1>26

(* For every size of buffer, preload and window, in every stream mode and  *)
(* wherever flushes, rotations and evictions fall: as long as the stream   *)
(* lost nothing, what is drawn is the window of the log without at most as *)
(* many lines as are not yet counted, none of them in the ring buffer.     *)
THEOREM ViewExactHolds == Spec => []ViewExact
  <1>1. Init => Types /\ Numbered
    BY InitTypes, InitNumbered
  <1>2. Types /\ Numbered /\ [Next]_vars => (Types /\ Numbered)'
    BY TypesStep, NumberedStep
  <1>3. Types /\ Numbered => ViewExact
    BY WindowIsThinned
  <1> QED
    BY <1>1, <1>2, <1>3, PTL DEF Spec
=============================================================================
