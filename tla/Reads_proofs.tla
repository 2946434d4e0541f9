------------------------------ MODULE Reads_proofs ------------------------------
(***************************************************************************)
(* What is read is right, whatever is committed between the reads.         *)
(*                                                                         *)
(* A graph: its traversal reaches level by level what the edges reach in   *)
(* as many steps (Reach), as long as nothing is cut.  A listing: the rows  *)
(* of a page are the first after its cursor in one total order of keys, so *)
(* that the pages follow each other without a gap; the associations of a   *)
(* page are drawn from all the rows that were valid in the time of each of *)
(* its deployments, or nothing is concluded.                               *)
(***************************************************************************)
EXTENDS Reads, FiniteSetTheorems, SequenceTheorems, TLAPS

-----------------------------------------------------------------------------
(* Numbers                                                                 *)

\* A nonempty finite set of integers has a least element.
LEMMA FiniteMinimum ==
  ASSUME NEW S, S \subseteq Int, IsFiniteSet(S), S # {}
  PROVE  \E m \in S : \A s \in S : m <= s
<1> DEFINE Upto(x) == {y \in S : y <= x}
           T == {Upto(x) : x \in S}
<1>1. IsWellFoundedOn(StrictSubsetOrdering(S), SUBSET S)
  BY FS_StrictSubsetOrderingWellFounded, FS_FiniteSubsetsOfFinite
<1>2. T \subseteq SUBSET S /\ T # {}
  OBVIOUS
<1>3. PICK U \in T : \A V \in T : ~(<<V, U>> \in StrictSubsetOrdering(S))
  <2> HIDE DEF T
  <2> QED BY <1>1, <1>2, WFMin
<1>4. PICK m \in S : U = Upto(m)
  OBVIOUS
<1>5. ASSUME NEW s \in S, s < m
      PROVE  FALSE
  <2>1. Upto(s) \subseteq Upto(m)
    <3>1. \A x, y, z \in Int : x <= y /\ y < z => x <= z
      OBVIOUS
    <3> QED BY <1>5, <3>1
  <2>2. m \in Upto(m)
    OBVIOUS
  <2>3. m \notin Upto(s)
    BY <1>5
  <2>4. <<Upto(s), Upto(m)>> \in StrictSubsetOrdering(S)
    BY <2>1, <2>2, <2>3 DEF StrictSubsetOrdering
  <2> QED BY <1>3, <1>4, <2>4
<1> QED BY <1>5

\* A set of numbers that has 0, and the next of each that it has, has them all.
LEMMA NumbersFrom0 ==
  ASSUME NEW S, 0 \in S, \A n \in Nat : n \in S => n + 1 \in S
  PROVE  \A n \in Nat : n \in S
<1> SUFFICES ASSUME NEW n \in Nat, n \notin S
             PROVE  FALSE
  OBVIOUS
<1> DEFINE T == {m \in 0..n : m \notin S}
<1>1. IsFiniteSet(T)
  <2>1. T \in SUBSET (0..n)
    OBVIOUS
  <2>2. IsFiniteSet(0..n)
    BY FS_Interval
  <2> HIDE DEF T
  <2> QED BY <2>1, <2>2, FS_Subset
<1>2. T \subseteq Int /\ T # {}
  OBVIOUS
<1>3. PICK m \in T : \A k \in T : m <= k
  <2> HIDE DEF T
  <2> QED BY <1>1, <1>2, FiniteMinimum
<1>4. m # 0 /\ m - 1 \in Nat /\ m - 1 \in 0..n
  BY <1>3
<1>5. m - 1 \in S
  BY <1>3, <1>4
<1> QED BY <1>3, <1>4, <1>5

-----------------------------------------------------------------------------
(* Finite sets in a total order: below[x] is what comes before x           *)

\* The places of the elements are those from 1 to their number.
LEMMA Places ==
  ASSUME NEW S, IsFiniteSet(S), NEW below \in [S -> SUBSET S],
         \A x \in S : x \notin below[x],
         \A x, y \in S : x \in below[y] => below[x] \subseteq below[y],
         \A x, y \in S : x = y \/ x \in below[y] \/ y \in below[x]
  PROVE  /\ Cardinality(S) \in Nat
         /\ \A x \in S : Cardinality(below[x]) \in Nat /\ Cardinality(below[x]) < Cardinality(S)
         /\ \A x, y \in S : x \in below[y] <=> Cardinality(below[x]) < Cardinality(below[y])
         /\ \A x, y \in S : Cardinality(below[x]) = Cardinality(below[y]) => x = y
         /\ \A n \in 1..Cardinality(S) : \E x \in S : Cardinality(below[x]) = n - 1
<1>1. Cardinality(S) \in Nat
  BY FS_CardinalityType
<1>2. \A x \in S : IsFiniteSet(below[x]) /\ Cardinality(below[x]) \in Nat
  <2>1. ASSUME NEW x \in S
        PROVE  IsFiniteSet(below[x]) /\ Cardinality(below[x]) \in Nat
    <3>1. below[x] \in SUBSET S
      OBVIOUS
    <3>2. IsFiniteSet(below[x])
      BY <3>1, FS_Subset
    <3> QED BY <3>2, FS_CardinalityType
  <2> QED BY <2>1
<1>3. ASSUME NEW x \in S, NEW y \in S, x \in below[y]
      PROVE  Cardinality(below[x]) < Cardinality(below[y])
  <2>1. below[x] \in SUBSET below[y] /\ below[x] # below[y]
    BY <1>3
  <2>2. IsFiniteSet(below[y])
    BY <1>2
  <2>3. Cardinality(below[x]) <= Cardinality(below[y])
        /\ Cardinality(below[x]) # Cardinality(below[y])
    BY <2>1, <2>2, FS_Subset
  <2> QED BY <1>2, <2>3
<1>4. ASSUME NEW x \in S, NEW y \in S, Cardinality(below[x]) = Cardinality(below[y])
      PROVE  x = y
  BY <1>2, <1>3, <1>4
<1>5. ASSUME NEW x \in S, NEW y \in S, Cardinality(below[x]) < Cardinality(below[y])
      PROVE  x \in below[y]
  <2>1. ~ (Cardinality(below[y]) < Cardinality(below[x]))
        /\ Cardinality(below[x]) # Cardinality(below[y])
    BY <1>2, <1>5
  <2> QED BY <1>3, <2>1
<1>6. \A x \in S : Cardinality(below[x]) < Cardinality(S)
  <2>1. ASSUME NEW x \in S
        PROVE  Cardinality(below[x]) < Cardinality(S)
    <3>1. below[x] \in SUBSET S /\ below[x] # S
      OBVIOUS
    <3>2. Cardinality(below[x]) <= Cardinality(S) /\ Cardinality(below[x]) # Cardinality(S)
      BY <3>1, FS_Subset
    <3> QED BY <1>1, <1>2, <3>2
  <2> QED BY <2>1
<1>7. \A n \in 1..Cardinality(S) : \E x \in S : Cardinality(below[x]) = n - 1
  <2> DEFINE T == 1..Cardinality(S)
             f == [x \in S |-> Cardinality(below[x]) + 1]
  <2>1. IsFiniteSet(T) /\ Cardinality(T) = Cardinality(S)
    <3>1. 1 \in Int /\ Cardinality(S) \in Int
      BY <1>1
    <3>2. /\ IsFiniteSet(1..Cardinality(S))
          /\ Cardinality(1..Cardinality(S)) =
               IF 1 > Cardinality(S) THEN 0 ELSE Cardinality(S) - 1 + 1
      BY <3>1, FS_Interval
    <3> QED BY <1>1, <3>2
  <2>2. f \in Injection(S, T)
    <3>1. f \in [S -> T]
      BY <1>1, <1>2, <1>6
    <3>2. \A x, y \in S : f[x] = f[y] => x = y
      BY <1>2, <1>4
    <3> QED BY <3>1, <3>2 DEF Injection, IsInjective
  <2>3. f \in Surjection(S, T)
    <3> HIDE DEF T, f
    <3> QED BY <2>1, <2>2, FS_Injection
  <2>4. ASSUME NEW n \in 1..Cardinality(S)
        PROVE  \E x \in S : Cardinality(below[x]) = n - 1
    <3>1. PICK x \in S : f[x] = n
      BY <2>3 DEF Surjection
    <3> QED BY <1>1, <1>2, <3>1
  <2> QED BY <2>4
<1> QED BY <1>1, <1>2, <1>3, <1>4, <1>5, <1>6, <1>7

\* The first n are at most n; they are all of them, or n.
LEMMA FirstAre ==
  ASSUME NEW S, IsFiniteSet(S), NEW below \in [S -> SUBSET S], NEW n \in Nat,
         \A x \in S : x \notin below[x],
         \A x, y \in S : x \in below[y] => below[x] \subseteq below[y],
         \A x, y \in S : x = y \/ x \in below[y] \/ y \in below[x],
         NEW F, F = {x \in S : Cardinality(below[x]) < n}
  PROVE  /\ F \in SUBSET S /\ IsFiniteSet(F)
         /\ Cardinality(F) \in Nat /\ Cardinality(F) <= n
         /\ F = S \/ Cardinality(F) = n
<1>1. /\ Cardinality(S) \in Nat
      /\ \A x \in S : Cardinality(below[x]) \in Nat /\ Cardinality(below[x]) < Cardinality(S)
      /\ \A x, y \in S : Cardinality(below[x]) = Cardinality(below[y]) => x = y
      /\ \A k \in 1..Cardinality(S) : \E x \in S : Cardinality(below[x]) = k - 1
  BY Places
<1>2. F \in SUBSET S /\ IsFiniteSet(F) /\ Cardinality(F) \in Nat
  <2>1. F \in SUBSET S
    OBVIOUS
  <2> QED BY <2>1, FS_Subset, FS_CardinalityType
<1> DEFINE f == [x \in F |-> Cardinality(below[x]) + 1]
           T == 1..n
<1>3. f \in [F -> T]
  BY <1>1
<1>4. f \in Injection(F, T)
  <2>1. \A u, v \in F : f[u] = f[v] => u = v
    BY <1>1
  <2> QED BY <1>3, <2>1 DEF Injection, IsInjective
<1>5. IsFiniteSet(T) /\ Cardinality(T) = n
  <2>1. /\ IsFiniteSet(1..n)
        /\ Cardinality(1..n) = IF 1 > n THEN 0 ELSE n - 1 + 1
    BY FS_Interval
  <2> QED BY <2>1
<1>6. Cardinality(F) <= n
  <2> HIDE DEF f, T
  <2> QED BY <1>4, <1>5, FS_Injection
<1>7. ASSUME F # S
      PROVE  Cardinality(F) = n
  <2>1. PICK y \in S : y \notin F
    BY <1>2, <1>7
  <2>2. n < Cardinality(S)
    BY <1>1, <2>1
  <2>3. f \in Surjection(F, T)
    <3>1. \A k \in T : \E x \in F : f[x] = k
      <4>1. ASSUME NEW k \in T
            PROVE  \E x \in F : f[x] = k
        <5>1. k \in 1..Cardinality(S)
          BY <1>1, <2>2
        <5>2. PICK x \in S : Cardinality(below[x]) = k - 1
          BY <1>1, <5>1
        <5>3. x \in F /\ f[x] = k
          BY <5>2
        <5> QED BY <5>3
      <4> QED BY <4>1
    <3> QED BY <1>3, <3>1 DEF Surjection
  <2>4. Cardinality(T) = Cardinality(F)
    <3> HIDE DEF f, T
    <3> QED BY <1>2, <1>4, <2>3, FS_Surjection
  <2> QED BY <1>5, <2>4
<1> QED BY <1>2, <1>6, <1>7

-----------------------------------------------------------------------------
(* What can be reached from the roots R by the edges E                     *)

Step(E, X) == X \cup {e.to : e \in {f \in E : f.from \in X}}

\* g has what can be reached in each number of steps up to k.
Reaches(g, R, E, k) == g = [n \in 0..k |-> IF n = 0 THEN R ELSE Step(E, g[n - 1])]

Reach(R, E, k) == (CHOOSE g : Reaches(g, R, E, k))[k]

\* Within of the graph is what is reached here.
LEMMA WithinIsReach ==
  ASSUME NEW E, NEW k
  PROVE  G!Within(E, k) = Reach(roots, E, k)
BY DEF G!Within, Reach, Reaches, Step

\* For each number of steps there is such a function.
LEMMA ReachesExists ==
  ASSUME NEW R, NEW E
  PROVE  \A k \in Nat : \E g : Reaches(g, R, E, k)
<1> DEFINE S == {k \in Nat : \E g : Reaches(g, R, E, k)}
<1>1. 0 \in S
  <2> DEFINE g == [n \in 0..0 |-> R]
  <2>1. g = [n \in 0..0 |-> IF n = 0 THEN R ELSE Step(E, g[n - 1])]
    OBVIOUS
  <2> QED BY <2>1 DEF Reaches
<1>2. ASSUME NEW k \in Nat, k \in S
      PROVE  k + 1 \in S
  <2>1. PICK g : g = [n \in 0..k |-> IF n = 0 THEN R ELSE Step(E, g[n - 1])]
    BY <1>2 DEF Reaches
  <2> DEFINE h == [n \in 0..(k + 1) |-> IF n <= k THEN g[n] ELSE Step(E, g[k])]
  <2>2. ASSUME NEW n \in 0..(k + 1)
        PROVE  h[n] = IF n = 0 THEN R ELSE Step(E, h[n - 1])
    <3>1. CASE n = 0
      BY <2>1, <3>1
    <3>2. CASE n # 0 /\ n <= k
      <4>1. n \in 0..k /\ n - 1 \in 0..(k + 1) /\ n - 1 <= k
        BY <3>2
      <4>2. h[n] = g[n] /\ h[n - 1] = g[n - 1]
        BY <4>1
      <4>3. g[n] = Step(E, g[n - 1])
        BY <2>1, <3>2, <4>1
      <4> HIDE DEF h
      <4> QED BY <3>2, <4>2, <4>3
    <3>3. CASE n = k + 1
      <4>1. h[n] = Step(E, g[k]) /\ n - 1 = k /\ n # 0
        BY <3>3
      <4>2. h[k] = g[k]
        OBVIOUS
      <4> HIDE DEF h
      <4> QED BY <4>1, <4>2
    <3> QED BY <3>1, <3>2, <3>3
  <2>3. h = [n \in 0..(k + 1) |-> IF n = 0 THEN R ELSE Step(E, h[n - 1])]
    <3>1. h = [n \in 0..(k + 1) |-> h[n]]
      OBVIOUS
    <3> HIDE DEF h
    <3> QED BY <2>2, <3>1
  <2> HIDE DEF h
  <2> QED BY <2>3 DEF Reaches
<1> HIDE DEF S
<1>3. \A k \in Nat : k \in S
  BY <1>1, <1>2, NumbersFrom0
<1> QED BY <1>3 DEF S

\* What it has at the start and after each step.
LEMMA ReachesMeans ==
  ASSUME NEW R, NEW E, NEW k \in Nat, NEW g, Reaches(g, R, E, k)
  PROVE  g[0] = R /\ \A n \in 1..k : g[n] = Step(E, g[n - 1])
<1>1. g = [n \in 0..k |-> IF n = 0 THEN R ELSE Step(E, g[n - 1])]
  BY DEF Reaches
<1>2. 0 \in 0..k
  OBVIOUS
<1>3. ASSUME NEW n \in 1..k
      PROVE  g[n] = Step(E, g[n - 1])
  <2>1. n \in 0..k /\ n # 0
    OBVIOUS
  <2> QED BY <1>1, <2>1
<1> QED BY <1>1, <1>2, <1>3

\* What is reached in no steps, and in one step more.
LEMMA ReachIs ==
  ASSUME NEW R, NEW E
  PROVE  /\ Reach(R, E, 0) = R
         /\ \A k \in Nat : Reach(R, E, k + 1) = Step(E, Reach(R, E, k))
<1>1. Reach(R, E, 0) = R
  <2> DEFINE g == CHOOSE g : Reaches(g, R, E, 0)
  <2>1. Reaches(g, R, E, 0)
    BY ReachesExists
  <2>2. Reach(R, E, 0) = g[0]
    BY DEF Reach
  <2> HIDE DEF g
  <2> QED BY <2>1, <2>2, ReachesMeans
<1>2. ASSUME NEW k \in Nat
      PROVE  Reach(R, E, k + 1) = Step(E, Reach(R, E, k))
  <2> DEFINE g == CHOOSE g : Reaches(g, R, E, k)
             h == CHOOSE h : Reaches(h, R, E, k + 1)
             S == {n \in Nat : n <= k => g[n] = h[n]}
  <2>1. Reaches(g, R, E, k)
    BY ReachesExists
  <2>2. Reaches(h, R, E, k + 1)
    <3>1. \E f : Reaches(f, R, E, k + 1)
      BY ReachesExists
    <3> QED BY <3>1
  <2>3. Reach(R, E, k) = g[k] /\ Reach(R, E, k + 1) = h[k + 1]
    BY DEF Reach
  <2> HIDE DEF g, h
  <2>4. g[0] = R /\ \A n \in 1..k : g[n] = Step(E, g[n - 1])
    BY <2>1, ReachesMeans
  <2>5. h[0] = R /\ \A n \in 1..(k + 1) : h[n] = Step(E, h[n - 1])
    <3>1. PICK next \in Nat : next = k + 1
      OBVIOUS
    <3>2. Reaches(h, R, E, next)
      BY <2>2, <3>1
    <3>3. h[0] = R /\ \A n \in 1..next : h[n] = Step(E, h[n - 1])
      BY <3>2, ReachesMeans
    <3> QED BY <3>1, <3>3
  <2>6. 0 \in S
    BY <2>4, <2>5
  <2>7. ASSUME NEW n \in Nat, n \in S
        PROVE  n + 1 \in S
    <3>1. SUFFICES ASSUME n + 1 <= k
                   PROVE  g[n + 1] = h[n + 1]
      OBVIOUS
    <3>2. g[n] = h[n]
      BY <2>7, <3>1
    <3>3. PICK m \in 1..k : m = n + 1
      BY <3>1
    <3>4. m - 1 = n /\ m \in 1..(k + 1)
      BY <3>3
    <3>5. g[m] = Step(E, g[m - 1]) /\ h[m] = Step(E, h[m - 1])
      BY <2>4, <2>5, <3>4
    <3> QED BY <3>2, <3>3, <3>4, <3>5
  <2>8. k \in S
    <3> HIDE DEF S
    <3> QED BY <2>6, <2>7, NumbersFrom0
  <2>9. PICK m \in 1..(k + 1) : m = k + 1
    OBVIOUS
  <2>10. h[m] = Step(E, h[m - 1]) /\ m - 1 = k
    BY <2>5, <2>9
  <2> QED BY <2>3, <2>8, <2>9, <2>10
<1> QED BY <1>1, <1>2

\* What is reached stays in a set that no edge leaves.
LEMMA ReachStays ==
  ASSUME NEW R, NEW E, NEW X, R \subseteq X, \A e \in E : e.from \in X => e.to \in X
  PROVE  \A k \in Nat : Reach(R, E, k) \subseteq X
<1> DEFINE S == {k \in Nat : Reach(R, E, k) \subseteq X}
<1>1. 0 \in S
  BY ReachIs
<1>2. ASSUME NEW k \in Nat, k \in S
      PROVE  k + 1 \in S
  <2>1. Reach(R, E, k + 1) = Step(E, Reach(R, E, k))
    BY ReachIs
  <2>2. Step(E, Reach(R, E, k)) \subseteq X
    BY <1>2 DEF Step
  <2> QED BY <2>1, <2>2
<1> HIDE DEF S
<1>3. \A k \in Nat : k \in S
  BY <1>1, <1>2, NumbersFrom0
<1> QED BY <1>3 DEF S

\* More edges reach as much.
LEMMA ReachMore ==
  ASSUME NEW R, NEW E, NEW F, E \subseteq F
  PROVE  \A k \in Nat : Reach(R, E, k) \subseteq Reach(R, F, k)
<1> DEFINE S == {k \in Nat : Reach(R, E, k) \subseteq Reach(R, F, k)}
<1>1. 0 \in S
  BY ReachIs
<1>2. ASSUME NEW k \in Nat, k \in S
      PROVE  k + 1 \in S
  <2>1. /\ Reach(R, E, k + 1) = Step(E, Reach(R, E, k))
        /\ Reach(R, F, k + 1) = Step(F, Reach(R, F, k))
    BY ReachIs
  <2>2. Step(E, Reach(R, E, k)) \subseteq Step(F, Reach(R, F, k))
    BY <1>2 DEF Step
  <2> QED BY <2>1, <2>2
<1> HIDE DEF S
<1>3. \A k \in Nat : k \in S
  BY <1>1, <1>2, NumbersFrom0
<1> QED BY <1>3 DEF S

\* More steps reach as much.
LEMMA ReachGrows ==
  ASSUME NEW R, NEW E, NEW m \in Nat, NEW n \in Nat, m <= n
  PROVE  Reach(R, E, m) \subseteq Reach(R, E, n)
<1> DEFINE S == {d \in Nat : Reach(R, E, m) \subseteq Reach(R, E, m + d)}
<1>1. 0 \in S
  OBVIOUS
<1>2. ASSUME NEW d \in Nat, d \in S
      PROVE  d + 1 \in S
  <2>1. PICK k \in Nat : k = m + d
    OBVIOUS
  <2>2. Reach(R, E, k + 1) = Step(E, Reach(R, E, k))
    BY ReachIs
  <2>3. Reach(R, E, k) \subseteq Reach(R, E, k + 1)
    BY <2>2 DEF Step
  <2>4. k + 1 = m + (d + 1)
    BY <2>1
  <2> QED BY <1>2, <2>1, <2>3, <2>4
<1> HIDE DEF S
<1>3. \A d \in Nat : d \in S
  BY <1>1, <1>2, NumbersFrom0
<1>4. n - m \in Nat /\ m + (n - m) = n
  OBVIOUS
<1>5. n - m \in S
  BY <1>3, <1>4
<1> QED BY <1>4, <1>5 DEF S

\* Once the edges of what is reached lead nowhere else, no more is reached.
LEMMA ReachEnds ==
  ASSUME NEW R, NEW E, NEW m \in Nat, NEW n \in Nat, m <= n,
         \A e \in E : e.from \in Reach(R, E, m) => e.to \in Reach(R, E, m)
  PROVE  Reach(R, E, n) = Reach(R, E, m)
<1>1. Reach(R, E, m) \subseteq Reach(R, E, n)
  BY ReachGrows
<1>2. R \subseteq Reach(R, E, m)
  <2>1. Reach(R, E, 0) = R
    BY ReachIs
  <2>2. 0 \in Nat /\ 0 <= m
    OBVIOUS
  <2>3. Reach(R, E, 0) \subseteq Reach(R, E, m)
    BY <2>2, ReachGrows
  <2> QED BY <2>1, <2>3
<1>3. Reach(R, E, n) \subseteq Reach(R, E, m)
  <2> DEFINE X == Reach(R, E, m)
  <2>1. R \subseteq X /\ \A e \in E : e.from \in X => e.to \in X
    BY <1>2
  <2> HIDE DEF X
  <2>2. Reach(R, E, n) \subseteq X
    BY <2>1, ReachStays
  <2> QED BY <2>2 DEF X
<1> QED BY <1>1, <1>3

-----------------------------------------------------------------------------
(* What is the first of a graph                                            *)

\* The instance counts as this module does.
LEMMA SameCounts ==
  \A S : G!Cardinality(S) = Cardinality(S) /\ (G!IsFiniteSet(S) <=> IsFiniteSet(S))
<1>1. \A S : G!Cardinality(S) = Cardinality(S)
  BY DEF G!Cardinality, Cardinality
<1>2. \A S : G!IsFiniteSet(S) <=> IsFiniteSet(S)
  BY DEF G!IsFiniteSet, IsFiniteSet
<1> QED BY <1>1, <1>2

\* The constants of a graph.
LEMMA GraphFacts ==
  /\ Services \subseteq Int /\ IsFiniteSet(Services) /\ IsFiniteSet(Edges)
  /\ \A e \in Edges :
       /\ e.from \in Services /\ e.to \in Services \cup Others /\ e.to \in Int
       /\ e.from \in Int /\ e.number \in Int
       /\ e.start \in Int /\ e.end \in Int /\ e.rank \in 1..3
  /\ \A e, f \in Edges : e.from = f.from /\ e.to = f.to /\ e.number = f.number => e = f
  /\ \A c \in Commits : c.services \subseteq Services /\ c.edges \subseteq Edges
  /\ \A q \in GraphQueries :
       /\ q.all \in BOOLEAN /\ q.at \in Int /\ q.minimum \in Nat
       /\ q.depth \in Nat /\ q.depth >= 1 /\ q.maxNodes \in Nat /\ q.maxNodes >= 1
  /\ EdgesPerNode \in Nat
  /\ Readers \subseteq {"snapshot", "store"}
  /\ None \notin [services : SUBSET Services, edges : SUBSET Edges]
<1> USE GraphAssumption DEF G!GraphAssumption
<1>1. Services \subseteq Int /\ IsFiniteSet(Services) /\ IsFiniteSet(Edges)
  BY SameCounts
<1>2. \A e \in Edges :
        /\ e.from \in Services /\ e.to \in Services \cup Others
        /\ e.number \in Int /\ e.start \in Int /\ e.end \in Int /\ e.rank \in 1..3
  OBVIOUS
<1>3. Others \subseteq Int
  OBVIOUS
<1>4. \A e \in Edges : e.to \in Int /\ e.from \in Int
  BY <1>1, <1>2, <1>3
<1>5. \A e, f \in Edges : e.from = f.from /\ e.to = f.to /\ e.number = f.number => e = f
  OBVIOUS
<1>6. \A c \in Commits : c.services \subseteq Services /\ c.edges \subseteq Edges
  OBVIOUS
<1>7. \A q \in GraphQueries :
        /\ q.all \in BOOLEAN /\ q.at \in Int /\ q.minimum \in Nat
        /\ q.depth \in Nat /\ q.depth >= 1 /\ q.maxNodes \in Nat /\ q.maxNodes >= 1
  <2>1. \A q \in GraphQueries : q \in G!Query
    OBVIOUS
  <2> QED BY <2>1 DEF G!Query
<1> QED BY <1>1, <1>2, <1>4, <1>5, <1>6, <1>7

\* The order of edges is total.
LEMMA EdgesInOrder ==
  ASSUME NEW e \in Edges, NEW f \in Edges, NEW g \in Edges
  PROVE  /\ ~ G!EdgeLess(e, e)
         /\ G!EdgeLess(e, f) /\ G!EdgeLess(f, g) => G!EdgeLess(e, g)
         /\ e = f \/ G!EdgeLess(e, f) \/ G!EdgeLess(f, e)
BY GraphFacts DEF G!EdgeLess

\* The roots that are shown.
LEMMA FirstNodesAre ==
  ASSUME NEW S \in SUBSET Services, NEW n \in Nat, NEW F, F = G!FirstNodes(S, n)
  PROVE  /\ F \in SUBSET S /\ IsFiniteSet(F)
         /\ Cardinality(F) \in Nat /\ Cardinality(F) <= n
         /\ F = S \/ Cardinality(F) = n
<1> DEFINE B(x) == {y \in S : y < x}
           below == [x \in S |-> B(x)]
<1>1. S \subseteq Int /\ IsFiniteSet(S)
  BY GraphFacts, FS_Subset
<1>2. below \in [S -> SUBSET S]
  OBVIOUS
<1>3. \A x \in S : x \notin below[x]
  BY <1>1
<1>4. \A x, y \in S : x \in below[y] => below[x] \subseteq below[y]
  <2>1. \A x, y, z \in S : x < y /\ z < x => z < y
    BY <1>1
  <2> QED BY <2>1
<1>5. \A x, y \in S : x = y \/ x \in below[y] \/ y \in below[x]
  BY <1>1
<1>6. F = {x \in S : Cardinality(below[x]) < n}
  BY SameCounts DEF G!FirstNodes
<1>7. IsFiniteSet(S)
  BY <1>1
<1> HIDE DEF below
<1> QED BY <1>2, <1>3, <1>4, <1>5, <1>6, <1>7, FirstAre

\* The edges that a level reads.
LEMMA FirstEdgesAre ==
  ASSUME NEW S \in SUBSET Edges, NEW n \in Nat, NEW F, F = G!FirstEdges(S, n)
  PROVE  /\ F \in SUBSET S /\ IsFiniteSet(F)
         /\ Cardinality(F) \in Nat /\ Cardinality(F) <= n
         /\ F = S \/ Cardinality(F) = n
<1> DEFINE B(x) == {y \in S : G!EdgeLess(y, x)}
           below == [x \in S |-> B(x)]
<1>1. S \subseteq Edges /\ IsFiniteSet(S)
  BY GraphFacts, FS_Subset
<1>2. below \in [S -> SUBSET S]
  OBVIOUS
<1>3. \A x \in S : x \notin below[x]
  BY <1>1, EdgesInOrder
<1>4. \A x, y \in S : x \in below[y] => below[x] \subseteq below[y]
  BY <1>1, EdgesInOrder
<1>5. \A x, y \in S : x = y \/ x \in below[y] \/ y \in below[x]
  BY <1>1, EdgesInOrder
<1>6. F = {x \in S : Cardinality(below[x]) < n}
  BY SameCounts DEF G!FirstEdges
<1> HIDE DEF below
<1> QED BY <1>1, <1>2, <1>3, <1>4, <1>5, <1>6, FirstAre

\* Edges have a first one.
LEMMA FirstEdgeIs ==
  ASSUME NEW S \in SUBSET Edges, S # {}
  PROVE  \E e \in S : \A f \in S : e = f \/ G!EdgeLess(e, f)
<1> DEFINE F == G!FirstEdges(S, 1)
<1>1. IsFiniteSet(S)
  BY GraphFacts, FS_Subset
<1>2. /\ F \in SUBSET S /\ IsFiniteSet(F)
      /\ F = S \/ Cardinality(F) = 1
  BY FirstEdgesAre
<1>3. F # {}
  <2> HIDE DEF F
  <2>1. CASE F = S
    BY <2>1
  <2>2. CASE Cardinality(F) = 1
    BY <2>2, FS_EmptySet
  <2> QED BY <1>2, <2>1, <2>2
<1>4. PICK e \in F : TRUE
  BY <1>3
<1>5. e \in S /\ Cardinality({f \in S : G!EdgeLess(f, e)}) < 1
  BY <1>4, SameCounts DEF G!FirstEdges
<1>6. {f \in S : G!EdgeLess(f, e)} = {}
  <2> DEFINE L == {f \in S : G!EdgeLess(f, e)}
  <2>1. L \in SUBSET S
    OBVIOUS
  <2>2. Cardinality(L) < 1
    BY <1>5
  <2> HIDE DEF L
  <2>3. IsFiniteSet(L) /\ Cardinality(L) \in Nat
    BY <1>1, <2>1, FS_Subset, FS_CardinalityType
  <2>4. Cardinality(L) = 0
    BY <2>2, <2>3
  <2>5. L = {}
    BY <2>3, <2>4, FS_EmptySet
  <2> QED BY <2>5 DEF L
<1>7. ASSUME NEW f \in S
      PROVE  e = f \/ G!EdgeLess(e, f)
  <2>1. e \in Edges /\ f \in Edges /\ ~ G!EdgeLess(f, e)
    BY <1>5, <1>6
  <2> QED BY <2>1, EdgesInOrder
<1> QED BY <1>5, <1>7

\* There is room for the nodes that a level admits.
LEMMA AdmittedAre ==
  ASSUME NEW O, O = G!Observed, O \in SUBSET Edges, IsFiniteSet(seen), NEW limit \in Nat,
         limit = graphQuery.maxNodes, Cardinality(seen) <= limit
  PROVE  /\ G!Admitted \subseteq {e.to : e \in O} \ seen
         /\ IsFiniteSet(seen \cup G!Admitted)
         /\ Cardinality(seen \cup G!Admitted) \in Nat
         /\ Cardinality(seen \cup G!Admitted) <= limit
<1> DEFINE N == {e.to : e \in O} \ seen
           To(n) == {e \in O : e.to = n}
           first == [n \in N |-> CHOOSE e \in To(n) : \A f \in To(n) : e = f \/ G!EdgeLess(e, f)]
           B(n) == {m \in N : G!EdgeLess(first[m], first[n])}
           below == [n \in N |-> B(n)]
           room == limit - Cardinality(seen)
<1>1. \A n \in N : first[n] \in To(n) /\ \A f \in To(n) : first[n] = f \/ G!EdgeLess(first[n], f)
  <2>1. ASSUME NEW n \in N
        PROVE  \E e \in To(n) : \A f \in To(n) : e = f \/ G!EdgeLess(e, f)
    <3> DEFINE T == To(n)
    <3>1. T \in SUBSET Edges /\ T # {}
      OBVIOUS
    <3> HIDE DEF T
    <3>2. \E e \in T : \A f \in T : e = f \/ G!EdgeLess(e, f)
      BY <3>1, FirstEdgeIs
    <3> QED BY <3>2 DEF T
  <2> QED BY <2>1
<1>2. \A n \in N : first[n] \in Edges /\ first[n] \in O /\ first[n].to = n
  BY <1>1
<1>3. \A n \in N, f \in O : f.to = n => first[n] = f \/ G!EdgeLess(first[n], f)
  BY <1>1
<1>4. IsFiniteSet(N)
  <2>1. IsFiniteSet(O)
    BY GraphFacts, FS_Subset
  <2> DEFINE T == {e.to : e \in O}
             f == [e \in O |-> e.to]
  <2>2. IsFiniteSet(T)
    <3>1. f \in Surjection(O, T)
      BY DEF Surjection
    <3> HIDE DEF f, T
    <3> QED BY <2>1, <3>1, FS_Surjection
  <2>3. N \in SUBSET T
    OBVIOUS
  <2> HIDE DEF N, T
  <2> QED BY <2>2, <2>3, FS_Subset
<1> HIDE DEF first
<1>5. below \in [N -> SUBSET N]
  OBVIOUS
<1>6. \A x \in N : x \notin below[x]
  BY <1>2, EdgesInOrder
<1>7. \A x, y \in N : x \in below[y] => below[x] \subseteq below[y]
  <2>1. \A x, y, z \in N : G!EdgeLess(first[x], first[y]) /\ G!EdgeLess(first[z], first[x])
                             => G!EdgeLess(first[z], first[y])
    BY <1>2, EdgesInOrder
  <2> QED BY <2>1
<1>8. \A x, y \in N : x = y \/ x \in below[y] \/ y \in below[x]
  <2>1. ASSUME NEW x \in N, NEW y \in N, x # y
        PROVE  G!EdgeLess(first[x], first[y]) \/ G!EdgeLess(first[y], first[x])
    <3>1. first[x] # first[y] /\ first[x] \in Edges /\ first[y] \in Edges
      BY <1>2, <2>1
    <3> QED BY <3>1, EdgesInOrder
  <2> QED BY <2>1
<1>9. \A m, n \in N : G!CameBefore(m, n) <=> G!EdgeLess(first[m], first[n])
  <2>1. ASSUME NEW m \in N, NEW n \in N, G!CameBefore(m, n)
        PROVE  G!EdgeLess(first[m], first[n])
    <3>1. PICK e \in O : e.to = m /\ \A f \in O : f.to = n => G!EdgeLess(e, f)
      BY <2>1 DEF G!CameBefore
    <3>2. first[m] = e \/ G!EdgeLess(first[m], e)
      BY <1>3, <3>1
    <3>3. G!EdgeLess(e, first[n])
      BY <1>2, <3>1
    <3>4. e \in Edges /\ first[m] \in Edges /\ first[n] \in Edges
      BY <1>2
    <3> QED BY <3>2, <3>3, <3>4, EdgesInOrder
  <2>2. ASSUME NEW m \in N, NEW n \in N, G!EdgeLess(first[m], first[n])
        PROVE  G!CameBefore(m, n)
    <3>1. ASSUME NEW f \in O, f.to = n
          PROVE  G!EdgeLess(first[m], f)
      <4>1. first[n] = f \/ G!EdgeLess(first[n], f)
        BY <1>3, <3>1
      <4>2. f \in Edges /\ first[m] \in Edges /\ first[n] \in Edges
        BY <1>2
      <4> QED BY <2>2, <4>1, <4>2, EdgesInOrder
    <3>2. first[m] \in O /\ first[m].to = m
      BY <1>2
    <3> QED BY <3>1, <3>2 DEF G!CameBefore
  <2> QED BY <2>1, <2>2
<1>10. Cardinality(seen) \in Nat /\ room \in Nat
  BY FS_CardinalityType
<1>11. \A n \in N : IsFiniteSet(below[n]) /\ Cardinality(below[n]) \in Nat
  <2>1. \A n \in N : below[n] \in SUBSET N
    OBVIOUS
  <2> HIDE DEF below, N
  <2> QED BY <1>4, <2>1, FS_Subset, FS_CardinalityType
<1>12. G!Admitted = {n \in N : Cardinality(below[n]) < room}
  <2>1. G!NewNodes = N
    BY DEF G!NewNodes
  <2>2. \A n \in N : {m \in N : G!CameBefore(m, n)} = below[n]
    BY <1>9
  <2>3. G!Admitted = {n \in N : Cardinality(seen) + Cardinality({m \in N : G!CameBefore(m, n)})
                                  < limit}
    BY <2>1, SameCounts DEF G!Admitted
  <2> HIDE DEF below, N
  <2>4. \A n \in N : (Cardinality(seen) + Cardinality(below[n]) < limit)
                       <=> (Cardinality(below[n]) < room)
    BY <1>10, <1>11
  <2> HIDE DEF room
  <2>5. \A n \in N : (Cardinality(seen) + Cardinality({m \in N : G!CameBefore(m, n)}) < limit)
                       <=> (Cardinality(below[n]) < room)
    BY <2>2, <2>4
  <2> QED BY <2>3, <2>5
<1>13. PICK F : F = G!Admitted
  OBVIOUS
<1> HIDE DEF below, room
<1>14. /\ F \in SUBSET N /\ IsFiniteSet(F)
       /\ Cardinality(F) \in Nat /\ Cardinality(F) <= room
  <2>1. F = {n \in N : Cardinality(below[n]) < room}
    BY <1>12, <1>13
  <2>2. room \in Nat
    BY <1>10
  <2> HIDE DEF N
  <2> QED BY <1>4, <1>5, <1>6, <1>7, <1>8, <2>1, <2>2, FirstAre
<1>15. /\ IsFiniteSet(seen \cup F)
       /\ Cardinality(seen \cup F) = Cardinality(seen) + Cardinality(F) - Cardinality(seen \cap F)
  BY <1>14, FS_Union
<1>16. Cardinality(seen \cap F) \in Nat
  <2>1. seen \cap F \in SUBSET F
    OBVIOUS
  <2> QED BY <1>14, <2>1, FS_Subset, FS_CardinalityType
<1>17. Cardinality(seen \cup F) \in Nat
  BY <1>15, FS_CardinalityType
<1>18. Cardinality(seen \cup F) <= limit
  BY <1>10, <1>14, <1>15, <1>16, <1>17 DEF room
<1> QED BY <1>13, <1>14, <1>15, <1>17, <1>18

-----------------------------------------------------------------------------
(* The graph                                                               *)

FactSets == [services : SUBSET Services, edges : SUBSET Edges]

\* The observations of E that the query is about.
ActiveOf(E) ==
  {e \in E : e.start <= graphQuery.at /\ graphQuery.at < e.end /\ e.rank >= graphQuery.minimum}

GraphTypeOK ==
  /\ db \in FactSets /\ view \in FactSets \cup {None} /\ reader \in {"snapshot", "store"}
  /\ graphQuery \in GraphQueries
  /\ graphPhase \in {"roots", "levels", "done", "failed"}
  /\ depth \in Nat /\ depth <= graphQuery.depth
  /\ truncated \in BOOLEAN /\ remaining \in Nat
  /\ seen \subseteq Services \cup Others /\ selected \in SUBSET Edges
  /\ frontier \subseteq Services /\ frontier \subseteq seen
  /\ roots \subseteq Services /\ roots \subseteq seen
  /\ graphPhase = "roots" => depth = 0 /\ seen = {} /\ selected = {}

\* What has been read was committed.
VersionsOK ==
  /\ db \in versions /\ versions \subseteq FactSets
  /\ view # None => view \in versions

\* The result is within its limits, and each of its nodes is connected with a root.
ConnectedOK ==
  /\ IsFiniteSet(seen) /\ Cardinality(seen) <= graphQuery.maxNodes
  /\ Cardinality(selected) + remaining <= graphQuery.maxNodes * EdgesPerNode
  /\ \A e \in selected : e.from \in seen /\ e.to \in seen
  /\ seen \subseteq Reach(roots, selected, depth)

Traversing == graphPhase \in {"levels", "done"}

\* The traversal begins at roots of the snapshot.
LevelsOK ==
  Traversing =>
    /\ roots # {} /\ roots \subseteq G!Facts.services
    /\ depth = 0 => frontier = roots /\ seen = roots /\ selected = {}
    /\ reader = "snapshot" => view # None

\* What is seen before the last level has been expanded.
Expanded == seen \ frontier

\* As long as nothing was cut, all that a level could show is there.
WholeOK ==
  Traversing /\ reader = "snapshot" /\ ~truncated =>
    /\ seen = Reach(roots, ActiveOf(view.edges), depth)
    /\ selected = {e \in ActiveOf(view.edges) : e.from \in Expanded}
    /\ depth > 0 => \A s \in Services :
                      s \in Reach(roots, ActiveOf(view.edges), depth - 1) <=> s \in Expanded

\* The roots had no relations when the first level found none.
AbsenceOK ==
  Traversing /\ depth > 0 /\ selected = {} /\ ~truncated =>
    \E v \in versions :
      /\ roots \subseteq v.services
      /\ \A e \in ActiveOf(v.edges) : e.from \notin roots

\* A traversal that was not cut ends at its depth, or has nothing left to expand.
DoneOK ==
  graphPhase = "done" /\ ~truncated => depth = graphQuery.depth \/ frontier = {}

GraphInv ==
  GraphTypeOK /\ VersionsOK /\ ConnectedOK /\ LevelsOK /\ WholeOK /\ AbsenceOK /\ DoneOK

\* What the query asks for, in each of its forms.
LEMMA ActiveIs ==
  ASSUME graphQuery \in GraphQueries, NEW E, E \subseteq Edges
  PROVE  /\ G!Active(E) = ActiveOf(E)
         /\ G!Asked(E) = ActiveOf(E)
         /\ ActiveOf(E) \subseteq E
<1>1. graphQuery.at \in Int /\ graphQuery.minimum \in Nat
  BY GraphFacts
<1>2. \A e \in E : e.start \in Int /\ e.end \in Int /\ e.rank \in 1..3
  BY GraphFacts
<1>3. \A e \in E : (graphQuery.at \in e.start..(e.end - 1) /\ e.rank \in graphQuery.minimum..3)
                     <=> (/\ e.start <= graphQuery.at /\ graphQuery.at < e.end
                          /\ e.rank >= graphQuery.minimum)
  BY <1>1, <1>2
<1>4. G!Asked(E) = ActiveOf(E)
  BY <1>3 DEF G!Asked, ActiveOf
<1> QED BY <1>4 DEF G!Active, ActiveOf

\* A graph that has not been read is as it should be.
LEMMA GraphBegins == ReadsInit => GraphInv
<1> SUFFICES ASSUME ReadsInit
             PROVE  GraphInv
  OBVIOUS
<1>1. G!Init /\ reader \in {"snapshot", "store"} /\ graphQuery \in GraphQueries
  <2>1. CASE what = "graph"
    BY <2>1, GraphFacts DEF ReadsInit, G!Init
  <2>2. CASE what = "pages"
    BY <2>2 DEF ReadsInit, G!Init
  <2> QED BY <2>1, <2>2 DEF ReadsInit
<1>2. db = G!NoFacts /\ G!NoFacts \in FactSets
  BY <1>1 DEF G!Init, G!NoFacts, FactSets
<1>3. graphQuery.maxNodes \in Nat /\ EdgesPerNode \in Nat /\ graphQuery.depth \in Nat
  BY <1>1, GraphFacts
<1>4. graphQuery.maxNodes * EdgesPerNode \in Nat
  BY <1>3
<1>5. GraphTypeOK
  <2>1. remaining \in Nat /\ depth \in Nat /\ depth <= graphQuery.depth
    BY <1>1, <1>3, <1>4 DEF G!Init
  <2>2. /\ db \in FactSets /\ view \in FactSets \cup {None} /\ graphPhase = "roots"
        /\ truncated \in BOOLEAN /\ depth = 0
        /\ seen = {} /\ selected = {} /\ frontier = {} /\ roots = {}
    BY <1>1, <1>2 DEF G!Init
  <2> QED BY <1>1, <2>1, <2>2 DEF GraphTypeOK
<1>6. VersionsOK
  BY <1>1, <1>2 DEF G!Init, VersionsOK
<1>7. ConnectedOK
  <2>1. IsFiniteSet({}) /\ Cardinality({}) = 0
    BY FS_EmptySet
  <2> QED BY <1>1, <1>3, <1>4, <2>1 DEF G!Init, ConnectedOK
<1>8. graphPhase = "roots"
  BY <1>1 DEF G!Init
<1> QED BY <1>5, <1>6, <1>7, <1>8
        DEF GraphInv, LevelsOK, WholeOK, AbsenceOK, DoneOK, Traversing

\* A step that leaves the graph as it is, and what the query is about.
LEMMA GraphStays ==
  ASSUME GraphInv, UNCHANGED graphVars
  PROVE  GraphInv'
BY DEF graphVars, GraphInv, GraphTypeOK, VersionsOK, ConnectedOK, LevelsOK, WholeOK, AbsenceOK,
       DoneOK, Traversing, Expanded, ActiveOf, G!Facts

\* Another process commits.
LEMMA IngestionKeepsGraph ==
  ASSUME GraphInv, G!IngestionCommitted
  PROVE  GraphInv'
<1> USE DEF GraphInv
<1>1. PICK c \in Commits :
        db' = [services |-> db.services \cup c.services, edges |-> db.edges \cup c.edges]
  BY DEF G!IngestionCommitted
<1>2. /\ versions' = versions \cup {db'}
      /\ UNCHANGED <<reader, view, graphQuery, graphPhase, depth, frontier, seen, remaining>>
      /\ UNCHANGED <<roots, selected, truncated>>
  BY DEF G!IngestionCommitted, G!result
<1>3. db' \in FactSets
  BY <1>1, GraphFacts DEF GraphTypeOK, FactSets
<1>4. GraphTypeOK'
  BY <1>2, <1>3 DEF GraphTypeOK
<1>5. VersionsOK'
  BY <1>2, <1>3 DEF VersionsOK
<1>6. ConnectedOK'
  BY <1>2 DEF ConnectedOK
<1>7. LevelsOK'
  BY <1>1, <1>2 DEF LevelsOK, Traversing, G!Facts
<1>8. WholeOK'
  BY <1>2 DEF WholeOK, Traversing, Expanded, ActiveOf
<1>9. AbsenceOK'
  <2>1. SUFFICES ASSUME Traversing, depth > 0, selected = {}, ~truncated
                 PROVE  \E v \in versions' :
                          /\ roots \subseteq v.services
                          /\ \A e \in ActiveOf(v.edges) : e.from \notin roots
    BY <1>2 DEF AbsenceOK, Traversing, ActiveOf
  <2> QED BY <1>2, <2>1 DEF AbsenceOK
<1>10. DoneOK'
  BY <1>2 DEF DoneOK
<1> QED BY <1>4, <1>5, <1>6, <1>7, <1>8, <1>9, <1>10

\* What a read finds, and what it leaves of the snapshot.
LEMMA ReadFinds ==
  ASSUME GraphTypeOK, VersionsOK, G!Read
  PROVE  /\ G!Facts \in versions /\ G!Facts \in FactSets
         /\ reader = "snapshot" => view' = G!Facts
         /\ reader = "store" => view' = None
         /\ view' \in FactSets \cup {None}
         /\ view' # None => view' \in versions
<1>1. G!Facts \in versions /\ G!Facts \in FactSets
  BY DEF GraphTypeOK, VersionsOK, G!Facts
<1>2. view' = IF reader = "snapshot" THEN G!Facts ELSE None
  BY DEF G!Read
<1> QED BY <1>1, <1>2 DEF GraphTypeOK, VersionsOK

\* The traversal ends.
LEMMA FinishKeepsGraph ==
  ASSUME GraphInv, G!Finish
  PROVE  GraphInv'
<1> USE DEF GraphInv
<1>1. /\ graphPhase = "levels" /\ graphPhase' = "done"
      /\ UNCHANGED <<db, reader, view, graphQuery, depth, frontier, seen, roots, selected,
                     remaining, versions>>
  BY DEF G!Finish
<1>2. \/ truncated' = TRUE
      \/ truncated' = truncated /\ ~ (depth < graphQuery.depth /\ frontier # {})
  BY <1>1 DEF G!Finish, G!Expanding
<1>3. GraphTypeOK'
  <2>1. truncated' \in BOOLEAN
    BY <1>2 DEF GraphTypeOK
  <2> QED BY <1>1, <2>1 DEF GraphTypeOK
<1>4. VersionsOK' /\ ConnectedOK'
  BY <1>1 DEF VersionsOK, ConnectedOK
<1>5. LevelsOK'
  BY <1>1 DEF LevelsOK, Traversing, G!Facts
<1>6. ~truncated' => ~truncated
  BY <1>2 DEF GraphTypeOK
<1>7. WholeOK'
  BY <1>1, <1>6 DEF WholeOK, Traversing, Expanded, ActiveOf
<1>8. AbsenceOK'
  BY <1>1, <1>6 DEF AbsenceOK, Traversing, ActiveOf
<1>9. DoneOK'
  <2>1. depth \in Nat /\ graphQuery.depth \in Nat /\ depth <= graphQuery.depth
    BY GraphFacts DEF GraphTypeOK
  <2> QED BY <1>1, <1>2, <2>1 DEF DoneOK, GraphTypeOK
<1> QED BY <1>3, <1>4, <1>5, <1>7, <1>8, <1>9

\* The call ends early.
LEMMA CancelKeepsGraph ==
  ASSUME GraphInv, G!Cancel
  PROVE  GraphInv'
<1> USE DEF GraphInv
<1>1. /\ graphPhase' = "failed"
      /\ UNCHANGED <<db, reader, view, graphQuery, versions>>
      /\ UNCHANGED <<depth, frontier, seen, roots, selected, truncated, remaining>>
  BY DEF G!Cancel, G!Fail, G!result
<1>2. GraphTypeOK'
  BY <1>1 DEF GraphTypeOK
<1>3. VersionsOK' /\ ConnectedOK'
  BY <1>1 DEF VersionsOK, ConnectedOK
<1> QED BY <1>1, <1>2, <1>3 DEF LevelsOK, WholeOK, AbsenceOK, DoneOK, Traversing

\* The roots are found, or the call fails.
LEMMA ResolveRootsKeepsGraph ==
  ASSUME GraphInv, G!ResolveRoots
  PROVE  GraphInv'
<1> USE DEF GraphInv
<1>1. /\ graphPhase = "roots" /\ G!Read
      /\ UNCHANGED <<db, reader, graphQuery, versions>>
  BY DEF G!ResolveRoots
<1>2. /\ G!Facts \in versions /\ G!Facts \in FactSets
      /\ reader = "snapshot" => view' = G!Facts
      /\ reader = "store" => view' = None
      /\ view' \in FactSets \cup {None}
      /\ view' # None => view' \in versions
  BY <1>1, ReadFinds
<1>3. VersionsOK'
  BY <1>1, <1>2 DEF VersionsOK
<1>4. depth = 0 /\ seen = {} /\ selected = {}
  BY <1>1 DEF GraphTypeOK
<1>5. CASE G!Fail
  <2>1. /\ graphPhase' = "failed"
        /\ UNCHANGED <<depth, frontier, seen, roots, selected, truncated, remaining>>
    BY <1>5 DEF G!Fail, G!result
  <2>2. GraphTypeOK'
    BY <1>1, <1>2, <2>1 DEF GraphTypeOK
  <2>3. ConnectedOK'
    BY <1>1, <2>1 DEF ConnectedOK
  <2> QED BY <1>3, <2>1, <2>2, <2>3 DEF LevelsOK, WholeOK, AbsenceOK, DoneOK, Traversing
<1>6. CASE ~ G!Fail
  <2>1. /\ G!Candidates # {}
        /\ roots' = G!FirstNodes(G!Candidates, graphQuery.maxNodes)
        /\ seen' = roots' /\ frontier' = roots'
        /\ truncated' = (roots' # G!Candidates)
        /\ graphPhase' = "levels"
        /\ UNCHANGED <<depth, selected, remaining>>
    BY <1>6 DEF G!ResolveRoots
  <2>2. G!Candidates \in SUBSET Services /\ G!Candidates \subseteq G!Facts.services
    <3>1. G!Facts.services \subseteq Services
      BY <1>2 DEF FactSets
    <3> QED BY <3>1 DEF G!Candidates
  <2>3. PICK limit \in Nat : limit = graphQuery.maxNodes /\ limit >= 1
    BY GraphFacts DEF GraphTypeOK
  <2>4. PICK S : S = G!Candidates
    OBVIOUS
  <2>5. PICK F : F = G!FirstNodes(S, limit)
    OBVIOUS
  <2>6. /\ F \in SUBSET S /\ IsFiniteSet(F)
        /\ Cardinality(F) \in Nat /\ Cardinality(F) <= limit
        /\ F = S \/ Cardinality(F) = limit
    BY <2>2, <2>4, <2>5, FirstNodesAre
  <2>7. roots' = F
    BY <2>1, <2>3, <2>4, <2>5
  <2>8. F # {}
    <3>1. CASE F = S
      BY <2>1, <2>4, <3>1
    <3>2. CASE Cardinality(F) = limit
      BY <2>3, <3>2, FS_EmptySet
    <3> QED BY <2>6, <3>1, <3>2
  <2>9. F \subseteq Services /\ F \subseteq G!Facts.services
    BY <2>2, <2>4, <2>6
  <2>10. GraphTypeOK'
    <3>1. truncated' \in BOOLEAN
      BY <2>1
    <3>2. /\ seen' \subseteq Services \cup Others /\ frontier' \subseteq Services
          /\ frontier' \subseteq seen' /\ roots' \subseteq Services /\ roots' \subseteq seen'
      BY <2>1, <2>7, <2>9
    <3>3. /\ depth' \in Nat /\ depth' <= graphQuery'.depth
          /\ remaining' \in Nat /\ selected' \in SUBSET Edges /\ graphPhase' = "levels"
      BY <1>1, <2>1 DEF GraphTypeOK
    <3> QED BY <1>1, <1>2, <3>1, <3>2, <3>3 DEF GraphTypeOK
  <2>11. ConnectedOK'
    <3>1. seen' = F /\ selected' = {} /\ depth' = 0 /\ roots' = F
      BY <1>4, <2>1, <2>7
    <3>2. Reach(roots', selected', depth') = F
      BY <3>1, ReachIs
    <3>3. IsFiniteSet(seen') /\ Cardinality(seen') <= graphQuery'.maxNodes
      BY <1>1, <2>3, <2>6, <3>1
    <3>4. Cardinality(selected') + remaining' <= graphQuery'.maxNodes * EdgesPerNode
      BY <1>1, <2>1 DEF ConnectedOK
    <3> QED BY <3>1, <3>2, <3>3, <3>4 DEF ConnectedOK
  <2>12. LevelsOK'
    <3>1. roots' # {} /\ frontier' = roots' /\ seen' = roots' /\ selected' = {}
      BY <1>4, <2>1, <2>7, <2>8
    <3>2. reader = "snapshot" => view' # None
      BY <1>2, GraphFacts DEF FactSets
    <3>3. roots' \subseteq G!Facts'.services
      <4>1. reader = "snapshot" => G!Facts' = G!Facts
        BY <1>1, <1>2, <3>2 DEF G!Facts
      <4>2. reader # "snapshot" => G!Facts' = G!Facts
        BY <1>1 DEF G!Facts
      <4> QED BY <2>7, <2>9, <4>1, <4>2
    <3> QED BY <1>1, <3>1, <3>2, <3>3 DEF LevelsOK
  <2>13. WholeOK'
    <3>1. SUFFICES ASSUME TRUE
                   PROVE  /\ seen' = Reach(roots', ActiveOf(view.edges)', depth')
                          /\ selected' = {e \in ActiveOf(view.edges)' : e.from \in Expanded'}
                          /\ ~ (depth' > 0)
      BY DEF WholeOK
    <3>2. seen' = roots' /\ depth' = 0 /\ Expanded' = {} /\ selected' = {}
      BY <1>4, <2>1 DEF Expanded
    <3> QED BY <3>2, ReachIs
  <2>14. depth' = 0 /\ graphPhase' = "levels"
    BY <1>4, <2>1
  <2> QED BY <1>3, <2>10, <2>11, <2>12, <2>13, <2>14 DEF AbsenceOK, DoneOK
<1> QED BY <1>5, <1>6

\* What a level reads and admits.
LEMMA LevelReads ==
  ASSUME GraphInv, NEW O, O = G!Observed, NEW N, N = G!Admitted
  PROVE  /\ O \in SUBSET Edges /\ IsFiniteSet(O)
         /\ Cardinality(O) \in Nat /\ Cardinality(O) <= remaining
         /\ \A e \in O : e \in ActiveOf(G!Facts.edges) /\ e.from \in frontier
         /\ N \subseteq {e.to : e \in O} /\ N \cap seen = {} /\ N \subseteq Services \cup Others
         /\ IsFiniteSet(seen \cup N) /\ Cardinality(seen \cup N) <= graphQuery.maxNodes
<1> USE DEF GraphInv
<1>1. PICK E : E = G!Facts.edges
  OBVIOUS
<1>2. E \subseteq Edges
  BY <1>1 DEF GraphTypeOK, VersionsOK, FactSets, G!Facts
<1>3. G!Active(E) = ActiveOf(E) /\ ActiveOf(E) \subseteq E
  BY <1>2, ActiveIs DEF GraphTypeOK
<1>4. PICK M : M = G!Matching
  OBVIOUS
<1>5. M = {e \in ActiveOf(E) : e.from \in frontier}
  BY <1>1, <1>3, <1>4 DEF G!Matching
<1>6. M \in SUBSET Edges
  BY <1>2, <1>3, <1>5
<1>7. O = G!FirstEdges(M, remaining) /\ remaining \in Nat
  BY <1>4 DEF G!Observed, GraphTypeOK
<1>8. /\ O \in SUBSET M /\ IsFiniteSet(O)
      /\ Cardinality(O) \in Nat /\ Cardinality(O) <= remaining
  BY <1>6, <1>7, FirstEdgesAre
<1>9. O \in SUBSET Edges
  BY <1>6, <1>8
<1>10. PICK limit \in Nat : limit = graphQuery.maxNodes
  BY GraphFacts DEF GraphTypeOK
<1>11. /\ N \subseteq {e.to : e \in O} \ seen
       /\ IsFiniteSet(seen \cup N) /\ Cardinality(seen \cup N) <= limit
  <2>1. IsFiniteSet(seen) /\ Cardinality(seen) <= limit
    BY <1>10 DEF ConnectedOK
  <2>2. /\ G!Admitted \subseteq {e.to : e \in O} \ seen
        /\ IsFiniteSet(seen \cup G!Admitted)
        /\ Cardinality(seen \cup G!Admitted) <= limit
    BY <1>9, <1>10, <2>1, AdmittedAre
  <2> QED BY <2>2
<1>12. N \subseteq Services \cup Others
  <2>1. \A e \in O : e.to \in Services \cup Others
    BY <1>9, GraphFacts
  <2> QED BY <1>11, <2>1
<1> QED BY <1>1, <1>5, <1>8, <1>9, <1>10, <1>11, <1>12

\* What a level does, its reads named.
LEMMA LevelDoes ==
  ASSUME GraphInv, G!ExpandLevel
  PROVE  \E O, N :
           /\ O = G!Observed /\ N = G!Admitted
           /\ graphPhase = "levels" /\ depth < graphQuery.depth
           /\ seen' = seen \cup N
           /\ selected' = selected \cup {e \in O : e.to \in seen \cup N}
           /\ remaining' = remaining - Cardinality(O)
           /\ frontier' = N \cap Services
           /\ depth' = depth + 1
           /\ UNCHANGED <<db, reader, graphQuery, graphPhase, roots, versions>>
           /\ truncated' \in BOOLEAN
           /\ ~truncated' => /\ ~truncated
                             /\ O = {e \in ActiveOf(G!Facts.edges) : e.from \in frontier}
                             /\ N = {e.to : e \in O} \ seen
<1>1. PICK O : O = G!Observed
  OBVIOUS
<1>2. PICK N : N = G!Admitted
  OBVIOUS
<1>3. /\ graphPhase = "levels" /\ depth < graphQuery.depth
      /\ seen' = seen \cup N
      /\ selected' = selected \cup {e \in O : e.to \in seen \cup N}
      /\ remaining' = remaining - Cardinality(O)
      /\ frontier' = N \cap Services
      /\ depth' = depth + 1
      /\ UNCHANGED <<db, reader, graphQuery, graphPhase, roots, versions>>
  BY <1>1, <1>2, SameCounts DEF G!ExpandLevel, G!Expanding, G!Select
<1>4. truncated' = (truncated \/ O # G!Matching \/ N # G!NewNodes)
  BY <1>1, <1>2 DEF G!ExpandLevel, G!Cut
<1>5. G!NewNodes = {e.to : e \in O} \ seen
  BY <1>1 DEF G!NewNodes
<1>6. G!Matching = {e \in ActiveOf(G!Facts.edges) : e.from \in frontier}
  <2>1. PICK E : E = G!Facts.edges
    OBVIOUS
  <2>2. E \subseteq Edges
    BY <2>1 DEF GraphInv, GraphTypeOK, VersionsOK, FactSets, G!Facts
  <2>3. G!Active(E) = ActiveOf(E)
    BY <2>2, ActiveIs DEF GraphInv, GraphTypeOK
  <2> QED BY <2>1, <2>3 DEF G!Matching
<1>7. /\ truncated' \in BOOLEAN
      /\ ~truncated' => /\ ~truncated
                        /\ O = {e \in ActiveOf(G!Facts.edges) : e.from \in frontier}
                        /\ N = {e.to : e \in O} \ seen
  BY <1>4, <1>5, <1>6
<1> QED BY <1>1, <1>2, <1>3, <1>7

\* A level is read: if nothing of it is cut, it shows all that leads out of what was seen.
LEMMA ExpandLevelKeepsGraph ==
  ASSUME GraphInv, G!ExpandLevel
  PROVE  GraphInv'
<1>1. PICK O, N :
        /\ O = G!Observed /\ N = G!Admitted
        /\ graphPhase = "levels" /\ depth < graphQuery.depth
        /\ seen' = seen \cup N
        /\ selected' = selected \cup {e \in O : e.to \in seen \cup N}
        /\ remaining' = remaining - Cardinality(O)
        /\ frontier' = N \cap Services
        /\ depth' = depth + 1
        /\ UNCHANGED <<db, reader, graphQuery, graphPhase, roots, versions>>
        /\ truncated' \in BOOLEAN
        /\ ~truncated' => /\ ~truncated
                          /\ O = {e \in ActiveOf(G!Facts.edges) : e.from \in frontier}
                          /\ N = {e.to : e \in O} \ seen
  BY LevelDoes
<1>2. /\ O \in SUBSET Edges /\ IsFiniteSet(O)
      /\ Cardinality(O) \in Nat /\ Cardinality(O) <= remaining
      /\ \A e \in O : e \in ActiveOf(G!Facts.edges) /\ e.from \in frontier
      /\ N \subseteq {e.to : e \in O} /\ N \cap seen = {} /\ N \subseteq Services \cup Others
      /\ IsFiniteSet(seen \cup N) /\ Cardinality(seen \cup N) <= graphQuery.maxNodes
  BY <1>1, LevelReads
<1> USE DEF GraphInv
<1>3. /\ G!Facts \in versions /\ G!Facts \in FactSets
      /\ reader = "snapshot" => view' = G!Facts
      /\ view' \in FactSets \cup {None}
      /\ view' # None => view' \in versions
  BY ReadFinds DEF G!ExpandLevel
<1>4. depth \in Nat /\ graphQuery.depth \in Nat /\ depth' \in Nat /\ depth' > 0
  BY <1>1, GraphFacts DEF GraphTypeOK
<1>5. GraphTypeOK'
  <2>1. remaining' \in Nat
    <3>1. remaining \in Nat
      BY DEF GraphTypeOK
    <3> QED BY <1>1, <1>2, <3>1
  <2>2. depth' <= graphQuery'.depth
    BY <1>1, <1>4
  <2>3. seen' \subseteq Services \cup Others /\ selected' \in SUBSET Edges
    BY <1>1, <1>2 DEF GraphTypeOK
  <2>4. /\ frontier' \subseteq Services /\ frontier' \subseteq seen'
        /\ roots' \subseteq Services /\ roots' \subseteq seen'
    BY <1>1 DEF GraphTypeOK
  <2>5. graphPhase' = "levels" /\ db' \in FactSets /\ reader' \in {"snapshot", "store"}
        /\ graphQuery' \in GraphQueries
    BY <1>1 DEF GraphTypeOK
  <2> QED BY <1>1, <1>3, <1>4, <2>1, <2>2, <2>3, <2>4, <2>5 DEF GraphTypeOK
<1>6. VersionsOK'
  BY <1>1, <1>3 DEF VersionsOK
<1>7. \A e \in selected' : e.from \in seen' /\ e.to \in seen'
  BY <1>1, <1>2 DEF ConnectedOK, GraphTypeOK
<1>8. ConnectedOK'
  <2>1. IsFiniteSet(seen') /\ Cardinality(seen') <= graphQuery'.maxNodes
    BY <1>1, <1>2
  <2>2. Cardinality(selected') + remaining' <= graphQuery'.maxNodes * EdgesPerNode
    <3>1. PICK T : T = {e \in O : e.to \in seen \cup N}
      OBVIOUS
    <3>2. T \in SUBSET O /\ selected' = selected \cup T
      BY <1>1, <3>1
    <3>3. IsFiniteSet(T) /\ Cardinality(T) \in Nat /\ Cardinality(T) <= Cardinality(O)
      BY <1>2, <3>2, FS_Subset, FS_CardinalityType
    <3>4. selected \in SUBSET Edges /\ IsFiniteSet(Edges)
      BY GraphFacts DEF GraphTypeOK
    <3>5. IsFiniteSet(selected) /\ Cardinality(selected) \in Nat
      BY <3>4, FS_Subset, FS_CardinalityType
    <3>6. /\ IsFiniteSet(selected \cup T)
          /\ Cardinality(selected \cup T)
               = Cardinality(selected) + Cardinality(T) - Cardinality(selected \cap T)
      BY <3>3, <3>5, FS_Union
    <3>7. Cardinality(selected \cap T) \in Nat /\ Cardinality(selected \cup T) \in Nat
      <4>1. selected \cap T \in SUBSET T
        OBVIOUS
      <4>2. IsFiniteSet(selected \cap T)
        BY <3>3, <4>1, FS_Subset
      <4> QED BY <3>6, <4>2, FS_CardinalityType
    <3>8. PICK most \in Nat : most = graphQuery.maxNodes * EdgesPerNode
      <4>1. graphQuery.maxNodes \in Nat /\ EdgesPerNode \in Nat
        BY GraphFacts DEF GraphTypeOK
      <4> QED BY <4>1
    <3>9. Cardinality(selected) + remaining <= most /\ remaining \in Nat
      BY <3>8 DEF ConnectedOK, GraphTypeOK
    <3>10. Cardinality(selected') = Cardinality(selected) + Cardinality(T)
                                      - Cardinality(selected \cap T)
      BY <3>2, <3>6
    <3>11. Cardinality(selected') + remaining' <= most
      BY <1>1, <1>2, <3>3, <3>5, <3>7, <3>9, <3>10
    <3> QED BY <1>1, <3>8, <3>11
  <2>3. seen' \subseteq Reach(roots', selected', depth')
    <3>1. PICK S : S = selected'
      OBVIOUS
    <3>2. selected \subseteq S /\ \A n \in N : \E e \in S : e.to = n /\ e.from \in seen
      <4>1. \A n \in N : \E e \in O : e.to = n
        BY <1>2
      <4>2. \A e \in O : e.from \in seen
        BY <1>2 DEF GraphTypeOK
      <4> QED BY <1>1, <3>1, <4>1, <4>2
    <3>3. Reach(roots, selected, depth) \subseteq Reach(roots, S, depth)
      BY <1>4, <3>2, ReachMore
    <3>4. seen \subseteq Reach(roots, S, depth)
      BY <3>3 DEF ConnectedOK
    <3>5. Reach(roots, S, depth + 1) = Step(S, Reach(roots, S, depth))
      BY <1>4, ReachIs
    <3>6. PICK X : X = Reach(roots, S, depth)
      OBVIOUS
    <3>7. seen \subseteq Step(S, X) /\ N \subseteq Step(S, X)
      BY <3>2, <3>4, <3>6 DEF Step
    <3>8. seen' \subseteq Reach(roots, S, depth + 1)
      BY <1>1, <3>5, <3>6, <3>7
    <3> QED BY <1>1, <3>1, <3>8
  <2> QED BY <1>7, <2>1, <2>2, <2>3 DEF ConnectedOK
<1>9. Traversing
  BY <1>1 DEF Traversing
<1>10. reader = "snapshot" => view # None /\ view' = view /\ G!Facts = view
  BY <1>3, <1>9 DEF LevelsOK, G!Facts
<1>11. LevelsOK'
  <2>1. G!Facts' = G!Facts
    BY <1>1, <1>10 DEF G!Facts
  <2>2. ~ (depth' = 0)
    BY <1>4
  <2> QED BY <1>1, <1>9, <1>10, <2>1, <2>2 DEF LevelsOK
<1>12. WholeOK'
  <2>1. SUFFICES ASSUME reader = "snapshot", ~truncated'
                 PROVE  /\ seen' = Reach(roots', ActiveOf(view.edges)', depth')
                        /\ selected' = {e \in ActiveOf(view.edges)' : e.from \in Expanded'}
                        /\ \A s \in Services :
                             s \in Reach(roots', ActiveOf(view.edges)', depth' - 1)
                               <=> s \in Expanded'
    BY <1>1 DEF WholeOK
  <2>2. PICK A : A = ActiveOf(view.edges)
    OBVIOUS
  <2>3. ActiveOf(view.edges)' = A
    BY <1>1, <1>10, <2>1, <2>2 DEF ActiveOf
  <2>4. /\ seen = Reach(roots, A, depth)
        /\ selected = {e \in A : e.from \in Expanded}
    BY <1>1, <1>9, <2>1, <2>2 DEF WholeOK
  <2>5. O = {e \in A : e.from \in frontier} /\ N = {e.to : e \in O} \ seen
    BY <1>1, <1>10, <2>1, <2>2
  <2>6. A \subseteq Edges /\ \A e \in A : e.from \in Services
    <3>1. view.edges \subseteq Edges
      BY <1>3, <1>10, <2>1 DEF FactSets
    <3> QED BY <2>2, <3>1, GraphFacts DEF ActiveOf
  <2>7. \A e \in A : e.from \in Expanded => e.to \in seen
    BY <2>4 DEF ConnectedOK
  <2>8. Expanded = seen \ frontier /\ frontier \subseteq seen
    BY DEF Expanded, GraphTypeOK
  <2>9. seen \cup N = Step(A, seen)
    BY <2>5, <2>7, <2>8 DEF Step
  <2>10. seen' = Reach(roots', A, depth')
    <3>1. Reach(roots, A, depth + 1) = Step(A, Reach(roots, A, depth))
      BY <1>4, ReachIs
    <3> QED BY <1>1, <2>4, <2>9, <3>1
  <2>11. \A s \in Services : s \in Expanded' <=> s \in seen
    <3>1. Expanded' = (seen \cup N) \ (N \cap Services)
      BY <1>1 DEF Expanded
    <3> QED BY <1>2, <3>1
  <2>12. selected' = {e \in A : e.from \in Expanded'}
    <3>1. {e \in O : e.to \in seen \cup N} = O
      BY <2>5
    <3>2. selected' = {e \in A : e.from \in seen}
      BY <1>1, <2>4, <2>5, <2>8, <3>1
    <3>3. \A e \in A : e.from \in seen <=> e.from \in Expanded'
      BY <2>6, <2>11
    <3> QED BY <3>2, <3>3
  <2>13. \A s \in Services : s \in Reach(roots', A, depth' - 1) <=> s \in Expanded'
    <3>1. depth' - 1 = depth
      BY <1>1, <1>4
    <3> QED BY <1>1, <2>4, <2>11, <3>1
  <2> QED BY <2>3, <2>10, <2>12, <2>13
<1>13. AbsenceOK'
  <2>1. SUFFICES ASSUME selected' = {}, ~truncated'
                 PROVE  \E v \in versions :
                          /\ roots \subseteq v.services
                          /\ \A e \in ActiveOf(v.edges) : e.from \notin roots
    BY <1>1 DEF AbsenceOK, ActiveOf
  <2>2. selected = {} /\ ~truncated
    BY <1>1, <2>1
  <2>3. CASE depth > 0
    BY <1>9, <2>2, <2>3 DEF AbsenceOK
  <2>4. CASE depth = 0
    <3>1. O = {e \in ActiveOf(G!Facts.edges) : e.from \in frontier}
          /\ N = {e.to : e \in O} \ seen
      BY <1>1, <2>1
    <3>2. O = {}
      BY <1>1, <2>1, <3>1
    <3>3. frontier = roots /\ roots \subseteq G!Facts.services
      BY <1>9, <2>4 DEF LevelsOK
    <3>4. \A e \in ActiveOf(G!Facts.edges) : e.from \notin roots
      BY <3>1, <3>2, <3>3
    <3> QED BY <1>3, <3>3, <3>4
  <2> QED BY <1>4, <2>3, <2>4
<1>14. DoneOK'
  BY <1>1 DEF DoneOK
<1> QED BY <1>5, <1>6, <1>8, <1>11, <1>12, <1>13, <1>14

\* The graph is as it should be after every step.
LEMMA GraphInvariant == ReadsSpec => []GraphInv
<1>1. ReadsInit => GraphInv
  BY GraphBegins
<1>2. GraphInv /\ [ReadsNext]_readVars => GraphInv'
  <2> SUFFICES ASSUME GraphInv, [ReadsNext]_readVars
               PROVE  GraphInv'
    OBVIOUS
  <2>1. CASE UNCHANGED graphVars
    BY <2>1, GraphStays
  <2>2. CASE G!Next
    BY <2>2, IngestionKeepsGraph, ResolveRootsKeepsGraph, ExpandLevelKeepsGraph,
       FinishKeepsGraph, CancelKeepsGraph DEF G!Next
  <2> QED BY <2>1, <2>2 DEF ReadsNext, readVars
<1> QED BY <1>1, <1>2, PTL DEF ReadsSpec

\* The graph that was not cut, once the traversal is done.
LEMMA WholeWhenDone == GraphInv => SnapshotIsWhole
<1> SUFFICES ASSUME GraphInv, graphPhase = "done", ~truncated, reader = "snapshot"
             PROVE  G!IsGraphOf(view)
  BY DEF SnapshotIsWhole, G!SnapshotIsWhole
<1> USE DEF GraphInv
<1>1. Traversing
  BY DEF Traversing
<1>2. view # None /\ view \in FactSets
  BY <1>1 DEF LevelsOK, GraphTypeOK
<1>3. PICK A : A = ActiveOf(view.edges)
  OBVIOUS
<1>4. G!Asked(view.edges) = A /\ A \subseteq Edges
  <2>1. PICK E : E = view.edges
    OBVIOUS
  <2>2. E \subseteq Edges
    BY <1>2, <2>1 DEF FactSets
  <2>3. G!Asked(E) = ActiveOf(E) /\ ActiveOf(E) \subseteq E
    BY <2>2, ActiveIs DEF GraphTypeOK
  <2> QED BY <1>3, <2>1, <2>2, <2>3
<1>5. /\ seen = Reach(roots, A, depth)
      /\ selected = {e \in A : e.from \in Expanded}
      /\ depth > 0 => \A s \in Services : s \in Reach(roots, A, depth - 1) <=> s \in Expanded
  BY <1>1, <1>3 DEF WholeOK
<1>6. \A e \in A : e.from \in Services
  BY <1>4, GraphFacts
<1>7. PICK last \in Nat : last = graphQuery.depth /\ last >= 1
  BY GraphFacts DEF GraphTypeOK
<1>8. depth \in Nat /\ depth <= last
  BY <1>7 DEF GraphTypeOK
<1>9. depth > 0
  <2>1. CASE depth = 0
    <3>1. frontier = roots /\ roots # {}
      BY <1>1, <2>1 DEF LevelsOK
    <3> QED BY <1>7, <2>1, <3>1 DEF DoneOK
  <2> QED BY <1>8, <2>1
<1>10. /\ seen = Reach(roots, A, last)
       /\ \A s \in Services : s \in Reach(roots, A, last - 1) <=> s \in Expanded
  <2>1. CASE depth = last
    BY <1>5, <1>9, <2>1
  <2>2. CASE depth # last
    <3>1. frontier = {} /\ Expanded = seen
      BY <1>7, <2>2 DEF DoneOK, Expanded
    <3>2. \A e \in A : e.from \in seen => e.to \in seen
      BY <1>5, <3>1 DEF ConnectedOK
    <3>3. PICK before \in Nat : before = last - 1
      BY <1>7
    <3>4. depth <= before
      BY <1>8, <2>2, <3>3
    <3>5. Reach(roots, A, last) = Reach(roots, A, depth)
      BY <1>5, <1>7, <1>8, <3>2, ReachEnds
    <3>6. Reach(roots, A, before) = Reach(roots, A, depth)
      BY <1>5, <1>8, <3>2, <3>4, ReachEnds
    <3> QED BY <1>5, <3>1, <3>3, <3>5, <3>6
  <2> QED BY <2>1, <2>2
<1>11. selected = {e \in A : e.from \in Reach(roots, A, last - 1)}
  <2>1. \A e \in A : e.from \in Reach(roots, A, last - 1) <=> e.from \in Expanded
    BY <1>6, <1>10
  <2> QED BY <1>5, <2>1
<1>12. /\ G!Within(A, graphQuery.depth) = Reach(roots, A, last)
       /\ G!Within(A, graphQuery.depth - 1) = Reach(roots, A, last - 1)
  BY <1>7, WithinIsReach
<1> QED BY <1>4, <1>10, <1>11, <1>12 DEF G!IsGraphOf

\* Within the limits, connected, and without relations only if there were none.
LEMMA SoundAlways == GraphInv => ResultIsSound
<1> SUFFICES ASSUME GraphInv
             PROVE  ResultIsSound
  OBVIOUS
<1> USE DEF GraphInv
<1>1. PICK last \in Nat : last = graphQuery.depth
  BY GraphFacts DEF GraphTypeOK
<1>2. depth \in Nat /\ depth <= last
  BY <1>1 DEF GraphTypeOK
<1>3. G!Within(selected, graphQuery.depth) = Reach(roots, selected, last)
  BY <1>1, WithinIsReach
<1>4. seen \subseteq Reach(roots, selected, last)
  <2>1. Reach(roots, selected, depth) \subseteq Reach(roots, selected, last)
    BY <1>1, <1>2, ReachGrows
  <2> QED BY <2>1 DEF ConnectedOK
<1>5. Reach(roots, selected, last) \subseteq seen
  <2>1. roots \subseteq seen /\ \A e \in selected : e.from \in seen => e.to \in seen
    BY DEF GraphTypeOK, ConnectedOK
  <2> QED BY <1>1, <2>1, ReachStays
<1>6. Cardinality(selected) <= graphQuery.maxNodes * EdgesPerNode
  <2>1. PICK most \in Nat : most = graphQuery.maxNodes * EdgesPerNode
    <3>1. graphQuery.maxNodes \in Nat /\ EdgesPerNode \in Nat
      BY GraphFacts DEF GraphTypeOK
    <3> QED BY <3>1
  <2>2. selected \in SUBSET Edges /\ IsFiniteSet(Edges)
    BY GraphFacts DEF GraphTypeOK
  <2>3. Cardinality(selected) \in Nat
    BY <2>2, FS_Subset, FS_CardinalityType
  <2>4. Cardinality(selected) + remaining <= most /\ remaining \in Nat
    BY <2>1 DEF ConnectedOK, GraphTypeOK
  <2>5. Cardinality(selected) <= most
    BY <2>3, <2>4
  <2> QED BY <2>1, <2>5
<1>7. G!ResultIsConnected
  <2>1. Cardinality(seen) <= graphQuery.maxNodes
    BY DEF ConnectedOK
  <2>2. \A e \in selected : {e.from, e.to} \subseteq seen
    BY DEF ConnectedOK
  <2> QED BY <1>3, <1>4, <1>5, <1>6, <2>1, <2>2, SameCounts DEF G!ResultIsConnected
<1>8. G!AbsenceIsReal
  <2>1. SUFFICES ASSUME graphPhase = "done", selected = {}, ~truncated
                 PROVE  \E v \in versions :
                          /\ roots \subseteq v.services
                          /\ \A e \in G!Asked(v.edges) : e.from \notin roots
    BY DEF G!AbsenceIsReal
  <2>2. Traversing
    BY <2>1 DEF Traversing
  <2>3. depth > 0
    <3>1. CASE depth = 0
      <4>1. frontier # {} /\ depth # last
        BY <1>1, <2>2, <3>1, GraphFacts DEF LevelsOK, GraphTypeOK
      <4> QED BY <1>1, <2>1, <4>1 DEF DoneOK
    <3> QED BY <1>2, <3>1
  <2>4. PICK v \in versions :
          /\ roots \subseteq v.services
          /\ \A e \in ActiveOf(v.edges) : e.from \notin roots
    BY <2>1, <2>2, <2>3 DEF AbsenceOK
  <2>5. G!Asked(v.edges) = ActiveOf(v.edges)
    <3>1. PICK E : E = v.edges
      OBVIOUS
    <3>2. E \subseteq Edges
      BY <3>1 DEF VersionsOK, FactSets
    <3>3. G!Asked(E) = ActiveOf(E)
      BY <3>2, ActiveIs DEF GraphTypeOK
    <3> QED BY <3>1, <3>3
  <2> QED BY <2>4, <2>5
<1> QED BY <1>7, <1>8 DEF ResultIsSound, G!ResultIsSound

\* A graph read through a snapshot that does not say it was cut is all that the snapshot
\* shows within its depth (topology.Build).
THEOREM GraphIsWhole == ReadsSpec => []SnapshotIsWhole
BY GraphInvariant, WholeWhenDone, PTL

\* However it was cut, a graph keeps the limits, hangs together, and says that there are
\* no relations only if there were none when its roots were known (topology.Build).
THEOREM GraphIsSound == ReadsSpec => []ResultIsSound
BY GraphInvariant, SoundAlways, PTL

-----------------------------------------------------------------------------
(* The rows of a listing                                                   *)

\* All that the listing could ever have.
Events ==
  {Event("deployment", d, d.start) : d \in Records}
  \cup {Event("runtime", o, o.at) : o \in {x \in Observations : query.kind = "timeline"}}

Keys == Int \X Int \X Int

Before(e, f) == Less(Key(e), Key(f))

\* The constants of a listing.
LEMMA PageFacts ==
  /\ IsFiniteSet(Records) /\ \A d \in Records : d.id \in Int /\ d.start \in Int
  /\ IsFiniteSet(Observations)
  /\ \A o \in Observations : o.id \in Int /\ o.at \in Int /\ o.service \in Int
  /\ \A d, e \in Records : d.id = e.id => d = e
  /\ \A o, p \in Observations : o.id = p.id => o = p
  /\ MaxPerPage \in Nat
  /\ \A q \in Queries :
       /\ q.kind \in {"deploys", "discover", "timeline"} /\ q.limit \in Nat /\ q.limit >= 1
       /\ q.since \in Int \cup {None} /\ q.until \in Int \cup {None}
  /\ Clock \subseteq Nat /\ Span \in Nat
  /\ None \notin Int /\ None \notin [key : Keys, window : [since : Int, until : Int]]
BY PagesAssumption DEF Keys

\* What an event is made of.
LEMMA EventIs ==
  ASSUME NEW e \in Events
  PROVE  /\ e.row.id \in Int /\ e.time \in Int
         /\ \/ e.type = "deployment" /\ e.row \in Records /\ e.time = e.row.start
            \/ e.type = "runtime" /\ e.row \in Observations /\ query.kind = "timeline"
         /\ e = Event(e.type, e.row, e.time)
         /\ e.type = "runtime" => e.time = e.row.at
<1>1. CASE e \in {Event("deployment", d, d.start) : d \in Records}
  <2>1. PICK d \in Records : e = Event("deployment", d, d.start)
    BY <1>1
  <2>2. e.row = d /\ e.time = d.start /\ e.type = "deployment"
    BY <2>1 DEF Event
  <2> QED BY <2>1, <2>2, PageFacts
<1>2. CASE e \in {Event("runtime", o, o.at) : o \in {x \in Observations : query.kind = "timeline"}}
  <2>1. PICK o \in Observations : e = Event("runtime", o, o.at) /\ query.kind = "timeline"
    BY <1>2
  <2>2. e.row = o /\ e.time = o.at /\ e.type = "runtime"
    BY <2>1 DEF Event
  <2> QED BY <2>1, <2>2, PageFacts
<1> QED BY <1>1, <1>2 DEF Events

\* The cursor's key of a row is that of the query.
LEMMA KeyIs ==
  ASSUME NEW e \in Events
  PROVE  /\ Key(e) \in Keys
         /\ KeyWith(e, Priority(e)) = Key(e)
         /\ Key(e)[1] = 0 - e.time
<1>1. e.row.id \in Int /\ e.time \in Int /\ (e.type = "deployment" \/ e.type = "runtime")
  BY EventIs
<1>2. EventPriority(e) \in Int /\ Priority(e) = EventPriority(e)
  BY <1>1 DEF EventPriority, Priority
<1>3. 0 - e.time \in Int /\ 0 - e.row.id \in Int
  BY <1>1
<1>4. Key(e) = IF query.kind = "timeline" THEN <<0 - e.time, EventPriority(e), e.row.id>>
               ELSE <<0 - e.time, 0, 0 - e.row.id>>
  BY DEF Key, KeyWith
<1>5. Key(e) \in Keys /\ Key(e)[1] = 0 - e.time
  BY <1>1, <1>2, <1>3, <1>4 DEF Keys
<1> QED BY <1>2, <1>5 DEF Key

\* No two rows of a listing have the same key.
LEMMA KeysDiffer ==
  ASSUME NEW e \in Events, NEW f \in Events, Key(e) = Key(f)
  PROVE  e = f
<1>1. /\ e.row.id \in Int /\ e.time \in Int
      /\ \/ e.type = "deployment" /\ e.row \in Records
         \/ e.type = "runtime" /\ e.row \in Observations /\ query.kind = "timeline"
      /\ e = Event(e.type, e.row, e.time)
  BY EventIs
<1>2. /\ f.row.id \in Int /\ f.time \in Int
      /\ \/ f.type = "deployment" /\ f.row \in Records
         \/ f.type = "runtime" /\ f.row \in Observations /\ query.kind = "timeline"
      /\ f = Event(f.type, f.row, f.time)
  BY EventIs
<1>3. e.time = f.time /\ e.row.id = f.row.id /\ e.type = f.type
  <2>1. CASE query.kind = "timeline"
    <3>1. /\ 0 - e.time = 0 - f.time
          /\ EventPriority(e) = EventPriority(f) /\ e.row.id = f.row.id
      BY <2>1 DEF Key, KeyWith
    <3>2. e.type = f.type
      BY <1>1, <1>2, <3>1 DEF EventPriority
    <3> QED BY <1>1, <1>2, <3>1, <3>2
  <2>2. CASE query.kind # "timeline"
    <3>1. 0 - e.time = 0 - f.time /\ 0 - e.row.id = 0 - f.row.id
      BY <2>2 DEF Key, KeyWith
    <3> QED BY <1>1, <1>2, <2>2, <3>1
  <2> QED BY <2>1, <2>2
<1>4. e.row = f.row
  BY <1>1, <1>2, <1>3, PageFacts
<1> QED BY <1>1, <1>2, <1>3, <1>4

\* The order of keys is total.
LEMMA KeysInOrder ==
  ASSUME NEW j \in Keys, NEW k \in Keys, NEW l \in Keys
  PROVE  /\ ~ Less(j, j)
         /\ Less(j, k) => ~ Less(k, j)
         /\ Less(j, k) /\ Less(k, l) => Less(j, l)
         /\ j = k \/ Less(j, k) \/ Less(k, j)
         /\ Less(j, k) => j[1] <= k[1]
<1>1. /\ j[1] \in Int /\ j[2] \in Int /\ j[3] \in Int /\ j = <<j[1], j[2], j[3]>>
      /\ k[1] \in Int /\ k[2] \in Int /\ k[3] \in Int /\ k = <<k[1], k[2], k[3]>>
      /\ l[1] \in Int /\ l[2] \in Int /\ l[3] \in Int
  BY DEF Keys
<1>2. ~ Less(j, j) /\ (Less(j, k) => ~ Less(k, j))
  BY <1>1 DEF Less
<1>3. Less(j, k) /\ Less(k, l) => Less(j, l)
  BY <1>1 DEF Less
<1>4. j = k \/ Less(j, k) \/ Less(k, j)
  <2>1. SUFFICES ASSUME ~ Less(j, k), ~ Less(k, j)
                 PROVE  j = k
    OBVIOUS
  <2>2. j[1] = k[1] /\ j[2] = k[2] /\ j[3] = k[3]
    BY <1>1, <2>1 DEF Less
  <2> QED BY <1>1, <2>2
<1>5. Less(j, k) => j[1] <= k[1]
  BY <1>1 DEF Less
<1> QED BY <1>2, <1>3, <1>4, <1>5

\* The order of rows is total.
LEMMA EventsInOrder ==
  ASSUME NEW e \in Events, NEW f \in Events, NEW g \in Events
  PROVE  /\ ~ Before(e, e)
         /\ Before(e, f) /\ Before(f, g) => Before(e, g)
         /\ e = f \/ Before(e, f) \/ Before(f, e)
<1>1. Key(e) \in Keys /\ Key(f) \in Keys /\ Key(g) \in Keys
  BY KeyIs
<1>2. Key(e) = Key(f) => e = f
  BY KeysDiffer
<1> QED BY <1>1, <1>2, KeysInOrder DEF Before

BelowIn(S, e) == {f \in S : Before(f, e)}

\* What comes before the rows of a set, as Places and FirstAre want it.
LEMMA BelowIs ==
  ASSUME NEW S \in SUBSET Events, NEW below, below = [e \in S |-> BelowIn(S, e)]
  PROVE  /\ below \in [S -> SUBSET S]
         /\ \A x \in S : x \notin below[x]
         /\ \A x, y \in S : x \in below[y] => below[x] \subseteq below[y]
         /\ \A x, y \in S : x = y \/ x \in below[y] \/ y \in below[x]
<1>1. below \in [S -> SUBSET S] /\ \A x, y \in S : x \in below[y] <=> Before(x, y)
  BY DEF BelowIn
<1>2. \A x \in S : ~ Before(x, x)
  BY EventsInOrder
<1>3. \A x, y, z \in S : Before(x, y) /\ Before(y, z) => Before(x, z)
  BY EventsInOrder
<1>4. \A x, y \in S : x = y \/ Before(x, y) \/ Before(y, x)
  BY EventsInOrder
<1> QED BY <1>1, <1>2, <1>3, <1>4

\* The first n are at most n, and have what comes before each of them; they are n or all.
LEMMA FirstNAre ==
  ASSUME NEW S \in SUBSET Events, IsFiniteSet(S), NEW n \in Nat, NEW F, F = FirstN(S, n)
  PROVE  /\ F \in SUBSET S /\ IsFiniteSet(F)
         /\ Cardinality(F) \in Nat /\ Cardinality(F) <= n
         /\ Cardinality(S) <= n => F = S
         /\ F # S => Cardinality(F) = n
         /\ \A e \in F, f \in S : Before(f, e) => f \in F
<1>1. PICK below : below = [e \in S |-> BelowIn(S, e)]
  OBVIOUS
<1>2. /\ below \in [S -> SUBSET S]
      /\ \A x \in S : x \notin below[x]
      /\ \A x, y \in S : x \in below[y] => below[x] \subseteq below[y]
      /\ \A x, y \in S : x = y \/ x \in below[y] \/ y \in below[x]
  BY <1>1, BelowIs
<1>3. F = {x \in S : Cardinality(below[x]) < n}
  BY <1>1 DEF FirstN, BelowIn, Before
<1>4. /\ F \in SUBSET S /\ IsFiniteSet(F)
      /\ Cardinality(F) \in Nat /\ Cardinality(F) <= n
      /\ F = S \/ Cardinality(F) = n
  BY <1>2, <1>3, FirstAre
<1>5. ASSUME Cardinality(S) <= n
      PROVE  F = S
  <2>1. Cardinality(F) <= Cardinality(S) /\ (Cardinality(F) = Cardinality(S) => F = S)
    BY <1>4, FS_Subset
  <2>2. Cardinality(S) \in Nat
    BY FS_CardinalityType
  <2> QED BY <1>4, <1>5, <2>1, <2>2
<1>6. ASSUME NEW e \in F, NEW f \in S, Before(f, e)
      PROVE  f \in F
  <2>1. \A x \in S : Cardinality(below[x]) \in Nat
    BY <1>2, Places
  <2>2. \A x, y \in S : x \in below[y] <=> Cardinality(below[x]) < Cardinality(below[y])
    BY <1>2, Places
  <2>3. f \in below[e] /\ e \in S /\ Cardinality(below[e]) < n
    BY <1>1, <1>3, <1>6 DEF BelowIn
  <2>4. Cardinality(below[f]) < n
    BY <2>1, <2>2, <2>3
  <2> QED BY <1>3, <2>4
<1> QED BY <1>4, <1>5, <1>6

\* A sorted set is the set, in order.
LEMMA SortedIs ==
  ASSUME NEW S \in SUBSET Events, IsFiniteSet(S), NEW q, q = Sorted(S)
  PROVE  /\ Cardinality(S) \in Nat
         /\ q \in [1..Cardinality(S) -> S]
         /\ \A m, n \in 1..Cardinality(S) : m < n => Before(q[m], q[n])
         /\ \A e \in S : \E n \in 1..Cardinality(S) : q[n] = e
<1>1. PICK below : below = [e \in S |-> BelowIn(S, e)]
  OBVIOUS
<1>2. /\ below \in [S -> SUBSET S]
      /\ \A x \in S : x \notin below[x]
      /\ \A x, y \in S : x \in below[y] => below[x] \subseteq below[y]
      /\ \A x, y \in S : x = y \/ x \in below[y] \/ y \in below[x]
  BY <1>1, BelowIs
<1>3. PICK size : size = Cardinality(S)
  OBVIOUS
<1>4. /\ size \in Nat
      /\ \A x \in S : Cardinality(below[x]) \in Nat
      /\ \A x, y \in S : x \in below[y] <=> Cardinality(below[x]) < Cardinality(below[y])
      /\ \A n \in 1..size : \E x \in S : Cardinality(below[x]) = n - 1
  BY <1>2, <1>3, Places
<1>5. \E s \in [1..size -> S] : \A m, n \in DOMAIN s : m < n => Before(s[m], s[n])
  <2> DEFINE s == [n \in 1..size |-> CHOOSE x \in S : Cardinality(below[x]) = n - 1]
  <2>1. \A n \in 1..size : s[n] \in S /\ Cardinality(below[s[n]]) = n - 1
    BY <1>4
  <2>2. DOMAIN s = 1..size /\ s \in [1..size -> S]
    BY <2>1
  <2> HIDE DEF s
  <2>3. ASSUME NEW m \in 1..size, NEW n \in 1..size, m < n
        PROVE  Before(s[m], s[n])
    <3>1. Cardinality(below[s[m]]) < Cardinality(below[s[n]])
      BY <1>4, <2>1, <2>3
    <3>2. s[m] \in below[s[n]]
      BY <1>4, <2>1, <3>1
    <3> QED BY <1>1, <2>1, <3>2 DEF BelowIn
  <2> QED BY <2>2, <2>3
<1>6. q = CHOOSE s \in [1..size -> S] : \A m, n \in DOMAIN s : m < n => Before(s[m], s[n])
  BY <1>3 DEF Sorted, Before
<1>7. q \in [1..size -> S] /\ \A m, n \in DOMAIN q : m < n => Before(q[m], q[n])
  BY <1>5, <1>6
<1>8. \A m, n \in 1..size : m < n => Before(q[m], q[n])
  BY <1>7
<1>9. \A e \in S : \E n \in 1..size : q[n] = e
  <2>1. q \in Injection(1..size, S)
    <3>1. \A e \in S : ~ Before(e, e)
      BY EventsInOrder
    <3>2. \A m, n \in 1..size : q[m] = q[n] => m = n
      <4>1. ASSUME NEW m \in 1..size, NEW n \in 1..size, q[m] = q[n]
            PROVE  m = n
        <5>1. q[m] \in S
          BY <1>7
        <5>2. ~ (m < n) /\ ~ (n < m)
          BY <1>8, <3>1, <4>1, <5>1
        <5>3. m \in Int /\ n \in Int
          OBVIOUS
        <5> QED BY <5>2, <5>3
      <4> QED BY <4>1
    <3> QED BY <1>7, <3>2 DEF Injection, IsInjective
  <2>2. Cardinality(1..size) = size /\ IsFiniteSet(1..size)
    <3>1. /\ IsFiniteSet(1..size)
          /\ Cardinality(1..size) = IF 1 > size THEN 0 ELSE size - 1 + 1
      BY <1>4, FS_Interval
    <3> QED BY <1>4, <3>1
  <2>3. PICK T : T = 1..size
    OBVIOUS
  <2>4. q \in Injection(T, S) /\ Cardinality(T) = Cardinality(S) /\ IsFiniteSet(T)
    BY <1>3, <2>1, <2>2, <2>3
  <2>5. q \in Surjection(T, S)
    BY <2>4, FS_Injection
  <2> QED BY <2>3, <2>5 DEF Surjection
<1> QED BY <1>3, <1>4, <1>7, <1>8, <1>9

\* As many rows come before a row of a sorted set as its place says.
LEMMA PlaceIs ==
  ASSUME NEW S \in SUBSET Events, IsFiniteSet(S), NEW q, q = Sorted(S),
         NEW n \in 1..Cardinality(S)
  PROVE  Cardinality(BelowIn(S, q[n])) = n - 1
<1>1. PICK size : size = Cardinality(S)
  OBVIOUS
<1>2. /\ size \in Nat
      /\ q \in [1..size -> S]
      /\ \A i, j \in 1..size : i < j => Before(q[i], q[j])
      /\ \A e \in S : \E i \in 1..size : q[i] = e
  BY <1>1, SortedIs
<1>3. n \in 1..size /\ n \in Int
  BY <1>1
<1>4. \A e, f \in S : ~ (Before(e, f) /\ Before(f, e)) /\ ~ Before(e, e)
  <2>1. ASSUME NEW e \in S, NEW f \in S
        PROVE  ~ (Before(e, f) /\ Before(f, e)) /\ ~ Before(e, e)
    <3>1. e \in Events /\ f \in Events
      OBVIOUS
    <3> QED BY <3>1, EventsInOrder
  <2> QED BY <2>1
<1> DEFINE T == 1..(n - 1)
           U == BelowIn(S, q[n])
           f == [i \in T |-> q[i]]
<1>5. \A i \in T : i \in 1..size /\ i < n
  BY <1>2, <1>3
<1>6. f \in [T -> U]
  <2>1. \A i \in T : q[i] \in S /\ Before(q[i], q[n])
    BY <1>2, <1>3, <1>5
  <2> QED BY <2>1 DEF BelowIn
<1>7. f \in Injection(T, U)
  <2>1. ASSUME NEW i \in T, NEW j \in T, f[i] = f[j]
        PROVE  i = j
    <3>1. i \in 1..size /\ j \in 1..size /\ q[i] = q[j] /\ q[i] \in S
      BY <1>2, <1>5, <2>1
    <3>2. ~ (i < j) /\ ~ (j < i)
      BY <1>2, <1>4, <3>1
    <3> QED BY <3>1, <3>2
  <2> QED BY <1>6, <2>1 DEF Injection, IsInjective
<1>8. f \in Surjection(T, U)
  <2>1. ASSUME NEW e \in U
        PROVE  \E i \in T : f[i] = e
    <3>1. e \in S /\ Before(e, q[n])
      BY DEF BelowIn
    <3>2. PICK i \in 1..size : q[i] = e
      BY <1>2, <3>1
    <3>3. q[n] \in S
      BY <1>2, <1>3
    <3>4. ~ (n < i) /\ n # i
      BY <1>2, <1>3, <1>4, <3>1, <3>2, <3>3
    <3>5. i \in T
      BY <1>2, <1>3, <3>4
    <3> QED BY <3>2, <3>5
  <2> QED BY <1>6, <2>1 DEF Surjection
<1>9. IsFiniteSet(T) /\ Cardinality(T) = n - 1
  <2>1. PICK m \in Int : m = n - 1
    BY <1>3
  <2>2. /\ IsFiniteSet(1..m)
        /\ Cardinality(1..m) = IF 1 > m THEN 0 ELSE m - 1 + 1
    BY FS_Interval
  <2>3. m >= 0
    BY <1>3, <2>1
  <2> QED BY <2>1, <2>2, <2>3
<1>10. IsFiniteSet(U)
  <2>1. U \in SUBSET S
    BY DEF BelowIn
  <2> HIDE DEF U
  <2> QED BY <2>1, FS_Subset
<1>11. Cardinality(T) = Cardinality(U)
  <2> HIDE DEF T, U, f
  <2>1. Cardinality(T) = Cardinality(U) <=> f \in Surjection(T, U)
    BY <1>7, <1>9, <1>10, FS_Injection, FS_Surjection
  <2> QED BY <1>8, <2>1
<1> QED BY <1>9, <1>11

\* A page has all the rows up to its last one, and all there are if no page follows.
LEMMA PageIs ==
  ASSUME NEW L \in SUBSET Events, IsFiniteSet(L), NEW limit \in Nat, limit >= 1,
         NEW R, R = FirstN(L, limit + 1), NEW P, P = FirstN(R, limit)
  PROVE  /\ P \in SUBSET L /\ IsFiniteSet(P)
         /\ Cardinality(R) <= limit => P = L
         /\ ~ (Cardinality(R) <= limit) =>
              /\ Sorted(R)[limit] \in P
              /\ \A e \in L : e \in P <=> ~ Before(Sorted(R)[limit], e)
<1>1. PICK more \in Nat : more = limit + 1
  OBVIOUS
<1>2. /\ R \in SUBSET L /\ IsFiniteSet(R)
      /\ Cardinality(R) \in Nat /\ Cardinality(R) <= more
      /\ R # L => Cardinality(R) = more
      /\ \A e \in R, f \in L : Before(f, e) => f \in R
  <2>1. R = FirstN(L, more)
    BY <1>1
  <2> QED BY <2>1, FirstNAre
<1>3. R \in SUBSET Events
  BY <1>2
<1>4. /\ P \in SUBSET R /\ IsFiniteSet(P)
      /\ Cardinality(R) <= limit => P = R
  BY <1>2, <1>3, FirstNAre
<1>5. Cardinality(R) <= limit => P = L
  BY <1>1, <1>2, <1>4
<1>6. ASSUME ~ (Cardinality(R) <= limit)
      PROVE  /\ Sorted(R)[limit] \in P
             /\ \A e \in L : e \in P <=> ~ Before(Sorted(R)[limit], e)
  <2>1. PICK q : q = Sorted(R)
    OBVIOUS
  <2>2. PICK size : size = Cardinality(R)
    OBVIOUS
  <2>3. /\ size \in Nat /\ q \in [1..size -> R]
        /\ \A m, n \in 1..size : m < n => Before(q[m], q[n])
        /\ \A e \in R : \E n \in 1..size : q[n] = e
    BY <1>2, <1>3, <2>1, <2>2, SortedIs
  <2>4. limit \in 1..size
    BY <1>2, <1>6, <2>2
  <2>5. \A n \in 1..size : Cardinality(BelowIn(R, q[n])) = n - 1
    BY <1>2, <1>3, <2>1, <2>2, PlaceIs
  <2>6. \A n \in 1..size : q[n] \in P <=> n <= limit
    <3>1. \A e \in R : e \in P <=> Cardinality(BelowIn(R, e)) < limit
      BY DEF FirstN, BelowIn, Before
    <3> QED BY <2>3, <2>5, <3>1
  <2>7. PICK k \in R : k = q[limit]
    BY <2>3, <2>4
  <2>8. k \in P
    BY <2>4, <2>6, <2>7
  <2>9. ASSUME NEW e \in L
        PROVE  e \in P <=> ~ Before(k, e)
    <3>1. e \in Events /\ k \in Events
      BY <1>3
    <3>2. CASE e \in R
      <4>1. PICK n \in 1..size : q[n] = e
        BY <2>3, <3>2
      <4>2. CASE n <= limit
        <5>1. e \in P
          BY <2>6, <4>1, <4>2
        <5>2. n = limit \/ Before(e, k)
          BY <2>3, <2>4, <2>7, <4>1, <4>2
        <5>3. e = k \/ Before(e, k)
          BY <2>7, <4>1, <5>2
        <5> QED BY <3>1, <5>1, <5>3, EventsInOrder
      <4>3. CASE ~ (n <= limit)
        <5>1. e \notin P
          BY <2>6, <4>1, <4>3
        <5>2. Before(k, e)
          BY <2>3, <2>4, <2>7, <4>1, <4>3
        <5> QED BY <5>1, <5>2
      <4> QED BY <4>2, <4>3
    <3>3. CASE e \notin R
      <4>1. e \notin P /\ e # k
        BY <1>4, <3>3
      <4>2. ~ Before(e, k)
        BY <1>2, <3>3
      <4> QED BY <3>1, <4>1, <4>2, EventsInOrder
    <3> QED BY <3>2, <3>3
  <2> QED BY <2>1, <2>7, <2>8, <2>9
<1> QED BY <1>2, <1>4, <1>5, <1>6

-----------------------------------------------------------------------------
(* The listing                                                             *)

Windows == [since : Int, until : Int]
Cursors == [key : Keys, window : Windows]

Statuses == {"UNKNOWN", "MATCHED", "PARTIAL", "CONTRADICTED"}
Conclusions == [status : Statuses, seen : SUBSET Observations]

\* What is delivered, and what a page of deploys has before its associations.
Things == [event : Events] \cup [event : Events, association : Conclusions]
PageItems == [event : Events, next : Int \cup {None}, concurrent : BOOLEAN]

ReadSets ==
  [first : SUBSET Events, window : Windows \cup {None}, found : SUBSET Records,
   deployments : SUBSET Records, observations : SUBSET Observations, from : Nat]

Pages == [items : Seq(PageItems), next : Cursors \cup {None}, until : Int]

PagesTypeOK ==
  /\ deployments \in SUBSET Records /\ observations \in SUBSET Observations
  /\ query \in Queries /\ now \in Clock
  /\ phase \in {"page", "attach", "done", "refused"}
  /\ cursor \in Cursors \cup {None}
  /\ delivered \in Seq(Things)
  /\ read \in ReadSets
  /\ phase = "attach" =>
       /\ query.kind = "deploys" /\ page \in Pages
       /\ read.window \in Windows /\ page.until = read.window.until

\* The rows of ds and os in the window w that are asked for.
ListedIn(w, ds, os) ==
  {e \in Events :
     /\ w.since <= e.time /\ e.time < w.until
     /\ query.service \in {None, e.row.service}
     /\ e.type = "deployment" => e.row \in ds /\ query.status \in {None, e.row.status}
     /\ e.type = "runtime" => e.row \in os}

\* What is delivered is in order and comes up to the cursor.
DeliveredOK ==
  /\ \A m, n \in DOMAIN delivered : m < n => Before(delivered[m].event, delivered[n].event)
  /\ cursor # None =>
       /\ cursor.window = read.window
       /\ \A n \in DOMAIN delivered : ~ Less(cursor.key, Key(delivered[n].event))
  /\ cursor = None /\ phase # "done" => delivered = <<>>

Delivered(e) == \E n \in DOMAIN delivered : delivered[n].event = e

\* What was there at the first page is still there, and delivered up to the cursor.
ShownOK ==
  /\ cursor # None \/ phase = "attach" =>
       read.first \subseteq ListedIn(read.window, deployments, observations)
  /\ cursor # None => \A e \in read.first : ~ Less(cursor.key, Key(e)) => Delivered(e)
  /\ phase = "done" => \A e \in read.first : Delivered(e)

\* A window that was asked for to its end is always the same.
AskedOK ==
  /\ query.until # None /\ cursor # None => cursor.window = AskedWindow
  /\ query.until # None /\ phase = "attach" => read.window = AskedWindow
  /\ phase = "refused" => query.until = None /\ query.kind # "discover"

\* A page has what comes after the cursor, as far as its last row, in order.
PageOK(items, next, first, window) ==
  /\ \A n \in DOMAIN items : cursor # None => Less(cursor.key, Key(items[n].event))
  /\ \A m, n \in DOMAIN items : m < n => Before(items[m].event, items[n].event)
  /\ next # None =>
       /\ next \in Cursors /\ next.window = window
       /\ \A n \in DOMAIN items : ~ Less(next.key, Key(items[n].event))
       /\ \E n \in DOMAIN items : Key(items[n].event) = next.key
  /\ \A e \in first :
       /\ cursor # None => Less(cursor.key, Key(e))
       /\ next # None => ~ Less(next.key, Key(e))
       => \E n \in DOMAIN items : items[n].event = e

\* The start of the deployment in ds that follows d, if there is one.
NextIs(ds, d, next) ==
  \/ /\ next = None
     /\ \A e \in ds : e.service = d.service => ~ (d.start < e.start)
  \/ /\ next \in Int /\ d.start < next
     /\ \E e \in ds : e.service = d.service /\ e.start = next
     /\ \A e \in ds : e.service = d.service /\ d.start < e.start => next <= e.start

\* What the query of a page says of its rows.
ItemOK(item) ==
  /\ NextIs(read.found, item.event.row, item.next)
  /\ ~ item.concurrent =>
       \A e \in read.found : e.service = item.event.row.service /\ e.start = item.event.row.start
                               => e.id = item.event.row.id

AttachOK ==
  phase = "attach" =>
    /\ PageOK(page.items, page.next, read.first, read.window)
    /\ \A n \in DOMAIN page.items : ItemOK(page.items[n])

PagesInv ==
  PagesTypeOK /\ DeliveredOK /\ ShownOK /\ AskedOK /\ AttachOK /\ ConclusionIsSound

\* The windows of a call.
LEMMA WindowIs ==
  ASSUME PagesTypeOK
  PROVE  AskedWindow \in Windows /\ Window \in Windows
<1>1. /\ now \in Int /\ Span \in Int
      /\ query.since \in Int \cup {None} /\ query.until \in Int \cup {None}
  BY PageFacts DEF PagesTypeOK
<1>2. AskedWindow \in Windows
  BY <1>1 DEF AskedWindow, Windows
<1>3. cursor # None => cursor.window \in Windows
  BY DEF PagesTypeOK, Cursors
<1> QED BY <1>2, <1>3 DEF Window, ListQueryWindow

\* The rows a listing has, by what is asked of each.
LEMMA ListedIs ==
  ASSUME PagesTypeOK, NEW w, w = Window
  PROVE  Listed(deployments, observations) = ListedIn(w, deployments, observations)
<1>1. \A service, time : Asked(service, time) <=>
        query.service \in {None, service} /\ w.since <= time /\ time < w.until
  BY DEF Asked
<1>2. deployments \subseteq Records /\ observations \subseteq Observations
  BY DEF PagesTypeOK
<1>3. ASSUME NEW e \in Listed(deployments, observations)
      PROVE  e \in ListedIn(w, deployments, observations)
  <2>1. CASE e \in {Event("deployment", d, d.start) :
                      d \in {x \in deployments : Asked(x.service, x.start)
                                                 /\ query.status \in {None, x.status}}}
    <3>1. PICK d \in deployments : /\ e = Event("deployment", d, d.start)
                                   /\ Asked(d.service, d.start)
                                   /\ query.status \in {None, d.status}
      BY <2>1
    <3>2. e.type = "deployment" /\ e.row = d /\ e.time = d.start
      BY <3>1 DEF Event
    <3>3. e \in Events
      BY <1>2, <3>1 DEF Events
    <3> QED BY <1>1, <3>1, <3>2, <3>3 DEF ListedIn
  <2>2. CASE e \in {Event("runtime", o, o.at) :
                      o \in {x \in observations : query.kind = "timeline"
                                                  /\ Asked(x.service, x.at)}}
    <3>1. PICK o \in observations : /\ e = Event("runtime", o, o.at)
                                    /\ query.kind = "timeline" /\ Asked(o.service, o.at)
      BY <2>2
    <3>2. e.type = "runtime" /\ e.row = o /\ e.time = o.at
      BY <3>1 DEF Event
    <3>3. e \in Events
      BY <1>2, <3>1 DEF Events
    <3> QED BY <1>1, <3>1, <3>2, <3>3 DEF ListedIn
  <2> QED BY <2>1, <2>2 DEF Listed
<1>4. ASSUME NEW e \in ListedIn(w, deployments, observations)
      PROVE  e \in Listed(deployments, observations)
  <2>1. /\ e \in Events /\ w.since <= e.time /\ e.time < w.until
        /\ query.service \in {None, e.row.service}
        /\ e.type = "deployment" => e.row \in deployments /\ query.status \in {None, e.row.status}
        /\ e.type = "runtime" => e.row \in observations
    BY DEF ListedIn
  <2>2. /\ \/ e.type = "deployment" /\ e.row \in Records /\ e.time = e.row.start
           \/ e.type = "runtime" /\ e.row \in Observations /\ query.kind = "timeline"
        /\ e = Event(e.type, e.row, e.time)
        /\ e.type = "runtime" => e.time = e.row.at
    BY <2>1, EventIs
  <2>3. Asked(e.row.service, e.time)
    BY <1>1, <2>1
  <2>4. CASE e.type = "deployment"
    BY <2>1, <2>2, <2>3, <2>4 DEF Listed
  <2>5. CASE e.type = "runtime"
    BY <2>1, <2>2, <2>3, <2>5 DEF Listed
  <2> QED BY <2>2, <2>4, <2>5
<1> QED BY <1>3, <1>4

\* What is ingested takes nothing away.
LEMMA ListedGrows ==
  ASSUME NEW w, NEW ds, NEW es, ds \subseteq es, NEW os, NEW ps, os \subseteq ps
  PROVE  ListedIn(w, ds, os) \subseteq ListedIn(w, es, ps)
BY DEF ListedIn

\* A listing is finite.
LEMMA EventsFinite == IsFiniteSet(Events)
<1> DEFINE T == {Event("deployment", d, d.start) : d \in Records}
           U == {Event("runtime", o, o.at) : o \in Observations}
           f == [d \in Records |-> Event("deployment", d, d.start)]
           g == [o \in Observations |-> Event("runtime", o, o.at)]
<1>1. IsFiniteSet(Records) /\ IsFiniteSet(Observations)
  BY PageFacts
<1>2. IsFiniteSet(T)
  <2>1. f \in Surjection(Records, T)
    BY DEF Surjection
  <2> HIDE DEF T, f
  <2> QED BY <1>1, <2>1, FS_Surjection
<1>3. IsFiniteSet(U)
  <2>1. g \in Surjection(Observations, U)
    BY DEF Surjection
  <2> HIDE DEF U, g
  <2> QED BY <1>1, <2>1, FS_Surjection
<1>4. Events \in SUBSET (T \cup U)
  BY DEF Events
<1>5. IsFiniteSet(T \cup U)
  <2> HIDE DEF T, U
  <2> QED BY <1>2, <1>3, FS_Union
<1> HIDE DEF T, U
<1> QED BY <1>4, <1>5, FS_Subset

\* Where the elements of two sequences are when they are joined.
LEMMA Joined ==
  ASSUME NEW S, NEW s \in Seq(S), NEW t \in Seq(S), NEW u, u = s \o t
  PROVE  /\ u \in Seq(S) /\ Len(u) = Len(s) + Len(t)
         /\ DOMAIN s = 1..Len(s) /\ DOMAIN t = 1..Len(t) /\ DOMAIN u = 1..Len(u)
         /\ Len(s) \in Nat /\ Len(t) \in Nat /\ Len(u) \in Nat
         /\ \A n \in DOMAIN s : n \in DOMAIN u /\ u[n] = s[n]
         /\ \A n \in DOMAIN t : Len(s) + n \in DOMAIN u /\ u[Len(s) + n] = t[n]
         /\ \A n \in DOMAIN u : \/ n \in DOMAIN s /\ u[n] = s[n]
                                \/ /\ n > Len(s) /\ n - Len(s) \in DOMAIN t
                                   /\ u[n] = t[n - Len(s)]
<1>1. /\ u \in Seq(S) /\ Len(u) = Len(s) + Len(t)
      /\ \A i \in 1..(Len(s) + Len(t)) : u[i] = IF i <= Len(s) THEN s[i] ELSE t[i - Len(s)]
  BY ConcatProperties
<1>2. /\ Len(s) \in Nat /\ DOMAIN s = 1..Len(s)
      /\ Len(t) \in Nat /\ DOMAIN t = 1..Len(t)
  BY LenProperties
<1>3. DOMAIN u = 1..Len(u) /\ Len(u) \in Nat
  BY <1>1, LenProperties
<1>4. \A n \in DOMAIN s : n \in DOMAIN u /\ u[n] = s[n]
  BY <1>1, <1>2, <1>3
<1>5. ASSUME NEW n \in DOMAIN t
      PROVE  Len(s) + n \in DOMAIN u /\ u[Len(s) + n] = t[n]
  <2>1. PICK i \in 1..(Len(s) + Len(t)) : i = Len(s) + n
    BY <1>2
  <2>2. ~ (i <= Len(s)) /\ i - Len(s) = n
    BY <1>2, <2>1
  <2> QED BY <1>1, <1>3, <2>1, <2>2
<1>6. ASSUME NEW n \in DOMAIN u
      PROVE  \/ n \in DOMAIN s /\ u[n] = s[n]
             \/ n > Len(s) /\ n - Len(s) \in DOMAIN t /\ u[n] = t[n - Len(s)]
  <2>1. n \in 1..(Len(s) + Len(t))
    BY <1>1, <1>3
  <2>2. CASE n <= Len(s)
    BY <1>1, <1>2, <2>1, <2>2
  <2>3. CASE ~ (n <= Len(s))
    BY <1>1, <1>2, <2>1, <2>3
  <2> QED BY <2>2, <2>3
<1> QED BY <1>1, <1>2, <1>3, <1>4, <1>5, <1>6

\* What a page reads is all that comes after its cursor up to its last row, in order.
LEMMA PageRead ==
  ASSUME PagesTypeOK, DeliveredOK, ShownOK, phase = "page", Compatible,
         NEW events, events = Sorted(FirstN(Rows, query.limit)),
         NEW items, DOMAIN items = DOMAIN events,
         \A n \in DOMAIN events : items[n].event = events[n],
         NEW next, next = NextCursor(Rows), NEW w, w = Window, NEW first, first = First
  PROVE  /\ \E k \in Nat : events \in [1..k -> Events]
         /\ PageOK(items, next, first, w)
         /\ first \subseteq ListedIn(w, deployments, observations)
         /\ cursor # None => first = read.first /\ w = read.window
         /\ next \in Cursors \cup {None} /\ w \in Windows
<1>1. w \in Windows
  BY WindowIs
<1>2. PICK A : A = ListedIn(w, deployments, observations)
  OBVIOUS
<1>3. A = Listed(deployments, observations) /\ A \subseteq Events
  BY <1>2, ListedIs DEF ListedIn
<1>4. cursor # None => first = read.first /\ w = read.window
  BY DEF First, Compatible, DeliveredOK
<1>5. first \subseteq A
  BY <1>2, <1>3, <1>4 DEF First, ShownOK
<1>6. PICK L : L = {e \in A : cursor = None \/ Less(cursor.key, Key(e))}
  OBVIOUS
<1>7. L \in SUBSET Events /\ IsFiniteSet(L)
  <2>1. L \in SUBSET Events
    BY <1>3, <1>6
  <2> QED BY <2>1, EventsFinite, FS_Subset
<1>8. PICK limit \in Nat : limit = query.limit /\ limit >= 1
  BY PageFacts DEF PagesTypeOK
<1>9. PICK R : R = FirstN(L, limit + 1)
  OBVIOUS
<1>10. R = Rows
  BY <1>3, <1>6, <1>8, <1>9 DEF Rows
<1>11. PICK P : P = FirstN(R, limit)
  OBVIOUS
<1>12. /\ P \in SUBSET L /\ IsFiniteSet(P)
       /\ Cardinality(R) <= limit => P = L
       /\ ~ (Cardinality(R) <= limit) =>
            /\ Sorted(R)[limit] \in P
            /\ \A e \in L : e \in P <=> ~ Before(Sorted(R)[limit], e)
  BY <1>7, <1>8, <1>9, <1>11, PageIs
<1>13. PICK size : size = Cardinality(P)
  OBVIOUS
<1>14. /\ size \in Nat /\ events \in [1..size -> P]
       /\ \A m, n \in 1..size : m < n => Before(events[m], events[n])
       /\ \A e \in P : \E n \in 1..size : events[n] = e
  <2>1. P \in SUBSET Events
    BY <1>7, <1>12
  <2>2. events = Sorted(P)
    BY <1>8, <1>10, <1>11
  <2> QED BY <1>12, <1>13, <2>1, <2>2, SortedIs
<1>15. /\ DOMAIN items = 1..size
       /\ \A n \in 1..size : items[n].event = events[n] /\ events[n] \in P
       /\ \A e \in P : \E n \in 1..size : items[n].event = e
  BY <1>14
<1>16. events \in [1..size -> Events]
  BY <1>7, <1>12, <1>14
<1>17. next = IF Cardinality(R) <= limit THEN None ELSE CursorAt(Sorted(R)[limit])
  BY <1>8, <1>10 DEF NextCursor
<1>18. ASSUME next # None
       PROVE  /\ next \in Cursors /\ next.window = w
              /\ \E e \in P : Key(e) = next.key
              /\ \A e \in L : e \in P <=> ~ Less(next.key, Key(e))
  <2>1. PICK k \in P : k = Sorted(R)[limit] /\ \A e \in L : e \in P <=> ~ Before(k, e)
    BY <1>12, <1>17, <1>18
  <2>2. k \in Events
    BY <1>7, <1>12
  <2>3. next = [key |-> Key(k), window |-> w]
    <3>1. next = CursorAt(k)
      BY <1>17, <1>18, <2>1
    <3>2. KeyWith(k, Priority(k)) = Key(k)
      BY <2>2, KeyIs
    <3> QED BY <3>1, <3>2 DEF CursorAt
  <2>4. Key(k) \in Keys
    BY <2>2, KeyIs
  <2>5. next \in Cursors /\ next.window = w /\ next.key = Key(k)
    BY <1>1, <2>3, <2>4 DEF Cursors
  <2> QED BY <2>1, <2>5 DEF Before
<1>19. next = None => P = L
  <2>1. ASSUME next = None, ~ (Cardinality(R) <= limit)
        PROVE  FALSE
    <3>1. PICK k \in P : k = Sorted(R)[limit]
      BY <1>12, <2>1
    <3>2. k \in Events
      BY <1>7, <1>12
    <3>3. Key(k) \in Keys /\ KeyWith(k, Priority(k)) = Key(k)
      BY <3>2, KeyIs
    <3>4. CursorAt(k) \in [key : Keys, window : [since : Int, until : Int]]
      BY <1>1, <3>3 DEF CursorAt, Windows
    <3> QED BY <1>17, <2>1, <3>1, <3>4, PageFacts
  <2> QED BY <1>12, <2>1
<1>20. PageOK(items, next, first, w)
  <2>1. \A n \in DOMAIN items : cursor # None => Less(cursor.key, Key(items[n].event))
    BY <1>6, <1>12, <1>15
  <2>2. \A m, n \in DOMAIN items : m < n => Before(items[m].event, items[n].event)
    <3>1. ASSUME NEW m \in 1..size, NEW n \in 1..size, m < n
          PROVE  Before(items[m].event, items[n].event)
      <4>1. Before(events[m], events[n])
        BY <1>14, <3>1
      <4> QED BY <1>15, <4>1
    <3> QED BY <1>15, <3>1
  <2>3. next # None =>
          /\ next \in Cursors /\ next.window = w
          /\ \A n \in DOMAIN items : ~ Less(next.key, Key(items[n].event))
          /\ \E n \in DOMAIN items : Key(items[n].event) = next.key
    <3>1. SUFFICES ASSUME next # None
                   PROVE  /\ \A n \in DOMAIN items : ~ Less(next.key, Key(items[n].event))
                          /\ \E n \in DOMAIN items : Key(items[n].event) = next.key
      BY <1>18
    <3>2. \A e \in P : ~ Less(next.key, Key(e))
      BY <1>12, <1>18, <3>1
    <3>3. PICK e \in P : Key(e) = next.key
      BY <1>18, <3>1
    <3>4. PICK n \in 1..size : items[n].event = e
      BY <1>15
    <3> QED BY <1>15, <3>2, <3>3, <3>4
  <2>4. ASSUME NEW e \in first, cursor # None => Less(cursor.key, Key(e)),
               next # None => ~ Less(next.key, Key(e))
        PROVE  \E n \in DOMAIN items : items[n].event = e
    <3>1. e \in L
      BY <1>5, <1>6, <2>4
    <3>2. e \in P
      BY <1>18, <1>19, <2>4, <3>1
    <3> QED BY <1>15, <3>2
  <2> QED BY <2>1, <2>2, <2>3, <2>4 DEF PageOK
<1>21. next \in Cursors \cup {None}
  BY <1>18
<1> QED BY <1>1, <1>2, <1>4, <1>5, <1>14, <1>16, <1>20, <1>21

\* A page is joined to what was delivered.
LEMMA PageDelivered ==
  ASSUME PagesTypeOK, DeliveredOK, ShownOK, phase \in {"page", "attach"},
         NEW items \in Seq(Things), NEW next, NEW first, NEW w,
         PageOK(items, next, first, w),
         first \subseteq ListedIn(w, deployments, observations), first \subseteq Events,
         cursor # None => first = read.first,
         Deliver(items, next), read'.first = first, read'.window = w,
         UNCHANGED <<deployments, observations, query>>
  PROVE  DeliveredOK' /\ ShownOK' /\ delivered' \in Seq(Things)
<1>1. /\ delivered \in Seq(Things)
      /\ cursor # None => cursor.key \in Keys
  BY DEF PagesTypeOK, Cursors
<1>2. delivered' = delivered \o items /\ cursor' = next
      /\ phase' = IF next = None THEN "done" ELSE "page"
  BY DEF Deliver
<1>3. /\ delivered' \in Seq(Things)
      /\ DOMAIN delivered = 1..Len(delivered) /\ DOMAIN items = 1..Len(items)
      /\ DOMAIN delivered' = 1..Len(delivered')
      /\ Len(delivered) \in Nat
      /\ \A n \in DOMAIN delivered : n \in DOMAIN delivered' /\ delivered'[n] = delivered[n]
      /\ \A n \in DOMAIN items : /\ Len(delivered) + n \in DOMAIN delivered'
                                 /\ delivered'[Len(delivered) + n] = items[n]
      /\ \A n \in DOMAIN delivered' :
           \/ n \in DOMAIN delivered /\ delivered'[n] = delivered[n]
           \/ /\ n > Len(delivered) /\ n - Len(delivered) \in DOMAIN items
              /\ delivered'[n] = items[n - Len(delivered)]
  BY <1>1, <1>2, Joined
<1>4. \A e : Key(e)' = Key(e)
  BY DEF Key, KeyWith, EventPriority
<1>5. Events' = Events
  BY DEF Events
<1>6. /\ \A n \in DOMAIN delivered : delivered[n].event \in Events
      /\ \A n \in DOMAIN items : items[n].event \in Events
  <2>1. \A t \in Things : t.event \in Events
    BY DEF Things
  <2>2. /\ \A n \in DOMAIN delivered : delivered[n] \in Things
        /\ \A n \in DOMAIN items : items[n] \in Things
    BY <1>1, <1>3, ElementOfSeq
  <2> QED BY <2>1, <2>2
<1>7. /\ \A n \in DOMAIN delivered : Key(delivered[n].event) \in Keys
      /\ \A n \in DOMAIN items : Key(items[n].event) \in Keys
  BY <1>6, KeyIs
<1>8. /\ \A n \in DOMAIN items : cursor # None => Less(cursor.key, Key(items[n].event))
      /\ \A m, n \in DOMAIN items : m < n => Before(items[m].event, items[n].event)
      /\ next # None =>
           /\ next \in Cursors /\ next.window = w
           /\ \A n \in DOMAIN items : ~ Less(next.key, Key(items[n].event))
           /\ \E n \in DOMAIN items : Key(items[n].event) = next.key
      /\ \A e \in first :
           /\ cursor # None => Less(cursor.key, Key(e))
           /\ next # None => ~ Less(next.key, Key(e))
           => \E n \in DOMAIN items : items[n].event = e
  BY DEF PageOK
<1>9. cursor = None => delivered = <<>> /\ DOMAIN delivered = {}
  BY <1>3, EmptySeq DEF DeliveredOK
<1>10. \A m \in DOMAIN delivered, n \in DOMAIN items : Before(delivered[m].event, items[n].event)
  <2>1. ASSUME NEW m \in DOMAIN delivered, NEW n \in DOMAIN items
        PROVE  Before(delivered[m].event, items[n].event)
    <3>1. cursor # None
      BY <1>9
    <3>2. ~ Less(cursor.key, Key(delivered[m].event)) /\ Less(cursor.key, Key(items[n].event))
      BY <1>8, <3>1 DEF DeliveredOK
    <3>3. cursor.key \in Keys /\ Key(delivered[m].event) \in Keys /\ Key(items[n].event) \in Keys
      BY <1>1, <1>7, <3>1
    <3>4. Less(Key(delivered[m].event), Key(items[n].event))
      BY <3>2, <3>3, KeysInOrder
    <3> QED BY <3>4 DEF Before
  <2> QED BY <2>1
<1>11. \A m, n \in DOMAIN delivered' :
         m < n => Before(delivered'[m].event, delivered'[n].event)
  <2>1. ASSUME NEW m \in DOMAIN delivered', NEW n \in DOMAIN delivered', m < n
        PROVE  Before(delivered'[m].event, delivered'[n].event)
    <3>1. m \in Int /\ n \in Int
      BY <1>3
    <3>2. CASE m \in DOMAIN delivered /\ n \in DOMAIN delivered
      BY <1>3, <2>1, <3>2 DEF DeliveredOK
    <3>3. CASE m \in DOMAIN delivered /\ n \notin DOMAIN delivered
      <4>1. /\ delivered'[m] = delivered[m]
            /\ n - Len(delivered) \in DOMAIN items
            /\ delivered'[n] = items[n - Len(delivered)]
        BY <1>3, <3>3
      <4> QED BY <1>10, <3>3, <4>1
    <3>4. CASE m \notin DOMAIN delivered
      <4>1. /\ m - Len(delivered) \in DOMAIN items
            /\ delivered'[m] = items[m - Len(delivered)]
            /\ m > Len(delivered)
        BY <1>3, <3>4
      <4>2. n \notin DOMAIN delivered
        BY <1>3, <2>1, <3>1, <4>1
      <4>3. /\ n - Len(delivered) \in DOMAIN items
            /\ delivered'[n] = items[n - Len(delivered)]
        BY <1>3, <4>2
      <4>4. m - Len(delivered) < n - Len(delivered)
        BY <1>3, <2>1, <3>1
      <4> QED BY <1>8, <4>1, <4>3, <4>4
    <3> QED BY <3>2, <3>3, <3>4
  <2> QED BY <2>1
<1>12. ASSUME next # None
       PROVE  \A n \in DOMAIN delivered' : ~ Less(next.key, Key(delivered'[n].event))
  <2>1. PICK i \in DOMAIN items : Key(items[i].event) = next.key
    BY <1>8, <1>12
  <2>2. ASSUME NEW n \in DOMAIN delivered
        PROVE  ~ Less(next.key, Key(delivered[n].event))
    <3>1. Less(Key(delivered[n].event), next.key)
      BY <1>10, <2>1 DEF Before
    <3>2. Key(delivered[n].event) \in Keys /\ next.key \in Keys
      BY <1>7, <2>1
    <3> QED BY <3>1, <3>2, KeysInOrder
  <2>3. ASSUME NEW n \in DOMAIN delivered'
        PROVE  ~ Less(next.key, Key(delivered'[n].event))
    <3>1. CASE n \in DOMAIN delivered
      BY <1>3, <2>2, <3>1
    <3>2. CASE n \notin DOMAIN delivered
      <4>1. n - Len(delivered) \in DOMAIN items /\ delivered'[n] = items[n - Len(delivered)]
        BY <1>3, <3>2
      <4> QED BY <1>8, <1>12, <4>1
    <3> QED BY <3>1, <3>2
  <2> QED BY <2>3
<1>13. DeliveredOK'
  <2>1. (\A m, n \in DOMAIN delivered :
           m < n => Before(delivered[m].event, delivered[n].event))'
    BY <1>11 DEF Before, Key, KeyWith, EventPriority
  <2>2. cursor' # None => cursor'.window = read'.window
    BY <1>2, <1>8
  <2>3. (cursor # None => \A n \in DOMAIN delivered : ~ Less(cursor.key, Key(delivered[n].event)))'
    BY <1>2, <1>12 DEF Key, KeyWith, EventPriority
  <2>4. cursor' = None => phase' = "done"
    BY <1>2
  <2> QED BY <2>1, <2>2, <2>3, <2>4 DEF DeliveredOK
<1>14. ASSUME NEW e \in first, next # None => ~ Less(next.key, Key(e))
       PROVE  \E n \in DOMAIN delivered' : delivered'[n].event = e
  <2>1. CASE cursor # None /\ ~ Less(cursor.key, Key(e))
    <3>1. PICK n \in DOMAIN delivered : delivered[n].event = e
      BY <2>1 DEF ShownOK, Delivered
    <3> QED BY <1>3, <3>1
  <2>2. CASE cursor # None => Less(cursor.key, Key(e))
    <3>1. PICK n \in DOMAIN items : items[n].event = e
      BY <1>8, <1>14, <2>2
    <3> QED BY <1>3, <3>1
  <2> QED BY <2>1, <2>2
<1>15. ShownOK'
  <2>1. read'.first \subseteq ListedIn(read.window, deployments, observations)'
    <3>1. ListedIn(read.window, deployments, observations)'
            = ListedIn(w, deployments, observations)
      BY <1>5 DEF ListedIn
    <3> QED BY <3>1
  <2>2. (cursor # None => \A e \in read.first : ~ Less(cursor.key, Key(e)) => Delivered(e))'
    <3>1. next # None => \A e \in first : ~ Less(next.key, Key(e)) =>
                                           \E n \in DOMAIN delivered' : delivered'[n].event = e
      BY <1>14
    <3> QED BY <1>2, <1>4, <3>1 DEF Delivered
  <2>3. (phase = "done" => \A e \in read.first : Delivered(e))'
    <3>1. next = None => \A e \in first : \E n \in DOMAIN delivered' : delivered'[n].event = e
      BY <1>14
    <3> QED BY <1>2, <3>1 DEF Delivered
  <2> QED BY <2>1, <2>2, <2>3 DEF ShownOK
<1> QED BY <1>3, <1>13, <1>15

-----------------------------------------------------------------------------
(* Conclusions                                                             *)

\* Observed of the service of d in d's time, as far as os and ds show.
SeenAfter(os, ds, until, d) ==
  {o \in os :
     /\ o.service = d.service
     /\ o.at \in d.start..(until - 1) /\ o.at - d.start < Delay
     /\ \A e \in ds : e.service = d.service => e.start \notin (d.start + 1)..o.at}

\* What os and ds must show when a deployment is confirmed.
Confirmed(d, os, ds, until) ==
  /\ \E o \in SeenAfter(os, ds, until, d) : d.ids \cap o.ids # {}
  /\ \A o \in SeenAfter(os, ds, until, d) :
       (\A p \in SeenAfter(os, ds, until, d) : p.container = o.container => o.at <= p.at) =>
         o.ids = {} \/ d.ids \cap o.ids # {}
  /\ \A e \in ds : e.service = d.service /\ e.start = d.start => e = d
  /\ \A o \in os :
       o.service = d.service /\ o.at < d.start /\ d.ids \cap o.ids # {} =>
         \E p \in os : p.container = o.container /\ p.at \in (o.at + 1)..d.start

\* What an association concludes of d is right.
Judged(association, d, os, ds, until) ==
  /\ association.status = "MATCHED" => Confirmed(d, os, ds, until)
  /\ association.status # "UNKNOWN" =>
       {o.container : o \in association.seen}
         = {o.container : o \in SeenAfter(os, ds, until, d)}

\* The property, with the tables that were read named.
LEMMA SoundIsJudged ==
  ConclusionIsSound <=>
    \A item \in Associations :
      Judged(item.association, item.event.row, read.observations, read.deployments,
             read.window.until)
<1>1. \A d : After(d) = SeenAfter(read.observations, read.deployments, read.window.until, d)
  BY DEF After, SeenAfter
<1> QED BY <1>1 DEF ConclusionIsSound, MatchedIsConfirmed, ConclusionSeesAll, Judged, Confirmed

\* The next deployment the query finds is the next there is.
LEMMA NextFound ==
  ASSUME deployments \in SUBSET Records, NEW d \in Records
  PROVE  NextIs(deployments, d, NextDeploymentAt(d))
<1> DEFINE later == {e \in deployments : e.service = d.service /\ e.start > d.start}
           times == {e.start : e \in later}
<1>1. CASE later = {}
  <2>1. NextDeploymentAt(d) = None
    BY <1>1 DEF NextDeploymentAt
  <2>2. \A e \in deployments : e.service = d.service => ~ (d.start < e.start)
    <3>1. \A e \in deployments : e.start \in Int /\ d.start \in Int
      BY PageFacts
    <3> QED BY <1>1, <3>1
  <2> QED BY <2>1, <2>2 DEF NextIs
<1>2. CASE later # {}
  <2>1. IsFiniteSet(later)
    <3>1. later \in SUBSET Records /\ IsFiniteSet(Records)
      BY PageFacts
    <3> QED BY <3>1, FS_Subset
  <2>2. IsFiniteSet(times)
    <3> DEFINE f == [e \in later |-> e.start]
    <3>1. f \in Surjection(later, times)
      BY DEF Surjection
    <3> HIDE DEF f, times, later
    <3> QED BY <2>1, <3>1, FS_Surjection
  <2>3. times \subseteq Int /\ times # {}
    BY <1>2, PageFacts
  <2>4. PICK t \in times : \A s \in times : t <= s
    <3> HIDE DEF times
    <3> QED BY <2>2, <2>3, FiniteMinimum
  <2>5. \E e \in later : \A f \in later : e.start <= f.start
    BY <2>4
  <2>6. PICK first : first = CHOOSE e \in later : \A f \in later : e.start <= f.start
    OBVIOUS
  <2>7. first \in later /\ \A f \in later : first.start <= f.start
    <3> HIDE DEF later
    <3> QED BY <2>5, <2>6
  <2>8. NextDeploymentAt(d) = first.start
    BY <1>2, <2>6 DEF NextDeploymentAt
  <2>9. first.start \in Int /\ d.start \in Int /\ \A e \in deployments : e.start \in Int
    BY <2>7, PageFacts
  <2>10. first \in deployments /\ first.service = d.service /\ d.start < first.start
    BY <2>7, <2>9
  <2>11. \A e \in deployments : e.service = d.service /\ d.start < e.start
                                  => first.start <= e.start
    BY <2>7, <2>9
  <2> QED BY <2>8, <2>9, <2>10, <2>11 DEF NextIs
<1> QED BY <1>1, <1>2

\* The order of observations is total.
LEMMA RowsInOrder ==
  ASSUME NEW o \in Observations, NEW p \in Observations, NEW r \in Observations
  PROVE  /\ ~ RowLess(o, o)
         /\ RowLess(o, p) /\ RowLess(p, r) => RowLess(o, r)
         /\ o = p \/ RowLess(o, p) \/ RowLess(p, o)
BY PageFacts DEF RowLess

\* Unless there are too many, all rows are loaded.
LEMMA LoadedIs ==
  ASSUME PagesTypeOK
  PROVE  /\ Loaded \in SUBSET Overlapping /\ Overlapping \in SUBSET observations
         /\ ~ (Cardinality(Loaded) > MaxPerPage) => Loaded = Overlapping
<1> DEFINE S == Overlapping
           B(x) == {y \in S : RowLess(y, x)}
           below == [x \in S |-> B(x)]
<1>1. S \in SUBSET observations
  BY DEF Overlapping
<1> HIDE DEF S
<1>2. S \subseteq Observations /\ IsFiniteSet(S)
  <2>1. S \in SUBSET Observations /\ IsFiniteSet(Observations)
    BY <1>1, PageFacts DEF PagesTypeOK
  <2> QED BY <2>1, FS_Subset
<1>3. below \in [S -> SUBSET S]
  OBVIOUS
<1>4. \A x \in S : x \notin below[x]
  BY <1>2, RowsInOrder
<1>5. \A x, y \in S : x \in below[y] => below[x] \subseteq below[y]
  <2>1. \A x, y, z \in S : RowLess(x, y) /\ RowLess(z, x) => RowLess(z, y)
    BY <1>2, RowsInOrder
  <2> QED BY <2>1
<1>6. \A x, y \in S : x = y \/ x \in below[y] \/ y \in below[x]
  <2>1. \A x, y \in S : x = y \/ RowLess(x, y) \/ RowLess(y, x)
    BY <1>2, RowsInOrder
  <2> QED BY <2>1
<1>7. PICK more \in Nat : more = MaxPerPage + 1 /\ MaxPerPage \in Nat
  BY PageFacts
<1>8. PICK F : F = Loaded
  OBVIOUS
<1>9. F = {x \in S : Cardinality(below[x]) < more}
  BY <1>7, <1>8 DEF Loaded, FirstRows, S
<1> HIDE DEF below
<1>10. /\ F \in SUBSET S
       /\ Cardinality(F) \in Nat
       /\ F = S \/ Cardinality(F) = more
  BY <1>2, <1>3, <1>4, <1>5, <1>6, <1>7, <1>9, FirstAre
<1>11. ~ (Cardinality(F) > MaxPerPage) => F = S
  BY <1>7, <1>10
<1> QED BY <1>1, <1>8, <1>10, <1>11 DEF S

\* The page's rows, and the earliest of them.
LEMMA PageRowIs ==
  ASSUME PagesTypeOK, phase = "attach", NEW n \in DOMAIN page.items, NEW item,
         item = page.items[n]
  PROVE  /\ item.event \in Events /\ item.event.row \in Records
         /\ item.event.time = item.event.row.start
         /\ item.next \in Int \cup {None} /\ item.concurrent \in BOOLEAN
         /\ EarliestStart \in Int /\ EarliestStart <= item.event.time
         /\ item.event.row.service \in PageServices
<1>1. /\ page.items \in Seq(PageItems) /\ query.kind = "deploys"
  BY DEF PagesTypeOK, Pages
<1>2. /\ Len(page.items) \in Nat /\ DOMAIN page.items = 1..Len(page.items)
      /\ page.items \in [1..Len(page.items) -> PageItems]
  BY <1>1, LenProperties
<1>3. \A m \in DOMAIN page.items : page.items[m] \in PageItems
  BY <1>2
<1>4. item.event \in Events /\ item.next \in Int \cup {None} /\ item.concurrent \in BOOLEAN
  <2>1. item \in PageItems
    BY <1>3
  <2> QED BY <2>1 DEF PageItems
<1>5. item.event.row \in Records /\ item.event.time = item.event.row.start
  BY <1>1, <1>4, EventIs
<1> DEFINE times == {page.items[m].event.time : m \in DOMAIN page.items}
<1>6. times \subseteq Int
  <2>1. \A m \in DOMAIN page.items : page.items[m].event \in Events
    BY <1>3 DEF PageItems
  <2>2. \A m \in DOMAIN page.items : page.items[m].event.time \in Int
    BY <2>1, EventIs
  <2> QED BY <2>2
<1>7. IsFiniteSet(times)
  <2>1. PICK D : D = DOMAIN page.items
    OBVIOUS
  <2>2. IsFiniteSet(D)
    BY <1>2, <2>1, FS_Interval
  <2> DEFINE f == [m \in D |-> page.items[m].event.time]
  <2>3. f \in Surjection(D, times)
    BY <2>1 DEF Surjection
  <2> HIDE DEF f, times
  <2> QED BY <2>2, <2>3, FS_Surjection
<1>8. item.event.time \in times
  OBVIOUS
<1>9. \E t \in times : \A u \in times : t <= u
  <2> HIDE DEF times
  <2> QED BY <1>6, <1>7, <1>8, FiniteMinimum
<1>10. EarliestStart = CHOOSE t \in times : \A u \in times : t <= u
  BY DEF EarliestStart
<1>11. EarliestStart \in times /\ \A u \in times : EarliestStart <= u
  <2> HIDE DEF times
  <2> QED BY <1>9, <1>10
<1>12. item.event.row.service \in PageServices
  BY DEF PageServices
<1> QED BY <1>4, <1>5, <1>6, <1>8, <1>11, <1>12

\* end is where the time of d ends, as far as ds shows.
EndsAt(end, ds, d, until) ==
  /\ end \in Int /\ end <= until
  /\ \A t \in Int : d.start <= t =>
       (t < end <=> /\ t < until /\ t - d.start < Delay
                    /\ \A e \in ds : e.service = d.service => e.start \notin (d.start + 1)..t)

\* The window of a deployment ends where its time ends.
LEMMA WindowEnds ==
  ASSUME NEW ds \in SUBSET Records, NEW d \in Records, NEW next, NextIs(ds, d, next),
         NEW until \in Int
  PROVE  EndsAt(runtimeConfirmationWindow(d.start, next, until), ds, d, until)
<1> DEFINE end == runtimeConfirmationWindow(d.start, next, until)
<1>0. SUFFICES ASSUME NEW t \in Int, d.start <= t
               PROVE  /\ t < end <=>
                           /\ t < until /\ t - d.start < Delay
                           /\ \A e \in ds : e.service = d.service => e.start \notin (d.start + 1)..t
                      /\ end <= until /\ end \in Int
  <2>1. d.start \in Int /\ d.start <= d.start
    BY PageFacts
  <2> HIDE DEF end
  <2>2. end <= until /\ end \in Int
    BY <1>0, <2>1
  <2> QED BY <1>0, <2>2 DEF EndsAt, end
<1>1. /\ d.start \in Int /\ Delay \in Int /\ \A e \in ds : e.start \in Int
      /\ None \notin Int
  BY PageFacts, AssociationAssumption
<1>2. PICK capped \in Int : capped = IF until <= d.start + Delay THEN until ELSE d.start + Delay
  BY <1>1
<1>3. capped <= until /\ (t < capped <=> t < until /\ t - d.start < Delay)
  BY <1>1, <1>2
<1>4. end = IF next # None /\ next <= capped THEN next ELSE capped
  BY <1>2 DEF runtimeConfirmationWindow
<1>5. CASE next = None
  <2>1. \A e \in ds : e.service = d.service => ~ (d.start < e.start)
    BY <1>1, <1>5 DEF NextIs
  <2>2. \A e \in ds : e.service = d.service => e.start \notin (d.start + 1)..t
    BY <1>1, <2>1
  <2> QED BY <1>3, <1>4, <1>5, <2>2
<1>6. CASE next # None
  <2>1. /\ next \in Int /\ d.start < next
        /\ \E e \in ds : e.service = d.service /\ e.start = next
        /\ \A e \in ds : e.service = d.service /\ d.start < e.start => next <= e.start
    BY <1>6 DEF NextIs
  <2>2. end \in Int /\ end <= until
    BY <1>3, <1>4, <2>1
  <2>3. (\A e \in ds : e.service = d.service => e.start \notin (d.start + 1)..t) <=> t < next
    <3>1. ASSUME t < next, NEW e \in ds, e.service = d.service, e.start \in (d.start + 1)..t
          PROVE  FALSE
      <4>1. d.start < e.start /\ e.start <= t
        BY <1>1, <3>1
      <4>2. next <= e.start
        BY <2>1, <3>1, <4>1
      <4> QED BY <1>1, <2>1, <3>1, <4>1, <4>2
    <3>2. ASSUME ~ (t < next)
          PROVE  \E e \in ds : e.service = d.service /\ e.start \in (d.start + 1)..t
      BY <1>1, <2>1, <3>2
    <3> QED BY <3>1, <3>2
  <2>4. t < end <=> t < capped /\ t < next
    BY <1>4, <1>6, <2>1
  <2> QED BY <1>3, <2>2, <2>3, <2>4
<1> QED BY <1>5, <1>6

\* Each container of a set of rows has a first row in it.
LEMMA FirstsCover ==
  ASSUME NEW C \in SUBSET Observations
  PROVE  {o.container : o \in FirstOfEach(C)} = {o.container : o \in C}
<1>1. ASSUME NEW o \in C
      PROVE  \E p \in FirstOfEach(C) : p.container = o.container
  <2> DEFINE same == {p \in C : p.container = o.container}
             times == {p.at : p \in same}
             f == [p \in same |-> p.at]
  <2>1. IsFiniteSet(same)
    <3>1. same \in SUBSET Observations /\ IsFiniteSet(Observations)
      BY PageFacts
    <3> QED BY <3>1, FS_Subset
  <2>2. IsFiniteSet(times)
    <3>1. f \in Surjection(same, times)
      BY DEF Surjection
    <3> HIDE DEF f, times, same
    <3> QED BY <2>1, <3>1, FS_Surjection
  <2>3. times \subseteq Int /\ times # {}
    BY PageFacts
  <2>4. PICK t \in times : \A u \in times : t <= u
    <3> HIDE DEF times
    <3> QED BY <2>2, <2>3, FiniteMinimum
  <2>5. PICK p \in C : p.container = o.container /\ p.at = t
    BY <2>4
  <2>6. \A r \in C : r.container = p.container => p.at <= r.at
    BY <2>4, <2>5
  <2> QED BY <2>5, <2>6 DEF FirstOfEach
<1>2. FirstOfEach(C) \subseteq C
  BY DEF FirstOfEach
<1> QED BY <1>1, <1>2

\* What a conclusion says of the rows it is drawn from.
LEMMA ConcludeIs ==
  ASSUME NEW d, NEW S, NEW before \in BOOLEAN
  PROVE  /\ Conclude(d, S, before) \in Statuses
         /\ Conclude(d, S, before) = "MATCHED" =>
              /\ ~ before
              /\ \E o \in S : d.ids \cap o.ids # {}
              /\ \A o \in S : o.ids = {} \/ d.ids \cap o.ids # {}
<1>1. PICK supported \in BOOLEAN : supported <=> \E o \in S : Supports(d, o)
  OBVIOUS
<1>2. PICK contradicted \in BOOLEAN : contradicted <=> \E o \in S : Contradicts(d, o)
  OBVIOUS
<1>3. PICK c : c = Conclude(d, S, before)
  OBVIOUS
<1>4. \/ contradicted /\ c \in {"PARTIAL", "CONTRADICTED"}
      \/ ~ contradicted /\ c \in {"UNKNOWN", "PARTIAL"}
      \/ ~ contradicted /\ supported /\ ~ before /\ c = "MATCHED"
  <2>1. CASE contradicted
    BY <1>2, <1>3, <2>1 DEF Conclude
  <2>2. CASE ~ contradicted /\ ~ supported
    BY <1>1, <1>2, <1>3, <2>2 DEF Conclude
  <2>3. CASE ~ contradicted /\ supported
    BY <1>1, <1>2, <1>3, <2>3 DEF Conclude
  <2> QED BY <2>1, <2>2, <2>3
<1>5. c \in Statuses
  BY <1>4 DEF Statuses
<1>6. ASSUME c = "MATCHED"
      PROVE  /\ ~ before
             /\ \E o \in S : d.ids \cap o.ids # {}
             /\ \A o \in S : o.ids = {} \/ d.ids \cap o.ids # {}
  <2>1. ~ contradicted /\ supported /\ ~ before
    BY <1>4, <1>6
  <2>2. PICK o \in S : d.ids \cap o.ids # {}
    BY <1>1, <2>1 DEF Supports, Intersect
  <2>3. d.ids # {}
    BY <2>2
  <2>4. ASSUME NEW p \in S, d.ids \cap p.ids = {}
        PROVE  p.ids = {}
    <3>1. ~ Supports(d, p)
      BY <2>4 DEF Supports, Intersect
    <3>2. ~ Contradicts(d, p)
      BY <1>2, <2>1
    <3> QED BY <2>3, <3>1, <3>2 DEF Contradicts
  <2> QED BY <2>1, <2>2, <2>4
<1> QED BY <1>3, <1>5, <1>6

\* What the time of a deployment shows is all among the rows of its page.
LEMMA CandidatesAre ==
  ASSUME PagesTypeOK, AttachOK, phase = "attach", NEW n \in DOMAIN page.items,
         NEW item, item = page.items[n], NEW d, d = item.event.row,
         NEW end, end = runtimeConfirmationWindow(d.start, item.next, page.until)
  PROVE  /\ InWindow(Overlapping, d, end) = SeenAfter(observations, read.found, page.until, d)
         /\ end <= page.until /\ end \in Int
<1>1. /\ d \in Records /\ d.service \in PageServices /\ d.start \in Int
      /\ EarliestStart \in Int /\ EarliestStart <= d.start
  <2>1. /\ d \in Records /\ d.service \in PageServices /\ item.event.time = d.start
        /\ EarliestStart \in Int /\ EarliestStart <= item.event.time
    BY PageRowIs
  <2> QED BY <2>1, PageFacts
<1>2. NextIs(read.found, d, item.next)
  BY DEF AttachOK, ItemOK
<1>3. PICK until \in Int : until = page.until
  BY DEF PagesTypeOK, Pages
<1>4. PICK ds : ds = read.found /\ ds \in SUBSET Records
  BY DEF PagesTypeOK, ReadSets
<1>5. PICK next : next = item.next
  OBVIOUS
<1>6. end = runtimeConfirmationWindow(d.start, next, until) /\ NextIs(ds, d, next)
  BY <1>2, <1>3, <1>4, <1>5
<1>7. EndsAt(end, ds, d, until)
  <2>1. EndsAt(runtimeConfirmationWindow(d.start, next, until), ds, d, until)
    BY <1>1, <1>4, <1>6, WindowEnds
  <2> QED BY <1>6, <2>1
<1>8. end <= until /\ end \in Int
  BY <1>7 DEF EndsAt
<1>9. \A o \in observations : o.at \in Int
  BY PageFacts DEF PagesTypeOK
<1>10. ASSUME NEW o \in observations, o.service = d.service, d.start <= o.at, o.at < end
       PROVE  o \in Overlapping
  <2>1. o.at < until /\ o.at \in Int
    BY <1>3, <1>8, <1>9, <1>10
  <2>2. ASSUME NEW p \in observations, o.at < p.at, p.at <= EarliestStart
        PROVE  FALSE
    <3>1. p.at \in Int /\ o.at \in Int
      BY <1>9
    <3> QED BY <1>1, <1>10, <2>2, <3>1
  <2> QED BY <1>1, <1>3, <1>10, <2>1, <2>2 DEF Overlapping
<1>11. \A o \in observations : o.service = d.service /\ d.start <= o.at /\ o.at < end
                                 <=> o \in SeenAfter(observations, ds, until, d)
  <2>1. ASSUME NEW o \in observations
        PROVE  (o.service = d.service /\ d.start <= o.at /\ o.at < end)
                 <=> o \in SeenAfter(observations, ds, until, d)
    <3>1. o.at \in Int
      BY <1>9
    <3>2. o.at \in d.start..(until - 1) <=> d.start <= o.at /\ o.at < until
      BY <1>1, <1>3, <3>1
    <3>3. o \in SeenAfter(observations, ds, until, d) <=>
            /\ o.service = d.service /\ d.start <= o.at /\ o.at < until /\ o.at - d.start < Delay
            /\ \A e \in ds : e.service = d.service => e.start \notin (d.start + 1)..o.at
      BY <3>2 DEF SeenAfter
    <3>4. d.start <= o.at =>
            (o.at < end <=>
               /\ o.at < until /\ o.at - d.start < Delay
               /\ \A e \in ds : e.service = d.service => e.start \notin (d.start + 1)..o.at)
      BY <1>7, <3>1 DEF EndsAt
    <3> QED BY <3>3, <3>4
  <2> QED BY <2>1
<1>12. Overlapping \subseteq observations
  BY DEF Overlapping
<1>13. SeenAfter(observations, ds, until, d) \subseteq observations
  BY DEF SeenAfter
<1>14. InWindow(Overlapping, d, end) = SeenAfter(observations, ds, until, d)
  BY <1>10, <1>11, <1>12, <1>13 DEF InWindow
<1> QED BY <1>3, <1>4, <1>8, <1>14

\* An image that was not running before is not in a row that was still valid.
LEMMA NotPreexisting ==
  ASSUME PagesTypeOK, phase = "attach", NEW n \in DOMAIN page.items,
         NEW item, item = page.items[n], NEW d, d = item.event.row, d.start < page.until,
         ~ Preexisting(observations, Overlapping, d)
  PROVE  \A o \in observations :
           o.service = d.service /\ o.at < d.start /\ d.ids \cap o.ids # {} =>
             \E p \in observations : p.container = o.container /\ p.at \in (o.at + 1)..d.start
<1>1. /\ d \in Records /\ d.service \in PageServices /\ d.start \in Int
      /\ EarliestStart \in Int /\ EarliestStart <= d.start
  <2>1. /\ d \in Records /\ d.service \in PageServices /\ item.event.time = d.start
        /\ EarliestStart \in Int /\ EarliestStart <= item.event.time
    BY PageRowIs
  <2> QED BY <2>1, PageFacts
<1>2. PICK until \in Int : until = page.until
  BY DEF PagesTypeOK, Pages
<1>3. \A o \in observations : o.at \in Int
  BY PageFacts DEF PagesTypeOK
<1>4. ASSUME NEW o \in observations, o.service = d.service, o.at < d.start, d.ids \cap o.ids # {},
             ~ \E p \in observations : p.container = o.container /\ p.at \in (o.at + 1)..d.start
      PROVE  FALSE
  <2>1. \A p \in observations : p.container = o.container => ~ (o.at < p.at /\ p.at <= d.start)
    BY <1>1, <1>3, <1>4
  <2>2. \A p \in observations : p.container = o.container
                                  => ~ (o.at < p.at /\ p.at <= EarliestStart)
    BY <1>1, <1>3, <2>1
  <2>3. o.at < until
    BY <1>1, <1>2, <1>3, <1>4
  <2>4. o \in Overlapping
    <3>1. o.service \in PageServices /\ o.at < page.until
      BY <1>1, <1>2, <1>4, <2>3
    <3>2. ~ \E p \in observations : p.container = o.container /\ o.at < p.at /\ p.at <= EarliestStart
      BY <2>2
    <3> QED BY <1>4, <3>1, <3>2 DEF Overlapping
  <2>5. ValidAt(observations, o, d.start)
    <3>1. o.at <= d.start
      BY <1>1, <1>3, <1>4
    <3> QED BY <2>1, <3>1 DEF ValidAt
  <2> QED BY <1>4, <2>4, <2>5 DEF Preexisting, Intersect
<1> QED BY <1>4

\* The associations of a page are right.
LEMMA AttachJudges ==
  ASSUME PagesTypeOK, AttachOK, phase = "attach", NEW n \in DOMAIN page.items,
         NEW item, item = page.items[n], NEW association,
         association = RuntimeAssociationOf(observations, Loaded, item.event.row, item.next,
                         item.concurrent, page.until, Cardinality(Loaded) > MaxPerPage)
  PROVE  /\ association \in Conclusions
         /\ Judged(association, item.event.row, observations, read.found, page.until)
<1>1. PICK d : d = item.event.row
  OBVIOUS
<1>2. d \in Records /\ d.start \in Int /\ item.concurrent \in BOOLEAN
  BY <1>1, PageRowIs, PageFacts
<1>3. PICK end : end = runtimeConfirmationWindow(d.start, item.next, page.until)
  OBVIOUS
<1>4. PICK A : A = SeenAfter(observations, read.found, page.until, d)
  OBVIOUS
<1>5. InWindow(Overlapping, d, end) = A /\ end <= page.until /\ end \in Int
  BY <1>1, <1>3, <1>4, CandidatesAre
<1>6. A \in SUBSET Observations
  BY <1>4 DEF SeenAfter, PagesTypeOK
<1>7. PICK C : C = InWindow(Loaded, d, end)
  OBVIOUS
<1>8. PICK seen_ : seen_ = FirstOfEach(C)
  OBVIOUS
<1>9. PICK running \in BOOLEAN : running <=> Preexisting(observations, Loaded, d)
  OBVIOUS
<1>10. \/ association = Unknown
       \/ /\ ~ item.concurrent /\ d.start < end /\ ~ (Cardinality(Loaded) > MaxPerPage)
          /\ association = [status |-> Conclude(d, seen_, running), seen |-> seen_]
  <2>1. end <= d.start \/ d.start < end
    BY <1>2, <1>5
  <2>2. Preexisting(observations, Loaded, d) = running
    BY <1>9 DEF Preexisting
  <2>3. association =
          IF \/ item.concurrent \/ end <= d.start \/ Cardinality(Loaded) > MaxPerPage
             \/ Cardinality(C) > MaxPerDeployment
          THEN Unknown
          ELSE [status |-> Conclude(d, seen_, Preexisting(observations, Loaded, d)), seen |-> seen_]
    BY <1>1, <1>3, <1>7, <1>8 DEF RuntimeAssociationOf
  <2>4. PICK stops \in BOOLEAN :
          stops <=> \/ item.concurrent \/ end <= d.start \/ Cardinality(Loaded) > MaxPerPage
                    \/ Cardinality(C) > MaxPerDeployment
    OBVIOUS
  <2>5. CASE stops
    BY <2>3, <2>4, <2>5
  <2>6. CASE ~ stops
    <3>1. association =
            [status |-> Conclude(d, seen_, Preexisting(observations, Loaded, d)), seen |-> seen_]
      BY <2>3, <2>4, <2>6
    <3> QED BY <2>1, <2>2, <2>4, <2>6, <3>1
  <2> QED BY <2>4, <2>5, <2>6
<1>11. CASE association = Unknown
  <2>1. association = [status |-> "UNKNOWN", seen |-> {}]
    BY <1>11, Zenon DEF Unknown
  <2>2. association.status = "UNKNOWN"
    BY <2>1
  <2>3. association \in Conclusions
    BY <2>1 DEF Conclusions, Statuses
  <2>4. Judged(association, d, observations, read.found, page.until)
    BY <2>2 DEF Judged
  <2> QED BY <1>1, <2>3, <2>4
<1>12. CASE /\ ~ item.concurrent /\ d.start < end /\ ~ (Cardinality(Loaded) > MaxPerPage)
            /\ association = [status |-> Conclude(d, seen_, running), seen |-> seen_]
  <2>1. Loaded = Overlapping
    BY <1>12, LoadedIs
  <2>2. C = A
    BY <1>5, <1>7, <2>1
  <2>3. {o.container : o \in seen_} = {o.container : o \in A}
    BY <1>6, <1>8, <2>2, FirstsCover
  <2>4. seen_ \subseteq A
    BY <1>8, <2>2 DEF FirstOfEach
  <2>5. Conclude(d, seen_, running) \in Statuses
    BY ConcludeIs
  <2>6. association.status = Conclude(d, seen_, running) /\ association.seen = seen_
    BY <1>12
  <2>7. association \in Conclusions
    BY <1>6, <1>12, <2>4, <2>5 DEF Conclusions
  <2>8. ASSUME association.status = "MATCHED"
        PROVE  Confirmed(d, observations, read.found, page.until)
    <3>1. /\ ~ running
          /\ \E o \in seen_ : d.ids \cap o.ids # {}
          /\ \A o \in seen_ : o.ids = {} \/ d.ids \cap o.ids # {}
      <4>1. Conclude(d, seen_, running) = "MATCHED"
        BY <2>6, <2>8
      <4> QED BY <4>1, ConcludeIs
    <3>2. \E o \in A : d.ids \cap o.ids # {}
      BY <2>4, <3>1
    <3>3. \A o \in A : (\A p \in A : p.container = o.container => o.at <= p.at) =>
                         o.ids = {} \/ d.ids \cap o.ids # {}
      <4>1. \A o \in A : (\A p \in A : p.container = o.container => o.at <= p.at) => o \in seen_
        BY <1>8, <2>2 DEF FirstOfEach
      <4> QED BY <3>1, <4>1
    <3>4. \A e \in read.found : e.service = d.service /\ e.start = d.start => e = d
      <4>1. ItemOK(item)
        BY DEF AttachOK
      <4>2. \A e \in read.found : e.service = d.service /\ e.start = d.start => e.id = d.id
        BY <1>1, <1>12, <4>1 DEF ItemOK
      <4>3. \A e \in read.found : e \in Records
        BY DEF PagesTypeOK, ReadSets
      <4> QED BY <1>2, <4>2, <4>3, PageFacts
    <3>5. d.start < page.until
      <4>1. page.until \in Int
        BY DEF PagesTypeOK, Pages
      <4> QED BY <1>2, <1>5, <1>12, <4>1
    <3>6. ~ Preexisting(observations, Overlapping, d)
      BY <1>9, <2>1, <3>1
    <3>7. \A o \in observations :
            o.service = d.service /\ o.at < d.start /\ d.ids \cap o.ids # {} =>
              \E p \in observations : p.container = o.container /\ p.at \in (o.at + 1)..d.start
      BY <1>1, <3>5, <3>6, NotPreexisting
    <3> QED BY <1>4, <3>2, <3>3, <3>4, <3>7 DEF Confirmed
  <2>9. Judged(association, d, observations, read.found, page.until)
    BY <1>4, <2>3, <2>6, <2>8 DEF Judged
  <2> QED BY <1>1, <2>7, <2>9
<1> QED BY <1>10, <1>11, <1>12

-----------------------------------------------------------------------------
(* The steps of a listing                                                  *)

\* A listing that has not been read is as it should be.
LEMMA PagesBegin == ReadsInit => PagesInv
<1> SUFFICES ASSUME ReadsInit
             PROVE  PagesInv
  OBVIOUS
<1>1. Init
  BY DEF ReadsInit
<1> USE <1>1 DEF Init
<1>2. delivered = <<>> /\ delivered \in Seq(Things) /\ DOMAIN delivered = {}
  BY EmptySeq
<1>3. PagesTypeOK
  <2>1. read \in ReadSets
    BY DEF ReadSets
  <2> QED BY <1>2, <2>1 DEF PagesTypeOK
<1>4. DeliveredOK /\ ShownOK /\ AskedOK /\ AttachOK
  BY <1>2 DEF DeliveredOK, ShownOK, AskedOK, AttachOK
<1>5. ConclusionIsSound
  <2>1. Associations = {}
    BY <1>2 DEF Associations, LastPage
  <2> QED BY <2>1, SoundIsJudged
<1> QED BY <1>3, <1>4, <1>5 DEF PagesInv

\* What was concluded stays right as long as what it was drawn from is remembered.
LEMMA SoundStays ==
  ASSUME ConclusionIsSound, UNCHANGED <<query, delivered>>,
         read'.from = read.from, read'.deployments = read.deployments,
         read'.observations = read.observations,
         delivered = <<>> \/ read'.window = read.window
  PROVE  ConclusionIsSound'
<1>1. Associations' = Associations
  BY DEF Associations, LastPage
<1>2. CASE delivered = <<>>
  <2>1. Associations' = {}
    BY <1>1, <1>2 DEF Associations, LastPage
  <2> QED BY <2>1 DEF ConclusionIsSound, MatchedIsConfirmed, ConclusionSeesAll
<1>3. CASE read'.window = read.window
  <2>1. \A item \in Associations :
          Judged(item.association, item.event.row, read.observations, read.deployments,
                 read.window.until)
    BY SoundIsJudged
  <2>2. (\A item \in Associations :
           Judged(item.association, item.event.row, read.observations, read.deployments,
                  read.window.until))'
    BY <1>1, <1>3, <2>1
  <2>3. (ConclusionIsSound <=>
           \A item \in Associations :
             Judged(item.association, item.event.row, read.observations, read.deployments,
                    read.window.until))'
    BY SoundIsJudged, PTL
  <2> QED BY <2>2, <2>3
<1> QED BY <1>2, <1>3

\* A window that was asked for to its end is that of every call.
LEMMA WindowAsked ==
  ASSUME AskedOK, query.until # None
  PROVE  Window = AskedWindow
BY DEF AskedOK, Window, ListQueryWindow

\* What depends on the query only.
LEMMA SameOrder ==
  ASSUME query' = query
  PROVE  /\ Events' = Events /\ Things' = Things /\ PageItems' = PageItems /\ Pages' = Pages
         /\ ReadSets' = ReadSets
         /\ query.until # None => AskedWindow' = AskedWindow
BY DEF Events, Things, PageItems, Pages, ReadSets, AskedWindow

\* A page that was read stays what it was.
LEMMA SamePage ==
  ASSUME NEW items, NEW next, NEW first, NEW w, PageOK(items, next, first, w),
         UNCHANGED <<query, cursor>>, page'.items = items, page'.next = next,
         read'.first = first, read'.window = w
  PROVE  PageOK(page.items, page.next, read.first, read.window)'
<1>1. (\A n \in DOMAIN page.items : cursor # None => Less(cursor.key, Key(page.items[n].event)))'
  <2>1. \A n \in DOMAIN items : cursor # None => Less(cursor.key, Key(items[n].event))
    BY DEF PageOK
  <2> QED BY <2>1 DEF Key, KeyWith, EventPriority
<1>2. (\A m, n \in DOMAIN page.items :
         m < n => Before(page.items[m].event, page.items[n].event))'
  <2>1. \A m, n \in DOMAIN items : m < n => Before(items[m].event, items[n].event)
    BY DEF PageOK
  <2> QED BY <2>1 DEF Before, Key, KeyWith, EventPriority
<1>3. (page.next # None =>
         /\ page.next \in Cursors /\ page.next.window = read.window
         /\ \A n \in DOMAIN page.items : ~ Less(page.next.key, Key(page.items[n].event))
         /\ \E n \in DOMAIN page.items : Key(page.items[n].event) = page.next.key)'
  <2>1. next # None =>
          /\ next \in Cursors /\ next.window = w
          /\ \A n \in DOMAIN items : ~ Less(next.key, Key(items[n].event))
          /\ \E n \in DOMAIN items : Key(items[n].event) = next.key
    BY DEF PageOK
  <2> QED BY <2>1 DEF Key, KeyWith, EventPriority
<1>4. (\A e \in read.first :
         /\ cursor # None => Less(cursor.key, Key(e))
         /\ page.next # None => ~ Less(page.next.key, Key(e))
         => \E n \in DOMAIN page.items : page.items[n].event = e)'
  <2>1. \A e \in first :
          /\ cursor # None => Less(cursor.key, Key(e))
          /\ next # None => ~ Less(next.key, Key(e))
          => \E n \in DOMAIN items : items[n].event = e
    BY DEF PageOK
  <2> QED BY <2>1 DEF Key, KeyWith, EventPriority
<1> QED BY <1>1, <1>2, <1>3, <1>4 DEF PageOK

\* What other processes ingest, and the clock.
LEMMA OthersKeepPages ==
  ASSUME PagesInv,
         deployments \subseteq deployments', deployments' \in SUBSET Records,
         observations \subseteq observations', observations' \in SUBSET Observations,
         now' \in Clock, UNCHANGED <<query, phase, cursor, page, delivered, read>>
  PROVE  PagesInv'
<1> USE DEF PagesInv
<1>1. PagesTypeOK'
  BY SameOrder DEF PagesTypeOK
<1>2. DeliveredOK'
  BY DEF DeliveredOK, Before, Key, KeyWith, EventPriority
<1>3. ShownOK'
  <2>1. ListedIn(read.window, deployments, observations)
          \subseteq ListedIn(read.window, deployments', observations')
    BY ListedGrows
  <2>2. ListedIn(read.window, deployments, observations)'
          = ListedIn(read.window, deployments', observations')
    BY SameOrder DEF ListedIn
  <2>3. (cursor # None \/ phase = "attach" =>
           read.first \subseteq ListedIn(read.window, deployments, observations))'
    BY <2>1, <2>2 DEF ShownOK
  <2>4. (/\ cursor # None => \A e \in read.first : ~ Less(cursor.key, Key(e)) => Delivered(e)
         /\ phase = "done" => \A e \in read.first : Delivered(e))'
    BY DEF ShownOK, Delivered, Key, KeyWith, EventPriority
  <2> QED BY <2>3, <2>4 DEF ShownOK
<1>4. AskedOK'
  BY SameOrder DEF AskedOK
<1>5. AttachOK'
  <2>1. ASSUME phase = "attach"
        PROVE  PageOK(page.items, page.next, read.first, read.window)'
    <3>1. PageOK(page.items, page.next, read.first, read.window)
      BY <2>1 DEF AttachOK
    <3> QED BY <3>1, SamePage
  <2>2. ASSUME phase = "attach"
        PROVE  (\A n \in DOMAIN page.items : ItemOK(page.items[n]))'
    <3>1. \A n \in DOMAIN page.items : ItemOK(page.items[n])
      BY <2>2 DEF AttachOK
    <3> QED BY <3>1 DEF ItemOK
  <2> QED BY <2>1, <2>2 DEF AttachOK
<1>6. ConclusionIsSound'
  BY SoundStays
<1> QED BY <1>1, <1>2, <1>3, <1>4, <1>5, <1>6

\* Only a cursor of a window that ended at the time of its call can be refused.
LEMMA RefuseCursorKeepsPages ==
  ASSUME PagesInv, RefuseCursor
  PROVE  PagesInv'
<1> USE DEF PagesInv
<1>1. /\ phase = "page" /\ phase' = "refused"
      /\ UNCHANGED <<deployments, observations, query, now, cursor, page, delivered, read>>
      /\ cursor # None /\ cursor.window # Window
  BY DEF RefuseCursor, Compatible
<1>2. PagesTypeOK'
  BY <1>1, SameOrder DEF PagesTypeOK
<1>3. DeliveredOK'
  BY <1>1 DEF DeliveredOK, Before, Key, KeyWith, EventPriority
<1>4. ShownOK'
  <2>1. ListedIn(read.window, deployments, observations)'
          = ListedIn(read.window, deployments, observations)
    BY <1>1, SameOrder DEF ListedIn
  <2> QED BY <1>1, <2>1 DEF ShownOK, Delivered, Key, KeyWith, EventPriority
<1>5. query.until = None /\ query.kind # "discover"
  <2>1. query.until # None => cursor.window = Window
    BY <1>1, WindowAsked DEF AskedOK
  <2>2. query.kind = "discover" => cursor.window = Window
    BY <1>1 DEF Window, ListQueryWindow
  <2> QED BY <1>1, <2>1, <2>2
<1>6. AskedOK'
  BY <1>1, <1>5, SameOrder DEF AskedOK
<1>7. ConclusionIsSound'
  BY <1>1, SoundStays
<1> QED BY <1>1, <1>2, <1>3, <1>4, <1>6, <1>7 DEF AttachOK

\* A failed call leaves the cursor and what was delivered.
LEMMA FailKeepsPages ==
  ASSUME PagesInv, Fail
  PROVE  PagesInv'
<1> USE DEF PagesInv
<1>1. /\ phase = "attach" /\ phase' = "page"
      /\ UNCHANGED <<deployments, observations, query, now, cursor, delivered, read>>
  BY DEF Fail
<1>2. PagesTypeOK'
  BY <1>1, SameOrder DEF PagesTypeOK
<1>3. DeliveredOK'
  BY <1>1 DEF DeliveredOK, Before, Key, KeyWith, EventPriority
<1>4. ShownOK'
  <2>1. ListedIn(read.window, deployments, observations)'
          = ListedIn(read.window, deployments, observations)
    BY <1>1, SameOrder DEF ListedIn
  <2> QED BY <1>1, <2>1 DEF ShownOK, Delivered, Key, KeyWith, EventPriority
<1>5. AskedOK'
  BY <1>1, SameOrder DEF AskedOK
<1>6. ConclusionIsSound'
  BY <1>1, SoundStays
<1> QED BY <1>1, <1>2, <1>3, <1>4, <1>5, <1>6 DEF AttachOK

\* A page of one query is read and delivered.
LEMMA ReadListingKeepsPages ==
  ASSUME PagesInv, ReadListing
  PROVE  PagesInv'
<1> USE DEF PagesInv
<1>1. PICK events : events = Sorted(FirstN(Rows, query.limit))
  OBVIOUS
<1>2. PICK items : items = [n \in DOMAIN events |-> Item(events[n])]
  OBVIOUS
<1>3. PICK next : next = NextCursor(Rows)
  OBVIOUS
<1>4. PICK w : w = Window
  OBVIOUS
<1>5. PICK first : first = First
  OBVIOUS
<1>6. /\ phase = "page" /\ query.kind # "deploys" /\ Compatible
      /\ Deliver(items, next)
      /\ read' = [read EXCEPT !.first = first, !.window = w, !.from = Len(delivered) + 1]
      /\ UNCHANGED <<deployments, observations, query, now, page>>
  BY <1>1, <1>2, <1>3, <1>4, <1>5 DEF ReadListing
<1>7. \A e : Item(e) = [event |-> e]
  BY <1>6 DEF Item
<1>8. DOMAIN items = DOMAIN events /\ \A n \in DOMAIN events : items[n].event = events[n]
  BY <1>2, <1>7
<1>9. /\ \E k \in Nat : events \in [1..k -> Events]
      /\ PageOK(items, next, first, w)
      /\ first \subseteq ListedIn(w, deployments, observations)
      /\ cursor # None => first = read.first /\ w = read.window
      /\ next \in Cursors \cup {None} /\ w \in Windows
  BY <1>1, <1>3, <1>4, <1>5, <1>6, <1>8, PageRead
<1>10. items \in Seq(Things)
  <2>1. PICK k \in Nat : events \in [1..k -> Events]
    BY <1>9
  <2>2. items \in [1..k -> Things]
    BY <1>2, <1>7, <2>1 DEF Things
  <2> QED BY <2>2, SeqDef
<1>11. first \subseteq Events
  BY <1>9 DEF ListedIn
<1>12. read \in ReadSets /\ Len(delivered) \in Nat
  BY LenProperties DEF PagesTypeOK
<1>13. read' \in ReadSets /\ read'.first = first /\ read'.window = w
  <2>1. PICK from \in Nat : from = Len(delivered) + 1
    BY <1>12
  <2>2. read' = [read EXCEPT !.first = first, !.window = w, !.from = from]
    BY <1>6, <2>1
  <2> QED BY <1>9, <1>11, <1>12, <2>2 DEF ReadSets
<1>14. DeliveredOK' /\ ShownOK' /\ delivered' \in Seq(Things)
  BY <1>6, <1>9, <1>10, <1>11, <1>13, PageDelivered
<1>15. cursor' = next /\ phase' \in {"page", "done"}
  BY <1>6 DEF Deliver
<1>16. PagesTypeOK'
  <2>1. /\ Things' = Things /\ ReadSets' = ReadSets
    BY <1>6, SameOrder
  <2> QED BY <1>6, <1>9, <1>13, <1>14, <1>15, <2>1 DEF PagesTypeOK
<1>17. AskedOK'
  <2>1. ASSUME query.until # None, next # None
        PROVE  next.window = AskedWindow'
    <3>1. next.window = w
      BY <1>9, <2>1 DEF PageOK
    <3> QED BY <1>4, <1>6, <2>1, <3>1, WindowAsked, SameOrder
  <2> QED BY <1>6, <1>15, <2>1 DEF AskedOK
<1>18. AttachOK'
  BY <1>15 DEF AttachOK
<1>19. ConclusionIsSound'
  <2>1. Associations' = {}
    BY <1>6 DEF Associations
  <2> QED BY <2>1 DEF ConclusionIsSound, MatchedIsConfirmed, ConclusionSeesAll
<1> QED BY <1>14, <1>16, <1>17, <1>18, <1>19

\* The deployments of a page are read, with what follows each of them.
LEMMA ReadDeploymentsKeepsPages ==
  ASSUME PagesInv, ReadDeployments
  PROVE  PagesInv'
<1> USE DEF PagesInv
<1>1. PICK events : events = Sorted(FirstN(Rows, query.limit))
  OBVIOUS
<1>2. PICK items : items = [n \in DOMAIN events |-> Item(events[n])]
  OBVIOUS
<1>3. PICK next : next = NextCursor(Rows)
  OBVIOUS
<1>4. PICK w : w = Window
  OBVIOUS
<1>5. PICK first : first = First
  OBVIOUS
<1>6. /\ phase = "page" /\ query.kind = "deploys" /\ Compatible
      /\ \/ items = <<>> /\ Deliver(<<>>, None) /\ UNCHANGED page
         \/ /\ page' = [items |-> items, next |-> next, until |-> w.until]
            /\ phase' = "attach"
            /\ UNCHANGED <<cursor, delivered>>
      /\ read' = [read EXCEPT !.first = first, !.window = w, !.found = deployments]
      /\ UNCHANGED <<deployments, observations, query, now>>
  BY <1>1, <1>2, <1>3, <1>4, <1>5 DEF ReadDeployments
<1>7. \A e : Item(e) = [event |-> e, next |-> NextDeploymentAt(e.row),
                        concurrent |-> Concurrent(e.row)]
  BY <1>6 DEF Item
<1>8. DOMAIN items = DOMAIN events /\ \A n \in DOMAIN events : items[n].event = events[n]
  BY <1>2, <1>7
<1>9. /\ \E k \in Nat : events \in [1..k -> Events]
      /\ PageOK(items, next, first, w)
      /\ first \subseteq ListedIn(w, deployments, observations)
      /\ cursor # None => first = read.first /\ w = read.window
      /\ next \in Cursors \cup {None} /\ w \in Windows
  BY <1>1, <1>3, <1>4, <1>5, <1>6, <1>8, PageRead
<1>10. first \subseteq Events
  BY <1>9 DEF ListedIn
<1>11. deployments \in SUBSET Records /\ read \in ReadSets
  BY DEF PagesTypeOK
<1>12. /\ read' \in ReadSets /\ read'.first = first /\ read'.window = w
       /\ read'.found = deployments /\ read'.from = read.from
       /\ read'.deployments = read.deployments /\ read'.observations = read.observations
  BY <1>6, <1>9, <1>10, <1>11 DEF ReadSets
<1>13. cursor = None => delivered = <<>>
  BY <1>6 DEF DeliveredOK
<1>14. ASSUME delivered' = delivered
       PROVE  ConclusionIsSound'
  <2>1. delivered = <<>> \/ read'.window = read.window
    BY <1>9, <1>12, <1>13
  <2> QED BY <1>6, <1>12, <1>14, <2>1, SoundStays
<1>15. Things' = Things /\ ReadSets' = ReadSets /\ Pages' = Pages
  BY <1>6, SameOrder
<1>16. CASE items = <<>> /\ Deliver(<<>>, None) /\ UNCHANGED page
  <2>1. next = None
    <3>1. \A n \in DOMAIN items : FALSE
      BY <1>16, EmptySeq
    <3> QED BY <1>9, <3>1 DEF PageOK
  <2>2. <<>> \in Seq(Things)
    BY EmptySeq
  <2>3. PageOK(<<>>, None, first, w)
    BY <1>9, <1>16, <2>1
  <2>4. DeliveredOK' /\ ShownOK' /\ delivered' \in Seq(Things)
    BY <1>6, <1>9, <1>10, <1>12, <1>16, <2>2, <2>3, PageDelivered
  <2>5. delivered' = delivered \o <<>> /\ cursor' = None /\ phase' = "done"
    BY <1>16 DEF Deliver
  <2>6. delivered' = delivered
    BY <2>5, ConcatEmptySeq DEF PagesTypeOK
  <2>7. PagesTypeOK'
    BY <1>6, <1>12, <1>15, <2>4, <2>5 DEF PagesTypeOK
  <2>8. AskedOK' /\ AttachOK'
    BY <2>5 DEF AskedOK, AttachOK
  <2> QED BY <1>14, <2>4, <2>6, <2>7, <2>8
<1>17. CASE /\ page' = [items |-> items, next |-> next, until |-> w.until]
            /\ phase' = "attach"
            /\ UNCHANGED <<cursor, delivered>>
  <2>1. PICK k \in Nat : events \in [1..k -> Events]
    BY <1>9
  <2>2. \A n \in 1..k : events[n] \in Events /\ events[n].row \in Records
    <3>1. \A n \in 1..k : events[n] \in Events
      BY <2>1
    <3> QED BY <1>6, <3>1, EventIs
  <2>3. \A n \in 1..k : NextIs(deployments, events[n].row, NextDeploymentAt(events[n].row))
    BY <1>11, <2>2, NextFound
  <2>4. \A n \in 1..k : items[n] \in PageItems
    <3>1. ASSUME NEW n \in 1..k
          PROVE  items[n] \in PageItems
      <4>1. NextDeploymentAt(events[n].row) \in Int \cup {None}
        BY <2>3 DEF NextIs
      <4>2. Concurrent(events[n].row) \in BOOLEAN
        BY DEF Concurrent
      <4>3. items[n] = Item(events[n])
        BY <1>2, <2>1
      <4> QED BY <1>7, <2>2, <4>1, <4>2, <4>3 DEF PageItems
    <3> QED BY <3>1
  <2>5. items \in Seq(PageItems)
    <3>1. items \in [1..k -> PageItems]
      BY <1>2, <2>1, <2>4
    <3> QED BY <3>1, SeqDef
  <2>6. page' \in Pages /\ page'.items = items /\ page'.next = next /\ page'.until = w.until
    BY <1>9, <1>17, <2>5 DEF Pages, Windows
  <2>7. PagesTypeOK'
    BY <1>6, <1>9, <1>12, <1>15, <1>17, <2>6 DEF PagesTypeOK
  <2>8. DeliveredOK'
    BY <1>6, <1>9, <1>12, <1>17 DEF DeliveredOK, Before, Key, KeyWith, EventPriority
  <2>9. ShownOK'
    <3>1. ListedIn(read.window, deployments, observations)'
            = ListedIn(w, deployments, observations)
      BY <1>6, <1>12, SameOrder DEF ListedIn
    <3>2. (cursor # None => \A e \in read.first : ~ Less(cursor.key, Key(e)) => Delivered(e))'
      BY <1>6, <1>9, <1>12, <1>17 DEF ShownOK, Delivered, Key, KeyWith, EventPriority
    <3> QED BY <1>9, <1>12, <1>17, <3>1, <3>2 DEF ShownOK
  <2>10. AskedOK'
    <3>1. query.until # None => w = AskedWindow'
      BY <1>4, <1>6, WindowAsked, SameOrder
    <3>2. query.until # None /\ cursor # None => cursor.window = AskedWindow'
      BY <1>6, SameOrder DEF AskedOK
    <3> QED BY <1>6, <1>12, <1>17, <3>1, <3>2 DEF AskedOK
  <2>11. AttachOK'
    <3>1. PageOK(page.items, page.next, read.first, read.window)'
      BY <1>6, <1>9, <1>12, <1>17, <2>6, SamePage
    <3>2. (\A n \in DOMAIN page.items : ItemOK(page.items[n]))'
      <4>1. ASSUME NEW n \in 1..k
            PROVE  /\ NextIs(deployments, items[n].event.row, items[n].next)
                   /\ ~ items[n].concurrent =>
                        \A e \in deployments :
                          e.service = items[n].event.row.service
                          /\ e.start = items[n].event.row.start => e.id = items[n].event.row.id
        <5>1. /\ items[n].event = events[n]
              /\ items[n].next = NextDeploymentAt(events[n].row)
              /\ items[n].concurrent = Concurrent(events[n].row)
          BY <1>2, <1>7, <2>1
        <5>2. ~ Concurrent(events[n].row) =>
                \A e \in deployments :
                  e.service = events[n].row.service /\ e.start = events[n].row.start
                    => e.id = events[n].row.id
          BY DEF Concurrent
        <5> QED BY <2>3, <5>1, <5>2
      <4>2. DOMAIN items = 1..k
        BY <1>2, <2>1
      <4> QED BY <1>12, <2>6, <4>1, <4>2 DEF ItemOK
    <3> QED BY <3>1, <3>2 DEF AttachOK
  <2> QED BY <1>14, <1>17, <2>7, <2>8, <2>9, <2>10, <2>11
<1> QED BY <1>6, <1>16, <1>17

\* The page is delivered with what its runtimes say.
LEMMA AttachRuntimesKeepsPages ==
  ASSUME PagesInv, AttachRuntimes
  PROVE  PagesInv'
<1> USE DEF PagesInv
<1>1. PICK f : f = [n \in DOMAIN page.items |->
                      RuntimeAssociationOf(observations, Loaded, page.items[n].event.row,
                        page.items[n].next, page.items[n].concurrent, page.until,
                        Cardinality(Loaded) > MaxPerPage)]
  OBVIOUS
<1>2. PICK items : items = [n \in DOMAIN page.items |->
                              [event |-> page.items[n].event, association |-> f[n]]]
  OBVIOUS
<1>3. PICK next : next = page.next
  OBVIOUS
<1>4. /\ phase = "attach" /\ Deliver(items, next)
      /\ read' = [read EXCEPT !.deployments = read.found, !.observations = observations,
                              !.from = Len(delivered) + 1]
      /\ UNCHANGED <<deployments, observations, query, now>>
  <2>1. items = [n \in DOMAIN page.items |->
                   [event |-> page.items[n].event,
                    association |->
                      RuntimeAssociationOf(observations, Loaded, page.items[n].event.row,
                        page.items[n].next, page.items[n].concurrent, page.until,
                        Cardinality(Loaded) > MaxPerPage)]]
    BY <1>1, <1>2
  <2> QED BY <1>3, <2>1 DEF AttachRuntimes
<1>5. /\ query.kind = "deploys" /\ page \in Pages /\ read \in ReadSets
      /\ read.window \in Windows /\ page.until = read.window.until
      /\ observations \in SUBSET Observations
      /\ page.items \in Seq(PageItems) /\ delivered \in Seq(Things)
  BY <1>4 DEF PagesTypeOK, Pages
<1>6. /\ Len(page.items) \in Nat /\ DOMAIN page.items = 1..Len(page.items)
      /\ Len(delivered) \in Nat
  BY <1>5, LenProperties
<1>7. \A n \in DOMAIN page.items :
        /\ page.items[n].event \in Events
        /\ f[n] \in Conclusions
        /\ Judged(f[n], page.items[n].event.row, observations, read.found, page.until)
  <2>1. ASSUME NEW n \in DOMAIN page.items
        PROVE  /\ page.items[n].event \in Events
               /\ f[n] \in Conclusions
               /\ Judged(f[n], page.items[n].event.row, observations, read.found, page.until)
    <3>1. PICK item : item = page.items[n]
      OBVIOUS
    <3>2. f[n] = RuntimeAssociationOf(observations, Loaded, item.event.row, item.next,
                   item.concurrent, page.until, Cardinality(Loaded) > MaxPerPage)
      BY <1>1, <3>1
    <3>3. /\ f[n] \in Conclusions
          /\ Judged(f[n], item.event.row, observations, read.found, page.until)
      BY <1>4, <3>1, <3>2, AttachJudges
    <3>4. item.event \in Events
      BY <1>4, <3>1, PageRowIs
    <3> QED BY <3>1, <3>3, <3>4
  <2> QED BY <2>1
<1>8. /\ DOMAIN items = DOMAIN page.items
      /\ \A n \in DOMAIN items : /\ items[n].event = page.items[n].event
                                 /\ items[n].association = f[n]
  BY <1>2
<1>9. items \in Seq(Things)
  <2>1. items \in [1..Len(page.items) -> Things]
    BY <1>2, <1>6, <1>7 DEF Things
  <2> QED BY <1>6, <2>1, SeqDef
<1>10. PICK first : first = read.first
  OBVIOUS
<1>11. PICK w : w = read.window
  OBVIOUS
<1>12. PageOK(items, next, first, w)
  <2>1. PageOK(page.items, next, first, w)
    BY <1>3, <1>4, <1>10, <1>11 DEF AttachOK
  <2>2. \A n \in DOMAIN items : items[n].event = page.items[n].event
    BY <1>8
  <2> QED BY <1>8, <2>1, <2>2 DEF PageOK
<1>13. first \subseteq ListedIn(w, deployments, observations) /\ first \subseteq Events
  BY <1>4, <1>5, <1>10, <1>11 DEF ShownOK, ReadSets
<1>14. /\ read' \in ReadSets /\ read'.first = first /\ read'.window = w
       /\ read'.deployments = read.found /\ read'.observations = observations
       /\ read'.from = Len(delivered) + 1
  <2>1. PICK from \in Nat : from = Len(delivered) + 1
    BY <1>6
  <2>2. read' = [read EXCEPT !.deployments = read.found, !.observations = observations,
                             !.from = from]
    BY <1>4, <2>1
  <2>3. read.found \in SUBSET Records
    BY <1>5 DEF ReadSets
  <2> QED BY <1>5, <1>10, <1>11, <2>1, <2>2, <2>3 DEF ReadSets
<1>15. DeliveredOK' /\ ShownOK' /\ delivered' \in Seq(Things)
  BY <1>4, <1>9, <1>10, <1>12, <1>13, <1>14, PageDelivered
<1>16. cursor' = next /\ phase' \in {"page", "done"} /\ delivered' = delivered \o items
  BY <1>4 DEF Deliver
<1>17. PagesTypeOK'
  <2>1. Things' = Things /\ ReadSets' = ReadSets
    BY <1>4, SameOrder
  <2>2. next \in Cursors \cup {None}
    BY <1>3, <1>5 DEF Pages
  <2> QED BY <1>4, <1>14, <1>15, <1>16, <2>1, <2>2 DEF PagesTypeOK
<1>18. AskedOK'
  <2>1. ASSUME query.until # None, next # None
        PROVE  next.window = AskedWindow'
    <3>1. next.window = w /\ w = AskedWindow
      BY <1>4, <1>11, <1>12, <2>1 DEF PageOK, AskedOK
    <3> QED BY <1>4, <2>1, <3>1, SameOrder
  <2> QED BY <1>4, <1>16, <2>1 DEF AskedOK
<1>19. AttachOK'
  BY <1>16 DEF AttachOK
<1>20. ConclusionIsSound'
  <2>1. \A n \in DOMAIN delivered' : n >= read'.from =>
          /\ n - Len(delivered) \in DOMAIN items
          /\ delivered'[n] = items[n - Len(delivered)]
    <3>1. \A n \in DOMAIN delivered' :
            \/ n \in DOMAIN delivered
            \/ /\ n - Len(delivered) \in DOMAIN items
               /\ delivered'[n] = items[n - Len(delivered)]
      BY <1>5, <1>9, <1>16, Joined
    <3>2. DOMAIN delivered = 1..Len(delivered)
      BY <1>5, LenProperties
    <3> QED BY <1>6, <1>14, <3>1, <3>2
  <2>2. (\A item \in Associations : \E n \in DOMAIN items : item = items[n])'
    <3>1. Associations' = {delivered'[n] : n \in {m \in DOMAIN delivered' : m >= read'.from}}
      BY <1>4, <1>5 DEF Associations, LastPage
    <3> QED BY <2>1, <3>1
  <2>3. \A n \in DOMAIN items :
          Judged(items[n].association, items[n].event.row, observations, read.found, w.until)
    BY <1>5, <1>7, <1>8, <1>11
  <2>4. (\A item \in Associations :
           Judged(item.association, item.event.row, read.observations, read.deployments,
                  read.window.until))'
    BY <1>14, <2>2, <2>3
  <2>5. (ConclusionIsSound <=>
           \A item \in Associations :
             Judged(item.association, item.event.row, read.observations, read.deployments,
                    read.window.until))'
    BY SoundIsJudged, PTL
  <2> QED BY <2>4, <2>5
<1> QED BY <1>15, <1>17, <1>18, <1>19, <1>20

\* The listing is as it should be after every step.
LEMMA PagesInvariant == ReadsSpec => []PagesInv
<1>1. ReadsInit => PagesInv
  BY PagesBegin
<1>2. PagesInv /\ [ReadsNext]_readVars => PagesInv'
  <2> SUFFICES ASSUME PagesInv, [ReadsNext]_readVars
               PROVE  PagesInv'
    OBVIOUS
  <2>1. /\ deployments \in SUBSET Records /\ observations \in SUBSET Observations
        /\ now \in Clock
    BY DEF PagesInv, PagesTypeOK
  <2>2. CASE UNCHANGED pageVars
    BY <2>1, <2>2, OthersKeepPages DEF pageVars, vars
  <2>3. CASE DeploymentSaved
    <3>1. deployments \subseteq deployments' /\ deployments' \in SUBSET Records
      BY <2>1, <2>3 DEF DeploymentSaved
    <3> QED BY <2>1, <2>3, <3>1, OthersKeepPages DEF DeploymentSaved
  <2>4. CASE RuntimeSnapshotSaved
    <3>1. observations \subseteq observations' /\ observations' \in SUBSET Observations
      BY <2>1, <2>4 DEF RuntimeSnapshotSaved
    <3> QED BY <2>1, <2>4, <3>1, OthersKeepPages DEF RuntimeSnapshotSaved
  <2>5. CASE Tick
    BY <2>1, <2>5, OthersKeepPages DEF Tick
  <2>6. CASE ReadListing \/ ReadDeployments \/ RefuseCursor \/ AttachRuntimes \/ Fail
    BY <2>6, ReadListingKeepsPages, ReadDeploymentsKeepsPages, RefuseCursorKeepsPages,
       AttachRuntimesKeepsPages, FailKeepsPages
  <2> QED BY <2>2, <2>3, <2>4, <2>5, <2>6 DEF ReadsNext, readVars, Next
<1> QED BY <1>1, <1>2, PTL DEF ReadsSpec

\* What the order of the delivered keys says of their rows.
LEMMA CompleteAlways == PagesInv => PagesComplete
<1> SUFFICES ASSUME PagesInv
             PROVE  PagesComplete
  OBVIOUS
<1> USE DEF PagesInv
<1>1. \A n \in DOMAIN delivered : delivered[n].event \in Events
  <2>1. \A n \in DOMAIN delivered : delivered[n] \in Things
    BY LenProperties, ElementOfSeq DEF PagesTypeOK
  <2> QED BY <2>1 DEF Things
<1>2. ASSUME NEW m \in DOMAIN delivered, NEW n \in DOMAIN delivered, m < n
      PROVE  /\ delivered[m].event # delivered[n].event
             /\ delivered[m].event.time >= delivered[n].event.time
  <2>1. Before(delivered[m].event, delivered[n].event)
    BY <1>2 DEF DeliveredOK
  <2>2. PICK e \in Events : e = delivered[m].event
    BY <1>1
  <2>3. PICK f \in Events : f = delivered[n].event
    BY <1>1
  <2>4. e # f
    BY <2>1, <2>2, <2>3, EventsInOrder
  <2>5. /\ Key(e) \in Keys /\ Key(f) \in Keys
        /\ Key(e)[1] = 0 - e.time /\ Key(f)[1] = 0 - f.time
    BY KeyIs
  <2>6. Key(e)[1] <= Key(f)[1]
    BY <2>1, <2>2, <2>3, <2>5, KeysInOrder DEF Before
  <2>7. e.time \in Int /\ f.time \in Int
    BY EventIs
  <2>8. e.time >= f.time
    BY <2>5, <2>6, <2>7
  <2> QED BY <2>2, <2>3, <2>4, <2>8
<1> QED BY <1>2 DEF ShownOK, Delivered, AskedOK, PagesComplete

\* The pages of a listing have each row once, the latest first, and leave out nothing that
\* was there at the first of them (the queries of internal/sqlite that take a cursor).
THEOREM ListingIsComplete == ReadsSpec => []PagesComplete
BY PagesInvariant, CompleteAlways, PTL

\* What deploys concludes of a deployment and its runtimes is of this deployment, and of
\* all of them (attachRuntimeAssociations, deployment.EvaluateRuntimeAssociation).
THEOREM AssociationIsSound == ReadsSpec => []ConclusionIsSound
<1>1. PagesInv => ConclusionIsSound
  BY DEF PagesInv
<1> QED BY <1>1, PagesInvariant, PTL
================================================================================
