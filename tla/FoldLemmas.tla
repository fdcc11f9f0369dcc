----------------------------- MODULE FoldLemmas -----------------------------
(***************************************************************************)
(* What the proofs need of the sums, maxima and minima the modules compute *)
(* with the operators of the community modules.  Induction is over sets:   *)
(* a set that holds every subset of S whose smaller subsets it holds, and  *)
(* a finite S, holds S.                                                    *)
(***************************************************************************)
EXTENDS Integers, FiniteSets, FiniteSetsExt, Functions, FiniteSetTheorems,
        WellFoundedInduction, Sequences, SequencesExt, SequenceTheorems, Sublists, TLAPS

-----------------------------------------------------------------------------
(* A bounded set of naturals has a maximum, and Max is one. *)
LEMMA MaxInSet ==
  ASSUME NEW S \in SUBSET Nat, S # {}, NEW n \in Nat, \A x \in S : x <= n
  PROVE  Max(S) \in S /\ \A x \in S : x <= Max(S)
<1> DEFINE Upper == {u \in Nat : \A x \in S : x <= u}
<1>1. Upper \subseteq Nat /\ Upper # {}
  OBVIOUS
<1> DEFINE R == {ss \in Nat \X Nat : ss[1] < ss[2]}
<1>2. PICK m \in Upper : \A y \in Upper : m <= y
  <2>1. IsWellFoundedOn(R, Nat)
    BY ONLY NatLessThanWellFounded, Zenon DEF OpToRel
  <2> HIDE DEF Upper
  <2>2. \E m \in Upper : \A y \in Upper : ~ (<<y, m>> \in R)
    <3> HIDE DEF R
    <3> QED
      BY <1>1, <2>1, WFMin
  <2>3. \A y, m \in Upper : <<y, m>> \notin R => m <= y
    BY ONLY <1>1 DEF R
  <2> QED
    BY <2>2, <2>3
<1>4. m \in S
  <2> SUFFICES ASSUME m \notin S PROVE FALSE
    OBVIOUS
  <2>1. PICK x \in S : TRUE
    OBVIOUS
  <2>2. x <= m /\ x # m
    BY <1>2, <2>1
  <2>3. m \in Nat /\ m - 1 \in Nat /\ \A y \in S : y <= m /\ y # m
    BY <1>2, <2>2
  <2>4. m - 1 \in Upper
    BY <2>3
  <2> QED
    BY <1>2, <2>3, <2>4
<1>5. \A x \in S : m >= x
  BY <1>1, <1>2
<1> QED
  BY <1>4, <1>5 DEF Max

(* A set of naturals that is not empty has a minimum, and Min is one. *)
LEMMA MinInSet ==
  ASSUME NEW S \in SUBSET Nat, S # {}
  PROVE  Min(S) \in S /\ \A x \in S : Min(S) <= x
<1> DEFINE R == {ss \in Nat \X Nat : ss[1] < ss[2]}
<1>1. IsWellFoundedOn(R, Nat)
  BY ONLY NatLessThanWellFounded, Zenon DEF OpToRel
<1>2. \E m \in S : \A y \in S : ~ (<<y, m>> \in R)
  <2> HIDE DEF R
  <2> QED BY <1>1, WFMin
<1>3. \A y, m \in S : <<y, m>> \notin R => m <= y
  OBVIOUS
<1> QED BY <1>2, <1>3 DEF Min

(* Induction over the naturals, for a set of them. *)
LEMMA NatInSet ==
  ASSUME NEW Good, 0 \in Good, \A n \in Nat : n \in Good => n + 1 \in Good
  PROVE  Nat \subseteq Good
<1> DEFINE Bad == {n \in Nat : n \notin Good}
<1> SUFFICES ASSUME Bad # {} PROVE FALSE
  OBVIOUS
<1>1. Min(Bad) \in Bad /\ \A n \in Bad : Min(Bad) <= n
  <2>1. Bad \in SUBSET Nat
    OBVIOUS
  <2> HIDE DEF Bad
  <2> QED BY <2>1, MinInSet
<1> DEFINE m == Min(Bad)
<1>2. m \in Nat /\ m \notin Good /\ \A n \in Bad : m <= n
  BY <1>1
<1> HIDE DEF m
<1>3. m - 1 \in Nat /\ m - 1 \in Good
  <2>1. m - 1 \in Nat
    BY <1>2
  <2> QED BY <1>2, <2>1
<1> QED BY <1>2, <1>3

-----------------------------------------------------------------------------
(* What repeated application of a function leads to, as an equation for    *)
(* the values up to the n-th, and for all of them.                         *)
Orbit(next, v, n, g) == g = [k \in 0 .. n |-> IF k = 0 THEN v ELSE next[g[k - 1]]]
Iterates(next, v, n, g) == g[0] = v /\ \A k \in 1 .. n : g[k] = next[g[k - 1]]

LEMMA OrbitAt ==
  ASSUME NEW next, NEW v, NEW n \in Nat, NEW g, Orbit(next, v, n, g)
  PROVE  Iterates(next, v, n, g)
<1> DEFINE body(k) == IF k = 0 THEN v ELSE next[g[k - 1]]
<1>1. \A k \in 0 .. n : g[k] = body(k)
  <2>1. g = [k \in 0 .. n |-> body(k)]
    BY DEF Orbit
  <2> HIDE DEF body
  <2> QED BY <2>1
<1>2. 0 \in 0 .. n /\ \A k \in 1 .. n : k \in 0 .. n /\ k # 0
  OBVIOUS
<1> QED BY <1>1, <1>2 DEF Iterates

(* There are such values, as far as is asked for. *)
LEMMA OrbitExists == \A next, v : \A n \in Nat : \E g : Orbit(next, v, n, g)
<1> SUFFICES ASSUME NEW next, NEW v PROVE \A n \in Nat : \E g : Orbit(next, v, n, g)
  OBVIOUS
<1> DEFINE Good == {n \in Nat : \E g : Orbit(next, v, n, g)}
<1>1. 0 \in Good
  <2> DEFINE g == [k \in 0 .. 0 |-> v]
  <2>1. g = [k \in 0 .. 0 |-> IF k = 0 THEN v ELSE next[g[k - 1]]]
    OBVIOUS
  <2>2. Orbit(next, v, 0, g)
    BY <2>1 DEF Orbit
  <2> QED BY <2>2
<1>2. ASSUME NEW n \in Nat, n \in Good PROVE n + 1 \in Good
  <2>1. PICK g : Orbit(next, v, n, g)
    BY <1>2
  <2>2. g[0] = v /\ \A k \in 1 .. n : g[k] = next[g[k - 1]]
    <3>1. Iterates(next, v, n, g)
      BY <2>1, OrbitAt
    <3> QED BY <3>1 DEF Iterates
  <2> DEFINE h == [k \in 0 .. n + 1 |-> IF k = n + 1 THEN next[g[n]] ELSE g[k]]
             body(k) == IF k = 0 THEN v ELSE next[h[k - 1]]
  <2>3. ASSUME NEW k \in 0 .. n + 1 PROVE h[k] = body(k)
    <3>1. CASE k = 0
      BY <2>2, <3>1
    <3>2. CASE k = n + 1
      <4>1. k # 0 /\ k - 1 = n /\ n \in 0 .. n + 1 /\ n # n + 1
        BY <3>2
      <4>2. h[n] = g[n] /\ h[k] = next[g[n]]
        BY <3>2, <4>1
      <4> HIDE DEF h
      <4> QED BY <4>1, <4>2
    <3>3. CASE k # 0 /\ k # n + 1
      <4>1. k \in 1 .. n /\ k - 1 \in 0 .. n + 1 /\ k - 1 # n + 1
        BY <3>3
      <4>2. h[k] = g[k] /\ h[k - 1] = g[k - 1]
        BY <3>3, <4>1
      <4> HIDE DEF h
      <4> QED BY <2>2, <3>3, <4>1, <4>2
    <3> QED BY <3>1, <3>2, <3>3
  <2>4. h = [k \in 0 .. n + 1 |-> body(k)]
    <3> HIDE DEF body
    <3>1. h = [k \in 0 .. n + 1 |-> h[k]]
      OBVIOUS
    <3> HIDE DEF h
    <3> QED BY <2>3, <3>1
  <2>5. Orbit(next, v, n + 1, h)
    <3> HIDE DEF h
    <3> QED BY <2>4 DEF Orbit
  <2> HIDE DEF h
  <2> QED BY <2>5
<1> HIDE DEF Good
<1>3. Nat \subseteq Good
  BY <1>1, <1>2, NatInSet
<1> QED BY <1>3 DEF Good

(* And all of them: the next value follows from the last for every n. *)
Repeats(next, v, h) == h[0] = v /\ \A n \in Nat : h[n + 1] = next[h[n]]
LEMMA OrbitForever ==
  ASSUME NEW V, NEW next \in [V -> V], NEW v \in V
  PROVE  \E h \in [Nat -> V] : Repeats(next, v, h)
<1> DEFINE g(n) == CHOOSE g : Orbit(next, v, n, g)
           h == [n \in Nat |-> g(n)[n]]
<1>1. \A n \in Nat : Orbit(next, v, n, g(n))
  BY OrbitExists
<1> HIDE DEF g
<1>2. \A n \in Nat : g(n)[0] = v /\ \A k \in 1 .. n : g(n)[k] = next[g(n)[k - 1]]
  <2>1. \A n \in Nat : Iterates(next, v, n, g(n))
    BY <1>1, OrbitAt
  <2> QED BY <2>1 DEF Iterates
<1>3. ASSUME NEW n \in Nat, NEW m \in Nat, n <= m PROVE g(m)[n] = h[n] /\ h[n] \in V
  <2> DEFINE Good == {k \in Nat : k <= n => g(n)[k] = g(m)[k] /\ g(n)[k] \in V}
  <2>1. 0 \in Good
    BY <1>2
  <2>2. ASSUME NEW k \in Nat, k \in Good PROVE k + 1 \in Good
    <3> SUFFICES ASSUME k + 1 <= n
                 PROVE  g(n)[k + 1] = g(m)[k + 1] /\ g(n)[k + 1] \in V
      OBVIOUS
    <3>1. k + 1 \in 1 .. n /\ k + 1 \in 1 .. m /\ k + 1 - 1 = k /\ k <= n
      BY <1>3
    <3>2. g(n)[k] = g(m)[k] /\ g(n)[k] \in V
      BY <2>2, <3>1
    <3>3. g(n)[k + 1] = next[g(n)[k]] /\ g(m)[k + 1] = next[g(m)[k]]
      BY <1>2, <3>1
    <3> QED BY <3>2, <3>3
  <2> HIDE DEF Good
  <2>3. Nat \subseteq Good
    BY <2>1, <2>2, NatInSet
  <2>4. n \in Good /\ n <= n /\ h[n] = g(n)[n]
    BY <2>3
  <2> QED BY <2>4 DEF Good
<1>4. h \in [Nat -> V]
  <2>1. \A n \in Nat : h[n] \in V
    BY <1>3
  <2>2. h = [n \in Nat |-> h[n]]
    OBVIOUS
  <2> HIDE DEF h
  <2> QED BY <2>1, <2>2
<1>5. h[0] = v
  BY <1>2
<1>6. ASSUME NEW n \in Nat PROVE h[n + 1] = next[h[n]]
  <2>1. n + 1 \in Nat /\ n + 1 \in 1 .. n + 1 /\ n + 1 - 1 = n /\ n <= n + 1
    OBVIOUS
  <2>2. h[n + 1] = g(n + 1)[n + 1]
    BY <2>1
  <2>3. g(n + 1)[n + 1] = next[g(n + 1)[n]]
    BY <1>2, <2>1
  <2>4. g(n + 1)[n] = h[n]
    BY <1>3, <2>1
  <2> QED BY <2>2, <2>3, <2>4
<1> HIDE DEF h
<1> QED BY <1>4, <1>5, <1>6 DEF Repeats

-----------------------------------------------------------------------------
(* Induction over the subsets of a finite set. *)
LEMMA SubsetInduction ==
  ASSUME NEW S, IsFiniteSet(S), NEW Good,
         \A T \in SUBSET S : (\A U \in SUBSET T : U # T => U \in Good) => T \in Good
  PROVE  S \in Good
<1> SUFFICES ASSUME S \notin Good PROVE FALSE
  OBVIOUS
<1> DEFINE Bad == {T \in SUBSET S : T \notin Good}
<1>1. IsWellFoundedOn(StrictSubsetOrdering(S), SUBSET S)
  <2>1. FiniteSubsetsOf(S) = SUBSET S
    BY FS_FiniteSubsetsOfFinite
  <2>2. IsWellFoundedOn(StrictSubsetOrdering(S), FiniteSubsetsOf(S))
    BY FS_StrictSubsetOrderingWellFounded
  <2> QED BY <2>1, <2>2, Zenon
<1>2. Bad \subseteq SUBSET S /\ Bad # {}
  OBVIOUS
<1>3. PICK T \in Bad : \A U \in Bad : <<U, T>> \notin StrictSubsetOrdering(S)
  <2> HIDE DEF Bad
  <2> QED BY <1>1, <1>2, WFMin
<1>4. \A U \in SUBSET T : U # T => U \in Good
  BY <1>3 DEF StrictSubsetOrdering
<1> QED BY <1>3, <1>4

Chosen(S) == CHOOSE x \in S : TRUE

(* A set that is not empty holds the element chosen from it. *)
LEMMA ChosenIn == \A S : S # {} => Chosen(S) \in S
BY DEF Chosen

(* The recursion of SumFunctionOnSet, as an equation for g. *)
Sums(f, S, g) ==
  g = [T \in SUBSET S |-> IF T = {} THEN 0
                                    ELSE f[Chosen(T)] + g[T \ {Chosen(T)}]]

(* A sum over S is what a solution of the recursion says of S. *)
LEMMA SumOfSolution ==
  ASSUME NEW f, NEW S, \E g : Sums(f, S, g)
  PROVE  \E g : Sums(f, S, g) /\ SumFunctionOnSet(f, S) = g[S]
<1> DEFINE h == CHOOSE g : Sums(f, S, g)
<1>1. Sums(f, S, h)
  OBVIOUS
<1>2. SumFunctionOnSet(f, S) = h[S]
  BY DEF SumFunctionOnSet, FoldFunctionOnSet, MapThenFoldSet, Sums, Chosen
<1> HIDE DEF h
<1> QED BY <1>1, <1>2

(* What a solution says of one set. *)
LEMMA SolutionAt ==
  ASSUME NEW f, NEW S, NEW g, Sums(f, S, g), NEW T \in SUBSET S
  PROVE  /\ T = {} => g[T] = 0
         /\ T # {} => g[T] = f[Chosen(T)] + g[T \ {Chosen(T)}]
<1> DEFINE body(s) == IF s = {} THEN 0 ELSE f[Chosen(s)] + g[s \ {Chosen(s)}]
<1>1. g = [s \in SUBSET S |-> body(s)]
  BY DEF Sums
<1>2. g[T] = body(T)
  <2> HIDE DEF body
  <2> QED BY <1>1
<1> QED BY <1>2

(* Two solutions agree where both are defined. *)
LEMMA SolutionsAgree ==
  ASSUME NEW f, NEW S, NEW T \in SUBSET S, IsFiniteSet(T),
         NEW g, Sums(f, S, g), NEW h, Sums(f, T, h)
  PROVE  g[T] = h[T]
<1> DEFINE Good == {U \in SUBSET T : g[U] = h[U]}
<1>1. ASSUME NEW U \in SUBSET T, \A V \in SUBSET U : V # U => V \in Good
      PROVE  U \in Good
  <2>1. CASE U = {}
    BY <2>1, SolutionAt, ZenonT(40)
  <2>2. CASE U # {}
    <3> DEFINE x == Chosen(U)
    <3>1. x \in U
      BY <2>2, ChosenIn
    <3>2. g[U] = f[x] + g[U \ {x}]
      <4>1. U \in SUBSET S
        OBVIOUS
      <4> QED BY <2>2, <4>1, SolutionAt
    <3>4. h[U] = f[x] + h[U \ {x}]
      BY <2>2, SolutionAt
    <3>3. g[U \ {x}] = h[U \ {x}]
      BY <1>1, <3>1
    <3> QED BY <3>2, <3>3, <3>4
  <2> QED BY <2>1, <2>2
<1> HIDE DEF Good
<1>2. T \in Good
  BY <1>1, SubsetInduction
<1> QED BY <1>2 DEF Good

(* Every finite set has a solution. *)
LEMMA SolutionExists ==
  ASSUME NEW f, NEW S, IsFiniteSet(S)
  PROVE  \E g : Sums(f, S, g)
<1> DEFINE Good == {T \in SUBSET S : \E g : Sums(f, T, g)}
           Total(T) == SumFunctionOnSet(f, T)
<1>1. ASSUME NEW T \in SUBSET S, \A U \in SUBSET T : U # T => U \in Good
      PROVE  T \in Good
  <2> DEFINE next(U) == IF U = {} THEN 0 ELSE f[Chosen(U)] + Total(U \ {Chosen(U)})
             g == [U \in SUBSET T |-> next(U)]
  <2>1. ASSUME NEW U \in SUBSET T, U # T PROVE next(U) = Total(U)
    <3>1. PICK h : Sums(f, U, h) /\ Total(U) = h[U]
      BY <1>1, <2>1, SumOfSolution DEF Sums
    <3>2. CASE U = {}
      BY <3>1, <3>2, SolutionAt
    <3>3. CASE U # {}
      <4> DEFINE V == U \ {Chosen(U)}
      <4>1. V \in SUBSET U /\ V \in SUBSET T /\ V # T
        BY <2>1, <3>3, ChosenIn
      <4>2. PICK k : Sums(f, V, k) /\ Total(V) = k[V]
        BY <1>1, <4>1, SumOfSolution
      <4>3. IsFiniteSet(V)
        BY <4>1, FS_Subset
      <4>4. h[V] = k[V]
        <5> HIDE DEF V
        <5> QED BY <3>1, <4>1, <4>2, <4>3, SolutionsAgree
      <4>5. h[U] = f[Chosen(U)] + h[V]
        BY <3>1, <3>3, SolutionAt
      <4> QED BY <3>1, <3>3, <4>2, <4>4, <4>5
    <3> QED BY <3>2, <3>3
  <2>2. ASSUME NEW U \in SUBSET T, U # {} PROVE Total(U \ {Chosen(U)}) = g[U \ {Chosen(U)}]
    <3>1. U \ {Chosen(U)} \in SUBSET T /\ U \ {Chosen(U)} # T
      BY <2>2, ChosenIn
    <3> HIDE DEF Total, next
    <3> QED BY <2>1, <3>1
  <2>3. Sums(f, T, g)
    <3> HIDE DEF Total
    <3>1. ASSUME NEW U \in SUBSET T
          PROVE  next(U) = IF U = {} THEN 0
                           ELSE f[Chosen(U)] + g[U \ {Chosen(U)}]
      BY <2>2
    <3> HIDE DEF next
    <3>2. g = [U \in SUBSET T |-> IF U = {} THEN 0
                           ELSE f[Chosen(U)] + g[U \ {Chosen(U)}]]
      <4> HIDE DEF g
      <4>1. g = [U \in SUBSET T |-> next(U)]
        BY DEF g
      <4> QED BY <3>1, <4>1
    <3> HIDE DEF g
    <3> QED BY <3>2 DEF Sums
  <2> HIDE DEF g
  <2> QED BY <2>3
<1> HIDE DEF Good
<1>2. S \in Good
  BY <1>1, SubsetInduction
<1> QED BY <1>2 DEF Good

-----------------------------------------------------------------------------
(* The sum of nothing, and a sum without the element that is chosen. *)
LEMMA SumEmpty == \A f : SumFunctionOnSet(f, {}) = 0
<1>1. ASSUME NEW f PROVE SumFunctionOnSet(f, {}) = 0
  <2>1. PICK g : Sums(f, {}, g) /\ SumFunctionOnSet(f, {}) = g[{}]
    BY FS_EmptySet, SolutionExists, SumOfSolution
  <2> QED BY <2>1, SolutionAt
<1> QED BY <1>1

(* A sum is its chosen element and the sum of the rest. *)
LEMMA SumStep ==
  ASSUME NEW f, NEW S, IsFiniteSet(S), S # {}
  PROVE  SumFunctionOnSet(f, S) = f[Chosen(S)] + SumFunctionOnSet(f, S \ {Chosen(S)})
<1> DEFINE T == S \ {Chosen(S)}
<1>1. IsFiniteSet(T) /\ T \in SUBSET S
  BY FS_Subset
<1>2. PICK g : Sums(f, S, g) /\ SumFunctionOnSet(f, S) = g[S]
  BY SolutionExists, SumOfSolution
<1>3. PICK h : Sums(f, T, h) /\ SumFunctionOnSet(f, T) = h[T]
  <2> HIDE DEF T
  <2> QED BY <1>1, SolutionExists, SumOfSolution
<1>4. g[S] = f[Chosen(S)] + g[T]
  BY <1>2, SolutionAt
<1>5. g[T] = h[T]
  <2> HIDE DEF T
  <2> QED BY <1>1, <1>2, <1>3, SolutionsAgree
<1> QED BY <1>2, <1>3, <1>4, <1>5

(* A sum of integers is an integer. *)
LEMMA IntSumType ==
  ASSUME NEW S, IsFiniteSet(S), NEW f, \A x \in S : f[x] \in Int
  PROVE  SumFunctionOnSet(f, S) \in Int
<1> DEFINE Good == {T \in SUBSET S : SumFunctionOnSet(f, T) \in Int}
<1>1. ASSUME NEW T \in SUBSET S, \A U \in SUBSET T : U # T => U \in Good
      PROVE  T \in Good
  <2>1. CASE T = {}
    BY <2>1, SumEmpty
  <2>2. CASE T # {}
    <3>1. Chosen(T) \in T /\ IsFiniteSet(T)
      BY <2>2, ChosenIn, FS_Subset
    <3>2. SumFunctionOnSet(f, T \ {Chosen(T)}) \in Int /\ f[Chosen(T)] \in Int
      BY <1>1, <3>1
    <3> QED BY <2>2, <3>1, <3>2, SumStep
  <2> QED BY <2>1, <2>2
<1> HIDE DEF Good
<1>2. S \in Good
  BY <1>1, SubsetInduction
<1> QED BY <1>2 DEF Good

(* A sum of naturals is a natural. *)
LEMMA SumType ==
  ASSUME NEW S, IsFiniteSet(S), NEW f, \A x \in S : f[x] \in Nat
  PROVE  SumFunctionOnSet(f, S) \in Nat
<1> DEFINE Good == {T \in SUBSET S : SumFunctionOnSet(f, T) \in Nat}
<1>1. ASSUME NEW T \in SUBSET S, \A U \in SUBSET T : U # T => U \in Good
      PROVE  T \in Good
  <2>1. CASE T = {}
    BY <2>1, SumEmpty
  <2>2. CASE T # {}
    <3>1. Chosen(T) \in T /\ IsFiniteSet(T)
      BY <2>2, ChosenIn, FS_Subset
    <3>2. SumFunctionOnSet(f, T \ {Chosen(T)}) \in Nat /\ f[Chosen(T)] \in Nat
      BY <1>1, <3>1
    <3> QED BY <2>2, <3>1, <3>2, SumStep
  <2> QED BY <2>1, <2>2
<1> HIDE DEF Good
<1>2. S \in Good
  BY <1>1, SubsetInduction
<1> QED BY <1>2 DEF Good

(* Any element may be taken out of a sum. *)
LEMMA IntSumWithout ==
  ASSUME NEW S, IsFiniteSet(S), NEW f, \A x \in S : f[x] \in Int, NEW x \in S
  PROVE  SumFunctionOnSet(f, S) = f[x] + SumFunctionOnSet(f, S \ {x})
<1> DEFINE Total(T) == SumFunctionOnSet(f, T)
           Good == {T \in SUBSET S : \A z \in T : Total(T) = f[z] + Total(T \ {z})}
<1>1. ASSUME NEW T \in SUBSET S, \A U \in SUBSET T : U # T => U \in Good
      PROVE  T \in Good
  <2> SUFFICES ASSUME NEW z \in T PROVE Total(T) = f[z] + Total(T \ {z})
    OBVIOUS
  <2> DEFINE y == Chosen(T)
  <2>1. y \in T /\ IsFiniteSet(T)
    BY ChosenIn, FS_Subset
  <2>2. Total(T) = f[y] + Total(T \ {y})
    BY <2>1, SumStep
  <2>3. CASE y = z
    BY <2>2, <2>3
  <2>4. CASE y # z
    <3> DEFINE R == T \ {y, z}
    <3>1. Total(T \ {y}) = f[z] + Total(R)
      <4>1. T \ {y} \in Good /\ z \in T \ {y}
        BY <1>1, <2>1, <2>4
      <4>2. (T \ {y}) \ {z} = R
        OBVIOUS
      <4> HIDE DEF y, R
      <4> QED BY <4>1, <4>2
    <3>2. Total(T \ {z}) = f[y] + Total(R)
      <4>1. T \ {z} \in Good /\ y \in T \ {z}
        BY <1>1, <2>1, <2>4
      <4>2. (T \ {z}) \ {y} = R
        OBVIOUS
      <4> HIDE DEF y, R
      <4> QED BY <4>1, <4>2
    <3>3. Total(R) \in Int /\ f[y] \in Int /\ f[z] \in Int
      <4>1. IsFiniteSet(R) /\ R \in SUBSET S
        BY <2>1, FS_Subset
      <4> HIDE DEF R
      <4> QED BY <2>1, <4>1, IntSumType
    <3> HIDE DEF Total, y, R
    <3> QED BY <2>2, <3>1, <3>2, <3>3
  <2> QED BY <2>3, <2>4
<1> HIDE DEF Good
<1>2. S \in Good
  BY <1>1, SubsetInduction
<1> QED BY <1>2 DEF Good

(* So with naturals. *)
LEMMA SumWithout ==
  ASSUME NEW S, IsFiniteSet(S), NEW f, \A x \in S : f[x] \in Nat, NEW x \in S
  PROVE  SumFunctionOnSet(f, S) = f[x] + SumFunctionOnSet(f, S \ {x})
BY IntSumWithout

(* A sum takes of its function what the set names. *)
LEMMA SumSame ==
  ASSUME NEW S, IsFiniteSet(S), NEW f, NEW g, \A x \in S : f[x] = g[x]
  PROVE  SumFunctionOnSet(f, S) = SumFunctionOnSet(g, S)
<1> DEFINE Good == {T \in SUBSET S : SumFunctionOnSet(f, T) = SumFunctionOnSet(g, T)}
<1>1. ASSUME NEW T \in SUBSET S, \A U \in SUBSET T : U # T => U \in Good
      PROVE  T \in Good
  <2>1. CASE T = {}
    BY <2>1, SumEmpty
  <2>2. CASE T # {}
    <3>1. Chosen(T) \in T /\ IsFiniteSet(T)
      BY <2>2, ChosenIn, FS_Subset
    <3>2. T \ {Chosen(T)} \in Good
      BY <1>1, <3>1
    <3> QED BY <2>2, <3>1, <3>2, SumStep
  <2> QED BY <2>1, <2>2
<1> HIDE DEF Good
<1>2. S \in Good
  BY <1>1, SubsetInduction
<1> QED BY <1>2 DEF Good

(* Elements that count nothing may be left out. *)
LEMMA SumOfPart ==
  ASSUME NEW S, IsFiniteSet(S), NEW f, \A x \in S : f[x] \in Nat,
         NEW P \in SUBSET S, \A x \in S \ P : f[x] = 0
  PROVE  SumFunctionOnSet(f, S) = SumFunctionOnSet(f, P)
<1> DEFINE Total(T) == SumFunctionOnSet(f, T)
           Good == {T \in SUBSET S : Total(T) = Total(T \cap P)}
<1>1. ASSUME NEW T \in SUBSET S, \A U \in SUBSET T : U # T => U \in Good
      PROVE  T \in Good
  <2>1. CASE T \subseteq P
    <3>1. T \cap P = T
      BY <2>1
    <3> QED BY <3>1
  <2>2. ASSUME NEW x \in T, x \notin P PROVE Total(T) = Total(T \cap P)
    <3>1. Total(T) = f[x] + Total(T \ {x})
      BY FS_Subset, SumWithout
    <3>2. T \ {x} \in Good
      BY <1>1
    <3>3. (T \ {x}) \cap P = T \cap P
      BY <2>2
    <3>4. f[x] = 0 /\ Total(T \ {x}) \in Nat
      <4>1. IsFiniteSet(T \ {x}) /\ T \ {x} \in SUBSET S
        BY FS_Subset
      <4> QED BY <2>2, <4>1, SumType
    <3>5. Total(T \ {x}) = Total(T \cap P)
      <4>1. Total(T \ {x}) = Total((T \ {x}) \cap P)
        BY <3>2
      <4> QED BY <3>3, <4>1, Zenon
    <3> HIDE DEF Total
    <3> QED BY <3>1, <3>4, <3>5
  <2> QED BY <2>1, <2>2
<1>2. S \cap P = P
  OBVIOUS
<1> HIDE DEF Good
<1>3. S \in Good
  BY <1>1, SubsetInduction
<1> QED BY <1>2, <1>3 DEF Good

(* A sum of naturals is zero when and only when each of them is. *)
LEMMA SumIsZero ==
  ASSUME NEW S, IsFiniteSet(S), NEW f, \A x \in S : f[x] \in Nat
  PROVE  SumFunctionOnSet(f, S) = 0 <=> \A x \in S : f[x] = 0
<1>1. ASSUME \A x \in S : f[x] = 0 PROVE SumFunctionOnSet(f, S) = 0
  BY <1>1, SumOfPart, SumEmpty
<1>2. ASSUME SumFunctionOnSet(f, S) = 0, NEW x \in S PROVE f[x] = 0
  <2>1. SumFunctionOnSet(f, S) = f[x] + SumFunctionOnSet(f, S \ {x})
    BY SumWithout
  <2>2. SumFunctionOnSet(f, S \ {x}) \in Nat
    <3>1. IsFiniteSet(S \ {x})
      BY FS_RemoveElement
    <3> QED BY <3>1, SumType
  <2> QED BY <1>2, <2>1, <2>2
<1> QED BY <1>1, <1>2

(* A sum is not less than one of smaller numbers. *)
LEMMA SumIsMonotone ==
  ASSUME NEW S, IsFiniteSet(S), NEW f, NEW g,
         \A x \in S : f[x] \in Nat /\ g[x] \in Nat /\ f[x] <= g[x]
  PROVE  SumFunctionOnSet(f, S) <= SumFunctionOnSet(g, S)
<1> DEFINE Good == {T \in SUBSET S : SumFunctionOnSet(f, T) <= SumFunctionOnSet(g, T)}
<1>1. ASSUME NEW T \in SUBSET S, \A U \in SUBSET T : U # T => U \in Good
      PROVE  T \in Good
  <2>1. CASE T = {}
    BY <2>1, SumEmpty
  <2>2. CASE T # {}
    <3> DEFINE x == Chosen(T)
               R == T \ {x}
    <3>1. x \in T /\ IsFiniteSet(T) /\ IsFiniteSet(R) /\ R \in SUBSET S
      BY <2>2, ChosenIn, FS_Subset
    <3>2. SumFunctionOnSet(f, R) <= SumFunctionOnSet(g, R)
      BY <1>1, <3>1
    <3>3. SumFunctionOnSet(f, R) \in Nat /\ SumFunctionOnSet(g, R) \in Nat
      <4> HIDE DEF R
      <4> QED BY <3>1, SumType
    <3>4. /\ SumFunctionOnSet(f, T) = f[x] + SumFunctionOnSet(f, R)
          /\ SumFunctionOnSet(g, T) = g[x] + SumFunctionOnSet(g, R)
      BY <2>2, <3>1, SumStep
    <3>5. f[x] \in Nat /\ g[x] \in Nat /\ f[x] <= g[x]
      BY <3>1
    <3> HIDE DEF x, R
    <3> QED BY <3>2, <3>3, <3>4, <3>5
  <2> QED BY <2>1, <2>2
<1> HIDE DEF Good
<1>2. S \in Good
  BY <1>1, SubsetInduction
<1> QED BY <1>2 DEF Good

-----------------------------------------------------------------------------
(* What a function makes of a finite set is finite. *)
LEMMA FiniteImage ==
  ASSUME NEW S, IsFiniteSet(S), NEW f
  PROVE  /\ IsFiniteSet({f[x] : x \in S})
         /\ Cardinality({f[x] : x \in S}) <= Cardinality(S)
<1> DEFINE T == {f[x] : x \in S}
           g == [x \in S |-> f[x]]
<1>1. g \in Surjection(S, T)
  BY DEF Surjection
<1> HIDE DEF T, g
<1>2. IsFiniteSet(T) /\ Cardinality(T) <= Cardinality(S)
  BY <1>1, FS_Surjection
<1> QED BY <1>2 DEF T

(* A finite set of naturals that is not empty has a maximum. *)
LEMMA FiniteMax ==
  ASSUME NEW S \in SUBSET Nat, S # {}, IsFiniteSet(S)
  PROVE  Max(S) \in S /\ \A x \in S : x <= Max(S)
<1> DEFINE Bounded(T) == \E n \in Nat : \A x \in T : x <= n
           Good == {T \in SUBSET S : Bounded(T)}
<1>1. ASSUME NEW T \in SUBSET S, \A U \in SUBSET T : U # T => U \in Good
      PROVE  T \in Good
  <2>1. CASE T = {}
    <3>1. 0 \in Nat /\ \A x \in T : x <= 0
      BY <2>1
    <3> QED BY <3>1
  <2>2. ASSUME NEW y \in T PROVE Bounded(T)
    <3>1. T \ {y} \in Good
      BY <1>1
    <3>2. PICK n \in Nat : \A x \in T \ {y} : x <= n
      BY <3>1
    <3>3. y \in Nat
      OBVIOUS
    <3>4. n + y \in Nat /\ \A x \in T : x <= n + y
      BY <3>2, <3>3
    <3> QED BY <3>4
  <2> HIDE DEF Bounded
  <2> QED BY <2>1, <2>2
<1> HIDE DEF Good
<1>2. S \in Good
  BY <1>1, SubsetInduction
<1>3. \E n \in Nat : \A x \in S : x <= n
  BY <1>2 DEF Good
<1> QED BY <1>3, MaxInSet

-----------------------------------------------------------------------------
(* The loop of Picked, as an equation for what it has kept after each      *)
(* entry up to the n-th.                                                   *)
Picks(s, I, n, g) ==
  g = [k \in 0 .. n |->
         CASE k = 0 -> << >>
           [] k > 0 /\ k \in I -> Append(g[k - 1], s[k])
           [] OTHER -> g[k - 1]]

(* What it keeps after one entry more. *)
PickedNext(s, I, k, before) == IF k \in I THEN Append(before, s[k]) ELSE before

(* The equation at one entry. *)
LEMMA PicksAt ==
  ASSUME NEW s, NEW I, NEW n \in Nat, NEW g, Picks(s, I, n, g)
  PROVE  g[0] = << >> /\ \A k \in 1 .. n : g[k] = PickedNext(s, I, k, g[k - 1])
<1> DEFINE body(k) == CASE k = 0 -> << >>
                        [] k > 0 /\ k \in I -> Append(g[k - 1], s[k])
                        [] OTHER -> g[k - 1]
<1>1. \A k \in 0 .. n : g[k] = body(k)
  <2>1. g = [k \in 0 .. n |-> body(k)]
    BY DEF Picks
  <2> HIDE DEF body
  <2> QED BY <2>1
<1>2. g[0] = << >>
  BY <1>1
<1>3. ASSUME NEW k \in 1 .. n PROVE g[k] = PickedNext(s, I, k, g[k - 1])
  <2>1. k \in 0 .. n /\ k # 0 /\ k > 0
    OBVIOUS
  <2>2. body(k) = PickedNext(s, I, k, g[k - 1])
    BY <2>1 DEF PickedNext
  <2> QED BY <1>1, <2>1, <2>2
<1> QED BY <1>2, <1>3

(* The loop ends: the equation has a solution for every n. *)
LEMMA PicksExist == \A s, I : \A n \in Nat : \E g : Picks(s, I, n, g)
<1> SUFFICES ASSUME NEW s, NEW I PROVE \A n \in Nat : \E g : Picks(s, I, n, g)
  OBVIOUS
<1> DEFINE Good == {n \in Nat : \E g : Picks(s, I, n, g)}
<1>1. 0 \in Good
  <2> DEFINE g == [k \in 0 .. 0 |-> << >>]
  <2>1. Picks(s, I, 0, g)
    <3>1. g = [k \in 0 .. 0 |-> CASE k = 0 -> << >>
                                  [] k > 0 /\ k \in I -> Append(g[k - 1], s[k])
                                  [] OTHER -> g[k - 1]]
      OBVIOUS
    <3> QED BY <3>1 DEF Picks
  <2> QED BY <2>1
<1>2. ASSUME NEW n \in Nat, n \in Good PROVE n + 1 \in Good
  <2>1. PICK g : Picks(s, I, n, g)
    BY <1>2
  <2> DEFINE last == PickedNext(s, I, n + 1, g[n])
             h == [k \in 0 .. n + 1 |-> IF k = n + 1 THEN last ELSE g[k]]
             body(k) == CASE k = 0 -> << >>
                          [] k > 0 /\ k \in I -> Append(h[k - 1], s[k])
                          [] OTHER -> h[k - 1]
  <2>2. ASSUME NEW k \in 0 .. n + 1 PROVE h[k] = body(k)
    <3>1. CASE k = 0
      BY <2>1, <3>1, PicksAt
    <3>2. CASE k # 0
      <4>1. h[k] = PickedNext(s, I, k, h[k - 1])
        <5>1. CASE k = n + 1
          <6>1. k - 1 = n /\ n \in 0 .. n + 1 /\ n # n + 1
            BY <5>1
          <6>2. h[n] = g[n]
            BY <6>1
          <6> QED BY <5>1, <6>1, <6>2
        <5>2. CASE k # n + 1
          <6>1. k \in 1 .. n /\ k - 1 \in 0 .. n + 1 /\ k - 1 # n + 1
            BY <3>2, <5>2
          <6>2. g[k] = PickedNext(s, I, k, g[k - 1])
            BY <2>1, <6>1, PicksAt
          <6> QED BY <5>2, <6>1, <6>2
        <5> QED BY <5>1, <5>2
      <4>2. body(k) = PickedNext(s, I, k, h[k - 1])
        <5> HIDE DEF h
        <5> QED BY <3>2 DEF PickedNext
      <4> QED BY <4>1, <4>2
    <3> QED BY <3>1, <3>2
  <2>3. h = [k \in 0 .. n + 1 |-> body(k)]
    <3> HIDE DEF body
    <3>1. h = [k \in 0 .. n + 1 |-> h[k]]
      OBVIOUS
    <3> HIDE DEF h
    <3> QED BY <2>2, <3>1
  <2>4. Picks(s, I, n + 1, h)
    <3> HIDE DEF h
    <3> QED BY <2>3 DEF Picks
  <2> HIDE DEF h
  <2> QED BY <2>4
<1> HIDE DEF Good
<1>3. Nat \subseteq Good
  BY <1>1, <1>2, NatInSet
<1> QED BY <1>3 DEF Good

(* h runs through the positions I of s in their order, and p has what is   *)
(* there.                                                                  *)
Lists(h, s, I, p) ==
  /\ h \in [DOMAIN p -> I]
  /\ \A i \in I : \E k \in DOMAIN p : h[k] = i
  /\ \A j, k \in DOMAIN p : j < k => h[j] < h[k]
  /\ \A k \in DOMAIN p : p[k] = s[h[k]]

(* What Picked returns: the entries at the positions it is given, each of  *)
(* them once, in order.                                                    *)
LEMMA PickedIs ==
  ASSUME NEW S, NEW s \in Seq(S), NEW I \in SUBSET DOMAIN s
  PROVE  Picked(s, I) \in Seq(S) /\ \E h : Lists(h, s, I, Picked(s, I))
<1>0. Len(s) \in Nat /\ DOMAIN s = 1 .. Len(s) /\ \A k \in DOMAIN s : s[k] \in S
  OBVIOUS
<1>1. PICK g : Picks(s, I, Len(s), g) /\ Picked(s, I) = g[Len(s)]
  <2> DEFINE h == CHOOSE g : Picks(s, I, Len(s), g)
  <2>1. Picks(s, I, Len(s), h)
    BY <1>0, PicksExist
  <2>2. Picked(s, I) = h[Len(s)]
    BY DEF Picked, Picks
  <2> HIDE DEF h
  <2> QED BY <2>1, <2>2
<1> DEFINE J(n) == {i \in I : i <= n}
           Right(n) == g[n] \in Seq(S) /\ \E h : Lists(h, s, J(n), g[n])
           Good == {n \in Nat : n <= Len(s) => Right(n)}
<1>2. 0 \in Good
  <2>1. g[0] = << >>
    BY <1>0, <1>1, PicksAt
  <2>2. J(0) = {}
    BY <1>0
  <2>3. << >> \in Seq(S) /\ DOMAIN << >> = {}
    OBVIOUS
  <2>4. Lists([k \in {} |-> 0], s, {}, << >>)
    BY <2>3 DEF Lists
  <2>5. Right(0)
    <3> HIDE DEF J
    <3> QED BY <2>1, <2>2, <2>3, <2>4
  <2> HIDE DEF Right
  <2> QED BY <2>5
<1>3. ASSUME NEW n \in Nat, n \in Good PROVE n + 1 \in Good
  <2> SUFFICES ASSUME n + 1 <= Len(s) PROVE Right(n + 1)
    <3> HIDE DEF Right
    <3> QED OBVIOUS
  <2>0. Right(n)
    <3> HIDE DEF Right
    <3> QED BY <1>0, <1>3
  <2>1. n + 1 \in 1 .. Len(s) /\ (n + 1) - 1 = n
    BY <1>0
  <2>2. g[n + 1] = PickedNext(s, I, n + 1, g[n])
    <3> HIDE DEF Good, Right, J
    <3>1. \A k \in 1 .. Len(s) : g[k] = PickedNext(s, I, k, g[k - 1])
      BY <1>0, <1>1, PicksAt
    <3> QED BY <2>1, <3>1
  <2>3. g[n] \in Seq(S)
    BY <2>0
  <2>4. PICK h : Lists(h, s, J(n), g[n])
    BY <2>0
  <2> HIDE DEF Good
  <2>5. CASE n + 1 \notin I
    <3>1. J(n + 1) = J(n)
      BY <1>0, <2>5
    <3>2. g[n + 1] = g[n]
      BY <2>2, <2>5 DEF PickedNext
    <3> QED BY <2>3, <2>4, <3>1, <3>2
  <2>6. CASE n + 1 \in I
    <3> DEFINE old == g[n]
               new == Append(old, s[n + 1])
               m == Len(old)
               f == [k \in 1 .. m + 1 |-> IF k = m + 1 THEN n + 1 ELSE h[k]]
    <3>1. /\ m \in Nat /\ DOMAIN old = 1 .. m /\ DOMAIN new = 1 .. m + 1 /\ new \in Seq(S)
          /\ new[m + 1] = s[n + 1] /\ \A k \in 1 .. m : new[k] = old[k]
      BY <1>0, <2>1, <2>3
    <3>2. g[n + 1] = new
      BY <2>2, <2>6 DEF PickedNext
    <3>3. \A k \in 1 .. m + 1 : k \in 1 .. m \/ k = m + 1
      BY <3>1
    <3>4. J(n + 1) = J(n) \cup {n + 1} /\ n + 1 \notin J(n)
      BY <1>0, <2>6
    <3>5. f[m + 1] = n + 1 /\ \A k \in 1 .. m : f[k] = h[k] /\ k # m + 1
      BY <3>1
    <3>6. f \in [1 .. m + 1 -> J(n + 1)]
      <4>1. \A k \in 1 .. m + 1 : f[k] \in J(n + 1)
        <5>1. \A k \in 1 .. m : h[k] \in J(n)
          <6>1. h \in [DOMAIN old -> J(n)] /\ DOMAIN old = 1 .. m
            <7> HIDE DEF J
            <7> QED BY <2>4, <3>1 DEF Lists
          <6> HIDE DEF J, m, old
          <6> QED BY <6>1
        <5> HIDE DEF f, m, old, J
        <5> QED BY <3>3, <3>4, <3>5, <5>1
      <4> QED BY <4>1
    <3> HIDE DEF f, new, m
    <3>7. \A i \in J(n + 1) : \E k \in 1 .. m + 1 : f[k] = i
      <4> SUFFICES ASSUME NEW i \in J(n + 1) PROVE \E k \in 1 .. m + 1 : f[k] = i
        OBVIOUS
      <4>1. CASE i = n + 1
        BY <3>1, <3>5, <4>1
      <4>2. CASE i # n + 1
        <5>1. i \in J(n)
          BY <3>4, <4>2
        <5>2. PICK k \in 1 .. m : h[k] = i
          BY <2>4, <3>1, <5>1 DEF Lists
        <5> QED BY <3>1, <3>5, <5>2
      <4> QED BY <4>1, <4>2
    <3>8. \A j, k \in 1 .. m + 1 : j < k => f[j] < f[k]
      <4> SUFFICES ASSUME NEW j \in 1 .. m + 1, NEW k \in 1 .. m + 1, j < k PROVE f[j] < f[k]
        OBVIOUS
      <4>1. j \in 1 .. m
        BY <3>1
      <4>2. h[j] \in J(n)
        BY <2>4, <3>1, <4>1 DEF Lists
      <4>3. CASE k = m + 1
        BY <1>0, <3>5, <4>1, <4>2, <4>3
      <4>4. CASE k \in 1 .. m
        BY <2>4, <3>1, <3>5, <4>1, <4>4 DEF Lists
      <4> QED BY <3>3, <4>3, <4>4
    <3>9. \A k \in 1 .. m + 1 : new[k] = s[f[k]]
      BY <2>4, <3>1, <3>3, <3>5 DEF Lists
    <3>10. Lists(f, s, J(n + 1), new)
      BY <3>1, <3>6, <3>7, <3>8, <3>9 DEF Lists
    <3> QED BY <3>1, <3>2, <3>10
  <2> QED BY <2>5, <2>6
<1> HIDE DEF Good
<1>4. Len(s) \in Good
  BY <1>0, <1>2, <1>3, NatInSet
<1>5. J(Len(s)) = I
  BY <1>0
<1>6. Right(Len(s))
  <2> HIDE DEF Right
  <2> QED BY <1>0, <1>4 DEF Good
<1> QED
  <2> HIDE DEF J
  <2> QED BY <1>1, <1>5, <1>6

(* Picked keeps all of a sequence if it is given all positions. *)
LEMMA AllPicked ==
  ASSUME NEW S, NEW s \in Seq(S)
  PROVE  Picked(s, DOMAIN s) = s
<1> DEFINE n == Len(s)
           I == DOMAIN s
<1>0. n \in Nat /\ I = 1 .. n
  OBVIOUS
<1>1. PICK g : Picks(s, I, n, g) /\ Picked(s, I) = g[n]
  <2> DEFINE h == CHOOSE g : Picks(s, I, n, g)
  <2>1. Picks(s, I, n, h)
    BY <1>0, PicksExist
  <2>2. Picked(s, I) = h[n]
    BY DEF Picked, Picks
  <2> HIDE DEF h
  <2> QED BY <2>1, <2>2
<1>2. g[0] = << >> /\ \A k \in 1 .. n : g[k] = PickedNext(s, I, k, g[k - 1])
  <2> HIDE DEF I, n
  <2>1. g[0] = << >>
    BY <1>0, <1>1, PicksAt
  <2>2. \A k \in 1 .. n : g[k] = PickedNext(s, I, k, g[k - 1])
    BY <1>0, <1>1, PicksAt
  <2> QED BY <2>1, <2>2
<1> HIDE DEF I
<1> DEFINE Good == {k \in Nat : k <= n => g[k] = SubSeq(s, 1, k)}
<1>3. 0 \in Good
  <2>1. SubSeq(s, 1, 0) = << >>
    OBVIOUS
  <2> QED BY <1>2, <2>1
<1>4. ASSUME NEW k \in Nat, k \in Good PROVE k + 1 \in Good
  <2> SUFFICES ASSUME k + 1 <= n PROVE g[k + 1] = SubSeq(s, 1, k + 1)
    OBVIOUS
  <2>1. g[k] = SubSeq(s, 1, k) /\ k + 1 \in 1 .. n /\ k + 1 - 1 = k
    BY <1>0, <1>4
  <2>2. g[k + 1] = Append(SubSeq(s, 1, k), s[k + 1])
    <3>1. g[k + 1] = PickedNext(s, I, k + 1, g[k + 1 - 1])
      BY <1>2, <2>1
    <3>2. k + 1 \in I
      BY <1>0, <2>1
    <3>3. g[k + 1] = PickedNext(s, I, k + 1, SubSeq(s, 1, k))
      BY <2>1, <3>1
    <3> QED BY <3>2, <3>3 DEF PickedNext
  <2>3. Append(SubSeq(s, 1, k), s[k + 1]) = SubSeq(s, 1, k + 1)
    BY <1>0, <2>1
  <2> QED BY <2>2, <2>3
<1> HIDE DEF Good
<1>5. n \in Good
  BY <1>0, <1>3, <1>4, NatInSet
<1>6. g[n] = SubSeq(s, 1, n)
  BY <1>0, <1>5 DEF Good
<1>7. SubSeq(s, 1, n) = s
  BY <1>0
<1> QED BY <1>1, <1>6, <1>7 DEF I

-----------------------------------------------------------------------------
(* Sums of disjoint sets, of a renamed set and of its parts.               *)

(* Two sets that have nothing in common. *)
LEMMA IntSumOfUnion ==
  ASSUME NEW S, IsFiniteSet(S), NEW T, IsFiniteSet(T), S \cap T = {},
         NEW f, \A x \in S \cup T : f[x] \in Int
  PROVE  SumFunctionOnSet(f, S \cup T) = SumFunctionOnSet(f, S) + SumFunctionOnSet(f, T)
<1> DEFINE Total(U) == SumFunctionOnSet(f, U)
           Good == {U \in SUBSET S : Total(U \cup T) = Total(U) + Total(T)}
<1>0. ASSUME NEW U \in SUBSET S
      PROVE  IsFiniteSet(U) /\ IsFiniteSet(U \cup T) /\ Total(U) \in Int /\ Total(T) \in Int
             /\ Total(U \cup T) \in Int
  <2>1. IsFiniteSet(U) /\ IsFiniteSet(U \cup T)
    BY FS_Subset, FS_Union
  <2>2. /\ \A x \in U : f[x] \in Int
        /\ \A x \in T : f[x] \in Int
        /\ \A x \in U \cup T : f[x] \in Int
    OBVIOUS
  <2> QED BY <2>1, <2>2, IntSumType
<1>1. ASSUME NEW U \in SUBSET S, \A V \in SUBSET U : V # U => V \in Good
      PROVE  U \in Good
  <2>1. CASE U = {}
    <3>1. U \cup T = T /\ Total(U) = 0
      BY <2>1, SumEmpty
    <3>2. Total(T) \in Int
      BY <1>0
    <3> HIDE DEF Total
    <3> QED BY <2>1, <3>1, <3>2
  <2>2. ASSUME NEW x \in U PROVE Total(U \cup T) = Total(U) + Total(T)
    <3> DEFINE V == U \ {x}
    <3>1. V \in SUBSET S /\ V \in Good
      BY <1>1
    <3>2. Total(V \cup T) = Total(V) + Total(T)
      BY <3>1
    <3>3. (U \cup T) \ {x} = V \cup T
      BY <2>2
    <3>4. Total(U) = f[x] + Total(V)
      BY <1>0, <2>2, IntSumWithout
    <3>5. Total(U \cup T) = f[x] + Total((U \cup T) \ {x})
      <4>1. IsFiniteSet(U \cup T) /\ (\A y \in U \cup T : f[y] \in Int) /\ x \in U \cup T
        BY <1>0, <2>2
      <4> QED BY <4>1, IntSumWithout
    <3>6. Total(U \cup T) = f[x] + Total(V \cup T)
      <4> HIDE DEF Total, V
      <4> QED BY <3>3, <3>5
    <3>7. f[x] \in Int /\ Total(V) \in Int /\ Total(T) \in Int
      <4>1. x \in S
        BY <2>2
      <4> HIDE DEF Total, V
      <4> QED BY <1>0, <3>1, <4>1
    <3> HIDE DEF Total, V
    <3> QED BY <3>2, <3>4, <3>6, <3>7
  <2> QED BY <2>1, <2>2
<1> HIDE DEF Good
<1>2. S \in Good
  BY <1>1, SubsetInduction
<1> QED BY <1>2 DEF Good

(* So with naturals. *)
LEMMA SumOfUnion ==
  ASSUME NEW S, IsFiniteSet(S), NEW T, IsFiniteSet(T), S \cap T = {},
         NEW f, \A x \in S \cup T : f[x] \in Nat
  PROVE  SumFunctionOnSet(f, S \cup T) = SumFunctionOnSet(f, S) + SumFunctionOnSet(f, T)
BY IntSumOfUnion

(* What h numbers is summed up in either numbering. *)
Renames(h, S, T) == T = {h[x] : x \in S} /\ \A x, y \in S : h[x] = h[y] => x = y
IntFollows(g, f, h, S) == \A x \in S : f[h[x]] \in Int /\ g[x] = f[h[x]]
Follows(g, f, h, S) == \A x \in S : f[h[x]] \in Nat /\ g[x] = f[h[x]]

(* The sum of what is renamed is that of the original. *)
LEMMA IntSumRenamed ==
  ASSUME NEW S, IsFiniteSet(S), NEW f, NEW g, NEW h, NEW T, Renames(h, S, T),
         IntFollows(g, f, h, S)
  PROVE  SumFunctionOnSet(g, S) = SumFunctionOnSet(f, T)
<1> USE DEF Renames, IntFollows
<1> DEFINE Of(U) == {h[x] : x \in U}
           Good == {U \in SUBSET S : SumFunctionOnSet(g, U) = SumFunctionOnSet(f, Of(U))}
<1>1. ASSUME NEW U \in SUBSET S, \A V \in SUBSET U : V # U => V \in Good
      PROVE  U \in Good
  <2>1. CASE U = {}
    <3>1. Of(U) = {}
      BY <2>1
    <3> QED BY <2>1, <3>1, SumEmpty
  <2>2. ASSUME NEW x \in U PROVE SumFunctionOnSet(g, U) = SumFunctionOnSet(f, Of(U))
    <3> DEFINE V == U \ {x}
    <3>1. V \in Good
      BY <1>1
    <3>2. SumFunctionOnSet(g, V) = SumFunctionOnSet(f, Of(V))
      BY <3>1
    <3>3. Of(U) \ {h[x]} = Of(V) /\ h[x] \in Of(U)
      OBVIOUS
    <3>4. IsFiniteSet(U) /\ IsFiniteSet(Of(U))
      <4>1. IsFiniteSet(U)
        BY FS_Subset
      <4>2. IsFiniteSet({h[y] : y \in U})
        BY <4>1, FiniteImage
      <4> QED BY <4>1, <4>2
    <3>5. SumFunctionOnSet(g, U) = g[x] + SumFunctionOnSet(g, V)
      BY <3>4, IntSumWithout
    <3>6. SumFunctionOnSet(f, Of(U)) = f[h[x]] + SumFunctionOnSet(f, Of(U) \ {h[x]})
      <4>1. \A y \in Of(U) : f[y] \in Int
        OBVIOUS
      <4> HIDE DEF Of
      <4> QED BY <3>3, <3>4, <4>1, IntSumWithout
    <3>7. g[x] = f[h[x]]
      OBVIOUS
    <3> HIDE DEF Of, V
    <3> QED BY <3>2, <3>3, <3>5, <3>6, <3>7
  <2> QED BY <2>1, <2>2
<1> HIDE DEF Good
<1>2. S \in Good
  BY <1>1, SubsetInduction
<1> QED BY <1>2 DEF Good

(* So with naturals. *)
LEMMA SumRenamed ==
  ASSUME NEW S, IsFiniteSet(S), NEW f, NEW g, NEW h, NEW T, Renames(h, S, T),
         Follows(g, f, h, S)
  PROVE  SumFunctionOnSet(g, S) = SumFunctionOnSet(f, T)
BY IntSumRenamed DEF Follows, IntFollows

(* The sums of the parts, one per key, add up to the sum of the whole. *)
Shares(g, K, f, S, key) ==
  \A k \in K : g[k] = SumFunctionOnSet(f, {x \in S : key[x] = k})

(* The shares of the keys add up to the sum over all that has such a key. *)
LEMMA IntSumOfParts ==
  ASSUME NEW S, IsFiniteSet(S), NEW f, \A x \in S : f[x] \in Int,
         NEW K, IsFiniteSet(K), NEW key, NEW g, Shares(g, K, f, S, key)
  PROVE  SumFunctionOnSet(g, K) = SumFunctionOnSet(f, {x \in S : key[x] \in K})
<1> USE DEF Shares
<1> DEFINE Part(k) == {x \in S : key[x] = k}
           All(L) == {x \in S : key[x] \in L}
           Good == {L \in SUBSET K : SumFunctionOnSet(g, L) = SumFunctionOnSet(f, All(L))}
<1>0. \A k \in K : g[k] \in Int
  <2> SUFFICES ASSUME NEW k \in K PROVE g[k] \in Int
    OBVIOUS
  <2>1. Part(k) \in SUBSET S /\ IsFiniteSet(Part(k)) /\ \A x \in Part(k) : f[x] \in Int
    BY FS_Subset
  <2>2. g[k] = SumFunctionOnSet(f, Part(k))
    OBVIOUS
  <2> HIDE DEF Part
  <2> QED BY <2>1, <2>2, IntSumType
<1>1. ASSUME NEW L \in SUBSET K, \A V \in SUBSET L : V # L => V \in Good
      PROVE  L \in Good
  <2>1. CASE L = {}
    <3>1. All(L) = {}
      BY <2>1
    <3> QED BY <2>1, <3>1, SumEmpty
  <2>2. ASSUME NEW k \in L PROVE SumFunctionOnSet(g, L) = SumFunctionOnSet(f, All(L))
    <3> DEFINE V == L \ {k}
    <3>1. SumFunctionOnSet(g, V) = SumFunctionOnSet(f, All(V))
      <4>1. V \in Good
        BY <1>1
      <4> QED BY <4>1
    <3>2. SumFunctionOnSet(g, L) = g[k] + SumFunctionOnSet(g, V)
      <4>1. IsFiniteSet(L) /\ \A x \in L : g[x] \in Int
        BY <1>0, FS_Subset
      <4> QED BY <4>1, IntSumWithout
    <3>3. All(L) = Part(k) \cup All(V) /\ Part(k) \cap All(V) = {}
      BY <2>2
    <3>4. /\ IsFiniteSet(Part(k)) /\ IsFiniteSet(All(V))
          /\ \A x \in Part(k) \cup All(V) : f[x] \in Int
      BY FS_Subset
    <3>5. g[k] = SumFunctionOnSet(f, Part(k))
      BY <2>2
    <3> HIDE DEF Part, All, V
    <3>6. SumFunctionOnSet(f, All(L))
            = SumFunctionOnSet(f, Part(k)) + SumFunctionOnSet(f, All(V))
      BY <3>3, <3>4, IntSumOfUnion
    <3> QED BY <3>1, <3>2, <3>5, <3>6
  <2> QED BY <2>1, <2>2
<1> HIDE DEF Good
<1>2. K \in Good
  BY <1>1, SubsetInduction
<1> QED BY <1>2 DEF Good

(* So with naturals. *)
LEMMA SumOfParts ==
  ASSUME NEW S, IsFiniteSet(S), NEW f, \A x \in S : f[x] \in Nat,
         NEW K, IsFiniteSet(K), NEW key, NEW g, Shares(g, K, f, S, key)
  PROVE  SumFunctionOnSet(g, K) = SumFunctionOnSet(f, {x \in S : key[x] \in K})
BY IntSumOfParts

-----------------------------------------------------------------------------
(* An element that bounds its set is what Max, or Min, returns. *)
LEMMA MaxIs ==
  ASSUME NEW S \in SUBSET Nat, NEW m \in S, \A x \in S : x <= m
  PROVE  Max(S) = m
<1>1. \A y \in S : (\A x \in S : y >= x) => y = m
  OBVIOUS
<1> QED BY <1>1 DEF Max

(* So with Min. *)
LEMMA MinIs ==
  ASSUME NEW S \in SUBSET Nat, NEW m \in S, \A x \in S : m <= x
  PROVE  Min(S) = m
<1>1. \A y \in S : (\A x \in S : y <= x) => y = m
  OBVIOUS
<1> QED BY <1>1 DEF Min

(* Numbers that are taken modulo m may be added before or after. *)
LEMMA ModAdd ==
  ASSUME NEW a \in Nat, NEW b \in Nat, NEW m \in Nat \ {0}
  PROVE  ((a % m) + b) % m = (a + b) % m
<1> DEFINE r == a % m
           q == a \div m
           x == r + b
<1>1. r \in Nat /\ q \in Int /\ a = q * m + r
  OBVIOUS
<1> HIDE DEF r, q
<1> DEFINE p1 == x \div m
           r1 == x % m
           p2 == (a + b) \div m
           r2 == (a + b) % m
<1>2. x \in Nat /\ a + b = q * m + x
  BY <1>1
<1>3. p1 \in Int /\ r1 \in 0 .. m - 1 /\ x = p1 * m + r1
  BY <1>2
<1>4. p2 \in Int /\ r2 \in 0 .. m - 1 /\ a + b = p2 * m + r2
  OBVIOUS
<1> HIDE DEF x, p1, r1, p2, r2
<1> DEFINE d == q + p1 - p2
<1>5. d \in Int /\ d * m = q * m + p1 * m - p2 * m
  BY <1>1, <1>3, <1>4
<1>6. d * m = r2 - r1
  <2> DEFINE u == q * m
             v == p1 * m
             w == p2 * m
  <2>1. u \in Int /\ v \in Int /\ w \in Int
    BY <1>1, <1>3, <1>4
  <2>2. a + b = u + v + r1 /\ a + b = w + r2 /\ d * m = u + v - w
    <3>1. a + b = u + x /\ x = v + r1 /\ a + b = w + r2 /\ d * m = u + v - w
      BY <1>2, <1>3, <1>4, <1>5
    <3> HIDE DEF u, v, w, d
    <3> QED BY <1>3, <2>1, <3>1
  <2> HIDE DEF u, v, w
  <2>3. d * m \in Int
    BY <1>5
  <2> QED BY <1>3, <1>4, <2>1, <2>2, <2>3
<1> HIDE DEF d
<1>7. d >= 1 => d * m >= m
  BY <1>5
<1>8. d <= -1 => d * m <= -m
  BY <1>5
<1>9. d = 0
  BY <1>3, <1>4, <1>5, <1>6, <1>7, <1>8
<1>10. r1 = r2
  BY <1>3, <1>4, <1>6, <1>9
<1> QED BY <1>10 DEF r1, r2, x, r

-----------------------------------------------------------------------------
(* Lists one after another.                                                *)

(* The recursion of FlattenSeq, as an equation for g, has one solution. *)
Joins(seqs, n, g) == g = [i \in 1 .. n |-> IF i = 1 THEN seqs[i] ELSE g[i - 1] \o seqs[i]]
LEMMA FlattenIs ==
  ASSUME NEW seqs, NEW n \in Nat \ {0}, Len(seqs) = n, NEW h, Joins(seqs, n, h)
  PROVE  FlattenSeq(seqs) = h[n]
<1> DEFINE f == CHOOSE g : Joins(seqs, n, g)
<1>1. Joins(seqs, n, f)
  OBVIOUS
<1>2. FlattenSeq(seqs) = f[n]
  BY DEF FlattenSeq, Joins
<1> HIDE DEF f
<1>3. ASSUME NEW g, Joins(seqs, n, g)
      PROVE  \A i \in 1 .. n : g[i] = IF i = 1 THEN seqs[i] ELSE g[i - 1] \o seqs[i]
  <2> DEFINE body(i) == IF i = 1 THEN seqs[i] ELSE g[i - 1] \o seqs[i]
  <2>1. g = [i \in 1 .. n |-> body(i)]
    BY <1>3 DEF Joins
  <2>2. \A i \in 1 .. n : g[i] = body(i)
    <3> HIDE DEF body
    <3> QED BY <2>1
  <2> QED BY <2>2
<1>4. \A i \in 1 .. n : /\ f[i] = IF i = 1 THEN seqs[i] ELSE f[i - 1] \o seqs[i]
                        /\ h[i] = IF i = 1 THEN seqs[i] ELSE h[i - 1] \o seqs[i]
  BY <1>1, <1>3
<1> DEFINE Good == {i \in Nat : i \in 1 .. n => f[i] = h[i]}
<1>5. ASSUME NEW i \in Nat, i \in Good PROVE i + 1 \in Good
  <2> SUFFICES ASSUME i + 1 \in 1 .. n PROVE f[i + 1] = h[i + 1]
    OBVIOUS
  <2> DEFINE j == i + 1
  <2>1. j \in 1 .. n /\ j - 1 = i /\ (j # 1 => i \in 1 .. n)
    OBVIOUS
  <2> HIDE DEF j
  <2>2. j # 1 => f[i] = h[i]
    BY <1>5, <2>1
  <2>3. f[j] = h[j]
    BY ONLY <1>4, <2>1, <2>2
  <2> QED BY <2>3 DEF j
<1>6. 0 \in Good
  OBVIOUS
<1> HIDE DEF Good
<1>7. n \in Good
  BY <1>5, <1>6, NatInSet
<1> QED BY <1>2, <1>7 DEF Good

(* The first m lists, one after another: flat has the entries of the j-th  *)
(* from off[j] + 1 on.                                                     *)
FlattensTo(seqs, m, flat, off) ==
  /\ \A j \in 1 .. m : off[j] \in Nat /\ off[j] + Len(seqs[j]) <= Len(flat)
  /\ \A j \in 1 .. m : \A i \in 1 .. Len(seqs[j]) : flat[off[j] + i] = seqs[j][i]
  /\ \A k \in 1 .. Len(flat) : \E j \in 1 .. m : k - off[j] \in 1 .. Len(seqs[j])
  /\ \A j, l \in 1 .. m : j < l => off[j] + Len(seqs[j]) <= off[l]

LEMMA FlattensNext ==
  ASSUME NEW D, NEW seqs, NEW m \in Nat, \A j \in 1 .. m + 1 : seqs[j] \in Seq(D),
         NEW flat \in Seq(D), NEW off, FlattensTo(seqs, m, flat, off)
  PROVE  /\ flat \o seqs[m + 1] \in Seq(D)
         /\ \E o : FlattensTo(seqs, m + 1, flat \o seqs[m + 1], o)
<1> DEFINE n == m + 1
           t == seqs[n]
           L == Len(flat)
           all == flat \o t
           o == [j \in 1 .. n |-> IF j = n THEN L ELSE off[j]]
<1>1. /\ n \in Nat /\ m < n /\ \A j \in 1 .. n : j # n => j \in 1 .. m
      /\ \A j \in 1 .. m : j \in 1 .. n /\ j # n
      /\ \A j, l \in 1 .. n : j < l => j \in 1 .. m
  OBVIOUS
<1>2. /\ t \in Seq(D) /\ L \in Nat /\ Len(t) \in Nat /\ all \in Seq(D) /\ Len(all) = L + Len(t)
      /\ \A i \in 1 .. L : all[i] = flat[i]
      /\ \A i \in 1 .. Len(t) : all[L + i] = t[i]
  OBVIOUS
<1>3. o[n] = L /\ \A j \in 1 .. m : o[j] = off[j]
  BY <1>1
<1>4. \A j \in 1 .. m : Len(seqs[j]) \in Nat
  BY <1>1
<1>5. \A j \in 1 .. m : off[j] \in Nat /\ off[j] + Len(seqs[j]) <= L
  BY DEF FlattensTo
<1> HIDE DEF n, t, all, o
<1>6. \A j \in 1 .. n : o[j] \in Nat /\ o[j] + Len(seqs[j]) <= Len(all)
  <2> SUFFICES ASSUME NEW j \in 1 .. n PROVE o[j] \in Nat /\ o[j] + Len(seqs[j]) <= Len(all)
    OBVIOUS
  <2>1. CASE j = n
    BY <1>2, <1>3, <2>1 DEF t
  <2>2. CASE j # n
    <3>1. j \in 1 .. m
      BY <1>1, <2>2
    <3> HIDE DEF L
    <3> QED BY <1>2, <1>3, <1>4, <1>5, <3>1
  <2> QED BY <2>1, <2>2
<1>7. ASSUME NEW j \in 1 .. n, NEW i \in 1 .. Len(seqs[j]) PROVE all[o[j] + i] = seqs[j][i]
  <2>1. CASE j = n
    BY <1>2, <1>3, <2>1 DEF t
  <2>2. CASE j # n
    <3>1. j \in 1 .. m
      BY <1>1, <2>2
    <3>2. flat[off[j] + i] = seqs[j][i]
      BY <3>1 DEF FlattensTo
    <3> HIDE DEF L
    <3>3. off[j] + i \in 1 .. L
      BY <1>2, <1>4, <1>5, <3>1
    <3> QED BY <1>2, <1>3, <3>1, <3>2, <3>3
  <2> QED BY <2>1, <2>2
<1>8. ASSUME NEW k \in 1 .. Len(all) PROVE \E j \in 1 .. n : k - o[j] \in 1 .. Len(seqs[j])
  <2>1. CASE k <= L
    <3>1. k \in 1 .. L
      BY <1>2, <2>1
    <3>2. PICK j \in 1 .. m : k - off[j] \in 1 .. Len(seqs[j])
      BY <3>1 DEF FlattensTo
    <3> QED BY <1>1, <1>3, <3>2
  <2>2. CASE ~(k <= L)
    <3>1. k - o[n] \in 1 .. Len(seqs[n])
      BY <1>2, <1>3, <2>2 DEF t
    <3>2. n \in 1 .. n
      BY <1>1
    <3> QED BY <3>1, <3>2
  <2> QED BY <2>1, <2>2
<1>9. ASSUME NEW j \in 1 .. n, NEW l \in 1 .. n, j < l PROVE o[j] + Len(seqs[j]) <= o[l]
  <2>1. j \in 1 .. m
    BY <1>1, <1>9
  <2>2. CASE l = n
    BY <1>3, <1>5, <2>1, <2>2
  <2>3. CASE l # n
    <3>1. l \in 1 .. m
      BY <1>1, <2>3
    <3>2. off[j] + Len(seqs[j]) <= off[l]
      BY <1>9, <2>1, <3>1 DEF FlattensTo
    <3> QED BY <1>3, <2>1, <3>1, <3>2
  <2> QED BY <2>2, <2>3
<1>10. FlattensTo(seqs, n, all, o)
  BY <1>6, <1>7, <1>8, <1>9 DEF FlattensTo
<1> QED BY <1>2, <1>10 DEF n, t, all

Flattens(seqs, flat, off) == FlattensTo(seqs, Len(seqs), flat, off)

LEMMA FlattenPlaces ==
  ASSUME NEW D, NEW seqs \in Seq(Seq(D))
  PROVE  FlattenSeq(seqs) \in Seq(D) /\ \E off : Flattens(seqs, FlattenSeq(seqs), off)
<1> DEFINE n == Len(seqs)
<1>0. n \in Nat /\ \A j \in 1 .. n : seqs[j] \in Seq(D)
  OBVIOUS
<1>1. CASE n = 0
  <2>1. seqs = << >> /\ FlattenSeq(seqs) = << >>
    BY <1>1 DEF FlattenSeq
  <2>2. FlattensTo(seqs, 0, << >>, << >>)
    BY DEF FlattensTo
  <2>3. n = 0 /\ << >> \in Seq(D)
    BY <1>1
  <2> DEFINE none == << >>
  <2>4. FlattensTo(seqs, n, none, none) /\ none \in Seq(D) /\ FlattenSeq(seqs) = none
    BY <2>1, <2>2, <2>3
  <2> HIDE DEF none, n
  <2>5. Flattens(seqs, none, none)
    BY <2>4 DEF Flattens, n
  <2> QED BY <2>4, <2>5
<1>2. CASE n # 0
  <2> DEFINE Fine(m, h) == /\ Joins(seqs, m, h) /\ h[m] \in Seq(D)
                           /\ \E off : FlattensTo(seqs, m, h[m], off)
             Good == {m \in Nat : m \in 1 .. n => \E h : Fine(m, h)}
  <2>1. 0 \in Good
    OBVIOUS
  <2>2. ASSUME NEW m \in Nat, m \in Good PROVE m + 1 \in Good
    <3> SUFFICES ASSUME m + 1 \in 1 .. n PROVE \E h : Fine(m + 1, h)
      OBVIOUS
    <3> DEFINE l == m + 1
    <3>1. l \in Nat /\ l - 1 = m /\ \A j \in 1 .. l : seqs[j] \in Seq(D)
      BY <1>0
    <3>2. CASE m = 0
      <4> DEFINE h == [i \in 1 .. 1 |-> seqs[1]]
      <4>1. Joins(seqs, 1, h) /\ h[1] = seqs[1]
        BY DEF Joins
      <4>2. FlattensTo(seqs, 1, seqs[1], [i \in 1 .. 1 |-> 0])
        <5>1. seqs[1] \in Seq(D)
          BY <3>1, <3>2
        <5> QED BY <5>1 DEF FlattensTo
      <4>3. seqs[1] \in Seq(D) /\ l = 1
        BY <3>1, <3>2
      <4> HIDE DEF h, l
      <4>4. Fine(l, h)
        BY <4>1, <4>2, <4>3
      <4> QED BY <4>4 DEF l
    <3>3. CASE m # 0
      <4>1. PICK h : Fine(m, h)
        BY <1>0, <2>2, <3>3
      <4> DEFINE flat == h[m] \o seqs[l]
                 k == [i \in 1 .. l |-> IF i = l THEN flat ELSE h[i]]
      <4>2. flat \in Seq(D) /\ \E o : FlattensTo(seqs, l, flat, o)
        BY <3>1, <4>1, FlattensNext
      <4>3. k[l] = flat /\ \A i \in 1 .. m : k[i] = h[i]
        <5>1. l \in 1 .. l /\ \A i \in 1 .. m : i \in 1 .. l /\ i # l
          OBVIOUS
        <5> HIDE DEF l, flat
        <5> QED BY <5>1
      <4>4. Joins(seqs, l, k)
        <5> DEFINE body(g, i) == IF i = 1 THEN seqs[i] ELSE g[i - 1] \o seqs[i]
        <5>1. h = [i \in 1 .. m |-> body(h, i)]
          BY <4>1 DEF Joins
        <5>2. \A i \in 1 .. m : h[i] = body(h, i)
          <6> HIDE DEF body
          <6> QED BY <5>1
        <5>3. ASSUME NEW i \in 1 .. l PROVE k[i] = body(k, i)
          <6>1. CASE i = l
            <7>1. i # 1 /\ i - 1 = m /\ m \in 1 .. m
              BY <3>1, <3>3, <6>1
            <7> HIDE DEF k
            <7> QED BY <4>3, <6>1, <7>1
          <6>2. CASE i # l
            <7>1. i \in 1 .. m /\ (i # 1 => i - 1 \in 1 .. m)
              BY <6>2
            <7> HIDE DEF k
            <7> QED BY <4>3, <5>2, <7>1
          <6> QED BY <6>1, <6>2
        <5>4. k = [i \in 1 .. l |-> k[i]]
          OBVIOUS
        <5> HIDE DEF k, l, body
        <5>5. k = [i \in 1 .. l |-> body(k, i)]
          BY <5>3, <5>4
        <5> QED BY <5>5 DEF Joins, body
      <4> HIDE DEF flat, k, l
      <4>5. Fine(l, k)
        BY <4>2, <4>3, <4>4
      <4> QED BY <4>5 DEF l
    <3> QED BY <3>2, <3>3
  <2>3. n \in Good
    <3> HIDE DEF Good
    <3> QED BY <1>0, <2>1, <2>2, NatInSet
  <2>4. PICK h : Fine(n, h)
    BY <1>0, <1>2, <2>3
  <2>5. FlattenSeq(seqs) = h[n]
    BY <1>0, <1>2, <2>4, FlattenIs
  <2> QED BY <2>4, <2>5 DEF Flattens
<1> QED BY <1>1, <1>2

-----------------------------------------------------------------------------
(* Places in an order.                                                     *)

(* P[i] are the elements of I before i, in an order of all of I. *)
Precedes(P, I) ==
  /\ \A i \in I : P[i] \in SUBSET I /\ i \notin P[i]
  /\ \A i \in I : \A j \in P[i] : P[j] \subseteq P[i]
  /\ \A i, j \in I : i # j => i \in P[j] \/ j \in P[i]

(* Every element has a place of its own, and every place is taken. *)
Ranked(P, I) ==
  /\ \A i, j \in I : Cardinality(P[i]) = Cardinality(P[j]) => i = j
  /\ \A i \in I : Cardinality(P[i]) \in Nat /\ Cardinality(P[i]) + 1 \in 1 .. Cardinality(I)
  /\ \A k \in 1 .. Cardinality(I) : \E i \in I : Cardinality(P[i]) = k - 1

LEMMA PlacesAreTaken ==
  ASSUME NEW I, IsFiniteSet(I), NEW P, Precedes(P, I)
  PROVE  Ranked(P, I)
<1>1. \A i \in I : P[i] \in SUBSET I /\ i \notin P[i]
  BY DEF Precedes
<1>2. \A i \in I : IsFiniteSet(P[i]) /\ Cardinality(P[i]) \in Nat
  BY <1>1, FS_Subset, FS_CardinalityType
<1>3. ASSUME NEW i \in I, NEW j \in P[i]
      PROVE  Cardinality(P[j]) < Cardinality(P[i])
  <2> DEFINE A == P[j]
             B == P[i]
  <2>1. A \in SUBSET B /\ A # B /\ IsFiniteSet(B) /\ Cardinality(A) \in Nat /\ Cardinality(B) \in Nat
    BY <1>1, <1>2 DEF Precedes
  <2> HIDE DEF A, B
  <2>2. Cardinality(A) <= Cardinality(B) /\ Cardinality(A) # Cardinality(B)
    BY <2>1, FS_Subset
  <2>3. Cardinality(A) < Cardinality(B)
    BY <2>1, <2>2
  <2> QED BY <2>3 DEF A, B
<1>4. \A i, j \in I : Cardinality(P[i]) = Cardinality(P[j]) => i = j
  <2> SUFFICES ASSUME NEW i \in I, NEW j \in I, i # j
               PROVE  Cardinality(P[i]) # Cardinality(P[j])
    OBVIOUS
  <2>1. i \in P[j] \/ j \in P[i]
    BY DEF Precedes
  <2> QED BY <1>2, <1>3, <2>1
<1>5. \A i \in I : Cardinality(P[i]) + 1 \in 1 .. Cardinality(I)
  <2> SUFFICES ASSUME NEW i \in I PROVE Cardinality(P[i]) + 1 \in 1 .. Cardinality(I)
    OBVIOUS
  <2> DEFINE A == P[i]
  <2>1. A \in SUBSET I /\ A # I /\ Cardinality(A) \in Nat /\ Cardinality(I) \in Nat
    BY <1>1, <1>2, FS_CardinalityType
  <2> HIDE DEF A
  <2>2. Cardinality(A) <= Cardinality(I) /\ Cardinality(A) # Cardinality(I)
    BY <2>1, FS_Subset
  <2>3. Cardinality(A) + 1 \in 1 .. Cardinality(I)
    BY <2>1, <2>2
  <2> QED BY <2>3 DEF A
<1> DEFINE n == Cardinality(I)
           T == 1 .. n
           place == [i \in I |-> Cardinality(P[i]) + 1]
<1>6. n \in Nat /\ IsFiniteSet(T) /\ Cardinality(T) = n
  <2>1. n \in Nat
    BY FS_CardinalityType
  <2> HIDE DEF n
  <2> QED BY <2>1, FS_Interval
<1>7. place \in [I -> T] /\ \A i, j \in I : place[i] = place[j] => i = j
  BY <1>2, <1>4, <1>5
<1>8. \A k \in T : \E i \in I : place[i] = k
  <2> HIDE DEF T, place
  <2>1. place \in Injection(I, T)
    BY <1>7 DEF Injection, IsInjective
  <2>2. Cardinality(I) = Cardinality(T)
    BY <1>6 DEF n
  <2>3. place \in Surjection(I, T)
    BY <1>6, <2>1, <2>2, FS_Injection
  <2> QED BY <2>3 DEF Surjection
<1>9. \A k \in 1 .. Cardinality(I) : \E i \in I : Cardinality(P[i]) = k - 1
  <2> SUFFICES ASSUME NEW k \in 1 .. Cardinality(I)
               PROVE  \E i \in I : Cardinality(P[i]) = k - 1
    OBVIOUS
  <2>1. PICK i \in I : place[i] = k
    BY <1>8
  <2> QED BY <1>2, <2>1
<1> QED BY <1>2, <1>4, <1>5, <1>9 DEF Ranked

(* A list of a finite set has each of its elements once. *)
Enumerates(s, S) ==
  /\ s \in Seq(S) /\ Len(s) = Cardinality(S)
  /\ \A x \in S : \E i \in 1 .. Len(s) : s[i] = x
  /\ \A i, j \in 1 .. Len(s) : s[i] = s[j] => i = j

LEMMA SetToSeqIs ==
  ASSUME NEW S, IsFiniteSet(S)
  PROVE  Enumerates(SetToSeq(S), S)
<1> DEFINE n == Cardinality(S)
           s == SetToSeq(S)
<1>1. n \in Nat /\ IsFiniteSet(1 .. n) /\ Cardinality(1 .. n) = n
  <2>1. n \in Nat
    BY FS_CardinalityType
  <2> HIDE DEF n
  <2> QED BY <2>1, FS_Interval
<1>2. \E f \in [1 .. n -> S] : IsInjective(f)
  <2>1. ExistsBijection(1 .. n, S)
    BY FS_NatBijection, FS_CountingElements
  <2> QED BY <2>1 DEF ExistsBijection, Bijection, Injection
<1>3. s \in [1 .. n -> S] /\ IsInjective(s)
  BY <1>2 DEF SetToSeq
<1> HIDE DEF s
<1>4. s \in Surjection(1 .. n, S)
  <2>1. s \in Injection(1 .. n, S)
    BY <1>3 DEF Injection
  <2> DEFINE T == 1 .. n
  <2>2. s \in Injection(T, S) /\ IsFiniteSet(T) /\ Cardinality(T) = Cardinality(S)
    BY <1>1, <2>1
  <2> HIDE DEF T
  <2>3. s \in Surjection(T, S)
    BY <2>2, FS_Injection
  <2> QED BY <2>3 DEF T
<1>5. s \in Seq(S) /\ Len(s) = n
  <2> HIDE DEF n
  <2> QED BY <1>1, <1>3
<1>6. \A i, j \in 1 .. n : s[i] = s[j] => i = j
  BY <1>3 DEF IsInjective
<1>7. \A x \in S : \E i \in 1 .. n : s[i] = x
  BY <1>4 DEF Surjection
<1> QED BY <1>5, <1>6, <1>7 DEF Enumerates, s
=============================================================================
