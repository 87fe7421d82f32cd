---------------------------- MODULE SumTheorems ----------------------------
(***************************************************************************)
(* Sums over finite sets: that the recursive function behind               *)
(* SumFunctionOnSet exists and is unique, and the laws of the sums the     *)
(* models compute.                                                         *)
(*                                                                         *)
(* The induction theorems of the library take a predicate, which the       *)
(* provers here cannot instantiate.  Everything below is induction all the *)
(* same, with a set in place of the predicate: the set of the numbers, or  *)
(* of the subsets, of which the claim is true (NumbersByInduction,         *)
(* SubsetsByInduction).                                                    *)
(***************************************************************************)
EXTENDS Integers, FiniteSets, FiniteSetsExt, FiniteSetTheorems, WellFoundedInduction, TLAPS

\* The element a sum takes next.
Pick(T) == CHOOSE x \in T : TRUE

\* g computes the sums of f over the subsets of S.
Computes(g, f, S) ==
  g = [T \in SUBSET S |-> IF T = {} THEN 0 ELSE f[Pick(T)] + g[T \ {Pick(T)}]]

-----------------------------------------------------------------------------
(* Induction *)

\* A set of numbers that holds 0 and the successor of each of its members holds
\* every number.
LEMMA NumbersByInduction ==
  ASSUME NEW A, 0 \in A, \A n \in Nat : n \in A => n + 1 \in A
  PROVE Nat \subseteq A
<1> SUFFICES ASSUME Nat \ A # {} PROVE FALSE
  OBVIOUS
<1>1. PICK n \in Nat \ A : \A m \in Nat \ A : <<m, n>> \notin OpToRel(<, Nat)
  BY NatLessThanWellFounded, WFMin
<1>a. n \in Nat /\ n \notin A
  BY <1>1
<1>b. n # 0
  BY <1>a
<1>2. n - 1 \in Nat /\ (n - 1) + 1 = n
  BY <1>a, <1>b
<1>3. n - 1 \in A
  <2>1. SUFFICES ASSUME n - 1 \notin A PROVE FALSE
    OBVIOUS
  <2>2. <<n - 1, n>> \in OpToRel(<, Nat)
    BY <1>a, <1>2 DEF OpToRel
  <2>3. QED
    BY <1>1, <1>2, <2>1, <2>2
<1>4. QED
  BY <1>a, <1>2, <1>3

\* Without one element a finite set is one smaller.
LEMMA OneSmaller ==
  ASSUME NEW T, IsFiniteSet(T), NEW x \in T
  PROVE Cardinality(T) \in Nat /\ Cardinality(T \ {x}) = Cardinality(T) - 1
  BY FS_CardinalityType, FS_RemoveElement

\* Induction on a finite set, with the set of the good subsets for a predicate.
LEMMA SubsetsByInduction ==
  ASSUME NEW S, IsFiniteSet(S), NEW Good, {} \in Good,
         \A T \in SUBSET S, x \in S : T \in Good /\ x \notin T => T \cup {x} \in Good
  PROVE S \in Good
<1> DEFINE A == {n \in Nat : \A T \in SUBSET S : Cardinality(T) = n => T \in Good}
<1>1. \A T \in SUBSET S : IsFiniteSet(T) /\ Cardinality(T) \in Nat
  BY FS_Subset, FS_CardinalityType
<1>2. 0 \in A
  BY <1>1, FS_EmptySet
<1>3. ASSUME NEW n \in Nat, n \in A PROVE n + 1 \in A
  <2> SUFFICES ASSUME NEW T \in SUBSET S, Cardinality(T) = n + 1 PROVE T \in Good
    OBVIOUS
  <2>1. T # {}
    <3>1. T = {} => Cardinality(T) = 0
      BY FS_EmptySet
    <3>2. n + 1 # 0
      OBVIOUS
    <3>3. QED
      BY <3>1, <3>2
  <2>2. PICK x \in T : TRUE
    BY <2>1
  <2>3. Cardinality(T \ {x}) = n /\ T \ {x} \in SUBSET S
    <3>1. Cardinality(T \ {x}) = Cardinality(T) - 1
      BY <1>1, OneSmaller
    <3>2. QED
      BY <3>1
  <2>4. T \ {x} \in Good
    BY <1>3, <2>3
  <2>5. (T \ {x}) \cup {x} = T /\ x \in S
    BY <2>2
  <2>6. QED
    BY <2>4, <2>5
<1>4. Nat \subseteq A
  <2> HIDE DEF A
  <2> QED BY <1>2, <1>3, NumbersByInduction
<1>5. QED
  BY <1>1, <1>4

-----------------------------------------------------------------------------
(* The recursive function behind a sum *)

\* What the community modules define: some function that computes the sums.
LEMMA SumIsChosen ==
  ASSUME NEW f, NEW S
  PROVE SumFunctionOnSet(f, S) = (CHOOSE g : Computes(g, f, S))[S]
  BY DEF SumFunctionOnSet, FoldFunctionOnSet, MapThenFoldSet, Computes, Pick

\* The sums of the subsets exist.
LEMMA SumsExist ==
  ASSUME NEW f, NEW S, IsFiniteSet(S)
  PROVE \E g : Computes(g, f, S)
<1> DEFINE Small(n) == {T \in SUBSET S : Cardinality(T) <= n}
           Step(g, T) == IF T = {} THEN 0 ELSE f[Pick(T)] + g[T \ {Pick(T)}]
           A == {n \in Nat : \E g : g = [T \in Small(n) |-> Step(g, T)]}
<1>0. \A T \in SUBSET S : IsFiniteSet(T) /\ Cardinality(T) \in Nat
  BY FS_Subset, FS_CardinalityType
<1>1. 0 \in A
  <2> DEFINE g == [T \in Small(0) |-> 0]
  <2>1. \A T \in Small(0) : T = {}
    BY <1>0, FS_EmptySet
  <2>2. g = [T \in Small(0) |-> Step(g, T)]
    BY <2>1
  <2>3. QED
    BY <2>2
<1>2. ASSUME NEW n \in Nat, n \in A PROVE n + 1 \in A
  <2>1. PICK g : g = [T \in Small(n) |-> Step(g, T)]
    BY <1>2
  <2> DEFINE h == [T \in Small(n + 1) |-> Step(g, T)]
  <2>2. \A T \in Small(n) : T \in Small(n + 1) /\ h[T] = g[T]
    <3> SUFFICES ASSUME NEW T \in Small(n) PROVE T \in Small(n + 1) /\ h[T] = g[T]
      OBVIOUS
    <3>1. T \in Small(n + 1)
      BY <1>0
    <3>2. g[T] = Step(g, T)
      BY <2>1
    <3>3. h[T] = Step(g, T)
      BY <3>1
    <3>4. QED
      BY <3>1, <3>2, <3>3
  <2>3. \A T \in Small(n + 1) : T # {} => T \ {Pick(T)} \in Small(n)
    <3> SUFFICES ASSUME NEW T \in Small(n + 1), T # {} PROVE T \ {Pick(T)} \in Small(n)
      OBVIOUS
    <3>1. Pick(T) \in T
      BY DEF Pick
    <3>2. Cardinality(T \ {Pick(T)}) = Cardinality(T) - 1 /\ Cardinality(T) \in Nat
      BY <1>0, <3>1, OneSmaller
    <3>3. QED
      BY <3>2
  <2>4. \A T \in Small(n + 1) : Step(g, T) = Step(h, T)
    BY <2>2, <2>3
  <2>5. h = [T \in Small(n + 1) |-> Step(h, T)]
    BY <2>4
  <2>6. \E k : k = [T \in Small(n + 1) |-> Step(k, T)]
    <3> HIDE DEF Small, Step, h
    <3> QED BY <2>5
  <2>7. n + 1 \in Nat
    OBVIOUS
  <2>8. QED
    <3> HIDE DEF Small, Step, h
    <3> QED BY <2>6, <2>7
<1>3. Nat \subseteq A
  <2> HIDE DEF A
  <2> QED BY <1>1, <1>2, NumbersByInduction
<1>4. Cardinality(S) \in A
  BY <1>0, <1>3
<1>5. Small(Cardinality(S)) = SUBSET S
  BY FS_Subset
<1>6. QED
  BY <1>4, <1>5 DEF Computes

\* There is one way to compute them.
LEMMA SumsAgree ==
  ASSUME NEW f, NEW S, IsFiniteSet(S), NEW U \in SUBSET S,
         NEW g, Computes(g, f, S), NEW h, Computes(h, f, U)
  PROVE g[U] = h[U]
<1> DEFINE A == {n \in Nat : \A T \in SUBSET U : Cardinality(T) <= n => g[T] = h[T]}
<1>0. \A T \in SUBSET U : IsFiniteSet(T) /\ Cardinality(T) \in Nat
  BY FS_Subset, FS_CardinalityType
<1>1. g[{}] = 0 /\ h[{}] = 0
  BY DEF Computes
<1>2. 0 \in A
  BY <1>0, <1>1, FS_EmptySet
<1>3. ASSUME NEW n \in Nat, n \in A PROVE n + 1 \in A
  <2> SUFFICES ASSUME NEW T \in SUBSET U, Cardinality(T) <= n + 1, T # {} PROVE g[T] = h[T]
    BY <1>1
  <2>1. Pick(T) \in T
    BY DEF Pick
  <2>2. Cardinality(T \ {Pick(T)}) <= n /\ T \ {Pick(T)} \in SUBSET U
    <3>1. Cardinality(T \ {Pick(T)}) = Cardinality(T) - 1 /\ Cardinality(T) \in Nat
      BY <1>0, <2>1, OneSmaller
    <3>2. QED
      BY <3>1
  <2>3. g[T \ {Pick(T)}] = h[T \ {Pick(T)}]
    BY <1>3, <2>2
  <2>4. g[T] = f[Pick(T)] + g[T \ {Pick(T)}]
    BY DEF Computes
  <2>5. h[T] = f[Pick(T)] + h[T \ {Pick(T)}]
    BY DEF Computes
  <2>6. QED
    BY <2>3, <2>4, <2>5
<1>4. Nat \subseteq A
  <2> HIDE DEF A
  <2> QED BY <1>2, <1>3, NumbersByInduction
<1>5. QED
  BY <1>0, <1>4

\* Any function that computes the sums computes this one.
LEMMA SumComputed ==
  ASSUME NEW f, NEW S, IsFiniteSet(S), NEW g, Computes(g, f, S), NEW U \in SUBSET S
  PROVE SumFunctionOnSet(f, U) = g[U]
<1> DEFINE h == CHOOSE k : Computes(k, f, U)
<1>1. IsFiniteSet(U)
  BY FS_Subset
<1>2. Computes(h, f, U)
  BY <1>1, SumsExist
<1>3. SumFunctionOnSet(f, U) = h[U]
  BY SumIsChosen
<1> HIDE DEF h
<1>4. QED
  BY <1>2, <1>3, SumsAgree

-----------------------------------------------------------------------------
(* The laws of sums *)

\* Nothing sums to zero.
LEMMA SumOfNothing ==
  ASSUME NEW f
  PROVE SumFunctionOnSet(f, {}) = 0
<1>1. IsFiniteSet({})
  BY FS_EmptySet
<1>2. PICK g : Computes(g, f, {})
  BY <1>1, SumsExist
<1>3. SumFunctionOnSet(f, {}) = g[{}]
  BY <1>1, <1>2, SumComputed
<1>4. QED
  BY <1>2, <1>3 DEF Computes

\* The equation of the sum: one element, and the rest.
LEMMA SumStep ==
  ASSUME NEW f, NEW S, IsFiniteSet(S), S # {}
  PROVE Pick(S) \in S
        /\ SumFunctionOnSet(f, S) = f[Pick(S)] + SumFunctionOnSet(f, S \ {Pick(S)})
<1>1. PICK g : Computes(g, f, S)
  BY SumsExist
<1>2. SumFunctionOnSet(f, S) = g[S]
  BY <1>1, SumComputed
<1>3. SumFunctionOnSet(f, S \ {Pick(S)}) = g[S \ {Pick(S)}]
  BY <1>1, SumComputed
<1>4. g[S] = f[Pick(S)] + g[S \ {Pick(S)}]
  BY <1>1 DEF Computes
<1>5. Pick(S) \in S
  BY DEF Pick
<1>6. QED
  BY <1>2, <1>3, <1>4, <1>5

\* The sum of integers is one, and any element may be taken out first.
LEMMA SumTakesOut ==
  ASSUME NEW f, NEW S, IsFiniteSet(S), \A x \in S : f[x] \in Int
  PROVE /\ SumFunctionOnSet(f, S) \in Int
        /\ \A x \in S : SumFunctionOnSet(f, S) = f[x] + SumFunctionOnSet(f, S \ {x})
<1> DEFINE Sum(T) == SumFunctionOnSet(f, T)
           OK(T) == Sum(T) \in Int /\ \A x \in T : Sum(T) = f[x] + Sum(T \ {x})
           A == {n \in Nat : \A T \in SUBSET S : Cardinality(T) <= n => OK(T)}
<1>0. \A T \in SUBSET S : IsFiniteSet(T) /\ Cardinality(T) \in Nat
  BY FS_Subset, FS_CardinalityType
<1>1. OK({})
  BY SumOfNothing
<1>2. 0 \in A
  <2> HIDE DEF OK
  <2>1. \A T \in SUBSET S : Cardinality(T) <= 0 => T = {}
    BY <1>0, FS_EmptySet
  <2>2. QED
    BY <1>1, <2>1
<1>3. ASSUME NEW n \in Nat, n \in A PROVE n + 1 \in A
  <2> SUFFICES ASSUME NEW T \in SUBSET S, Cardinality(T) <= n + 1, T # {} PROVE OK(T)
    <3> HIDE DEF OK
    <3> QED BY <1>1
  <2> DEFINE p == Pick(T)
  <2>1. p \in T /\ Sum(T) = f[p] + Sum(T \ {p})
    BY <1>0, SumStep
  <2> HIDE DEF p
  <2>2. ASSUME NEW x \in T PROVE OK(T \ {x})
    <3>1. Cardinality(T) \in Nat /\ Cardinality(T \ {x}) = Cardinality(T) - 1
      BY <1>0, OneSmaller
    <3>2. QED
      <4> HIDE DEF OK
      <4> QED BY <1>3, <3>1
  <2>3. Sum(T) \in Int
    <3> HIDE DEF Sum
    <3> QED BY <2>1, <2>2
  <2>4. ASSUME NEW x \in T, x # p PROVE Sum(T) = f[x] + Sum(T \ {x})
    <3>1. Sum(T \ {p}) = f[x] + Sum((T \ {p}) \ {x})
      BY <2>1, <2>2, <2>4
    <3>2. Sum(T \ {x}) = f[p] + Sum((T \ {x}) \ {p})
      BY <2>1, <2>2, <2>4
    <3>3. (T \ {p}) \ {x} = (T \ {x}) \ {p}
      OBVIOUS
    <3>4. Sum((T \ {p}) \ {x}) \in Int
      <4>1. OK(T \ {p}) /\ x \in T \ {p}
        BY <2>1, <2>2, <2>4
      <4>2. (T \ {p}) \ {x} \in SUBSET S /\ Cardinality((T \ {p}) \ {x}) <= n
        <5>1. Cardinality(T) \in Nat /\ Cardinality(T \ {p}) = Cardinality(T) - 1
          BY <1>0, <2>1, OneSmaller
        <5>2. Cardinality((T \ {p}) \ {x}) = Cardinality(T \ {p}) - 1
          BY <1>0, <4>1, OneSmaller
        <5>3. QED
          BY <5>1, <5>2
      <4>3. OK((T \ {p}) \ {x})
        <5> HIDE DEF OK
        <5> QED BY <1>3, <4>2
      <4>4. QED
        BY <4>3
    <3>5. f[x] \in Int /\ f[p] \in Int
      BY <2>1, <2>4
    <3>6. Sum(T \ {x}) = f[p] + Sum((T \ {p}) \ {x})
      BY <3>2, <3>3
    <3>7. QED
      <4> HIDE DEF Sum
      <4> QED BY <2>1, <3>1, <3>4, <3>5, <3>6
  <2>5. QED
    BY <2>1, <2>3, <2>4
<1>4. Nat \subseteq A
  <2> HIDE DEF A
  <2> QED BY <1>2, <1>3, NumbersByInduction
<1>5. OK(S)
  <2> HIDE DEF OK
  <2> QED BY <1>0, <1>4
<1>6. QED
  BY <1>5


\* The sum of integers with one more element.
LEMMA SumPutsIn ==
  ASSUME NEW f, NEW S, IsFiniteSet(S), NEW T \in SUBSET S, NEW x \in S, x \notin T,
         \A y \in S : f[y] \in Int
  PROVE SumFunctionOnSet(f, T) \in Int
        /\ SumFunctionOnSet(f, T \cup {x}) = f[x] + SumFunctionOnSet(f, T)
<1>1. IsFiniteSet(T) /\ IsFiniteSet(T \cup {x})
  BY FS_Subset, FS_AddElement
<1>2. SumFunctionOnSet(f, T \cup {x}) = f[x] + SumFunctionOnSet(f, (T \cup {x}) \ {x})
  BY <1>1, SumTakesOut
<1>3. (T \cup {x}) \ {x} = T
  OBVIOUS
<1>4. QED
  BY <1>1, <1>2, <1>3, SumTakesOut

\* Equal values have equal sums.
LEMMA SumSame ==
  ASSUME NEW f, NEW g, NEW S, IsFiniteSet(S), \A x \in S : f[x] = g[x]
  PROVE SumFunctionOnSet(f, S) = SumFunctionOnSet(g, S)
<1>1. PICK k : Computes(k, f, S)
  BY SumsExist
<1>2. \A T \in SUBSET S : T # {} => f[Pick(T)] = g[Pick(T)]
  BY DEF Pick
<1>3. Computes(k, g, S)
  BY <1>1, <1>2 DEF Computes
<1>4. QED
  BY <1>1, <1>3, SumComputed

\* The sum follows a change at one element.
LEMMA SumChangedAt ==
  ASSUME NEW f, NEW g, NEW S, IsFiniteSet(S), NEW x \in S,
         \A y \in S : f[y] \in Int /\ g[y] \in Int,
         \A y \in S \ {x} : f[y] = g[y]
  PROVE SumFunctionOnSet(g, S) = SumFunctionOnSet(f, S) - f[x] + g[x]
<1>1. IsFiniteSet(S \ {x})
  BY FS_RemoveElement
<1>2. SumFunctionOnSet(f, S \ {x}) = SumFunctionOnSet(g, S \ {x})
  BY <1>1, SumSame
<1>3. SumFunctionOnSet(f, S) = f[x] + SumFunctionOnSet(f, S \ {x})
  BY SumTakesOut
<1>4. SumFunctionOnSet(g, S) = g[x] + SumFunctionOnSet(g, S \ {x})
  BY SumTakesOut
<1>5. SumFunctionOnSet(g, S \ {x}) \in Int
  BY <1>1, SumTakesOut
<1>6. QED
  BY <1>2, <1>3, <1>4, <1>5

\* Smaller values have a smaller sum.
LEMMA SumMonotone ==
  ASSUME NEW f, NEW g, NEW S, IsFiniteSet(S),
         \A x \in S : f[x] \in Int /\ g[x] \in Int /\ f[x] <= g[x]
  PROVE SumFunctionOnSet(f, S) <= SumFunctionOnSet(g, S)
<1> DEFINE Good == {T \in SUBSET S : SumFunctionOnSet(f, T) <= SumFunctionOnSet(g, T)}
<1>1. {} \in Good
  BY SumOfNothing
<1>2. ASSUME NEW T \in SUBSET S, NEW x \in S, T \in Good, x \notin T
      PROVE T \cup {x} \in Good
  <2>1. SumFunctionOnSet(f, T) \in Int
        /\ SumFunctionOnSet(f, T \cup {x}) = f[x] + SumFunctionOnSet(f, T)
    BY <1>2, SumPutsIn
  <2>2. SumFunctionOnSet(g, T) \in Int
        /\ SumFunctionOnSet(g, T \cup {x}) = g[x] + SumFunctionOnSet(g, T)
    BY <1>2, SumPutsIn
  <2>3. SumFunctionOnSet(f, T) <= SumFunctionOnSet(g, T)
    BY <1>2
  <2>4. QED
    BY <2>1, <2>2, <2>3
<1>3. S \in Good
  <2> HIDE DEF Good
  <2> QED BY <1>1, <1>2, SubsetsByInduction
<1>4. QED
  BY <1>3

\* A sum of natural numbers is one.
LEMMA SumOfNats ==
  ASSUME NEW f, NEW S, IsFiniteSet(S), \A x \in S : f[x] \in Nat
  PROVE SumFunctionOnSet(f, S) \in Nat
<1> DEFINE Good == {T \in SUBSET S : SumFunctionOnSet(f, T) \in Nat}
<1>1. {} \in Good
  BY SumOfNothing
<1>2. ASSUME NEW T \in SUBSET S, NEW x \in S, T \in Good, x \notin T
      PROVE T \cup {x} \in Good
  <2>1. SumFunctionOnSet(f, T \cup {x}) = f[x] + SumFunctionOnSet(f, T)
    BY <1>2, SumPutsIn
  <2>2. SumFunctionOnSet(f, T) \in Nat
    BY <1>2
  <2>3. QED
    BY <2>1, <2>2
<1>3. S \in Good
  <2> HIDE DEF Good
  <2> QED BY <1>1, <1>2, SubsetsByInduction
<1>4. QED
  BY <1>3

\* The sum over a part is the sum of what counts for nothing outside it.
LEMMA SumOfPart ==
  ASSUME NEW f, NEW S, IsFiniteSet(S), NEW U \in SUBSET S, \A x \in U : f[x] \in Int,
         NEW g, \A x \in S : g[x] = IF x \in U THEN f[x] ELSE 0
  PROVE SumFunctionOnSet(f, U) = SumFunctionOnSet(g, S)
<1> DEFINE Good == {T \in SUBSET S : SumFunctionOnSet(f, T \cap U) = SumFunctionOnSet(g, T)}
<1>1. {} \in Good
  <2>1. {} \cap U = {}
    OBVIOUS
  <2>2. QED
    BY <2>1, SumOfNothing
<1>2. ASSUME NEW T \in SUBSET S, NEW x \in S, T \in Good, x \notin T
      PROVE T \cup {x} \in Good
  <2>1. SumFunctionOnSet(g, T) \in Int
        /\ SumFunctionOnSet(g, T \cup {x}) = g[x] + SumFunctionOnSet(g, T)
    <3>1. \A y \in S : g[y] \in Int
      OBVIOUS
    <3>2. QED
      BY <1>2, <3>1, SumPutsIn
  <2>2. CASE x \in U
    <3>1. IsFiniteSet(U) /\ T \cap U \in SUBSET U /\ x \notin T \cap U
      BY <1>2, FS_Subset
    <3>2. SumFunctionOnSet(f, (T \cap U) \cup {x}) = f[x] + SumFunctionOnSet(f, T \cap U)
      BY <2>2, <3>1, SumPutsIn
    <3>3. (T \cap U) \cup {x} = (T \cup {x}) \cap U
      BY <2>2
    <3>4. QED
      BY <1>2, <2>1, <2>2, <3>2, <3>3
  <2>3. CASE x \notin U
    <3>1. (T \cup {x}) \cap U = T \cap U
      BY <2>3
    <3>2. SumFunctionOnSet(g, T \cup {x}) = SumFunctionOnSet(g, T)
      BY <2>1, <2>3
    <3>3. QED
      BY <1>2, <3>1, <3>2
  <2>4. QED
    BY <2>2, <2>3
<1>3. S \in Good
  <2> HIDE DEF Good
  <2> QED BY <1>1, <1>2, SubsetsByInduction
<1>4. S \cap U = U
  OBVIOUS
<1>5. QED
  BY <1>3, <1>4

\* The sum of differences is the difference of the sums.
LEMMA SumOfDifferences ==
  ASSUME NEW f, NEW g, NEW h, NEW S, IsFiniteSet(S),
         \A x \in S : f[x] \in Int /\ g[x] \in Int /\ h[x] = f[x] - g[x]
  PROVE SumFunctionOnSet(h, S) = SumFunctionOnSet(f, S) - SumFunctionOnSet(g, S)
<1> DEFINE Good == {T \in SUBSET S : SumFunctionOnSet(h, T)
                                       = SumFunctionOnSet(f, T) - SumFunctionOnSet(g, T)}
<1>1. {} \in Good
  BY SumOfNothing
<1>2. ASSUME NEW T \in SUBSET S, NEW x \in S, T \in Good, x \notin T
      PROVE T \cup {x} \in Good
  <2>1. SumFunctionOnSet(f, T) \in Int
        /\ SumFunctionOnSet(f, T \cup {x}) = f[x] + SumFunctionOnSet(f, T)
    BY <1>2, SumPutsIn
  <2>2. SumFunctionOnSet(g, T) \in Int
        /\ SumFunctionOnSet(g, T \cup {x}) = g[x] + SumFunctionOnSet(g, T)
    BY <1>2, SumPutsIn
  <2>3. SumFunctionOnSet(h, T) \in Int
        /\ SumFunctionOnSet(h, T \cup {x}) = h[x] + SumFunctionOnSet(h, T)
    <3>1. \A y \in S : h[y] \in Int
      OBVIOUS
    <3>2. QED
      BY <1>2, <3>1, SumPutsIn
  <2>4. SumFunctionOnSet(h, T) = SumFunctionOnSet(f, T) - SumFunctionOnSet(g, T)
    BY <1>2
  <2>5. QED
    BY <2>1, <2>2, <2>3, <2>4
<1>3. S \in Good
  <2> HIDE DEF Good
  <2> QED BY <1>1, <1>2, SubsetsByInduction
<1>4. QED
  BY <1>3

\* A sum of numbers between -lo and hi is between -lo and hi times as many.
LEMMA SumBounds ==
  ASSUME NEW f, NEW S, IsFiniteSet(S), NEW lo \in Nat, NEW hi \in Nat,
         \A x \in S : f[x] \in Int /\ -lo <= f[x] /\ f[x] <= hi,
         NEW U \in SUBSET S
  PROVE SumFunctionOnSet(f, U) \in -(lo * Cardinality(S))..(hi * Cardinality(S))
<1> DEFINE Within(v, n) == v \in Int /\ -(lo * n) <= v /\ v <= hi * n
           Good == {T \in SUBSET S : Within(SumFunctionOnSet(f, T), Cardinality(T))}
<1>0. IsFiniteSet(U) /\ Cardinality(S) \in Nat /\ Cardinality(U) \in Nat
      /\ Cardinality(U) <= Cardinality(S)
  BY FS_Subset, FS_CardinalityType
<1>1. {} \in Good
  <2>1. Cardinality({}) = 0 /\ SumFunctionOnSet(f, {}) = 0
    BY FS_EmptySet, SumOfNothing
  <2>2. Within(0, 0)
    OBVIOUS
  <2>3. QED
    BY <2>1, <2>2
<1>2. ASSUME NEW v \in Int, NEW n \in Nat, Within(v, n),
             NEW w \in Int, -lo <= w, w <= hi
      PROVE Within(w + v, n + 1)
  <2>1. lo * (n + 1) = lo * n + lo /\ hi * (n + 1) = hi * n + hi
    OBVIOUS
  <2>2. lo * n \in Int /\ hi * n \in Int
    OBVIOUS
  <2>3. QED
    BY <1>2, <2>1, <2>2
<1>3. ASSUME NEW T \in SUBSET S, NEW x \in S, T \in Good, x \notin T
      PROVE T \cup {x} \in Good
  <2>1. IsFiniteSet(T) /\ Cardinality(T) \in Nat
    BY FS_Subset, FS_CardinalityType
  <2>2. Cardinality(T \cup {x}) = Cardinality(T) + 1
    BY <1>3, <2>1, FS_AddElement
  <2>3. /\ SumFunctionOnSet(f, T) \in Int
        /\ SumFunctionOnSet(f, T \cup {x}) = f[x] + SumFunctionOnSet(f, T)
    BY <1>3, SumPutsIn
  <2>4. Within(SumFunctionOnSet(f, T), Cardinality(T))
    BY <1>3
  <2>5. f[x] \in Int /\ -lo <= f[x] /\ f[x] <= hi
    OBVIOUS
  <2> HIDE DEF Within
  <2>6. Within(f[x] + SumFunctionOnSet(f, T), Cardinality(T) + 1)
    BY <1>2, <2>1, <2>3, <2>4, <2>5
  <2>7. QED
    BY <2>2, <2>3, <2>6
<1>4. U \in Good
  <2>1. \A T \in SUBSET U, x \in U : T \in Good /\ x \notin T => T \cup {x} \in Good
    BY <1>3
  <2> HIDE DEF Good
  <2> QED BY <1>0, <1>1, <2>1, SubsetsByInduction
<1>5. Within(SumFunctionOnSet(f, U), Cardinality(U))
  BY <1>4
<1>6. ASSUME NEW k \in Nat, NEW n \in Nat, NEW m \in Nat, n <= m
      PROVE k * n \in Int /\ k * m \in Int /\ k * n <= k * m
  <2>1. PICK d \in Nat : m = n + d
    BY <1>6, m - n \in Nat
  <2>2. k * m = k * n + k * d /\ k * d \in Nat /\ k * n \in Nat
    BY <2>1
  <2>3. QED
    BY <2>2
<1>7. QED
  BY <1>0, <1>5, <1>6

=============================================================================
