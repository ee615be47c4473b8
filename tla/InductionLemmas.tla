----------------------------- MODULE InductionLemmas ----------------------------
(***************************************************************************)
(* Induction over intervals and over finite sets, stated about sets so     *)
(* that no theorem takes an operator as a parameter, and what follows for  *)
(* the sums of the community module Functions.                             *)
(***************************************************************************)
EXTENDS Integers, Functions, FiniteSetTheorems, TLAPS

\* A set that holds of all smaller subsets whenever of a set holds of them all:
\* a minimal counterexample exists and would have none below it.
LEMMA SubsetInduction ==
  ASSUME NEW T, IsFiniteSet(T), NEW Good,
         \A S \in SUBSET T : (\A U \in SUBSET S : U # S => U \in Good) => S \in Good
  PROVE  SUBSET T \subseteq Good
<1> DEFINE Bad == {S \in SUBSET T : S \notin Good}
<1>1. SUFFICES ASSUME Bad # {} PROVE FALSE
  OBVIOUS
<1>2. IsWellFoundedOn(StrictSubsetOrdering(T), SUBSET T)
  BY FS_StrictSubsetOrderingWellFounded, FS_FiniteSubsetsOfFinite
<1>3. PICK S \in Bad : \A U \in Bad : <<U, S>> \notin StrictSubsetOrdering(T)
  <2> HIDE DEF Bad
  <2>1. Bad \subseteq SUBSET T
    BY DEF Bad
  <2> QED BY <1>1, <1>2, <2>1, WFMin
<1>4. ASSUME NEW U \in SUBSET S, U # S PROVE U \in Good
  <2>1. <<U, S>> \in StrictSubsetOrdering(T)
    BY <1>4 DEF StrictSubsetOrdering
  <2> QED BY <1>3, <2>1
<1> QED BY <1>4

\* What holds of 0, and of k when it holds of k - 1, holds of 0 .. N.
LEMMA IntervalInduction ==
  ASSUME NEW N \in Nat, NEW S, 0 \in S, \A k \in 1 .. N : k - 1 \in S => k \in S
  PROVE  0 .. N \subseteq S
<1> DEFINE Good == {K \in SUBSET (0 .. N) : \A n \in 0 .. N : K = 0 .. n => n \in S}
<1>1. IsFiniteSet(0 .. N)
  BY FS_Interval
<1>2. ASSUME NEW K \in SUBSET (0 .. N), \A U \in SUBSET K : U # K => U \in Good
      PROVE  K \in Good
  <2> SUFFICES ASSUME NEW n \in 0 .. N, K = 0 .. n PROVE n \in S
    OBVIOUS
  <2>1. CASE n = 0
    BY <2>1
  <2>2. CASE n # 0
    <3>1. n \in 1 .. N /\ n - 1 \in 0 .. N /\ n \in K /\ n \notin 0 .. n - 1
      BY <2>2
    <3>2. 0 .. n - 1 \in SUBSET K
      BY <3>1
    <3>3. 0 .. n - 1 \in Good
      BY <1>2, <3>1, <3>2
    <3> QED BY <3>1, <3>3
  <2> QED BY <2>1, <2>2
<1>3. SUBSET (0 .. N) \subseteq Good
  <2> DEFINE T == 0 .. N
  <2>1. IsFiniteSet(T) /\ \A K \in SUBSET T : (\A U \in SUBSET K : U # K => U \in Good) => K \in Good
    BY <1>1, <1>2
  <2> HIDE DEF Good, T
  <2>2. SUBSET T \subseteq Good
    BY <2>1, SubsetInduction
  <2> QED BY <2>2 DEF T
<1>4. ASSUME NEW n \in 0 .. N PROVE n \in S
  <2>1. 0 .. n \in SUBSET (0 .. N)
    OBVIOUS
  <2> QED BY <1>3, <2>1
<1> QED BY <1>4

\* The same from a on.
LEMMA UpwardInduction ==
  ASSUME NEW a \in Nat, NEW b \in Nat, NEW S,
         a \in S, \A k \in a + 1 .. b : k - 1 \in S => k \in S
  PROVE  a .. b \subseteq S
<1>1. CASE a > b
  BY <1>1
<1>2. CASE a <= b
  <2> DEFINE Shifted == {i \in 0 .. b - a : a + i \in S}
  <2>1. b - a \in Nat
    BY <1>2
  <2>2. 0 \in Shifted
    BY <2>1
  <2>3. ASSUME NEW i \in 1 .. b - a, i - 1 \in Shifted PROVE i \in Shifted
    <3>1. a + i \in a + 1 .. b /\ (a + i) - 1 = a + (i - 1) /\ i \in 0 .. b - a
      OBVIOUS
    <3> QED BY <2>3, <3>1
  <2>4. 0 .. b - a \subseteq Shifted
    <3> HIDE DEF Shifted
    <3> QED BY <2>1, <2>2, <2>3, IntervalInduction
  <2>5. ASSUME NEW k \in a .. b PROVE k \in S
    <3>1. k - a \in 0 .. b - a /\ a + (k - a) = k
      OBVIOUS
    <3> QED BY <2>4, <3>1
  <2> QED BY <2>5
<1> QED BY <1>1, <1>2
--------------------------------------------------------------------------------
(* Sums over finite sets *)

Picked(S) == CHOOSE x \in S : TRUE
SumStep(f, sums, S) == IF S = {} THEN 0 ELSE f[Picked(S)] + sums[S \ {Picked(S)}]

\* The recursive function by which the sum is defined exists.
LEMMA SumsExist ==
  ASSUME NEW f, NEW T, IsFiniteSet(T)
  PROVE  \E sums : sums = [S \in SUBSET T |-> SumStep(f, sums, S)]
<1> DEFINE N == Cardinality(T)
           Good(sums, n) == \A S \in SUBSET T : Cardinality(S) <= n => sums[S] = SumStep(f, sums, S)
           Reached == {n \in 0 .. N : \E sums : sums = [S \in SUBSET T |-> sums[S]] /\ Good(sums, n)}
<1>1. N \in Nat /\ \A S \in SUBSET T : IsFiniteSet(S) /\ Cardinality(S) \in 0 .. N
  BY FS_Subset, FS_CardinalityType
<1>2. \A S \in SUBSET T : S # {} => Picked(S) \in S /\ S \ {Picked(S)} \in SUBSET T
                                  /\ Cardinality(S \ {Picked(S)}) = Cardinality(S) - 1
  BY <1>1, FS_RemoveElement DEF Picked
<1>3. \A S \in SUBSET T : Cardinality(S) = 0 <=> S = {}
  BY <1>1, FS_EmptySet
<1>4. 0 \in Reached
  <2> DEFINE zero == [S \in SUBSET T |-> 0]
  <2>1. zero = [S \in SUBSET T |-> zero[S]] /\ Good(zero, 0)
    BY <1>1, <1>3 DEF SumStep
  <2> HIDE DEF zero, Good
  <2>2. \E sums : sums = [S \in SUBSET T |-> sums[S]] /\ Good(sums, 0)
    BY <2>1, Zenon
  <2> QED BY <1>1, <2>2
<1>5. ASSUME NEW n \in 1 .. N, n - 1 \in Reached PROVE n \in Reached
  <2>1. PICK old : old = [S \in SUBSET T |-> old[S]] /\ Good(old, n - 1)
    BY <1>5
  <2> DEFINE new == [S \in SUBSET T |-> IF Cardinality(S) <= n - 1 THEN old[S] ELSE SumStep(f, old, S)]
  <2>2. new = [S \in SUBSET T |-> new[S]]
    OBVIOUS
  <2>3. ASSUME NEW S \in SUBSET T, Cardinality(S) <= n PROVE new[S] = SumStep(f, new, S)
    <3>1. new[S] = SumStep(f, old, S)
      BY <2>1
    <3>2. S # {} => new[S \ {Picked(S)}] = old[S \ {Picked(S)}]
      BY <1>1, <1>2, <2>3
    <3> HIDE DEF new
    <3> QED BY <3>1, <3>2 DEF SumStep
  <2>4. Good(new, n)
    BY <2>3
  <2> HIDE DEF new, Good
  <2>5. \E sums : sums = [S \in SUBSET T |-> sums[S]] /\ Good(sums, n)
    BY <2>2, <2>4, Zenon
  <2> QED BY <1>1, <2>5
<1>6. N \in Reached
  <2> HIDE DEF Reached
  <2> QED BY <1>1, <1>4, <1>5, IntervalInduction
<1>7. PICK sums : sums = [S \in SUBSET T |-> sums[S]] /\ Good(sums, N)
  BY <1>6
<1>8. ASSUME NEW S \in SUBSET T PROVE sums[S] = SumStep(f, sums, S)
  <2>1. Cardinality(S) <= N
    BY <1>1
  <2> QED BY <1>7, <2>1
<1>9. sums = [S \in SUBSET T |-> SumStep(f, sums, S)]
  BY <1>7, <1>8
<1> QED BY <1>9

\* The sum of a set is that of one element and of the others.
LEMMA SumRecursion ==
  ASSUME NEW f, NEW T, IsFiniteSet(T)
  PROVE  SumFunctionOnSet(f, T) =
           IF T = {} THEN 0 ELSE f[Picked(T)] + SumFunctionOnSet(f, T \ {Picked(T)})
<1> DEFINE Sums(S) == CHOOSE sums : sums = [U \in SUBSET S |-> SumStep(f, sums, U)]
<1>1. ASSUME NEW S PROVE SumFunctionOnSet(f, S) = Sums(S)[S]
  BY DEF SumFunctionOnSet, FoldFunctionOnSet, MapThenFoldSet, SumStep, Picked
<1>2. ASSUME NEW S, IsFiniteSet(S)
      PROVE  Sums(S) = [U \in SUBSET S |-> SumStep(f, Sums(S), U)]
  BY <1>2, SumsExist
<1> HIDE DEF Sums
<1>3. CASE T = {}
  <2>1. Sums(T)[T] = SumStep(f, Sums(T), T)
    BY <1>2
  <2> QED BY <1>1, <1>3, <2>1 DEF SumStep
<1>4. CASE T # {}
  <2> DEFINE R == T \ {Picked(T)}
             small == Sums(R)
             large == Sums(T)
             Same == {U \in SUBSET R : small[U] = large[U]}
  <2>1. IsFiniteSet(R) /\ R \in SUBSET T
    BY FS_Subset
  <2>2. /\ \A U \in SUBSET R : small[U] = SumStep(f, small, U)
        /\ \A U \in SUBSET T : large[U] = SumStep(f, large, U)
    <3>1. small = [U \in SUBSET R |-> SumStep(f, small, U)]
      BY <1>2, <2>1
    <3>2. large = [U \in SUBSET T |-> SumStep(f, large, U)]
      BY <1>2
    <3> HIDE DEF small, large
    <3> QED BY <3>1, <3>2
  <2> HIDE DEF small, large
  <2>3. ASSUME NEW S \in SUBSET R, \A U \in SUBSET S : U # S => U \in Same
        PROVE  S \in Same
    <3>1. S # {} => S \ {Picked(S)} \in Same
      BY <2>3 DEF Picked
    <3>2. S # {} => small[S \ {Picked(S)}] = large[S \ {Picked(S)}]
      BY <3>1
    <3>3. small[S] = SumStep(f, small, S) /\ large[S] = SumStep(f, large, S)
      BY <2>1, <2>2
    <3>4. small[S] = large[S]
      BY <3>2, <3>3 DEF SumStep
    <3> QED BY <3>4
  <2>4. SUBSET R \subseteq Same
    <3> HIDE DEF Same, R
    <3> QED BY <2>1, <2>3, SubsetInduction
  <2>5. small[R] = large[R]
    BY <2>4
  <2>6. large[T] = f[Picked(T)] + large[R]
    BY <1>4, <2>2 DEF SumStep
  <2>7. SumFunctionOnSet(f, T) = large[T] /\ SumFunctionOnSet(f, R) = small[R]
    BY <1>1 DEF small, large
  <2> HIDE DEF R
  <2>8. SumFunctionOnSet(f, T) = f[Picked(T)] + SumFunctionOnSet(f, R)
    BY <2>5, <2>6, <2>7
  <2> QED BY <1>4, <2>8 DEF R
<1> QED BY <1>3, <1>4

LEMMA SumType ==
  ASSUME NEW D, NEW f \in [D -> Nat], NEW T \in SUBSET D, IsFiniteSet(T)
  PROVE  \A S \in SUBSET T : SumFunctionOnSet(f, S) \in Nat
<1> DEFINE Good == {S \in SUBSET T : SumFunctionOnSet(f, S) \in Nat}
<1>1. ASSUME NEW S \in SUBSET T, \A U \in SUBSET S : U # S => U \in Good PROVE S \in Good
  <2>1. IsFiniteSet(S)
    BY FS_Subset
  <2>2. S # {} => Picked(S) \in S /\ f[Picked(S)] \in Nat /\ SumFunctionOnSet(f, S \ {Picked(S)}) \in Nat
    <3>1. S # {} => Picked(S) \in S
      BY DEF Picked
    <3>2. S # {} => S \ {Picked(S)} \in Good
      BY <1>1, <3>1
    <3> QED BY <3>1, <3>2
  <2>3. SumFunctionOnSet(f, S) = IF S = {} THEN 0 ELSE f[Picked(S)] + SumFunctionOnSet(f, S \ {Picked(S)})
    BY <2>1, SumRecursion
  <2>4. SumFunctionOnSet(f, S) \in Nat
    BY <2>2, <2>3
  <2> QED BY <2>4
<1>2. SUBSET T \subseteq Good
  <2> HIDE DEF Good
  <2> QED BY <1>1, SubsetInduction
<1> QED BY <1>2

\* Picked element may be taken out first.
LEMMA SumWithout ==
  ASSUME NEW D, NEW f \in [D -> Nat], NEW T \in SUBSET D, IsFiniteSet(T)
  PROVE  \A x \in T : SumFunctionOnSet(f, T) = f[x] + SumFunctionOnSet(f, T \ {x})
<1> DEFINE sum(S) == SumFunctionOnSet(f, S)
           Good == {S \in SUBSET T : \A x \in S : sum(S) = f[x] + sum(S \ {x})}
<1>1. \A S \in SUBSET T : sum(S) \in Nat
  BY SumType
<1>2. \A S \in SUBSET T : S # {} => Picked(S) \in S /\ sum(S) = f[Picked(S)] + sum(S \ {Picked(S)})
  BY FS_Subset, SumRecursion DEF Picked
<1> HIDE DEF sum
<1>3. ASSUME NEW S \in SUBSET T, \A U \in SUBSET S : U # S => U \in Good PROVE S \in Good
  <2> SUFFICES ASSUME NEW x \in S PROVE sum(S) = f[x] + sum(S \ {x})
    OBVIOUS
  <2> DEFINE c == Picked(S)
             both == S \ {c, x}
  <2>1. c \in S /\ sum(S) = f[c] + sum(S \ {c})
    BY <1>2
  <2> HIDE DEF c
  <2>2. CASE x = c
    BY <2>1, <2>2
  <2>3. CASE x # c
    <3>1. S \ {c} \in Good /\ S \ {x} \in Good
      BY <1>3, <2>1
    <3>2. (S \ {c}) \ {x} = both /\ (S \ {x}) \ {c} = both /\ x \in S \ {c} /\ c \in S \ {x}
      BY <2>1, <2>3
    <3>3. sum(S \ {c}) = f[x] + sum(both)
      BY <3>1, <3>2
    <3>4. sum(S \ {x}) = f[c] + sum(both)
      BY <3>1, <3>2
    <3>5. f[x] \in Nat /\ f[c] \in Nat /\ sum(both) \in Nat
      BY <1>1, <2>1
    <3> HIDE DEF both
    <3> QED BY <2>1, <3>3, <3>4, <3>5
  <2> QED BY <2>2, <2>3
<1>4. SUBSET T \subseteq Good
  <2> HIDE DEF Good
  <2> QED BY <1>3, SubsetInduction
<1> QED BY <1>4 DEF sum

\* A subset has no larger sum.
LEMMA SumMonotone ==
  ASSUME NEW D, NEW f \in [D -> Nat], NEW T \in SUBSET D, IsFiniteSet(T)
  PROVE  \A S \in SUBSET T : SumFunctionOnSet(f, S) <= SumFunctionOnSet(f, T)
<1> DEFINE sum(S) == SumFunctionOnSet(f, S)
           Good == {U \in SUBSET T : \A S \in SUBSET U : sum(S) <= sum(U)}
<1>1. \A S \in SUBSET T : sum(S) \in Nat
  BY SumType
<1>2. ASSUME NEW U \in SUBSET T PROVE \A x \in U : sum(U) = f[x] + sum(U \ {x})
  <2>1. IsFiniteSet(U) /\ U \in SUBSET D
    BY FS_Subset
  <2> QED BY <2>1, SumWithout
<1> HIDE DEF sum
<1>3. ASSUME NEW U \in SUBSET T, \A V \in SUBSET U : V # U => V \in Good PROVE U \in Good
  <2> SUFFICES ASSUME NEW S \in SUBSET U, S # U PROVE sum(S) <= sum(U)
    BY <1>1
  <2>1. PICK x \in U : x \notin S
    OBVIOUS
  <2>2. U \ {x} \in Good /\ S \in SUBSET (U \ {x})
    BY <1>3, <2>1
  <2>3. sum(S) <= sum(U \ {x})
    BY <2>2
  <2>4. f[x] \in Nat /\ sum(U \ {x}) \in Nat /\ sum(S) \in Nat /\ sum(U) = f[x] + sum(U \ {x})
    BY <1>1, <1>2, <2>1
  <2> QED BY <2>3, <2>4
<1>4. SUBSET T \subseteq Good
  <2> HIDE DEF Good
  <2> QED BY <1>3, SubsetInduction
<1> QED BY <1>4 DEF sum

\* A function that is one larger on a set has a sum larger by its cardinality.
LEMMA SumIncrement ==
  ASSUME NEW D, IsFiniteSet(D), NEW f \in [D -> Nat], NEW g \in [D -> Nat], NEW A \in SUBSET D,
         \A x \in D : g[x] = IF x \in A THEN f[x] + 1 ELSE f[x]
  PROVE  SumFunctionOnSet(g, D) = SumFunctionOnSet(f, D) + Cardinality(A)
<1> DEFINE before(S) == SumFunctionOnSet(f, S)
           after(S) == SumFunctionOnSet(g, S)
           Good == {S \in SUBSET D : after(S) = before(S) + Cardinality(A \cap S)}
<1>1. \A S \in SUBSET D : before(S) \in Nat /\ after(S) \in Nat
  BY SumType
<1>2. \A S \in SUBSET D : /\ S = {} => before(S) = 0 /\ after(S) = 0
                          /\ S # {} => /\ Picked(S) \in S
                                       /\ before(S) = f[Picked(S)] + before(S \ {Picked(S)})
                                       /\ after(S) = g[Picked(S)] + after(S \ {Picked(S)})
  BY FS_Subset, SumRecursion DEF Picked
<1>3. \A S \in SUBSET D : IsFiniteSet(A \cap S) /\ Cardinality(A \cap S) \in Nat
  BY FS_Subset, FS_CardinalityType
<1> HIDE DEF before, after
<1>4. ASSUME NEW S \in SUBSET D, \A U \in SUBSET S : U # S => U \in Good PROVE S \in Good
  <2>1. CASE S = {}
    <3>1. A \cap S = {} /\ Cardinality(A \cap S) = 0
      BY <2>1, FS_EmptySet
    <3>2. before(S) = 0 /\ after(S) = 0
      BY <1>2, <2>1
    <3> QED BY <3>1, <3>2
  <2>2. CASE S # {}
    <3> DEFINE c == Picked(S)
               R == S \ {c}
    <3>1. c \in S /\ before(S) = f[c] + before(R) /\ after(S) = g[c] + after(R)
      BY <1>2, <2>2
    <3> HIDE DEF c
    <3>2. R \in Good
      BY <1>4, <3>1
    <3>3. Cardinality(A \cap S) = Cardinality(A \cap R) + (IF c \in A THEN 1 ELSE 0)
      <4>1. CASE c \in A
        <5>1. (A \cap S) \ {c} = A \cap R /\ c \in A \cap S
          BY <3>1, <4>1
        <5> HIDE DEF R
        <5>2. IsFiniteSet(A \cap S) /\ Cardinality(A \cap S) \in Nat
          BY <1>3
        <5>3. Cardinality((A \cap S) \ {c}) = Cardinality(A \cap S) - 1
          <6> DEFINE K == A \cap S
          <6>1. IsFiniteSet(K) /\ c \in K
            BY <5>1, <5>2
          <6> HIDE DEF K
          <6>2. Cardinality(K \ {c}) = Cardinality(K) - 1
            BY <6>1, FS_RemoveElement
          <6> QED BY <6>2 DEF K
        <5> QED BY <4>1, <5>1, <5>2, <5>3
      <4>2. CASE c \notin A
        <5>1. A \cap S = A \cap R
          BY <3>1, <4>2
        <5>2. Cardinality(A \cap R) \in Nat
          BY <1>3
        <5> QED BY <4>2, <5>1, <5>2
      <4> QED BY <4>1, <4>2
    <3>4. g[c] = (IF c \in A THEN f[c] + 1 ELSE f[c]) /\ f[c] \in Nat
      BY <3>1
    <3>5. /\ after(R) = before(R) + Cardinality(A \cap R)
          /\ before(R) \in Nat /\ after(R) \in Nat /\ Cardinality(A \cap R) \in Nat
      BY <1>1, <1>3, <3>2
    <3> HIDE DEF R
    <3>6. after(S) = before(S) + Cardinality(A \cap S)
      BY <3>1, <3>3, <3>4, <3>5
    <3> QED BY <3>6
  <2> QED BY <2>1, <2>2
<1>5. SUBSET D \subseteq Good
  <2> HIDE DEF Good
  <2> QED BY <1>4, SubsetInduction
<1>6. A \cap D = A /\ D \in Good
  BY <1>5
<1> QED BY <1>6 DEF before, after

LEMMA SumOfZeros ==
  ASSUME NEW D, IsFiniteSet(D), NEW f \in [D -> Nat], \A x \in D : f[x] = 0
  PROVE  SumFunctionOnSet(f, D) = 0
<1> DEFINE Good == {S \in SUBSET D : SumFunctionOnSet(f, S) = 0}
<1>1. ASSUME NEW S \in SUBSET D, \A U \in SUBSET S : U # S => U \in Good PROVE S \in Good
  <2>1. S # {} => Picked(S) \in S
    BY DEF Picked
  <2>2. S # {} => f[Picked(S)] = 0 /\ SumFunctionOnSet(f, S \ {Picked(S)}) = 0
    BY <1>1, <2>1
  <2>3. IsFiniteSet(S)
    BY FS_Subset
  <2>4. SumFunctionOnSet(f, S) = IF S = {} THEN 0 ELSE f[Picked(S)] + SumFunctionOnSet(f, S \ {Picked(S)})
    BY <2>3, SumRecursion
  <2>5. SumFunctionOnSet(f, S) = 0
    BY <2>2, <2>4
  <2> QED BY <2>5
<1>2. SUBSET D \subseteq Good
  <2> HIDE DEF Good
  <2> QED BY <1>1, SubsetInduction
<1> QED BY <1>2
================================================================================
