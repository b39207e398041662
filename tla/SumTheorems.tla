----------------------------- MODULE SumTheorems -----------------------------
(***************************************************************************)
(* What the proofs need to know about sums over finite sets.               *)
(*                                                                         *)
(* The specifications add up balances, escrows and pools with              *)
(* SumFunctionOnSet(f, S) of the community modules, which iterates over    *)
(* the subsets of S.  This module shows that the iteration is well defined *)
(* for a finite S and derives the laws of finite sums.  Inductions are     *)
(* stated over sets instead of predicates: what is to be shown is that a   *)
(* set C of numbers, or of subsets of S, has all of them.                  *)
(* Its last parts are about the paths of a tree of numbered blocks and     *)
(* about loops: recursive functions of a number of rounds.                 *)
(***************************************************************************)
EXTENDS Integers, Sequences, FiniteSets, FiniteSetsExt, FiniteSetTheorems, WellFoundedInduction, TLAPS

\* A set of natural numbers has a least element.
LEMMA LeastNat ==
  ASSUME NEW T, T \subseteq Nat, T # {}
  PROVE  \E x \in T : \A y \in T : x <= y
<1> DEFINE R == OpToRel(<, Nat)
<1>1. IsWellFoundedOn(R, Nat)
  BY NatLessThanWellFounded
<1>3. \A x, y \in Nat : <<y, x>> \in R <=> y < x
  BY DEF OpToRel
<1> HIDE DEF R
<1>2. PICK x \in T : \A y \in T : ~(<<y, x>> \in R)
  BY <1>1, WFMin
<1>4. ASSUME NEW y \in T PROVE x <= y
  <2>1. x \in Nat /\ y \in Nat
    OBVIOUS
  <2>2. ~(y < x)
    BY <2>1, <1>2, <1>3
  <2> QED
    BY <2>1, <2>2
<1> QED
  BY <1>4

\* Induction over the natural numbers, in terms of the set T of those that have
\* the property.
LEMMA NatSetInduction ==
  ASSUME NEW T, \A n \in Nat : (\A m \in Nat : m < n => m \in T) => n \in T
  PROVE  Nat \subseteq T
<1> SUFFICES ASSUME Nat \ T # {} PROVE FALSE
  OBVIOUS
<1>1. PICK x \in Nat \ T : \A y \in Nat \ T : x <= y
  BY LeastNat
<1>3. \A m \in Nat : m < x => m \in T
  BY <1>1
<1> QED
  BY <1>3

\* Induction over the subsets of a finite set, in terms of the set C of those that
\* have the property.
LEMMA FiniteSetInduction ==
  ASSUME NEW S, IsFiniteSet(S), NEW C,
         \A s \in SUBSET S : (\A x \in s : s \ {x} \in C) => s \in C
  PROVE  S \in C
<1> DEFINE T == {n \in Nat : \A s \in SUBSET S : Cardinality(s) = n => s \in C}
<1>2. \A n \in Nat : (\A m \in Nat : m < n => m \in T) => n \in T
  <2> SUFFICES ASSUME NEW n \in Nat, \A m \in Nat : m < n => m \in T, 
                      NEW s \in SUBSET S, Cardinality(s) = n
               PROVE  s \in C
    OBVIOUS
  <2>1. ASSUME NEW x \in s PROVE s \ {x} \in C
    <3>1. IsFiniteSet(s)
      BY FS_Subset
    <3>2. Cardinality(s \ {x}) = n - 1
      BY <3>1, FS_RemoveElement
    <3>3. n - 1 \in Nat
      BY <3>1, <2>1, FS_EmptySet
    <3>4. n - 1 \in T
      BY <3>3
    <3> QED
      BY <3>2, <3>4
  <2> QED
    BY <2>1
<1>3. Nat \subseteq T
  <2> HIDE DEF T
  <2> QED BY <1>2, NatSetInduction
<1> QED
  BY <1>3, FS_CardinalityType

\* The element by which the sum over s goes on, and the function it iterates.
AnyOf(s) == CHOOSE x \in s : TRUE
SumIteration(f, S) ==
  CHOOSE g : g = [s \in SUBSET S |-> IF s = {} THEN 0 ELSE f[AnyOf(s)] + g[s \ {AnyOf(s)}]]

\* SumFunctionOnSet is that iteration.
LEMMA SumIter == ASSUME NEW f, NEW S PROVE SumFunctionOnSet(f, S) = SumIteration(f, S)[S]
BY DEF SumFunctionOnSet, FoldFunctionOnSet, MapThenFoldSet, SumIteration, AnyOf

\* The subsets on which the iteration is known to be defined.
SmallSubsets(S, n) == {s \in SUBSET S : Cardinality(s) < n}

\* The iteration is well defined: it satisfies its own equation on all subsets of
\* a finite set.
LEMMA IterAt ==
  ASSUME NEW f, NEW S, IsFiniteSet(S)
  PROVE  \A s : s \subseteq S =>
           /\ s = {} => SumIteration(f, S)[s] = 0
           /\ s # {} => SumIteration(f, S)[s] = f[AnyOf(s)] + SumIteration(f, S)[s \ {AnyOf(s)}]
<1> DEFINE Body(g, s) == IF s = {} THEN 0 ELSE f[AnyOf(s)] + g[s \ {AnyOf(s)}]
           T == {n \in Nat : \E g : g = [s \in SmallSubsets(S, n) |-> Body(g, s)]}
<1>0. ASSUME NEW s \in SUBSET S, s # {}
      PROVE  /\ s \ {AnyOf(s)} \in SUBSET S
             /\ Cardinality(s \ {AnyOf(s)}) < Cardinality(s)
             /\ Cardinality(s) \in Nat /\ Cardinality(s \ {AnyOf(s)}) \in Nat
  <2>1. IsFiniteSet(s) /\ AnyOf(s) \in s
    BY <1>0, FS_Subset DEF AnyOf
  <2>2. Cardinality(s \ {AnyOf(s)}) = Cardinality(s) - 1
    BY <2>1, FS_RemoveElement
  <2>3. Cardinality(s) \in Nat /\ Cardinality(s \ {AnyOf(s)}) \in Nat
    BY <2>1, FS_RemoveElement, FS_CardinalityType
  <2> QED
    BY <2>2, <2>3
<1>1. \A n \in Nat : (\A m \in Nat : m < n => m \in T) => n \in T
  <2> SUFFICES ASSUME NEW n \in Nat, \A m \in Nat : m < n => m \in T
               PROVE  n \in T
    OBVIOUS
  <2>1. CASE n = 0
    <3>1. SmallSubsets(S, 0) = {}
      BY FS_Subset, FS_CardinalityType DEF SmallSubsets
    <3>2. <<>> = [s \in SmallSubsets(S, 0) |-> Body(<<>>, s)]
      BY <3>1
    <3> QED
      BY <3>2, <2>1
  <2>2. CASE n # 0
    <3>1. n - 1 \in T
      <4>1. n - 1 \in Nat /\ n - 1 < n
        BY <2>2
      <4> HIDE DEF T
      <4> QED BY <4>1
    <3>2. PICK g : g = [s \in SmallSubsets(S, n - 1) |-> Body(g, s)]
      BY <3>1
    <3> DEFINE h == [s \in SmallSubsets(S, n) |-> Body(g, s)]
    <3>3. ASSUME NEW s \in SmallSubsets(S, n - 1) PROVE s \in SmallSubsets(S, n) /\ h[s] = g[s]
      <4>0. s \in SUBSET S /\ Cardinality(s) < n - 1
        BY DEF SmallSubsets
      <4>1. IsFiniteSet(s) /\ Cardinality(s) \in Nat /\ Cardinality(s) < n - 1
        BY <4>0, FS_Subset, FS_CardinalityType DEF SmallSubsets
      <4>2. s \in SmallSubsets(S, n)
        BY <4>1 DEF SmallSubsets
      <4>3. g[s] = Body(g, s)
        BY <3>2
      <4> QED
        BY <4>2, <4>3
    <3>4. ASSUME NEW s \in SmallSubsets(S, n) PROVE Body(h, s) = Body(g, s)
      <4>1. CASE s = {}
        BY <4>1
      <4>2. CASE s # {}
        <5>1. s \ {AnyOf(s)} \in SmallSubsets(S, n - 1)
          BY <4>2, <3>4, <1>0 DEF SmallSubsets
        <5>2. h[s \ {AnyOf(s)}] = g[s \ {AnyOf(s)}]
          BY <5>1, <3>3
        <5> QED
          BY <5>2
      <4> QED
        BY <4>1, <4>2
    <3>5. h = [s \in SmallSubsets(S, n) |-> Body(h, s)]
      BY <3>4
    <3> QED
      BY <3>5
  <2> QED
    BY <2>1, <2>2
<1>2. Cardinality(S) + 1 \in T
  <2> HIDE DEF T
  <2>1. Nat \subseteq T
    BY <1>1, NatSetInduction
  <2> QED BY <2>1, FS_CardinalityType
<1>3. SmallSubsets(S, Cardinality(S) + 1) = SUBSET S
  BY FS_Subset, FS_CardinalityType DEF SmallSubsets
<1>4. \E g : g = [s \in SUBSET S |-> Body(g, s)]
  BY <1>2, <1>3
<1> DEFINE F == SumIteration(f, S)
<1>5. F = [s \in SUBSET S |-> Body(F, s)]
  BY <1>4 DEF SumIteration
<1> HIDE DEF F
<1>6. \A s \in SUBSET S : F[s] = Body(F, s)
  BY <1>5
<1> QED
  BY <1>6 DEF F


\* f has integer values on S.
IntValued(f, S) == \A x \in S : f[x] \in Int

\* The iteration over a subset is that over the set.
LEMMA IterAgrees ==
  ASSUME NEW f, NEW S, IsFiniteSet(S), NEW T \in SUBSET S
  PROVE  SumIteration(f, T)[T] = SumIteration(f, S)[T]
<1> DEFINE C == {s \in SUBSET T : SumIteration(f, T)[s] = SumIteration(f, S)[s]}
<1>0. IsFiniteSet(T)
  BY FS_Subset
<1>1. ASSUME NEW s \in SUBSET T, \A x \in s : s \ {x} \in C
      PROVE  s \in C
  <2>0. s \in SUBSET S
    OBVIOUS
  <2>1. CASE s = {}
    <3>1. SumIteration(f, T)[s] = 0 /\ SumIteration(f, S)[s] = 0
      BY <1>0, <2>0, <2>1, IterAt
    <3> QED
      BY <3>1
  <2>2. CASE s # {}
    <3>1. AnyOf(s) \in s
      BY <2>2 DEF AnyOf
    <3>2. SumIteration(f, T)[s \ {AnyOf(s)}] = SumIteration(f, S)[s \ {AnyOf(s)}]
      BY <3>1, <1>1
    <3>3. SumIteration(f, T)[s] = f[AnyOf(s)] + SumIteration(f, T)[s \ {AnyOf(s)}]
      BY <1>0, <2>2, IterAt
    <3>4. SumIteration(f, S)[s] = f[AnyOf(s)] + SumIteration(f, S)[s \ {AnyOf(s)}]
      BY <2>0, <2>2, IterAt
    <3> QED
      BY <3>2, <3>3, <3>4
  <2> QED
    BY <2>1, <2>2
<1>2. T \in C
  <2> HIDE DEF C
  <2> QED
    BY <1>0, <1>1, FiniteSetInduction
<1> QED
  BY <1>2

\* The sum over no elements.
LEMMA SumEmpty == ASSUME NEW f PROVE SumFunctionOnSet(f, {}) = 0
BY FS_EmptySet, IterAt, SumIter

\* The sum over some elements, one of them taken out.
LEMMA SumStep ==
  ASSUME NEW f, NEW S, IsFiniteSet(S), S # {}
  PROVE  AnyOf(S) \in S /\ SumFunctionOnSet(f, S) = f[AnyOf(S)] + SumFunctionOnSet(f, S \ {AnyOf(S)})
<1>0. \A s : s \subseteq S /\ s # {} => SumIteration(f, S)[s] = f[AnyOf(s)] + SumIteration(f, S)[s \ {AnyOf(s)}]
  BY IterAt
<1>1. SumIteration(f, S)[S] = f[AnyOf(S)] + SumIteration(f, S)[S \ {AnyOf(S)}]
  BY <1>0, Zenon
<1>2. SumIteration(f, S \ {AnyOf(S)})[S \ {AnyOf(S)}] = SumIteration(f, S)[S \ {AnyOf(S)}]
  BY IterAgrees
<1> QED
  BY <1>1, <1>2, SumIter DEF AnyOf

\* Sums of integers are integers.
LEMMA SumType ==
  ASSUME NEW f, NEW S, IsFiniteSet(S), IntValued(f, S)
  PROVE  SumFunctionOnSet(f, S) \in Int
<1> DEFINE C == {s \in SUBSET S : SumFunctionOnSet(f, s) \in Int}
<1>1. ASSUME NEW s \in SUBSET S, \A x \in s : s \ {x} \in C
      PROVE  s \in C
  <2>1. IsFiniteSet(s)
    BY FS_Subset
  <2>2. CASE s = {}
    BY <2>2, SumEmpty
  <2>3. CASE s # {}
    <3>1. AnyOf(s) \in s /\ SumFunctionOnSet(f, s) = f[AnyOf(s)] + SumFunctionOnSet(f, s \ {AnyOf(s)})
      BY <2>1, <2>3, SumStep
    <3>2. SumFunctionOnSet(f, s \ {AnyOf(s)}) \in Int /\ f[AnyOf(s)] \in Int
      BY <3>1, <1>1 DEF IntValued
    <3>3. SumFunctionOnSet(f, s) \in Int
      BY <3>1, <3>2
    <3> QED
      BY <3>3
  <2> QED
    BY <2>2, <2>3
<1>2. S \in C
  <2> HIDE DEF C
  <2> QED
    BY <1>1, FiniteSetInduction
<1> QED
  BY <1>2

\* Any element can be taken out of a sum.
LEMMA SumRemove ==
  ASSUME NEW f, NEW S, IsFiniteSet(S), IntValued(f, S), NEW x \in S
  PROVE  /\ SumFunctionOnSet(f, S) = f[x] + SumFunctionOnSet(f, S \ {x})
         /\ SumFunctionOnSet(f, S \ {x}) \in Int
<1> DEFINE C == {s \in SUBSET S : \A y \in s : SumFunctionOnSet(f, s) = f[y] + SumFunctionOnSet(f, s \ {y})}
<1>0. ASSUME NEW s \in SUBSET S PROVE IsFiniteSet(s) /\ IntValued(f, s) /\ SumFunctionOnSet(f, s) \in Int
  BY FS_Subset, SumType DEF IntValued
<1>1. ASSUME NEW s \in SUBSET S, \A y \in s : s \ {y} \in C
      PROVE  s \in C
  <2> SUFFICES ASSUME NEW y \in s PROVE SumFunctionOnSet(f, s) = f[y] + SumFunctionOnSet(f, s \ {y})
    OBVIOUS
  <2> DEFINE n == AnyOf(s)
             r == (s \ {n}) \ {y}
  <2>1. n \in s /\ SumFunctionOnSet(f, s) = f[n] + SumFunctionOnSet(f, s \ {n})
    BY <1>0, SumStep
  <2>2. CASE y = n
    BY <2>1, <2>2
  <2>3. CASE y # n
    <3>1. SumFunctionOnSet(f, s \ {n}) = f[y] + SumFunctionOnSet(f, r)
      BY <1>1, <2>1, <2>3
    <3>2. SumFunctionOnSet(f, s \ {y}) = f[n] + SumFunctionOnSet(f, (s \ {y}) \ {n})
      BY <1>1, <2>1, <2>3
    <3>3. (s \ {y}) \ {n} = r
      OBVIOUS
    <3>4. SumFunctionOnSet(f, r) \in Int /\ f[n] \in Int /\ f[y] \in Int
      BY <1>0, <2>1 DEF IntValued
    <3>5. SumFunctionOnSet(f, s \ {y}) = f[n] + SumFunctionOnSet(f, r)
      BY <3>2, <3>3
    <3>6. \A i, j, k \in Int : i + (j + k) = j + (i + k)
      OBVIOUS
    <3> HIDE DEF n, r
    <3> QED
      BY <2>1, <3>1, <3>5, <3>4, <3>6
  <2> QED
    BY <2>2, <2>3
<1>2. S \in C
  <2> HIDE DEF C
  <2> QED
    BY <1>1, FiniteSetInduction
<1> QED
  BY <1>0, <1>2

\* An element added to a sum.
LEMMA SumAdd ==
  ASSUME NEW f, NEW S, IsFiniteSet(S), NEW x, x \notin S, IntValued(f, S), f[x] \in Int
  PROVE  SumFunctionOnSet(f, S \cup {x}) = f[x] + SumFunctionOnSet(f, S)
<1>1. IsFiniteSet(S \cup {x}) /\ IntValued(f, S \cup {x}) /\ (S \cup {x}) \ {x} = S
  BY FS_AddElement DEF IntValued
<1> HIDE DEF IntValued
<1> QED
  BY <1>1, SumRemove

\* Sums are added value by value.
LEMMA SumPlus ==
  ASSUME NEW f, NEW g, NEW h, NEW S, IsFiniteSet(S), IntValued(f, S), IntValued(g, S),
         \A x \in S : h[x] = f[x] + g[x]
  PROVE  SumFunctionOnSet(h, S) = SumFunctionOnSet(f, S) + SumFunctionOnSet(g, S)
<1> DEFINE C == {s \in SUBSET S : SumFunctionOnSet(h, s) = SumFunctionOnSet(f, s) + SumFunctionOnSet(g, s)}
<1>0. ASSUME NEW s \in SUBSET S PROVE IsFiniteSet(s) /\ SumFunctionOnSet(f, s) \in Int /\ SumFunctionOnSet(g, s) \in Int
  BY FS_Subset, SumType DEF IntValued
<1>1. ASSUME NEW s \in SUBSET S, \A y \in s : s \ {y} \in C
      PROVE  s \in C
  <2>1. CASE s = {}
    BY <2>1, SumEmpty
  <2>2. CASE s # {}
    <3> DEFINE n == AnyOf(s)
               r == s \ {n}
    <3>1. n \in s /\ SumFunctionOnSet(h, s) = h[n] + SumFunctionOnSet(h, r) /\ SumFunctionOnSet(f, s) = f[n] + SumFunctionOnSet(f, r)
            /\ SumFunctionOnSet(g, s) = g[n] + SumFunctionOnSet(g, r)
      BY <1>0, <2>2, SumStep
    <3>2. SumFunctionOnSet(h, r) = SumFunctionOnSet(f, r) + SumFunctionOnSet(g, r)
      BY <1>1, <3>1
    <3>3. f[n] \in Int /\ g[n] \in Int /\ SumFunctionOnSet(f, r) \in Int /\ SumFunctionOnSet(g, r) \in Int /\ h[n] = f[n] + g[n]
      BY <3>1, <1>0 DEF IntValued
    <3> HIDE DEF n, r
    <3>4. SumFunctionOnSet(h, s) = SumFunctionOnSet(f, s) + SumFunctionOnSet(g, s)
      BY <3>1, <3>2, <3>3
    <3> QED
      BY <3>4
  <2> QED
    BY <2>1, <2>2
<1>2. S \in C
  <2> HIDE DEF C
  <2> QED
    BY <1>1, FiniteSetInduction
<1> QED
  BY <1>2

\* A sum of zeros.
LEMMA SumZero ==
  ASSUME NEW f, NEW S, IsFiniteSet(S), \A x \in S : f[x] = 0
  PROVE  SumFunctionOnSet(f, S) = 0
<1>1. IntValued(f, S) /\ \A x \in S : f[x] = f[x] + f[x]
  BY DEF IntValued
<1>2. SumFunctionOnSet(f, S) = SumFunctionOnSet(f, S) + SumFunctionOnSet(f, S)
  BY <1>1, SumPlus
<1>3. SumFunctionOnSet(f, S) \in Int
  BY <1>1, SumType
<1>4. \A x \in Int : x = x + x => x = 0
  OBVIOUS
<1> QED
  BY <1>2, <1>3, <1>4

\* The sum depends on the values at the elements only.
LEMMA SumSame ==
  ASSUME NEW f, NEW g, NEW S, IsFiniteSet(S), IntValued(f, S), \A x \in S : g[x] = f[x]
  PROVE  SumFunctionOnSet(g, S) = SumFunctionOnSet(f, S)
<1> DEFINE z == [x \in S |-> 0]
<1>1. IntValued(z, S) /\ (\A x \in S : z[x] = 0) /\ \A x \in S : g[x] = f[x] + z[x]
  BY DEF IntValued
<1> HIDE DEF z
<1>2. SumFunctionOnSet(z, S) = 0
  BY <1>1, SumZero
<1>3. SumFunctionOnSet(g, S) = SumFunctionOnSet(f, S) + SumFunctionOnSet(z, S)
  BY <1>1, SumPlus
<1> QED
  BY <1>2, <1>3, SumType

\* When one value changes, the sum changes by as much.
LEMMA SumUpdate ==
  ASSUME NEW f, NEW g, NEW S, IsFiniteSet(S), IntValued(f, S), NEW x \in S, g[x] \in Int,
         \A y \in S : y # x => g[y] = f[y]
  PROVE  SumFunctionOnSet(g, S) = SumFunctionOnSet(f, S) + (g[x] - f[x])
<1>1. IntValued(g, S) /\ IntValued(f, S \ {x}) /\ IsFiniteSet(S \ {x})
  BY FS_RemoveElement DEF IntValued
<1>2. SumFunctionOnSet(g, S \ {x}) = SumFunctionOnSet(f, S \ {x})
  BY <1>1, SumSame
<1>3. SumFunctionOnSet(g, S) = g[x] + SumFunctionOnSet(g, S \ {x}) /\ SumFunctionOnSet(f, S) = f[x] + SumFunctionOnSet(f, S \ {x})
        /\ SumFunctionOnSet(f, S \ {x}) \in Int
  BY <1>1, SumRemove
<1> QED
  BY <1>2, <1>3 DEF IntValued

\* Sums of natural numbers are natural numbers.
LEMMA SumNat ==
  ASSUME NEW f, NEW S, IsFiniteSet(S), \A x \in S : f[x] \in Nat
  PROVE  SumFunctionOnSet(f, S) \in Nat
<1> DEFINE C == {s \in SUBSET S : SumFunctionOnSet(f, s) \in Nat}
<1>1. ASSUME NEW s \in SUBSET S, \A x \in s : s \ {x} \in C
      PROVE  s \in C
  <2>1. IsFiniteSet(s)
    BY FS_Subset
  <2>2. CASE s = {}
    BY <2>2, SumEmpty
  <2>3. CASE s # {}
    <3>1. AnyOf(s) \in s /\ SumFunctionOnSet(f, s) = f[AnyOf(s)] + SumFunctionOnSet(f, s \ {AnyOf(s)})
      BY <2>1, <2>3, SumStep
    <3>2. SumFunctionOnSet(f, s \ {AnyOf(s)}) \in Nat /\ f[AnyOf(s)] \in Nat
      BY <3>1, <1>1
    <3>3. SumFunctionOnSet(f, s) \in Nat
      BY <3>1, <3>2
    <3> QED
      BY <3>3
  <2> QED
    BY <2>2, <2>3
<1>2. S \in C
  <2> HIDE DEF C
  <2> QED
    BY <1>1, FiniteSetInduction
<1> QED
  BY <1>2

\* Greater values make a greater sum.
LEMMA SumMonotone ==
  ASSUME NEW f, NEW g, NEW S, IsFiniteSet(S), IntValued(f, S), IntValued(g, S),
         \A x \in S : f[x] <= g[x]
  PROVE  SumFunctionOnSet(f, S) <= SumFunctionOnSet(g, S)
<1> DEFINE d == [x \in S |-> g[x] - f[x]]
<1>1. IntValued(d, S) /\ (\A x \in S : d[x] \in Nat) /\ \A x \in S : g[x] = f[x] + d[x]
  BY DEF IntValued
<1> HIDE DEF d
<1>2. SumFunctionOnSet(g, S) = SumFunctionOnSet(f, S) + SumFunctionOnSet(d, S) /\ SumFunctionOnSet(d, S) \in Nat
  BY <1>1, SumPlus, SumNat
<1> QED
  BY <1>2, SumType

\* A sum of equal values.
LEMMA SumConst ==
  ASSUME NEW f, NEW S, IsFiniteSet(S), NEW c \in Int, \A x \in S : f[x] = c
  PROVE  SumFunctionOnSet(f, S) = c * Cardinality(S)
<1> DEFINE C == {s \in SUBSET S : SumFunctionOnSet(f, s) = c * Cardinality(s)}
<1>1. ASSUME NEW s \in SUBSET S, \A x \in s : s \ {x} \in C
      PROVE  s \in C
  <2>1. IsFiniteSet(s) /\ Cardinality(s) \in Nat
    BY FS_Subset, FS_CardinalityType
  <2>2. CASE s = {}
    <3>1. SumFunctionOnSet(f, s) = 0 /\ Cardinality(s) = 0
      BY <2>2, SumEmpty, FS_EmptySet
    <3> QED
      BY <3>1
  <2>3. CASE s # {}
    <3>1. AnyOf(s) \in s /\ SumFunctionOnSet(f, s) = f[AnyOf(s)] + SumFunctionOnSet(f, s \ {AnyOf(s)})
      BY <2>1, <2>3, SumStep
    <3>2. Cardinality(s \ {AnyOf(s)}) = Cardinality(s) - 1
      BY <2>1, <3>1, FS_RemoveElement
    <3>3. SumFunctionOnSet(f, s) = c + c * (Cardinality(s) - 1)
      BY <3>1, <3>2, <1>1
    <3>4. \A n \in Nat : c + c * (n - 1) = c * n
      OBVIOUS
    <3>5. SumFunctionOnSet(f, s) = c * Cardinality(s)
      BY <2>1, <3>3, <3>4
    <3> QED
      BY <3>5
  <2> QED
    BY <2>2, <2>3
<1>2. S \in C
  <2> HIDE DEF C
  <2> QED
    BY <1>1, FiniteSetInduction
<1> QED
  BY <1>2

\* A factor is taken out of a sum.
LEMMA SumScale ==
  ASSUME NEW f, NEW g, NEW S, IsFiniteSet(S), IntValued(f, S), NEW c \in Int,
         \A x \in S : g[x] = c * f[x]
  PROVE  SumFunctionOnSet(g, S) = c * SumFunctionOnSet(f, S)
<1> DEFINE C == {s \in SUBSET S : SumFunctionOnSet(g, s) = c * SumFunctionOnSet(f, s)}
<1>0. ASSUME NEW s \in SUBSET S PROVE IsFiniteSet(s) /\ SumFunctionOnSet(f, s) \in Int
  BY FS_Subset, SumType DEF IntValued
<1>1. ASSUME NEW s \in SUBSET S, \A y \in s : s \ {y} \in C
      PROVE  s \in C
  <2>1. CASE s = {}
    <3>1. SumFunctionOnSet(f, s) = 0 /\ SumFunctionOnSet(g, s) = 0
      BY <2>1, SumEmpty
    <3> QED
      BY <3>1
  <2>2. CASE s # {}
    <3> DEFINE n == AnyOf(s)
               r == s \ {n}
    <3>1. /\ n \in s
          /\ SumFunctionOnSet(g, s) = g[n] + SumFunctionOnSet(g, r)
          /\ SumFunctionOnSet(f, s) = f[n] + SumFunctionOnSet(f, r)
      BY <1>0, <2>2, SumStep
    <3>2. SumFunctionOnSet(g, r) = c * SumFunctionOnSet(f, r)
      BY <1>1, <3>1
    <3>3. f[n] \in Int /\ SumFunctionOnSet(f, r) \in Int /\ g[n] = c * f[n]
      BY <3>1, <1>0 DEF IntValued
    <3> HIDE DEF n, r
    <3>4. \A x, y \in Int : c * x + c * y = c * (x + y)
      OBVIOUS
    <3>5. SumFunctionOnSet(g, s) = c * SumFunctionOnSet(f, s)
      BY <3>1, <3>2, <3>3, <3>4
    <3> QED
      BY <3>5
  <2> QED
    BY <2>1, <2>2
<1>2. S \in C
  <2> HIDE DEF C
  <2> QED
    BY <1>1, FiniteSetInduction
<1> QED
  BY <1>2

\* The sum over two disjoint sets.
LEMMA SumUnion ==
  ASSUME NEW f, NEW S, IsFiniteSet(S), NEW T, IsFiniteSet(T), S \cap T = {},
         IntValued(f, S \cup T)
  PROVE  SumFunctionOnSet(f, S \cup T) = SumFunctionOnSet(f, S) + SumFunctionOnSet(f, T)
<1> DEFINE C == {s \in SUBSET S : SumFunctionOnSet(f, s \cup T) = SumFunctionOnSet(f, s) + SumFunctionOnSet(f, T)}
<1>0. SumFunctionOnSet(f, T) \in Int
  BY SumType DEF IntValued
<1>1. ASSUME NEW s \in SUBSET S, \A x \in s : s \ {x} \in C
      PROVE  s \in C
  <2>1. CASE s = {}
    <3>1. SumFunctionOnSet(f, s) = 0 /\ s \cup T = T
      BY <2>1, SumEmpty
    <3>2. SumFunctionOnSet(f, s \cup T) = SumFunctionOnSet(f, T)
      BY <3>1, Zenon
    <3>3. SumFunctionOnSet(f, s \cup T) = SumFunctionOnSet(f, s) + SumFunctionOnSet(f, T)
      BY <1>0, <3>1, <3>2
    <3> QED
      BY <3>3
  <2>2. CASE s # {}
    <3>1. PICK x \in s : TRUE
      BY <2>2
    <3>2. IsFiniteSet(s) /\ IsFiniteSet(s \cup T) /\ IntValued(f, s) /\ IntValued(f, s \cup T)
      BY FS_Subset, FS_Union DEF IntValued
    <3>3. SumFunctionOnSet(f, s) = f[x] + SumFunctionOnSet(f, s \ {x}) /\ SumFunctionOnSet(f, s \ {x}) \in Int
      BY <3>2, SumRemove
    <3>4. SumFunctionOnSet(f, s \cup T) = f[x] + SumFunctionOnSet(f, (s \cup T) \ {x})
      BY <3>2, SumRemove
    <3>5. (s \cup T) \ {x} = (s \ {x}) \cup T
      OBVIOUS
    <3>6. SumFunctionOnSet(f, (s \ {x}) \cup T) = SumFunctionOnSet(f, s \ {x}) + SumFunctionOnSet(f, T)
      BY <1>1
    <3>7. f[x] \in Int
      BY <3>2 DEF IntValued
    <3>8. SumFunctionOnSet(f, s \cup T) = f[x] + (SumFunctionOnSet(f, s \ {x}) + SumFunctionOnSet(f, T))
      BY <3>4, <3>5, <3>6, Zenon
    <3>9. SumFunctionOnSet(f, s \cup T) = SumFunctionOnSet(f, s) + SumFunctionOnSet(f, T)
      BY <1>0, <3>3, <3>7, <3>8
    <3> QED
      BY <3>9
  <2> QED
    BY <2>1, <2>2
<1>2. S \in C
  <2> HIDE DEF C
  <2> QED
    BY <1>1, FiniteSetInduction
<1> QED
  BY <1>2

\* The sum over a subset is the sum over the set with zeros elsewhere.
LEMMA SumFilter ==
  ASSUME NEW f, NEW g, NEW S, IsFiniteSet(S), NEW T \in SUBSET S, IntValued(f, T),
         \A x \in S : g[x] = IF x \in T THEN f[x] ELSE 0
  PROVE  SumFunctionOnSet(g, S) = SumFunctionOnSet(f, T)
<1>1. IsFiniteSet(T) /\ IsFiniteSet(S \ T) /\ S = (S \ T) \cup T /\ (S \ T) \cap T = {}
  BY FS_Subset, FS_Difference
<1>2. IntValued(g, (S \ T) \cup T) /\ IntValued(g, T)
  BY DEF IntValued
<1>3. SumFunctionOnSet(g, S) = SumFunctionOnSet(g, S \ T) + SumFunctionOnSet(g, T)
  BY <1>1, <1>2, SumUnion
<1>4. SumFunctionOnSet(g, S \ T) = 0
  BY <1>1, SumZero
<1>5. SumFunctionOnSet(g, T) = SumFunctionOnSet(f, T) /\ SumFunctionOnSet(f, T) \in Int
  BY <1>1, SumSame, SumType
<1> QED
  BY <1>3, <1>4, <1>5

\* The amounts f that belong to a.
OwnedBy(f, key, S, a) == [x \in S |-> IF key[x] = a THEN f[x] ELSE 0]

\* Amounts sorted by their owners add up to all the amounts.
LEMMA SumByOwner ==
  ASSUME NEW f, NEW S, IsFiniteSet(S), IntValued(f, S), NEW A, IsFiniteSet(A),
         NEW key, \A x \in S : key[x] \in A, NEW h,
         \A a \in A : h[a] = SumFunctionOnSet(OwnedBy(f, key, S, a), S)
  PROVE  SumFunctionOnSet(h, A) = SumFunctionOnSet(f, S)
<1> DEFINE H(s) == [a \in A |-> SumFunctionOnSet(OwnedBy(f, key, S, a), s)]
           C == {s \in SUBSET S : SumFunctionOnSet(H(s), A) = SumFunctionOnSet(f, s)}
<1>0. ASSUME NEW s \in SUBSET S, NEW a \in A
      PROVE  IsFiniteSet(s) /\ IntValued(OwnedBy(f, key, S, a), s) /\ H(s)[a] \in Int
  <2>1. IsFiniteSet(s) /\ IntValued(OwnedBy(f, key, S, a), s)
    BY FS_Subset DEF IntValued, OwnedBy
  <2> QED
    BY <2>1, SumType
<1>1. ASSUME NEW s \in SUBSET S, \A x \in s : s \ {x} \in C
      PROVE  s \in C
  <2>1. CASE s = {}
    <3>1. \A a \in A : H(s)[a] = 0
      BY <2>1, SumEmpty
    <3> HIDE DEF H
    <3>2. SumFunctionOnSet(H(s), A) = 0
      BY <3>1, SumZero
    <3> QED
      BY <3>2, <2>1, SumEmpty
  <2>2. CASE s # {}
    <3>1. PICK x \in s : TRUE
      BY <2>2
    <3> DEFINE r == s \ {x}
               k == key[x]
    <3>2. IsFiniteSet(s) /\ IntValued(f, s) /\ k \in A /\ r \in SUBSET S /\ f[x] \in Int
      BY FS_Subset DEF IntValued
    <3>3. ASSUME NEW a \in A
          PROVE  H(s)[a] = OwnedBy(f, key, S, a)[x] + H(r)[a]
      BY <1>0, SumRemove
    <3>4. ASSUME NEW a \in A PROVE OwnedBy(f, key, S, a)[x] = IF a = k THEN f[x] ELSE 0
      BY DEF OwnedBy
    <3>5. H(s)[k] = f[x] + H(r)[k] /\ \A a \in A : a # k => H(s)[a] = H(r)[a]
      <4>1. \A a \in A : H(r)[a] \in Int
        BY <1>0, <3>2
      <4>2. \A a \in A : H(s)[a] = (IF a = k THEN f[x] ELSE 0) + H(r)[a]
        BY <3>3, <3>4
      <4> HIDE DEF H, k, r
      <4> QED
        BY <3>2, <4>1, <4>2
    <3>6. IntValued(H(r), A) /\ H(s)[k] \in Int
      BY <1>0, <3>2 DEF IntValued
    <3>7. SumFunctionOnSet(H(r), A) = SumFunctionOnSet(f, r)
      BY <1>1
    <3>9. SumFunctionOnSet(f, s) = f[x] + SumFunctionOnSet(f, r) /\ SumFunctionOnSet(f, r) \in Int
      BY <3>2, SumRemove
    <3>10. H(r)[k] \in Int
      BY <3>6, <3>2 DEF IntValued
    <3> HIDE DEF H, k, r
    <3>8. SumFunctionOnSet(H(s), A) = SumFunctionOnSet(H(r), A) + (H(s)[k] - H(r)[k])
      BY <3>2, <3>5, <3>6, SumUpdate
    <3>11. SumFunctionOnSet(H(s), A) = SumFunctionOnSet(f, s)
      BY <3>2, <3>5, <3>7, <3>8, <3>9, <3>10
    <3> QED
      BY <3>11
  <2> QED
    BY <2>1, <2>2
<1>2. S \in C
  <2> HIDE DEF C
  <2> QED
    BY <1>1, FiniteSetInduction
<1>3. IntValued(H(S), A) /\ \A a \in A : h[a] = H(S)[a]
  BY <1>0 DEF IntValued
<1>4. SumFunctionOnSet(H(S), A) = SumFunctionOnSet(f, S)
  BY <1>2
<1> HIDE DEF H
<1> QED
  BY <1>3, <1>4, SumSame

\* The sum over some of the elements is no larger.
LEMMA SumSubset ==
  ASSUME NEW f, NEW S, IsFiniteSet(S), NEW T \in SUBSET S, \A x \in S : f[x] \in Nat
  PROVE  /\ SumFunctionOnSet(f, T) \in Nat /\ SumFunctionOnSet(f, S) \in Nat
         /\ SumFunctionOnSet(f, T) <= SumFunctionOnSet(f, S)
<1> DEFINE U == S \ T
<1>1. IsFiniteSet(T) /\ IsFiniteSet(U) /\ T \cup U = S /\ T \cap U = {}
  BY FS_Subset
<1>2. IntValued(f, T \cup U)
  BY <1>1 DEF IntValued
<1>3. SumFunctionOnSet(f, T) \in Nat /\ SumFunctionOnSet(f, U) \in Nat
  BY <1>1, SumNat
<1>4. SumFunctionOnSet(f, T \cup U) = SumFunctionOnSet(f, T) + SumFunctionOnSet(f, U)
  BY <1>1, <1>2, SumUnion
<1>5. SumFunctionOnSet(f, S) = SumFunctionOnSet(f, T) + SumFunctionOnSet(f, U)
  BY <1>1, <1>4, Zenon
<1> HIDE DEF U
<1> QED
  BY <1>3, <1>5

-----------------------------------------------------------------------------
(* The tree of the blocks B: up leads from a block to the one before it,   *)
(* to none from the first, and num counts the blocks on the way.  The path *)
(* to a block is defined, because numbers decrease towards the first one.  *)

Ids(B, none) == B \cup {none}

IsTree(B, none, up, num) ==
  /\ none \notin B
  /\ up \in [B -> Ids(B, none)]
  /\ num \in [Ids(B, none) -> Nat]
  /\ num[none] = 0
  /\ \A b \in B : num[b] = num[up[b]] + 1

\* F leads from a block to the sequence of the blocks up to it.
IsPaths(B, none, up, F) ==
  F = [b \in Ids(B, none) |-> IF b = none THEN << >> ELSE Append(F[up[b]], b)]

PathSet(F, b) == {F[b][n] : n \in 1 .. Len(F[b])}

PathsUpTo(B, none, up, num, N, f) ==
  f = [b \in {x \in Ids(B, none) : num[x] <= N} |->
         IF b = none THEN << >> ELSE Append(f[up[b]], b)]

LEMMA TreeNumbers ==
  ASSUME NEW B, NEW none, NEW up, NEW num, IsTree(B, none, up, num)
  PROVE  /\ \A b \in Ids(B, none) : num[b] \in Nat
         /\ \A b \in B : /\ b # none /\ b \in Ids(B, none) /\ up[b] \in Ids(B, none)
                         /\ num[b] = num[up[b]] + 1 /\ num[b] > 0
         /\ num[none] = 0 /\ none \in Ids(B, none)
         /\ \A b \in Ids(B, none) : b # none => b \in B
<1>1. \A b \in Ids(B, none) : num[b] \in Nat
  BY DEF IsTree
<1>2. \A b \in B : /\ b # none /\ b \in Ids(B, none) /\ up[b] \in Ids(B, none)
                  /\ num[b] = num[up[b]] + 1
  BY DEF IsTree, Ids
<1>3. \A b \in B : num[b] > 0
  BY <1>1, <1>2
<1> QED
  BY <1>1, <1>2, <1>3 DEF IsTree, Ids

LEMMA PathsExist ==
  ASSUME NEW B, NEW none, NEW up, NEW num, IsTree(B, none, up, num)
  PROVE  \A N \in Nat : \E f : PathsUpTo(B, none, up, num, N, f)
<1> DEFINE T == {N \in Nat : \E f : PathsUpTo(B, none, up, num, N, f)}
<1>1. ASSUME NEW N \in Nat, \A m \in Nat : m < N => m \in T
      PROVE  N \in T
  <2> DEFINE D == {x \in Ids(B, none) : num[x] <= N}
  <2>1. CASE N = 0
    <3> DEFINE f == [b \in D |-> << >>]
    <3>1. \A b \in D : b = none
      BY <2>1, TreeNumbers
    <3>2. PathsUpTo(B, none, up, num, N, f)
      BY <3>1 DEF PathsUpTo
    <3> QED
      BY <3>2
  <2>2. CASE N > 0
    <3> DEFINE k == N - 1
    <3>1. k \in Nat /\ k < N /\ N = k + 1
      BY <2>2
    <3> HIDE DEF k
    <3>2. PICK g : PathsUpTo(B, none, up, num, k, g)
      BY <1>1, <3>1
    <3> DEFINE f == [b \in D |-> IF num[b] <= k THEN g[b] ELSE Append(g[up[b]], b)]
               h == [b \in D |-> IF b = none THEN << >> ELSE Append(f[up[b]], b)]
    <3>3. ASSUME NEW b \in D PROVE f[b] = h[b]
      <4>1. CASE b = none
        <5>1. none \in {x \in Ids(B, none) : num[x] <= k} /\ num[none] <= k
          BY <3>1, TreeNumbers
        <5>2. g[none] = << >>
          BY <3>2, <5>1 DEF PathsUpTo
        <5> QED
          BY <4>1, <5>1, <5>2
      <4>2. CASE b # none
        <5> DEFINE p == up[b]
        <5>1. b \in Ids(B, none) /\ p \in Ids(B, none) /\ num[b] = num[p] + 1 /\ num[p] \in Nat /\ num[b] <= N
          BY <4>2, TreeNumbers
        <5>2. p \in D /\ num[p] <= k
          BY <3>1, <5>1
        <5>3. f[p] = g[p]
          BY <5>2
        <5>4. h[b] = Append(f[p], b)
          BY <4>2
        <5>5. f[b] = Append(g[p], b)
          <6>1. CASE num[b] <= k
            <7>1. b \in {x \in Ids(B, none) : num[x] <= k}
              BY <5>1, <6>1
            <7>2. g[b] = Append(g[p], b)
              BY <3>2, <4>2, <7>1 DEF PathsUpTo
            <7> QED
              BY <6>1, <7>2
          <6>2. CASE ~(num[b] <= k)
            BY <6>2
          <6> QED
            BY <6>1, <6>2
        <5> HIDE DEF f, h, p
        <5> QED
          BY <5>3, <5>4, <5>5
      <4> QED
        BY <4>1, <4>2
    <3>4. f = h
      BY <3>3
    <3>5. PathsUpTo(B, none, up, num, N, f)
      BY <3>4, Zenon DEF PathsUpTo
    <3> QED
      BY <3>5
  <2> QED
    BY <2>1, <2>2
<1> HIDE DEF T
<1>2. Nat \subseteq T
  BY <1>1, NatSetInduction
<1> QED
  BY <1>2 DEF T

\* Two of these functions agree where both are defined.
LEMMA PathsAgree ==
  ASSUME NEW B, NEW none, NEW up, NEW num, IsTree(B, none, up, num),
         NEW M \in Nat, NEW N \in Nat, NEW f, NEW g, PathsUpTo(B, none, up, num, M, f), PathsUpTo(B, none, up, num, N, g)
  PROVE  \A b \in Ids(B, none) : num[b] <= M /\ num[b] <= N => f[b] = g[b]
<1> DEFINE T == {k \in Nat : \A b \in Ids(B, none) : num[b] = k /\ num[b] <= M /\ num[b] <= N => f[b] = g[b]}
<1>1. ASSUME NEW k \in Nat, \A m \in Nat : m < k => m \in T
      PROVE  k \in T
  <2> SUFFICES ASSUME NEW b \in Ids(B, none), num[b] = k, num[b] <= M, num[b] <= N PROVE f[b] = g[b]
    OBVIOUS
  <2>1. CASE b = none
    BY <2>1 DEF PathsUpTo
  <2>2. CASE b # none
    <3> DEFINE p == up[b]
    <3>1. p \in Ids(B, none) /\ num[p] \in Nat /\ num[b] = num[p] + 1
      BY <2>2, TreeNumbers
    <3>2. num[p] < k /\ num[p] <= M /\ num[p] <= N
      BY <3>1
    <3>3. f[p] = g[p]
      BY <1>1, <3>1, <3>2
    <3>4. f[b] = Append(f[p], b) /\ g[b] = Append(g[p], b)
      BY <2>2 DEF PathsUpTo
    <3> QED
      BY <3>3, <3>4
  <2> QED
    BY <2>1, <2>2
<1> HIDE DEF T
<1>2. Nat \subseteq T
  BY <1>1, NatSetInduction
<1> QED
  BY <1>2, TreeNumbers DEF T

LEMMA PathsDefined ==
  ASSUME NEW B, NEW none, NEW up, NEW num, IsTree(B, none, up, num)
  PROVE  \E f : IsPaths(B, none, up, f)
<1> DEFINE P(N) == CHOOSE f : PathsUpTo(B, none, up, num, N, f)
           F == [b \in Ids(B, none) |-> P(num[b])[b]]
           G == [b \in Ids(B, none) |-> IF b = none THEN << >> ELSE Append(F[up[b]], b)]
<1>1. \A N \in Nat : PathsUpTo(B, none, up, num, N, P(N))
  BY PathsExist
<1> HIDE DEF P
<1>2. ASSUME NEW b \in Ids(B, none) PROVE F[b] = G[b]
  <2>1. num[b] \in Nat /\ PathsUpTo(B, none, up, num, num[b], P(num[b]))
    BY <1>1, TreeNumbers
  <2>2. b \in {x \in Ids(B, none) : num[x] <= num[b]}
    BY <2>1
  <2>3. CASE b = none
    <3>1. P(num[b])[b] = << >>
      BY <2>1, <2>2, <2>3 DEF PathsUpTo
    <3> QED
      BY <2>3, <3>1
  <2>4. CASE b # none
    <3> DEFINE p == up[b]
    <3>1. p \in Ids(B, none) /\ num[p] \in Nat /\ num[b] = num[p] + 1
      BY <2>4, TreeNumbers
    <3>2. P(num[b])[b] = Append(P(num[b])[p], b)
      BY <2>1, <2>2, <2>4 DEF PathsUpTo
    <3>3. P(num[b])[p] = P(num[p])[p]
      <4>1. PathsUpTo(B, none, up, num, num[p], P(num[p]))
        BY <1>1, <3>1
      <4>2. num[p] <= num[b] /\ num[p] <= num[p]
        BY <3>1
      <4> QED
        BY <2>1, <3>1, <4>1, <4>2, PathsAgree
    <3>4. F[b] = P(num[b])[b] /\ F[p] = P(num[p])[p]
      BY <3>1
    <3>5. G[b] = Append(F[p], b)
      BY <2>4
    <3> HIDE DEF F, G, p
    <3> QED
      BY <3>2, <3>3, <3>4, <3>5
  <2> QED
    BY <2>3, <2>4
<1>3. F = G
  BY <1>2
<1>4. \E f : f = [b \in Ids(B, none) |-> IF b = none THEN << >> ELSE Append(f[up[b]], b)]
  BY <1>3, Zenon
<1> QED
  BY <1>4, Zenon DEF IsPaths

LEMMA PathsAt ==
  ASSUME NEW B, NEW none, NEW up, NEW num, IsTree(B, none, up, num),
         NEW F, IsPaths(B, none, up, F)
  PROVE  F[none] = << >> /\ \A b \in B : F[b] = Append(F[up[b]], b)
<1>1. F[none] = << >>
  BY TreeNumbers DEF IsPaths
<1>2. ASSUME NEW b \in B PROVE F[b] = Append(F[up[b]], b)
  <2>1. b \in Ids(B, none) /\ b # none
    BY TreeNumbers
  <2> QED
    BY <2>1 DEF IsPaths
<1> QED
  BY <1>1, <1>2

LEMMA PathsType ==
  ASSUME NEW B, NEW none, NEW up, NEW num, IsTree(B, none, up, num),
         NEW F, IsPaths(B, none, up, F)
  PROVE  \A b \in Ids(B, none) : F[b] \in Seq(B) /\ Len(F[b]) = num[b]
<1> DEFINE T == {k \in Nat : \A b \in Ids(B, none) : num[b] = k => F[b] \in Seq(B) /\ Len(F[b]) = num[b]}
<1>1. ASSUME NEW k \in Nat, \A m \in Nat : m < k => m \in T
      PROVE  k \in T
  <2> SUFFICES ASSUME NEW b \in Ids(B, none), num[b] = k
               PROVE  F[b] \in Seq(B) /\ Len(F[b]) = num[b]
    OBVIOUS
  <2>1. CASE b = none
    <3>1. F[none] = << >>
      BY PathsAt
    <3>2. num[none] = 0
      BY TreeNumbers
    <3> QED
      BY <2>1, <3>1, <3>2
  <2>2. CASE b # none
    <3> DEFINE p == up[b]
    <3>1. b \in B /\ p \in Ids(B, none) /\ num[p] \in Nat /\ num[b] = num[p] + 1
      BY <2>2, TreeNumbers
    <3>2. F[p] \in Seq(B) /\ Len(F[p]) = num[p]
      BY <1>1, <3>1
    <3>3. F[b] = Append(F[p], b)
      BY <3>1, PathsAt
    <3> HIDE DEF p
    <3> QED
      BY <3>1, <3>2, <3>3
  <2> QED
    BY <2>1, <2>2
<1> HIDE DEF T
<1>2. Nat \subseteq T
  BY <1>1, NatSetInduction
<1> QED
  BY <1>2, TreeNumbers DEF T

\* The path to a block is the path to its parent and the block.
LEMMA PathsStep ==
  ASSUME NEW B, NEW none, NEW up, NEW num, IsTree(B, none, up, num),
         NEW F, IsPaths(B, none, up, F),
         NEW b \in B
  PROVE  /\ F[b][num[b]] = b
         /\ \A n \in 1 .. num[up[b]] : F[b][n] = F[up[b]][n]
         /\ PathSet(F, b) = PathSet(F, up[b]) \cup {b}
<1> DEFINE p == up[b]
           n == num[p]
           q == F[p]
<1>1. p \in Ids(B, none) /\ n \in Nat /\ num[b] = n + 1 /\ b \in Ids(B, none)
  BY TreeNumbers
<1>2. q \in Seq(B) /\ Len(q) = n
  BY <1>1, PathsType
<1>3. F[b] = Append(q, b)
  BY PathsAt
<1>4. PathSet(F, b) = {F[b][k] : k \in 1 .. num[b]} /\ PathSet(F, p) = {q[k] : k \in 1 .. n}
  BY <1>1, PathsType DEF PathSet
<1> HIDE DEF p, n, q
<1>5. F[b][n + 1] = b /\ \A k \in 1 .. n : F[b][k] = q[k]
  BY <1>1, <1>2, <1>3
<1>6. PathSet(F, b) = PathSet(F, p) \cup {b}
  <2>1. \A k : k \in 1 .. (n + 1) <=> k \in 1 .. n \/ k = n + 1
    BY <1>1
  <2> QED
    BY <1>1, <1>4, <1>5, <2>1
<1> QED
  BY <1>1, <1>5, <1>6 DEF p, q, n

-----------------------------------------------------------------------------
(* Loops.                                                                   *)

\* A recursion over 0..N whose values stay in D has a solution, with values in D.
StaysIn(D, N, g) == \A n \in 1..N : \A v \in D : g[n][v] \in D

IsIteration(f, D, x, N, g) ==
  f \in [0..N -> D] /\ f[0] = x /\ \A n \in 1..N : f[n] = g[n][f[n - 1]]

LEMMA Iterates ==
  ASSUME NEW D, NEW x \in D, NEW N \in Nat, NEW g, StaysIn(D, N, g)
  PROVE  \E f : IsIteration(f, D, x, N, g)
<1>0. \A n \in 1..N : \A v \in D : g[n][v] \in D
  BY DEF StaysIn
<1> DEFINE Is(f, k) == f \in [0..k -> D] /\ f[0] = x /\ \A n \in 1..k : f[n] = g[n][f[n - 1]]
           T == {k \in Nat : k <= N => \E f : Is(f, k)}
<1>1. ASSUME NEW k \in Nat, \A m \in Nat : m < k => m \in T
      PROVE  k \in T
  <2>1. CASE k = 0
    <3> DEFINE f == [i \in 0..0 |-> x]
    <3>1. Is(f, 0)
      OBVIOUS
    <3> QED
      BY <2>1, <3>1
  <2>2. CASE k > 0 /\ k <= N
    <3>1. k - 1 \in Nat /\ k - 1 < k /\ k - 1 <= N /\ k \in 1..N
      BY <2>2
    <3>2. PICK h : Is(h, k - 1)
      BY <1>1, <3>1
    <3> DEFINE f == [i \in 0..k |-> IF i = k THEN g[k][h[k - 1]] ELSE h[i]]
    <3>3. h[k - 1] \in D /\ g[k][h[k - 1]] \in D /\ \A i \in 0..(k - 1) : h[i] \in D
      BY <1>0, <3>1, <3>2
    <3>4. \A i \in 0..k : i # k => i \in 0..(k - 1)
      BY <2>2
    <3>5. f \in [0..k -> D]
      BY <3>3, <3>4
    <3>6. \A i \in 0..(k - 1) : i \in 0..k /\ i # k /\ f[i] = h[i]
      BY <3>1
    <3>7. f[0] = x
      BY <3>1, <3>2, <3>6
    <3>8. ASSUME NEW n \in 1..k PROVE f[n] = g[n][f[n - 1]]
      <4>1. n - 1 \in 0..(k - 1) /\ f[n - 1] = h[n - 1]
        BY <3>6
      <4>2. CASE n = k
        <5>1. f[n] = g[k][h[k - 1]]
          BY <4>2
        <5> HIDE DEF f
        <5> QED
          BY <4>1, <4>2, <5>1
      <4>3. CASE n # k
        <5>1. n \in 1..(k - 1) /\ n \in 0..(k - 1)
          BY <4>3
        <5>2. f[n] = h[n] /\ h[n] = g[n][h[n - 1]]
          BY <3>2, <3>6, <5>1
        <5> HIDE DEF f
        <5> QED
          BY <4>1, <5>2
      <4> QED
        BY <4>2, <4>3
    <3> HIDE DEF f
    <3>9. Is(f, k)
      BY <3>5, <3>7, <3>8
    <3> QED
      BY <3>9
  <2>3. CASE ~(k <= N)
    BY <2>3
  <2> QED
    BY <2>1, <2>2, <2>3
<1> HIDE DEF T
<1>2. Nat \subseteq T
  BY <1>1, NatSetInduction
<1>3. N \in T
  BY <1>2
<1>4. \E f : Is(f, N)
  BY <1>3 DEF T
<1> QED
  BY <1>4 DEF IsIteration

\* An invariant of a loop: one set of values for each round.
LEMMA LoopInvariant ==
  ASSUME NEW N \in Nat, NEW F, NEW I, F[0] \in I[0],
         \A n \in 1..N : F[n - 1] \in I[n - 1] => F[n] \in I[n]
  PROVE  \A n \in 0..N : F[n] \in I[n]
<1> DEFINE T == {n \in Nat : n <= N => F[n] \in I[n]}
<1>1. ASSUME NEW n \in Nat, \A m \in Nat : m < n => m \in T PROVE n \in T
  <2>1. CASE n = 0
    BY <2>1
  <2>2. CASE n # 0 /\ n <= N
    <3>1. n - 1 \in Nat /\ n - 1 < n /\ n - 1 <= N /\ n \in 1..N
      BY <2>2
    <3>2. F[n - 1] \in I[n - 1]
      BY <1>1, <3>1
    <3> QED
      BY <3>1, <3>2
  <2> QED
    BY <2>1, <2>2
<1> HIDE DEF T
<1>2. Nat \subseteq T
  BY <1>1, NatSetInduction
<1> QED
  BY <1>2 DEF T
=============================================================================
