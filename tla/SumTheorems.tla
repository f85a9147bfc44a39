------------------------------ MODULE SumTheorems ------------------------------
(******************************************************************************)
(* Facts about SumFunction and SumFunctionOnSet of Functions, the sums that   *)
(* the conservation properties of this project are written with, and the two  *)
(* inductions they need.                                                      *)
(*                                                                            *)
(* An induction is a statement about a set T of the values that have the      *)
(* property: if T were not everything, well-foundedness would give a least    *)
(* value outside it, whose predecessors are all in T.                         *)
(******************************************************************************)
EXTENDS Integers, Sequences, FiniteSets, Functions, TLAPS, WellFoundedInduction,
        FiniteSetTheorems, SequenceTheorems

--------------------------------------------------------------------------------
(* Induction *)

(* Induction on the naturals, over the set of numbers that have the property. *)
LEMMA NatInductionSet ==
  ASSUME NEW T, 0 \in T, \A n \in Nat : n \in T => n + 1 \in T
  PROVE  Nat \subseteq T
<1> DEFINE bad == Nat \ T
<1> SUFFICES ASSUME bad # {} PROVE FALSE
  OBVIOUS
<1>1. PICK x \in bad : \A y \in bad : ~ (<<y, x>> \in OpToRel(<, Nat))
  BY NatLessThanWellFounded, WFMin
<1>2. \A y \in bad : ~(y < x)
  BY <1>1 DEF OpToRel
<1>3. x # 0 /\ x - 1 \in Nat
  OBVIOUS
<1>4. x - 1 \in T
  BY <1>2, <1>3
<1> QED
  BY <1>3, <1>4

(* Induction on the subsets of a finite set. *)
LEMMA SubsetInduction ==
  ASSUME NEW S, IsFiniteSet(S), NEW T,
         \A s \in SUBSET S : (\A t \in SUBSET s : t # s => t \in T) => s \in T
  PROVE  SUBSET S \subseteq T
<1> DEFINE bad == (SUBSET S) \ T
<1> SUFFICES ASSUME bad # {} PROVE FALSE
  OBVIOUS
<1>1. bad \subseteq FiniteSubsetsOf(S)
  BY FS_FiniteSubsetsOfFinite
<1>2. IsWellFoundedOn(StrictSubsetOrdering(S), FiniteSubsetsOf(S))
  BY FS_StrictSubsetOrderingWellFounded
<1>3. PICK x \in bad : \A y \in bad : ~ (<<y, x>> \in StrictSubsetOrdering(S))
  <2> HIDE DEF bad
  <2> QED
    BY <1>1, <1>2, WFMin
<1>4. \A t \in SUBSET x : t # x => t \in T
  BY <1>3 DEF StrictSubsetOrdering
<1> QED
  BY <1>4

--------------------------------------------------------------------------------
(* The recursion of a sum *)

(* The element the fold takes out of a set first. *)
Pick(s) == CHOOSE x \in s : TRUE

(* The value of a sum on s, given the values iter of it on smaller sets. *)
SumStep(f, iter, s) == IF s = {} THEN 0 ELSE f[Pick(s)] + iter[s \ {Pick(s)}]

(* The sums over all the subsets of S. *)
Iter(f, S) == CHOOSE iter : iter = [s \in SUBSET S |-> SumStep(f, iter, s)]

(* The sum as the library folds it.                                           *)
LEMMA SumIsIter ==
  ASSUME NEW f, NEW S
  PROVE  SumFunctionOnSet(f, S) = Iter(f, S)[S]
  BY DEF SumFunctionOnSet, FoldFunctionOnSet, MapThenFoldSet, Iter, SumStep, Pick

(* The element a sum takes out first is one of the set.                       *)
LEMMA PickIn ==
  ASSUME NEW s, s # {}
  PROVE  Pick(s) \in s
  BY DEF Pick

(* The recursion of a sum over a finite set has a solution: by induction on   *)
(* the number of elements, one extends over the sets that have one more.      *)
LEMMA IterExists ==
  ASSUME NEW f, NEW S, IsFiniteSet(S)
  PROVE  \E g : g = [s \in SUBSET S |-> SumStep(f, g, s)]
<1> DEFINE Sub(n) == {s \in SUBSET S : Cardinality(s) <= n}
           T == {n \in Nat : \E g : g = [s \in Sub(n) |-> SumStep(f, g, s)]}
<1>0. \A s \in SUBSET S : IsFiniteSet(s) /\ Cardinality(s) \in Nat /\ Cardinality(s) <= Cardinality(S)
  BY FS_Subset, FS_CardinalityType
<1>1. 0 \in T
  <2> DEFINE g == [s \in Sub(0) |-> 0]
  <2>1. \A s \in Sub(0) : s = {}
    BY <1>0, FS_EmptySet
  <2>2. g = [s \in Sub(0) |-> SumStep(f, g, s)]
    BY <2>1 DEF SumStep
  <2> HIDE DEF g
  <2> QED
    BY <2>2
<1>2. ASSUME NEW n \in Nat, n \in T PROVE n + 1 \in T
  <2>1. PICK h : h = [s \in Sub(n) |-> SumStep(f, h, s)]
    BY <1>2
  <2> DEFINE g == [s \in Sub(n + 1) |-> SumStep(f, h, s)]
  <2>2. ASSUME NEW s \in Sub(n + 1) PROVE SumStep(f, h, s) = SumStep(f, g, s)
    <3>1. CASE s = {}
      BY <3>1 DEF SumStep
    <3>2. CASE s # {}
      <4> DEFINE t == s \ {Pick(s)}
      <4>0. Pick(s) \in s
        BY <3>2, PickIn
      <4>1. Cardinality(t) = Cardinality(s) - 1
        BY <1>0, <4>0, FS_RemoveElement
      <4>2. t \in Sub(n) /\ t \in Sub(n + 1)
        BY <4>1, <1>0
      <4>3. h[t] = g[t]
        <5> HIDE DEF Sub
        <5>1. h[t] = SumStep(f, h, t)
          BY <2>1, <4>2
        <5> QED
          BY <5>1, <4>2
      <4> QED
        BY <3>2, <4>3 DEF SumStep
    <3> QED
      BY <3>1, <3>2
  <2>3. g = [s \in Sub(n + 1) |-> SumStep(f, g, s)]
    BY <2>2
  <2> HIDE DEF g
  <2> QED
    BY <2>3
<1>3. Cardinality(S) \in T
  <2> HIDE DEF T
  <2>1. Nat \subseteq T
    BY <1>1, <1>2, NatInductionSet
  <2> QED
    BY <2>1, FS_CardinalityType
<1>4. Sub(Cardinality(S)) = SUBSET S
  BY <1>0
<1>5. \E g : g = [s \in Sub(Cardinality(S)) |-> SumStep(f, g, s)]
  BY <1>3
<1> HIDE DEF Sub
<1> QED
  BY <1>4, <1>5

(* A sum obeys its recursion on every subset.                                 *)
LEMMA IterValue ==
  ASSUME NEW f, NEW S, IsFiniteSet(S), NEW s \in SUBSET S
  PROVE  Iter(f, S)[s] = SumStep(f, Iter(f, S), s)
<1> DEFINE g == Iter(f, S)
<1>1. g = [t \in SUBSET S |-> SumStep(f, g, t)]
  BY IterExists DEF Iter
<1> HIDE DEF g
<1>2. g[s] = SumStep(f, g, s)
  BY <1>1
<1> QED
  BY <1>2 DEF g

(* A sum over a subset does not depend on the set it is a subset of.          *)
LEMMA IterRestricts ==
  ASSUME NEW f, NEW S, IsFiniteSet(S), NEW R \in SUBSET S
  PROVE  \A s \in SUBSET R : Iter(f, R)[s] = Iter(f, S)[s]
<1> DEFINE g == Iter(f, R)
           h == Iter(f, S)
           T == {s \in SUBSET R : g[s] = h[s]}
<1>1. IsFiniteSet(R)
  BY FS_Subset
<1>2. \A s \in SUBSET R : g[s] = SumStep(f, g, s) /\ h[s] = SumStep(f, h, s)
  BY <1>1, IterValue
<1> HIDE DEF g, h
<1>3. ASSUME NEW s \in SUBSET R, \A t \in SUBSET s : t # s => t \in T
      PROVE  s \in T
  <2>1. g[s] = SumStep(f, g, s) /\ h[s] = SumStep(f, h, s)
    BY <1>2
  <2>2. CASE s = {}
    BY <2>1, <2>2 DEF SumStep
  <2>3. CASE s # {}
    <3>1. s \ {Pick(s)} \in T
      BY <1>3, <2>3, PickIn
    <3> QED
      BY <2>1, <2>3, <3>1 DEF SumStep
  <2> QED
    BY <2>2, <2>3
<1> HIDE DEF T
<1>4. SUBSET R \subseteq T
  BY <1>1, <1>3, SubsetInduction
<1> QED
  BY <1>4 DEF T, g, h

(* Nothing sums to 0.                                                         *)
LEMMA SumEmpty ==
  ASSUME NEW f
  PROVE  SumFunctionOnSet(f, {}) = 0
<1>1. IsFiniteSet({})
  BY FS_EmptySet
<1>2. Iter(f, {})[{}] = SumStep(f, Iter(f, {}), {})
  BY <1>1, IterValue
<1> QED
  BY <1>2, SumIsIter DEF SumStep

(* A sum is the element taken out first and the sum of the rest.              *)
LEMMA SumPick ==
  ASSUME NEW f, NEW S, IsFiniteSet(S), S # {}
  PROVE  SumFunctionOnSet(f, S) = f[Pick(S)] + SumFunctionOnSet(f, S \ {Pick(S)})
<1>1. Iter(f, S)[S] = SumStep(f, Iter(f, S), S)
  BY IterValue
<1>2. Iter(f, S \ {Pick(S)})[S \ {Pick(S)}] = Iter(f, S)[S \ {Pick(S)}]
  BY IterRestricts
<1> QED
  BY <1>1, <1>2, SumIsIter DEF SumStep

(* A sum of integers is an integer.                                           *)
LEMMA SumInt ==
  ASSUME NEW S, IsFiniteSet(S), NEW f, \A x \in S : f[x] \in Int
  PROVE  SumFunctionOnSet(f, S) \in Int
<1> DEFINE T == {s \in SUBSET S : SumFunctionOnSet(f, s) \in Int}
<1>1. ASSUME NEW s \in SUBSET S, \A t \in SUBSET s : t # s => t \in T
      PROVE  s \in T
  <2>1. CASE s = {}
    BY <2>1, SumEmpty
  <2>2. CASE s # {}
    <3>1. Pick(s) \in s
      BY <2>2, PickIn
    <3>2. s \ {Pick(s)} \in T
      BY <1>1, <3>1
    <3>3. IsFiniteSet(s)
      BY FS_Subset
    <3>4. SumFunctionOnSet(f, s) = f[Pick(s)] + SumFunctionOnSet(f, s \ {Pick(s)})
      BY <2>2, <3>3, SumPick
    <3> QED
      BY <3>1, <3>2, <3>4
  <2> QED
    BY <2>1, <2>2
<1> HIDE DEF T
<1>2. SUBSET S \subseteq T
  BY <1>1, SubsetInduction
<1> QED
  BY <1>2 DEF T

(* Any element may be taken out first. *)
LEMMA SumRemove ==
  ASSUME NEW S, IsFiniteSet(S), NEW f, \A x \in S : f[x] \in Int
  PROVE  \A x \in S : SumFunctionOnSet(f, S) = f[x] + SumFunctionOnSet(f, S \ {x})
<1> DEFINE T == {s \in SUBSET S : \A x \in s :
                   SumFunctionOnSet(f, s) = f[x] + SumFunctionOnSet(f, s \ {x})}
<1>1. \A s \in SUBSET S : IsFiniteSet(s) /\ SumFunctionOnSet(f, s) \in Int
  BY FS_Subset, SumInt
<1>2. ASSUME NEW s \in SUBSET S, \A t \in SUBSET s : t # s => t \in T,
             NEW x \in s
      PROVE  SumFunctionOnSet(f, s) = f[x] + SumFunctionOnSet(f, s \ {x})
  <2>1. PICK p \in s : SumFunctionOnSet(f, s) = f[p] + SumFunctionOnSet(f, s \ {p})
    BY <1>1, SumPick, PickIn
  <2>2. CASE x # p
    <3>1. s \ {p} \in T /\ s \ {x} \in T
      BY <1>2
    <3>2. SumFunctionOnSet(f, s \ {p}) = f[x] + SumFunctionOnSet(f, (s \ {p}) \ {x})
      BY <2>2, <3>1
    <3>3. SumFunctionOnSet(f, s \ {x}) = f[p] + SumFunctionOnSet(f, (s \ {x}) \ {p})
      BY <2>2, <3>1
    <3>4. SumFunctionOnSet(f, (s \ {x}) \ {p}) = SumFunctionOnSet(f, (s \ {p}) \ {x})
      <4>1. (s \ {x}) \ {p} = (s \ {p}) \ {x}
        OBVIOUS
      <4> QED
        BY <4>1
    <3>5. f[x] \in Int /\ f[p] \in Int
      OBVIOUS
    <3>6. \A t \in SUBSET s : SumFunctionOnSet(f, t) \in Int
      BY <1>1
    <3> DEFINE a == SumFunctionOnSet(f, s)
               b == SumFunctionOnSet(f, s \ {p})
               c == SumFunctionOnSet(f, s \ {x})
               d == SumFunctionOnSet(f, (s \ {p}) \ {x})
    <3>7. a = f[p] + b /\ b = f[x] + d /\ c = f[p] + d
      BY <2>1, <3>2, <3>3, <3>4
    <3>8. d \in Int
      BY <3>6
    <3> HIDE DEF T, a, b, c, d
    <3>9. a = f[x] + c
      BY <3>5, <3>7, <3>8
    <3> QED
      BY <3>9 DEF a, c
  <2> QED
    BY <2>1, <2>2
<1>3. \A s \in SUBSET S : (\A t \in SUBSET s : t # s => t \in T) => s \in T
  BY <1>2
<1> HIDE DEF T
<1>4. SUBSET S \subseteq T
  BY <1>3, SubsetInduction
<1> QED
  BY <1>4 DEF T

(* Functions that agree on a set have the same sum over it.                   *)
LEMMA SumEqual ==
  ASSUME NEW S, IsFiniteSet(S), NEW f, NEW g, \A x \in S : f[x] = g[x]
  PROVE  SumFunctionOnSet(f, S) = SumFunctionOnSet(g, S)
<1> DEFINE T == {s \in SUBSET S : SumFunctionOnSet(f, s) = SumFunctionOnSet(g, s)}
<1>1. ASSUME NEW s \in SUBSET S, \A t \in SUBSET s : t # s => t \in T
      PROVE  s \in T
  <2>1. CASE s = {}
    BY <2>1, SumEmpty
  <2>2. CASE s # {}
    <3>1. Pick(s) \in s /\ IsFiniteSet(s)
      BY <2>2, PickIn, FS_Subset
    <3>2. s \ {Pick(s)} \in T
      BY <1>1, <3>1
    <3>3. f[Pick(s)] = g[Pick(s)]
      BY <3>1
    <3> QED
      BY <2>2, <3>1, <3>2, <3>3, SumPick
  <2> QED
    BY <2>1, <2>2
<1> HIDE DEF T
<1>2. SUBSET S \subseteq T
  BY <1>1, SubsetInduction
<1> QED
  BY <1>2 DEF T

(* A function changed at one point. *)
LEMMA SumChange ==
  ASSUME NEW S, IsFiniteSet(S), NEW f, NEW g, NEW a \in S,
         \A x \in S : f[x] \in Int /\ g[x] \in Int,
         \A x \in S : x # a => f[x] = g[x]
  PROVE  SumFunctionOnSet(g, S) = SumFunctionOnSet(f, S) - f[a] + g[a]
<1> DEFINE sf == SumFunctionOnSet(f, S \ {a})
           sg == SumFunctionOnSet(g, S \ {a})
<1>1. IsFiniteSet(S \ {a})
  BY FS_RemoveElement
<1>2. sf = sg
  BY <1>1, SumEqual
<1>3. SumFunctionOnSet(f, S) = f[a] + sf /\ SumFunctionOnSet(g, S) = g[a] + sg
  BY SumRemove
<1>4. sf \in Int /\ f[a] \in Int /\ g[a] \in Int
  BY <1>1, SumInt
<1> HIDE DEF sf, sg
<1> QED
  BY <1>2, <1>3, <1>4

(* A sum of zeros. *)
LEMMA SumZero ==
  ASSUME NEW S, IsFiniteSet(S)
  PROVE  SumFunctionOnSet([x \in S |-> 0], S) = 0
<1> DEFINE f == [x \in S |-> 0]
<1>1. \A s \in SUBSET S : SumFunctionOnSet(f, s) = 0
  <2> DEFINE T == {s \in SUBSET S : SumFunctionOnSet(f, s) = 0}
  <2>1. ASSUME NEW s \in SUBSET S, \A t \in SUBSET s : t # s => t \in T
        PROVE  s \in T
    <3>1. CASE s = {}
      BY <3>1, SumEmpty
    <3>2. CASE s # {}
      <4>1. Pick(s) \in s /\ IsFiniteSet(s)
        BY <3>2, PickIn, FS_Subset
      <4>2. s \ {Pick(s)} \in T
        BY <2>1, <4>1
      <4>3. f[Pick(s)] = 0
        BY <4>1
      <4> HIDE DEF f
      <4>4. SumFunctionOnSet(f, s) = f[Pick(s)] + SumFunctionOnSet(f, s \ {Pick(s)})
        BY <3>2, <4>1, SumPick
      <4> QED
        BY <4>2, <4>3, <4>4
    <3> QED
      BY <3>1, <3>2
  <2> HIDE DEF T
  <2>2. SUBSET S \subseteq T
    BY <2>1, SubsetInduction
  <2> QED
    BY <2>2 DEF T
<1>2. S \in SUBSET S
  OBVIOUS
<1> QED
  BY <1>1, <1>2

(* A sum of naturals is a natural.                                            *)
LEMMA SumNat ==
  ASSUME NEW S, IsFiniteSet(S), NEW f, \A x \in S : f[x] \in Nat
  PROVE  SumFunctionOnSet(f, S) \in Nat
<1> DEFINE T == {s \in SUBSET S : SumFunctionOnSet(f, s) \in Nat}
<1>1. ASSUME NEW s \in SUBSET S, \A t \in SUBSET s : t # s => t \in T
      PROVE  s \in T
  <2>1. CASE s = {}
    BY <2>1, SumEmpty
  <2>2. CASE s # {}
    <3>1. Pick(s) \in s /\ IsFiniteSet(s)
      BY <2>2, PickIn, FS_Subset
    <3>2. s \ {Pick(s)} \in T
      BY <1>1, <3>1
    <3>3. SumFunctionOnSet(f, s) = f[Pick(s)] + SumFunctionOnSet(f, s \ {Pick(s)})
      BY <2>2, <3>1, SumPick
    <3> QED
      BY <3>1, <3>2, <3>3
  <2> QED
    BY <2>1, <2>2
<1> HIDE DEF T
<1>2. SUBSET S \subseteq T
  BY <1>1, SubsetInduction
<1> QED
  BY <1>2 DEF T

(* No term of a sum of naturals exceeds it.                                   *)
LEMMA SumBounds ==
  ASSUME NEW S, IsFiniteSet(S), NEW f, \A x \in S : f[x] \in Nat, NEW a \in S
  PROVE  f[a] <= SumFunctionOnSet(f, S)
<1>1. IsFiniteSet(S \ {a})
  BY FS_RemoveElement
<1>2. SumFunctionOnSet(f, S \ {a}) \in Nat
  BY <1>1, SumNat
<1>3. SumFunctionOnSet(f, S) = f[a] + SumFunctionOnSet(f, S \ {a})
  BY SumRemove
<1> QED
  BY <1>2, <1>3

(* Sums add up term by term.                                                  *)
LEMMA SumOfSums ==
  ASSUME NEW S, IsFiniteSet(S), NEW f, NEW g, NEW h,
         \A x \in S : f[x] \in Int /\ g[x] \in Int /\ h[x] = f[x] + g[x]
  PROVE  SumFunctionOnSet(h, S) = SumFunctionOnSet(f, S) + SumFunctionOnSet(g, S)
<1> DEFINE T == {s \in SUBSET S :
                   SumFunctionOnSet(h, s) = SumFunctionOnSet(f, s) + SumFunctionOnSet(g, s)}
<1>1. ASSUME NEW s \in SUBSET S, \A t \in SUBSET s : t # s => t \in T
      PROVE  s \in T
  <2>1. CASE s = {}
    BY <2>1, SumEmpty
  <2>2. CASE s # {}
    <3> DEFINE p == Pick(s)
               r == s \ {p}
    <3>1. p \in s /\ IsFiniteSet(s) /\ IsFiniteSet(r)
      BY <2>2, PickIn, FS_Subset
    <3>2. SumFunctionOnSet(h, r) = SumFunctionOnSet(f, r) + SumFunctionOnSet(g, r)
      BY <1>1, <3>1
    <3>3. /\ SumFunctionOnSet(h, s) = h[p] + SumFunctionOnSet(h, r)
          /\ SumFunctionOnSet(f, s) = f[p] + SumFunctionOnSet(f, r)
          /\ SumFunctionOnSet(g, s) = g[p] + SumFunctionOnSet(g, r)
      BY <2>2, <3>1, SumPick
    <3>4. SumFunctionOnSet(f, r) \in Int /\ SumFunctionOnSet(g, r) \in Int
      BY <3>1, SumInt
    <3>5. f[p] \in Int /\ g[p] \in Int /\ h[p] = f[p] + g[p]
      BY <3>1
    <3> QED
      BY <3>2, <3>3, <3>4, <3>5
  <2> QED
    BY <2>1, <2>2
<1> HIDE DEF T
<1>2. SUBSET S \subseteq T
  BY <1>1, SubsetInduction
<1> QED
  BY <1>2 DEF T

(* The order, and the names of the indices, do not matter. *)
LEMMA SumReindex ==
  ASSUME NEW S, IsFiniteSet(S), NEW R, NEW b \in Bijection(S, R),
         NEW g \in [R -> Int]
  PROVE  SumFunctionOnSet(g, R) = SumFunctionOnSet([x \in S |-> g[b[x]]], S)
<1> DEFINE f == [x \in S |-> g[b[x]]]
<1>0. /\ \A x, y \in S : b[x] = b[y] => x = y
      /\ \A x \in S : b[x] \in R
      /\ \A y \in R : \E x \in S : b[x] = y
      /\ \A x \in S : f[x] \in Int /\ g[b[x]] = f[x]
  BY DEF Bijection, Injection, IsInjective, Surjection
<1> HIDE DEF f
<1> USE <1>0
<1> DEFINE image(s) == {b[x] : x \in s}
           T == {s \in SUBSET S : /\ IsFiniteSet(image(s))
                                  /\ SumFunctionOnSet(g, image(s)) = SumFunctionOnSet(f, s)}
<1>1. ASSUME NEW s \in SUBSET S, \A t \in SUBSET s : t # s => t \in T
      PROVE  s \in T
  <2>1. CASE s = {}
    <3>1. image(s) = {}
      BY <2>1
    <3> QED
      BY <2>1, <3>1, SumEmpty, FS_EmptySet
  <2>2. CASE s # {}
    <3> DEFINE p == Pick(s)
               r == s \ {p}
    <3>1. p \in s /\ IsFiniteSet(s)
      BY <2>2, PickIn, FS_Subset
    <3>2. IsFiniteSet(image(r)) /\ SumFunctionOnSet(g, image(r)) = SumFunctionOnSet(f, r)
      BY <1>1, <3>1
    <3> HIDE DEF p
    <3>3. image(s) = image(r) \cup {b[p]} /\ image(r) = image(s) \ {b[p]} /\ b[p] \in image(s)
      BY <3>1
    <3>4. IsFiniteSet(image(s))
      <4> HIDE DEF image, r
      <4> QED
        BY <3>2, <3>3, FS_AddElement
    <3>5. SumFunctionOnSet(f, s) = f[p] + SumFunctionOnSet(f, r)
      BY <2>2, <3>1, SumRemove
    <3>6. SumFunctionOnSet(g, image(s)) = g[b[p]] + SumFunctionOnSet(g, image(s) \ {b[p]})
      <4> DEFINE I == image(s)
      <4>1. \A y \in I : g[y] \in Int
        OBVIOUS
      <4>2. IsFiniteSet(I) /\ b[p] \in I
        BY <3>3, <3>4
      <4> HIDE DEF I
      <4>3. \A y \in I : SumFunctionOnSet(g, I) = g[y] + SumFunctionOnSet(g, I \ {y})
        BY <4>1, <4>2, SumRemove
      <4> QED
        BY <4>2, <4>3 DEF I
    <3>7. g[b[p]] = f[p]
      BY <3>1
    <3> HIDE DEF r, image
    <3>8. SumFunctionOnSet(g, image(s)) = SumFunctionOnSet(f, s)
      BY <3>2, <3>3, <3>5, <3>6, <3>7
    <3> QED
      BY <3>4, <3>8
  <2> QED
    BY <2>1, <2>2
<1> HIDE DEF T
<1>2. SUBSET S \subseteq T
  BY <1>1, SubsetInduction
<1>3. R = image(S)
  OBVIOUS
<1> HIDE DEF image
<1> QED
  BY <1>2, <1>3 DEF T, f

--------------------------------------------------------------------------------
(* Sums of sequences *)

(* Taking the element at p out of a sequence, or putting it there. *)
LEMMA SumTakeOut ==
  ASSUME NEW n \in Nat, NEW v \in [1..(n + 1) -> Int], NEW w \in [1..n -> Int],
         NEW p \in 1..(n + 1),
         \A j \in 1..n : w[j] = IF j < p THEN v[j] ELSE v[j + 1]
  PROVE  SumFunction(v) = v[p] + SumFunction(w)
<1> DEFINE b == [j \in 1..n |-> IF j < p THEN j ELSE j + 1]
           A == 1..n
           B == (1..(n + 1)) \ {p}
<1>1. IsFiniteSet(1..n) /\ IsFiniteSet(1..(n + 1))
  BY FS_Interval
<1>2. (\A i \in B : \E j \in A : b[j] = i) /\ \A j \in A : b[j] \in B
  <2>1. ASSUME NEW i \in B PROVE \E j \in A : b[j] = i
    <3>1. CASE i < p
      <4>1. i \in 1..n /\ b[i] = i
        BY <3>1
      <4> QED
        BY <4>1
    <3>2. CASE i > p
      <4>1. i - 1 \in 1..n /\ b[i - 1] = i
        BY <3>2
      <4> QED
        BY <4>1
    <3> QED
      BY <2>1, <3>1, <3>2
  <2>2. \A j \in A : b[j] \in B
    OBVIOUS
  <2> QED
    BY <2>1, <2>2
<1>3. \A i, j \in 1..n : b[i] = b[j] => i = j
  OBVIOUS
<1>4. \A j \in 1..n : w[j] \in Int /\ v[b[j]] = w[j]
  OBVIOUS
<1>5. SumFunctionOnSet(v, B) = SumFunctionOnSet(w, A)
  <2> DEFINE g == [i \in B |-> v[i]]
             h == [j \in A |-> g[b[j]]]
  <2>1. IsFiniteSet(A) /\ IsFiniteSet(B)
    BY <1>1, FS_RemoveElement
  <2>2. b \in Bijection(A, B)
    BY <1>2, <1>3 DEF Bijection, Injection, IsInjective, Surjection
  <2>3. g \in [B -> Int] /\ (\A i \in B : v[i] = g[i]) /\ (\A j \in A : h[j] = w[j])
    BY <1>2, <1>4
  <2> HIDE DEF b, A, B, g
  <2>4. SumFunctionOnSet(g, B) = SumFunctionOnSet(h, A)
    BY <2>1, <2>2, <2>3, SumReindex
  <2> HIDE DEF h
  <2>5. SumFunctionOnSet(v, B) = SumFunctionOnSet(g, B)
    BY <2>1, <2>3, SumEqual
  <2>6. SumFunctionOnSet(h, A) = SumFunctionOnSet(w, A)
    BY <2>1, <2>3, SumEqual
  <2> QED
    BY <2>4, <2>5, <2>6
<1> HIDE DEF b
<1>6. SumFunctionOnSet(v, 1..(n + 1)) = v[p] + SumFunctionOnSet(v, (1..(n + 1)) \ {p})
  BY <1>1, SumRemove
<1> QED
  BY <1>5, <1>6 DEF SumFunction

(* The empty sequence sums to 0.                                              *)
LEMMA SumNone == SumFunction(<<>>) = 0
  BY SumEmpty DEF SumFunction

(* A sequence sums to its head and the sum of its tail.                       *)
LEMMA SumTail ==
  ASSUME NEW w \in Seq(Int), w # <<>>
  PROVE  SumFunction(w) = Head(w) + SumFunction(Tail(w))
<1> DEFINE n == Len(w) - 1
           t == Tail(w)
<1>1. n \in Nat /\ n + 1 = Len(w) /\ w \in [1..(n + 1) -> Int] /\ Head(w) = w[1]
  OBVIOUS
<1>2. t \in [1..n -> Int] /\ \A j \in 1..n : t[j] = w[j + 1]
  <2>1. t \in Seq(Int) /\ Len(t) = n /\ \A j \in 1..n : t[j] = w[j + 1]
    BY HeadTailProperties
  <2> QED
    BY <2>1, LenProperties
<1>3. 1 \in 1..(n + 1) /\ \A j \in 1..n : t[j] = IF j < 1 THEN w[j] ELSE w[j + 1]
  BY <1>1, <1>2
<1> HIDE DEF n, t
<1>4. SumFunction(w) = w[1] + SumFunction(t)
  BY <1>1, <1>2, <1>3, SumTakeOut
<1> QED
  BY <1>1, <1>4 DEF t

(* Appending an element adds it.                                              *)
LEMMA SumAppend ==
  ASSUME NEW w \in Seq(Int), NEW e \in Int
  PROVE  SumFunction(Append(w, e)) = SumFunction(w) + e
<1> DEFINE n == Len(w)
           v == Append(w, e)
<1>1. n \in Nat /\ w \in [1..n -> Int]
  OBVIOUS
<1>2. v \in [1..(n + 1) -> Int] /\ v[n + 1] = e /\ \A j \in 1..n : v[j] = w[j]
  <2>1. v \in Seq(Int) /\ Len(v) = n + 1
    BY AppendProperties
  <2>2. v[n + 1] = e /\ \A j \in 1..n : v[j] = w[j]
    BY AppendProperties
  <2> QED
    BY <2>1, <2>2, LenProperties
<1>3. SumFunction(w) \in Int
  <2>1. IsFiniteSet(1..n)
    BY FS_Interval
  <2> QED
    BY <1>1, <2>1, SumInt DEF SumFunction
<1> HIDE DEF n, v
<1>4. SumFunction(v) = v[n + 1] + SumFunction(w)
  BY <1>1, <1>2, SumTakeOut
<1> QED
  BY <1>2, <1>3, <1>4 DEF v

(* A sequence of integers has an integer sum.                                 *)
LEMMA SumSeqInt ==
  ASSUME NEW w \in Seq(Int)
  PROVE  SumFunction(w) \in Int
<1>1. DOMAIN w = 1..Len(w) /\ Len(w) \in Nat
  OBVIOUS
<1>2. IsFiniteSet(1..Len(w))
  BY <1>1, FS_Interval
<1> QED
  BY <1>1, <1>2, SumInt DEF SumFunction

(* A sequence of naturals has a natural sum.                                  *)
LEMMA SumSeqNat ==
  ASSUME NEW w \in Seq(Nat)
  PROVE  SumFunction(w) \in Nat
<1>1. DOMAIN w = 1..Len(w) /\ Len(w) \in Nat
  OBVIOUS
<1>2. IsFiniteSet(1..Len(w))
  BY <1>1, FS_Interval
<1> QED
  BY <1>1, <1>2, SumNat DEF SumFunction

--------------------------------------------------------------------------------
(* Sequences whose elements are weighed *)

(* The sum of the weights of the elements of a sequence. *)
Weigh(s, wt) == SumFunction([i \in DOMAIN s |-> wt[s[i]]])

(* long is short with one element more, at p. *)
TakenOut(short, long, p) ==
  /\ p \in 1..Len(long)
  /\ Len(long) = Len(short) + 1
  /\ \A j \in 1..Len(short) : short[j] = IF j < p THEN long[j] ELSE long[j + 1]

(* new is old with another element at p. *)
Replaced(new, old, p) ==
  /\ p \in 1..Len(old)
  /\ Len(new) = Len(old)
  /\ \A j \in 1..Len(old) : j # p => new[j] = old[j]

(* An empty sequence weighs nothing. *)
LEMMA WeighNone ==
  ASSUME NEW wt
  PROVE  Weigh(<<>>, wt) = 0
<1>1. SumFunctionOnSet([i \in DOMAIN <<>> |-> wt[<<>>[i]]], {}) = 0
  BY SumEmpty
<1>2. DOMAIN [i \in DOMAIN <<>> |-> wt[<<>>[i]]] = {}
  OBVIOUS
<1> QED
  BY <1>1, <1>2 DEF Weigh, SumFunction

(* The weights of a sequence, as a function. *)
LEMMA Weights ==
  ASSUME NEW T, NEW s \in Seq(T), NEW wt \in [T -> Int]
  PROVE  /\ Len(s) \in Nat
         /\ IsFiniteSet(1..Len(s))
         /\ Weigh(s, wt) = SumFunctionOnSet([i \in 1..Len(s) |-> wt[s[i]]], 1..Len(s))
         /\ Weigh(s, wt) = SumFunction([i \in 1..Len(s) |-> wt[s[i]]])
         /\ [i \in 1..Len(s) |-> wt[s[i]]] \in [1..Len(s) -> Int]
         /\ \A i \in 1..Len(s) : s[i] \in T
<1>1. DOMAIN s = 1..Len(s) /\ Len(s) \in Nat /\ \A i \in 1..Len(s) : s[i] \in T
  OBVIOUS
<1>2. IsFiniteSet(1..Len(s))
  BY <1>1, FS_Interval
<1> QED
  BY <1>1, <1>2 DEF Weigh, SumFunction

(* Integer weights have an integer sum. *)
LEMMA WeighInt ==
  ASSUME NEW T, NEW s \in Seq(T), NEW wt \in [T -> Int]
  PROVE  Weigh(s, wt) \in Int
<1> DEFINE v == [i \in 1..Len(s) |-> wt[s[i]]]
<1>1. IsFiniteSet(1..Len(s)) /\ Weigh(s, wt) = SumFunctionOnSet(v, 1..Len(s))
  BY Weights
<1>2. \A i \in 1..Len(s) : v[i] \in Int
  BY Weights
<1> HIDE DEF v
<1> QED
  BY <1>1, <1>2, SumInt

(* Natural weights have a natural sum. *)
LEMMA WeighNat ==
  ASSUME NEW T, NEW s \in Seq(T), NEW wt \in [T -> Nat]
  PROVE  Weigh(s, wt) \in Nat
<1> DEFINE v == [i \in 1..Len(s) |-> wt[s[i]]]
<1>0. wt \in [T -> Int]
  OBVIOUS
<1>1. IsFiniteSet(1..Len(s)) /\ Weigh(s, wt) = SumFunctionOnSet(v, 1..Len(s))
  BY <1>0, Weights
<1>2. \A i \in 1..Len(s) : v[i] \in Nat
  BY <1>0, Weights
<1> HIDE DEF v
<1> QED
  BY <1>1, <1>2, SumNat

(* No element of a sequence with natural weights outweighs it. *)
LEMMA WeighBounds ==
  ASSUME NEW T, NEW s \in Seq(T), NEW wt \in [T -> Nat],
         NEW p \in 1..Len(s)
  PROVE  wt[s[p]] <= Weigh(s, wt)
<1> DEFINE v == [i \in 1..Len(s) |-> wt[s[i]]]
<1>0. wt \in [T -> Int]
  OBVIOUS
<1>1. IsFiniteSet(1..Len(s)) /\ Weigh(s, wt) = SumFunctionOnSet(v, 1..Len(s))
  BY <1>0, Weights
<1>2. \A i \in 1..Len(s) : v[i] \in Nat
  BY <1>0, Weights
<1>3. v[p] = wt[s[p]]
  OBVIOUS
<1> HIDE DEF v
<1> QED
  BY <1>1, <1>2, <1>3, SumBounds

(* Appending an element adds its weight. *)
LEMMA WeighAppend ==
  ASSUME NEW T, NEW s \in Seq(T), NEW e \in T, NEW wt \in [T -> Int]
  PROVE  Weigh(Append(s, e), wt) = Weigh(s, wt) + wt[e]
<1> DEFINE a == Append(s, e)
           n == Len(s)
           v == [i \in 1..(n + 1) |-> wt[a[i]]]
           w == [i \in 1..n |-> wt[s[i]]]
<1>1. /\ a \in Seq(T) /\ Len(a) = n + 1 /\ a[n + 1] = e
      /\ \A j \in 1..n : a[j] = s[j]
  BY AppendProperties
<1>2. n \in Nat /\ Weigh(s, wt) = SumFunction(w) /\ w \in [1..n -> Int]
  BY Weights
<1>3. Weigh(a, wt) = SumFunction(v) /\ v \in [1..(n + 1) -> Int]
  <2> HIDE DEF a, n
  <2> QED
    BY <1>1, Weights
<1>4. n + 1 \in 1..(n + 1) /\ \A j \in 1..n : w[j] = IF j < n + 1 THEN v[j] ELSE v[j + 1]
  BY <1>1, <1>2
<1>5. v[n + 1] = wt[e]
  BY <1>1, <1>2
<1>6. Weigh(s, wt) \in Int /\ wt[e] \in Int
  BY WeighInt
<1> HIDE DEF a, n, v, w
<1>7. SumFunction(v) = v[n + 1] + SumFunction(w)
  BY <1>2, <1>3, <1>4, SumTakeOut
<1>8. Weigh(a, wt) = Weigh(s, wt) + wt[e]
  BY <1>2, <1>3, <1>5, <1>6, <1>7
<1> QED
  BY <1>8 DEF a

(* Taking an element out, or putting it in, takes out or puts in its weight. *)
LEMMA WeighTakeOut ==
  ASSUME NEW T, NEW new \in Seq(T), NEW old \in Seq(T), NEW p, TakenOut(old, new, p),
         NEW wt \in [T -> Int]
  PROVE  Weigh(new, wt) = wt[new[p]] + Weigh(old, wt)
<1> DEFINE n == Len(old)
           v == [i \in 1..(n + 1) |-> wt[new[i]]]
           w == [i \in 1..n |-> wt[old[i]]]
<1>0. /\ p \in 1..Len(new) /\ Len(new) = Len(old) + 1
      /\ \A j \in 1..Len(old) : old[j] = IF j < p THEN new[j] ELSE new[j + 1]
  BY DEF TakenOut
<1>1. n \in Nat /\ Weigh(old, wt) = SumFunction(w) /\ w \in [1..n -> Int]
  BY Weights
<1>2. Weigh(new, wt) = SumFunction(v) /\ v \in [1..(n + 1) -> Int]
  BY <1>0, Weights
<1>3. ASSUME NEW j \in 1..n PROVE w[j] = IF j < p THEN v[j] ELSE v[j + 1]
  <2>1. w[j] = wt[old[j]] /\ v[j] = wt[new[j]] /\ v[j + 1] = wt[new[j + 1]]
    BY <1>0, <1>1
  <2>2. old[j] = IF j < p THEN new[j] ELSE new[j + 1]
    BY <1>0
  <2> HIDE DEF n, v, w
  <2> QED
    BY <2>1, <2>2
<1>p. p \in 1..(n + 1)
  BY <1>0
<1>4. v[p] = wt[new[p]]
  BY <1>0, <1>1
<1> HIDE DEF n, v, w
<1>5. SumFunction(v) = v[p] + SumFunction(w)
  BY <1>1, <1>2, <1>3, <1>p, SumTakeOut
<1> QED
  BY <1>1, <1>2, <1>4, <1>5

(* Replacing an element replaces its weight. *)
LEMMA WeighChange ==
  ASSUME NEW T, NEW new \in Seq(T), NEW old \in Seq(T), NEW p, Replaced(new, old, p),
         NEW wt \in [T -> Int]
  PROVE  Weigh(new, wt) = Weigh(old, wt) - wt[old[p]] + wt[new[p]]
<1> DEFINE S == 1..Len(old)
           v == [i \in S |-> wt[new[i]]]
           w == [i \in S |-> wt[old[i]]]
<1>0. /\ p \in 1..Len(old) /\ Len(new) = Len(old)
      /\ \A j \in 1..Len(old) : j # p => new[j] = old[j]
  BY DEF Replaced
<1>1. IsFiniteSet(S) /\ Weigh(old, wt) = SumFunctionOnSet(w, S)
  <2>1. IsFiniteSet(1..Len(old))
    BY Weights
  <2>2. Weigh(old, wt)
          = SumFunctionOnSet([i \in 1..Len(old) |-> wt[old[i]]], 1..Len(old))
    <3>1. DOMAIN old = 1..Len(old)
      OBVIOUS
    <3> QED
      BY <3>1, Zenon DEF Weigh, SumFunction
  <2> QED
    BY <2>1, <2>2
<1>2. Weigh(new, wt) = SumFunctionOnSet(v, S)
  <2>1. DOMAIN new = S
    BY <1>0
  <2> QED
    BY <2>1 DEF Weigh, SumFunction
<1>3. /\ p \in S
      /\ \A j \in S : w[j] \in Int /\ v[j] \in Int
      /\ \A j \in S : j # p => w[j] = v[j]
  BY <1>0
<1>4. v[p] = wt[new[p]] /\ w[p] = wt[old[p]]
  BY <1>3
<1> HIDE DEF S, v, w
<1>5. SumFunctionOnSet(v, S) = SumFunctionOnSet(w, S) - w[p] + v[p]
  BY <1>1, <1>3, SumChange, Zenon
<1> QED
  BY <1>1, <1>2, <1>4, <1>5

(* A sum over a set splits into the sums over its parts.                      *)
LEMMA SumSplit ==
  ASSUME NEW S, IsFiniteSet(S), NEW f, \A x \in S : f[x] \in Int, NEW D
  PROVE  SumFunctionOnSet(f, S) = SumFunctionOnSet(f, S \cap D) + SumFunctionOnSet(f, S \ D)
<1> DEFINE T == {s \in SUBSET S :
                   SumFunctionOnSet(f, s) = SumFunctionOnSet(f, s \cap D) + SumFunctionOnSet(f, s \ D)}
<1>1. \A s \in SUBSET S : IsFiniteSet(s) /\ SumFunctionOnSet(f, s) \in Int
  BY FS_Subset, SumInt
<1>2. ASSUME NEW s \in SUBSET S, \A t \in SUBSET s : t # s => t \in T
      PROVE  SumFunctionOnSet(f, s) = SumFunctionOnSet(f, s \cap D) + SumFunctionOnSet(f, s \ D)
  <2>1. CASE s = {}
    <3>1. s \cap D = {} /\ s \ D = {}
      BY <2>1
    <3>2. SumFunctionOnSet(f, {}) = 0
      BY SumEmpty
    <3> QED
      BY <2>1, <3>1, <3>2
  <2>2. CASE s # {}
    <3>1. PICK x \in s : TRUE
      BY <2>2
    <3> DEFINE t == s \ {x}
    <3>2. SumFunctionOnSet(f, s) = f[x] + SumFunctionOnSet(f, t)
      BY <1>1, SumRemove
    <3>3. SumFunctionOnSet(f, t) = SumFunctionOnSet(f, t \cap D) + SumFunctionOnSet(f, t \ D)
      <4>1. t \in SUBSET s /\ t # s
        OBVIOUS
      <4> QED
        BY <1>2, <4>1
    <3>4. /\ IsFiniteSet(s \cap D) /\ IsFiniteSet(s \ D)
          /\ s \cap D \in SUBSET S /\ s \ D \in SUBSET S /\ t \cap D \in SUBSET S /\ t \ D \in SUBSET S
      BY <1>1
    <3>5. /\ f[x] \in Int
          /\ SumFunctionOnSet(f, t \cap D) \in Int /\ SumFunctionOnSet(f, t \ D) \in Int
      BY <1>1, <3>4
    <3>6. CASE x \in D
      <4>1. x \in s \cap D /\ t \cap D = (s \cap D) \ {x} /\ t \ D = s \ D
        BY <3>6
      <4>2. SumFunctionOnSet(f, s \cap D) = f[x] + SumFunctionOnSet(f, (s \cap D) \ {x})
        BY <3>4, <4>1, SumRemove
      <4>3. SumFunctionOnSet(f, t) = SumFunctionOnSet(f, t \cap D) + SumFunctionOnSet(f, t \ D)
        BY <3>3
      <4> HIDE DEF t, T
      <4>4. SumFunctionOnSet(f, s \cap D) = f[x] + SumFunctionOnSet(f, t \cap D)
        BY <4>1, <4>2
      <4>5. SumFunctionOnSet(f, s \ D) = SumFunctionOnSet(f, t \ D)
        BY <4>1
      <4> QED
        BY <3>2, <4>3, <3>5, <4>4, <4>5
    <3>7. CASE x \notin D
      <4>1. x \in s \ D /\ t \ D = (s \ D) \ {x} /\ t \cap D = s \cap D
        BY <3>7
      <4>2. SumFunctionOnSet(f, s \ D) = f[x] + SumFunctionOnSet(f, (s \ D) \ {x})
        BY <3>4, <4>1, SumRemove
      <4>3. SumFunctionOnSet(f, t) = SumFunctionOnSet(f, t \cap D) + SumFunctionOnSet(f, t \ D)
        BY <3>3
      <4> HIDE DEF t, T
      <4>4. SumFunctionOnSet(f, s \ D) = f[x] + SumFunctionOnSet(f, t \ D)
        BY <4>1, <4>2
      <4>5. SumFunctionOnSet(f, s \cap D) = SumFunctionOnSet(f, t \cap D)
        BY <4>1
      <4> QED
        BY <3>2, <4>3, <3>5, <4>4, <4>5
    <3> QED
      BY <3>6, <3>7
  <2> QED
    BY <2>1, <2>2
<1>3. SUBSET S \subseteq T
  <2>1. \A s \in SUBSET S : (\A t \in SUBSET s : t # s => t \in T) => s \in T
    BY <1>2
  <2> HIDE DEF T
  <2> QED
    BY <2>1, SubsetInduction
<1> QED
  BY <1>3 DEF T

(* A sum of naturals over a part is no more than over the whole.              *)
LEMMA SumSubset ==
  ASSUME NEW S, IsFiniteSet(S), NEW f, \A x \in S : f[x] \in Nat, NEW C \in SUBSET S
  PROVE  SumFunctionOnSet(f, C) <= SumFunctionOnSet(f, S)
<1>0. \A x \in S : f[x] \in Int
  OBVIOUS
<1>1. SumFunctionOnSet(f, S) = SumFunctionOnSet(f, S \cap C) + SumFunctionOnSet(f, S \ C)
  BY <1>0, SumSplit
<1>2. S \cap C = C /\ IsFiniteSet(C) /\ IsFiniteSet(S \ C)
  BY FS_Subset
<1>3. SumFunctionOnSet(f, C) \in Nat /\ SumFunctionOnSet(f, S \ C) \in Nat
  BY <1>2, SumNat
<1>4. SumFunctionOnSet(f, S) = SumFunctionOnSet(f, C) + SumFunctionOnSet(f, S \ C)
  BY <1>1, <1>2
<1> QED
  BY <1>3, <1>4

(* f sums to at most b over every finite part of D. *)
AtMost(f, D, b) ==
  /\ IsFiniteSet(D) /\ b \in Nat
  /\ \A x \in D : f[x] \in Nat
  /\ \A C \in SUBSET D : SumFunctionOnSet(f, C) <= b

LEMMA AtMostOne ==
  ASSUME NEW f, NEW p, f[p] \in Nat
  PROVE  AtMost(f, {p}, f[p])
<1>1. IsFiniteSet({p}) /\ SumFunctionOnSet(f, {}) = 0
  BY FS_Singleton, SumEmpty
<1>2. SumFunctionOnSet(f, {p}) = f[p] + SumFunctionOnSet(f, {p} \ {p})
  BY <1>1, SumRemove
<1>3. \A C \in SUBSET {p} : C = {} \/ C = {p}
  OBVIOUS
<1>4. {p} \ {p} = {}
  OBVIOUS
<1>5. SumFunctionOnSet(f, {p}) = f[p]
  BY <1>1, <1>2, <1>4
<1> QED
  BY <1>1, <1>3, <1>5 DEF AtMost

LEMMA AtMostBoth ==
  ASSUME NEW f, NEW D, NEW E, NEW a, NEW b, AtMost(f, D, a), AtMost(f, E, b)
  PROVE  AtMost(f, D \cup E, a + b)
<1>1. IsFiniteSet(D \cup E)
  BY FS_Union DEF AtMost
<1>2. \A x \in D \cup E : f[x] \in Nat
  BY DEF AtMost
<1>3. ASSUME NEW C \in SUBSET (D \cup E) PROVE SumFunctionOnSet(f, C) <= a + b
  <2>1. IsFiniteSet(C) /\ C \cap D \in SUBSET D /\ C \ D \in SUBSET E
    BY <1>1, FS_Subset
  <2>2. SumFunctionOnSet(f, C) = SumFunctionOnSet(f, C \cap D) + SumFunctionOnSet(f, C \ D)
    BY <1>2, <2>1, SumSplit, SMTT(30)
  <2>3. IsFiniteSet(C \cap D) /\ IsFiniteSet(C \ D)
    BY <2>1, FS_Subset
  <2>4. SumFunctionOnSet(f, C \cap D) \in Nat /\ SumFunctionOnSet(f, C \ D) \in Nat
    BY <1>2, <2>1, <2>3, SumNat
  <2>5. /\ SumFunctionOnSet(f, C \cap D) <= a /\ SumFunctionOnSet(f, C \ D) <= b
        /\ a \in Nat /\ b \in Nat
    BY <2>1 DEF AtMost
  <2> QED
    BY <2>2, <2>4, <2>5
<1>4. a + b \in Nat
  BY DEF AtMost
<1> QED
  BY <1>1, <1>2, <1>3, <1>4 DEF AtMost
================================================================================
