-------------------------- MODULE CollectionLemmas --------------------------
(***************************************************************************)
(* Lemmas about finite collections that the proofs of several components   *)
(* need: what the sum of a function over a finite set is and how it grows, *)
(* that a fold is what its steps make of it, and that a finite set has     *)
(* exactly one line in a strict order.                                     *)
(*                                                                         *)
(* Sums and folds of the community modules are recursive functions; that   *)
(* the recursion defines one, and that the order of the summands does not  *)
(* matter, is shown by induction on the number of elements.                *)
(***************************************************************************)
EXTENDS Integers, Functions, FiniteSetTheorems, WellFoundedInduction, TLAPS

(* A set of natural numbers has a least one.                               *)
LEMMA LeastNatural ==
    ASSUME NEW T \in SUBSET Nat, T # {}
    PROVE  \E n \in T : \A m \in T : ~(m < n)
<1> DEFINE R == OpToRel(<, Nat)
<1>1. IsWellFoundedOn(R, Nat)
  BY NatLessThanWellFounded
<1>2. PICK n \in T : \A m \in T : ~ (<<m, n>> \in R)
  <2> HIDE DEF R
  <2> QED
    BY <1>1, WFMin
<1> QED
  BY <1>2 DEF OpToRel

(* Numbers that are bounded have a greatest one.                           *)
LEMMA GreatestNatural ==
    ASSUME NEW T \in SUBSET Nat, T # {}, NEW b \in Nat, \A n \in T : n <= b
    PROVE  \E n \in T : \A m \in T : m <= n
<1> DEFINE D == {b - n : n \in T}
<1>1. D \in SUBSET Nat /\ D # {}
  <2>1. \A n \in T : n \in Nat /\ b - n \in Nat
    OBVIOUS
  <2> QED
    BY <2>1
<1>2. PICK d \in D : \A e \in D : ~(e < d)
  <2> HIDE DEF D
  <2> QED
    BY <1>1, LeastNatural
<1>3. PICK n \in T : d = b - n
  OBVIOUS
<1>4. ASSUME NEW m \in T PROVE m <= n
  <2>1. b - m \in D /\ m \in Nat /\ n \in Nat
    OBVIOUS
  <2>2. ~(b - m < b - n)
    BY <1>2, <1>3, <2>1
  <2> QED
    BY <2>1, <2>2
<1> QED
  BY <1>4

(* Induction on the natural numbers, for a set.                            *)
LEMMA SetInduction ==
    ASSUME NEW T \in SUBSET Nat, 0 \in T, \A n \in T : n + 1 \in T
    PROVE  T = Nat
<1> DEFINE Rest == Nat \ T
<1>1. SUFFICES ASSUME Rest # {}
               PROVE  FALSE
  OBVIOUS
<1>2. Rest \in SUBSET Nat
  OBVIOUS
<1>3. PICK n \in Rest : \A m \in Rest : ~(m < n)
  <2> HIDE DEF Rest
  <2> QED
    BY <1>1, <1>2, LeastNatural
<1>4. n \in Nat /\ n # 0
  OBVIOUS
<1>5. n - 1 \in Nat /\ n - 1 < n /\ (n - 1) + 1 = n
  BY <1>4
<1>6. n - 1 \in T
  BY <1>3, <1>5
<1> QED
  BY <1>5, <1>6

-----------------------------------------------------------------------------
(* The recursion of the sum.                                               *)

(* The summand that is taken first.                                        *)
FirstOf(s) == CHOOSE x \in s : TRUE

(* One step of the sum, from the sums g of smaller sets.                   *)
SumStep(f, g, s) == IF s = {} THEN 0 ELSE f[FirstOf(s)] + g[s \ {FirstOf(s)}]

(* The sums of the sets in D.                                              *)
SumsOn(g, f, D) == g = [s \in D |-> SumStep(f, g, s)]

SumIter(f, S) == CHOOSE iter : SumsOn(iter, f, SUBSET S)

SmallSets(S, n) == {s \in SUBSET S : Cardinality(s) <= n}

(* A set that is not empty has a first summand.                            *)
LEMMA FirstOfIn ==
    ASSUME NEW s, s # {}
    PROVE  FirstOf(s) \in s
BY DEF FirstOf

(* SumFunctionOnSet is the recursion SumIter: its definitions expanded.    *)
LEMMA SumIsIter ==
    ASSUME NEW f, NEW S
    PROVE  SumFunctionOnSet(f, S) = SumIter(f, S)[S]
BY DEF SumFunctionOnSet, FoldFunctionOnSet, MapThenFoldSet, SumIter, SumsOn, FirstOf, SumStep

(* The rest of a small set is smaller.                                     *)
LEMMA RestIsSmaller ==
    ASSUME NEW S, IsFiniteSet(S), S # {}
    PROVE  /\ IsFiniteSet(S \ {FirstOf(S)})
           /\ Cardinality(S) \in Nat \ {0}
           /\ Cardinality(S \ {FirstOf(S)}) = Cardinality(S) - 1
<1>1. FirstOf(S) \in S
  BY FirstOfIn
<1>2. Cardinality(S) \in Nat /\ Cardinality(S) # 0
  BY FS_CardinalityType, FS_EmptySet
<1> QED
  BY <1>1, <1>2, FS_RemoveElement

(* The sums of the sets of at most n elements exist, for every n.          *)
LEMMA IterUpTo ==
    ASSUME NEW f, NEW S, IsFiniteSet(S)
    PROVE  \A n \in Nat : \E g : SumsOn(g, f, SmallSets(S, n))
<1> DEFINE T == {n \in Nat : \E g : SumsOn(g, f, SmallSets(S, n))}
<1>1. 0 \in T
  <2>1. \A s \in SmallSets(S, 0) : s = {}
    BY FS_Subset, FS_EmptySet, FS_CardinalityType DEF SmallSets
  <2> DEFINE g == [s \in SmallSets(S, 0) |-> 0]
  <2>2. SumsOn(g, f, SmallSets(S, 0))
    BY <2>1 DEF SumStep, SumsOn
  <2> QED
    BY <2>2
<1>2. ASSUME NEW n \in T PROVE n + 1 \in T
  <2>1. PICK g : SumsOn(g, f, SmallSets(S, n))
    OBVIOUS
  <2>2. n \in Nat
    OBVIOUS
  <2> HIDE DEF T
  <2> DEFINE h == [s \in SmallSets(S, n + 1) |-> SumStep(f, g, s)]
  <2>3. ASSUME NEW s \in SmallSets(S, n + 1), s # {}
        PROVE  s \ {FirstOf(s)} \in SmallSets(S, n)
    <3>1. IsFiniteSet(s)
      BY FS_Subset DEF SmallSets
    <3>2. Cardinality(s) \in Nat /\ Cardinality(s) <= n + 1
      BY <3>1, FS_CardinalityType DEF SmallSets
    <3>3. Cardinality(s \ {FirstOf(s)}) = Cardinality(s) - 1
      BY <3>1, <2>3, RestIsSmaller
    <3>4. Cardinality(s \ {FirstOf(s)}) <= n
      BY <3>2, <3>3, <2>2
    <3> QED
      BY <3>4 DEF SmallSets
  <2>4. ASSUME NEW s \in SmallSets(S, n)
        PROVE  s \in SmallSets(S, n + 1) /\ h[s] = g[s]
    <3>1. Cardinality(s) \in Nat
      BY FS_Subset, FS_CardinalityType DEF SmallSets
    <3>2. s \in SmallSets(S, n + 1)
      BY <3>1, <2>2 DEF SmallSets
    <3>3. g[s] = SumStep(f, g, s)
      BY <2>1, Zenon DEF SumsOn
    <3> QED
      BY <3>2, <3>3
  <2>5. \A s \in SmallSets(S, n + 1) : SumStep(f, g, s) = SumStep(f, h, s)
    BY <2>3, <2>4 DEF SumStep
  <2>6. SumsOn(h, f, SmallSets(S, n + 1))
    <3> HIDE DEF h
    <3>1. h = [s \in SmallSets(S, n + 1) |-> SumStep(f, g, s)]
      BY DEF h
    <3> QED
      BY <3>1, <2>5, Zenon DEF SumsOn
  <2> HIDE DEF h
  <2> QED
    BY <2>2, <2>6 DEF T
<1>3. T \in SUBSET Nat
  OBVIOUS
<1>4. T = Nat
  <2> HIDE DEF T
  <2> QED
    BY <1>1, <1>2, <1>3, SetInduction
<1> QED
  BY <1>4

(* The sums of all subsets of a finite set exist.                          *)
LEMMA IterDefined ==
    ASSUME NEW f, NEW S, IsFiniteSet(S)
    PROVE  SumsOn(SumIter(f, S), f, SUBSET S)
<1> DEFINE n == Cardinality(S)
<1>1. n \in Nat
  BY FS_CardinalityType
<1>2. SmallSets(S, n) = SUBSET S
  BY FS_Subset DEF SmallSets
<1> HIDE DEF n
<1>3. \A m \in Nat : \E g : SumsOn(g, f, SmallSets(S, m))
  BY IterUpTo
<1>4. PICK g : SumsOn(g, f, SUBSET S)
  BY <1>1, <1>2, <1>3
<1> QED
  BY <1>4, Zenon DEF SumIter

(* SumIter satisfies the equation of the recursion on every subset.        *)
LEMMA IterStep ==
    ASSUME NEW f, NEW S, IsFiniteSet(S)
    PROVE  \A s \in SUBSET S : SumIter(f, S)[s] = SumStep(f, SumIter(f, S), s)
<1>1. SumsOn(SumIter(f, S), f, SUBSET S)
  BY IterDefined
<1>2. ASSUME NEW g, SumsOn(g, f, SUBSET S)
      PROVE  \A s \in SUBSET S : g[s] = SumStep(f, g, s)
  BY <1>2, Zenon DEF SumsOn
<1> QED
  BY <1>1, <1>2

-----------------------------------------------------------------------------
(* The sum.                                                                *)

(* The sums of two sets agree on their common subsets.                     *)
LEMMA IterAgrees ==
    ASSUME NEW f, NEW S, IsFiniteSet(S), NEW R \in SUBSET S
    PROVE  SumIter(f, S)[R] = SumIter(f, R)[R]
<1> DEFINE T == {n \in Nat : \A s \in SmallSets(R, n) : SumIter(f, S)[s] = SumIter(f, R)[s]}
<1>1. IsFiniteSet(R)
  BY FS_Subset
<1>2. \A s \in SUBSET R : /\ SumIter(f, S)[s] = SumStep(f, SumIter(f, S), s)
                          /\ SumIter(f, R)[s] = SumStep(f, SumIter(f, R), s)
  <2>1. \A s \in SUBSET S : SumIter(f, S)[s] = SumStep(f, SumIter(f, S), s)
    BY IterStep
  <2>2. \A s \in SUBSET R : SumIter(f, R)[s] = SumStep(f, SumIter(f, R), s)
    BY <1>1, IterStep
  <2> QED
    BY <2>1, <2>2
<1>3. 0 \in T
  <2>1. \A s \in SmallSets(R, 0) : s = {}
    BY <1>1, FS_Subset, FS_EmptySet, FS_CardinalityType DEF SmallSets
  <2> QED
    BY <2>1, <1>2 DEF SumStep
<1>4. ASSUME NEW n \in T PROVE n + 1 \in T
  <2>1. ASSUME NEW s \in SmallSets(R, n + 1)
        PROVE  SumIter(f, S)[s] = SumIter(f, R)[s]
    <3>1. CASE s = {}
      BY <3>1, <1>2 DEF SumStep
    <3>2. CASE s # {}
      <4>1. IsFiniteSet(s) /\ s \in SUBSET R
        BY <1>1, FS_Subset DEF SmallSets
      <4>2. Cardinality(s) \in Nat /\ Cardinality(s) <= n + 1 /\ n \in Nat
        BY <4>1, FS_CardinalityType DEF SmallSets
      <4>3. Cardinality(s \ {FirstOf(s)}) = Cardinality(s) - 1
        BY <3>2, <4>1, RestIsSmaller
      <4>4. Cardinality(s \ {FirstOf(s)}) <= n
        BY <4>2, <4>3
      <4>5. s \ {FirstOf(s)} \in SmallSets(R, n)
        BY <4>4, <4>1 DEF SmallSets
      <4>6. SumIter(f, S)[s \ {FirstOf(s)}] = SumIter(f, R)[s \ {FirstOf(s)}]
        BY <4>5
      <4> HIDE DEF T
      <4> QED
        BY <4>6, <4>1, <1>2 DEF SumStep
    <3> QED
      BY <3>1, <3>2
  <2> QED
    BY <2>1
<1>5. T = Nat
  <2>1. T \in SUBSET Nat
    OBVIOUS
  <2> HIDE DEF T
  <2> QED
    BY <1>3, <1>4, <2>1, SetInduction
<1>6. Cardinality(R) \in T /\ R \in SmallSets(R, Cardinality(R))
  BY <1>1, <1>5, FS_CardinalityType DEF SmallSets
<1> QED
  BY <1>6

(* The empty sum.                                                          *)
LEMMA SumOfNone ==
    ASSUME NEW f
    PROVE  SumFunctionOnSet(f, {}) = 0
<1>1. SumIter(f, {})[{}] = SumStep(f, SumIter(f, {}), {})
  BY FS_EmptySet, IterStep
<1> QED
  BY <1>1, SumIsIter DEF SumStep

(* A sum is its first summand and the sum of the rest.                     *)
LEMMA SumUnfolds ==
    ASSUME NEW f, NEW S, IsFiniteSet(S), S # {}
    PROVE  SumFunctionOnSet(f, S) = f[FirstOf(S)] + SumFunctionOnSet(f, S \ {FirstOf(S)})
<1>1. SumIter(f, S)[S] = SumStep(f, SumIter(f, S), S)
  BY IterStep
<1>2. SumIter(f, S)[S \ {FirstOf(S)}] = SumIter(f, S \ {FirstOf(S)})[S \ {FirstOf(S)}]
  BY IterAgrees
<1> QED
  BY <1>1, <1>2, SumIsIter DEF SumStep

(* Integers have an integer sum, and any summand may be taken first.       *)
LEMMA SumRemove ==
    ASSUME NEW f, NEW S, IsFiniteSet(S), \A x \in S : f[x] \in Int
    PROVE  /\ SumFunctionOnSet(f, S) \in Int
           /\ \A x \in S :
                SumFunctionOnSet(f, S) = f[x] + SumFunctionOnSet(f, S \ {x})
<1> DEFINE sum(R) == SumFunctionOnSet(f, R)
           Good(R) == sum(R) \in Int /\ \A x \in R : sum(R) = f[x] + sum(R \ {x})
           T == {n \in Nat : \A R \in SmallSets(S, n) : Good(R)}
<1>1. \A R \in SUBSET S : R # {} => sum(R) = f[FirstOf(R)] + sum(R \ {FirstOf(R)})
  BY FS_Subset, SumUnfolds
<1>2. sum({}) = 0
  BY SumOfNone
<1>3. 0 \in T
  <2>1. \A R \in SmallSets(S, 0) : R = {}
    BY FS_Subset, FS_EmptySet, FS_CardinalityType DEF SmallSets
  <2>2. Good({})
    BY <1>2
  <2> HIDE DEF Good
  <2> QED
    BY <2>1, <2>2
<1>4. ASSUME NEW n \in T PROVE n + 1 \in T
  <2>0. n \in Nat /\ n + 1 \in Nat
    OBVIOUS
  <2>1. \A R \in SmallSets(S, n) : Good(R)
    OBVIOUS
  <2>2. ASSUME NEW R \in SmallSets(S, n + 1), R # {}
        PROVE  /\ R \in SUBSET S
               /\ \A x \in R : R \ {x} \in SmallSets(S, n)
    <3>1. IsFiniteSet(R) /\ R \in SUBSET S
      BY FS_Subset DEF SmallSets
    <3>2. Cardinality(R) \in Nat /\ Cardinality(R) <= n + 1
      BY <3>1, FS_CardinalityType DEF SmallSets
    <3>3. ASSUME NEW x \in R PROVE R \ {x} \in SmallSets(S, n)
      <4>1. Cardinality(R \ {x}) = Cardinality(R) - 1
        BY <3>1, FS_RemoveElement
      <4>2. Cardinality(R \ {x}) <= n
        BY <4>1, <3>2, <2>0
      <4> QED
        BY <4>2, <3>1 DEF SmallSets
    <3> QED
      BY <3>1, <3>3
  <2> HIDE DEF sum, T
  <2>3. ASSUME NEW R \in SmallSets(S, n + 1)
        PROVE  Good(R)
    <3>1. CASE R = {}
      BY <3>1, <1>2
    <3>2. CASE R # {}
      <4> DEFINE p == FirstOf(R)
      <4>1. p \in R
        BY <3>2, FirstOfIn
      <4>2. sum(R) = f[p] + sum(R \ {p})
        BY <2>2, <3>2, <1>1
      <4>3. f[p] \in Int /\ sum(R \ {p}) \in Int
        BY <4>1, <2>1, <2>2
      <4> HIDE DEF p
      <4>4. sum(R) \in Int
        BY <4>2, <4>3
      <4>5. ASSUME NEW x \in R, x # p
            PROVE  sum(R) = f[x] + sum(R \ {x})
        <5>1. R \ {p} \in SmallSets(S, n) /\ R \ {x} \in SmallSets(S, n)
          BY <2>2, <4>1
        <5>2. x \in R \ {p} /\ p \in R \ {x}
          BY <4>1, <4>5
        <5>3. /\ sum(R \ {p}) = f[x] + sum((R \ {p}) \ {x})
              /\ sum(R \ {x}) = f[p] + sum((R \ {x}) \ {p})
              /\ sum(R \ {x}) \in Int
          BY <5>1, <5>2, <2>1
        <5>4. (R \ {p}) \ {x} = (R \ {x}) \ {p}
          OBVIOUS
        <5>5. f[x] \in Int
          BY <2>2
        <5>6. (R \ {p}) \ {x} \in SmallSets(S, n)
          <6>1. IsFiniteSet(R \ {p}) /\ n \in Nat
            BY <5>1, <2>0, FS_Subset DEF SmallSets
          <6>2. Cardinality((R \ {p}) \ {x}) <= Cardinality(R \ {p})
            BY <6>1, FS_Subset
          <6>3. /\ Cardinality((R \ {p}) \ {x}) \in Nat /\ Cardinality(R \ {p}) \in Nat
                /\ Cardinality(R \ {p}) <= n
            BY <5>1, <6>1, FS_Subset, FS_CardinalityType DEF SmallSets
          <6>4. Cardinality((R \ {p}) \ {x}) <= n
            BY <6>1, <6>2, <6>3
          <6> QED
            BY <6>4, <5>1 DEF SmallSets
        <5>7. sum((R \ {p}) \ {x}) \in Int
          BY <5>6, <2>1
        <5> DEFINE rest == sum((R \ {p}) \ {x})
                   others == sum(R \ {p})
                   without == sum(R \ {x})
                   first == f[p]
                   second == f[x]
        <5>8. /\ rest \in Int /\ first \in Int /\ second \in Int
              /\ others = second + rest /\ without = first + rest
              /\ sum(R) = first + others
          BY <5>3, <5>4, <5>5, <5>7, <4>2, <4>3
        <5> HIDE DEF rest, others, without, first, second
        <5>9. sum(R) = second + without
          BY <5>8
        <5> QED
          BY <5>9 DEF second, without
      <4> QED
        BY <4>2, <4>4, <4>5
    <3> QED
      BY <3>1, <3>2
  <2> QED
    BY <2>0, <2>3 DEF T
<1>5. T = Nat
  <2>1. T \in SUBSET Nat
    OBVIOUS
  <2> HIDE DEF T
  <2> QED
    BY <1>3, <1>4, <2>1, SetInduction
<1>6. Cardinality(S) \in T /\ S \in SmallSets(S, Cardinality(S))
  BY <1>5, FS_CardinalityType DEF SmallSets
<1>7. Good(S)
  BY <1>6
<1> QED
  BY <1>7

(* A new summand.                                                          *)
LEMMA SumAdd ==
    ASSUME NEW f, NEW S, IsFiniteSet(S), NEW x, x \notin S,
           f[x] \in Int, \A y \in S : f[y] \in Int
    PROVE  SumFunctionOnSet(f, S \cup {x}) = SumFunctionOnSet(f, S) + f[x]
<1>1. IsFiniteSet(S \cup {x}) /\ \A y \in S \cup {x} : f[y] \in Int
  BY FS_AddElement
<1>2. SumFunctionOnSet(f, S \cup {x}) = f[x] + SumFunctionOnSet(f, (S \cup {x}) \ {x})
  BY <1>1, SumRemove
<1>3. (S \cup {x}) \ {x} = S
  OBVIOUS
<1>4. SumFunctionOnSet(f, S) \in Int
  BY SumRemove
<1> DEFINE old == SumFunctionOnSet(f, S)
           new == SumFunctionOnSet(f, S \cup {x})
           v == f[x]
<1>5. new = v + old /\ v \in Int /\ old \in Int
  BY <1>2, <1>3, <1>4
<1> HIDE DEF old, new, v
<1>6. new = old + v
  BY <1>5
<1> QED
  BY <1>6 DEF old, new, v

(* Only the summands matter.                                               *)
LEMMA SumAgrees ==
    ASSUME NEW f, NEW g, NEW S, IsFiniteSet(S), \A x \in S : f[x] = g[x]
    PROVE  SumFunctionOnSet(f, S) = SumFunctionOnSet(g, S)
<1> DEFINE T == {n \in Nat : \A R \in SmallSets(S, n) :
                   SumFunctionOnSet(f, R) = SumFunctionOnSet(g, R)}
<1>1. 0 \in T
  <2>1. \A R \in SmallSets(S, 0) : R = {}
    BY FS_Subset, FS_EmptySet, FS_CardinalityType DEF SmallSets
  <2> QED
    BY <2>1, SumOfNone
<1>2. ASSUME NEW n \in T PROVE n + 1 \in T
  <2>1. ASSUME NEW R \in SmallSets(S, n + 1)
        PROVE  SumFunctionOnSet(f, R) = SumFunctionOnSet(g, R)
    <3>1. CASE R = {}
      BY <3>1, SumOfNone
    <3>2. CASE R # {}
      <4>1. IsFiniteSet(R) /\ R \in SUBSET S /\ n \in Nat
        BY FS_Subset DEF SmallSets
      <4>2. Cardinality(R) \in Nat /\ Cardinality(R) <= n + 1
        BY <4>1, FS_CardinalityType DEF SmallSets
      <4>3. Cardinality(R \ {FirstOf(R)}) = Cardinality(R) - 1
        BY <3>2, <4>1, RestIsSmaller
      <4>4. Cardinality(R \ {FirstOf(R)}) <= n
        BY <4>1, <4>2, <4>3
      <4>5. R \ {FirstOf(R)} \in SmallSets(S, n)
        BY <4>4, <4>1 DEF SmallSets
      <4>6. f[FirstOf(R)] = g[FirstOf(R)]
        BY <3>2, <4>1, FirstOfIn
      <4>7. SumFunctionOnSet(f, R \ {FirstOf(R)}) = SumFunctionOnSet(g, R \ {FirstOf(R)})
        BY <4>5
      <4>8. /\ SumFunctionOnSet(f, R) = f[FirstOf(R)] + SumFunctionOnSet(f, R \ {FirstOf(R)})
            /\ SumFunctionOnSet(g, R) = g[FirstOf(R)] + SumFunctionOnSet(g, R \ {FirstOf(R)})
        BY <3>2, <4>1, SumUnfolds
      <4> HIDE DEF T
      <4> QED
        BY <4>6, <4>7, <4>8
    <3> QED
      BY <3>1, <3>2
  <2> QED
    BY <2>1
<1>3. T = Nat
  <2>1. T \in SUBSET Nat
    OBVIOUS
  <2> HIDE DEF T
  <2> QED
    BY <1>1, <1>2, <2>1, SetInduction
<1>4. Cardinality(S) \in T /\ S \in SmallSets(S, Cardinality(S))
  BY <1>3, FS_CardinalityType DEF SmallSets
<1> QED
  BY <1>4

(* The sum after a row was added to those that f was taken from.           *)
LEMMA SumGrows ==
    ASSUME NEW f, NEW g, NEW S, IsFiniteSet(S), NEW x, x \notin S, g[x] \in Int,
           \A y \in S : f[y] \in Int /\ g[y] = f[y]
    PROVE  SumFunctionOnSet(g, S \cup {x}) = SumFunctionOnSet(f, S) + g[x]
<1>1. SumFunctionOnSet(g, S) = SumFunctionOnSet(f, S)
  BY SumAgrees
<1>2. SumFunctionOnSet(g, S \cup {x}) = SumFunctionOnSet(g, S) + g[x]
  BY SumAdd
<1> QED
  BY <1>1, <1>2

(* A sum whose summands are all multiplied is multiplied.                  *)
LEMMA SumScales ==
    ASSUME NEW f, NEW g, NEW S, IsFiniteSet(S), NEW m \in Int,
           \A x \in S : f[x] \in Int /\ g[x] = m * f[x]
    PROVE  SumFunctionOnSet(g, S) = m * SumFunctionOnSet(f, S)
<1> DEFINE T == {n \in Nat : \A R \in SmallSets(S, n) :
                   SumFunctionOnSet(g, R) = m * SumFunctionOnSet(f, R)}
<1>1. 0 \in T
  <2>1. \A R \in SmallSets(S, 0) : R = {}
    BY FS_Subset, FS_EmptySet, FS_CardinalityType DEF SmallSets
  <2>2. m * 0 = 0
    OBVIOUS
  <2> QED
    BY <2>1, <2>2, SumOfNone
<1>2. ASSUME NEW n \in T PROVE n + 1 \in T
  <2>1. ASSUME NEW R \in SmallSets(S, n + 1)
        PROVE  SumFunctionOnSet(g, R) = m * SumFunctionOnSet(f, R)
    <3>1. CASE R = {}
      <4>1. m * 0 = 0
        OBVIOUS
      <4> QED
        BY <3>1, <4>1, SumOfNone
    <3>2. CASE R # {}
      <4> DEFINE x == FirstOf(R)
                 rest == R \ {x}
      <4>1. IsFiniteSet(R) /\ R \in SUBSET S /\ n \in Nat
        BY FS_Subset DEF SmallSets
      <4>2. Cardinality(R) \in Nat /\ Cardinality(R) <= n + 1
        BY <4>1, FS_CardinalityType DEF SmallSets
      <4>3. IsFiniteSet(rest) /\ Cardinality(rest) = Cardinality(R) - 1
        BY <3>2, <4>1, RestIsSmaller
      <4>4. Cardinality(rest) <= n
        BY <4>1, <4>2, <4>3
      <4>5. rest \in SmallSets(S, n)
        BY <4>4, <4>1 DEF SmallSets
      <4>6. x \in S
        BY <3>2, <4>1, FirstOfIn
      <4>7. SumFunctionOnSet(g, rest) = m * SumFunctionOnSet(f, rest)
        BY <4>5
      <4>8. /\ SumFunctionOnSet(f, R) = f[x] + SumFunctionOnSet(f, rest)
            /\ SumFunctionOnSet(g, R) = g[x] + SumFunctionOnSet(g, rest)
        BY <3>2, <4>1, SumUnfolds
      <4>9. \A y \in rest : f[y] \in Int
        BY <4>1
      <4>10. SumFunctionOnSet(f, rest) \in Int
        <5> HIDE DEF rest
        <5> QED
          BY <4>3, <4>9, SumRemove
      <4>11. f[x] \in Int /\ g[x] = m * f[x]
        BY <4>6
      <4> DEFINE v == f[x]
                 s == SumFunctionOnSet(f, rest)
      <4>12. m * v + m * s = m * (v + s)
        <5>1. v \in Int /\ s \in Int
          BY <4>10, <4>11
        <5> HIDE DEF v, s
        <5> QED
          BY <5>1
      <4> HIDE DEF T
      <4> QED
        BY <4>7, <4>8, <4>11, <4>12
    <3> QED
      BY <3>1, <3>2
  <2> QED
    BY <2>1
<1>3. T = Nat
  <2>1. T \in SUBSET Nat
    OBVIOUS
  <2> HIDE DEF T
  <2> QED
    BY <1>1, <1>2, <2>1, SetInduction
<1>4. Cardinality(S) \in T /\ S \in SmallSets(S, Cardinality(S))
  BY <1>3, FS_CardinalityType DEF SmallSets
<1> QED
  BY <1>4

(* Where the summands do not change, the sum grows by as many of them.     *)
LEMMA SumStretches ==
    ASSUME NEW f, NEW a \in Nat, NEW b \in Nat, a <= b, NEW v \in Int,
           \A i \in 1 .. b : f[i] \in Int, \A i \in a + 1 .. b : f[i] = v
    PROVE  SumFunctionOnSet(f, 1 .. b) = SumFunctionOnSet(f, 1 .. a) + v * (b - a)
<1> DEFINE sum(n) == SumFunctionOnSet(f, 1 .. n)
           T == {n \in Nat : a + n <= b => sum(a + n) = sum(a) + v * n}
<1>1. ASSUME NEW n \in Nat, n <= b
      PROVE  sum(n) \in Int /\ (n < b => sum(n + 1) = sum(n) + f[n + 1])
  <2>1. IsFiniteSet(1 .. n) /\ n + 1 \notin 1 .. n
    BY FS_Interval
  <2>2. \A i \in 1 .. n : f[i] \in Int
    BY <1>1
  <2>3. sum(n) \in Int
    BY <2>1, <2>2, SumRemove
  <2>4. CASE n < b
    <3>1. 1 .. (n + 1) = (1 .. n) \cup {n + 1} /\ f[n + 1] \in Int
      BY <2>4
    <3> QED
      BY <2>1, <2>2, <2>3, <3>1, SumAdd
  <2> QED
    BY <2>3, <2>4
<1>2. sum(a) \in Int
  BY <1>1
<1> HIDE DEF sum
<1>3. 0 \in T
  <2>1. a + 0 = a /\ v * 0 = 0
    OBVIOUS
  <2> QED
    BY <1>2, <2>1
<1>4. ASSUME NEW n \in T PROVE n + 1 \in T
  <2>1. n \in Nat
    OBVIOUS
  <2>2. ASSUME a + n + 1 <= b
        PROVE  sum(a + (n + 1)) = sum(a) + v * (n + 1)
    <3>1. a + n \in Nat /\ a + n <= b /\ a + n < b /\ (a + n) + 1 = a + (n + 1)
      BY <2>1, <2>2
    <3>2. sum(a + n) = sum(a) + v * n
      BY <3>1
    <3>3. sum((a + n) + 1) = sum(a + n) + f[(a + n) + 1]
      BY <1>1, <3>1
    <3>4. f[(a + n) + 1] = v
      BY <2>1, <2>2
    <3>5. v * (n + 1) = v * n + v /\ v * n \in Int
      BY <2>1
    <3> QED
      BY <1>2, <3>1, <3>2, <3>3, <3>4, <3>5
  <2> QED
    BY <2>1, <2>2
<1>5. T = Nat
  <2>1. T \in SUBSET Nat
    OBVIOUS
  <2> HIDE DEF T
  <2> QED
    BY <1>3, <1>4, <2>1, SetInduction
<1>6. b - a \in Nat /\ a + (b - a) = b
  OBVIOUS
<1>7. b - a \in T
  BY <1>5, <1>6
<1> QED
  BY <1>6, <1>7 DEF sum

-----------------------------------------------------------------------------
(* Folds.                                                                  *)

(* One step of a fold of F from base, which takes the element that C       *)
(* chooses last, from the folds g of smaller sets.                         *)
FoldStep(F, base, C, g, s) == IF s = {} THEN base ELSE F[<<C[s], g[s \ {C[s]}]>>]

Folds(g, F, base, C, S) == \A s \in SUBSET S : g[s] = FoldStep(F, base, C, g, s)

(* A recursion that takes one element of a finite set after the other has  *)
(* a solution, whose values are of the type of the steps.                  *)
LEMMA FoldExists ==
    ASSUME NEW S, IsFiniteSet(S), NEW Acc, NEW base \in Acc, NEW F \in [S \X Acc -> Acc],
           NEW C, \A s \in SUBSET S : s # {} => C[s] \in s
    PROVE  \E g \in [SUBSET S -> Acc] : Folds(g, F, base, C, S)
<1> DEFINE Solves(g, n) == /\ g \in [SmallSets(S, n) -> Acc]
                           /\ \A s \in SmallSets(S, n) : g[s] = FoldStep(F, base, C, g, s)
           T == {n \in Nat : \E g : Solves(g, n)}
<1>1. 0 \in T
  <2>1. \A s \in SmallSets(S, 0) : s = {}
    BY FS_Subset, FS_EmptySet, FS_CardinalityType DEF SmallSets
  <2> DEFINE g == [s \in SmallSets(S, 0) |-> base]
  <2>2. Solves(g, 0)
    BY <2>1 DEF FoldStep
  <2> QED
    BY <2>2
<1>2. ASSUME NEW n \in T PROVE n + 1 \in T
  <2>1. n \in Nat
    OBVIOUS
  <2>2. PICK g : Solves(g, n)
    OBVIOUS
  <2> HIDE DEF T
  <2> DEFINE h == [s \in SmallSets(S, n + 1) |-> FoldStep(F, base, C, g, s)]
  <2>3. ASSUME NEW s \in SmallSets(S, n + 1), s # {}
        PROVE  C[s] \in S /\ s \ {C[s]} \in SmallSets(S, n)
    <3>1. IsFiniteSet(s) /\ s \in SUBSET S
      BY FS_Subset DEF SmallSets
    <3>2. C[s] \in s
      BY <2>3, <3>1
    <3>3. Cardinality(s) \in Nat /\ Cardinality(s) <= n + 1
      BY <3>1, FS_CardinalityType DEF SmallSets
    <3>4. Cardinality(s \ {C[s]}) = Cardinality(s) - 1
      BY <3>1, <3>2, FS_RemoveElement
    <3>5. Cardinality(s \ {C[s]}) <= n
      BY <3>3, <3>4, <2>1
    <3> QED
      BY <3>1, <3>2, <3>5 DEF SmallSets
  <2>4. ASSUME NEW s \in SmallSets(S, n)
        PROVE  s \in SmallSets(S, n + 1) /\ h[s] = g[s]
    <3>1. Cardinality(s) \in Nat
      BY FS_Subset, FS_CardinalityType DEF SmallSets
    <3>2. s \in SmallSets(S, n + 1)
      BY <3>1, <2>1 DEF SmallSets
    <3> QED
      BY <2>2, <3>2
  <2>5. ASSUME NEW s \in SmallSets(S, n + 1)
        PROVE  h[s] \in Acc /\ h[s] = FoldStep(F, base, C, h, s)
    <3>1. CASE s = {}
      BY <3>1 DEF FoldStep
    <3>2. CASE s # {}
      <4> DEFINE rest == s \ {C[s]}
      <4>1. C[s] \in S /\ rest \in SmallSets(S, n)
        BY <2>3, <3>2
      <4>2. g[rest] \in Acc /\ h[rest] = g[rest]
        BY <2>2, <2>4, <4>1
      <4>3. h[s] = F[<<C[s], g[rest]>>]
        BY <3>2 DEF FoldStep
      <4>4. FoldStep(F, base, C, h, s) = F[<<C[s], h[rest]>>]
        BY <3>2 DEF FoldStep
      <4> HIDE DEF h, rest
      <4>5. F[<<C[s], g[rest]>>] \in Acc
        BY <4>1, <4>2
      <4> QED
        BY <4>2, <4>3, <4>4, <4>5
    <3> QED
      BY <3>1, <3>2
  <2>6. h \in [SmallSets(S, n + 1) -> Acc]
    <3>1. \A s \in SmallSets(S, n + 1) : FoldStep(F, base, C, g, s) \in Acc
      BY <2>5
    <3> QED
      BY <3>1
  <2>7. Solves(h, n + 1)
    BY <2>5, <2>6
  <2> HIDE DEF h, Solves
  <2> QED
    BY <2>1, <2>7 DEF T
<1>3. T = Nat
  <2>1. T \in SUBSET Nat
    OBVIOUS
  <2> HIDE DEF T
  <2> QED
    BY <1>1, <1>2, <2>1, SetInduction
<1>4. Cardinality(S) \in Nat /\ SmallSets(S, Cardinality(S)) = SUBSET S
  BY FS_CardinalityType, FS_Subset DEF SmallSets
<1>5. Cardinality(S) \in T
  BY <1>3, <1>4
<1>6. PICK g : Solves(g, Cardinality(S))
  BY <1>5
<1> QED
  BY <1>4, <1>6 DEF Folds

-----------------------------------------------------------------------------
(* Lines: the elements of a finite set in their order.                     *)

(* R orders S, strictly and totally.                                       *)
StrictlyOrders(R, S) ==
    /\ \A x \in S : <<x, x>> \notin R
    /\ \A x, y \in S : x # y => <<x, y>> \in R \/ <<y, x>> \in R
    /\ \A x, y, z \in S : <<x, y>> \in R /\ <<y, z>> \in R => <<x, z>> \in R

IsLine(line, S, R) ==
    /\ line \in [1 .. Cardinality(S) -> S]
    /\ \A i, j \in 1 .. Cardinality(S) : i < j => <<line[i], line[j]>> \in R

(* The elements before x.                                                  *)
Before(R, S, x) == {y \in S : <<y, x>> \in R}

Place(R, S) == [x \in S |-> Cardinality(Before(R, S, x)) + 1]

(* An element's place is after the places of those before it.              *)
LEMMA PlaceOrders ==
    ASSUME NEW S, IsFiniteSet(S), NEW R, StrictlyOrders(R, S)
    PROVE  /\ Place(R, S) \in [S -> 1 .. Cardinality(S)]
           /\ \A x, y \in S : <<x, y>> \in R => Place(R, S)[x] < Place(R, S)[y]
<1> DEFINE before(x) == Before(R, S, x)
<1>1. Cardinality(S) \in Nat
  BY FS_CardinalityType
<1>2. ASSUME NEW x \in S
      PROVE  /\ IsFiniteSet(before(x)) /\ Cardinality(before(x)) \in Nat
             /\ Cardinality(before(x)) + 1 \in 1 .. Cardinality(S)
  <2>1. before(x) \in SUBSET (S \ {x})
    BY DEF Before, StrictlyOrders
  <2>2. IsFiniteSet(S \ {x}) /\ Cardinality(S \ {x}) = Cardinality(S) - 1
    BY FS_RemoveElement
  <2> HIDE DEF before
  <2>3. IsFiniteSet(before(x)) /\ Cardinality(before(x)) <= Cardinality(S \ {x})
    BY <2>1, <2>2, FS_Subset
  <2>4. Cardinality(before(x)) \in Nat
    BY <2>3, FS_CardinalityType
  <2> QED
    BY <1>1, <2>2, <2>3, <2>4
<1>3. ASSUME NEW x \in S, NEW y \in S, <<x, y>> \in R
      PROVE  Cardinality(before(x)) + 1 < Cardinality(before(y)) + 1
  <2>1. x \in before(y)
    BY <1>3 DEF Before
  <2>2. before(x) \in SUBSET (before(y) \ {x})
    BY <1>3 DEF Before, StrictlyOrders
  <2>3. IsFiniteSet(before(y)) /\ Cardinality(before(y)) \in Nat /\ Cardinality(before(x)) \in Nat
    BY <1>2
  <2> HIDE DEF before
  <2>4. IsFiniteSet(before(y) \ {x}) /\ Cardinality(before(y) \ {x}) = Cardinality(before(y)) - 1
    BY <2>1, <2>3, FS_RemoveElement
  <2>5. Cardinality(before(x)) <= Cardinality(before(y) \ {x})
    BY <2>2, <2>4, FS_Subset
  <2> QED
    BY <2>3, <2>4, <2>5
<1> QED
  BY <1>2, <1>3 DEF Place

(* A finite ordered set can be lined up.                                   *)
LEMMA LineExists ==
    ASSUME NEW S, IsFiniteSet(S), NEW R, StrictlyOrders(R, S)
    PROVE  \E line : IsLine(line, S, R)
<1> DEFINE n == Cardinality(S)
           place == Place(R, S)
<1>1. /\ n \in Nat /\ place \in [S -> 1 .. n]
      /\ \A x, y \in S : <<x, y>> \in R => place[x] < place[y]
  BY PlaceOrders, FS_CardinalityType
<1> HIDE DEF place
<1>2. \A x, y \in S : place[x] = place[y] => x = y
  <2> SUFFICES ASSUME NEW x \in S, NEW y \in S, x # y PROVE place[x] # place[y]
    OBVIOUS
  <2>1. <<x, y>> \in R \/ <<y, x>> \in R
    BY DEF StrictlyOrders
  <2>2. place[x] \in Int /\ place[y] \in Int
    BY <1>1
  <2> QED
    BY <1>1, <2>1, <2>2
<1>3. place \in Injection(S, 1 .. n)
  BY <1>1, <1>2 DEF Injection, IsInjective
<1>4. IsFiniteSet(1 .. n) /\ Cardinality(1 .. n) = n
  <2>1. IsFiniteSet(1 .. n) /\ Cardinality(1 .. n) = IF 1 > n THEN 0 ELSE n - 1 + 1
    BY <1>1, FS_Interval
  <2> QED
    BY <1>1, <2>1
<1>5. place \in Surjection(S, 1 .. n)
  BY <1>3, <1>4, FS_Injection
<1>6. \A i \in 1 .. n : \E x \in S : place[x] = i
  BY <1>5 DEF Surjection
<1> DEFINE line == [i \in 1 .. n |-> CHOOSE x \in S : place[x] = i]
<1>7. \A i \in 1 .. n : line[i] \in S /\ place[line[i]] = i
  BY <1>6
<1>8. line \in [1 .. n -> S]
  BY <1>7
<1> HIDE DEF line
<1>9. ASSUME NEW i \in 1 .. n, NEW j \in 1 .. n, i < j
      PROVE  <<line[i], line[j]>> \in R
  <2>1. line[i] \in S /\ line[j] \in S /\ place[line[i]] = i /\ place[line[j]] = j
    BY <1>7
  <2>2. line[i] # line[j]
    BY <1>9, <2>1
  <2>3. <<line[j], line[i]>> \notin R
    BY <1>1, <1>9, <2>1
  <2> QED
    BY <2>1, <2>2, <2>3 DEF StrictlyOrders
<1> QED
  BY <1>8, <1>9 DEF IsLine

(* A line holds every element once.                                        *)
LEMMA LineHolds ==
    ASSUME NEW S, IsFiniteSet(S), NEW R, StrictlyOrders(R, S), NEW line, IsLine(line, S, R)
    PROVE  /\ Cardinality(S) \in Nat
           /\ \A i, j \in 1 .. Cardinality(S) : line[i] = line[j] => i = j
           /\ \A x \in S : \E i \in 1 .. Cardinality(S) : line[i] = x
<1> DEFINE n == Cardinality(S)
<1>1. n \in Nat
  BY FS_CardinalityType
<1>2. line \in [1 .. n -> S]
  BY DEF IsLine
<1>3. ASSUME NEW i \in 1 .. n, NEW j \in 1 .. n, i # j PROVE line[i] # line[j]
  <2>1. i < j \/ j < i
    BY <1>1, <1>3
  <2> QED
    BY <1>2, <2>1 DEF IsLine, StrictlyOrders
<1>4. line \in Injection(1 .. n, S)
  BY <1>2, <1>3 DEF Injection, IsInjective
<1>5. IsFiniteSet(1 .. n) /\ Cardinality(1 .. n) = n
  <2>1. IsFiniteSet(1 .. n) /\ Cardinality(1 .. n) = IF 1 > n THEN 0 ELSE n - 1 + 1
    BY <1>1, FS_Interval
  <2> QED
    BY <1>1, <2>1
<1>6. line \in Surjection(1 .. n, S)
  BY <1>4, <1>5, FS_Injection
<1> QED
  BY <1>1, <1>3, <1>6 DEF Surjection

(* There is one line only.                                                 *)
LEMMA LineUnique ==
    ASSUME NEW S, IsFiniteSet(S), NEW R, StrictlyOrders(R, S),
           NEW l1, IsLine(l1, S, R), NEW l2, IsLine(l2, S, R)
    PROVE  l1 = l2
<1> DEFINE n == Cardinality(S)
           T == {k \in Nat : \A i \in 1 .. n : i <= k => l1[i] = l2[i]}
<1>1. n \in Nat /\ l1 \in [1 .. n -> S] /\ l2 \in [1 .. n -> S]
  BY LineHolds DEF IsLine
<1>2. /\ \A x \in S : \E i \in 1 .. n : l1[i] = x
      /\ \A x \in S : \E i \in 1 .. n : l2[i] = x
  BY LineHolds
<1>3. /\ \A i, j \in 1 .. n : i < j => <<l1[i], l1[j]>> \in R
      /\ \A i, j \in 1 .. n : i < j => <<l2[i], l2[j]>> \in R
  BY DEF IsLine
<1>4. \A x, y \in S : <<x, y>> \in R => <<y, x>> \notin R
  BY DEF StrictlyOrders
<1>5. \A x \in S : <<x, x>> \notin R
  BY DEF StrictlyOrders
<1>6. 0 \in T
  OBVIOUS
<1>7. ASSUME NEW k \in T PROVE k + 1 \in T
  <2>1. k \in Nat /\ \A i \in 1 .. n : i <= k => l1[i] = l2[i]
    OBVIOUS
  <2>2. ASSUME k + 1 \in 1 .. n PROVE l1[k + 1] = l2[k + 1]
    <3>1. SUFFICES ASSUME l1[k + 1] # l2[k + 1] PROVE FALSE
      OBVIOUS
    <3>2. PICK i \in 1 .. n : l1[i] = l2[k + 1]
      BY <1>1, <1>2, <2>2
    <3>3. PICK j \in 1 .. n : l2[j] = l1[k + 1]
      BY <1>1, <1>2, <2>2
    <3>4. k + 1 < i
      <4>1. i <= k => l2[i] = l2[k + 1]
        BY <2>1, <3>2
      <4>2. i <= k => <<l2[i], l2[k + 1]>> \in R
        BY <1>3, <2>1, <2>2
      <4>3. ~(i <= k)
        BY <1>1, <1>5, <2>2, <4>1, <4>2
      <4>4. i # k + 1
        BY <3>1, <3>2
      <4> QED
        BY <1>1, <2>1, <4>3, <4>4
    <3>5. k + 1 < j
      <4>1. j <= k => l1[j] = l1[k + 1]
        BY <2>1, <3>3
      <4>2. j <= k => <<l1[j], l1[k + 1]>> \in R
        BY <1>3, <2>1, <2>2
      <4>3. ~(j <= k)
        BY <1>1, <1>5, <2>2, <4>1, <4>2
      <4>4. j # k + 1
        BY <3>1, <3>3
      <4> QED
        BY <1>1, <2>1, <4>3, <4>4
    <3>6. <<l1[k + 1], l2[k + 1]>> \in R
      BY <1>3, <2>2, <3>2, <3>4
    <3>7. <<l2[k + 1], l1[k + 1]>> \in R
      BY <1>3, <2>2, <3>3, <3>5
    <3> QED
      BY <1>1, <1>4, <2>2, <3>6, <3>7
  <2>3. ASSUME NEW i \in 1 .. n, i <= k + 1 PROVE l1[i] = l2[i]
    <3>1. i <= k \/ i = k + 1
      BY <1>1, <2>1, <2>3
    <3> QED
      BY <2>1, <2>2, <3>1
  <2> QED
    BY <2>1, <2>3
<1>8. T = Nat
  <2>1. T \in SUBSET Nat
    OBVIOUS
  <2> HIDE DEF T
  <2> QED
    BY <1>6, <1>7, <2>1, SetInduction
<1>9. n \in T
  BY <1>1, <1>8
<1>10. \A i \in 1 .. n : l1[i] = l2[i]
  BY <1>1, <1>9
<1> HIDE DEF n
<1> QED
  BY <1>1, <1>10
=============================================================================
