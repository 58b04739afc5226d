---------------------------- MODULE PricingProofs ---------------------------
(***************************************************************************)
(* Theorems about the two specifications that work with price books,       *)
(* Pricing and then ModelSync, for every value of their constants: what    *)
(* tiers, usage and catalogs are made of first.                            *)
(***************************************************************************)
EXTENDS Pricing, ModelSync, CollectionLemmas, TLAPS

Conditions == {"current", "fullInput", "billableInput", "billableOutput"}

(* Tiers as they are stored: the condition is one of the four, and nothing *)
(* is below zero.                                                          *)
NormalTier == [min: Nat, price: Nat, condition: Conditions]

(* A stored list: sorted, and no tier twice.                               *)
IsNormal(q) ==
    q \in Seq(NormalTier) /\ \A i, j \in DOMAIN q : i < j => SortsBefore(q[i], q[j])

(* No two tiers of a set begin at the same place of the same count.        *)
NoTierTwice(S) ==
    \A s, t \in S : s.min = t.min /\ s.condition = t.condition => s = t

TierOrder(S) == {p \in S \X S : SortsBefore(p[1], p[2])}

-----------------------------------------------------------------------------
(* Normalised tiers.                                                       *)

(* The four conditions have the ranks one to four.                         *)
LEMMA Ranks ==
    /\ Range(ConditionOrder) = Conditions
    /\ \A c \in Conditions : Rank(c) \in 1 .. 4
    /\ \A c, d \in Conditions : Rank(c) = Rank(d) => c = d
<1>1. /\ ConditionOrder = <<"current", "fullInput", "billableInput", "billableOutput">>
      /\ DOMAIN ConditionOrder = 1 .. 4
  BY DEF ConditionOrder
<1>2. /\ ConditionOrder[1] = "current" /\ ConditionOrder[2] = "fullInput"
      /\ ConditionOrder[3] = "billableInput" /\ ConditionOrder[4] = "billableOutput"
  BY <1>1
<1>3. Range(ConditionOrder) = {ConditionOrder[i] : i \in 1 .. 4}
  BY <1>1 DEF Range
<1>4. Range(ConditionOrder) = Conditions
  BY <1>2, <1>3 DEF Conditions
<1>5. ASSUME NEW c \in Conditions
      PROVE  Rank(c) \in 1 .. 4 /\ ConditionOrder[Rank(c)] = c
  <2>1. \E i \in 1 .. 4 : ConditionOrder[i] = c
    BY <1>2 DEF Conditions
  <2> QED
    BY <1>1, <2>1 DEF Rank
<1> QED
  BY <1>4, <1>5

(* What a stored tier is, and that it is a tier as written.                *)
LEMMA TierFields ==
    /\ \A t \in NormalTier :
         /\ t.min \in Nat /\ t.price \in Nat /\ t.condition \in Conditions
         /\ t = [min |-> t.min, price |-> t.price, condition |-> t.condition]
         /\ t \in TierRow
    /\ \A t \in TierRow : t.min \in Int /\ t.price \in Int
<1>1. \A c \in Conditions : c \in Word
  BY Ranks DEF Word
<1> QED
  BY <1>1 DEF NormalTier, TierRow

(* Every word becomes one of the conditions.                               *)
LEMMA ConditionNormal ==
    /\ \A c : NormalizePriceTierCondition(c) \in Conditions
    /\ \A c \in Conditions : NormalizePriceTierCondition(c) = c
BY Ranks DEF NormalizePriceTierCondition, Conditions

(* Stored tiers, none of them twice, are strictly ordered.                 *)
LEMMA TiersOrdered ==
    ASSUME NEW S \in SUBSET NormalTier, NoTierTwice(S)
    PROVE  StrictlyOrders(TierOrder(S), S)
<1>1. \A s \in S : s.min \in Nat /\ s.condition \in Conditions /\ Rank(s.condition) \in 1 .. 4
  BY Ranks DEF NormalTier
<1>2. \A s, t \in S : Rank(s.condition) = Rank(t.condition) => s.condition = t.condition
  BY <1>1, Ranks
<1>3. \A s, t \in S : <<s, t>> \in TierOrder(S) <=> SortsBefore(s, t)
  BY DEF TierOrder
<1>4. \A s \in S : ~SortsBefore(s, s)
  BY <1>1 DEF SortsBefore
<1>5. ASSUME NEW s \in S, NEW t \in S, s # t
      PROVE  SortsBefore(s, t) \/ SortsBefore(t, s)
  <2>1. s.min # t.min \/ s.condition # t.condition
    BY <1>5 DEF NoTierTwice
  <2>2. s.min < t.min \/ t.min < s.min \/ s.min = t.min
    BY <1>1
  <2>3. Rank(s.condition) < Rank(t.condition) \/ Rank(t.condition) < Rank(s.condition)
          \/ s.condition = t.condition
    BY <1>1, <1>2
  <2> QED
    BY <2>1, <2>2, <2>3 DEF SortsBefore
<1>6. ASSUME NEW r \in S, NEW s \in S, NEW t \in S, SortsBefore(r, s), SortsBefore(s, t)
      PROVE  SortsBefore(r, t)
  BY <1>1, <1>6 DEF SortsBefore
<1> QED
  BY <1>3, <1>4, <1>5, <1>6 DEF StrictlyOrders

(* A sorted list is a line of its tiers.                                   *)
LEMMA NormalIsLine ==
    ASSUME NEW S \in SUBSET NormalTier, NEW q
    PROVE  IsLine(q, S, TierOrder(S)) <=>
             /\ q \in [1 .. Cardinality(S) -> S]
             /\ \A i, j \in DOMAIN q : i < j => SortsBefore(q[i], q[j])
BY DEF IsLine, TierOrder

(* A set has a line, and that is a stored list of all its tiers.           *)
LEMMA InOrderIsNormal ==
    ASSUME NEW S \in SUBSET NormalTier, IsFiniteSet(S), NoTierTwice(S)
    PROVE  /\ IsNormal(InOrder(S))
           /\ IsLine(InOrder(S), S, TierOrder(S))
           /\ Range(InOrder(S)) = S
<1> DEFINE q == InOrder(S)
<1>1. StrictlyOrders(TierOrder(S), S)
  BY TiersOrdered
<1>2. \E line : IsLine(line, S, TierOrder(S))
  BY <1>1, LineExists
<1>3. IsLine(q, S, TierOrder(S))
  BY <1>2, NormalIsLine DEF InOrder
<1>4. Cardinality(S) \in Nat /\ \A x \in S : \E i \in 1 .. Cardinality(S) : q[i] = x
  BY <1>1, <1>3, LineHolds
<1> HIDE DEF q
<1>5. q \in [1 .. Cardinality(S) -> S]
  BY <1>3, NormalIsLine
<1>6. Range(q) = S
  BY <1>4, <1>5 DEF Range
<1>7. q \in Seq(NormalTier)
  BY <1>4, <1>5
<1>8. IsNormal(q)
  BY <1>3, <1>7, NormalIsLine DEF IsNormal
<1> QED
  BY <1>3, <1>6, <1>8 DEF q

(* The tiers of a stored list, and that it is their line.                  *)
LEMMA NormalFacts ==
    ASSUME NEW q, IsNormal(q)
    PROVE  /\ q \in Seq(NormalTier) /\ Len(q) \in Nat /\ DOMAIN q = 1 .. Len(q)
           /\ \A i \in DOMAIN q : q[i] \in NormalTier
           /\ \A i, j \in DOMAIN q :
                q[i].min = q[j].min /\ q[i].condition = q[j].condition => i = j
           /\ Range(q) \in SUBSET NormalTier /\ IsFiniteSet(Range(q)) /\ NoTierTwice(Range(q))
           /\ IsLine(q, Range(q), TierOrder(Range(q)))
<1>1. q \in Seq(NormalTier) /\ Len(q) \in Nat /\ DOMAIN q = 1 .. Len(q)
  BY DEF IsNormal
<1>2. \A i \in DOMAIN q : q[i] \in NormalTier /\ q[i].min \in Nat /\ Rank(q[i].condition) \in 1 .. 4
  <2> SUFFICES ASSUME NEW i \in DOMAIN q
               PROVE  q[i] \in NormalTier /\ q[i].min \in Nat /\ Rank(q[i].condition) \in 1 .. 4
    OBVIOUS
  <2>1. q[i] \in NormalTier
    BY <1>1
  <2> QED
    BY <2>1, TierFields, Ranks
<1>3. \A i, j \in DOMAIN q : i < j => q[i].min # q[j].min \/ q[i].condition # q[j].condition
  BY <1>2 DEF IsNormal, SortsBefore
<1>4. \A i, j \in DOMAIN q : q[i].min = q[j].min /\ q[i].condition = q[j].condition => i = j
  <2>1. \A i, j \in DOMAIN q : i < j \/ j < i \/ i = j
    BY <1>1
  <2> QED
    BY <1>3, <2>1
<1>5. Range(q) = {q[i] : i \in 1 .. Len(q)}
  BY <1>1 DEF Range
<1>6. NoTierTwice(Range(q)) /\ Range(q) \in SUBSET NormalTier
  BY <1>1, <1>2, <1>4, <1>5 DEF NoTierTwice
<1>7. q \in Bijection(1 .. Len(q), Range(q))
  <2>1. q \in [1 .. Len(q) -> Range(q)]
    BY <1>1, <1>5
  <2>2. \A i, j \in 1 .. Len(q) : q[i] = q[j] => i = j
    BY <1>1, <1>4
  <2> QED
    BY <1>5, <2>1, <2>2 DEF Bijection, Injection, Surjection, IsInjective
<1>8. IsFiniteSet(Range(q)) /\ Cardinality(Range(q)) = Len(q)
  <2> DEFINE n == Len(q)
  <2>0. n \in Nat
    BY <1>1
  <2>1. IsFiniteSet(1 .. n) /\ Cardinality(1 .. n) = n
    <3> HIDE DEF n
    <3>1. IsFiniteSet(1 .. n) /\ Cardinality(1 .. n) = IF 1 > n THEN 0 ELSE n - 1 + 1
      BY <2>0, FS_Interval
    <3> QED
      BY <2>0, <3>1
  <2> QED
    BY <1>7, <2>1, FS_Bijection DEF ExistsBijection
<1>9. IsLine(q, Range(q), TierOrder(Range(q)))
  <2>1. q \in [1 .. Cardinality(Range(q)) -> Range(q)]
    BY <1>7, <1>8 DEF Bijection, Injection, Surjection
  <2>2. \A i, j \in DOMAIN q : i < j => SortsBefore(q[i], q[j])
    BY DEF IsNormal
  <2>3. \A i, j \in 1 .. Cardinality(Range(q)) : i < j => SortsBefore(q[i], q[j])
    BY <1>1, <1>8, <2>2
  <2> QED
    BY <1>6, <2>1, <2>3 DEF IsLine, TierOrder
<1> QED
  BY <1>1, <1>2, <1>4, <1>6, <1>8, <1>9

(* A stored list is in order already.                                      *)
LEMMA OneLine ==
    ASSUME NEW q, IsNormal(q), NEW S, S = Range(q)
    PROVE  InOrder(S) = q
<1>1. /\ S \in SUBSET NormalTier /\ IsFiniteSet(S) /\ NoTierTwice(S)
      /\ IsLine(q, S, TierOrder(S))
  BY NormalFacts
<1>2. StrictlyOrders(TierOrder(S), S) /\ IsLine(InOrder(S), S, TierOrder(S))
  BY <1>1, TiersOrdered, InOrderIsNormal
<1> QED
  BY <1>1, <1>2, LineUnique

Valid(tiers) == {i \in DOMAIN tiers : tiers[i].min >= 0 /\ tiers[i].price >= 0}

Stored(t) == [t EXCEPT !.condition = NormalizePriceTierCondition(@)]

Kept(tiers) == {Stored(tiers[i]) : i \in LastOfEach(tiers, Valid(tiers))}

(* Normalising puts what is kept in order.                                 *)
LEMMA NormalizedIsKept ==
    \A tiers : NormalizePriceTiers(tiers) = InOrder(Kept(tiers))
BY DEF NormalizePriceTiers, Kept, Valid, Stored

(* A valid tier is stored as a normal one.                                 *)
LEMMA StoredTier ==
    ASSUME NEW t \in TierRow
    PROVE  /\ Stored(t).min = t.min /\ Stored(t).price = t.price
           /\ Stored(t).condition = NormalizePriceTierCondition(t.condition)
           /\ t.min >= 0 /\ t.price >= 0 => Stored(t) \in NormalTier
<1> DEFINE c == NormalizePriceTierCondition(t.condition)
<1>1. c \in Conditions
  BY ConditionNormal
<1>2. Stored(t) = [t EXCEPT !.condition = c]
  BY DEF Stored
<1> HIDE DEF c
<1>3. Stored(t).min = t.min /\ Stored(t).price = t.price /\ Stored(t).condition = c
  BY <1>2 DEF TierRow
<1>4. ASSUME t.min >= 0, t.price >= 0 PROVE Stored(t) \in NormalTier
  BY <1>1, <1>2, <1>4 DEF TierRow, NormalTier
<1> QED
  BY <1>3, <1>4 DEF c

(* What is written is stored as a sorted list without repetition.          *)
LEMMA NormalizedIsNormal ==
    ASSUME NEW tiers \in Seq(TierRow)
    PROVE  /\ IsNormal(NormalizePriceTiers(tiers))
           /\ Range(NormalizePriceTiers(tiers)) = Kept(tiers)
<1> DEFINE S == Kept(tiers)
           last == LastOfEach(tiers, Valid(tiers))
<1>1. \A i \in DOMAIN tiers : tiers[i] \in TierRow
  OBVIOUS
<1>2. last \subseteq Valid(tiers) /\ Valid(tiers) \subseteq DOMAIN tiers /\ DOMAIN tiers = 1 .. Len(tiers)
  BY DEF LastOfEach, Valid
<1>3. IsFiniteSet(last)
  <2>1. IsFiniteSet(1 .. Len(tiers))
    BY FS_Interval
  <2> QED
    BY <1>2, <2>1, FS_Subset
<1>4. IsFiniteSet(S)
  <2>1. S = {Stored(tiers[i]) : i \in last}
    BY DEF Kept
  <2> HIDE DEF last, S
  <2> DEFINE f == [i \in last |-> Stored(tiers[i])]
  <2>2. f \in Surjection(last, S)
    BY <2>1 DEF Surjection
  <2> QED
    BY <1>3, <2>2, FS_Surjection
<1>5. S \in SUBSET NormalTier
  <2> SUFFICES ASSUME NEW i \in last
               PROVE  Stored(tiers[i]) \in NormalTier
    BY DEF Kept
  <2>1. i \in DOMAIN tiers /\ tiers[i].min >= 0 /\ tiers[i].price >= 0
    BY <1>2 DEF Valid
  <2> QED
    BY <1>1, <2>1, StoredTier
<1>6. NoTierTwice(S)
  <2> SUFFICES ASSUME NEW i \in last, NEW j \in last,
                      Stored(tiers[i]).min = Stored(tiers[j]).min,
                      Stored(tiers[i]).condition = Stored(tiers[j]).condition
               PROVE  Stored(tiers[i]) = Stored(tiers[j])
    BY DEF Kept, NoTierTwice
  <2>1. i \in Valid(tiers) /\ j \in Valid(tiers) /\ i \in 1 .. Len(tiers) /\ j \in 1 .. Len(tiers)
    BY <1>2
  <2>2. SameTier(tiers[i], tiers[j]) /\ SameTier(tiers[j], tiers[i])
    BY <1>1, <1>2, <2>1, StoredTier DEF SameTier
  <2>3. ~(j > i) /\ ~(i > j)
    BY <2>1, <2>2 DEF LastOfEach
  <2> QED
    BY <2>1, <2>3
<1>7. NormalizePriceTiers(tiers) = InOrder(S)
  BY NormalizedIsKept
<1> HIDE DEF S
<1>8. IsNormal(InOrder(S)) /\ Range(InOrder(S)) = S
  BY <1>4, <1>5, <1>6, InOrderIsNormal
<1> QED
  BY <1>7, <1>8 DEF S

(* Stored lists are lists as they are written.                             *)
LEMMA NormalTiersAreRows ==
    ASSUME NEW q, IsNormal(q)
    PROVE  q \in Seq(TierRow)
<1>1. q \in Seq(NormalTier) /\ NormalTier \subseteq TierRow
  BY TierFields DEF IsNormal
<1> QED
  BY <1>1

(* Storing what is stored changes nothing.                                 *)
LEMMA NormalizeIdempotent ==
    ASSUME NEW q, IsNormal(q)
    PROVE  NormalizePriceTiers(q) = q
<1>1. /\ DOMAIN q = 1 .. Len(q) /\ Len(q) \in Nat
      /\ \A i \in DOMAIN q : q[i] \in NormalTier
      /\ \A i, j \in DOMAIN q :
           q[i].min = q[j].min /\ q[i].condition = q[j].condition => i = j
  BY NormalFacts
<1>2. \A i \in DOMAIN q : /\ q[i].min \in Nat /\ q[i].price \in Nat /\ q[i].condition \in Conditions
                          /\ q[i] \in TierRow
  BY <1>1, TierFields
<1>3. Valid(q) = DOMAIN q
  <2>1. \A i \in DOMAIN q : q[i].min >= 0 /\ q[i].price >= 0
    BY <1>2
  <2> QED
    BY <2>1 DEF Valid
<1>4. \A i, j \in DOMAIN q : SameTier(q[i], q[j]) => i = j
  BY <1>1, <1>2, ConditionNormal DEF SameTier
<1>5. LastOfEach(q, Valid(q)) = DOMAIN q
  BY <1>1, <1>3, <1>4 DEF LastOfEach
<1>6. \A i \in DOMAIN q : Stored(q[i]) = q[i]
  BY <1>1, <1>2, ConditionNormal DEF Stored, NormalTier
<1>7. Kept(q) = Range(q)
  BY <1>5, <1>6 DEF Kept, Range
<1> QED
  BY <1>7, OneLine, NormalizedIsKept

-----------------------------------------------------------------------------
(* Walking a list of tiers: what the folds over it are.                    *)

(* The greatest elements of intervals and of their subsets.                *)
LEMMA MaxOfMany ==
    /\ \A n \in Nat \ {0} : Max(1 .. n) = n
    /\ \A n \in Nat : \A s \in SUBSET (1 .. n) : s # {} => Max(s) \in s
<1>1. ASSUME NEW n \in Nat \ {0} PROVE Max(1 .. n) = n
  <2>1. n \in 1 .. n /\ \A y \in 1 .. n : n >= y
    OBVIOUS
  <2>2. \A x \in 1 .. n : (\A y \in 1 .. n : x >= y) => x = n
    BY <2>1
  <2> QED
    BY <2>1, <2>2 DEF Max
<1>2. ASSUME NEW n \in Nat, NEW s \in SUBSET (1 .. n), s # {} PROVE Max(s) \in s
  <2>1. s \in SUBSET Nat /\ \A y \in s : y <= n
    OBVIOUS
  <2>2. \E x \in s : \A y \in s : y <= x
    BY <1>2, <2>1, GreatestNatural
  <2>3. \E x \in s : \A y \in s : x >= y
    BY <2>1, <2>2
  <2> QED
    BY <2>3 DEF Max
<1> QED
  BY <1>1, <1>2

(* A fold that takes the last element last, for steps that are typed.      *)
RightFold(g, F, base, n) ==
    \A s \in SUBSET (1 .. n) :
      g[s] = IF s = {} THEN base ELSE F[<<Max(s), g[s \ {Max(s)}]>>]

(* A fold over the positions from the right exists, as a function.         *)
LEMMA FoldToTheRight ==
    ASSUME NEW n \in Nat, NEW Acc, NEW base \in Acc, NEW F \in [(1 .. n) \X Acc -> Acc]
    PROVE  \E g \in [SUBSET (1 .. n) -> Acc] : RightFold(g, F, base, n)
<1> DEFINE D == 1 .. n
           C == [s \in SUBSET D |-> Max(s)]
<1>1. IsFiniteSet(D)
  BY FS_Interval
<1>2. \A s \in SUBSET D : s # {} => C[s] \in s
  BY MaxOfMany
<1>3. \A s \in SUBSET D : C[s] = Max(s)
  OBVIOUS
<1> HIDE DEF C, D
<1>4. \E g \in [SUBSET D -> Acc] : Folds(g, F, base, C, D)
  <2>1. F \in [D \X Acc -> Acc]
    BY DEF D
  <2> QED
    BY <1>1, <1>2, <2>1, FoldExists
<1>5. PICK g \in [SUBSET D -> Acc] : Folds(g, F, base, C, D)
  BY <1>4
<1>6. \A s \in SUBSET D : g[s] = IF s = {} THEN base ELSE F[<<Max(s), g[s \ {Max(s)}]>>]
  BY <1>3, <1>5 DEF Folds, FoldStep
<1> QED
  BY <1>5, <1>6 DEF RightFold, D

(* The sets 1 .. k one after the other.                                    *)
LEMMA OneMore ==
    ASSUME NEW n \in Nat, NEW k \in 1 .. n
    PROVE  /\ (1 .. k) \in SUBSET (1 .. n) /\ (1 .. k - 1) \in SUBSET (1 .. n)
           /\ (1 .. k) # {} /\ Max(1 .. k) = k /\ (1 .. k) \ {k} = 1 .. k - 1
BY MaxOfMany

(* Induction on the places of a list.                                      *)
LEMMA PlaceAfterPlace ==
    ASSUME NEW n \in Nat, NEW T, 0 \in T, \A k \in 1 .. n : k - 1 \in T => k \in T
    PROVE  0 .. n \subseteq T
<1> DEFINE U == {k \in Nat : k <= n => k \in T}
<1>1. 0 \in U
  OBVIOUS
<1>2. ASSUME NEW k \in U PROVE k + 1 \in U
  <2>1. k \in Nat /\ k + 1 \in Nat /\ (k + 1) - 1 = k
    OBVIOUS
  <2>2. ASSUME k + 1 <= n PROVE k + 1 \in T
    <3>1. k + 1 \in 1 .. n /\ k <= n
      BY <2>1, <2>2
    <3>2. k \in T
      BY <3>1
    <3> QED
      BY <2>1, <3>1, <3>2
  <2> QED
    BY <2>1, <2>2
<1> HIDE DEF U
<1>3. U = Nat
  BY <1>1, <1>2, SetInduction DEF U
<1> QED
  BY <1>3 DEF U

(* An iteration that keeps a type from one place to the next keeps it.     *)
LEMMA WalkIsTyped ==
    ASSUME NEW n \in Nat, NEW Acc, NEW W, W[0] \in Acc,
           \A k \in 1 .. n : W[k - 1] \in Acc => W[k] \in Acc
    PROVE  \A k \in 0 .. n : W[k] \in Acc
<1> DEFINE T == {k \in 0 .. n : W[k] \in Acc}
<1>1. 0 \in T /\ \A k \in 1 .. n : k - 1 \in T => k \in T
  OBVIOUS
<1> HIDE DEF T
<1>2. 0 .. n \subseteq T
  BY <1>1, PlaceAfterPlace
<1> QED
  BY <1>2 DEF T

(* What a walk along the segments has added up, where it is, and the price *)
(* that is due from there.                                                 *)
Walked == [total: Int, min: Int, price: Int]

SegmentWalk(W, q, tokens, base) ==
    /\ W \in [0 .. Len(q) -> Walked]
    /\ W[0] = [total |-> 0, min |-> 0, price |-> base]
    /\ \A n \in 1 .. Len(q) : W[n] = Segment(W[n - 1], q[n], tokens)

(* A segment adds an integer.                                              *)
LEMMA SegmentTyped ==
    ASSUME NEW acc \in Walked, NEW t \in TierRow, NEW tokens \in Int
    PROVE  Segment(acc, t, tokens) \in Walked
<1>1. /\ acc.total \in Int /\ acc.min \in Int /\ acc.price \in Int
      /\ t.min \in Int /\ t.price \in Int
  BY TierFields DEF Walked
<1>2. AtMost(t.min, tokens) \in Int
  BY <1>1 DEF AtMost
<1>3. acc.price * (AtMost(t.min, tokens) - acc.min) \in Int
  BY <1>1, <1>2
<1> QED
  BY <1>1, <1>2, <1>3 DEF Segment, Walked

(* The fold over segments is the last of a walk along the tiers.           *)
LEMMA SegmentsWalked ==
    ASSUME NEW q \in Seq(TierRow), NEW tokens \in Int, NEW base \in Int
    PROVE  \E W : /\ SegmentWalk(W, q, tokens, base)
                  /\ FoldLeft(LAMBDA acc, t : Segment(acc, t, tokens),
                              [total |-> 0, min |-> 0, price |-> base], q) = W[Len(q)]
<1> DEFINE N == Len(q)
           first == [total |-> 0, min |-> 0, price |-> base]
           F == [x \in (1 .. N) \X Walked |-> Segment(x[2], q[x[1]], tokens)]
           Eq(g) == g = [s \in SUBSET (1 .. N) |->
                           IF s = {} THEN first ELSE Segment(g[s \ {Max(s)}], q[Max(s)], tokens)]
           it == CHOOSE g : Eq(g)
           W == [n \in 0 .. N |-> it[1 .. n]]
<1>1. N \in Nat /\ DOMAIN q = 1 .. N /\ first \in Walked /\ \A n \in 1 .. N : q[n] \in TierRow
  BY DEF Walked
<1>2. FoldLeft(LAMBDA acc, t : Segment(acc, t, tokens), first, q) = it[1 .. N]
  BY <1>1 DEF FoldLeft, MapThenFoldSet
<1>3. F \in [(1 .. N) \X Walked -> Walked]
  <2>1. \A x \in (1 .. N) \X Walked : Segment(x[2], q[x[1]], tokens) \in Walked
    BY <1>1, SegmentTyped
  <2> QED
    BY <2>1
<1> HIDE DEF N, first
<1>4. \E g : Eq(g)
  <2>1. PICK g \in [SUBSET (1 .. N) -> Walked] : RightFold(g, F, first, N)
    <3> HIDE DEF F
    <3> QED
      BY <1>1, <1>3, FoldToTheRight
  <2>2. ASSUME NEW s \in SUBSET (1 .. N), s # {}
        PROVE  g[s] = Segment(g[s \ {Max(s)}], q[Max(s)], tokens)
    <3>1. Max(s) \in 1 .. N /\ s \ {Max(s)} \in SUBSET (1 .. N)
      BY <1>1, <2>2, MaxOfMany
    <3>2. <<Max(s), g[s \ {Max(s)}]>> \in (1 .. N) \X Walked
      BY <3>1
    <3> QED
      BY <2>1, <2>2, <3>2 DEF RightFold
  <2>3. g[{}] = first
    BY <2>1 DEF RightFold
  <2> QED
    BY <2>1, <2>2, <2>3
<1>5. Eq(it)
  BY <1>4
<1> HIDE DEF it
<1>6. W[0] = first
  BY <1>1, <1>5
<1>7. ASSUME NEW n \in 1 .. N PROVE W[n] = Segment(W[n - 1], q[n], tokens)
  <2>1. /\ (1 .. n) \in SUBSET (1 .. N) /\ (1 .. n) # {}
        /\ Max(1 .. n) = n /\ (1 .. n) \ {n} = 1 .. n - 1
    BY <1>1, <1>7, OneMore
  <2>2. it[1 .. n] = Segment(it[1 .. n - 1], q[n], tokens)
    BY <1>5, <2>1
  <2>3. n \in 0 .. N /\ n - 1 \in 0 .. N
    BY <1>1
  <2> QED
    BY <2>2, <2>3
<1> HIDE DEF W
<1>8. \A n \in 1 .. N : W[n - 1] \in Walked => W[n] \in Walked
  BY <1>1, <1>7, SegmentTyped
<1>9. \A n \in 0 .. N : W[n] \in Walked
  BY <1>1, <1>6, <1>8, WalkIsTyped
<1>10. SegmentWalk(W, q, tokens, base)
  BY <1>6, <1>7, <1>9 DEF SegmentWalk, W, N, first
<1>11. it[1 .. N] = W[Len(q)]
  BY <1>1 DEF W, N
<1> QED
  BY <1>2, <1>10, <1>11 DEF first

(* The best tier so far, of those that have conditions.                    *)
Best == [min: Int, price: Int]

Metric == [fullInput: Int, billableInput: Int, billableOutput: Int]

BetterWalk(W, q, base, tokens, metrics) ==
    /\ W \in [0 .. Len(q) -> Best]
    /\ W[0] = [min |-> -1, price |-> base]
    /\ \A n \in 1 .. Len(q) : W[n] = Better(W[n - 1], q[n], tokens, metrics)

(* The better of two tiers is one.                                         *)
LEMMA BetterTyped ==
    ASSUME NEW best \in Best, NEW t \in TierRow, NEW tokens, NEW metrics
    PROVE  Better(best, t, tokens, metrics) \in Best
BY TierFields DEF Better, Best

(* The fold over conditional tiers is the last of a walk along them.       *)
LEMMA BetterWalked ==
    ASSUME NEW q \in Seq(TierRow), NEW base \in Int, NEW tokens, NEW metrics
    PROVE  \E W : /\ BetterWalk(W, q, base, tokens, metrics)
                  /\ conditionalTierPrice(base, q, tokens, metrics) = W[Len(q)].price
<1> DEFINE N == Len(q)
           first == [min |-> -1, price |-> base]
           F == [x \in (1 .. N) \X Best |-> Better(x[2], q[x[1]], tokens, metrics)]
           Eq(g) == g = [s \in SUBSET (1 .. N) |->
                           IF s = {} THEN first
                           ELSE Better(g[s \ {Max(s)}], q[Max(s)], tokens, metrics)]
           it == CHOOSE g : Eq(g)
           W == [n \in 0 .. N |-> it[1 .. n]]
<1>1. N \in Nat /\ DOMAIN q = 1 .. N /\ first \in Best /\ \A n \in 1 .. N : q[n] \in TierRow
  BY DEF Best
<1>2. conditionalTierPrice(base, q, tokens, metrics) = it[1 .. N].price
  BY <1>1 DEF conditionalTierPrice, FoldLeft, MapThenFoldSet
<1>3. F \in [(1 .. N) \X Best -> Best]
  <2>1. \A x \in (1 .. N) \X Best : Better(x[2], q[x[1]], tokens, metrics) \in Best
    BY <1>1, BetterTyped
  <2> QED
    BY <2>1
<1> HIDE DEF N, first
<1>4. \E g : Eq(g)
  <2>1. PICK g \in [SUBSET (1 .. N) -> Best] : RightFold(g, F, first, N)
    <3> HIDE DEF F
    <3> QED
      BY <1>1, <1>3, FoldToTheRight
  <2>2. ASSUME NEW s \in SUBSET (1 .. N), s # {}
        PROVE  g[s] = Better(g[s \ {Max(s)}], q[Max(s)], tokens, metrics)
    <3>1. Max(s) \in 1 .. N /\ s \ {Max(s)} \in SUBSET (1 .. N)
      BY <1>1, <2>2, MaxOfMany
    <3>2. <<Max(s), g[s \ {Max(s)}]>> \in (1 .. N) \X Best
      BY <3>1
    <3> QED
      BY <2>1, <2>2, <3>2 DEF RightFold
  <2>3. g[{}] = first
    BY <2>1 DEF RightFold
  <2> QED
    BY <2>1, <2>2, <2>3
<1>5. Eq(it)
  BY <1>4
<1> HIDE DEF it
<1>6. W[0] = first
  BY <1>1, <1>5
<1>7. ASSUME NEW n \in 1 .. N PROVE W[n] = Better(W[n - 1], q[n], tokens, metrics)
  <2>1. /\ (1 .. n) \in SUBSET (1 .. N) /\ (1 .. n) # {}
        /\ Max(1 .. n) = n /\ (1 .. n) \ {n} = 1 .. n - 1
    BY <1>1, <1>7, OneMore
  <2>2. it[1 .. n] = Better(it[1 .. n - 1], q[n], tokens, metrics)
    BY <1>5, <2>1
  <2>3. n \in 0 .. N /\ n - 1 \in 0 .. N
    BY <1>1
  <2> QED
    BY <2>2, <2>3
<1> HIDE DEF W
<1>8. \A n \in 1 .. N : W[n - 1] \in Best => W[n] \in Best
  BY <1>1, <1>7, BetterTyped
<1>9. \A n \in 0 .. N : W[n] \in Best
  BY <1>1, <1>6, <1>8, WalkIsTyped
<1>10. BetterWalk(W, q, base, tokens, metrics)
  BY <1>6, <1>7, <1>9 DEF BetterWalk, W, N, first
<1>11. it[1 .. N] = W[Len(q)]
  BY <1>1 DEF W, N
<1> QED
  BY <1>2, <1>10, <1>11

-----------------------------------------------------------------------------
(* Multiplied prices.                                                      *)

Times(q, m) == [i \in DOMAIN q |-> [q[i] EXCEPT !.price = @ * m]]

(* Products of natural numbers.                                            *)
LEMMA NaturalProduct == \A a, b \in Nat : a * b \in Nat
OBVIOUS

(* Multiplied prices keep a stored list stored.                            *)
LEMMA TimesIsNormal ==
    ASSUME NEW q, IsNormal(q), NEW m \in Nat
    PROVE  /\ IsNormal(Times(q, m)) /\ DOMAIN Times(q, m) = DOMAIN q /\ Len(Times(q, m)) = Len(q)
           /\ \A i \in DOMAIN q : /\ Times(q, m)[i].min = q[i].min
                                  /\ Times(q, m)[i].condition = q[i].condition
                                  /\ Times(q, m)[i].price = q[i].price * m
<1>1. /\ q \in Seq(NormalTier) /\ Len(q) \in Nat /\ DOMAIN q = 1 .. Len(q)
      /\ \A i \in DOMAIN q : q[i] \in NormalTier
  BY NormalFacts
<1>2. ASSUME NEW t \in NormalTier
      PROVE  /\ [t EXCEPT !.price = @ * m] \in NormalTier
             /\ [t EXCEPT !.price = @ * m].min = t.min
             /\ [t EXCEPT !.price = @ * m].condition = t.condition
             /\ [t EXCEPT !.price = @ * m].price = t.price * m
  <2> DEFINE p == t.price * m
  <2>1. p \in Nat
    BY TierFields, NaturalProduct
  <2> HIDE DEF p
  <2>2. /\ [t EXCEPT !.price = p] \in NormalTier /\ [t EXCEPT !.price = p].min = t.min
        /\ [t EXCEPT !.price = p].condition = t.condition /\ [t EXCEPT !.price = p].price = p
    BY <2>1 DEF NormalTier
  <2> QED
    BY <2>2 DEF p
<1>3. \A i \in DOMAIN q :
        /\ Times(q, m)[i] \in NormalTier /\ Times(q, m)[i].min = q[i].min
        /\ Times(q, m)[i].condition = q[i].condition /\ Times(q, m)[i].price = q[i].price * m
  BY <1>1, <1>2 DEF Times
<1>4. Times(q, m) \in Seq(NormalTier) /\ DOMAIN Times(q, m) = DOMAIN q /\ Len(Times(q, m)) = Len(q)
  <2>1. Times(q, m) \in [1 .. Len(q) -> NormalTier]
    BY <1>1, <1>3 DEF Times
  <2> QED
    BY <1>1, <2>1
<1>5. \A i, j \in DOMAIN q : i < j => SortsBefore(q[i], q[j])
  BY DEF IsNormal
<1>6. \A i, j \in DOMAIN q : i < j => SortsBefore(Times(q, m)[i], Times(q, m)[j])
  BY <1>3, <1>5 DEF SortsBefore
<1> QED
  BY <1>3, <1>4, <1>6 DEF IsNormal

(* A segment of multiplied prices adds the multiple.                       *)
LEMMA SegmentScales ==
    ASSUME NEW m \in Nat, NEW tokens \in Int,
           NEW a \in Walked, NEW b \in Walked,
           a.total = m * b.total, a.min = b.min, a.price = m * b.price,
           NEW s \in TierRow, NEW t \in TierRow, s.min = t.min, s.price = t.price * m
    PROVE  LET x == Segment(a, s, tokens)
               y == Segment(b, t, tokens)
           IN x.total = m * y.total /\ x.min = y.min /\ x.price = m * y.price
<1>1. /\ b.total \in Int /\ b.min \in Int /\ b.price \in Int /\ t.min \in Int /\ t.price \in Int
      /\ AtMost(t.min, tokens) \in Int
  BY TierFields DEF Walked, AtMost
<1>2. s.price = m * t.price
  BY <1>1
<1>3. CASE t.min <= b.min
  <2>1. Segment(b, t, tokens) = [b EXCEPT !.price = t.price]
        /\ Segment(a, s, tokens) = [a EXCEPT !.price = s.price]
    BY <1>3 DEF Segment
  <2> QED
    BY <1>2, <2>1 DEF Walked
<1>4. CASE ~(t.min <= b.min)
  <2> DEFINE e == AtMost(t.min, tokens)
             d == e - b.min
  <2>1. Segment(b, t, tokens) = [total |-> b.total + b.price * d, min |-> e, price |-> t.price]
        /\ Segment(a, s, tokens) = [total |-> a.total + a.price * d, min |-> e, price |-> s.price]
    BY <1>4 DEF Segment
  <2>2. d \in Int
    BY <1>1
  <2> HIDE DEF d
  <2>3. m * b.total + (m * b.price) * d = m * (b.total + b.price * d)
    BY <1>1, <2>2
  <2> QED
    BY <1>2, <2>1, <2>3
<1> QED
  BY <1>3, <1>4

(* The better of two tiers of multiplied prices is at the same place.      *)
LEMMA BetterScales ==
    ASSUME NEW m \in Nat, NEW tokens, NEW metrics, NEW a \in Best, NEW b \in Best,
           a.min = b.min, a.price = m * b.price, NEW s \in TierRow, NEW t \in TierRow,
           s.min = t.min, s.condition = t.condition, s.price = t.price * m
    PROVE  LET x == Better(a, s, tokens, metrics)
               y == Better(b, t, tokens, metrics)
           IN x.min = y.min /\ x.price = m * y.price
<1>1. t.min \in Int /\ t.price \in Int /\ b.min \in Int /\ b.price \in Int
  BY TierFields DEF Best
<1>2. s.price = m * t.price
  BY <1>1
<1> QED
  BY <1>1, <1>2 DEF Better

(* A walk along tiers of multiplied prices ends at the multiple.           *)
LEMMA SegmentsScale ==
    ASSUME NEW q, IsNormal(q), NEW m \in Nat, NEW tokens \in Int, NEW base \in Int,
           NEW A, SegmentWalk(A, Times(q, m), tokens, m * base),
           NEW B, SegmentWalk(B, q, tokens, base), NEW n \in 0 .. Len(q)
    PROVE  /\ A[n].total = m * B[n].total /\ A[n].min = B[n].min /\ A[n].price = m * B[n].price
           /\ A[n] \in Walked /\ B[n] \in Walked
<1> DEFINE p == Times(q, m)
           Same(k) == A[k].total = m * B[k].total /\ A[k].min = B[k].min
                        /\ A[k].price = m * B[k].price
           T == {k \in 0 .. Len(q) : Same(k)}
<1>1. /\ Len(q) \in Nat /\ DOMAIN q = 1 .. Len(q) /\ Len(p) = Len(q) /\ DOMAIN p = DOMAIN q
      /\ p \in Seq(TierRow) /\ q \in Seq(TierRow)
      /\ \A i \in DOMAIN q : p[i].min = q[i].min /\ p[i].price = q[i].price * m
  BY NormalFacts, TimesIsNormal, NormalTiersAreRows
<1> HIDE DEF p
<1>2. /\ \A k \in 0 .. Len(q) : A[k] \in Walked /\ B[k] \in Walked
      /\ A[0] = [total |-> 0, min |-> 0, price |-> m * base]
      /\ B[0] = [total |-> 0, min |-> 0, price |-> base]
      /\ \A k \in 1 .. Len(q) : A[k] = Segment(A[k - 1], p[k], tokens)
                                /\ B[k] = Segment(B[k - 1], q[k], tokens)
  BY <1>1 DEF SegmentWalk, p
<1>3. 0 \in T
  BY <1>1, <1>2
<1>4. ASSUME NEW k \in 1 .. Len(q), k - 1 \in T PROVE k \in T
  <2>1. p[k] \in TierRow /\ q[k] \in TierRow /\ p[k].min = q[k].min /\ p[k].price = q[k].price * m
    BY <1>1
  <2>2. k - 1 \in 0 .. Len(q) /\ k \in 0 .. Len(q) /\ Same(k - 1)
    BY <1>1, <1>4
  <2>3. A[k - 1] \in Walked /\ B[k - 1] \in Walked
    BY <1>2, <2>2
  <2> DEFINE a == A[k - 1]
             b == B[k - 1]
  <2>4. LET x == Segment(a, p[k], tokens)
            y == Segment(b, q[k], tokens)
        IN x.total = m * y.total /\ x.min = y.min /\ x.price = m * y.price
    <3>1. a.total = m * b.total /\ a.min = b.min /\ a.price = m * b.price
      BY <2>2
    <3>2. a \in Walked /\ b \in Walked
      BY <2>3
    <3> HIDE DEF a, b
    <3> QED
      BY <2>1, <3>1, <3>2, SegmentScales, SMTT(30)
  <2>5. Same(k)
    BY <1>2, <2>4
  <2> QED
    BY <2>2, <2>5
<1> HIDE DEF T
<1>5. 0 .. Len(q) \subseteq T
  BY <1>1, <1>3, <1>4, PlaceAfterPlace
<1> QED
  BY <1>2, <1>5 DEF T

(* The price of the highest tier that is reached is multiplied.            *)
LEMMA BestScales ==
    ASSUME NEW q, IsNormal(q), NEW m \in Nat, NEW tokens \in Int, NEW base \in Int, NEW metrics
    PROVE  /\ conditionalTierPrice(base, q, tokens, metrics) \in Int
           /\ conditionalTierPrice(m * base, Times(q, m), tokens, metrics)
                = m * conditionalTierPrice(base, q, tokens, metrics)
<1> DEFINE p == Times(q, m)
<1>1. /\ Len(q) \in Nat /\ DOMAIN q = 1 .. Len(q) /\ Len(p) = Len(q) /\ DOMAIN p = DOMAIN q
      /\ p \in Seq(TierRow) /\ q \in Seq(TierRow)
      /\ \A i \in DOMAIN q : /\ p[i].min = q[i].min /\ p[i].price = q[i].price * m
                             /\ p[i].condition = q[i].condition
  BY NormalFacts, TimesIsNormal, NormalTiersAreRows
<1> HIDE DEF p
<1>2. PICK A : /\ BetterWalk(A, p, m * base, tokens, metrics)
               /\ conditionalTierPrice(m * base, p, tokens, metrics) = A[Len(q)].price
  <2>1. m * base \in Int
    OBVIOUS
  <2> QED
    BY <1>1, <2>1, BetterWalked
<1>3. PICK B : /\ BetterWalk(B, q, base, tokens, metrics)
               /\ conditionalTierPrice(base, q, tokens, metrics) = B[Len(q)].price
  <2>1. q \in Seq(TierRow)
    BY <1>1
  <2> QED
    BY <2>1, BetterWalked
<1> DEFINE Same(k) == A[k].min = B[k].min /\ A[k].price = m * B[k].price
           T == {k \in 0 .. Len(q) : Same(k)}
<1>4. /\ \A k \in 0 .. Len(q) : A[k] \in Best /\ B[k] \in Best
      /\ A[0] = [min |-> -1, price |-> m * base] /\ B[0] = [min |-> -1, price |-> base]
      /\ \A k \in 1 .. Len(q) : A[k] = Better(A[k - 1], p[k], tokens, metrics)
                                /\ B[k] = Better(B[k - 1], q[k], tokens, metrics)
  BY <1>1, <1>2, <1>3 DEF BetterWalk
<1>5. 0 \in T
  BY <1>1, <1>4
<1>6. ASSUME NEW k \in 1 .. Len(q), k - 1 \in T PROVE k \in T
  <2>1. /\ p[k] \in TierRow /\ q[k] \in TierRow /\ p[k].min = q[k].min
        /\ p[k].price = q[k].price * m /\ p[k].condition = q[k].condition
    BY <1>1
  <2>2. k - 1 \in 0 .. Len(q) /\ k \in 0 .. Len(q) /\ Same(k - 1)
    BY <1>1, <1>6
  <2>3. A[k - 1] \in Best /\ B[k - 1] \in Best
    BY <1>4, <2>2
  <2>4. LET x == Better(A[k - 1], p[k], tokens, metrics)
            y == Better(B[k - 1], q[k], tokens, metrics)
        IN x.min = y.min /\ x.price = m * y.price
    BY <2>1, <2>2, <2>3, BetterScales
  <2>5. Same(k)
    BY <1>4, <2>4
  <2> QED
    BY <2>2, <2>5
<1> HIDE DEF T
<1>7. 0 .. Len(q) \subseteq T
  BY <1>1, <1>5, <1>6, PlaceAfterPlace
<1>8. Len(q) \in 0 .. Len(q)
  BY <1>1
<1>9. A[Len(q)].price = m * B[Len(q)].price /\ B[Len(q)] \in Best
  BY <1>4, <1>7, <1>8 DEF T
<1> QED
  BY <1>2, <1>3, <1>9 DEF p, Best

(* Prices that are all multiplied make a cost that is.                     *)
LEMMA TieredScales ==
    ASSUME NEW q, IsNormal(q), NEW m \in Nat, NEW tokens \in Int, NEW base \in Int, NEW metrics
    PROVE  /\ CalculateTieredTokenCostWithMetrics(tokens, base, q, metrics) \in Int
           /\ CalculateTieredTokenCostWithMetrics(tokens, m * base, Times(q, m), metrics)
                = m * CalculateTieredTokenCostWithMetrics(tokens, base, q, metrics)
<1> DEFINE p == Times(q, m)
           first(x) == [total |-> 0, min |-> 0, price |-> x]
<1>1. /\ Len(q) \in Nat /\ Len(p) = Len(q) /\ DOMAIN p = DOMAIN q
      /\ p \in Seq(TierRow) /\ q \in Seq(TierRow)
      /\ \A i \in DOMAIN q : p[i].condition = q[i].condition
      /\ NormalizePriceTiers(p) = p /\ NormalizePriceTiers(q) = q
  BY NormalFacts, TimesIsNormal, NormalTiersAreRows, NormalizeIdempotent
<1> DEFINE dear == m * base
<1>2. dear \in Int
  OBVIOUS
<1> HIDE DEF p, dear
<1>3. usesConditionalPriceTiers(p) <=> usesConditionalPriceTiers(q)
  BY <1>1 DEF usesConditionalPriceTiers
<1>4. PICK A : /\ SegmentWalk(A, p, tokens, dear)
               /\ FoldLeft(LAMBDA acc, t : Segment(acc, t, tokens), first(dear), p) = A[Len(p)]
  BY <1>1, <1>2, SegmentsWalked
<1>5. PICK B : /\ SegmentWalk(B, q, tokens, base)
               /\ FoldLeft(LAMBDA acc, t : Segment(acc, t, tokens), first(base), q) = B[Len(q)]
  BY <1>1, SegmentsWalked
<1> DEFINE a == A[Len(q)]
           b == B[Len(q)]
<1>6. /\ a.total = m * b.total /\ a.min = b.min /\ a.price = m * b.price
      /\ a \in Walked /\ b \in Walked
  <2>1. Len(q) \in 0 .. Len(q)
    BY <1>1
  <2> QED
    BY <1>4, <1>5, <2>1, SegmentsScale DEF p, dear
<1>7. CalculateTieredTokenCostWithMetrics(tokens, base, q, metrics) =
        IF tokens <= 0 THEN 0
        ELSE IF usesConditionalPriceTiers(q)
             THEN tokens * conditionalTierPrice(base, q, tokens, metrics)
             ELSE b.total + b.price * (tokens - b.min)
  BY <1>1, <1>5 DEF CalculateTieredTokenCostWithMetrics
<1>8. CalculateTieredTokenCostWithMetrics(tokens, dear, p, metrics) =
        IF tokens <= 0 THEN 0
        ELSE IF usesConditionalPriceTiers(p)
             THEN tokens * conditionalTierPrice(dear, p, tokens, metrics)
             ELSE a.total + a.price * (tokens - a.min)
  BY <1>1, <1>4 DEF CalculateTieredTokenCostWithMetrics
<1>9. /\ b.total \in Int /\ b.min \in Int /\ b.price \in Int
  BY <1>6 DEF Walked
<1> HIDE DEF a, b
<1>10. CASE tokens <= 0
  <2>1. CalculateTieredTokenCostWithMetrics(tokens, base, q, metrics) = 0
    BY <1>7, <1>10
  <2>2. CalculateTieredTokenCostWithMetrics(tokens, dear, p, metrics) = 0
    BY <1>8, <1>10
  <2> QED
    BY <2>1, <2>2 DEF p, dear
<1>11. CASE ~(tokens <= 0) /\ usesConditionalPriceTiers(q)
  <2> DEFINE c == conditionalTierPrice(base, q, tokens, metrics)
  <2>1. c \in Int /\ conditionalTierPrice(dear, p, tokens, metrics) = m * c
    BY BestScales DEF p, dear
  <2>2. CalculateTieredTokenCostWithMetrics(tokens, base, q, metrics) = tokens * c
    BY <1>7, <1>11
  <2>3. CalculateTieredTokenCostWithMetrics(tokens, dear, p, metrics) = tokens * (m * c)
    BY <1>3, <1>8, <1>11, <2>1
  <2> HIDE DEF c
  <2>4. tokens * c \in Int /\ tokens * (m * c) = m * (tokens * c)
    BY <2>1
  <2> QED
    BY <2>2, <2>3, <2>4 DEF p, dear
<1>12. CASE ~(tokens <= 0) /\ ~usesConditionalPriceTiers(q)
  <2> DEFINE d == tokens - b.min
  <2>1. CalculateTieredTokenCostWithMetrics(tokens, base, q, metrics) = b.total + b.price * d
    BY <1>7, <1>12
  <2>2. CalculateTieredTokenCostWithMetrics(tokens, dear, p, metrics)
          = m * b.total + (m * b.price) * d
    BY <1>3, <1>6, <1>8, <1>12
  <2>3. d \in Int
    BY <1>9
  <2> HIDE DEF d
  <2>4. b.total + b.price * d \in Int
        /\ m * b.total + (m * b.price) * d = m * (b.total + b.price * d)
    BY <1>9, <2>3
  <2> QED
    BY <2>1, <2>2, <2>4 DEF p, dear
<1> QED
  BY <1>10, <1>11, <1>12

-----------------------------------------------------------------------------
(* What tiers mean, and what a walk along them makes of it.                *)

(* Of the tiers that are written alike, the last one is kept.              *)
LEMMA LastIsKept ==
    ASSUME NEW tiers \in Seq(TierRow), NEW k \in Valid(tiers)
    PROVE  \E l \in LastOfEach(tiers, Valid(tiers)) : k <= l /\ SameTier(tiers[k], tiers[l])
<1> DEFINE alike == {j \in Valid(tiers) : SameTier(tiers[k], tiers[j])}
<1>1. Valid(tiers) \subseteq 1 .. Len(tiers) /\ Len(tiers) \in Nat
  BY DEF Valid
<1>2. k \in alike
  BY DEF SameTier
<1>3. alike \in SUBSET Nat /\ \A n \in alike : n <= Len(tiers)
  BY <1>1
<1> HIDE DEF alike
<1>4. PICK l \in alike : \A m \in alike : m <= l
  BY <1>1, <1>2, <1>3, GreatestNatural
<1>5. l \in Valid(tiers) /\ SameTier(tiers[k], tiers[l]) /\ k <= l
  BY <1>2, <1>4 DEF alike
<1>6. ASSUME NEW j \in Valid(tiers), j > l, SameTier(tiers[l], tiers[j]) PROVE FALSE
  <2>1. SameTier(tiers[k], tiers[j])
    BY <1>5, <1>6 DEF SameTier
  <2>2. j \in alike /\ j \in Nat /\ l \in Nat
    BY <1>1, <1>5, <2>1 DEF alike
  <2> QED
    BY <1>4, <1>6, <2>2
<1>7. l \in LastOfEach(tiers, Valid(tiers))
  BY <1>5, <1>6 DEF LastOfEach
<1> QED
  BY <1>5, <1>7

(* Tiers without conditions are stored by where they begin.                *)
LEMMA PlainIsSorted ==
    ASSUME NEW tiers \in Seq(TierRow), Plain(tiers), NEW q, q = NormalizePriceTiers(tiers)
    PROVE  /\ IsNormal(q) /\ Len(q) \in Nat /\ DOMAIN q = 1 .. Len(q)
           /\ ~usesConditionalPriceTiers(q)
           /\ \A n \in DOMAIN q : q[n].min \in Nat /\ q[n].price \in Nat
           /\ \A m, n \in DOMAIN q : m < n => q[m].min < q[n].min
           /\ \A n \in DOMAIN q : \E l \in LastOfEach(tiers, Valid(tiers)) :
                q[n].min = tiers[l].min /\ q[n].price = tiers[l].price
           /\ \A l \in LastOfEach(tiers, Valid(tiers)) : \E n \in DOMAIN q :
                q[n].min = tiers[l].min /\ q[n].price = tiers[l].price
<1>1. IsNormal(q) /\ Range(q) = Kept(tiers)
  BY NormalizedIsNormal
<1>2. /\ Len(q) \in Nat /\ DOMAIN q = 1 .. Len(q)
      /\ \A n \in DOMAIN q : q[n].min \in Nat /\ q[n].price \in Nat
  BY <1>1, NormalFacts, TierFields
<1>3. LastOfEach(tiers, Valid(tiers)) \subseteq DOMAIN tiers
  BY DEF LastOfEach, Valid
<1>4. \A l \in LastOfEach(tiers, Valid(tiers)) :
        /\ Stored(tiers[l]).min = tiers[l].min /\ Stored(tiers[l]).price = tiers[l].price
        /\ Stored(tiers[l]).condition = "current"
  BY <1>3, StoredTier DEF Plain
<1>5. \A n \in DOMAIN q : q[n] \in Kept(tiers)
  BY <1>1 DEF Range
<1>6. \A n \in DOMAIN q : \E l \in LastOfEach(tiers, Valid(tiers)) : q[n] = Stored(tiers[l])
  BY <1>5 DEF Kept
<1>7. \A n \in DOMAIN q : q[n].condition = "current"
  BY <1>4, <1>6
<1>8. \A m, n \in DOMAIN q : m < n => q[m].min < q[n].min
  <2> SUFFICES ASSUME NEW m \in DOMAIN q, NEW n \in DOMAIN q, m < n
               PROVE  q[m].min < q[n].min
    OBVIOUS
  <2>1. SortsBefore(q[m], q[n])
    BY <1>1 DEF IsNormal
  <2>2. Rank("current") \in 1 .. 4
    BY Ranks DEF Conditions
  <2> QED
    BY <1>7, <2>1, <2>2 DEF SortsBefore
<1>9. \A l \in LastOfEach(tiers, Valid(tiers)) : \E n \in DOMAIN q : q[n] = Stored(tiers[l])
  BY <1>1 DEF Range, Kept
<1> QED
  BY <1>1, <1>2, <1>4, <1>6, <1>7, <1>8, <1>9 DEF usesConditionalPriceTiers

PriceFrom(base, q, n) == IF n = 0 THEN base ELSE q[n].price

(* The price that is meant for a token is that of the stored tier it is in.*)
LEMMA MeantInTier ==
    ASSUME NEW tiers \in Seq(TierRow), Plain(tiers), NEW q, q = NormalizePriceTiers(tiers),
           NEW base, NEW n \in 0 .. Len(q), NEW i \in Nat \ {0},
           n # 0 => q[n].min <= i - 1, n # Len(q) => i - 1 < q[n + 1].min
    PROVE  PriceMeant(base, tiers, i) = PriceFrom(base, q, n)
<1> DEFINE below == {k \in DOMAIN tiers : tiers[k].min \in 0 .. i - 1 /\ tiers[k].price >= 0}
           Highest(k) == \A j \in below :
             tiers[j].min < tiers[k].min \/ (tiers[j].min = tiers[k].min /\ j <= k)
<1>1. PriceMeant(base, tiers, i) =
        IF below = {} THEN base ELSE tiers[CHOOSE k \in below : Highest(k)].price
  BY DEF PriceMeant
<1>2. /\ Len(q) \in Nat /\ DOMAIN q = 1 .. Len(q)
      /\ \A m \in DOMAIN q : q[m].min \in Nat
      /\ \A l, m \in DOMAIN q : l < m => q[l].min < q[m].min
  BY PlainIsSorted
<1>3. \A k \in DOMAIN tiers : tiers[k].min \in Int /\ tiers[k].price \in Int /\ k \in Nat
  BY TierFields
<1>4. ASSUME NEW j \in below
      PROVE  \E l \in LastOfEach(tiers, Valid(tiers)) : \E m \in DOMAIN q :
               /\ j <= l /\ tiers[l].min = tiers[j].min /\ q[m].min = tiers[j].min
               /\ m <= n /\ n # 0
  <2>1. j \in Valid(tiers) /\ tiers[j].min <= i - 1 /\ tiers[j].min \in Int
    BY <1>3 DEF Valid
  <2>2. PICK l \in LastOfEach(tiers, Valid(tiers)) : j <= l /\ SameTier(tiers[j], tiers[l])
    BY <2>1, LastIsKept
  <2>3. PICK m \in DOMAIN q : q[m].min = tiers[l].min
    BY PlainIsSorted
  <2>4. q[m].min = tiers[j].min /\ tiers[l].min = tiers[j].min
    BY <2>2, <2>3 DEF SameTier
  <2>5. Len(q) \in Nat /\ m \in 1 .. Len(q) /\ n \in 0 .. Len(q)
    BY <1>2
  <2>6. ASSUME m > n PROVE FALSE
    <3>1. n # Len(q) /\ n + 1 \in 1 .. Len(q) /\ (m = n + 1 \/ n + 1 < m)
      BY <2>5, <2>6
    <3>2. q[n + 1].min <= q[m].min /\ q[n + 1].min \in Nat /\ q[m].min \in Nat
      <4>1. n + 1 \in DOMAIN q /\ m \in DOMAIN q
        BY <1>2, <3>1
      <4>2. q[n + 1].min \in Nat /\ q[m].min \in Nat /\ (n + 1 < m => q[n + 1].min < q[m].min)
        BY <1>2, <4>1
      <4> QED
        BY <3>1, <4>2
    <3>3. i - 1 < q[n + 1].min
      BY <3>1
    <3> QED
      BY <2>1, <2>4, <3>2, <3>3
  <2>7. m <= n /\ n # 0
    BY <2>5, <2>6
  <2> QED
    BY <2>2, <2>4, <2>7
<1>5. CASE n = 0
  <2>1. below = {}
    BY <1>4, <1>5
  <2>2. PriceFrom(base, q, n) = base
    BY <1>5 DEF PriceFrom
  <2> HIDE DEF below
  <2>3. PriceMeant(base, tiers, i) = base
    BY <1>1, <2>1
  <2> QED
    BY <2>2, <2>3
<1>6. CASE n # 0
  <2>1. n \in DOMAIN q
    <3>1. Len(q) \in Nat /\ DOMAIN q = 1 .. Len(q)
      BY <1>2
    <3>2. \A len \in Nat : \A k \in 0 .. len : k # 0 => k \in 1 .. len
      OBVIOUS
    <3> QED
      BY <1>6, <3>1, <3>2
  <2>2. PICK k \in LastOfEach(tiers, Valid(tiers)) :
          q[n].min = tiers[k].min /\ q[n].price = tiers[k].price
    BY <2>1, PlainIsSorted
  <2>3. k \in Valid(tiers) /\ k \in DOMAIN tiers /\ k \in Nat
    BY <1>3 DEF LastOfEach, Valid
  <2>4. k \in below
    BY <1>2, <1>3, <1>6, <2>1, <2>2, <2>3 DEF Valid
  <2>5. Highest(k)
    <3> SUFFICES ASSUME NEW j \in below
                 PROVE  tiers[j].min < tiers[k].min \/ (tiers[j].min = tiers[k].min /\ j <= k)
      OBVIOUS
    <3>1. PICK l \in LastOfEach(tiers, Valid(tiers)), m \in DOMAIN q :
               /\ j <= l /\ tiers[l].min = tiers[j].min /\ q[m].min = tiers[j].min /\ m <= n
      BY <1>4
    <3>2. q[m].min <= q[n].min
      BY <1>2, <2>1, <3>1
    <3>3. l \in Valid(tiers) /\ l \in DOMAIN tiers /\ l \in Nat
      BY <1>3 DEF LastOfEach, Valid
    <3>4. ASSUME tiers[j].min = tiers[k].min PROVE j <= k
      <4>1. SameTier(tiers[k], tiers[l]) /\ SameTier(tiers[l], tiers[k])
        BY <2>3, <3>1, <3>3, <3>4 DEF SameTier, Plain
      <4>2. ~(l > k) /\ ~(k > l)
        BY <2>3, <3>3, <4>1 DEF LastOfEach
      <4> QED
        BY <2>3, <3>1, <3>3, <4>2
    <3> QED
      BY <1>3, <2>2, <2>3, <3>1, <3>2, <3>4
  <2>6. \A j \in below : Highest(j) => j = k
    <3> SUFFICES ASSUME NEW j \in below, Highest(j) PROVE j = k
      OBVIOUS
    <3>1. j \in Nat /\ tiers[j].min \in Int /\ tiers[k].min \in Int
      BY <1>3, <2>3
    <3>2. /\ tiers[j].min < tiers[k].min \/ (tiers[j].min = tiers[k].min /\ j <= k)
          /\ tiers[k].min < tiers[j].min \/ (tiers[k].min = tiers[j].min /\ k <= j)
      BY <2>4, <2>5
    <3> QED
      BY <2>3, <3>1, <3>2
  <2> HIDE DEF below, Highest
  <2>7. (CHOOSE j \in below : Highest(j)) = k
    BY <2>4, <2>5, <2>6
  <2> QED
    BY <1>1, <1>6, <2>2, <2>4, <2>7 DEF PriceFrom
<1> QED
  BY <1>5, <1>6

(* The meant price of a token is an integer.                               *)
LEMMA MeantTyped ==
    ASSUME NEW tiers \in Seq(TierRow), Plain(tiers), NEW base \in Int, NEW i \in Nat \ {0}
    PROVE  PriceMeant(base, tiers, i) \in Int
<1> DEFINE q == NormalizePriceTiers(tiers)
           T == {n \in 0 .. Len(q) : n = 0 \/ q[n].min <= i - 1}
<1>1. /\ Len(q) \in Nat /\ DOMAIN q = 1 .. Len(q)
      /\ \A m \in DOMAIN q : q[m].min \in Nat /\ q[m].price \in Nat
  BY PlainIsSorted
<1> HIDE DEF q
<1>2. T \in SUBSET Nat /\ 0 \in T /\ \A n \in T : n <= Len(q)
  BY <1>1
<1>3. PICK n \in T : \A m \in T : m <= n
  BY <1>1, <1>2, GreatestNatural
<1>4. n \in 0 .. Len(q) /\ (n # 0 => q[n].min <= i - 1)
  OBVIOUS
<1> HIDE DEF T
<1>5. ASSUME n # Len(q) PROVE i - 1 < q[n + 1].min
  <2>0. n \in 0 .. Len(q) /\ Len(q) \in Nat
    BY <1>1, <1>4
  <2>1. n + 1 \in 1 .. Len(q) /\ ~(n + 1 <= n)
    BY <1>5, <2>0
  <2>2. n + 1 \notin T /\ q[n + 1].min \in Nat
    <3>1. n + 1 \in DOMAIN q /\ \A m \in T : m <= n
      BY <1>1, <1>3, <2>1
    <3> QED
      BY <1>1, <2>1, <3>1
  <2> QED
    BY <1>1, <2>1, <2>2 DEF T
<1>6. PriceMeant(base, tiers, i) = PriceFrom(base, q, n)
  BY <1>4, <1>5, MeantInTier DEF q
<1> QED
  BY <1>1, <1>4, <1>6 DEF PriceFrom

(* The first tokens a walk has priced when it is at the n-th tier.         *)
Cut(q, tokens, n) == IF n = 0 THEN 0 ELSE AtMost(q[n].min, tokens)

(* q is how the tiers are stored, and f what is meant for each token.      *)
Meant(f, tokens, base, tiers, q) ==
    /\ tiers \in Seq(TierRow) /\ Plain(tiers) /\ q = NormalizePriceTiers(tiers)
    /\ base \in Int /\ tokens \in Nat
    /\ \A i \in 1 .. tokens : f[i] = PriceMeant(base, tiers, i)

(* From there to the next tier all tokens have one price.                  *)
LEMMA OnePrice ==
    ASSUME NEW f, NEW tokens, NEW base, NEW tiers, NEW q, Meant(f, tokens, base, tiers, q),
           NEW n \in 0 .. Len(q), NEW b \in 0 .. tokens, Cut(q, tokens, n) <= b,
           n # Len(q) => b <= q[n + 1].min
    PROVE  /\ Cut(q, tokens, n) \in 0 .. tokens
           /\ SumFunctionOnSet(f, 1 .. b)
                = SumFunctionOnSet(f, 1 .. Cut(q, tokens, n))
                    + PriceFrom(base, q, n) * (b - Cut(q, tokens, n))
<1> DEFINE a == Cut(q, tokens, n)
<1>0. /\ tiers \in Seq(TierRow) /\ Plain(tiers) /\ q = NormalizePriceTiers(tiers)
      /\ base \in Int /\ tokens \in Nat
      /\ \A i \in 1 .. tokens : f[i] = PriceMeant(base, tiers, i)
  BY DEF Meant
<1>1. /\ Len(q) \in Nat /\ DOMAIN q = 1 .. Len(q)
      /\ \A m \in DOMAIN q : q[m].min \in Nat /\ q[m].price \in Nat
  BY <1>0, PlainIsSorted
<1>2. /\ a \in 0 .. tokens /\ (n # 0 => a = q[n].min \/ (a = tokens /\ a < q[n].min))
      /\ PriceFrom(base, q, n) \in Int
  <2>1. CASE n = 0
    BY <1>0, <2>1 DEF Cut, PriceFrom
  <2>2. CASE n # 0
    <3>1. n \in 0 .. Len(q) /\ Len(q) \in Nat
      BY <1>1
    <3>2. n \in 1 .. Len(q)
      BY <2>2, <3>1
    <3>3. q[n].min \in Nat /\ q[n].price \in Nat
      BY <1>1, <3>2
    <3> QED
      BY <1>0, <2>2, <3>3 DEF Cut, PriceFrom, AtMost
  <2> QED
    BY <2>1, <2>2
<1> HIDE DEF a
<1>3. \A i \in 1 .. b : f[i] \in Int
  <2>1. \A i \in 1 .. b : i \in 1 .. tokens /\ i \in Nat \ {0}
    BY <1>0
  <2> QED
    BY <1>0, <2>1, MeantTyped
<1>4. ASSUME NEW i \in a + 1 .. b PROVE f[i] = PriceFrom(base, q, n)
  <2>1. i \in 1 .. tokens /\ i \in Nat \ {0} /\ a <= i - 1 /\ i <= b /\ a # tokens
    BY <1>0, <1>2
  <2>2. n # 0 => q[n].min <= i - 1
    BY <1>2, <2>1
  <2>3. ASSUME n # Len(q) PROVE i - 1 < q[n + 1].min
    <3>1. n + 1 \in DOMAIN q
      BY <1>1, <2>3
    <3>2. b <= q[n + 1].min /\ q[n + 1].min \in Nat
      BY <1>1, <2>3, <3>1
    <3> QED
      BY <2>1, <3>2
  <2>4. PriceMeant(base, tiers, i) = PriceFrom(base, q, n)
    BY <1>0, <2>1, <2>2, <2>3, MeantInTier
  <2> QED
    BY <1>0, <2>1, <2>4
<1>5. a <= b /\ a \in Nat /\ b \in Nat
  BY <1>0, <1>2 DEF a
<1>6. SumFunctionOnSet(f, 1 .. b) = SumFunctionOnSet(f, 1 .. a) + PriceFrom(base, q, n) * (b - a)
  BY <1>2, <1>3, <1>4, <1>5, SumStretches
<1> QED
  BY <1>2, <1>6 DEF a

(* A walk adds up what the tokens before it cost.                          *)
LEMMA WalkAddsUp ==
    ASSUME NEW f, NEW tokens, NEW base, NEW tiers, NEW q, Meant(f, tokens, base, tiers, q),
           NEW W, SegmentWalk(W, q, tokens, base), NEW n \in 0 .. Len(q)
    PROVE  /\ W[n].min = Cut(q, tokens, n) /\ W[n].price = PriceFrom(base, q, n)
           /\ W[n].total = SumFunctionOnSet(f, 1 .. Cut(q, tokens, n))
<1> DEFINE Sum(b) == SumFunctionOnSet(f, 1 .. b)
           Right(k) == /\ W[k].min = Cut(q, tokens, k) /\ W[k].price = PriceFrom(base, q, k)
                       /\ W[k].total = Sum(Cut(q, tokens, k))
           T == {k \in 0 .. Len(q) : Right(k)}
<1>0. /\ tiers \in Seq(TierRow) /\ Plain(tiers) /\ q = NormalizePriceTiers(tiers)
      /\ base \in Int /\ tokens \in Nat
  BY DEF Meant
<1>1. /\ Len(q) \in Nat /\ DOMAIN q = 1 .. Len(q)
      /\ \A m \in DOMAIN q : q[m].min \in Nat /\ q[m].price \in Nat
      /\ \A l, m \in DOMAIN q : l < m => q[l].min < q[m].min
  BY <1>0, PlainIsSorted
<1>2. 0 \in T
  <2>1. SumFunctionOnSet(f, 1 .. 0) = 0
    <3>1. 1 .. 0 = {}
      OBVIOUS
    <3> QED
      BY <3>1, SumOfNone
  <2> QED
    BY <1>1, <2>1 DEF SegmentWalk, Cut, PriceFrom
<1>3. ASSUME NEW k \in 1 .. Len(q), k - 1 \in T PROVE k \in T
  <2> DEFINE j == k - 1
             a == Cut(q, tokens, j)
             min == q[k].min
             p == PriceFrom(base, q, j)
  <2>1. j \in 0 .. Len(q) /\ j + 1 = k /\ j # Len(q) /\ k \in DOMAIN q /\ k # 0
        /\ k \in 0 .. Len(q)
    BY <1>1
  <2>2. min \in Nat /\ PriceFrom(base, q, k) = q[k].price /\ Cut(q, tokens, k) = AtMost(min, tokens)
    BY <1>1, <2>1 DEF PriceFrom, Cut
  <2>3. Right(j) /\ W[j] \in Walked /\ W[k] = Segment(W[j], q[k], tokens)
    BY <1>3, <2>1 DEF SegmentWalk
  <2>4. j = 0 \/ q[j].min < min
    BY <1>1, <2>1
  <2>5. a \in Nat /\ a <= tokens /\ (j # 0 => a <= q[j].min /\ q[j].min \in Nat) /\ (j = 0 => a = 0)
    BY <1>0, <1>1, <2>1 DEF Cut, AtMost
  <2>6. CASE min <= a
    <3>1. a = AtMost(min, tokens)
      BY <1>0, <2>2, <2>4, <2>5, <2>6 DEF AtMost
    <3>2. W[k] = [W[j] EXCEPT !.price = q[k].price]
      BY <2>3, <2>6 DEF Segment
    <3>3. W[k].min = W[j].min /\ W[k].total = W[j].total /\ W[k].price = q[k].price
      BY <2>3, <3>2 DEF Walked
    <3> QED
      BY <2>1, <2>2, <2>3, <3>1, <3>3
  <2>7. CASE ~(min <= a)
    <3> DEFINE b == AtMost(min, tokens)
    <3>1. b \in 0 .. tokens /\ a <= b /\ b <= min
      BY <1>0, <2>2, <2>5, <2>7 DEF AtMost
    <3>2. W[k] = [total |-> W[j].total + W[j].price * (b - W[j].min), min |-> b, price |-> q[k].price]
      BY <2>3, <2>7 DEF Segment
    <3>3. W[k].min = b /\ W[k].price = q[k].price /\ W[k].total = Sum(a) + p * (b - a)
      BY <2>3, <3>2
    <3>4. Sum(b) = Sum(a) + p * (b - a)
      <4>1. j # Len(q) => b <= q[j + 1].min
        BY <2>1, <3>1
      <4>2. Cut(q, tokens, j) <= b /\ b \in 0 .. tokens /\ j \in 0 .. Len(q)
        BY <2>1, <3>1
      <4> HIDE DEF b, j, min, T
      <4>3. SumFunctionOnSet(f, 1 .. b)
              = SumFunctionOnSet(f, 1 .. Cut(q, tokens, j))
                  + PriceFrom(base, q, j) * (b - Cut(q, tokens, j))
        BY <4>1, <4>2, OnePrice
      <4> QED
        BY <4>3
    <3> QED
      BY <2>1, <2>2, <3>3, <3>4
  <2> QED
    BY <2>6, <2>7
<1> HIDE DEF T
<1>4. 0 .. Len(q) \subseteq T
  BY <1>1, <1>2, <1>3, PlaceAfterPlace
<1> QED
  BY <1>4 DEF T

(* Tokens cost what is meant for each of them.                             *)
LEMMA TieredMeant ==
    ASSUME NEW tiers \in Seq(TierRow), Plain(tiers), NEW base \in Int, NEW tokens \in Nat,
           NEW metrics
    PROVE  CalculateTieredTokenCostWithMetrics(tokens, base, NormalizePriceTiers(tiers), metrics)
             = SumFunction([i \in 1 .. tokens |-> PriceMeant(base, tiers, i)])
<1> DEFINE q == NormalizePriceTiers(tiers)
           f == [i \in 1 .. tokens |-> PriceMeant(base, tiers, i)]
           n == Len(q)
           cut == Cut(q, tokens, n)
           cost == CalculateTieredTokenCostWithMetrics(tokens, base, q, metrics)
<1>1. /\ IsNormal(q) /\ n \in Nat /\ ~usesConditionalPriceTiers(q)
  BY PlainIsSorted
<1>2. NormalizePriceTiers(q) = q /\ q \in Seq(TierRow)
  BY <1>1, NormalizeIdempotent, NormalTiersAreRows
<1>3. SumFunction(f) = SumFunctionOnSet(f, 1 .. tokens)
  BY DEF SumFunction, FoldFunction, SumFunctionOnSet
<1>4. Meant(f, tokens, base, tiers, q) /\ tokens \in Int
  BY DEF Meant
<1> HIDE DEF q, f
<1>5. PICK W : /\ SegmentWalk(W, q, tokens, base)
               /\ FoldLeft(LAMBDA acc, t : Segment(acc, t, tokens),
                           [total |-> 0, min |-> 0, price |-> base], q) = W[Len(q)]
  BY <1>2, <1>4, SegmentsWalked
<1>6. cost = IF tokens <= 0 THEN 0 ELSE W[n].total + W[n].price * (tokens - W[n].min)
  BY <1>1, <1>2, <1>5 DEF CalculateTieredTokenCostWithMetrics
<1>7. n \in 0 .. Len(q)
  BY <1>1
<1>8. /\ W[n].min = cut /\ W[n].price = PriceFrom(base, q, n)
      /\ W[n].total = SumFunctionOnSet(f, 1 .. cut)
  <2> HIDE DEF n
  <2>1. SegmentWalk(W, q, tokens, base)
    BY <1>5
  <2>2. Meant(f, tokens, base, tiers, q)
    BY <1>4
  <2>3. /\ W[n].min = Cut(q, tokens, n) /\ W[n].price = PriceFrom(base, q, n)
        /\ W[n].total = SumFunctionOnSet(f, 1 .. Cut(q, tokens, n))
    BY <1>7, <2>1, <2>2, WalkAddsUp
  <2> QED
    BY <2>3
<1>9. SumFunctionOnSet(f, 1 .. tokens)
        = SumFunctionOnSet(f, 1 .. cut) + PriceFrom(base, q, n) * (tokens - cut)
  <2>1. cut <= tokens /\ tokens \in 0 .. tokens
    <3>1. n = 0 \/ n \in DOMAIN q
      BY <1>1, <1>2
    <3>2. n # 0 => q[n].min \in Int
      BY <3>1, PlainIsSorted DEF q
    <3> QED
      BY <3>2 DEF Cut, AtMost
  <2> QED
    <3>1. n # Len(q) => tokens <= q[n + 1].min
      OBVIOUS
    <3> HIDE DEF n
    <3> QED
      BY <1>4, <1>7, <2>1, <3>1, OnePrice
<1>10. CASE tokens <= 0
  <2>1. 1 .. tokens = {}
    BY <1>10
  <2> QED
    BY <1>3, <1>6, <1>10, <2>1, SumOfNone DEF q, f
<1>11. CASE ~(tokens <= 0)
  BY <1>3, <1>6, <1>8, <1>9, <1>11 DEF q, f
<1> QED
  BY <1>10, <1>11

-----------------------------------------------------------------------------
(* What is counted of an answer.                                           *)

(* Normal counts: the parts of the input and of the output are in them.    *)
IsCount(u) ==
    /\ u \in [Counted -> Nat]
    /\ u.read + u.write + u.write1h <= u.input /\ u.imageIn + u.audioIn <= u.input
    /\ u.imageOut + u.audioOut <= u.output

(* Whatever is reported, what is counted of it is normal.                  *)
LEMMA CountsNormal ==
    ASSUME NEW raw \in [Counted -> Int]
    PROVE  IsCount(normalizeUsageTokenCounts(raw))
<1> DEFINE n == [k \in Counted |-> Floor(raw[k])]
           m == [n EXCEPT !.read = IF n.read = 0 THEN n.cached ELSE n.read,
                          !.cached = IF n.cached = 0 THEN n.read ELSE n.cached]
           c == [m EXCEPT !.input = RaisedInput(m),
                          !.output = AtLeast(m.output, m.imageOut + m.audioOut)]
<1>1. n \in [Counted -> Nat]
  BY DEF Floor
<1> HIDE DEF n
<1>2. m \in [Counted -> Nat]
  BY <1>1 DEF Counted
<1> HIDE DEF m
<1>3. /\ m.input \in Nat /\ m.read \in Nat /\ m.write \in Nat /\ m.write1h \in Nat
      /\ m.imageIn \in Nat /\ m.audioIn \in Nat
      /\ m.output \in Nat /\ m.imageOut \in Nat /\ m.audioOut \in Nat
  BY <1>2 DEF Counted
<1>4. /\ RaisedInput(m) \in Nat
      /\ m.read + m.write + m.write1h <= RaisedInput(m)
      /\ m.imageIn + m.audioIn <= RaisedInput(m)
  BY <1>3 DEF RaisedInput, AtLeast
<1>5. /\ AtLeast(m.output, m.imageOut + m.audioOut) \in Nat
      /\ m.imageOut + m.audioOut <= AtLeast(m.output, m.imageOut + m.audioOut)
  BY <1>3 DEF AtLeast
<1>6. /\ c \in [Counted -> Nat]
      /\ c.input = RaisedInput(m) /\ c.output = AtLeast(m.output, m.imageOut + m.audioOut)
      /\ c.read = m.read /\ c.write = m.write /\ c.write1h = m.write1h
      /\ c.imageIn = m.imageIn /\ c.audioIn = m.audioIn
      /\ c.imageOut = m.imageOut /\ c.audioOut = m.audioOut
  BY <1>2, <1>4, <1>5 DEF Counted
<1>7. normalizeUsageTokenCounts(raw) = c
  BY DEF normalizeUsageTokenCounts, n, m
<1> HIDE DEF c
<1> QED
  BY <1>4, <1>5, <1>6, <1>7 DEF IsCount

(* Counts are numbers.                                                     *)
LEMMA CountIsNumber ==
    ASSUME NEW u, IsCount(u)
    PROVE  u \in [Counted -> Int] /\ \A k \in Counted : u[k] \in Nat
BY DEF IsCount

(* What an upstream reports is a number where it is read as one.           *)
LEMMA ValueIsNumber ==
    ASSUME NEW r, IsReport(r), NEW f
    PROVE  Value(r, f) \in Nat
BY DEF Value, IsReport

(* Nothing is a count.                                                     *)
LEMMA NothingIsCounted ==
    /\ Nothing \in [Counted -> Nat] /\ "input" \in Counted /\ "output" \in Counted
    /\ "cached" \in Counted /\ "read" \in Counted /\ "imageOut" \in Counted
BY DEF Nothing, Counted

(* What a parser makes of a report is a count.                             *)
LEMMA ParsedIsCount ==
    ASSUME NEW r, IsReport(r)
    PROVE  IsCount(parseUsageTokens(r).counts)
<1>1. UsageCounts(r) \in [Counted -> Int]
  <2> DEFINE read == IF "read" \in DOMAIN r.top THEN r.top["read"] ELSE Value(r, "cached")
             caches == read + Value(r, "write") + Value(r, "write1h")
             input == Value(r, "input") + (IF ExcludesCaches(r) THEN caches ELSE 0)
  <2>1. read \in Int
    BY ValueIsNumber DEF IsReport
  <2> HIDE DEF read
  <2>2. input \in Int
    BY <2>1, ValueIsNumber
  <2> HIDE DEF input
  <2>3. \A k \in Counted : (CASE k = "input" -> input [] k \in {"read", "cached"} -> read
                              [] OTHER -> Value(r, k)) \in Int
    BY <2>1, <2>2, ValueIsNumber
  <2> QED
    BY <2>3 DEF UsageCounts, input, read
<1>2. MetadataCounts(r) \in [Counted -> Int]
  BY NothingIsCounted, ValueIsNumber DEF MetadataCounts
<1>3. Nothing \in [Counted -> Int]
  BY NothingIsCounted
<1> DEFINE counts == CASE r.shape = "usage" -> UsageCounts(r)
                       [] r.shape = "usageMetadata" -> MetadataCounts(r)
                       [] OTHER -> Nothing
<1>4. counts \in [Counted -> Int]
  BY <1>1, <1>2, <1>3
<1>5. parseUsageTokens(r).counts = normalizeUsageTokenCounts(counts)
  BY DEF parseUsageTokens
<1> HIDE DEF counts
<1> QED
  BY <1>4, <1>5, CountsNormal

(* A converted report says numbers, too.                                   *)
LEMMA ConvertedIsReport ==
    ASSUME NEW r, IsReport(r), NEW upstream, NEW client
    PROVE  IsReport(ClientReport(r, upstream, client))
<1> DEFINE u == parseUsageTokens(r).counts
<1>1. IsCount(u)
  BY ParsedIsCount
<1> HIDE DEF u
<1>2. /\ u.input \in Nat /\ u.output \in Nat /\ u.cached \in Nat
      /\ u.write \in Nat /\ u.write1h \in Nat /\ u.imageIn \in Nat /\ u.audioIn \in Nat
      /\ u.imageOut \in Nat /\ u.audioOut \in Nat
  BY <1>1, CountIsNumber DEF Counted
<1>3. IsReport(openAIUsage(u))
  BY <1>2 DEF IsReport, openAIUsage, Report
<1>4. IsReport(claudeResponseBody(u))
  BY <1>2 DEF IsReport, claudeResponseBody, Report, providerDataNonCacheInput, Floor
<1>5. IsReport(geminiResponseBody(u))
  BY <1>2 DEF IsReport, geminiResponseBody, Metadata
<1>6. transformProviderResponse(r, client) \in
        {openAIUsage(u), claudeResponseBody(u), geminiResponseBody(u)}
  BY DEF transformProviderResponse, u
<1> QED
  BY <1>3, <1>4, <1>5, <1>6 DEF ClientReport

(* What is collected from the events of a stream is a count.               *)
LEMMA StreamIsCount ==
    ASSUME NEW events, events \in Seq(Range(events)),
           \A i \in DOMAIN events : IsReport(events[i])
    PROVE  parseUsageTokensFromStream(events).counts \in [Counted -> Int]
<1> DEFINE whole == {i \in DOMAIN events : parseUsageTokens(events[i]).ok}
           last(i) == i \in whole /\ \A j \in whole : j <= i
<1>1. CASE whole = {}
  BY <1>1, NothingIsCounted DEF parseUsageTokensFromStream
<1>2. CASE whole # {}
  <2>1. /\ DOMAIN events = 1 .. Len(events) /\ Len(events) \in Nat
        /\ whole \in SUBSET Nat /\ \A i \in whole : i <= Len(events)
    OBVIOUS
  <2>2. \E i : last(i)
    BY <1>2, <2>1, GreatestNatural
  <2> DEFINE i == CHOOSE k : last(k)
  <2>3. last(i)
    BY <2>2
  <2>4. i = CHOOSE k \in whole : \A j \in whole : j <= k
    OBVIOUS
  <2>5. parseUsageTokensFromStream(events) = parseUsageTokens(events[i])
    BY <1>2, <2>4 DEF parseUsageTokensFromStream
  <2> HIDE DEF i
  <2>6. IsReport(events[i])
    BY <2>3
  <2> QED
    BY <2>5, <2>6, ParsedIsCount, CountIsNumber
<1> QED
  BY <1>1, <1>2

(* What is counted of images is a count.                                   *)
LEMMA ImageIsCount ==
    ASSUME NEW r, IsReport(r), NEW text \in Nat, NEW images \in Nat
    PROVE  imageUsageTokenCounts(r, text, images) \in [Counted -> Int]
<1>1. parseUsageTokens(r).counts \in [Counted -> Int]
  BY ParsedIsCount, CountIsNumber
<1>2. parseImageTotalUsageTokens(r).counts \in [Counted -> Int]
  <2> DEFINE hasOut == "output" \in DOMAIN r.top \/ "imageOut" \in DOMAIN r.top
             hasTotal == "total" \in DOMAIN r.top
             out == CASE "output" \in DOMAIN r.top -> r.top["output"]
                      [] ~hasOut /\ hasTotal -> Floor(Value(r, "total") - Value(r, "input"))
                      [] OTHER -> Value(r, "imageOut")
             in == IF "input" \in DOMAIN r.top THEN r.top["input"]
                   ELSE IF hasTotal THEN Floor(Value(r, "total") - out) ELSE 0
             raw == [Nothing EXCEPT !["input"] = in, !["output"] = out, !["imageOut"] = out,
                                    !["cached"] = Value(r, "cached"), !["read"] = Value(r, "cached")]
  <2>1. out \in Nat
    <3>1. "output" \in DOMAIN r.top => r.top["output"] \in Nat
      BY DEF IsReport
    <3>2. Floor(Value(r, "total") - Value(r, "input")) \in Nat /\ Value(r, "imageOut") \in Nat
      BY ValueIsNumber DEF Floor
    <3> QED
      BY <3>1, <3>2
  <2> HIDE DEF out
  <2>2. in \in Nat
    <3>1. "input" \in DOMAIN r.top => r.top["input"] \in Nat
      BY DEF IsReport
    <3>2. Floor(Value(r, "total") - out) \in Nat
      BY <2>1, ValueIsNumber DEF Floor
    <3> QED
      BY <3>1, <3>2
  <2> HIDE DEF in
  <2>3. raw \in [Counted -> Int]
    BY <2>1, <2>2, NothingIsCounted, ValueIsNumber
  <2>4. parseImageTotalUsageTokens(r).counts = normalizeUsageTokenCounts(raw)
    BY DEF parseImageTotalUsageTokens, in, out
  <2> HIDE DEF raw
  <2> QED
    BY <2>3, <2>4, CountsNormal, CountIsNumber
<1>3. estimateItems(text, images) \in [Counted -> Int] /\ images * Million \in Int
  BY NothingIsCounted DEF estimateItems, Million
<1>4. [estimateItems(text, images) EXCEPT !["imageOut"] = images * Million] \in [Counted -> Int]
  BY <1>3
<1> QED
  BY <1>1, <1>2, <1>3, <1>4 DEF imageUsageTokenCounts

(* What the assumption says of an answer.                                  *)
LEMMA AnswerFacts ==
    ASSUME NEW a \in Answers
    PROVE  /\ IsReport(a.report)
           /\ a.events \in Seq(Range(a.events)) /\ \A i \in DOMAIN a.events : IsReport(a.events[i])
           /\ a.guess.input \in Nat /\ a.guess.output \in Nat /\ a.guess.items \in Nat
           /\ a.video.resolution \in STRING /\ a.video.seconds \in Int /\ a.video.count \in Nat
BY PricingAssumption

(* Whatever an upstream answers, what is counted of it is normal.          *)
LEMMA CountedIsCount ==
    ASSUME NEW a \in Answers
    PROVE  IsCount(normalizeUsageTokenCounts(Counts(a)))
<1> DEFINE parsed == IF a.kind = "stream" THEN parseUsageTokensFromStream(a.events)
                     ELSE parseUsageTokens(ClientReport(a.report, a.upstream, a.client))
           guess == [Nothing EXCEPT !["input"] = a.guess.input, !["output"] = a.guess.output]
           image == imageUsageTokenCounts(a.report, a.guess.input, a.guess.items)
           items == estimateItems(a.guess.input, a.guess.items)
<1>1. parsed.counts \in [Counted -> Int]
  BY AnswerFacts, StreamIsCount, ConvertedIsReport, ParsedIsCount, CountIsNumber
<1>2. guess \in [Counted -> Int]
  BY AnswerFacts, NothingIsCounted
<1>3. image \in [Counted -> Int]
  BY AnswerFacts, ImageIsCount
<1>4. items \in [Counted -> Int]
  BY AnswerFacts, NothingIsCounted DEF estimateItems, Million
<1>5. Counts(a) \in {parsed.counts, guess, image, items}
  <2>1. CASE a.kind = "image"
    BY <2>1 DEF Counts
  <2>2. CASE a.kind = "video"
    BY <2>2 DEF Counts
  <2>3. CASE a.kind \notin {"image", "video"}
    BY <2>3 DEF Counts
  <2> QED
    BY <2>1, <2>2, <2>3
<1> HIDE DEF parsed, guess, image, items
<1>6. Counts(a) \in [Counted -> Int]
  BY <1>1, <1>2, <1>3, <1>4, <1>5
<1> QED
  BY <1>6, CountsNormal

-----------------------------------------------------------------------------
(* How the tokens of a request are divided.                                *)

Differ(a, b, c) == a # b /\ a # c /\ b # c

(* A sum over three different units.                                       *)
LEMMA SumOfThree ==
    ASSUME NEW f, NEW a, NEW b, NEW c, Differ(a, b, c),
           f[a] \in Int, f[b] \in Int, f[c] \in Int
    PROVE  /\ SumFunctionOnSet(f, {a, b, c}) = f[a] + f[b] + f[c]
           /\ IsFiniteSet({a, b, c})
<1>1. SumFunctionOnSet(f, {a}) = f[a]
  <2>1. SumFunctionOnSet(f, {} \cup {a}) = SumFunctionOnSet(f, {}) + f[a]
    BY FS_EmptySet, SumAdd
  <2>2. {} \cup {a} = {a}
    OBVIOUS
  <2> QED
    BY <2>1, <2>2, SumOfNone
<1>2. SumFunctionOnSet(f, {a} \cup {b}) = SumFunctionOnSet(f, {a}) + f[b]
  <2>1. b \notin {a} /\ \A y \in {a} : f[y] \in Int
    BY DEF Differ
  <2> QED
    BY <2>1, FS_Singleton, SumAdd
<1>3. {a} \cup {b} = {a, b} /\ {a, b} \cup {c} = {a, b, c}
  OBVIOUS
<1>4. IsFiniteSet({a, b}) /\ IsFiniteSet({a, b, c})
  <2>1. IsFiniteSet({a} \cup {b})
    BY FS_Singleton, FS_AddElement
  <2>2. IsFiniteSet({a, b} \cup {c})
    BY <1>3, <2>1, FS_AddElement
  <2> QED
    BY <1>3, <2>1, <2>2
<1>5. SumFunctionOnSet(f, {a, b} \cup {c}) = SumFunctionOnSet(f, {a, b}) + f[c]
  <2>1. c \notin {a, b} /\ \A y \in {a, b} : f[y] \in Int
    BY DEF Differ
  <2> QED
    BY <1>4, <2>1, SumAdd
<1> QED
  BY <1>1, <1>2, <1>3, <1>4, <1>5

(* The tokens of the input, and those of the output.                       *)
LEMMA SumOfInput ==
    ASSUME NEW f, \A unit \in InputUnits : f[unit] \in Int
    PROVE  SumFunctionOnSet(f, InputUnits)
             = f["input"] + f["read"] + f["write"] + f["write1h"] + f["imageIn"] + f["audioIn"]
<1> DEFINE Sum(S) == SumFunctionOnSet(f, S)
<1>1. PICK a, b, c, d, e, g :
        /\ a = "input" /\ b = "read" /\ c = "write"
        /\ d = "write1h" /\ e = "imageIn" /\ g = "audioIn"
  OBVIOUS
<1> DEFINE S3 == {a, b, c}
           S4 == S3 \cup {d}
           S5 == S4 \cup {e}
<1>2. /\ Differ(a, b, c) /\ d \notin S3 /\ e \notin S4 /\ g \notin S5
      /\ InputUnits = S5 \cup {g}
  BY <1>1 DEF Differ, InputUnits
<1>3. /\ f[a] \in Int /\ f[b] \in Int /\ f[c] \in Int
      /\ f[d] \in Int /\ f[e] \in Int /\ f[g] \in Int
  BY <1>2
<1>4. Sum(S3) = f[a] + f[b] + f[c] /\ IsFiniteSet(S3)
  <2>1. Differ(a, b, c)
    BY <1>2
  <2>2. SumFunctionOnSet(f, {a, b, c}) = f[a] + f[b] + f[c] /\ IsFiniteSet({a, b, c})
    BY <1>3, <2>1, SumOfThree
  <2> QED
    BY <2>2
<1>5. S3 \subseteq S4 /\ S4 \subseteq S5 /\ S5 \subseteq InputUnits
  BY <1>2
<1> HIDE DEF S3
<1>6. Sum(S4) = Sum(S3) + f[d] /\ IsFiniteSet(S4)
  <2>1. \A y \in S3 : f[y] \in Int
    BY <1>5
  <2> QED
    BY <1>2, <1>3, <1>4, <2>1, SumAdd, FS_AddElement
<1> HIDE DEF S4
<1>7. Sum(S5) = Sum(S4) + f[e] /\ IsFiniteSet(S5)
  <2>1. \A y \in S4 : f[y] \in Int
    BY <1>5
  <2> QED
    BY <1>2, <1>3, <1>6, <2>1, SumAdd, FS_AddElement
<1> HIDE DEF S5
<1>8. Sum(S5 \cup {g}) = Sum(S5) + f[g]
  <2>1. \A y \in S5 : f[y] \in Int
    BY <1>5
  <2> QED
    BY <1>2, <1>3, <1>7, <2>1, SumAdd
<1>9. Sum(InputUnits) = f[a] + f[b] + f[c] + f[d] + f[e] + f[g]
  BY <1>2, <1>3, <1>4, <1>6, <1>7, <1>8
<1> QED
  BY <1>1, <1>9

(* The output units, summed.                                               *)
LEMMA SumOfOutput ==
    ASSUME NEW f, \A unit \in OutputUnits : f[unit] \in Int
    PROVE  SumFunctionOnSet(f, OutputUnits) = f["output"] + f["imageOut"] + f["audioOut"]
<1>1. PICK a, b, c : a = "output" /\ b = "imageOut" /\ c = "audioOut"
  OBVIOUS
<1>2. OutputUnits = {a, b, c}
  BY <1>1 DEF OutputUnits
<1>3. f[a] \in Int /\ f[b] \in Int /\ f[c] \in Int
  BY <1>2
<1>4. Differ(a, b, c)
  BY <1>1 DEF Differ
<1>5. SumFunctionOnSet(f, {a, b, c}) = f[a] + f[b] + f[c]
  BY <1>3, <1>4, SumOfThree
<1> QED
  BY <1>1, <1>2, <1>5

(* Every token has one price, whatever is reported and whichever prices the*)
(* book has: the input is divided among its units, and so is the output.   *)
LEMMA PartsDivide ==
    ASSUME NEW u, IsCount(u), NEW sheet
    PROVE  /\ \A unit \in Units : Parts(u, sheet)[unit] \in Nat
           /\ SumFunctionOnSet(Parts(u, sheet), InputUnits) = u.input
           /\ SumFunctionOnSet(Parts(u, sheet), OutputUnits) = u.output
<1> DEFINE own(unit, most) ==
             IF hasDedicatedPrice(sheet, unit) THEN clampTokenCount(u[unit], most) ELSE 0
           in == billableInputTokens(u)
           imageIn == own("imageIn", in)
           audioIn == own("audioIn", in - imageIn)
           imageOut == own("imageOut", u.output)
           audioOut == own("audioOut", u.output - imageOut)
           p == Parts(u, sheet)
<1>1. /\ u.input \in Nat /\ u.read \in Nat /\ u.write \in Nat /\ u.write1h \in Nat
      /\ u.output \in Nat /\ u["imageIn"] \in Nat /\ u["audioIn"] \in Nat
      /\ u["imageOut"] \in Nat /\ u["audioOut"] \in Nat
      /\ u.read + u.write + u.write1h <= u.input
  BY DEF IsCount, Counted
<1>2. in \in Nat /\ in + u.read + u.write + u.write1h = u.input
  BY <1>1 DEF billableInputTokens, Floor
<1>3. ASSUME NEW n \in Nat, NEW most \in Nat
      PROVE  clampTokenCount(n, most) \in Nat /\ clampTokenCount(n, most) <= most
  BY DEF clampTokenCount, Floor, AtMost
<1>3b. ASSUME NEW n \in Nat, NEW most \in Nat, NEW c, c \in {clampTokenCount(n, most), 0}
       PROVE  c \in Nat /\ c <= most /\ most - c \in Nat
  <2>1. clampTokenCount(n, most) \in Nat /\ clampTokenCount(n, most) <= most
    BY <1>3
  <2>2. c \in Nat /\ c <= most
    BY <2>1, <1>3b
  <2> QED
    BY <2>2
<1> HIDE DEF in
<1>4. imageIn \in Nat /\ imageIn <= in /\ in - imageIn \in Nat
  BY <1>1, <1>2, <1>3b
<1> HIDE DEF imageIn
<1>5. audioIn \in Nat /\ audioIn <= in - imageIn
  <2> DEFINE rest == in - imageIn
  <2>1. rest \in Nat /\ audioIn = own("audioIn", rest)
    BY <1>4
  <2> HIDE DEF rest, audioIn
  <2>2. audioIn \in Nat /\ audioIn <= rest
    BY <1>1, <1>3b, <2>1
  <2> QED
    BY <2>2 DEF rest
<1> HIDE DEF audioIn
<1>6. imageOut \in Nat /\ imageOut <= u.output /\ u.output - imageOut \in Nat
  <2> DEFINE out == u.output
  <2>1. out \in Nat /\ imageOut = own("imageOut", out)
    BY <1>1
  <2> HIDE DEF out, imageOut
  <2>2. imageOut \in Nat /\ imageOut <= out /\ out - imageOut \in Nat
    BY <1>1, <1>3b, <2>1
  <2> QED
    BY <2>2 DEF out
<1> HIDE DEF imageOut
<1>7. audioOut \in Nat /\ audioOut <= u.output - imageOut
  <2> DEFINE rest == u.output - imageOut
  <2>1. rest \in Nat /\ audioOut = own("audioOut", rest)
    BY <1>6
  <2> HIDE DEF rest, audioOut
  <2>2. audioOut \in Nat /\ audioOut <= rest
    BY <1>1, <1>3b, <2>1
  <2> QED
    BY <2>2 DEF rest
<1> HIDE DEF audioOut
<1>8. p = [input |-> in - imageIn - audioIn, imageIn |-> imageIn, audioIn |-> audioIn,
           read |-> u.read, write |-> u.write, write1h |-> u.write1h,
           output |-> u.output - imageOut - audioOut, imageOut |-> imageOut, audioOut |-> audioOut]
  BY DEF Parts, in, imageIn, audioIn, imageOut, audioOut
<1>9. /\ p["input"] = in - imageIn - audioIn /\ p["imageIn"] = imageIn /\ p["audioIn"] = audioIn
      /\ p["read"] = u.read /\ p["write"] = u.write /\ p["write1h"] = u.write1h
      /\ p["output"] = u.output - imageOut - audioOut
      /\ p["imageOut"] = imageOut /\ p["audioOut"] = audioOut
  BY <1>8
<1> HIDE DEF p
<1>10. /\ p["input"] \in Nat /\ p["imageIn"] \in Nat /\ p["audioIn"] \in Nat
       /\ p["read"] \in Nat /\ p["write"] \in Nat /\ p["write1h"] \in Nat
       /\ p["output"] \in Nat /\ p["imageOut"] \in Nat /\ p["audioOut"] \in Nat
  BY <1>1, <1>2, <1>4, <1>5, <1>6, <1>7, <1>9
<1>11. \A unit \in Units : p[unit] \in Nat
  BY <1>10 DEF Units, InputUnits, OutputUnits
<1>12. SumFunctionOnSet(p, InputUnits)
         = p["input"] + p["read"] + p["write"] + p["write1h"] + p["imageIn"] + p["audioIn"]
  BY <1>11, SumOfInput DEF Units
<1>13. SumFunctionOnSet(p, OutputUnits) = p["output"] + p["imageOut"] + p["audioOut"]
  BY <1>11, SumOfOutput DEF Units
<1>14. SumFunctionOnSet(p, InputUnits) = u.input
  BY <1>1, <1>2, <1>4, <1>5, <1>9, <1>12
<1>15. SumFunctionOnSet(p, OutputUnits) = u.output
  BY <1>1, <1>6, <1>7, <1>9, <1>13
<1> QED
  BY <1>11, <1>14, <1>15 DEF p

-----------------------------------------------------------------------------
(* Multipliers of groups.                                                  *)

(* A finite set of integers has a least and a greatest.                    *)
LEMMA Extremes ==
    ASSUME NEW S \in SUBSET Int, IsFiniteSet(S), S # {}
    PROVE  (\E m \in S : \A n \in S : m <= n) /\ (\E m \in S : \A n \in S : n <= m)
<1> DEFINE R == {p \in S \X S : p[1] < p[2]}
           n == Cardinality(S)
<1>1. \A x, y \in S : <<x, y>> \in R <=> x < y
  OBVIOUS
<1> HIDE DEF R
<1>2. StrictlyOrders(R, S)
  BY <1>1 DEF StrictlyOrders
<1>3. PICK line : IsLine(line, S, R)
  BY <1>2, LineExists
<1>4. n \in Nat /\ \A x \in S : \E i \in 1 .. n : line[i] = x
  BY <1>2, <1>3, LineHolds
<1>5. line \in [1 .. n -> S] /\ \A i, j \in 1 .. n : i < j => <<line[i], line[j]>> \in R
  BY <1>3 DEF IsLine
<1> HIDE DEF n
<1>6. 1 \in 1 .. n /\ n \in 1 .. n
  <2>1. PICK x \in S : TRUE
    OBVIOUS
  <2>2. PICK i \in 1 .. n : line[i] = x
    BY <1>4
  <2> QED
    BY <1>4, <2>2
<1>7. \A i \in 1 .. n : line[1] <= line[i] /\ line[i] <= line[n]
  <2> TAKE i \in 1 .. n
  <2>1. i = 1 \/ 1 < i
    BY <1>4
  <2>2. i = n \/ i < n
    BY <1>4
  <2>3. line[1] \in S /\ line[n] \in S /\ line[i] \in S
    BY <1>5, <1>6
  <2>4. 1 < i => line[1] < line[i]
    BY <1>1, <1>5, <1>6, <2>3
  <2>5. i < n => line[i] < line[n]
    BY <1>1, <1>5, <1>6, <2>3
  <2>6. line[1] \in Int /\ line[n] \in Int /\ line[i] \in Int
    BY <2>3
  <2> QED
    BY <2>1, <2>2, <2>4, <2>5, <2>6
<1>8. line[1] \in S /\ line[n] \in S
  BY <1>5, <1>6
<1>9. \A x \in S : line[1] <= x /\ x <= line[n]
  BY <1>4, <1>7
<1> QED
  BY <1>8, <1>9

(* The multiplier of a user is one of those their groups have, or one.     *)
LEMMA GroupMultiplierTyped ==
    ASSUME NEW s \in GroupSettings
    PROVE  effectiveUserGroupMultiplier(s) \in Int
<1> DEFINE G == activeGroups(s)
           all == {GroupMultiplier(g) : g \in G}
           f == [g \in G |-> GroupMultiplier(g)]
<1>1. IsFiniteSet(G) /\ G \subseteq Group_
  BY PricingAssumption DEF activeGroups
<1>2. \A g \in Group_ : GroupMultiplier(g) \in Int
  BY DEF Group_, GroupMultiplier
<1> HIDE DEF G
<1>3. all \in SUBSET Int
  BY <1>1, <1>2
<1>4. IsFiniteSet(all)
  <2>1. f \in Surjection(G, all)
    BY DEF Surjection
  <2> HIDE DEF f, all
  <2> QED
    BY <1>1, <2>1, FS_Surjection
<1>5. effectiveUserGroupMultiplier(s)
        = IF all = {} THEN 1
          ELSE IF s.mode = "max" THEN CHOOSE m \in all : \A n \in all : n <= m
          ELSE CHOOSE m \in all : \A n \in all : m <= n
  BY DEF effectiveUserGroupMultiplier, G
<1> HIDE DEF all
<1>6. CASE all = {}
  BY <1>5, <1>6
<1>7. CASE all # {}
  <2>1. (\E m \in all : \A n \in all : m <= n) /\ (\E m \in all : \A n \in all : n <= m)
    BY <1>3, <1>4, <1>7, Extremes
  <2>2. (CHOOSE m \in all : \A n \in all : n <= m) \in all
    BY <2>1
  <2>3. (CHOOSE m \in all : \A n \in all : m <= n) \in all
    BY <2>1
  <2>4. effectiveUserGroupMultiplier(s) \in all
    BY <1>5, <1>7, <2>2, <2>3
  <2> QED
    BY <1>3, <2>4
<1> QED
  BY <1>6, <1>7

-----------------------------------------------------------------------------
(* Books, and sheets whose prices are multiples of a book's.               *)

(* The tiers of a book are stored as they are charged.                     *)
LEMMA BookTiers ==
    ASSUME NEW input \in Inputs, NEW unit \in Units
    PROVE  /\ input.tiers[unit] \in Seq(TierRow) /\ input.price[unit] \in Price
           /\ modelFromInput(input).tiers[unit] = NormalizePriceTiers(input.tiers[unit])
           /\ modelFromInput(input).price[unit] = input.price[unit]
           /\ IsNormal(modelFromInput(input).tiers[unit])
           /\ \A i \in DOMAIN modelFromInput(input).tiers[unit] :
                modelFromInput(input).tiers[unit][i].price \in Price
<1> DEFINE tiers == input.tiers[unit]
           q == modelFromInput(input).tiers[unit]
           Rows == [min : Int, price : Price, condition : Word]
<1>1. input \in Input
  BY PricingAssumption
<1>2. tiers \in Seq(Rows) /\ input.price[unit] \in Price
  BY <1>1 DEF Input
<1>3. Rows \subseteq TierRow /\ \A t \in Rows : t.price \in Price
  <2>1. Price \subseteq Int
    BY DEF Price
  <2> QED
    BY <2>1 DEF TierRow
<1> HIDE DEF Rows
<1>4. tiers \in Seq(TierRow) /\ \A i \in DOMAIN tiers : tiers[i] \in Rows
  BY <1>2, <1>3
<1>5. q = NormalizePriceTiers(tiers) /\ modelFromInput(input).price[unit] = input.price[unit]
  BY DEF modelFromInput
<1> HIDE DEF q
<1>6. IsNormal(q) /\ Range(q) = Kept(tiers)
  BY <1>4, <1>5, NormalizedIsNormal
<1>7. \A t \in Kept(tiers) : t.price \in Price
  <2>1. \A i \in DOMAIN tiers : tiers[i].price \in Price
    BY <1>3, <1>4
  <2>2. \A t \in Kept(tiers) : \E i \in DOMAIN tiers : t = Stored(tiers[i])
    BY DEF Kept, LastOfEach, Valid
  <2>3. \A i \in DOMAIN tiers : Stored(tiers[i]).price = tiers[i].price
    BY <1>4, StoredTier
  <2> QED
    BY <2>1, <2>2, <2>3
<1>8. \A i \in DOMAIN q : q[i].price \in Price
  <2>1. \A i \in DOMAIN q : q[i] \in Range(q)
    BY DEF Range
  <2> QED
    BY <1>6, <1>7, <2>1
<1> HIDE DEF tiers
<1> QED
  BY <1>2, <1>4, <1>5, <1>6, <1>8 DEF q, tiers

(* There are finitely many units.                                          *)
LEMMA UnitsFinite == IsFiniteSet(Units)
<1>1. \A x : IsFiniteSet({x})
  BY FS_Singleton
<1>2. \A S, T : IsFiniteSet(S) /\ IsFiniteSet(T) => IsFiniteSet(S \cup T)
  BY FS_Union
<1>3. IsFiniteSet((({"input"} \cup {"read"}) \cup ({"write"} \cup {"write1h"}))
                    \cup (({"imageIn"} \cup {"audioIn"}) \cup ({"output"} \cup {"imageOut"})))
  BY <1>1, <1>2
<1>4. Units = ((({"input"} \cup {"read"}) \cup ({"write"} \cup {"write1h"}))
                 \cup (({"imageIn"} \cup {"audioIn"}) \cup ({"output"} \cup {"imageOut"})))
                \cup {"audioOut"}
  BY DEF Units, InputUnits, OutputUnits
<1> QED
  BY <1>1, <1>2, <1>3, <1>4

(* A sheet: whole prices, and tiers as they are stored.                    *)
IsSheet(s) ==
    \A unit \in Units : s.price[unit] \in Int /\ IsNormal(s.tiers[unit])

(* t has m times the prices of s.                                          *)
Multiple(t, s, m) ==
    \A unit \in Units : /\ t.price[unit] = m * s.price[unit]
                        /\ t.tiers[unit] = Times(s.tiers[unit], m)

(* Multiplied prices divide the tokens in the same way.                    *)
LEMMA MultipleDivides ==
    ASSUME NEW s, IsSheet(s), NEW t, NEW m \in Nat \ {0}, Multiple(t, s, m), NEW u
    PROVE  Parts(u, t) = Parts(u, s)
<1>1. ASSUME NEW unit \in Units
      PROVE  hasDedicatedPrice(t, unit) <=> hasDedicatedPrice(s, unit)
  <2> DEFINE p == s.price[unit]
             q == s.tiers[unit]
             r == t.tiers[unit]
  <2>1. /\ t.price[unit] = m * p /\ r = Times(q, m) /\ p \in Int /\ IsNormal(q)
    BY <1>1 DEF IsSheet, Multiple
  <2>2. m * p # 0 <=> p # 0
    <3> HIDE DEF p
    <3> QED
      BY <2>1
  <2>3. IsNormal(r) /\ Len(r) = Len(q)
    BY <2>1, TimesIsNormal
  <2>4. NormalizePriceTiers(r) = r /\ NormalizePriceTiers(q) = q
    BY <2>1, <2>3, NormalizeIdempotent
  <2>5. r # <<>> <=> q # <<>>
    <3>1. r \in Seq(NormalTier) /\ q \in Seq(NormalTier)
      BY <2>1, <2>3 DEF IsNormal
    <3> HIDE DEF r, q
    <3>2. (r = <<>> <=> Len(r) = 0) /\ (q = <<>> <=> Len(q) = 0)
      BY <3>1
    <3> QED
      BY <2>3, <3>2
  <2>6. hasDedicatedPrice(t, unit) <=> m * p # 0 \/ r # <<>>
    BY <2>1, <2>4 DEF hasDedicatedPrice
  <2>7. hasDedicatedPrice(s, unit) <=> p # 0 \/ q # <<>>
    BY <2>4 DEF hasDedicatedPrice
  <2> HIDE DEF p, q, r
  <2> QED
    BY <2>2, <2>5, <2>6, <2>7
<1>2. /\ hasDedicatedPrice(t, "imageIn") = hasDedicatedPrice(s, "imageIn")
      /\ hasDedicatedPrice(t, "audioIn") = hasDedicatedPrice(s, "audioIn")
      /\ hasDedicatedPrice(t, "imageOut") = hasDedicatedPrice(s, "imageOut")
      /\ hasDedicatedPrice(t, "audioOut") = hasDedicatedPrice(s, "audioOut")
  <2>1. /\ hasDedicatedPrice(t, "imageIn") \in BOOLEAN /\ hasDedicatedPrice(s, "imageIn") \in BOOLEAN
        /\ hasDedicatedPrice(t, "audioIn") \in BOOLEAN /\ hasDedicatedPrice(s, "audioIn") \in BOOLEAN
        /\ hasDedicatedPrice(t, "imageOut") \in BOOLEAN /\ hasDedicatedPrice(s, "imageOut") \in BOOLEAN
        /\ hasDedicatedPrice(t, "audioOut") \in BOOLEAN /\ hasDedicatedPrice(s, "audioOut") \in BOOLEAN
    BY DEF hasDedicatedPrice
  <2>2. {"imageIn", "audioIn", "imageOut", "audioOut"} \subseteq Units
    BY DEF Units, InputUnits, OutputUnits
  <2> QED
    BY <1>1, <2>1, <2>2
<1> QED
  BY <1>2 DEF Parts

(* Token prices that are multiplied make a cost that is.                   *)
LEMMA MultipleCosts ==
    ASSUME NEW s, IsSheet(s), NEW t, NEW m \in Nat \ {0}, Multiple(t, s, m), NEW u, IsCount(u),
           NEW v, s.quota = "token", t.quota = "token"
    PROVE  /\ calculateModelUsageCost(u, v, s) \in Int
           /\ calculateModelUsageCost(u, v, t) = m * calculateModelUsageCost(u, v, s)
<1> DEFINE parts == Parts(u, s)
           cost(sheet, unit) == CalculateTieredTokenCostWithMetrics(parts[unit], sheet.price[unit],
                                                                    sheet.tiers[unit], Metrics(u))
           f == [unit \in Units |-> cost(s, unit)]
           g == [unit \in Units |-> cost(t, unit)]
<1>1. Parts(u, t) = parts
  BY MultipleDivides
<1>2. calculateModelUsageCost(u, v, s) = SumFunction(f)
  BY DEF calculateModelUsageCost
<1>3. calculateModelUsageCost(u, v, t) = SumFunction(g)
  BY <1>1 DEF calculateModelUsageCost
<1>4. \A unit \in Units : parts[unit] \in Nat
  BY PartsDivide
<1> HIDE DEF parts
<1>5. ASSUME NEW unit \in Units
      PROVE  f[unit] \in Int /\ g[unit] = m * f[unit]
  <2> DEFINE base == s.price[unit]
             q == s.tiers[unit]
             n == parts[unit]
  <2>1. /\ t.price[unit] = m * base /\ t.tiers[unit] = Times(q, m) /\ base \in Int /\ IsNormal(q)
    BY <1>5 DEF IsSheet, Multiple
  <2>2. n \in Int /\ m \in Nat
    BY <1>4, <1>5
  <2>3. f[unit] = CalculateTieredTokenCostWithMetrics(n, base, q, Metrics(u))
    OBVIOUS
  <2>4. g[unit] = CalculateTieredTokenCostWithMetrics(n, m * base, Times(q, m), Metrics(u))
    BY <2>1
  <2> HIDE DEF f, g, base, q, n
  <2> QED
    BY <2>1, <2>2, <2>3, <2>4, TieredScales
<1>6. IsFiniteSet(Units)
  BY UnitsFinite
<1>7. SumFunction(f) = SumFunctionOnSet(f, Units) /\ SumFunction(g) = SumFunctionOnSet(g, Units)
  BY DEF SumFunction, FoldFunction, SumFunctionOnSet
<1> HIDE DEF f, g
<1>8. SumFunctionOnSet(f, Units) \in Int
  BY <1>5, <1>6, SumRemove
<1>9. SumFunctionOnSet(g, Units) = m * SumFunctionOnSet(f, Units)
  <2>1. m \in Int
    OBVIOUS
  <2> QED
    BY <1>5, <1>6, <2>1, SumScales
<1> QED
  BY <1>2, <1>3, <1>7, <1>8, <1>9

(* Lists of video prices keep a price for each of their entries.           *)
VideoItem == [resolution : STRING, unit : Int, durations : Seq([seconds : Int, price : Int])]

IsDurations(d) == d = [s \in DOMAIN d |-> d[s]] /\ \A s \in DOMAIN d : d[s] \in Int

(* Of the numbers up to b that are in T there is a last.                   *)
LEMMA LastOf ==
    ASSUME NEW b \in Nat, NEW T \in SUBSET (1 .. b), T # {}
    PROVE  \E i \in T : \A j \in T : j <= i
<1>1. T \in SUBSET Nat /\ \A n \in T : n <= b
  OBVIOUS
<1> QED
  BY <1>1, GreatestNatural

(* The prices of the durations of a resolution.                            *)
LEMMA DurationsTyped ==
    ASSUME NEW item \in VideoItem
    PROVE  IsDurations(NormalDurations(item))
<1> DEFINE list == item.durations
           valid == {i \in DOMAIN list : list[i].seconds > 0 /\ list[i].price >= 0}
           lengths == {list[i].seconds : i \in valid}
           entry(s) == CHOOSE i \in valid : list[i].seconds = s
                         /\ \A j \in valid : list[j].seconds = s => j <= i
           Rows == [seconds : Int, price : Int]
<1>1. list \in Seq(Rows) /\ \A r \in Rows : r.price \in Int
  BY DEF VideoItem
<1> HIDE DEF list, Rows
<1>2. /\ Len(list) \in Nat /\ DOMAIN list = 1 .. Len(list)
      /\ \A i \in DOMAIN list : list[i].price \in Int
  BY <1>1
<1>3. ASSUME NEW s \in lengths
      PROVE  list[entry(s)].price \in Int
  <2> DEFINE T == {i \in valid : list[i].seconds = s}
  <2>1. T # {} /\ T \in SUBSET (1 .. Len(list))
    BY <1>2, <1>3
  <2>2. \E i \in T : \A j \in T : j <= i
    BY <1>2, <2>1, LastOf
  <2>3. \E i \in valid : list[i].seconds = s /\ \A j \in valid : list[j].seconds = s => j <= i
    BY <2>2
  <2>4. entry(s) \in valid
    BY <2>3
  <2> QED
    BY <1>2, <2>4
<1>4. NormalDurations(item) = [s \in lengths |-> list[entry(s)].price]
  BY DEF NormalDurations, list
<1> HIDE DEF lengths, entry
<1> QED
  BY <1>3, <1>4 DEF IsDurations

(* Stored video prices are integers.                                       *)
LEMMA VideoTyped ==
    ASSUME NEW items \in Seq(VideoItem), NEW r \in DOMAIN NormalizeVideoBillingConfig(items)
    PROVE  /\ IsDurations(NormalizeVideoBillingConfig(items)[r].durations)
           /\ NormalizeVideoBillingConfig(items)[r].unit \in Int
<1> DEFINE says == {i \in DOMAIN items : NormalDurations(items[i]) # <<>> \/ items[i].unit > 0}
           resolutions == {items[i].resolution : i \in says}
           entry(x) == CHOOSE i \in says : items[i].resolution = x
                         /\ \A j \in says : items[j].resolution = x => j <= i
           Entry(x) == [durations |-> NormalDurations(items[entry(x)]),
                      unit |-> IF NormalDurations(items[entry(x)]) # <<>> THEN 0
                               ELSE items[entry(x)].unit]
<1>1. /\ Len(items) \in Nat /\ DOMAIN items = 1 .. Len(items)
      /\ \A i \in DOMAIN items : items[i] \in VideoItem
  OBVIOUS
<1>2. NormalizeVideoBillingConfig(items) = [x \in resolutions |-> Entry(x)]
  BY DEF NormalizeVideoBillingConfig
<1>3. r \in resolutions
  <2> HIDE DEF resolutions, Entry
  <2> QED
    BY <1>2
<1>4. entry(r) \in says
  <2> DEFINE T == {i \in says : items[i].resolution = r}
  <2>1. T # {} /\ T \in SUBSET (1 .. Len(items))
    BY <1>1, <1>3
  <2>2. \E i \in T : \A j \in T : j <= i
    BY <1>1, <2>1, LastOf
  <2>3. \E i \in says : items[i].resolution = r /\ \A j \in says : items[j].resolution = r => j <= i
    BY <2>2
  <2> QED
    BY <2>3
<1>5. NormalizeVideoBillingConfig(items)[r] = Entry(r)
  BY <1>2, <1>3
<1> DEFINE item == items[entry(r)]
<1>6. item \in VideoItem
  BY <1>1, <1>4
<1>7. Entry(r) = [durations |-> NormalDurations(item),
                unit |-> IF NormalDurations(item) # <<>> THEN 0 ELSE item.unit]
  OBVIOUS
<1> HIDE DEF item, Entry
<1>8. item.unit \in Int
  BY <1>6 DEF VideoItem
<1> QED
  BY <1>5, <1>6, <1>7, <1>8, DurationsTyped

(* Multiplied video prices make a cost that is.                            *)
LEMMA VideoScales ==
    ASSUME NEW items \in Seq(VideoItem), NEW config, config = NormalizeVideoBillingConfig(items),
           NEW v, v.count \in Nat, v.seconds \in Int, VideoAllowed(config, v), NEW m \in Nat \ {0}
    PROVE  /\ calculateVideoBillingCost(config, v) \in Int
           /\ calculateVideoBillingCost(MultiplyVideoBillingConfig(config, m), v)
                = m * calculateVideoBillingCost(config, v)
<1> DEFINE row == config[v.resolution]
           d == row.durations
           e == [s \in DOMAIN d |-> d[s] * m]
           more == MultiplyVideoBillingConfig(config, m)
           price == IF d = <<>> THEN row.unit * v.seconds ELSE d[v.seconds]
<1>1. v.resolution \in DOMAIN config /\ (d = <<>> \/ v.seconds \in DOMAIN d)
  BY DEF VideoAllowed
<1>2. IsDurations(d) /\ row.unit \in Int
  BY <1>1, VideoTyped
<1>3. more[v.resolution] = [durations |-> e, unit |-> row.unit * m]
  BY <1>1 DEF MultiplyVideoBillingConfig
<1>4. calculateVideoBillingCost(config, v) = Million * v.count * price
  BY DEF calculateVideoBillingCost
<1>5. calculateVideoBillingCost(more, v)
        = Million * v.count * (IF e = <<>> THEN (row.unit * m) * v.seconds ELSE e[v.seconds])
  BY <1>3 DEF calculateVideoBillingCost
<1> HIDE DEF d, row
<1>6. e = <<>> <=> d = <<>>
  BY <1>2 DEF IsDurations
<1>7. price \in Int
  BY <1>1, <1>2 DEF IsDurations
<1>8. (IF e = <<>> THEN (row.unit * m) * v.seconds ELSE e[v.seconds]) = m * price
  <2>1. CASE d = <<>>
    <3> DEFINE unit == row.unit
               n == v.seconds
    <3>1. unit \in Int /\ n \in Int
      BY <1>2
    <3> HIDE DEF unit, n
    <3>2. (unit * m) * n = m * (unit * n)
      BY <3>1
    <3> QED
      BY <1>6, <2>1, <3>2 DEF unit, n
  <2>2. CASE d # <<>>
    <3>1. e[v.seconds] = d[v.seconds] * m /\ d[v.seconds] \in Int
      BY <1>1, <1>2, <2>2 DEF IsDurations
    <3> QED
      BY <1>6, <2>2, <3>1
  <2> QED
    BY <2>1, <2>2
<1> DEFINE base == Million * v.count
<1>9. base \in Int
  BY DEF Million
<1> HIDE DEF base, price
<1>10. base * price \in Int /\ base * (m * price) = m * (base * price)
  BY <1>7, <1>9
<1> QED
  BY <1>4, <1>5, <1>8, <1>10 DEF base

(* Items and videos, and then tokens, cost by either catalog what they cost*)
(* by the book.                                                            *)
LEMMA BookIsSheet ==
    ASSUME NEW input \in Inputs
    PROVE  IsSheet(modelFromInput(input))
<1>1. Price \subseteq Int
  BY DEF Price
<1> QED
  BY <1>1, BookTiers DEF IsSheet

(* The video prices of a book are normalised.                              *)
LEMMA BookVideo ==
    ASSUME NEW input \in Inputs
    PROVE  /\ input.video \in Seq(VideoItem)
           /\ modelFromInput(input).video = NormalizeVideoBillingConfig(input.video)
           /\ modelFromInput(input).quota \in Quotas
<1>1. input \in Input
  BY PricingAssumption
<1> QED
  BY <1>1 DEF Input, VideoItem, modelFromInput, Quotas

(* The first catalog shows a multiple of the book.                         *)
LEMMA AdvertisedIs ==
    ASSUME NEW input \in Inputs, NEW m \in Nat \ {0}, NEW sheet, sheet = modelFromInput(input),
           NEW catalog, catalog = Advertised(sheet, m)
    PROVE  /\ catalog.quota = sheet.quota /\ Multiple(catalog, sheet, m)
           /\ catalog.video = MultiplyVideoBillingConfig(sheet.video, m)
<1>1. sheet = [quota |-> sheet.quota, price |-> sheet.price, tiers |-> sheet.tiers, video |-> sheet.video]
  BY DEF modelFromInput
<1>2. /\ catalog.quota = sheet.quota
      /\ catalog.price = [unit \in Units |-> sheet.price[unit] * m]
      /\ catalog.tiers = [unit \in Units |-> MultiplyPriceTiers(sheet.tiers[unit], m)]
      /\ catalog.video = MultiplyVideoBillingConfig(sheet.video, m)
  <2> DEFINE q == sheet.quota
             p == sheet.price
             t == sheet.tiers
             v == sheet.video
             p1 == [unit \in Units |-> p[unit] * m]
             t1 == [unit \in Units |-> MultiplyPriceTiers(t[unit], m)]
             v1 == MultiplyVideoBillingConfig(v, m)
  <2>1. catalog = [sheet EXCEPT !.price = p1, !.tiers = t1, !.video = v1]
    BY DEF Advertised
  <2>2. sheet = [quota |-> q, price |-> p, tiers |-> t, video |-> v]
    BY <1>1
  <2> HIDE DEF q, p, t, v, p1, t1, v1
  <2>3. catalog.quota = q /\ catalog.price = p1 /\ catalog.tiers = t1 /\ catalog.video = v1
    BY <2>1, <2>2
  <2> QED
    BY <2>3 DEF q, p, t, v, p1, t1, v1
<1>3. ASSUME NEW unit \in Units
      PROVE  /\ catalog.price[unit] = m * sheet.price[unit]
             /\ catalog.tiers[unit] = Times(sheet.tiers[unit], m)
  <2> DEFINE p == sheet.price[unit]
             q == sheet.tiers[unit]
  <2>1. p \in Int /\ IsNormal(q)
    BY <1>3, BookIsSheet DEF IsSheet
  <2>2. catalog.price[unit] = p * m /\ catalog.tiers[unit] = MultiplyPriceTiers(q, m)
    BY <1>2, <1>3
  <2> HIDE DEF p, q
  <2>3. MultiplyPriceTiers(q, m) = Times(q, m)
    BY <2>1, NormalizeIdempotent DEF MultiplyPriceTiers, Times
  <2>4. p * m = m * p
    BY <2>1
  <2> QED
    BY <2>2, <2>3, <2>4 DEF p, q
<1> QED
  BY <1>2, <1>3 DEF Multiple

(* The first catalog: what it shows is what is charged.                    *)
LEMMA AdvertisedCosts ==
    ASSUME NEW input \in Inputs, NEW m \in Nat \ {0}, NEW sheet, sheet = modelFromInput(input),
           NEW catalog, catalog = Advertised(sheet, m), NEW u, IsCount(u), NEW v,
           v.count \in Nat, v.seconds \in Int,
           sheet.quota = "video" => VideoAllowed(sheet.video, v)
    PROVE  /\ calculateModelUsageCost(u, v, sheet) \in Int
           /\ calculateModelUsageCost(u, v, catalog) = m * calculateModelUsageCost(u, v, sheet)
<1>1. /\ catalog.quota = sheet.quota /\ Multiple(catalog, sheet, m)
      /\ catalog.video = MultiplyVideoBillingConfig(sheet.video, m)
  BY AdvertisedIs
<1>2. IsSheet(sheet)
  BY BookIsSheet
<1>3. /\ input.video \in Seq(VideoItem) /\ sheet.video = NormalizeVideoBillingConfig(input.video)
      /\ sheet.quota \in Quotas
  BY BookVideo
<1>4. CASE sheet.quota = "token"
  BY <1>1, <1>2, <1>4, MultipleCosts
<1>5. CASE sheet.quota = "video"
  <2>1. /\ calculateModelUsageCost(u, v, sheet) = calculateVideoBillingCost(sheet.video, v)
        /\ calculateModelUsageCost(u, v, catalog) = calculateVideoBillingCost(catalog.video, v)
    BY <1>1, <1>5 DEF calculateModelUsageCost
  <2>2. VideoAllowed(sheet.video, v)
    BY <1>5
  <2> QED
    BY <1>1, <1>3, <2>1, <2>2, VideoScales
<1>6. CASE sheet.quota = "item"
  <2> DEFINE p == sheet.price["output"]
             n == ItemCount(u)
  <2>1. p \in Int /\ catalog.price["output"] = m * p
    BY <1>1, <1>2 DEF IsSheet, Multiple, Units, OutputUnits
  <2>2. n \in Int
    <3>1. u.output \in Nat
      BY DEF IsCount, Counted
    <3> QED
      BY <3>1 DEF ItemCount, AtLeast, Million
  <2>3. /\ calculateModelUsageCost(u, v, sheet) = Million * p * n
        /\ calculateModelUsageCost(u, v, catalog) = Million * (m * p) * n
    BY <1>1, <1>6, <2>1 DEF calculateModelUsageCost
  <2> HIDE DEF p, n
  <2> DEFINE z == Million
  <2>4. z \in Int
    BY DEF Million
  <2> HIDE DEF z
  <2>5. z * p * n \in Int /\ z * (m * p) * n = m * (z * p * n)
    BY <2>1, <2>2, <2>4
  <2> QED
    BY <2>3, <2>5 DEF z
<1> QED
  BY <1>3, <1>4, <1>5, <1>6 DEF Quotas

(* Half of an even number of halves is whole.                              *)
LEMMA EvenMultiple ==
    ASSUME NEW p \in Price, NEW m \in Int
    PROVE  (m * p) \div 2 \in Int /\ 2 * ((m * p) \div 2) = m * p
<1>1. p \in Int /\ p % 2 = 0
  BY DEF Price
<1>2. PICK h \in Int : p = 2 * h
  <2>1. p = 2 * (p \div 2) /\ p \div 2 \in Int
    BY <1>1
  <2> QED
    BY <2>1
<1>3. m * p = 2 * (m * h)
  BY <1>2
<1> DEFINE x == m * h
<1>4. x \in Int
  BY <1>2
<1> HIDE DEF x
<1>5. (2 * x) \div 2 = x
  BY <1>4
<1> QED
  BY <1>3, <1>4, <1>5 DEF x

(* The second catalog: for tokens, half of what the first one shows.       *)
LEMMA ExposedCosts ==
    ASSUME NEW input \in Inputs, NEW m \in Nat \ {0}, NEW sheet, sheet = modelFromInput(input),
           NEW catalog, catalog = Advertised(sheet, m), NEW halves, halves = Exposed(sheet, m),
           NEW u, IsCount(u), NEW v, sheet.quota = "token"
    PROVE  /\ calculateModelUsageCost(u, v, halves) \in Int
           /\ calculateModelUsageCost(u, v, catalog) = 2 * calculateModelUsageCost(u, v, halves)
<1>1. /\ catalog.quota = "token" /\ Multiple(catalog, sheet, m)
  BY AdvertisedIs
<1>2. IsSheet(sheet)
  BY BookIsSheet
<1>3. catalog = [quota |-> catalog.quota, price |-> catalog.price, tiers |-> catalog.tiers,
               video |-> catalog.video]
  BY DEF Advertised, modelFromInput
<1> DEFINE Half(q) == [i \in DOMAIN q |-> [q[i] EXCEPT !.price = @ \div 2]]
<1>4. /\ halves.quota = catalog.quota
      /\ halves.price = [unit \in Units |-> catalog.price[unit] \div 2]
      /\ halves.tiers = [unit \in Units |-> Half(catalog.tiers[unit])]
  <2> DEFINE q == catalog.quota
             p == catalog.price
             t == catalog.tiers
             w == catalog.video
             p1 == [unit \in Units |-> p[unit] \div 2]
             t1 == [unit \in Units |-> Half(t[unit])]
  <2>1. halves = [catalog EXCEPT !.price = p1, !.tiers = t1]
    BY <1>1 DEF Exposed, exposedPricing
  <2>2. catalog = [quota |-> q, price |-> p, tiers |-> t, video |-> w]
    BY <1>3
  <2> HIDE DEF q, p, t, w, p1, t1
  <2>3. halves.quota = q /\ halves.price = p1 /\ halves.tiers = t1
    BY <2>1, <2>2
  <2> QED
    BY <2>3 DEF q, p, t, w, p1, t1
<1>5. ASSUME NEW unit \in Units
      PROVE  /\ halves.price[unit] \in Int /\ IsNormal(halves.tiers[unit])
             /\ catalog.price[unit] = 2 * halves.price[unit]
             /\ catalog.tiers[unit] = Times(halves.tiers[unit], 2)
  <2> DEFINE p == sheet.price[unit]
             q == sheet.tiers[unit]
             r == Times(q, m)
             h == Half(r)
  <2>1. /\ p \in Price /\ IsNormal(q) /\ \A i \in DOMAIN q : q[i].price \in Price
    BY <1>5, BookTiers
  <2>2. catalog.price[unit] = m * p /\ catalog.tiers[unit] = r
    BY <1>1, <1>5 DEF Multiple
  <2>3. halves.price[unit] = (m * p) \div 2 /\ halves.tiers[unit] = h
    <3>1. halves.price[unit] = catalog.price[unit] \div 2
      BY <1>4, <1>5
    <3>2. halves.tiers[unit] = Half(catalog.tiers[unit])
      BY <1>4, <1>5
    <3> HIDE DEF p, r, Half
    <3> QED
      BY <2>2, <3>1, <3>2
  <2>4. halves.price[unit] \in Int /\ catalog.price[unit] = 2 * halves.price[unit]
    BY <2>1, <2>2, <2>3, EvenMultiple
  <2>5. /\ IsNormal(r) /\ DOMAIN r = DOMAIN q
        /\ \A i \in DOMAIN q : r[i].price = q[i].price * m
    BY <2>1, TimesIsNormal
  <2>6. /\ r \in Seq(NormalTier) /\ DOMAIN r = 1 .. Len(r) /\ Len(r) \in Nat
        /\ \A i \in DOMAIN r : r[i] \in NormalTier
        /\ \A i, j \in DOMAIN r : i < j => SortsBefore(r[i], r[j])
    BY <2>5 DEF IsNormal
  <2> HIDE DEF p, q, r
  <2>7. ASSUME NEW i \in DOMAIN r
        PROVE  /\ h[i] \in NormalTier /\ h[i].min = r[i].min /\ h[i].condition = r[i].condition
               /\ h[i].price * 2 = r[i].price
    <3> DEFINE t == r[i]
               x == t.price
    <3>1. t \in NormalTier /\ h[i] = [t EXCEPT !.price = t.price \div 2]
      BY <2>6, <2>7
    <3>2. t = [min |-> t.min, price |-> t.price, condition |-> t.condition]
          /\ t.min \in Nat /\ t.price \in Nat /\ t.condition \in Conditions
      BY <3>1 DEF NormalTier
    <3>3. q[i].price \in Price /\ x = q[i].price * m
      BY <2>1, <2>5, <2>7
    <3>4. x \div 2 \in Int /\ 2 * (x \div 2) = x
      <4>1. q[i].price \in Int /\ q[i].price * m = m * q[i].price
        BY <3>3 DEF Price
      <4> QED
        BY <3>3, <4>1, EvenMultiple
    <3>5. x \in Nat
      BY <3>2
    <3> HIDE DEF x
    <3>6. x \div 2 \in Nat /\ (x \div 2) * 2 = x
      BY <3>4, <3>5
    <3>7. t.price \div 2 \in Nat /\ (t.price \div 2) * 2 = t.price
      BY <3>6 DEF x
    <3> DEFINE y == t.price \div 2
    <3>8. h[i] = [min |-> t.min, price |-> y, condition |-> t.condition]
      <4> HIDE DEF y, t, h
      <4>1. h[i] = [t EXCEPT !.price = y]
        BY <3>1 DEF y
      <4> QED
        BY <3>2, <4>1
    <3> HIDE DEF t, h, y
    <3>9. y \in Nat /\ y * 2 = t.price
      BY <3>7 DEF y
    <3> QED
      BY <3>2, <3>8, <3>9 DEF NormalTier, t
  <2>8. DOMAIN h = DOMAIN r /\ h \in [1 .. Len(r) -> NormalTier] /\ Len(h) = Len(r)
    <3>1. h \in [1 .. Len(r) -> NormalTier]
      BY <2>6, <2>7
    <3> HIDE DEF h
    <3> QED
      BY <2>6, <3>1
  <2> HIDE DEF h
  <2>9. h \in Seq(NormalTier)
    BY <2>6, <2>8
  <2>10. IsNormal(h)
    BY <2>6, <2>7, <2>8, <2>9 DEF IsNormal, SortsBefore
  <2>11. r = Times(h, 2)
    <3>1. ASSUME NEW i \in DOMAIN r
          PROVE  r[i] = [h[i] EXCEPT !.price = @ * 2]
      <4>1. r[i] \in NormalTier /\ h[i] \in NormalTier
        BY <2>6, <2>7, <3>1
      <4>2. h[i].min = r[i].min /\ h[i].condition = r[i].condition /\ h[i].price * 2 = r[i].price
        BY <2>7, <3>1
      <4> DEFINE s == r[i]
                 t == h[i]
      <4>3. s \in NormalTier /\ t \in NormalTier /\ t.min = s.min /\ t.condition = s.condition
            /\ t.price * 2 = s.price
        BY <4>1, <4>2
      <4> HIDE DEF s, t
      <4>4. s = [t EXCEPT !.price = t.price * 2]
        BY <4>3 DEF NormalTier
      <4> QED
        BY <4>4 DEF s, t
    <3>2. r = [i \in DOMAIN r |-> r[i]]
      BY <2>6
    <3> QED
      BY <2>8, <3>1, <3>2 DEF Times
  <2> QED
    BY <2>2, <2>3, <2>4, <2>10, <2>11
<1>6. IsSheet(halves) /\ Multiple(catalog, halves, 2) /\ halves.quota = "token"
  BY <1>1, <1>4, <1>5 DEF IsSheet, Multiple
<1>7. 2 \in Nat \ {0}
  OBVIOUS
<1> QED
  BY <1>1, <1>6, <1>7, MultipleCosts

-----------------------------------------------------------------------------
(* The server.                                                             *)

(* A request holds the rows of one moment.                                 *)
Routed(r) ==
    r.asked \in Inputs /\ r.book = modelFromInput(r.asked) /\ r.multiplier \in Multipliers

(* A bill says what was counted, by which rows, and what that costs.       *)
Rated(b) ==
    /\ b.answer \in Answers /\ IsCount(b.counts) /\ b.groupMultiplier \in Int
    /\ b.by.book.quota = "video" /\ b.answer.kind = "video" =>
         VideoAllowed(b.by.book.video, b.answer.video)
    /\ b.cost = b.groupMultiplier * userChannelMultiplier(b.by.multiplier)
                  * (IF b.by.book.quota = "video" /\ b.answer.kind # "video" THEN 0
                     ELSE calculateModelUsageCost(b.counts, b.answer.video, b.by.book))

PricingInv ==
    /\ asked \in Inputs /\ book = modelFromInput(asked)
    /\ multiplier \in Multipliers /\ groups \in GroupSettings /\ changes \in Nat
    /\ request # NoBill => Routed(request)
    /\ bill # NoBill => Routed(bill.by) /\ Rated(bill)

(* The invariant holds when the program starts.                            *)
LEMMA PricingInitial ==
    PricingInit => PricingInv
BY DEF PricingInit, PricingInv

(* Writing a bill keeps the invariant.                                     *)
LEMMA BillIsRated ==
    ASSUME PricingInv, NEW a \in Answers, Bill(a)
    PROVE  PricingInv'
<1>1. /\ request # NoBill /\ request' = NoBill
      /\ UNCHANGED <<asked, book, multiplier, groups, changes>>
  BY DEF Bill
<1>2. Routed(request)
  BY <1>1 DEF PricingInv
<1> DEFINE b == [answer |-> a, counts |-> normalizeUsageTokenCounts(Counts(a)), cost |-> Cost(a),
                 by |-> request, groupMultiplier |-> effectiveUserGroupMultiplier(groups)]
           allowed == Billable(groups)
                        /\ (request.book.quota = "video" /\ a.kind = "video"
                              => VideoAllowed(request.book.video, a.video))
<1>3. bill' = IF allowed THEN b ELSE NoBill
  BY DEF Bill
<1>4. ASSUME allowed
      PROVE  Rated(b)
  <2> DEFINE u == normalizeUsageTokenCounts(Counts(a))
             g == effectiveUserGroupMultiplier(groups)
  <2>1. IsCount(u)
    BY CountedIsCount
  <2>2. g \in Int
    BY GroupMultiplierTyped DEF PricingInv
  <2>3. Cost(a) = g * userChannelMultiplier(request.multiplier)
                    * (IF request.book.quota = "video" /\ a.kind # "video" THEN 0
                       ELSE calculateModelUsageCost(u, a.video, request.book))
    BY DEF Cost
  <2>4. request.book.quota = "video" /\ a.kind = "video" => VideoAllowed(request.book.video, a.video)
    BY <1>4
  <2> HIDE DEF u, g
  <2>5. /\ b.answer = a /\ b.counts = u /\ b.cost = Cost(a) /\ b.by = request
        /\ b.groupMultiplier = g
    BY DEF u, g
  <2> HIDE DEF b
  <2> QED
    BY <2>1, <2>2, <2>3, <2>4, <2>5 DEF Rated
<1>5. b.by = request
  OBVIOUS
<1> HIDE DEF b, allowed
<1>6. bill' # NoBill => Routed(bill'.by) /\ Rated(bill')
  BY <1>2, <1>3, <1>4, <1>5
<1>7. (bill # NoBill => Routed(bill.by) /\ Rated(bill))'
  BY <1>6 DEF Routed, Rated
<1> QED
  BY <1>1, <1>7 DEF PricingInv

(* Every step keeps the invariant.                                         *)
LEMMA PricingStep ==
    ASSUME PricingInv, [PricingNext]_pricingVars
    PROVE  PricingInv'
<1>1. ASSUME NEW input \in Inputs, SaveModel(input) PROVE PricingInv'
  BY <1>1 DEF PricingInv, SaveModel, Change, Routed, Rated
<1>2. ASSUME NEW m \in Multipliers, UpdateUserChannel(m) PROVE PricingInv'
  BY <1>2 DEF PricingInv, UpdateUserChannel, Change, Routed, Rated
<1>3. ASSUME NEW s \in GroupSettings, Regroup(s) PROVE PricingInv'
  BY <1>3 DEF PricingInv, Regroup, Change, Routed, Rated
<1>4. ASSUME NEW s \in GroupSettings,
             UpdateGroup(s) \/ SetChannelGroupMultipliers(s) \/ SetModelGroupMultipliers(s)
      PROVE  PricingInv'
  BY <1>3, <1>4 DEF UpdateGroup, SetChannelGroupMultipliers, SetModelGroupMultipliers, Remultiply
<1>5. CASE resolveTarget
  <2>1. /\ UNCHANGED <<asked, book, multiplier, groups, changes>> /\ bill' = NoBill
        /\ request' = [asked |-> asked, book |-> book, multiplier |-> multiplier]
    BY <1>5 DEF resolveTarget
  <2>2. Routed(request')
    BY <2>1 DEF PricingInv, Routed
  <2>3. (request # NoBill => Routed(request))'
    BY <2>2 DEF Routed
  <2> QED
    BY <2>1, <2>3 DEF PricingInv
<1>6. ASSUME NEW a \in Answers, Bill(a) PROVE PricingInv'
  BY <1>6, BillIsRated
<1>7. CASE UNCHANGED pricingVars
  BY <1>7 DEF pricingVars, PricingInv, Routed, Rated
<1> QED
  BY <1>1, <1>2, <1>3, <1>4, <1>5, <1>6, <1>7 DEF PricingNext

(* A bill is always of rows that were stored together, whatever has been   *)
(* changed since the request was routed, and of counts that add up.        *)
THEOREM PricingIsTyped == PricingSpec => []PricingInv
<1>1. PricingInit => PricingInv
  BY PricingInitial
<1>2. PricingInv /\ [PricingNext]_pricingVars => PricingInv'
  BY PricingStep
<1> QED
  BY <1>1, <1>2, PTL DEF PricingSpec

-----------------------------------------------------------------------------
(* What is charged.                                                        *)

(* The invariant, as it says that no token is priced twice or not at all.  *)
LEMMA TokensAreDivided ==
    ASSUME PricingInv
    PROVE  EveryTokenPricedOnce
<1> SUFFICES ASSUME PerToken
             PROVE  LET parts == Parts(bill.counts, bill.by.book)
                    IN /\ \A unit \in Units : parts[unit] >= 0
                       /\ SumFunctionOnSet(parts, InputUnits) = bill.counts.input
                       /\ SumFunctionOnSet(parts, OutputUnits) = bill.counts.output
  BY DEF EveryTokenPricedOnce
<1> DEFINE parts == Parts(bill.counts, bill.by.book)
<1>1. IsCount(bill.counts)
  BY DEF PerToken, PricingInv, Rated
<1>2. /\ \A unit \in Units : parts[unit] \in Nat
      /\ SumFunctionOnSet(parts, InputUnits) = bill.counts.input
      /\ SumFunctionOnSet(parts, OutputUnits) = bill.counts.output
  BY <1>1, PartsDivide
<1> HIDE DEF parts
<1>3. \A unit \in Units : parts[unit] >= 0
  BY <1>2
<1> QED
  BY <1>2, <1>3 DEF parts

(* For all answers upstreams give, and for all prices: the tokens of a     *)
(* request are divided among its prices without remainder.                 *)
THEOREM TokensArePricedOnce == PricingSpec => []EveryTokenPricedOnce
<1>1. PricingInv => EveryTokenPricedOnce
  BY TokensAreDivided
<1> QED
  BY <1>1, PricingIsTyped, PTL

(* The invariant, as it says that a token costs what is meant.             *)
LEMMA CostIsMeant ==
    ASSUME PricingInv
    PROVE  PricedAsMeant
<1> DEFINE parts == Parts(bill.counts, bill.by.book)
           cost(unit) == SumFunction([i \in 1 .. parts[unit] |->
                           PriceMeant(bill.by.asked.price[unit], bill.by.asked.tiers[unit], i)])
<1> SUFFICES ASSUME PerToken, \A unit \in Units : Plain(bill.by.asked.tiers[unit])
             PROVE  bill.cost = bill.groupMultiplier * userChannelMultiplier(bill.by.multiplier)
                                  * SumFunction([unit \in Units |-> cost(unit)])
  BY DEF PricedAsMeant
<1>1. Routed(bill.by) /\ Rated(bill) /\ bill.by.book.quota = "token"
  BY DEF PerToken, PricingInv
<1> DEFINE input == bill.by.asked
           sheet == bill.by.book
           u == bill.counts
           paid(unit) == CalculateTieredTokenCostWithMetrics(parts[unit], sheet.price[unit],
                                                             sheet.tiers[unit], Metrics(u))
<1>2. input \in Inputs /\ sheet = modelFromInput(input) /\ IsCount(u)
  BY <1>1 DEF Routed, Rated
<1>3. \A unit \in Units : parts[unit] \in Nat
  BY <1>2, PartsDivide
<1>4. calculateModelUsageCost(u, bill.answer.video, sheet) = SumFunction([unit \in Units |-> paid(unit)])
  BY <1>1 DEF calculateModelUsageCost
<1>5. ASSUME NEW unit \in Units
      PROVE  paid(unit) = cost(unit)
  <2> DEFINE tiers == input.tiers[unit]
             base == input.price[unit]
             n == parts[unit]
  <2>1. /\ tiers \in Seq(TierRow) /\ base \in Price
        /\ sheet.tiers[unit] = NormalizePriceTiers(tiers) /\ sheet.price[unit] = base
    BY <1>2, <1>5, BookTiers
  <2>2. Plain(tiers) /\ base \in Int /\ n \in Nat
    BY <1>3, <1>5, <2>1 DEF Price
  <2>3. paid(unit) = CalculateTieredTokenCostWithMetrics(n, base, NormalizePriceTiers(tiers), Metrics(u))
    BY <2>1
  <2>4. cost(unit) = SumFunction([i \in 1 .. n |-> PriceMeant(base, tiers, i)])
    OBVIOUS
  <2> HIDE DEF tiers, base, n, paid, cost
  <2>5. CalculateTieredTokenCostWithMetrics(n, base, NormalizePriceTiers(tiers), Metrics(u))
          = SumFunction([i \in 1 .. n |-> PriceMeant(base, tiers, i)])
    BY <2>1, <2>2, TieredMeant
  <2> QED
    BY <2>3, <2>4, <2>5
<1> DEFINE paidFor == [unit \in Units |-> paid(unit)]
           meantFor == [unit \in Units |-> cost(unit)]
<1>6. paidFor = meantFor
  <2> HIDE DEF paid, cost
  <2> QED
    BY <1>5
<1> HIDE DEF paid, cost, parts
<1>7. bill.cost = bill.groupMultiplier * userChannelMultiplier(bill.by.multiplier)
                    * calculateModelUsageCost(u, bill.answer.video, sheet)
  BY <1>1 DEF Rated
<1> QED
  BY <1>4, <1>6, <1>7

(* For all price lists an administrator may write: each token costs the    *)
(* price that was meant for its place in the request.                      *)
THEOREM TokensCostWhatIsMeant == PricingSpec => []PricedAsMeant
<1>1. PricingInv => PricedAsMeant
  BY CostIsMeant
<1> QED
  BY <1>1, PricingIsTyped, PTL

(* The invariant, as it says that what is shown is charged.                *)
LEMMA CatalogAgrees ==
    ASSUME PricingInv
    PROVE  CatalogIsCharged
<1> DEFINE catalog == Advertised(bill.by.book, bill.by.multiplier)
           halves == Exposed(bill.by.book, bill.by.multiplier)
           unit == IF catalog.quota = "token" THEN 2 ELSE 1
           cost(sheet) == calculateModelUsageCost(bill.counts, bill.answer.video, sheet)
<1> SUFFICES ASSUME bill # NoBill, bill.by.multiplier > 0,
                    bill.by.book.quota = "video" => bill.answer.kind = "video"
             PROVE  /\ bill.cost = bill.groupMultiplier * cost(catalog)
                    /\ bill.cost = unit * bill.groupMultiplier * cost(halves)
  BY DEF CatalogIsCharged
<1> DEFINE input == bill.by.asked
           sheet == bill.by.book
           m == bill.by.multiplier
           u == bill.counts
           v == bill.answer.video
           g == bill.groupMultiplier
<1>1. Routed(bill.by) /\ Rated(bill)
  BY DEF PricingInv
<1>2. /\ input \in Inputs /\ sheet = modelFromInput(input) /\ m \in Multipliers
  BY <1>1 DEF Routed
<1>3. /\ bill.answer \in Answers /\ IsCount(u) /\ g \in Int
      /\ sheet.quota = "video" => VideoAllowed(sheet.video, v)
      /\ bill.cost = g * userChannelMultiplier(m) * cost(sheet)
  BY <1>1 DEF Rated
<1>4. m \in Int /\ m > 0 /\ m \in Nat \ {0} /\ userChannelMultiplier(m) = m
  <2>1. m \in Int
    BY <1>2, PricingAssumption
  <2> HIDE DEF m
  <2>2. m > 0
    BY DEF m
  <2> QED
    BY <2>1, <2>2 DEF userChannelMultiplier
<1>5. v.count \in Nat /\ v.seconds \in Int
  BY <1>3, AnswerFacts
<1>6. cost(sheet) \in Int /\ cost(catalog) = m * cost(sheet)
  <2> HIDE DEF input, u, v, m
  <2>1. catalog = Advertised(sheet, m)
    BY DEF m
  <2> HIDE DEF catalog, sheet
  <2>2. /\ calculateModelUsageCost(u, v, sheet) \in Int
        /\ calculateModelUsageCost(u, v, catalog) = m * calculateModelUsageCost(u, v, sheet)
    BY <1>2, <1>3, <1>4, <1>5, <2>1, AdvertisedCosts
  <2> QED
    BY <2>2 DEF u, v
<1>7. catalog.quota = sheet.quota
  BY <1>2, <1>4, AdvertisedIs
<1>8. cost(catalog) = unit * cost(halves) /\ unit \in Int /\ cost(halves) \in Int
  <2>1. CASE sheet.quota = "token"
    <3> HIDE DEF input, u, v, m
    <3>1. catalog = Advertised(sheet, m) /\ halves = Exposed(sheet, m)
      BY DEF m
    <3> HIDE DEF catalog, halves, sheet
    <3>2. /\ calculateModelUsageCost(u, v, halves) \in Int
          /\ calculateModelUsageCost(u, v, catalog) = 2 * calculateModelUsageCost(u, v, halves)
      BY <1>2, <1>3, <1>4, <2>1, <3>1, ExposedCosts
    <3>3. unit = 2
      BY <1>7, <2>1
    <3> QED
      BY <3>2, <3>3 DEF u, v
  <2>2. CASE sheet.quota # "token"
    <3>1. unit = 1
      BY <1>7, <2>2
    <3>2. halves = catalog
      BY <1>7, <2>2 DEF Exposed, exposedPricing
    <3>3. cost(catalog) \in Int
      BY <1>4, <1>6
    <3> HIDE DEF cost, catalog, halves, unit
    <3> QED
      BY <3>1, <3>2, <3>3
  <2> QED
    BY <2>1, <2>2
<1> DEFINE a == cost(sheet)
           b == cost(catalog)
           c == cost(halves)
<1>9. a \in Int /\ b = m * a /\ b = unit * c /\ c \in Int /\ unit \in Int
  BY <1>6, <1>8
<1>10. bill.cost = g * m * a
  BY <1>3, <1>4
<1> HIDE DEF a, b, c, unit, g, m
<1>11. g \in Int /\ m \in Int
  BY <1>3, <1>4
<1>12. g * m * a = g * (m * a) /\ unit * g * c = g * (unit * c)
  BY <1>9, <1>11
<1>13. bill.cost = g * b /\ bill.cost = unit * g * c
  BY <1>9, <1>10, <1>12
<1> QED
  BY <1>13 DEF b, c, g

(* For all price books and positive multipliers: what either catalog shows *)
(* is what is charged, but for the multiplier of the user's groups.        *)
THEOREM CatalogsAreCharged == PricingSpec => []CatalogIsCharged
<1>1. PricingInv => CatalogIsCharged
  BY CatalogAgrees
<1> QED
  BY <1>1, PricingIsTyped, PTL

-----------------------------------------------------------------------------
(* The tables of models and channels, and their workers.                   *)

ConfigRow == [channel : Channels, model : ModelIds, upstream : STRING, enabled : BOOLEAN]

NewConfig == [channel : Channels, model : {0}, upstream : STRING, enabled : BOOLEAN]

Some(S) == Seq(S) \ {<<>>}

(* What a worker may be at, with items that are in Items and rows in Rows. *)
Looks(Items) ==
    [pc : {"find", "insert"}, kind : {"models"}, channel : Channels, todo : Some(NamedItem)]
    \cup [pc : {"find", "insert"}, kind : {"prices"}, channel : Channels, todo : Some(Items)]

Configures(Rows) ==
    [pc : {"config", "create"}, kind : {"models"}, channel : Channels, todo : Some(NamedItem),
     id : ModelIds, row : Rows]
    \cup [pc : {"update"}, kind : {"models"}, channel : Channels, todo : Some(NamedItem),
          id : ModelIds, row : Rows, config : ConfigIds]

Repricings(Items, Rows) ==
    [pc : {"prices"}, kind : {"prices"}, channel : Channels, todo : Some(Items),
     id : ModelIds, row : Rows]

Edits(Rows) ==
    [pc : {"edit"}, id : ModelIds, row : Rows]
    \cup [pc : {"new"}, config : {None}, copy : NewConfig, row : Rows]
    \cup [pc : {"model"}, config : ConfigIds, copy : ConfigRow]
    \cup [pc : {"save"}, config : ConfigIds \cup {None}, copy : ConfigRow, id : ModelIds, row : Rows]
    \cup [pc : {"config saved"}, config : ConfigIds \cup {None}, copy : ConfigRow,
          id : ModelIds, row : Rows]
    \cup [pc : {"config saved"}, config : {None}, copy : ConfigRow, row : Rows]

Jobs(Items, Rows) ==
    {Idle} \cup Looks(Items) \cup Configures(Rows) \cup Repricings(Items, Rows) \cup Edits(Rows)

SyncTyped(Items, Rows) ==
    /\ site \in Sites /\ channels \in [Channels -> {"on", "off", None}]
    /\ models \in [ModelIds -> Rows \cup {Unborn, Gone}]
    /\ configs \in [ConfigIds -> ConfigRow \cup {Unborn, Gone}]
    /\ worker \in [Workers -> Jobs(Items, Rows)]
    /\ shown \in Seq(Items)

(* Items and rows that are made of each other.                             *)
Closed(Items, Rows) ==
    /\ Items \subseteq PricedItem /\ Rows \subseteq ModelRow
    /\ \A s \in Sites : s.items \in Seq(Items)
    /\ \A name \in STRING : Row(name, Free, Free) \in Rows
    /\ \A item \in Items : Row(item.name, Written(item), item.meant) \in Rows
    /\ \A name \in STRING, prices \in Books : Row(name, Written(prices), prices) \in Rows
    /\ \A row \in Rows, item \in Items :
         [row EXCEPT !.book = Written(item), !.meant = item.meant] \in Rows
    /\ \A row \in Rows, name \in STRING, prices \in Books, enabled \in BOOLEAN :
         [row EXCEPT !.name = name, !.book = Written(prices), !.meant = prices, !.enabled = enabled]
           \in Rows
    /\ \A row \in Rows, name \in STRING : [row EXCEPT !.name = name, !.enabled = TRUE] \in Rows
    /\ \A row \in Rows : [row EXCEPT !.enabled = TRUE] \in Rows

(* The first item of a list, and the list without it.                      *)
LEMMA SomeItems ==
    ASSUME NEW S, NEW todo \in Some(S)
    PROVE  Head(todo) \in S /\ (Len(todo) # 1 => Tail(todo) \in Some(S))
<1>1. todo \in Seq(S) /\ todo # <<>>
  BY DEF Some
<1>2. Len(todo) \in Nat /\ Len(todo) # 0 /\ Head(todo) \in S /\ Tail(todo) \in Seq(S)
      /\ Len(Tail(todo)) = Len(todo) - 1
  BY <1>1
<1>3. Len(todo) # 1 => Tail(todo) # <<>>
  <2>0. Len(<<>>) = 0
    OBVIOUS
  <2>1. Tail(todo) = <<>> => Len(Tail(todo)) = 0
    BY <2>0, Zenon
  <2> DEFINE n == Len(todo)
             k == Len(Tail(todo))
  <2>2. n \in Nat /\ n # 0 /\ k = n - 1
    BY <1>2
  <2> HIDE DEF n, k
  <2>3. n # 1 => k # 0
    BY <2>2
  <2> QED
    BY <2>1, <2>3 DEF n, k
<1> QED
  BY <1>2, <1>3 DEF Some

(* What a worker knows, by what it is at.                                  *)
LEMMA JobAt ==
    ASSUME NEW Items, NEW Rows, SyncTyped(Items, Rows), NEW w \in Workers
    PROVE  /\ worker[w].pc \in {"find", "insert"} => worker[w] \in Looks(Items)
           /\ worker[w].pc \in {"config", "create", "update"} => worker[w] \in Configures(Rows)
           /\ worker[w].pc = "prices" => worker[w] \in Repricings(Items, Rows)
           /\ worker[w].pc \in {"edit", "new", "model", "save", "config saved"} =>
                worker[w] \in Edits(Rows)
<1>1. worker[w] \in Jobs(Items, Rows)
  BY DEF SyncTyped
<1>2. \A q \in Looks(Items) : q.pc \in {"find", "insert"}
  BY DEF Looks
<1>3. \A q \in Configures(Rows) : q.pc \in {"config", "create", "update"}
  BY DEF Configures
<1>4. \A q \in Repricings(Items, Rows) : q.pc = "prices"
  BY DEF Repricings
<1>5. \A q \in Edits(Rows) : q.pc \in {"edit", "new", "model", "save", "config saved"}
  BY DEF Edits
<1>6. Idle.pc = "idle"
  BY DEF Idle
<1> QED
  BY <1>1, <1>2, <1>3, <1>4, <1>5, <1>6 DEF Jobs

(* A step of one worker.                                                   *)
LEMMA WorkerMoves ==
    ASSUME NEW Items, NEW Rows, SyncTyped(Items, Rows), NEW w \in Workers,
           NEW q \in Jobs(Items, Rows), Becomes(w, q)
    PROVE  /\ worker' \in [Workers -> Jobs(Items, Rows)] /\ worker'[w] = q
           /\ \A v \in Workers : v # w => worker'[v] = worker[v]
BY DEF SyncTyped, Becomes

(* A worker goes on to its next item, or is done.                          *)
LEMMA NextIsTyped ==
    ASSUME NEW Items, NEW Rows, SyncTyped(Items, Rows), NEW w \in Workers, NextItem(w),
           worker[w] \in Configures(Rows) \/ worker[w] \in Looks(Items)
             \/ worker[w] \in Repricings(Items, Rows)
    PROVE  /\ worker' \in [Workers -> Jobs(Items, Rows)]
           /\ worker'[w] = Idle \/ worker'[w].pc = "find"
           /\ \A v \in Workers : v # w => worker'[v] = worker[v]
<1> DEFINE todo == worker[w].todo
           kind == worker[w].kind
           channel == worker[w].channel
           next == [pc |-> "find", kind |-> kind, channel |-> channel, todo |-> Tail(todo)]
<1>1. /\ channel \in Channels
      /\ (kind = "models" /\ todo \in Some(NamedItem)) \/ (kind = "prices" /\ todo \in Some(Items))
  BY DEF Configures, Looks, Repricings
<1>2. Becomes(w, IF Len(todo) = 1 THEN Idle ELSE next)
  BY DEF NextItem
<1> HIDE DEF todo, kind, channel
<1>3. Len(todo) # 1 => next \in Looks(Items)
  BY <1>1, SomeItems DEF Looks
<1> DEFINE q == IF Len(todo) = 1 THEN Idle ELSE next
<1>4. q \in Jobs(Items, Rows) /\ (q = Idle \/ q.pc = "find")
  BY <1>3 DEF Jobs
<1> HIDE DEF q
<1>5. Becomes(w, q)
  BY <1>2 DEF q
<1> QED
  BY <1>4, <1>5, WorkerMoves

(* Where a synchronisation begins.                                         *)
LEMMA SyncBegins ==
    ASSUME NEW Items, NEW Rows, SyncTyped(Items, Rows), NEW w \in Workers, NEW c \in Channels,
           NEW kind, NEW items, Sync(w, kind, c, items),
           (kind = "models" /\ items \in Seq(NamedItem)) \/ (kind = "prices" /\ items \in Seq(Items))
    PROVE  /\ worker' \in [Workers -> Jobs(Items, Rows)]
           /\ worker'[w] = Idle \/ worker'[w].pc = "find"
           /\ \A v \in Workers : v # w => worker'[v] = worker[v]
<1> DEFINE q == IF items = <<>> THEN Idle
                ELSE [pc |-> "find", kind |-> kind, channel |-> c, todo |-> items]
<1>1. Becomes(w, q)
  BY DEF Sync
<1>2. q \in Jobs(Items, Rows) /\ (q = Idle \/ q.pc = "find")
  BY DEF Jobs, Looks, Some
<1> HIDE DEF q
<1> QED
  BY <1>1, <1>2, WorkerMoves

(* Who writes rows and configs writes what they are typed to be.           *)
LEMMA RowWritten ==
    ASSUME NEW Items, NEW Rows, SyncTyped(Items, Rows), NEW id \in ModelIds, NEW row,
           row \in Rows \cup {Unborn, Gone}, Model(id, row)
    PROVE  models' \in [ModelIds -> Rows \cup {Unborn, Gone}]
BY DEF SyncTyped, Model

(* A row that is there is one.                                             *)
LEMMA RowRead ==
    ASSUME NEW Items, NEW Rows, SyncTyped(Items, Rows), NEW id \in ModelIds, In(models, id)
    PROVE  models[id] \in Rows
BY DEF SyncTyped, In

(* A config is written to the table.                                       *)
LEMMA ConfigWritten ==
    ASSUME NEW Items, NEW Rows, SyncTyped(Items, Rows), NEW k \in ConfigIds, NEW row,
           row \in ConfigRow \cup {Unborn, Gone}, ModelConfig(k, row)
    PROVE  configs' \in [ConfigIds -> ConfigRow \cup {Unborn, Gone}]
BY DEF SyncTyped, ModelConfig

(* A config that is there is one.                                          *)
LEMMA ConfigRead ==
    ASSUME NEW Items, NEW Rows, SyncTyped(Items, Rows), NEW k \in ConfigIds, In(configs, k)
    PROVE  configs[k] \in ConfigRow
BY DEF SyncTyped, In

(* What a worker reads when it looks a model up is in the table.           *)
LEMMA FindTyped ==
    ASSUME NEW Items, NEW Rows, Closed(Items, Rows), SyncTyped(Items, Rows),
           NEW w \in Workers, FindModel(w)
    PROVE  SyncTyped(Items, Rows)'
<1>1. worker[w].pc = "find" /\ UNCHANGED <<site, channels, models, configs, shown, edits>>
  BY DEF FindModel, SyncUnchanged
<1>2. worker[w] \in Looks(Items)
  BY <1>1, JobAt
<1>3. CASE Goes(w, "insert", <<>>)
  <2> DEFINE q == worker[w]
             p == [x \in DOMAIN q \cup DOMAIN <<>> |->
                     IF x = "pc" THEN "insert" ELSE IF x \in DOMAIN q THEN q[x] ELSE <<>>[x]]
  <2>1. Becomes(w, p)
    BY <1>3 DEF Goes
  <2>2. p \in Looks(Items)
    BY <1>1, <1>2 DEF Looks
  <2> HIDE DEF p
  <2>3. p \in Jobs(Items, Rows)
    BY <2>2 DEF Jobs
  <2> QED
    BY <1>1, <2>1, <2>3, WorkerMoves DEF SyncTyped
<1>4. ASSUME NEW id \in Named(Item_(w).name),
             Goes(w, IF worker[w].kind = "models" THEN "config" ELSE "prices",
                  [id |-> id, row |-> models[id]])
      PROVE  SyncTyped(Items, Rows)'
  <2> DEFINE q == worker[w]
             row == models[id]
             to == IF q.kind = "models" THEN "config" ELSE "prices"
             more == [id |-> id, row |-> row]
             p == [x \in DOMAIN q \cup DOMAIN more |->
                     IF x = "pc" THEN to ELSE IF x \in DOMAIN q THEN q[x] ELSE more[x]]
  <2>1. Becomes(w, p)
    BY <1>4 DEF Goes
  <2>2. id \in ModelIds /\ row \in Rows
    BY RowRead DEF Named
  <2> HIDE DEF row
  <2>3. ASSUME q.kind = "models" PROVE p \in Jobs(Items, Rows)
    <3>1. q \in [pc : {"find", "insert"}, kind : {"models"}, channel : Channels, todo : Some(NamedItem)]
      BY <1>2, <2>3 DEF Looks
    <3>2. p \in [pc : {"config", "create"}, kind : {"models"}, channel : Channels,
                 todo : Some(NamedItem), id : ModelIds, row : Rows]
      BY <2>2, <2>3, <3>1
    <3>3. p \in Configures(Rows)
      BY <3>2 DEF Configures
    <3> QED
      BY <3>3 DEF Jobs
  <2>4. ASSUME q.kind # "models" PROVE p \in Jobs(Items, Rows)
    <3>1. q \in [pc : {"find", "insert"}, kind : {"prices"}, channel : Channels, todo : Some(Items)]
      BY <1>2, <2>4 DEF Looks
    <3>2. p \in Repricings(Items, Rows)
      BY <2>2, <2>4, <3>1 DEF Repricings
    <3> QED
      BY <3>2 DEF Jobs
  <2> HIDE DEF p
  <2> QED
    BY <1>1, <2>1, <2>3, <2>4, WorkerMoves DEF SyncTyped
<1> QED
  BY <1>3, <1>4 DEF FindModel

(* What is left of a row that is written.                                  *)
LEMMA ItemOf ==
    ASSUME NEW Items, NEW Rows, Closed(Items, Rows), SyncTyped(Items, Rows), NEW w \in Workers,
           worker[w] \in Looks(Items) \/ worker[w] \in Configures(Rows)
             \/ worker[w] \in Repricings(Items, Rows)
    PROVE  /\ worker[w].kind = "models" \/ worker[w].kind = "prices"
           /\ Item_(w).name \in STRING
           /\ worker[w].kind = "prices" => Item_(w) \in Items
<1> DEFINE todo == worker[w].todo
           kind == worker[w].kind
<1>1. (kind = "models" /\ todo \in Some(NamedItem)) \/ (kind = "prices" /\ todo \in Some(Items))
  BY DEF Looks, Configures, Repricings
<1>2. Item_(w) = Head(todo)
  BY DEF Item_
<1> HIDE DEF todo, kind
<1>3. kind = "models" => Item_(w) \in NamedItem
  BY <1>1, <1>2, SomeItems
<1>4. kind = "prices" => Item_(w) \in Items
  BY <1>1, <1>2, SomeItems
<1>5. \A item \in NamedItem : item.name \in STRING
  BY DEF NamedItem
<1>6. \A item \in Items : item.name \in STRING
  BY DEF Closed, PricedItem
<1> QED
  BY <1>1, <1>3, <1>4, <1>5, <1>6 DEF kind

(* A model that is not there is inserted, free or with its prices.         *)
LEMMA InsertTyped ==
    ASSUME NEW Items, NEW Rows, Closed(Items, Rows), SyncTyped(Items, Rows),
           NEW w \in Workers, NEW id \in ModelIds, InsertModel(w, id)
    PROVE  SyncTyped(Items, Rows)'
<1> DEFINE q == worker[w]
           row == IF q.kind = "models" THEN Row(Item_(w).name, Free, Free)
                  ELSE Row(Item_(w).name, Written(Item_(w)), Item_(w).meant)
<1>1. q.pc = "insert" /\ UNCHANGED <<site, channels, configs, shown, edits>>
  BY DEF InsertModel, SyncUnchanged
<1>2. q \in Looks(Items)
  BY <1>1, JobAt
<1>3. row \in Rows
  BY <1>2, ItemOf DEF Closed
<1>4. CASE Becomes(w, Idle) /\ UNCHANGED models
  <2>1. Idle \in Jobs(Items, Rows)
    BY DEF Jobs
  <2> QED
    BY <1>1, <1>4, <2>1, WorkerMoves DEF SyncTyped
<1>5. ASSUME Model(id, row),
             IF q.kind = "models" THEN Goes(w, "config", [id |-> id, row |-> row]) ELSE NextItem(w)
      PROVE  SyncTyped(Items, Rows)'
  <2> HIDE DEF row
  <2>1. models' \in [ModelIds -> Rows \cup {Unborn, Gone}]
    BY <1>3, <1>5, RowWritten
  <2>2. ASSUME q.kind = "models" PROVE worker' \in [Workers -> Jobs(Items, Rows)]
    <3> DEFINE more == [id |-> id, row |-> row]
               p == [x \in DOMAIN q \cup DOMAIN more |->
                       IF x = "pc" THEN "config" ELSE IF x \in DOMAIN q THEN q[x] ELSE more[x]]
    <3>1. Becomes(w, p)
      BY <1>5, <2>2 DEF Goes
    <3>2. q \in [pc : {"find", "insert"}, kind : {"models"}, channel : Channels,
                 todo : Some(NamedItem)]
      BY <1>2, <2>2 DEF Looks
    <3>3. p \in [pc : {"config", "create"}, kind : {"models"}, channel : Channels,
                 todo : Some(NamedItem), id : ModelIds, row : Rows]
      BY <1>3, <3>2
    <3> HIDE DEF p
    <3>4. p \in Configures(Rows)
      BY <3>3 DEF Configures
    <3>5. p \in Jobs(Items, Rows)
      BY <3>4 DEF Jobs
    <3> QED
      BY <3>1, <3>5, WorkerMoves
  <2>3. q.kind # "models" => worker' \in [Workers -> Jobs(Items, Rows)]
    BY <1>2, <1>5, NextIsTyped
  <2> QED
    BY <1>1, <2>1, <2>2, <2>3 DEF SyncTyped
<1> QED
  BY <1>4, <1>5 DEF InsertModel

(* A worker looks for the config of the model it found.                    *)
LEMMA FindConfigTyped ==
    ASSUME NEW Items, NEW Rows, Closed(Items, Rows), SyncTyped(Items, Rows),
           NEW w \in Workers, FindConfig(w)
    PROVE  SyncTyped(Items, Rows)'
<1> DEFINE q == worker[w]
           Found == [pc : {"config", "create"}, kind : {"models"}, channel : Channels,
                     todo : Some(NamedItem), id : ModelIds, row : Rows]
<1>1. q.pc = "config" /\ UNCHANGED <<site, channels, models, configs, shown, edits>>
  BY DEF FindConfig, SyncUnchanged
<1>2. q \in Configures(Rows)
  BY <1>1, JobAt
<1>3. q \in Found
  BY <1>1, <1>2 DEF Configures
<1>4. ASSUME Goes(w, "create", <<>>) PROVE worker' \in [Workers -> Jobs(Items, Rows)]
  <2> DEFINE p == [x \in DOMAIN q \cup DOMAIN <<>> |->
                     IF x = "pc" THEN "create" ELSE IF x \in DOMAIN q THEN q[x] ELSE <<>>[x]]
  <2>1. Becomes(w, p)
    BY <1>4 DEF Goes
  <2>2. p \in Found
    BY <1>3
  <2> HIDE DEF p
  <2>3. p \in Configures(Rows)
    BY <2>2 DEF Configures
  <2>4. p \in Jobs(Items, Rows)
    BY <2>3 DEF Jobs
  <2> QED
    BY <2>1, <2>4, WorkerMoves
<1>5. ASSUME NEW k \in ConfigIds, Goes(w, "update", [config |-> k])
      PROVE  worker' \in [Workers -> Jobs(Items, Rows)]
  <2> DEFINE more == [config |-> k]
             p == [x \in DOMAIN q \cup DOMAIN more |->
                     IF x = "pc" THEN "update" ELSE IF x \in DOMAIN q THEN q[x] ELSE more[x]]
  <2>1. Becomes(w, p)
    BY <1>5 DEF Goes
  <2>2. p \in [pc : {"update"}, kind : {"models"}, channel : Channels, todo : Some(NamedItem),
               id : ModelIds, row : Rows, config : ConfigIds]
    BY <1>3
  <2> HIDE DEF p
  <2>3. p \in Configures(Rows)
    BY <2>2 DEF Configures
  <2>4. p \in Jobs(Items, Rows)
    BY <2>3 DEF Jobs
  <2> QED
    BY <2>1, <2>4, WorkerMoves
<1>6. worker' \in [Workers -> Jobs(Items, Rows)]
  BY <1>4, <1>5 DEF FindConfig, FirstConfig
<1> QED
  BY <1>1, <1>6 DEF SyncTyped

(* A config that was found is written.                                     *)
LEMMA UpdateConfigTyped ==
    ASSUME NEW Items, NEW Rows, Closed(Items, Rows), SyncTyped(Items, Rows),
           NEW w \in Workers, UpdateConfig(w)
    PROVE  SyncTyped(Items, Rows)'
<1> DEFINE q == worker[w]
           k == q.config
<1>1. q.pc = "update" /\ UNCHANGED <<site, channels, models, shown, edits>> /\ NextItem(w)
  BY DEF UpdateConfig, SyncUnchanged
<1>2. q \in Configures(Rows)
  BY <1>1, JobAt
<1>3. k \in ConfigIds /\ Item_(w).name \in STRING
  BY <1>1, <1>2, ItemOf DEF Configures
<1>4. worker' \in [Workers -> Jobs(Items, Rows)]
  BY <1>1, <1>2, NextIsTyped
<1>5. ASSUME In(configs, k), ModelConfig(k, Updated(k, Item_(w).name))
      PROVE  configs' \in [ConfigIds -> ConfigRow \cup {Unborn, Gone}]
  <2> HIDE DEF k
  <2>1. configs[k] \in ConfigRow
    BY <1>3, <1>5, ConfigRead
  <2>2. Updated(k, Item_(w).name) \in ConfigRow
    BY <1>3, <2>1 DEF Updated, ConfigRow
  <2> QED
    BY <1>3, <1>5, <2>2, ConfigWritten
<1> QED
  BY <1>1, <1>4, <1>5 DEF UpdateConfig, SyncTyped

(* A config that was not found is created, perhaps with its model.         *)
LEMMA CreateConfigTyped ==
    ASSUME NEW Items, NEW Rows, Closed(Items, Rows), SyncTyped(Items, Rows),
           NEW w \in Workers, NEW k \in ConfigIds, CreateConfig(w, k)
    PROVE  SyncTyped(Items, Rows)'
<1> DEFINE q == worker[w]
           config == Config(q.channel, q.id, Item_(w).name)
<1>1. /\ q.pc = "create" /\ UNCHANGED <<site, channels, shown, edits>> /\ NextItem(w)
      /\ models' = WithModel(q) /\ ModelConfig(k, config)
  BY DEF CreateConfig, SyncUnchanged
<1>2. q \in Configures(Rows)
  BY <1>1, JobAt
<1>3. q.id \in ModelIds /\ q.row \in Rows /\ q.channel \in Channels /\ Item_(w).name \in STRING
  BY <1>2, ItemOf DEF Configures
<1>4. worker' \in [Workers -> Jobs(Items, Rows)]
  BY <1>1, <1>2, NextIsTyped
<1>5. config \in ConfigRow
  BY <1>3 DEF Config, ConfigRow
<1> HIDE DEF config
<1>6. configs' \in [ConfigIds -> ConfigRow \cup {Unborn, Gone}]
  BY <1>1, <1>5, ConfigWritten
<1>7. models' \in [ModelIds -> Rows \cup {Unborn, Gone}]
  BY <1>1, <1>3 DEF WithModel, SyncTyped
<1> QED
  BY <1>1, <1>4, <1>6, <1>7 DEF SyncTyped

(* The prices of a list are taken over.                                    *)
LEMMA WritePricesTyped ==
    ASSUME NEW Items, NEW Rows, Closed(Items, Rows), SyncTyped(Items, Rows),
           NEW w \in Workers, WritePrices(w)
    PROVE  SyncTyped(Items, Rows)'
<1> DEFINE id == worker[w].id
           item == Item_(w)
           row == [models[id] EXCEPT !.book = Written(item), !.meant = item.meant]
<1>1. /\ worker[w].pc = "prices" /\ UNCHANGED <<site, channels, configs, shown, edits>> /\ NextItem(w)
      /\ (In(models, id) /\ Model(id, row)) \/ UNCHANGED models
  BY DEF WritePrices, SyncUnchanged
<1>2. worker[w] \in Repricings(Items, Rows)
  BY <1>1, JobAt
<1>3. id \in ModelIds /\ worker[w].kind = "prices"
  BY <1>2 DEF Repricings
<1>4. item \in Items
  BY <1>2, <1>3, ItemOf
<1>5. worker' \in [Workers -> Jobs(Items, Rows)]
  BY <1>1, <1>2, NextIsTyped
<1> HIDE DEF id, item
<1>6. In(models, id) => row \in Rows
  BY <1>3, <1>4, RowRead DEF Closed
<1> HIDE DEF row
<1>7. models' \in [ModelIds -> Rows \cup {Unborn, Gone}]
  BY <1>1, <1>3, <1>6, RowWritten DEF SyncTyped
<1> QED
  BY <1>1, <1>5, <1>7 DEF SyncTyped

-----------------------------------------------------------------------------
(* What administrators do, typed.                                          *)
LEMMA AppliesTyped ==
    ASSUME NEW Items, NEW Rows, Closed(Items, Rows), SyncTyped(Items, Rows),
           NEW w \in Workers, NEW c \in Channels,
           SyncChannel(w, c) \/ (\E name \in Names : ApplySync(w, c, name)) \/ ApplyPriceSync(w, c)
    PROVE  SyncTyped(Items, Rows)'
<1>1. site \in Sites /\ shown \in Seq(Items)
  BY DEF SyncTyped
<1>2. CASE SyncChannel(w, c)
  <2>1. site.names \in Seq(NamedItem)
    BY <1>1, SyncAssumption
  <2>2. Sync(w, "models", c, site.names)
    BY <1>2 DEF SyncChannel
  <2>3. worker' \in [Workers -> Jobs(Items, Rows)]
    BY <2>1, <2>2, SyncBegins
  <2> QED
    BY <1>2, <2>3 DEF SyncChannel, SyncTyped
<1>3. CASE \E name \in Names : ApplySync(w, c, name)
  <2>1. /\ UNCHANGED <<site, channels, models, configs, shown>>
        /\ \E preview \in site.previews : \E i \in DOMAIN preview : Sync(w, "models", c, <<preview[i]>>)
    BY <1>3 DEF ApplySync, ApplyChannelModels
  <2>2. PICK preview \in site.previews : \E i \in DOMAIN preview : Sync(w, "models", c, <<preview[i]>>)
    BY <2>1
  <2>3. PICK i \in DOMAIN preview : Sync(w, "models", c, <<preview[i]>>)
    BY <2>2
  <2>4. preview \in Seq(NamedItem)
    BY <1>1, <2>2, SyncAssumption
  <2>5. preview[i] \in NamedItem
    BY <2>3, <2>4
  <2>6. <<preview[i]>> \in Seq(NamedItem)
    BY <2>5
  <2>7. worker' \in [Workers -> Jobs(Items, Rows)]
    BY <2>3, <2>6, SyncBegins
  <2> QED
    BY <2>1, <2>7 DEF SyncTyped
<1>4. CASE ApplyPriceSync(w, c)
  <2>1. Sync(w, "prices", c, shown)
    BY <1>4 DEF ApplyPriceSync, ApplyGlobalModelPrices
  <2>2. worker' \in [Workers -> Jobs(Items, Rows)]
    BY <1>1, <2>1, SyncBegins
  <2>3. shown' \in Seq(Items)
    BY <1>4 DEF ApplyPriceSync
  <2> QED
    BY <1>4, <2>2, <2>3 DEF ApplyPriceSync, SyncTyped
<1> QED
  BY <1>2, <1>3, <1>4

(* The steps of administrators that no worker takes.                       *)
LEMMA AdministersTyped ==
    ASSUME NEW Items, NEW Rows, Closed(Items, Rows), SyncTyped(Items, Rows),
           \/ \E c \in Channels : PreviewPrices(c)
           \/ \E id \in ModelIds, name \in Names, prices \in Books : CreateModel(id, name, prices)
           \/ \E id \in ModelIds : DeleteModel(id)
           \/ \E k \in ConfigIds : DeleteChannelModel(k)
           \/ \E c \in Channels, to \in {"on", "off", None} : SetChannel(c, to)
    PROVE  SyncTyped(Items, Rows)'
<1>1. CASE \E c \in Channels : PreviewPrices(c)
  <2>1. shown' = site.items /\ UNCHANGED <<site, channels, models, configs, worker>>
    BY <1>1 DEF PreviewPrices
  <2>2. site.items \in Seq(Items)
    BY DEF Closed, SyncTyped
  <2> QED
    BY <2>1, <2>2 DEF SyncTyped
<1>2. ASSUME NEW id \in ModelIds, NEW name \in Names, NEW prices \in Books, CreateModel(id, name, prices)
      PROVE  SyncTyped(Items, Rows)'
  <2>1. /\ Model(id, Row(name, Written(prices), prices))
        /\ UNCHANGED <<site, channels, configs, worker, shown>>
    BY <1>2 DEF CreateModel
  <2>2. Row(name, Written(prices), prices) \in Rows
    BY SyncAssumption DEF Closed
  <2>3. models' \in [ModelIds -> Rows \cup {Unborn, Gone}]
    BY <2>1, <2>2, RowWritten
  <2> QED
    BY <2>1, <2>3 DEF SyncTyped
<1>3. ASSUME NEW id \in ModelIds, DeleteModel(id)
      PROVE  SyncTyped(Items, Rows)'
  <2>1. models' \in [ModelIds -> Rows \cup {Unborn, Gone}]
    BY <1>3, RowWritten DEF DeleteModel
  <2>2. configs' \in [ConfigIds -> ConfigRow \cup {Unborn, Gone}]
    BY <1>3 DEF DeleteModel, SyncTyped
  <2> QED
    BY <1>3, <2>1, <2>2 DEF DeleteModel, SyncTyped
<1>4. ASSUME NEW k \in ConfigIds, DeleteChannelModel(k)
      PROVE  SyncTyped(Items, Rows)'
  <2>1. configs' \in [ConfigIds -> ConfigRow \cup {Unborn, Gone}]
    BY <1>4, ConfigWritten DEF DeleteChannelModel
  <2> QED
    BY <1>4, <2>1 DEF DeleteChannelModel, SyncTyped
<1>5. ASSUME NEW c \in Channels, NEW to \in {"on", "off", None}, SetChannel(c, to)
      PROVE  SyncTyped(Items, Rows)'
  BY <1>5 DEF SetChannel, SyncTyped
<1> QED
  BY <1>1, <1>2, <1>3, <1>4, <1>5

(* What a handler holds when it has read a row.                            *)
LEMMA ReadTyped ==
    ASSUME NEW Items, NEW Rows, Closed(Items, Rows), SyncTyped(Items, Rows), NEW w \in Workers,
           \/ \E id \in ModelIds : ReadModel(w, id)
           \/ \E c \in Channels, name \in Names : CreateChannelModel(w, c, name)
           \/ \E k \in ConfigIds, id \in ModelIds, enabled \in BOOLEAN :
                UpdateChannelModel(w, k, id, enabled)
           \/ Fail(w)
    PROVE  SyncTyped(Items, Rows)'
<1> SUFFICES ASSUME NEW q, Becomes(w, q), q \in Jobs(Items, Rows),
                    UNCHANGED <<site, channels, models, configs, shown>>
             PROVE  SyncTyped(Items, Rows)'
  <2>1. ASSUME NEW id \in ModelIds, ReadModel(w, id)
        PROVE  \E q \in Jobs(Items, Rows) : Becomes(w, q)
    <3>1. models[id] \in Rows /\ Becomes(w, [pc |-> "edit", id |-> id, row |-> models[id]])
      BY <2>1, RowRead DEF ReadModel
    <3>2. [pc |-> "edit", id |-> id, row |-> models[id]] \in Edits(Rows)
      BY <3>1 DEF Edits
    <3> QED
      BY <3>1, <3>2 DEF Jobs
  <2>2. ASSUME NEW c \in Channels, NEW name \in Names, CreateChannelModel(w, c, name)
        PROVE  \E q \in Jobs(Items, Rows) : Becomes(w, q)
    <3> DEFINE there == {id \in ModelIds : In(models, id)}
               fresh == [pc |-> "new", config |-> None, copy |-> Config(c, 0, name),
                         row |-> Row(name, Free, Free)]
               row(id) == [models[id] EXCEPT !.name = name, !.enabled = TRUE]
               known(id) == [pc |-> "save", config |-> None, copy |-> Config(c, id, name), id |-> id,
                             row |-> row(id)]
    <3>1. Becomes(w, fresh) \/ \E id \in there : Becomes(w, known(id))
      BY <2>2 DEF CreateChannelModel
    <3>2. name \in STRING
      BY SyncAssumption
    <3>3. fresh \in Edits(Rows)
      <4>1. Config(c, 0, name) \in NewConfig
        BY <3>2 DEF Config, NewConfig
      <4>2. Row(name, Free, Free) \in Rows
        BY <3>2 DEF Closed
      <4> QED
        BY <4>1, <4>2 DEF Edits
    <3>4. ASSUME NEW id \in there PROVE known(id) \in Edits(Rows)
      <4>1. id \in ModelIds /\ models[id] \in Rows
        BY RowRead
      <4>2. row(id) \in Rows
        BY <3>2, <4>1 DEF Closed
      <4>3. Config(c, id, name) \in ConfigRow
        BY <3>2, <4>1 DEF Config, ConfigRow
      <4> HIDE DEF row
      <4> QED
        BY <4>1, <4>2, <4>3 DEF Edits
    <3> QED
      BY <3>1, <3>3, <3>4 DEF Jobs
  <2>3. ASSUME NEW k \in ConfigIds, NEW id \in ModelIds, NEW enabled \in BOOLEAN,
               UpdateChannelModel(w, k, id, enabled)
        PROVE  \E q \in Jobs(Items, Rows) : Becomes(w, q)
    <3> DEFINE copy == [configs[k] EXCEPT !.model = id, !.enabled = enabled]
    <3>1. configs[k] \in ConfigRow /\ Becomes(w, [pc |-> "model", config |-> k, copy |-> copy])
      BY <2>3, ConfigRead DEF UpdateChannelModel
    <3>2. copy \in ConfigRow
      BY <3>1 DEF ConfigRow
    <3> HIDE DEF copy
    <3>3. [pc |-> "model", config |-> k, copy |-> copy] \in Edits(Rows)
      BY <3>2 DEF Edits
    <3> QED
      BY <3>1, <3>3 DEF Jobs
  <2>4. Fail(w) => \E q \in Jobs(Items, Rows) : Becomes(w, q)
    BY DEF Fail, Jobs
  <2>5. UNCHANGED <<site, channels, models, configs, shown>>
    BY DEF ReadModel, CreateChannelModel, UpdateChannelModel, Fail
  <2> QED
    BY <2>1, <2>2, <2>3, <2>4, <2>5
<1> QED
  BY WorkerMoves DEF SyncTyped

(* An edited model is saved.                                               *)
LEMMA UpdateModelTyped ==
    ASSUME NEW Items, NEW Rows, Closed(Items, Rows), SyncTyped(Items, Rows), NEW w \in Workers,
           NEW prices \in Books, NEW enabled \in BOOLEAN, UpdateModel(w, prices, enabled)
    PROVE  SyncTyped(Items, Rows)'
<1> DEFINE q == worker[w]
           old == q.row
           id == q.id
           row(name) == [old EXCEPT !.name = name, !.book = Written(prices), !.meant = prices,
                                    !.enabled = enabled]
           names == Names \cup {old.name}
<1>1. /\ q.pc = "edit" /\ UNCHANGED <<site, channels, configs, shown, edits>> /\ Becomes(w, Idle)
      /\ (\E name \in names : Model(id, Saved(models, id, row(name)))) \/ UNCHANGED models
  BY DEF UpdateModel, SyncUnchanged
<1>2. q \in Edits(Rows)
  BY <1>1, JobAt
<1>3. id \in ModelIds /\ old \in Rows
  BY <1>1, <1>2 DEF Edits
<1>4. ASSUME NEW name \in names PROVE Saved(models, id, row(name)) \in Rows
  <2>1. name \in STRING
    <3> HIDE DEF old
    <3> QED
      BY <1>3, SyncAssumption DEF Closed, ModelRow
  <2> HIDE DEF id, old
  <2>2. row(name) \in Rows
    BY <1>3, <2>1 DEF Closed
  <2> HIDE DEF row
  <2> QED
    BY <2>2 DEF Saved, Closed
<1> HIDE DEF id, row, names
<1>5. models' \in [ModelIds -> Rows \cup {Unborn, Gone}]
  BY <1>1, <1>3, <1>4, RowWritten DEF SyncTyped
<1>6. worker' \in [Workers -> Jobs(Items, Rows)]
  BY <1>1, WorkerMoves DEF Jobs
<1> QED
  BY <1>1, <1>5, <1>6 DEF SyncTyped

(* The model of an edited config is read.                                  *)
LEMMA ReadModelOfTyped ==
    ASSUME NEW Items, NEW Rows, Closed(Items, Rows), SyncTyped(Items, Rows), NEW w \in Workers,
           ReadModelOf(w)
    PROVE  SyncTyped(Items, Rows)'
<1> DEFINE q == worker[w]
           id == q.copy.model
           names == Names \cup {models[id].name}
           row(name) == [models[id] EXCEPT !.name = name, !.enabled = TRUE]
           more(name) == [id |-> id, row |-> row(name)]
           p(name) == [x \in DOMAIN q \cup DOMAIN more(name) |->
                         IF x = "pc" THEN "save"
                         ELSE IF x \in DOMAIN q THEN q[x] ELSE more(name)[x]]
<1>1. /\ q.pc = "model" /\ UNCHANGED <<site, channels, models, configs, shown, edits>>
      /\ \/ In(models, id) /\ \E name \in names : Becomes(w, p(name))
         \/ Becomes(w, Idle)
  BY DEF ReadModelOf, SyncUnchanged, Goes
<1>2. q \in Edits(Rows)
  BY <1>1, JobAt
<1>3. q \in [pc : {"model"}, config : ConfigIds, copy : ConfigRow]
  BY <1>1, <1>2 DEF Edits
<1>4. id \in ModelIds
  BY <1>3 DEF ConfigRow
<1>5. ASSUME In(models, id), NEW name \in names PROVE p(name) \in Jobs(Items, Rows)
  <2>0. models[id] \in Rows
    <3> HIDE DEF id
    <3> QED
      BY <1>4, <1>5, RowRead
  <2>1. row(name) \in Rows
    <3> DEFINE old == models[id]
    <3>1. name \in STRING
      <4>1. old \in ModelRow
        BY <2>0 DEF Closed
      <4> HIDE DEF id, old
      <4>2. old.name \in STRING
        BY <4>1 DEF ModelRow
      <4> QED
        BY <4>2, SyncAssumption DEF old
    <3> HIDE DEF id
    <3> QED
      BY <2>0, <3>1 DEF Closed
  <2> HIDE DEF row, id
  <2>2. p(name) \in [pc : {"save"}, config : ConfigIds \cup {None}, copy : ConfigRow, id : ModelIds,
                     row : Rows]
    BY <1>3, <1>4, <2>1
  <2> HIDE DEF p
  <2>3. p(name) \in Edits(Rows)
    BY <2>2 DEF Edits
  <2> QED
    BY <2>3 DEF Jobs
<1> HIDE DEF p, names
<1>6. worker' \in [Workers -> Jobs(Items, Rows)]
  BY <1>1, <1>5, WorkerMoves DEF Jobs
<1> QED
  BY <1>1, <1>6 DEF SyncTyped

(* The model of a new config is inserted.                                  *)
LEMMA InsertModelOfTyped ==
    ASSUME NEW Items, NEW Rows, Closed(Items, Rows), SyncTyped(Items, Rows), NEW w \in Workers,
           NEW id \in ModelIds, InsertModelOf(w, id)
    PROVE  SyncTyped(Items, Rows)'
<1> DEFINE q == worker[w]
           p == [q EXCEPT !.pc = "config saved", !.copy.model = id]
<1>1. /\ q.pc = "new" /\ UNCHANGED <<site, channels, configs, shown, edits>>
      /\ (Becomes(w, Idle) /\ UNCHANGED models) \/ (Becomes(w, p) /\ Model(id, q.row))
  BY DEF InsertModelOf, SyncUnchanged
<1>2. q \in Edits(Rows)
  BY <1>1, JobAt
<1>3. q \in [pc : {"new"}, config : {None}, copy : NewConfig, row : Rows]
  BY <1>1, <1>2 DEF Edits
<1>4. p \in Jobs(Items, Rows)
  <2>1. q.copy \in NewConfig
    BY <1>3
  <2> DEFINE copy == [q.copy EXCEPT !.model = id]
  <2>2. copy \in ConfigRow
    BY <2>1 DEF NewConfig, ConfigRow
  <2>3. p = [q EXCEPT !.pc = "config saved", !.copy = copy]
    OBVIOUS
  <2> HIDE DEF copy, p
  <2>4. p \in [pc : {"config saved"}, config : {None}, copy : ConfigRow, row : Rows]
    BY <1>3, <2>2, <2>3
  <2>5. p \in Edits(Rows)
    BY <2>4 DEF Edits
  <2> QED
    BY <2>5 DEF Jobs
<1> HIDE DEF p
<1>5. worker' \in [Workers -> Jobs(Items, Rows)]
  BY <1>1, <1>4, WorkerMoves DEF Jobs
<1>6. models' \in [ModelIds -> Rows \cup {Unborn, Gone}]
  BY <1>1, <1>3, RowWritten DEF SyncTyped
<1> QED
  BY <1>1, <1>5, <1>6 DEF SyncTyped

(* The model of a config is saved.                                         *)
LEMMA SaveModelOfTyped ==
    ASSUME NEW Items, NEW Rows, Closed(Items, Rows), SyncTyped(Items, Rows), NEW w \in Workers,
           SaveModelOf(w)
    PROVE  SyncTyped(Items, Rows)'
<1> DEFINE q == worker[w]
           p == [x \in DOMAIN q \cup DOMAIN <<>> |->
                   IF x = "pc" THEN "config saved" ELSE IF x \in DOMAIN q THEN q[x] ELSE <<>>[x]]
<1>1. /\ q.pc = "save" /\ UNCHANGED <<site, channels, configs, shown, edits>>
      /\ (Becomes(w, Idle) /\ UNCHANGED models) \/ (Becomes(w, p) /\ Model(q.id, q.row))
  BY DEF SaveModelOf, SyncUnchanged, Goes
<1>2. q \in Edits(Rows)
  BY <1>1, JobAt
<1>3. q \in [pc : {"save"}, config : ConfigIds \cup {None}, copy : ConfigRow, id : ModelIds, row : Rows]
  BY <1>1, <1>2 DEF Edits
<1>4. p \in Jobs(Items, Rows)
  <2> DEFINE Configs == ConfigIds \cup {None}
  <2> HIDE DEF q, Configs
  <2>0. q \in [pc : {"save"}, config : Configs, copy : ConfigRow, id : ModelIds, row : Rows]
    BY <1>3 DEF Configs
  <2>1. p \in [pc : {"config saved"}, config : Configs, copy : ConfigRow, id : ModelIds, row : Rows]
    <3>1. DOMAIN q \cup DOMAIN <<>> = DOMAIN q /\ "pc" \in DOMAIN q
      BY <2>0
    <3>2. p = [q EXCEPT !.pc = "config saved"]
      BY <2>0, <3>1
    <3> HIDE DEF p
    <3> QED
      BY <2>0, <3>2
  <2> HIDE DEF p
  <2>2. p \in Edits(Rows)
    BY <2>1 DEF Edits, Configs
  <2> QED
    BY <2>2 DEF Jobs
<1> HIDE DEF p
<1>5. worker' \in [Workers -> Jobs(Items, Rows)]
  BY <1>1, <1>4, WorkerMoves DEF Jobs
<1>6. models' \in [ModelIds -> Rows \cup {Unborn, Gone}]
  BY <1>1, <1>3, RowWritten DEF SyncTyped
<1> QED
  BY <1>1, <1>5, <1>6 DEF SyncTyped

(* A config is saved by hand.                                              *)
LEMMA SaveConfigTyped ==
    ASSUME NEW Items, NEW Rows, Closed(Items, Rows), SyncTyped(Items, Rows), NEW w \in Workers,
           NEW k \in ConfigIds, SaveConfig(w, k)
    PROVE  SyncTyped(Items, Rows)'
<1> DEFINE q == worker[w]
<1>1. /\ q.pc = "config saved" /\ UNCHANGED <<site, channels, models, shown, edits>>
      /\ Becomes(w, Idle) /\ ModelConfig(k, Saved(configs, k, q.copy))
  BY DEF SaveConfig, SyncUnchanged
<1>2. q \in Edits(Rows)
  BY <1>1, JobAt
<1>3. Saved(configs, k, q.copy) \in ConfigRow
  <2> DEFINE copy == q.copy
  <2>1. copy \in ConfigRow
    BY <1>1, <1>2 DEF Edits
  <2> HIDE DEF copy
  <2>2. Saved(configs, k, copy) \in ConfigRow
    BY <2>1 DEF Saved, ConfigRow
  <2> QED
    BY <2>2 DEF copy
<1>4. worker' \in [Workers -> Jobs(Items, Rows)]
  BY <1>1, WorkerMoves DEF Jobs
<1>5. configs' \in [ConfigIds -> ConfigRow \cup {Unborn, Gone}]
  BY <1>1, <1>3, ConfigWritten
<1> QED
  BY <1>1, <1>4, <1>5 DEF SyncTyped

(* The type of the state, for every kind of items and rows that are made   *)
(* of each other.                                                          *)
LEMMA SyncStepTyped ==
    ASSUME NEW Items, NEW Rows, Closed(Items, Rows), SyncTyped(Items, Rows), [SyncNext]_syncVars
    PROVE  SyncTyped(Items, Rows)'
<1>1. ASSUME NEW w \in Workers, Syncing(w) PROVE SyncTyped(Items, Rows)'
  BY <1>1, FindTyped, InsertTyped, FindConfigTyped, UpdateConfigTyped, CreateConfigTyped,
     WritePricesTyped DEF Syncing
<1>2. ASSUME NEW w \in Workers, Editing(w) PROVE SyncTyped(Items, Rows)'
  BY <1>2, ReadTyped, UpdateModelTyped, ReadModelOfTyped, InsertModelOfTyped, SaveModelOfTyped,
     SaveConfigTyped DEF Editing
<1>3. \A w \in Handlers : w \in Workers
  BY DEF Workers
<1>4. CASE UNCHANGED syncVars
  BY <1>4 DEF syncVars, SyncTyped
<1> QED
  BY <1>1, <1>2, <1>3, <1>4, AppliesTyped, AdministersTyped, ReadTyped DEF SyncNext

(* Tables are empty and workers idle at first.                             *)
LEMMA SyncInitTyped ==
    ASSUME NEW Items, NEW Rows, SyncInit
    PROVE  SyncTyped(Items, Rows)
BY DEF SyncInit, SyncTyped, Jobs

-----------------------------------------------------------------------------
(* ModelSync is typed, and what is charged is what a list says.            *)

SoundItem == {item \in PricedItem : Costs(Written(item)) = Costs(item.meant)}

FairRow == {row \in ModelRow : row.book = row.meant \/ Costs(row.book) = Costs(row.meant)}

(* What is read of an upstream says what it means: the list, as it is read *)
(* and written, costs what it charges.  Runs check this of PriceLists.     *)
ListsSayWhatIsMeant == \A s \in Sites : s.items \in Seq(SoundItem)

(* What is written is a book whose tiers are stored ones.                  *)
LEMMA WrittenIsBook ==
    ASSUME NEW q, q.quota \in Quotas, q.price \in [TextUnits -> Int],
           q.tiers \in [TextUnits -> Seq(TierRow)]
    PROVE  /\ Written(q) \in Book
           /\ \A unit \in TextUnits : /\ q.tiers[unit] \in Seq(TierRow)
                                      /\ Written(q).tiers[unit] = NormalizePriceTiers(q.tiers[unit])
                                      /\ IsNormal(NormalizePriceTiers(q.tiers[unit]))
                                      /\ NormalizePriceTiers(NormalizePriceTiers(q.tiers[unit]))
                                           = NormalizePriceTiers(q.tiers[unit])
<1>1. \A unit \in TextUnits :
        /\ q.tiers[unit] \in Seq(TierRow)
        /\ IsNormal(NormalizePriceTiers(q.tiers[unit]))
  BY NormalizedIsNormal
<1>2. \A unit \in TextUnits : NormalizePriceTiers(q.tiers[unit]) \in Seq(TierRow)
  BY <1>1, NormalTiersAreRows DEF IsNormal
<1>3. \A unit \in TextUnits : NormalizePriceTiers(NormalizePriceTiers(q.tiers[unit]))
                                = NormalizePriceTiers(q.tiers[unit])
  BY <1>1, NormalizeIdempotent
<1> DEFINE tiers == [unit \in TextUnits |-> NormalizePriceTiers(q.tiers[unit])]
<1>4. tiers \in [TextUnits -> Seq(TierRow)]
  BY <1>2
<1>5. Written(q) = [quota |-> q.quota, price |-> q.price, tiers |-> tiers]
  BY DEF Written
<1>6. \A unit \in TextUnits : tiers[unit] = NormalizePriceTiers(q.tiers[unit])
  OBVIOUS
<1> HIDE DEF tiers
<1>7. Written(q) \in Book /\ Written(q).tiers = tiers
  BY <1>4, <1>5 DEF Book
<1> QED
  BY <1>1, <1>3, <1>6, <1>7

(* What is stored costs what it was made of.                               *)
LEMMA StoredCostsTheSame ==
    ASSUME NEW s, NEW t, t.quota = s.quota, t.video = s.video,
           \A unit \in Units : /\ t.price[unit] = s.price[unit]
                               /\ NormalizePriceTiers(t.tiers[unit]) = NormalizePriceTiers(s.tiers[unit]),
           NEW u
    PROVE  calculateModelUsageCost(u, <<>>, t) = calculateModelUsageCost(u, <<>>, s)
<1>1. /\ hasDedicatedPrice(t, "imageIn") = hasDedicatedPrice(s, "imageIn")
      /\ hasDedicatedPrice(t, "audioIn") = hasDedicatedPrice(s, "audioIn")
      /\ hasDedicatedPrice(t, "imageOut") = hasDedicatedPrice(s, "imageOut")
      /\ hasDedicatedPrice(t, "audioOut") = hasDedicatedPrice(s, "audioOut")
      /\ t.price["output"] = s.price["output"]
  <2>1. "imageIn" \in Units /\ "audioIn" \in Units /\ "imageOut" \in Units /\ "audioOut" \in Units
        /\ "output" \in Units
    BY DEF Units, InputUnits, OutputUnits
  <2> QED
    BY <2>1 DEF hasDedicatedPrice
<1>2. Parts(u, t) = Parts(u, s)
  BY <1>1 DEF Parts
<1> DEFINE parts == Parts(u, s)
           cost(sheet, unit) == CalculateTieredTokenCostWithMetrics(parts[unit], sheet.price[unit],
                                                                    sheet.tiers[unit], Metrics(u))
<1>3. ASSUME NEW unit \in Units PROVE cost(t, unit) = cost(s, unit)
  <2> DEFINE n == parts[unit]
             base == s.price[unit]
             p == t.tiers[unit]
             q == s.tiers[unit]
             tiers == NormalizePriceTiers(q)
             walked == FoldLeft(LAMBDA acc, tier : Segment(acc, tier, n),
                                [total |-> 0, min |-> 0, price |-> base], tiers)
             result == IF n <= 0 THEN 0
                       ELSE IF usesConditionalPriceTiers(tiers)
                            THEN n * conditionalTierPrice(base, tiers, n, Metrics(u))
                            ELSE walked.total + walked.price * (n - walked.min)
  <2>1. NormalizePriceTiers(p) = tiers /\ t.price[unit] = base
    BY <1>3
  <2> HIDE DEF n, base, p, q, tiers
  <2>2. CalculateTieredTokenCostWithMetrics(n, base, p, Metrics(u)) = result
    BY <2>1 DEF CalculateTieredTokenCostWithMetrics
  <2>3. CalculateTieredTokenCostWithMetrics(n, base, q, Metrics(u)) = result
    BY DEF CalculateTieredTokenCostWithMetrics, tiers
  <2> HIDE DEF result
  <2> QED
    BY <2>1, <2>2, <2>3 DEF n, p, q, base
<1>4. /\ calculateModelUsageCost(u, <<>>, t) =
           (CASE t.quota = "video" -> calculateVideoBillingCost(t.video, <<>>)
              [] t.quota = "item" -> Million * t.price["output"] * ItemCount(u)
              [] OTHER -> SumFunction([unit \in Units |-> cost(t, unit)]))
      /\ calculateModelUsageCost(u, <<>>, s) =
           (CASE s.quota = "video" -> calculateVideoBillingCost(s.video, <<>>)
              [] s.quota = "item" -> Million * s.price["output"] * ItemCount(u)
              [] OTHER -> SumFunction([unit \in Units |-> cost(s, unit)]))
  BY <1>2 DEF calculateModelUsageCost
<1> HIDE DEF cost
<1>5. [unit \in Units |-> cost(t, unit)] = [unit \in Units |-> cost(s, unit)]
  BY <1>3
<1> QED
  BY <1>1, <1>4, <1>5

(* A book costs the same before and after it is written.                   *)
LEMMA WrittenCosts ==
    ASSUME NEW q, q.quota \in Quotas, q.price \in [TextUnits -> Int],
           q.tiers \in [TextUnits -> Seq(TierRow)]
    PROVE  Costs(Written(q)) = Costs(q)
<1> DEFINE s == Sheet(q)
           t == Sheet(Written(q))
<1>0. \A unit \in TextUnits :
        /\ Written(q).tiers[unit] = NormalizePriceTiers(q.tiers[unit])
        /\ NormalizePriceTiers(NormalizePriceTiers(q.tiers[unit])) = NormalizePriceTiers(q.tiers[unit])
  BY WrittenIsBook
<1>1. /\ t.quota = s.quota /\ t.video = s.video
      /\ \A unit \in Units : t.price[unit] = s.price[unit]
  BY DEF Sheet, Written
<1>2. ASSUME NEW unit \in Units
      PROVE  NormalizePriceTiers(t.tiers[unit]) = NormalizePriceTiers(s.tiers[unit])
  <2>1. CASE unit \in TextUnits
    <3>1. s.tiers[unit] = q.tiers[unit] /\ t.tiers[unit] = Written(q).tiers[unit]
      BY <2>1 DEF Sheet
    <3>2. NormalizePriceTiers(Written(q).tiers[unit]) = NormalizePriceTiers(q.tiers[unit])
      BY <1>0, <2>1
    <3> HIDE DEF s, t
    <3> QED
      BY <3>1, <3>2
  <2>2. CASE unit \notin TextUnits
    BY <2>2 DEF Sheet
  <2> QED
    BY <2>1, <2>2
<1> HIDE DEF s, t
<1>3. \A u : calculateModelUsageCost(u, <<>>, t) = calculateModelUsageCost(u, <<>>, s)
  BY <1>1, <1>2, StoredCostsTheSame
<1> QED
  BY <1>3 DEF Costs, s, t

(* The fields of books and items.                                          *)
LEMMA FieldsOf ==
    /\ \A prices \in Book : /\ prices.quota \in Quotas /\ prices.price \in [TextUnits -> Int]
                          /\ prices.tiers \in [TextUnits -> Seq(TierRow)]
    /\ \A item \in PricedItem : /\ item.quota \in Quotas /\ item.price \in [TextUnits -> Int]
                                /\ item.tiers \in [TextUnits -> Seq(TierRow)]
                                /\ item.name \in STRING /\ item.meant \in Book
BY DEF Book, PricedItem

(* A new row.                                                              *)
LEMMA RowMade ==
    ASSUME NEW name \in STRING, NEW prices \in Book, NEW meant \in Book
    PROVE  /\ Row(name, prices, meant) \in ModelRow
           /\ Row(name, prices, meant).book = prices /\ Row(name, prices, meant).meant = meant
BY DEF Row, ModelRow

(* A row whose prices are replaced.                                        *)
LEMMA RowCharged ==
    ASSUME NEW row \in ModelRow, NEW prices \in Book, NEW meant \in Book
    PROVE  /\ [row EXCEPT !.book = prices, !.meant = meant] \in ModelRow
           /\ [row EXCEPT !.book = prices, !.meant = meant].book = prices
           /\ [row EXCEPT !.book = prices, !.meant = meant].meant = meant
BY DEF ModelRow

(* A row that is edited by hand.                                           *)
LEMMA RowEdited ==
    ASSUME NEW row \in ModelRow, NEW name \in STRING, NEW prices \in Book, NEW meant \in Book,
           NEW enabled \in BOOLEAN
    PROVE  LET edited == [row EXCEPT !.name = name, !.book = prices, !.meant = meant,
                                     !.enabled = enabled]
           IN edited \in ModelRow /\ edited.book = prices /\ edited.meant = meant
BY DEF ModelRow

(* What costs nothing is a book.                                           *)
LEMMA FreeIsBook == Free \in Book
BY DEF Free, Book, Quotas

(* Any items make rows.                                                    *)
LEMMA ItemsMakeRows == Closed(PricedItem, ModelRow)
<1>1. \A s \in Sites : s.items \in Seq(PricedItem)
  BY SyncAssumption
<1>2. /\ \A prices \in Books : prices \in Book /\ Written(prices) \in Book
      /\ \A item \in PricedItem : /\ item.name \in STRING /\ item.meant \in Book
                                  /\ Written(item) \in Book
  BY SyncAssumption, FieldsOf, WrittenIsBook
<1>3. \A name \in STRING : Row(name, Free, Free) \in ModelRow
  BY FreeIsBook DEF Row, ModelRow
<1>4. \A item \in PricedItem : Row(item.name, Written(item), item.meant) \in ModelRow
  BY <1>2 DEF Row, ModelRow
<1>5. \A name \in STRING, prices \in Books : Row(name, Written(prices), prices) \in ModelRow
  BY <1>2 DEF Row, ModelRow
<1>6. \A row \in ModelRow, item \in PricedItem :
        [row EXCEPT !.book = Written(item), !.meant = item.meant] \in ModelRow
  BY <1>2, RowCharged
<1>7. \A row \in ModelRow, name \in STRING, prices \in Books, enabled \in BOOLEAN :
        [row EXCEPT !.name = name, !.book = Written(prices), !.meant = prices, !.enabled = enabled]
          \in ModelRow
  BY <1>2, RowEdited
<1>8. /\ \A row \in ModelRow : [row EXCEPT !.enabled = TRUE] \in ModelRow
      /\ \A row \in ModelRow, name \in STRING : [row EXCEPT !.name = name, !.enabled = TRUE] \in ModelRow
  BY DEF ModelRow
<1> QED
  BY <1>1, <1>3, <1>4, <1>5, <1>6, <1>7, <1>8 DEF Closed

(* When a row charges what is meant.                                       *)
LEMMA FairIs ==
    ASSUME NEW row \in ModelRow, NEW prices, NEW meant, row.book = prices, row.meant = meant,
           prices = meant \/ Costs(prices) = Costs(meant)
    PROVE  row \in FairRow
BY DEF FairRow

(* Items that say what they mean make rows that charge it.                 *)
LEMMA FairItemsMakeFairRows ==
    ASSUME ListsSayWhatIsMeant
    PROVE  Closed(SoundItem, FairRow)
<1>1. \A s \in Sites : s.items \in Seq(SoundItem)
  BY DEF ListsSayWhatIsMeant
<1>2. /\ \A prices \in Books : prices \in Book /\ Written(prices) \in Book /\ Costs(Written(prices)) = Costs(prices)
      /\ \A item \in SoundItem : /\ item \in PricedItem /\ item.name \in STRING /\ item.meant \in Book
                                 /\ Written(item) \in Book /\ Costs(Written(item)) = Costs(item.meant)
  BY SyncAssumption, FieldsOf, WrittenIsBook, WrittenCosts DEF SoundItem
<1>3. ASSUME NEW name \in STRING
      PROVE  Row(name, Free, Free) \in FairRow
  <2>1. Row(name, Free, Free) \in ModelRow
    BY FreeIsBook DEF Row, ModelRow
  <2> QED
    BY <2>1 DEF FairRow, Row
<1>4. ASSUME NEW item \in SoundItem
      PROVE  Row(item.name, Written(item), item.meant) \in FairRow
  <2> DEFINE row == Row(item.name, Written(item), item.meant)
  <2>0. /\ item.name \in STRING /\ item.meant \in Book /\ Written(item) \in Book
        /\ Costs(Written(item)) = Costs(item.meant)
    BY <1>2
  <2>1. row \in ModelRow /\ row.book = Written(item) /\ row.meant = item.meant
    <3> DEFINE name == item.name
               prices == Written(item)
               meant == item.meant
    <3>1. name \in STRING /\ prices \in Book /\ meant \in Book /\ row = Row(name, prices, meant)
      BY <2>0
    <3> HIDE DEF row, name, prices, meant
    <3>2. row \in ModelRow /\ row.book = prices /\ row.meant = meant
      BY <3>1, RowMade
    <3> QED
      BY <3>2 DEF prices, meant
  <2> HIDE DEF row
  <2>2. row \in FairRow
    BY <2>0, <2>1, FairIs
  <2> QED
    BY <2>2 DEF row
<1>5. ASSUME NEW name \in STRING, NEW prices \in Books
      PROVE  Row(name, Written(prices), prices) \in FairRow
  <2> DEFINE row == Row(name, Written(prices), prices)
  <2>0. prices \in Book /\ Written(prices) \in Book /\ Costs(Written(prices)) = Costs(prices)
    BY <1>2
  <2>1. row \in ModelRow /\ row.book = Written(prices) /\ row.meant = prices
    BY <2>0, RowMade
  <2> HIDE DEF row
  <2>2. row \in FairRow
    BY <2>0, <2>1, FairIs
  <2> QED
    BY <2>2 DEF row
<1>6. ASSUME NEW old \in FairRow, NEW item \in SoundItem
      PROVE  [old EXCEPT !.book = Written(item), !.meant = item.meant] \in FairRow
  <2> DEFINE prices == Written(item)
             meant == item.meant
             row == [old EXCEPT !.book = prices, !.meant = meant]
  <2>1. /\ prices \in Book /\ meant \in Book /\ Costs(prices) = Costs(meant) /\ old \in ModelRow
    BY <1>2 DEF FairRow
  <2> HIDE DEF prices, meant
  <2>2. row \in ModelRow /\ row.book = prices /\ row.meant = meant
    BY <2>1 DEF ModelRow
  <2> HIDE DEF row
  <2>3. row \in FairRow
    BY <2>1, <2>2, FairIs
  <2> QED
    BY <2>3 DEF row, prices, meant
<1>7. ASSUME NEW old \in FairRow, NEW name \in STRING, NEW prices \in Books, NEW enabled \in BOOLEAN
      PROVE  [old EXCEPT !.name = name, !.book = Written(prices), !.meant = prices, !.enabled = enabled]
               \in FairRow
  <2> DEFINE written == Written(prices)
             row == [old EXCEPT !.name = name, !.book = written, !.meant = prices, !.enabled = enabled]
  <2>1. prices \in Book /\ written \in Book /\ Costs(written) = Costs(prices) /\ old \in ModelRow
    BY <1>2 DEF FairRow
  <2> HIDE DEF written
  <2>2. row \in ModelRow /\ row.book = written /\ row.meant = prices
    BY <2>1 DEF ModelRow
  <2> HIDE DEF row
  <2>3. row \in FairRow
    BY <2>1, <2>2, FairIs
  <2> QED
    BY <2>3 DEF row, written
<1>8. ASSUME NEW old \in FairRow, NEW name \in STRING
      PROVE  [old EXCEPT !.name = name, !.enabled = TRUE] \in FairRow
  <2> DEFINE row == [old EXCEPT !.name = name, !.enabled = TRUE]
  <2>1. old \in ModelRow /\ (old.book = old.meant \/ Costs(old.book) = Costs(old.meant))
    BY DEF FairRow
  <2>2. row \in ModelRow /\ row.book = old.book /\ row.meant = old.meant
    BY <2>1 DEF ModelRow
  <2> HIDE DEF row
  <2>3. row \in FairRow
    BY <2>1, <2>2, FairIs
  <2> QED
    BY <2>3 DEF row
<1>9. SoundItem \subseteq PricedItem /\ FairRow \subseteq ModelRow
  BY DEF SoundItem, FairRow
<1>10. ASSUME NEW old \in FairRow
       PROVE  [old EXCEPT !.enabled = TRUE] \in FairRow
  <2>1. old \in ModelRow
    BY <1>9
  <2>2. old.name \in STRING /\ [old EXCEPT !.enabled = TRUE] = [old EXCEPT !.name = old.name, !.enabled = TRUE]
    BY <2>1 DEF ModelRow
  <2> QED
    BY <1>8, <2>2
<1> QED
  BY <1>1, <1>3, <1>4, <1>5, <1>6, <1>7, <1>8, <1>9, <1>10 DEF Closed

(* Rows, configs and workers are what the tables and the handlers of the   *)
(* code hold, for every list an upstream may show.                         *)
THEOREM SyncIsTyped == SyncSpec => []SyncTyped(PricedItem, ModelRow)
<1>1. SyncInit => SyncTyped(PricedItem, ModelRow)
  BY SyncInitTyped
<1>2. SyncTyped(PricedItem, ModelRow) /\ [SyncNext]_syncVars => SyncTyped(PricedItem, ModelRow)'
  BY ItemsMakeRows, SyncStepTyped
<1> QED
  BY <1>1, <1>2, PTL DEF SyncSpec

(* Whoever writes the prices of a model at the same time, by hand or from  *)
(* lists that say what they mean, the model costs what the last of them    *)
(* meant: its columns are never a mixture.                                 *)
THEOREM PricesAreAsListed ==
    ASSUME ListsSayWhatIsMeant
    PROVE  SyncSpec => []PricedAsListed
<1>1. Closed(SoundItem, FairRow)
  BY FairItemsMakeFairRows
<1>2. SyncInit => SyncTyped(SoundItem, FairRow)
  BY SyncInitTyped
<1>3. SyncTyped(SoundItem, FairRow) /\ [SyncNext]_syncVars => SyncTyped(SoundItem, FairRow)'
  BY <1>1, SyncStepTyped
<1>4. SyncTyped(SoundItem, FairRow) => PricedAsListed
  <2> SUFFICES ASSUME SyncTyped(SoundItem, FairRow), NEW id \in ModelIds, In(models, id)
               PROVE  models[id].book = models[id].meant \/ Costs(models[id].book) = Costs(models[id].meant)
    BY DEF PricedAsListed
  <2>1. models[id] \in FairRow
    BY RowRead
  <2> QED
    BY <2>1 DEF FairRow
<1> QED
  BY <1>2, <1>3, <1>4, PTL DEF SyncSpec

-----------------------------------------------------------------------------
(* Names.  A worker that has found or made a model for its item has a row  *)
(* of the item's name, whatever becomes of the model.                      *)
Serves(w) == worker[w].pc \in {"config", "create", "update"} => worker[w].row.name = Item_(w).name

NamesAgree == \A w \in Workers : Serves(w)

Typed == SyncTyped(PricedItem, ModelRow)

(* What may happen to a worker.                                            *)
Moves(w) == Serves(w)' /\ \A v \in Workers : v # w => worker'[v] = worker[v]

(* A worker that knows what it has keeps the invariant.                    *)
LEMMA NamesCarried ==
    ASSUME NamesAgree, NEW w \in Workers, Moves(w)
    PROVE  NamesAgree'
<1> SUFFICES ASSUME NEW v \in Workers PROVE Serves(v)'
  BY DEF NamesAgree
<1>1. CASE v = w
  BY <1>1 DEF Moves
<1>2. CASE v # w
  <2>1. worker'[v] = worker[v] /\ Serves(v)
    BY <1>2 DEF NamesAgree, Moves
  <2> QED
    BY <2>1 DEF Serves, Item_
<1> QED
  BY <1>1, <1>2

(* Elsewhere there is nothing it has to know.                              *)
LEMMA LetsGo ==
    ASSUME NEW w \in Workers,
           \/ worker'[w] = Idle
           \/ worker'[w].pc \in {"find", "insert", "prices", "edit", "save", "new", "model", "config saved"},
           \A v \in Workers : v # w => worker'[v] = worker[v]
    PROVE  Moves(w)
<1>1. Idle.pc = "idle"
  BY DEF Idle
<1> DEFINE pc == worker'[w].pc
<1>2. pc \in {"idle", "find", "insert", "prices", "edit", "save", "new", "model", "config saved"}
  BY <1>1
<1>3. pc \notin {"config", "create", "update"}
  <2> HIDE DEF pc
  <2> QED
    BY <1>2
<1> QED
  BY <1>3 DEF Moves, Serves

(* One worker changes, the others do not.                                  *)
LEMMA Stops ==
    ASSUME Typed, NEW w \in Workers, NEW q, Becomes(w, q)
    PROVE  worker'[w] = q /\ \A v \in Workers : v # w => worker'[v] = worker[v]
BY DEF Typed, SyncTyped, Becomes

(* A row is neither unborn nor gone.                                       *)
LEMMA RowsAreThere ==
    \A row \in ModelRow : row # Unborn /\ row # Gone
BY SyncAssumption

(* A worker that looks a model up knows its name.                          *)
LEMMA FindNamed ==
    ASSUME Typed, NEW w \in Workers, FindModel(w)
    PROVE  Moves(w)
<1> DEFINE q == worker[w]
<1>1. q.pc = "find"
  BY DEF FindModel
<1>2. q \in Looks(PricedItem)
  BY <1>1, JobAt DEF Typed
<1>3. ASSUME Goes(w, "insert", <<>>) PROVE Moves(w)
  <2> DEFINE p == [x \in DOMAIN q \cup DOMAIN <<>> |->
                     IF x = "pc" THEN "insert" ELSE IF x \in DOMAIN q THEN q[x] ELSE <<>>[x]]
  <2>1. Becomes(w, p)
    BY <1>3 DEF Goes
  <2>2. p.pc = "insert"
    BY <1>2 DEF Looks
  <2> HIDE DEF p
  <2> QED
    BY <2>1, <2>2, Stops, LetsGo
<1>4. ASSUME NEW id \in Named(Item_(w).name),
             Goes(w, IF q.kind = "models" THEN "config" ELSE "prices", [id |-> id, row |-> models[id]])
      PROVE  Moves(w)
  <2> DEFINE row == models[id]
             to == IF q.kind = "models" THEN "config" ELSE "prices"
             more == [id |-> id, row |-> row]
             p == [x \in DOMAIN q \cup DOMAIN more |->
                     IF x = "pc" THEN to ELSE IF x \in DOMAIN q THEN q[x] ELSE more[x]]
  <2>1. Becomes(w, p)
    BY <1>4 DEF Goes
  <2>2. row.name = Item_(w).name
    BY DEF Named
  <2> HIDE DEF row, to
  <2>3. p.row = row /\ p.todo = q.todo
    BY <1>2 DEF Looks
  <2> HIDE DEF p
  <2>4. worker'[w] = p /\ \A v \in Workers : v # w => worker'[v] = worker[v]
    BY <2>1, Stops
  <2>5. Item_(w)' = Item_(w)
    BY <2>3, <2>4 DEF Item_
  <2> QED
    BY <2>2, <2>3, <2>4, <2>5 DEF Moves, Serves
<1> QED
  BY <1>3, <1>4 DEF FindModel

(* A worker that inserts a model knows its name.                           *)
LEMMA InsertNamed ==
    ASSUME Typed, NEW w \in Workers, NEW id \in ModelIds, InsertModel(w, id)
    PROVE  Moves(w)
<1> DEFINE q == worker[w]
           row == IF q.kind = "models" THEN Row(Item_(w).name, Free, Free)
                  ELSE Row(Item_(w).name, Written(Item_(w)), Item_(w).meant)
<1>1. q.pc = "insert"
  BY DEF InsertModel
<1>2. q \in Looks(PricedItem)
  BY <1>1, JobAt DEF Typed
<1>3. row.name = Item_(w).name
  BY DEF Row
<1>4. CASE Becomes(w, Idle)
  BY <1>4, Stops, LetsGo
<1>5. CASE Goes(w, "config", [id |-> id, row |-> row])
  <2> DEFINE more == [id |-> id, row |-> row]
             p == [x \in DOMAIN q \cup DOMAIN more |->
                     IF x = "pc" THEN "config" ELSE IF x \in DOMAIN q THEN q[x] ELSE more[x]]
  <2>1. Becomes(w, p)
    BY <1>5 DEF Goes
  <2> HIDE DEF row
  <2>2. p.row = row /\ p.todo = q.todo
    BY <1>2 DEF Looks
  <2> HIDE DEF p
  <2>3. worker'[w] = p /\ \A v \in Workers : v # w => worker'[v] = worker[v]
    BY <2>1, Stops
  <2>4. Item_(w)' = Item_(w)
    BY <2>2, <2>3 DEF Item_
  <2> QED
    BY <1>3, <2>2, <2>3, <2>4 DEF Moves, Serves, row
<1>6. CASE NextItem(w)
  BY <1>2, <1>6, NextIsTyped, LetsGo DEF Typed
<1> QED
  BY <1>4, <1>5, <1>6 DEF InsertModel

(* A worker that looks for the config keeps the row it has.                *)
LEMMA FindConfigNamed ==
    ASSUME Typed, NamesAgree, NEW w \in Workers, FindConfig(w)
    PROVE  Moves(w)
<1> DEFINE q == worker[w]
           Found == [pc : {"config", "create"}, kind : {"models"}, channel : Channels,
                     todo : Some(NamedItem), id : ModelIds, row : ModelRow]
<1>1. q.pc = "config"
  BY DEF FindConfig
<1>2. q \in Configures(ModelRow)
  BY <1>1, JobAt DEF Typed
<1>3. q \in Found
  BY <1>1, <1>2 DEF Configures
<1>4. ASSUME NEW to, NEW more, Goes(w, to, more) PROVE Moves(w)
  <2> DEFINE p == [x \in DOMAIN q \cup DOMAIN more |->
                     IF x = "pc" THEN to ELSE IF x \in DOMAIN q THEN q[x] ELSE more[x]]
  <2>1. Becomes(w, p)
    BY <1>4 DEF Goes
  <2>2. p.row = q.row /\ p.todo = q.todo
    BY <1>3
  <2> HIDE DEF p
  <2>3. worker'[w] = p /\ \A v \in Workers : v # w => worker'[v] = worker[v]
    BY <2>1, Stops
  <2>4. Item_(w)' = Item_(w)
    BY <2>2, <2>3 DEF Item_
  <2>5. q.row.name = Item_(w).name
    BY <1>1 DEF NamesAgree, Serves
  <2> QED
    BY <2>2, <2>3, <2>4, <2>5 DEF Moves, Serves
<1> QED
  BY <1>4 DEF FindConfig

(* A worker that is done with an item goes on to the next.                 *)
LEMMA DoneNamed ==
    ASSUME Typed, NEW w \in Workers,
           UpdateConfig(w) \/ (\E k \in ConfigIds : CreateConfig(w, k)) \/ WritePrices(w)
    PROVE  Moves(w)
<1>1. worker[w].pc \in {"update", "create", "prices"} /\ NextItem(w)
  BY DEF UpdateConfig, CreateConfig, WritePrices
<1>2. worker[w] \in Configures(ModelRow) \/ worker[w] \in Repricings(PricedItem, ModelRow)
  BY <1>1, JobAt DEF Typed
<1> QED
  BY <1>1, <1>2, NextIsTyped, LetsGo DEF Typed

(* A synchronisation begins.                                               *)
LEMMA AppliesNamed ==
    ASSUME Typed, NEW w \in Workers, NEW c \in Channels,
           SyncChannel(w, c) \/ (\E name \in Names : ApplySync(w, c, name)) \/ ApplyPriceSync(w, c)
    PROVE  Moves(w)
<1>1. PICK kind, items : Sync(w, kind, c, items)
  BY DEF SyncChannel, ApplySync, ApplyChannelModels, ApplyPriceSync, ApplyGlobalModelPrices
<1> DEFINE q == IF items = <<>> THEN Idle
                ELSE [pc |-> "find", kind |-> kind, channel |-> c, todo |-> items]
<1>2. Becomes(w, q) /\ (q = Idle \/ q.pc = "find")
  BY <1>1 DEF Sync
<1> HIDE DEF q
<1> QED
  BY <1>2, Stops, LetsGo

(* Handlers of one statement.                                              *)
LEMMA AdministersNamed ==
    ASSUME \/ \E c \in Channels : PreviewPrices(c)
           \/ \E id \in ModelIds, name \in Names, prices \in Books : CreateModel(id, name, prices)
           \/ \E id \in ModelIds : DeleteModel(id)
           \/ \E k \in ConfigIds : DeleteChannelModel(k)
           \/ \E c \in Channels, to \in {"on", "off", None} : SetChannel(c, to)
    PROVE  worker' = worker
BY DEF PreviewPrices, CreateModel, DeleteModel, DeleteChannelModel, SetChannel

(* Handlers that read and save what synchronisations have to do with, and  *)
(* whatever stops.                                                         *)
LEMMA EditsNamed ==
    ASSUME Typed, NEW w \in Workers, Editing(w) \/ Fail(w)
    PROVE  Moves(w)
<1> DEFINE pcs == {"edit", "save", "new", "model", "config saved"}
<1> SUFFICES \E q : Becomes(w, q) /\ (q = Idle \/ q.pc \in pcs)
  BY Stops, LetsGo
<1>1. ASSUME NEW id \in ModelIds, ReadModel(w, id)
      PROVE  \E q : Becomes(w, q) /\ q.pc \in pcs
  <2> DEFINE q == [pc |-> "edit", id |-> id, row |-> models[id]]
  <2>1. Becomes(w, q) /\ q.pc = "edit"
    BY <1>1 DEF ReadModel
  <2> HIDE DEF q
  <2> QED
    BY <2>1
<1>2. ASSUME NEW c \in Channels, NEW name \in Names, CreateChannelModel(w, c, name)
      PROVE  \E q : Becomes(w, q) /\ q.pc \in pcs
  <2> DEFINE fresh == [pc |-> "new", config |-> None, copy |-> Config(c, 0, name),
                       row |-> Row(name, Free, Free)]
             known(id) == [pc |-> "save", config |-> None, copy |-> Config(c, id, name), id |-> id,
                           row |-> [models[id] EXCEPT !.name = name, !.enabled = TRUE]]
  <2>1. Becomes(w, fresh) \/ \E id \in ModelIds : Becomes(w, known(id))
    BY <1>2 DEF CreateChannelModel
  <2>2. fresh.pc = "new" /\ \A id : known(id).pc = "save"
    OBVIOUS
  <2> HIDE DEF fresh, known
  <2> QED
    BY <2>1, <2>2
<1>3. ASSUME NEW k \in ConfigIds, NEW id \in ModelIds, NEW enabled \in BOOLEAN,
             UpdateChannelModel(w, k, id, enabled)
      PROVE  \E q : Becomes(w, q) /\ q.pc \in pcs
  <2> DEFINE q == [pc |-> "model", config |-> k,
                   copy |-> [configs[k] EXCEPT !.model = id, !.enabled = enabled]]
  <2>1. Becomes(w, q) /\ q.pc = "model"
    BY <1>3 DEF UpdateChannelModel
  <2> HIDE DEF q
  <2> QED
    BY <2>1
<1>4. ASSUME NEW to \in pcs, NEW more, Goes(w, to, more), worker[w] \in Edits(ModelRow)
      PROVE  \E q : Becomes(w, q) /\ q.pc \in pcs
  <2> DEFINE q == worker[w]
             p == [x \in DOMAIN q \cup DOMAIN more |->
                     IF x = "pc" THEN to ELSE IF x \in DOMAIN q THEN q[x] ELSE more[x]]
  <2>1. Becomes(w, p)
    BY <1>4 DEF Goes
  <2>2. "pc" \in DOMAIN q
    BY <1>4 DEF Edits
  <2>3. p.pc = to
    BY <2>2
  <2> HIDE DEF p
  <2> QED
    BY <2>1, <2>3
<1>5. CASE ReadModelOf(w) \/ SaveModelOf(w)
  <2>1. worker[w] \in Edits(ModelRow)
    BY <1>5, JobAt DEF ReadModelOf, SaveModelOf, Typed
  <2>2. Becomes(w, Idle) \/ (\E more : Goes(w, "save", more)) \/ \E more : Goes(w, "config saved", more)
    BY <1>5 DEF ReadModelOf, SaveModelOf
  <2> QED
    BY <1>4, <2>1, <2>2
<1>6. ASSUME NEW id \in ModelIds, InsertModelOf(w, id)
      PROVE  \E q : Becomes(w, q) /\ (q = Idle \/ q.pc \in pcs)
  <2> DEFINE q == worker[w]
             p == [q EXCEPT !.pc = "config saved", !.copy.model = id]
  <2>1. q.pc = "new" /\ (Becomes(w, Idle) \/ Becomes(w, p))
    BY <1>6 DEF InsertModelOf
  <2>2. q \in Edits(ModelRow)
    BY <2>1, JobAt DEF Typed
  <2>3. q \in [pc : {"new"}, config : {None}, copy : NewConfig, row : ModelRow]
    BY <2>1, <2>2 DEF Edits
  <2>4. p.pc = "config saved"
    BY <2>3
  <2> HIDE DEF p
  <2> QED
    BY <2>1, <2>4
<1>7. ASSUME (\E k \in ConfigIds : SaveConfig(w, k)) \/ Fail(w)
               \/ \E prices \in Books, enabled \in BOOLEAN : UpdateModel(w, prices, enabled)
      PROVE  Becomes(w, Idle)
  BY <1>7 DEF SaveConfig, Fail, UpdateModel
<1> QED
  BY <1>1, <1>2, <1>3, <1>5, <1>6, <1>7 DEF Editing

(* Who moves in a step.                                                    *)
LEMMA SyncMoves ==
    ASSUME Typed, NamesAgree, SyncNext
    PROVE  worker' = worker \/ \E w \in Workers : Moves(w)
<1>1. ASSUME NEW w \in Workers, Syncing(w)
      PROVE  Moves(w)
  BY <1>1, FindNamed, InsertNamed, FindConfigNamed, DoneNamed DEF Syncing
<1>2. \A w \in Handlers : w \in Workers
  BY DEF Workers
<1> QED
  BY <1>1, <1>2, AppliesNamed, AdministersNamed, EditsNamed DEF SyncNext

(* Every step keeps the names.                                             *)
LEMMA NamesStay ==
    ASSUME Typed, NamesAgree, [SyncNext]_syncVars
    PROVE  NamesAgree'
<1>1. worker' = worker => NamesAgree'
  BY DEF NamesAgree, Serves, Item_
<1> QED
  BY <1>1, NamesCarried, SyncMoves DEF syncVars

(* The only step by which a worker that is about to create a config moves  *)
(* and a config appears is the one that creates it.                        *)
LEMMA ConfigsAppear ==
    ASSUME Typed, NamesAgree, SyncNext, NEW w \in Workers, worker[w].pc = "create",
           worker'[w] # worker[w], configs' # configs
    PROVE  \E k \in ConfigIds : CreateConfig(w, k)
<1>1. ASSUME NEW v \in Workers, Syncing(v)
      PROVE  UpdateConfig(v) \/ \E k \in ConfigIds : CreateConfig(v, k)
  BY <1>1 DEF Syncing, FindModel, InsertModel, FindConfig, WritePrices
<1>2. ASSUME NEW v \in Workers, Editing(v)
      PROVE  \E k \in ConfigIds : SaveConfig(v, k)
  BY <1>2 DEF Editing, ReadModel, InsertModelOf, UpdateModel, CreateChannelModel,
              UpdateChannelModel, ReadModelOf, SaveModelOf
<1>3. ASSUME NEW v \in Workers, NEW c \in Channels
      PROVE  ~(SyncChannel(v, c) \/ (\E name \in Names : ApplySync(v, c, name)) \/ ApplyPriceSync(v, c))
  BY DEF SyncChannel, ApplySync, ApplyPriceSync
<1>4. ASSUME NEW v \in Workers, Fail(v) PROVE FALSE
  BY <1>4 DEF Fail
<1>5. ASSUME NEW v \in Workers, Moves(v)
      PROVE  v = w
  BY <1>5 DEF Moves
<1>6. ASSUME NEW v \in Workers, UpdateConfig(v) \/ \E k \in ConfigIds : CreateConfig(v, k)
      PROVE  \E k \in ConfigIds : CreateConfig(w, k)
  <2>1. Moves(v)
    BY <1>6, DoneNamed
  <2>2. v = w
    BY <1>5, <2>1
  <2> QED
    BY <1>6, <2>2 DEF UpdateConfig
<1>7. ASSUME NEW v \in Workers, NEW k \in ConfigIds, SaveConfig(v, k) PROVE FALSE
  <2>1. v = w
    BY <1>5, <1>7, EditsNamed DEF Editing
  <2> QED
    BY <1>7, <2>1 DEF SaveConfig
<1>8. ~(\/ \E c \in Channels : PreviewPrices(c)
        \/ \E id \in ModelIds, name \in Names, prices \in Books : CreateModel(id, name, prices)
        \/ \E id \in ModelIds : DeleteModel(id)
        \/ \E k \in ConfigIds : DeleteChannelModel(k)
        \/ \E c \in Channels, to \in {"on", "off", None} : SetChannel(c, to))
  BY AdministersNamed
<1>9. \A v \in Handlers : v \in Workers
  BY DEF Workers
<1> QED
  BY <1>1, <1>2, <1>3, <1>4, <1>6, <1>7, <1>8, <1>9 DEF SyncNext

(* It creates a config whose model is there, or whose name is taken.       *)
LEMMA CreatedHasModel ==
    ASSUME Typed, NamesAgree, NEW w \in Workers, NEW j \in ConfigIds, CreateConfig(w, j),
           NEW k \in ConfigIds, In(configs', k), ~In(configs, k)
    PROVE  \E id \in ModelIds :
             In(models', id) /\ (id = configs'[k].model \/ models'[id].name = configs'[k].upstream)
<1> DEFINE q == worker[w]
           name == Item_(w).name
<1>1. /\ q.pc = "create" /\ models' = WithModel(q)
      /\ configs' = [configs EXCEPT ![j] = Config(q.channel, q.id, name)]
  BY DEF CreateConfig, ModelConfig
<1>2. k = j /\ configs'[k].upstream = name /\ configs'[k].model = q.id
  <2>1. \A i \in ConfigIds : i # j => configs'[i] = configs[i]
    BY <1>1 DEF Typed, SyncTyped
  <2>2. configs'[j] = Config(q.channel, q.id, name)
    BY <1>1 DEF Typed, SyncTyped
  <2>3. k = j
    BY <2>1 DEF In
  <2> QED
    BY <2>2, <2>3 DEF Config
<1>3. q.id \in ModelIds /\ q.row \in ModelRow
  <2>1. q \in Configures(ModelRow)
    BY <1>1, JobAt DEF Typed
  <2> QED
    BY <2>1 DEF Configures
<1>4. q.row.name = name
  BY <1>1 DEF NamesAgree, Serves
<1> HIDE DEF name
<1>5. CASE In(models, q.id)
  BY <1>1, <1>2, <1>3, <1>5 DEF WithModel
<1>6. CASE ~In(models, q.id) /\ Named(q.row.name) # {}
  <2>1. PICK id \in Named(q.row.name) : TRUE
    BY <1>6
  <2>2. id \in ModelIds /\ In(models, id) /\ models[id].name = name
    BY <1>4, <2>1 DEF Named
  <2>3. models' = models
    BY <1>1, <1>6 DEF WithModel
  <2> QED
    BY <1>2, <2>2, <2>3
<1>7. CASE ~In(models, q.id) /\ ~(Named(q.row.name) # {})
  <2> DEFINE id == q.id
             row == q.row
  <2>1. models' = [models EXCEPT ![id] = row]
    BY <1>1, <1>7 DEF WithModel
  <2> HIDE DEF id, row
  <2>2. models'[id] = row
    BY <1>3, <2>1 DEF Typed, SyncTyped, id
  <2>3. In(models', id)
    BY <1>3, <2>2, RowsAreThere DEF In, row
  <2> QED
    BY <1>2, <1>3, <2>3 DEF id
<1> QED
  BY <1>5, <1>6, <1>7

(* Models are renamed, deleted and inserted while a synchronisation is     *)
(* between its statements; the config it creates is never one of a model   *)
(* that is not there, unless another row has taken the model's name.       *)
THEOREM SyncedConfigsAreServed == SyncSpec => SyncedConfigsHaveModels
<1>1. SyncInit => Typed /\ NamesAgree
  <2>1. SyncInit => Typed
    BY SyncInitTyped DEF Typed
  <2>2. SyncInit => NamesAgree
    BY DEF SyncInit, NamesAgree, Serves, Idle
  <2> QED
    BY <2>1, <2>2
<1>2. Typed /\ NamesAgree /\ [SyncNext]_syncVars => (Typed /\ NamesAgree)'
  <2>1. Typed /\ [SyncNext]_syncVars => Typed'
    BY ItemsMakeRows, SyncStepTyped DEF Typed
  <2> QED
    BY <2>1, NamesStay
<1>3. Typed /\ NamesAgree /\ [SyncNext]_syncVars => [\A w \in Workers : KeepsModels(w)]_syncVars
  <2> SUFFICES ASSUME Typed, NamesAgree, SyncNext, NEW w \in Workers, NEW k \in ConfigIds,
                      In(configs', k), ~In(configs, k), worker[w].pc = "create", worker'[w] # worker[w]
               PROVE  \E id \in ModelIds :
                        In(models', id)
                          /\ (id = configs'[k].model \/ models'[id].name = configs'[k].upstream)
    BY DEF KeepsModels
  <2>1. configs' # configs
    BY DEF In
  <2>2. PICK j \in ConfigIds : CreateConfig(w, j)
    BY <2>1, ConfigsAppear
  <2> QED
    BY <2>2, CreatedHasModel
<1> QED
  BY <1>1, <1>2, <1>3, PTL DEF SyncSpec, SyncedConfigsHaveModels
=============================================================================
