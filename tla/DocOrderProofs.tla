--------------------------- MODULE DocOrderProofs ---------------------------
(***************************************************************************)
(* The collector's comparison is a strict total order on documents of      *)
(* distinct indices, for every comparison that is a total preorder, while  *)
(* the identifiers lie within half of their range; beyond it is no order.  *)
(***************************************************************************)
EXTENDS DocOrder, Sequences, FiniteSetTheorems, SequenceTheorems, WellFoundedInduction, TLAPS

(***************************************************************************)
(* Within the window the tie breaker `d1 - d2' of WrapDifferFn and         *)
(* compareByRange is the integer difference: the conversion loses nothing. *)
(***************************************************************************)
LEMMA SignedDiffExact ==
  ASSUME NEW d1 \in DocIds, NEW d2 \in DocIds
  PROVE  SignedDiff(d1, d2) = d1 - d2
<1>1. /\ d1 \in Int /\ d2 \in Int /\ Half \in Nat
      /\ ~ (d1 - d2 >= Half)
      /\ ~ (d1 - d2 < -Half)
  <2>1. d1 \in Int /\ d2 \in Int /\ Half \in Nat
    BY DocIdsAssumption, HalfAssumption DEF NoDoc
  <2>2. d1 - d2 < Half /\ d2 - d1 < Half
    BY WindowAssumption
  <2> QED  BY <2>1, <2>2
<1> QED  BY <1>1 DEF SignedDiff

\* What the proofs use of a document's index.
LEMMA DocIdsAreInts == DocIds \subseteq Int /\ NoDoc \notin DocIds /\ \A d \in DocIds : d > 0
BY DocIdsAssumption, HalfAssumption DEF NoDoc

(***************************************************************************)
(* Before, which ranks the documents of a collector, is irreflexive,       *)
(* transitive and total between documents of distinct indices.             *)
(***************************************************************************)
LEMMA BeforeIrreflexive ==
  ASSUME NEW a \in Entity
  PROVE  ~ Before(a, a)
<1>1. Differ(a, a) \in Int /\ (Differ(a, a) < 0 <=> Differ(a, a) > 0)
  BY DifferAssumption
<1>2. Differ(a, a) = 0
  BY <1>1
<1>3. a.id \in DocIds /\ a.id \in Int
  BY DocIdsAreInts DEF Entity
<1>4. SignedDiff(a.id, a.id) = 0
  BY <1>3, SignedDiffExact
<1> QED  BY <1>2, <1>4 DEF Before, Compare

LEMMA BeforeTransitive ==
  ASSUME NEW a \in Entity, NEW b \in Entity, NEW c \in Entity,
         Before(a, b), Before(b, c)
  PROVE  Before(a, c)
<1>1. /\ a.id \in DocIds /\ b.id \in DocIds /\ c.id \in DocIds
      /\ a.id \in Int /\ b.id \in Int /\ c.id \in Int
  BY DocIdsAreInts DEF Entity
<1>2. /\ SignedDiff(a.id, b.id) = a.id - b.id
      /\ SignedDiff(b.id, c.id) = b.id - c.id
      /\ SignedDiff(a.id, c.id) = a.id - c.id
  BY <1>1, SignedDiffExact
<1>3. /\ Differ(a, b) \in Int /\ Differ(b, c) \in Int /\ Differ(a, c) \in Int
      /\ Differ(b, a) \in Int /\ Differ(c, b) \in Int /\ Differ(c, a) \in Int
      /\ Differ(a, b) < 0 <=> Differ(b, a) > 0
      /\ Differ(b, c) < 0 <=> Differ(c, b) > 0
      /\ Differ(a, c) < 0 <=> Differ(c, a) > 0
      /\ Differ(b, a) < 0 <=> Differ(a, b) > 0
      /\ Differ(c, b) < 0 <=> Differ(b, c) > 0
      /\ Differ(c, a) < 0 <=> Differ(a, c) > 0
  BY DifferAssumption
<1>4. /\ Differ(a, b) <= 0 /\ Differ(b, c) <= 0 => Differ(a, c) <= 0
      /\ Differ(b, c) <= 0 /\ Differ(c, a) <= 0 => Differ(b, a) <= 0
      /\ Differ(c, a) <= 0 /\ Differ(a, b) <= 0 => Differ(c, b) <= 0
  BY DifferAssumption
<1> QED  BY <1>1, <1>2, <1>3, <1>4 DEF Before, Compare

LEMMA BeforeTotal ==
  ASSUME NEW a \in Entity, NEW b \in Entity, a.id # b.id
  PROVE  Before(a, b) <=> ~ Before(b, a)
<1>1. a.id \in DocIds /\ b.id \in DocIds /\ a.id \in Int /\ b.id \in Int
  BY DocIdsAreInts DEF Entity
<1>2. /\ SignedDiff(a.id, b.id) = a.id - b.id
      /\ SignedDiff(b.id, a.id) = b.id - a.id
  BY <1>1, SignedDiffExact
<1>3. /\ Differ(a, b) \in Int /\ Differ(b, a) \in Int
      /\ Differ(a, b) < 0 <=> Differ(b, a) > 0
      /\ Differ(b, a) < 0 <=> Differ(a, b) > 0
  BY DifferAssumption
<1> QED  BY <1>1, <1>2, <1>3 DEF Before, Compare

\* A buffer without duplicates holds as many documents as it is long.
LEMMA SizeOfDistinct ==
  ASSUME NEW buf \in Seq(Entity),
         \A p, q \in 1 .. Len(buf) : buf[p] = buf[q] => p = q
  PROVE  LET held == {buf[p] : p \in 1 .. Len(buf)}
         IN  IsFiniteSet(held) /\ Cardinality(held) = Len(buf)
<1> DEFINE held == {buf[p] : p \in 1 .. Len(buf)}
<1>1. Len(buf) \in Nat /\ buf \in [1 .. Len(buf) -> held] /\ DOMAIN buf = 1 .. Len(buf)
  BY LenProperties
<1>2. IsInjective(buf)
  BY <1>1 DEF IsInjective
<1>3. \A e \in held : \E p \in 1 .. Len(buf) : buf[p] = e
  OBVIOUS
<1>4. buf \in Bijection(1 .. Len(buf), held)
  BY <1>1, <1>2, <1>3 DEF Bijection, Injection, Surjection
<1>5. ExistsBijection(1 .. Len(buf), held)
  BY <1>4 DEF ExistsBijection
<1> HIDE DEF held
<1>6. IsFiniteSet(held) /\ Cardinality(held) = Len(buf)
  BY <1>1, <1>5, FS_NatBijection, FS_CountingElements
<1> QED  BY <1>6 DEF held

\* Of documents with different identifiers only one choice is the best `limit'.
LEMMA BestIsOne ==
  ASSUME NEW limit \in Nat, NEW all, all \subseteq Entity, IsFiniteSet(all),
         \A e, f \in all : e.id = f.id => e = f,
         NEW A, A \subseteq all, Cardinality(A) <= limit, A = all \/ Cardinality(A) = limit,
         \A e \in A : \A f \in all \ A : Before(e, f),
         NEW B, B \subseteq all, Cardinality(B) <= limit, B = all \/ Cardinality(B) = limit,
         \A e \in B : \A f \in all \ B : Before(e, f)
  PROVE  A = B
<1>1. /\ IsFiniteSet(A) /\ Cardinality(A) \in Nat
      /\ IsFiniteSet(B) /\ Cardinality(B) \in Nat
  BY FS_Subset, FS_CardinalityType
<1>2. \A e \in A \ B : \A f \in B \ A : FALSE
  <2> SUFFICES ASSUME NEW e \in A \ B, NEW f \in B \ A PROVE FALSE
    OBVIOUS
  <2>1. Before(e, f) /\ Before(f, e) /\ e \in Entity /\ f \in Entity
    OBVIOUS
  <2> QED  BY <2>1, BeforeTransitive, BeforeIrreflexive
<1>3. CASE A \subseteq B
  <2>1. Cardinality(A) = Cardinality(B) => A = B
    BY <1>1, <1>3, FS_Subset
  <2>2. CASE A = all
    BY <1>3, <2>2
  <2>3. CASE Cardinality(A) = limit
    <3>1. Cardinality(A) <= Cardinality(B)
      BY <1>1, <1>3, FS_Subset
    <3> QED  BY <1>1, <2>1, <2>3, <3>1
  <2> QED  BY <2>2, <2>3
<1>4. CASE B \subseteq A
  <2>1. Cardinality(A) = Cardinality(B) => A = B
    BY <1>1, <1>4, FS_Subset
  <2>2. CASE B = all
    BY <1>4, <2>2
  <2>3. CASE Cardinality(B) = limit
    <3>1. Cardinality(B) <= Cardinality(A)
      BY <1>1, <1>4, FS_Subset
    <3> QED  BY <1>1, <2>1, <2>3, <3>1
  <2> QED  BY <2>2, <2>3
<1> QED  BY <1>2, <1>3, <1>4

\* Of some natural numbers one is the least: a smallest of the intervals below them.
LEMMA LeastExists ==
  ASSUME NEW S, S \subseteq Nat, S # {}
  PROVE  \E m \in S : \A k \in S : m <= k
<1> DEFINE Below(k) == 0 .. k - 1
<1>1. PICK n \in S : TRUE
  OBVIOUS
<1>2. n \in Nat
  BY <1>1
<1> DEFINE I == 0 .. n
           R == StrictSubsetOrdering(I)
           T == {Below(k) : k \in {j \in S : j <= n}}
<1>3. IsWellFoundedOn(R, SUBSET I)
  <2>1. IsFiniteSet(I)
    BY <1>2, FS_Interval
  <2> QED  BY <2>1, FS_FiniteSubsetsOfFinite, FS_StrictSubsetOrderingWellFounded
<1>4. T \subseteq SUBSET I /\ T # {}
  <2>1. Below(n) \in T
    BY <1>1, <1>2
  <2> QED  BY <1>2, <2>1
<1>5. PICK s \in T : \A t \in T : <<t, s>> \notin R
  <2> HIDE DEF T, R, I
  <2> QED  BY <1>3, <1>4, WFMin
<1>6. PICK m \in S : m <= n /\ s = Below(m)
  BY <1>5
<1>7. ASSUME NEW k \in S, k < m
      PROVE  FALSE
  <2>1. k \in Nat /\ m \in Nat /\ k <= n
    BY <1>2, <1>6, <1>7
  <2>2. Below(k) \in T
    BY <2>1
  <2>3. Below(k) \subseteq Below(m) /\ k \in Below(m) /\ k \notin Below(k)
    BY <1>7, <2>1
  <2>4. <<Below(k), s>> \in R
    BY <1>5, <1>4, <1>6, <2>2, <2>3 DEF StrictSubsetOrdering
  <2> QED  BY <1>5, <2>2, <2>4
<1> QED
  <2>1. \A k \in S : k \in Nat /\ m \in Nat
    BY <1>6
  <2> QED  BY <1>7, <2>1

(***************************************************************************)
(* Without the window the tie breaker `d1 - d2' orders nothing: of the     *)
(* identifiers 1, 2^31 and 2^31 + 1 each comes before the next, and the    *)
(* last before the first, so that what std::sort makes of documents of one *)
(* weight is undefined.                                                    *)
(***************************************************************************)
THEOREM OrderTurnsRound ==
  ASSUME Half >= 3
  PROVE  \E a, b, c \in 1 .. NoDoc - 1 :
           SignedDiff(a, b) < 0 /\ SignedDiff(b, c) < 0 /\ SignedDiff(c, a) < 0
<1>1. Half \in Nat /\ 1 \in 1 .. NoDoc - 1 /\ Half \in 1 .. NoDoc - 1 /\ Half + 1 \in 1 .. NoDoc - 1
  BY HalfAssumption DEF NoDoc
<1>2. SignedDiff(1, Half) < 0 /\ SignedDiff(Half, Half + 1) < 0
  BY <1>1 DEF SignedDiff
<1>3. SignedDiff(Half + 1, 1) < 0
  BY <1>1 DEF SignedDiff
<1> QED  BY <1>1, <1>2, <1>3
=============================================================================
