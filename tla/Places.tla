------------------------------- MODULE Places -------------------------------
(***************************************************************************)
(* Facts about the order of a finite set of numbers, for the proofs: each  *)
(* member has a place, every place is taken, and so there are a first and  *)
(* a last one.                                                             *)
(***************************************************************************)
EXTENDS Integers, FiniteSets, FiniteSetTheorems, TLAPS

\* The place of q in S counts the members up to q.
UpTo(S, q) == {j \in S : j <= q}

LEMMA PlaceTypes ==
  ASSUME NEW S \in SUBSET Nat, IsFiniteSet(S), NEW q \in S
  PROVE  /\ IsFiniteSet(UpTo(S, q))
         /\ Cardinality(UpTo(S, q)) \in 1 .. Cardinality(S)
<1>1. UpTo(S, q) \in SUBSET S /\ q \in UpTo(S, q)
  BY DEF UpTo
<1>2. /\ IsFiniteSet(UpTo(S, q))
      /\ Cardinality(UpTo(S, q)) <= Cardinality(S)
  BY <1>1, FS_Subset
<1>3. Cardinality(UpTo(S, q)) \in Nat /\ Cardinality(S) \in Nat
  BY <1>2, FS_CardinalityType
<1>4. Cardinality(UpTo(S, q)) # 0
  BY <1>1, <1>2, FS_EmptySet
<1>. QED  BY <1>2, <1>3, <1>4

LEMMA PlacesGrow ==
  ASSUME NEW S \in SUBSET Nat, IsFiniteSet(S), NEW p \in S, NEW q \in S, p < q
  PROVE  Cardinality(UpTo(S, p)) < Cardinality(UpTo(S, q))
<1>1. UpTo(S, p) \in SUBSET (UpTo(S, q) \ {q}) /\ q \in UpTo(S, q)
  <2>1. p \in Nat /\ q \in Nat
    OBVIOUS
  <2>2. ASSUME NEW j \in UpTo(S, p)
        PROVE  j \in UpTo(S, q) /\ j # q
    <3>1. j \in S /\ j \in Nat /\ j <= p
      BY DEF UpTo
    <3>2. j <= q /\ j # q
      BY <2>1, <3>1
    <3>. QED  BY <3>1, <3>2 DEF UpTo
  <2>3. q \in UpTo(S, q)
    BY <2>1 DEF UpTo
  <2>. QED  BY <2>2, <2>3
<1>2. IsFiniteSet(UpTo(S, q))
  BY PlaceTypes
<1>3. /\ IsFiniteSet(UpTo(S, q) \ {q})
      /\ Cardinality(UpTo(S, q) \ {q}) = Cardinality(UpTo(S, q)) - 1
  BY <1>1, <1>2, FS_RemoveElement
<1>4. Cardinality(UpTo(S, p)) <= Cardinality(UpTo(S, q) \ {q})
  BY <1>1, <1>3, FS_Subset
<1>5. Cardinality(UpTo(S, p)) \in Nat /\ Cardinality(UpTo(S, q)) \in Nat
  BY PlaceTypes, FS_CardinalityType
<1>. QED  BY <1>3, <1>4, <1>5

\* Every place is taken.
LEMMA PlacesAreTaken ==
  ASSUME NEW S \in SUBSET Nat, IsFiniteSet(S), NEW n \in 1 .. Cardinality(S)
  PROVE  \E q \in S : Cardinality(UpTo(S, q)) = n
<1> DEFINE T == 1 .. Cardinality(S)
           place == [q \in S |-> Cardinality(UpTo(S, q))]
<1>1. Cardinality(S) \in Nat
  BY FS_CardinalityType
<1>2. \A q \in S : Cardinality(UpTo(S, q)) \in T
  BY PlaceTypes
<1>3. ASSUME NEW p \in S, NEW q \in S, place[p] = place[q]
      PROVE  p = q
  <2>1. Cardinality(UpTo(S, p)) = Cardinality(UpTo(S, q))
    BY <1>3
  <2>2. Cardinality(UpTo(S, p)) \in Nat
    BY <1>1, <1>2
  <2>3. ~(p < q) /\ ~(q < p)
    BY <2>1, <2>2, PlacesGrow
  <2>. QED  BY <2>3
<1>4. place \in Injection(S, T)
  BY <1>2, <1>3 DEF Injection, IsInjective
<1>5. IsFiniteSet(T) /\ Cardinality(T) = Cardinality(S)
  BY <1>1, FS_Interval
<1>6. place \in Surjection(S, T)
  BY <1>4, <1>5, FS_Injection
<1>. QED  BY <1>6 DEF Surjection

LEMMA LeastMember ==
  ASSUME NEW S \in SUBSET Nat, IsFiniteSet(S), S # {}
  PROVE  \E m \in S : \A j \in S : m <= j
<1>1. Cardinality(S) \in Nat /\ Cardinality(S) # 0
  BY FS_CardinalityType, FS_EmptySet
<1>2. PICK m \in S : Cardinality(UpTo(S, m)) = 1
  <2>1. 1 \in 1 .. Cardinality(S)
    BY <1>1
  <2>. QED  BY <2>1, PlacesAreTaken
<1>3. ASSUME NEW j \in S
      PROVE  m <= j
  <2>1. Cardinality(UpTo(S, j)) \in 1 .. Cardinality(S)
    BY PlaceTypes
  <2>2. ~(j < m)
    <3>1. SUFFICES ASSUME j < m PROVE FALSE
      OBVIOUS
    <3>2. Cardinality(UpTo(S, j)) < 1
      BY <1>2, <3>1, PlacesGrow
    <3>. QED  BY <1>1, <2>1, <3>2
  <2>3. j \in Nat /\ m \in Nat
    OBVIOUS
  <2>. QED  BY <2>2, <2>3
<1>. QED  BY <1>3

LEMMA GreatestMember ==
  ASSUME NEW S \in SUBSET Nat, IsFiniteSet(S), S # {}
  PROVE  \E m \in S : \A j \in S : j <= m
<1>1. Cardinality(S) \in Nat /\ Cardinality(S) # 0
  BY FS_CardinalityType, FS_EmptySet
<1>2. PICK m \in S : Cardinality(UpTo(S, m)) = Cardinality(S)
  <2>1. Cardinality(S) \in 1 .. Cardinality(S)
    BY <1>1
  <2>. QED  BY <2>1, PlacesAreTaken
<1>3. ASSUME NEW j \in S
      PROVE  j <= m
  <2>1. Cardinality(UpTo(S, j)) \in 1 .. Cardinality(S)
    BY PlaceTypes
  <2>2. ~(m < j)
    <3>1. SUFFICES ASSUME m < j PROVE FALSE
      OBVIOUS
    <3>2. Cardinality(S) < Cardinality(UpTo(S, j))
      BY <1>2, <3>1, PlacesGrow
    <3>. QED  BY <1>1, <2>1, <3>2
  <2>3. j \in Nat /\ m \in Nat
    OBVIOUS
  <2>. QED  BY <2>2, <2>3
<1>. QED  BY <1>3
=============================================================================
