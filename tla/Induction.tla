------------------------------ MODULE Induction ------------------------------
(***************************************************************************)
(* Induction over the natural numbers, stated about sets instead of        *)
(* predicates: a proof names the set of the numbers it is through with.    *)
(***************************************************************************)
EXTENDS Integers, WellFoundedInduction, TLAPS

Less == {p \in Nat \X Nat : p[1] < p[2]}

\* A set of natural numbers has a least element.
LEMMA LeastElement ==
    ASSUME NEW S \in SUBSET Nat, S # {}
    PROVE  \E m \in S : \A k \in S : m <= k
<1>1. IsWellFoundedOn(Less, Nat)
  BY NatLessThanWellFounded DEF OpToRel, Less
<1>2. S \subseteq Nat
  OBVIOUS
<1>3. PICK m \in S : \A k \in S : ~(<<k, m>> \in Less)
  BY <1>1, <1>2, WFMin, Zenon
<1>4. ASSUME NEW k \in S PROVE m <= k
  <2>1. m \in Nat /\ k \in Nat
    BY <1>2
  <2>2. k < m => <<k, m>> \in Less
    BY <2>1 DEF Less
  <2>3. ~(k < m)
    BY <1>3, <2>2
  <2> QED
    BY <2>1, <2>3
<1> QED
  BY <1>4

\* What holds of 0, and of n + 1 whenever it holds of n, holds of all.
LEMMA SetInduction ==
    ASSUME NEW S \in SUBSET Nat, 0 \in S, \A n \in S : n + 1 \in S
    PROVE  S = Nat
<1> SUFFICES ASSUME Nat \ S # {} PROVE FALSE
  OBVIOUS
<1>1. PICK m \in Nat \ S : \A k \in Nat \ S : m <= k
  BY LeastElement
<1>2. m # 0 /\ m - 1 \in Nat
  OBVIOUS
<1>3. m - 1 \in S
  BY <1>1, <1>2
<1> QED
  BY <1>1, <1>2, <1>3

\* The same up to a bound.
LEMMA BoundedInduction ==
    ASSUME NEW b \in Nat, NEW S \in SUBSET (0..b), 0 \in S,
           \A n \in S : n < b => n + 1 \in S
    PROVE  S = 0..b
<1> DEFINE T == {n \in Nat : n <= b => n \in S}
<1>1. 0 \in T
  OBVIOUS
<1>2. ASSUME NEW n \in T PROVE n + 1 \in T
  OBVIOUS
<1>3. T \in SUBSET Nat
  OBVIOUS
<1> HIDE DEF T
<1>4. T = Nat
  BY <1>1, <1>2, <1>3, SetInduction, Zenon
<1>5. ASSUME NEW n \in 0..b PROVE n \in S
  <2>1. n \in T
    BY <1>4
  <2> QED
    BY <2>1 DEF T
<1> QED
  BY <1>5
=============================================================================
