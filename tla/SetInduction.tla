------------------------------ MODULE SetInduction ------------------------------
(***************************************************************************)
(* Induction over the natural numbers stated for a set instead of for a    *)
(* predicate, so that first-order provers can apply it: the loops of the   *)
(* components are recursive functions, and what holds of every turn of a   *)
(* loop is proved as "the set of turns where it holds is everything".      *)
(***************************************************************************)
EXTENDS Integers, WellFoundedInduction, TLAPS

\* A non-empty set of natural numbers has a least member.
LEMMA LeastNatural ==
    ASSUME NEW S \in SUBSET Nat, S # {}
    PROVE  \E m \in S : \A l \in S : m <= l
<1>1. PICK m \in S : \A l \in S : <<l, m>> \notin OpToRel(<, Nat)
  BY NatLessThanWellFounded, WFMin, Zenon
<1>2. \A l \in S : ~(l < m)
  BY <1>1, Zenon DEF OpToRel
<1> QED
  BY <1>2

\* A set with 0 that has the successor of each of its members below n has
\* all numbers up to n.
LEMMA UpTo ==
    ASSUME NEW n \in Nat, NEW S, 0 \in S,
           \A k \in 0..(n - 1) : k \in S => k + 1 \in S
    PROVE  \A k \in 0..n : k \in S
<1> SUFFICES ASSUME (0..n) \ S # {} PROVE FALSE
  OBVIOUS
<1>1. PICK m \in (0..n) \ S : \A l \in (0..n) \ S : m <= l
  <2>1. (0..n) \ S \in SUBSET Nat
    OBVIOUS
  <2> QED
    BY <2>1, LeastNatural, Zenon
<1>2. m # 0 /\ m - 1 \in 0..(n - 1) /\ m - 1 \in S
  BY <1>1
<1> QED
  BY <1>1, <1>2

\* The same for all natural numbers.
LEMMA AllNaturals ==
    ASSUME NEW S, 0 \in S, \A k \in Nat : k \in S => k + 1 \in S
    PROVE  \A k \in Nat : k \in S
<1> SUFFICES ASSUME NEW n \in Nat PROVE n \in S
  OBVIOUS
<1>1. \A k \in 0..(n - 1) : k \in S => k + 1 \in S
  OBVIOUS
<1>2. \A k \in 0..n : k \in S
  BY <1>1, UpTo
<1> QED
  BY <1>2
=============================================================================
