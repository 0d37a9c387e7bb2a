---------------------------- MODULE SetInduction ----------------------------
(***************************************************************************)
(* Induction over natural numbers, stated for the set of the numbers at    *)
(* which something holds and not for a predicate.                          *)
(***************************************************************************)
EXTENDS Integers, WellFoundedInduction, TLAPS

\* A set of natural numbers has a least element.
LEMMA Least ==
  ASSUME NEW S \in SUBSET Nat, S # {}
  PROVE  \E m \in S : \A n \in S : m <= n
<1> DEFINE Less == {ss \in Nat \X Nat : ss[1] < ss[2]}
<1>1. IsWellFoundedOn(Less, Nat)
  BY NatLessThanWellFounded DEF OpToRel
<1>2. PICK m \in S : \A n \in S : <<n, m>> \notin Less
  <2> HIDE DEF Less
  <2> QED BY <1>1, WFMin
<1>3. \A n \in S : ~(n < m)
  BY <1>2
<1> QED BY <1>3

\* Induction over an interval, for the set of the numbers at which it holds.
LEMMA Induct ==
  ASSUME NEW a \in Nat, NEW n \in Nat, NEW Good,
         a \in Good,
         \A k \in a .. n - 1 : k \in Good => k + 1 \in Good
  PROVE  a .. n \subseteq Good
<1> DEFINE Bad == {k \in a .. n : k \notin Good}
<1>1. SUFFICES ASSUME Bad # {} PROVE FALSE
  OBVIOUS
<1>2. PICK m \in Bad : \A k \in Bad : m <= k
  <2>1. Bad \in SUBSET Nat
    OBVIOUS
  <2> HIDE DEF Bad
  <2> QED BY <1>1, <2>1, Least
<1>3. m - 1 \in a .. n - 1 /\ m - 1 \in Good
  BY <1>2
<1> QED BY <1>2, <1>3
=============================================================================
