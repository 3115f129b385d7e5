----------------------------- MODULE NatLemmas -----------------------------
(***************************************************************************)
(* Induction for the other proof modules: a set of naturals has a least    *)
(* element, so a claim that fails somewhere fails somewhere first.         *)
(***************************************************************************)
EXTENDS Integers, TLAPS, WellFoundedInduction

\* a set of numbers that is not empty has a least element
LEMMA LeastElement ==
  ASSUME NEW T \in SUBSET Nat, T # {}
  PROVE  \E x \in T : \A y \in T : x <= y
  <1> DEFINE R == {ss \in Nat \X Nat : ss[1] < ss[2]}
  <1>1. IsWellFoundedOn(R, Nat)
    <2>1. OpToRel(<, Nat) = R
      BY Zenon DEF OpToRel
    <2> QED
      BY <2>1, NatLessThanWellFounded
  <1>2. \A x, y \in T : ~ (<<y, x>> \in R) => x <= y
    OBVIOUS
  <1> HIDE DEF R
  <1>3. \E x \in T : \A y \in T : ~ (<<y, x>> \in R)
    BY <1>1, WFMin
  <1> QED
    BY <1>2, <1>3

\* a product grows with its factor
LEMMA ProductGrows ==
  ASSUME NEW m \in Nat, NEW x \in Nat, NEW y \in Nat, x <= y
  PROVE  x * m <= y * m
  OBVIOUS

\* the quotient and the remainder of a number built from them
LEMMA PlaceOf ==
  ASSUME NEW m \in Nat \ {0}, NEW q \in Nat, NEW r \in 0..m - 1
  PROVE  (q * m + r) \div m = q /\ (q * m + r) % m = r
  <1> DEFINE d == (q * m + r) \div m
             e == (q * m + r) % m
  <1>1. /\ q * m + r \in Nat /\ d \in Int /\ e \in 0..m - 1
        /\ q * m + r = m * d + e
    OBVIOUS
  <1> HIDE DEF d, e
  <1>2. ASSUME d < q PROVE FALSE
    <2>1. (d + 1) * m <= q * m
      BY <1>1, <1>2
    <2>2. (d + 1) * m = m * d + m
      BY <1>1
    <2> QED
      BY <1>1, <2>1, <2>2
  <1>3. ASSUME q < d PROVE FALSE
    <2>1. (q + 1) * m <= d * m
      BY <1>1, <1>3
    <2>2. (q + 1) * m = q * m + m
      BY <1>1
    <2>3. m * d = d * m
      BY <1>1
    <2> QED
      BY <1>1, <2>1, <2>2, <2>3
  <1>4. d = q
    BY <1>1, <1>2, <1>3
  <1>5. m * q = q * m
    OBVIOUS
  <1>6. e = r
    BY <1>1, <1>4, <1>5
  <1> QED
    BY <1>4, <1>6 DEF d, e
=============================================================================
