---------------------------- MODULE NaturalFacts ----------------------------
(***************************************************************************)
(* Facts about sets of naturals that the proofs of several modules need.   *)
(* Induction is stated with a set in place of a predicate: a proof builds  *)
(* the set of the numbers for which its claim holds.                       *)
(***************************************************************************)
EXTENDS Integers, WellFoundedInduction, TLAPS

\* A set of naturals has a least element.
LEMMA LeastElement ==
  ASSUME NEW S \in SUBSET Nat, S # {}
  PROVE  \E j \in S : \A h \in S : j <= h
<1> DEFINE Less == {ss \in Nat \X Nat : ss[1] < ss[2]}
<1>1. IsWellFoundedOn(Less, Nat)
  BY NatLessThanWellFounded, Zenon DEF OpToRel
<1>2. PICK j \in S : \A h \in S : ~(<<h, j>> \in Less)
  BY <1>1, WFMin
<1>3. \A h \in S : j <= h
  <2>1. SUFFICES ASSUME NEW h \in S, h < j PROVE FALSE
    BY SMT
  <2>2. <<h, j>> \in Less
    BY <2>1
  <2>3. QED
    BY <1>2, <2>2
<1>4. QED
  BY <1>3

\* Induction up to a bound.
LEMMA SetInduction ==
  ASSUME NEW S, NEW N \in Nat, 0 \in S,
         \A n \in 0 .. N - 1 : n \in S => n + 1 \in S
  PROVE  0 .. N \subseteq S
<1> DEFINE Rest == {n \in 0 .. N : n \notin S}
<1>1. SUFFICES ASSUME Rest # {} PROVE FALSE
  OBVIOUS
<1>2. Rest \in SUBSET Nat
  OBVIOUS
<1>3. PICK m \in Rest : \A h \in Rest : m <= h
  BY <1>1, <1>2, LeastElement
<1>4. m \in 1 .. N /\ m - 1 \in 0 .. N - 1
  BY <1>3
<1>5. m - 1 \in S
  BY <1>3, <1>4
<1>6. m \in S
  BY <1>4, <1>5
<1>7. QED
  BY <1>6

\* A set of naturals that is bounded has a largest element.
LEMMA LargestElement ==
  ASSUME NEW N \in Nat, NEW S \in SUBSET (0 .. N), S # {}
  PROVE  \E j \in S : \A h \in S : h <= j
<1> DEFINE Gap == {N - h : h \in S}
<1>1. Gap \in SUBSET Nat /\ Gap # {}
  <2>1. \A h \in S : N - h \in Nat
    OBVIOUS
  <2>2. QED
    BY <2>1, Zenon
<1>2. PICK g \in Gap : \A h \in Gap : g <= h
  BY <1>1, LeastElement
<1>3. PICK j \in S : g = N - j
  BY <1>2
<1>4. ASSUME NEW h \in S PROVE h <= j
  <2>1. g <= N - h
    BY <1>2
  <2>2. QED
    BY <1>3, <2>1
<1>5. QED
  BY <1>4
=============================================================================
