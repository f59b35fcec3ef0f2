---------------------------- MODULE NumberFacts -----------------------------
(***************************************************************************)
(* Least and greatest numbers of sets: what the CHOOSE of a minimum or a   *)
(* maximum rests on in Cron, AgentLoop and the tools, and the proofs by a  *)
(* least counterexample.                                                   *)
(***************************************************************************)
EXTENDS Integers, WellFoundedInduction, TLAPS

\* A set of natural numbers that is not empty has a least element, ...
LEMMA LeastNumber == ASSUME NEW S \in SUBSET Nat, S # {}
                     PROVE  \E x \in S : \A y \in S : x <= y
  <1> DEFINE R == OpToRel(<, Nat)
  <1>1. IsWellFoundedOn(R, Nat)
    BY NatLessThanWellFounded
  <1>2. \A x, y \in Nat : y < x => <<y, x>> \in R
    BY DEF OpToRel
  <1> HIDE DEF R
  <1>3. PICK x \in S : \A y \in S : ~ (<<y, x>> \in R)
    BY <1>1, WFMin
  <1>4. \A y \in S : ~ (y < x)
    BY <1>2, <1>3
  <1> QED BY <1>4

\* ... and, if it is bounded, a greatest one.
LEMMA GreatestNumber == ASSUME NEW n \in Nat, NEW S \in SUBSET (0 .. n), S # {}
                        PROVE  \E x \in S : \A y \in S : x >= y
  <1> DEFINE D == {n - x : x \in S}
  <1>1. D \in SUBSET Nat /\ D # {}
    <2>1. PICK x \in S : TRUE
      OBVIOUS
    <2>2. n - x \in D
      OBVIOUS
    <2> QED BY <2>2
  <1>2. PICK d \in D : \A e \in D : d <= e
    <2> HIDE DEF D
    <2> QED BY <1>1, LeastNumber
  <1>3. PICK x \in S : d = n - x
    OBVIOUS
  <1>4. \A y \in S : n - x <= n - y
    BY <1>2, <1>3
  <1> QED BY <1>4
=============================================================================
