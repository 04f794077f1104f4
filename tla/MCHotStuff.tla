----------------------------- MODULE MCHotStuff -----------------------------
(***************************************************************************)
(* Four validators, one of them faulty, two replicas, two blocks and two   *)
(* views.  Addresses and keys are numbers.  Address i registers key i; the *)
(* faulty one may do so again with the key of another, and a copied proof  *)
(* of possession is refused.  Address 9 never registers.                   *)
(***************************************************************************)
EXTENDS HotStuff, TLC

CONSTANTS b1, b2, r1, r2

Own(k) == [key |-> k, of |-> k]

MCRegistrations ==
  {<<i, i, Own(i)>> : i \in Keys} \cup
  {<<4, 3, Own(3)>>, <<9, 4, [key |-> 1, of |-> 4]>>, <<9, 1, [key |-> 4, of |-> 4]>>}

(* Quorums of 3 out of 4 that overlap in two validators, one of them       *)
(* faulty; too few, repeated and unknown signers.                          *)
SignersOfFour == {<<1, 2, 4>>, <<4, 3, 1>>, <<3, 4>>, <<1, 4, 1>>, <<1, 2, 9>>}

(* Five validators, for which max_faulty is 1 and the threshold 3: quorums *)
(* of 3 out of 5 that share the faulty validator only.                     *)
RegistrationsOfFive == {<<i, i, Own(i)>> : i \in Keys}
SignersOfFive == {<<1, 2, 5>>, <<3, 4, 5>>}

Symmetry == Permutations(Replicas) \cup Permutations(Blocks)

=============================================================================
