----------------------------- MODULE MCStaking -----------------------------
(***************************************************************************)
(* Two validators, two delegators, and amounts up to 5 over a minimum      *)
(* stake of 2: the u128 limit, a stake too small for a downtime penalty,   *)
(* and stakes cut below what is delegated are all reached with two         *)
(* slashings.                                                              *)
(***************************************************************************)
EXTENDS Staking

CONSTANTS v1, v2, d1, d2

=============================================================================
