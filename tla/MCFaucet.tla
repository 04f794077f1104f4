------------------------------ MODULE MCFaucet ------------------------------
(***************************************************************************)
(* Three requests: all for one address, in two spellings; or for two       *)
(* addresses and one the faucet refuses, its own or malformed.  The clock  *)
(* runs through a cooldown and to the sweep of a slot nobody released.     *)
(***************************************************************************)
EXTENDS Faucet, TLC

CONSTANTS r1, r2, r3

MCSpellings == {"0xab", "0xAB", "0xcd", "0xfa", "ab"}
MCLower == [s \in MCSpellings |->
  CASE s \in {"0xab", "0xAB"} -> "0xab" [] s = "ab" -> Invalid [] OTHER -> s]

MCCalls ==
  {(r1 :> "0xab") @@ (r2 :> x[1]) @@ (r3 :> x[2]) :
     x \in {<<"0xAB", "0xab">>, <<"0xcd", "0xfa">>, <<"0xcd", "ab">>}}

=============================================================================
