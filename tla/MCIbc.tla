------------------------------- MODULE MCIbc -------------------------------
(***************************************************************************)
(* Two chains, east sending over two channels to west, which has one.  A   *)
(* window of one block and one second, and heights and clock that pass it, *)
(* let every packet time out on either side.  A largest sequence of 3 lets *)
(* two transfers be sent and the receive counter reach its limit.          *)
(***************************************************************************)
EXTENDS Ibc

CONSTANTS east, west

MCOpenings ==
  {<<east, 1, "Unordered">>} \cup ({west} \X {1, 2} \X {"Unordered", "Ordered"})

MCMaxChannels == [c \in Chains |-> IF c = east THEN 2 ELSE 1]

=============================================================================
