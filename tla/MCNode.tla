------------------------------- MODULE MCNode -------------------------------
(***************************************************************************)
(* Two submitting threads, two accounts and six transactions: two rivals   *)
(* for the first nonce of a, one each for its second and third, one b can  *)
(* only afford after it was paid twice, one no execution accepts.          *)
(* A fourth block does not fit the ledger, a third pushes the first off    *)
(* the page.                                                               *)
(***************************************************************************)
EXTENDS Explorer

CONSTANTS a, b

Tx(hash, from, to, nonce, value) ==
  [hash |-> hash, tx_type |-> "Transfer", nonce |-> nonce, from |-> from,
   to |-> to, value |-> value, gas_price |-> 1, gas_limit |-> 1,
   data |-> 0, chain_id |-> ChainId]

MCTxs == {Tx(1, a, b, 0, 2), Tx(2, a, a, 0, 1), Tx(3, a, b, 1, 1),
          Tx(6, a, b, 2, 0), Tx(4, b, a, 0, 2),
          [Tx(5, a, b, 0, 1) EXCEPT !.tx_type = "Other"]}

MCGenesis == [x \in {a} |-> 6]

=============================================================================
