----------------------------- MODULE MCMempool -----------------------------
(***************************************************************************)
(* Three senders with up to three nonces each and two prices per slot, so  *)
(* that replacement, both capacities and eviction interact.                *)
(***************************************************************************)
EXTENDS Mempool

CONSTANTS a, b, c

Tx(hash, from, nonce, price) ==
  [hash |-> hash, tx_type |-> "Transfer", nonce |-> nonce, from |-> from,
   to |-> a, value |-> 0, gas_price |-> price, gas_limit |-> 1,
   data |-> 0, chain_id |-> ChainId]

MCTxs ==
  {Tx(1, a, 0, 1), Tx(2, a, 0, 2), Tx(3, a, 1, 1), Tx(4, a, 1, 3),
   Tx(5, a, 2, 2), Tx(6, b, 0, 1), Tx(7, b, 0, 3), Tx(8, b, 1, 2),
   Tx(9, b, 0, 3), Tx(14, c, 0, 1), Tx(15, c, 1, 3),
   [Tx(10, b, 2, 2) EXCEPT !.data = 2], Tx(11, b, 2, 0),
   [Tx(12, b, 2, 3) EXCEPT !.gas_limit = 3],
   [Tx(13, a, 2, 3) EXCEPT !.gas_limit = 0]}

(* All at one price, for the purpose of the eviction order.                *)
MCEqualTxs == {Tx(1, a, 0, 1), Tx(2, a, 1, 1), Tx(3, a, 2, 1), Tx(4, b, 0, 1)}

=============================================================================
