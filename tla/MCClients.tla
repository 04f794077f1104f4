----------------------------- MODULE MCClients -----------------------------
(***************************************************************************)
(* Two accounts, amounts up to 4 and nonces up to 2: balances meet the     *)
(* overflow bound and each account can reach the terminal nonce.  Three    *)
(* callers: transfers of a by the command line, with and without a nonce   *)
(* and for another chain, and by the explorer, and requests that leave out *)
(* fields, sign other fields than they send, or sign with another key.     *)
(***************************************************************************)
EXTENDS Clients

CONSTANTS a, b

Tx(hash, from, to, n, value, price) ==
  [hash |-> hash, tx_type |-> "Transfer", nonce |-> n, from |-> from,
   to |-> to, value |-> value, gas_price |-> price, gas_limit |-> 1,
   data |-> 0, chain_id |-> ChainId]

(* Two rivals for a's first nonce, a transfer that can overflow its        *)
(* receiver, self-transfers, the terminal nonce, and one of each kind that *)
(* is always refused.                                                      *)
MCTxs ==
  {Tx(1, a, b, 0, 1, 1), Tx(2, a, b, 0, 3, 1), Tx(3, a, a, 1, 2, 2),
   Tx(4, a, b, 2, 1, 0), Tx(5, b, a, 0, 1, 1), Tx(6, b, b, 1, 0, 4),
   [Tx(7, a, b, 0, 1, 1) EXCEPT !.chain_id = ChainId + 1],
   [Tx(8, b, a, 0, 0, 0) EXCEPT !.tx_type = "Other"],
   [Tx(9, b, NoAddr, 0, 0, 1) EXCEPT !.value = 0],
   [Tx(10, a, b, 0, 0, 1) EXCEPT !.gas_limit = 0],
   [Tx(11, a, b, 0, 0, 3) EXCEPT !.gas_limit = 2],
   Tx(12, b, a, 0, 3, 3),
   Tx(13, a, b, 1, 1, 1), Tx(14, a, b, 2, 1, 1), Tx(15, a, b, 0, 0, 1)}

World(balance, n) ==
  [EmptyState EXCEPT ![a] = [balance |-> balance, nonce |-> n]]

(* a can pay two transfers, or one and stands before the terminal nonce.   *)
MCWorlds == {World(4, 0), World(3, 1)}

Order(via, n, id) ==
  [via |-> via, from |-> a, to |-> b, amount |-> 1, gas_price |-> 1,
   nonce |-> n, chain_id |-> id]

(* All optional fields left out, the payload of another transaction or the *)
(* key of another account.                                                 *)
HandMade(key, hash) ==
  [via |-> "other",
   request |->
     [from |-> a, to |-> b, value |-> Unset, nonce |-> Unset, gasPrice |-> Unset,
      gas |-> Unset, chainId |-> Unset, publicKey |-> key,
      signature |-> [key |-> key, payload |-> CHOOSE tx \in Txs : tx.hash = hash]]]

Orders ==
  <<Order("explorer", Unset, Unset), Order("cli", Unset, Unset),
    Order("cli", 0, Unset), Order("cli", 0, ChainId + 1),
    HandMade(a, 15), HandMade(a, 1), HandMade(b, 15)>>

(* Callers are interchangeable: each selection of orders once, with at     *)
(* most one request made by hand, the last.                                *)
MCPlans ==
  {[c \in Callers |-> Orders[pick[c]]] :
     pick \in {p \in [Callers -> DOMAIN Orders] : \A c, d \in Callers :
                 c < d => p[c] <= p[d] /\ Orders[p[c]].via # "other"}}

=============================================================================
