-------------------------------- MODULE Pool --------------------------------
(***************************************************************************)
(* The transaction pool of crates/subhost-mempool as operators on a pool   *)
(* value: txs is the map from hash to transaction (a transaction stands    *)
(* for its hash), by_sender the map from sender to nonce to hash.          *)
(***************************************************************************)
EXTENDS State

CONSTANTS
  NoTx,           \* an empty slot, Option::None
  MaxPending,     \* MempoolConfig::max_pending
  MaxPerSender,   \* MempoolConfig::max_per_sender
  MinGasPrice,    \* MempoolConfig::min_gas_price
  MaxTxData       \* MempoolConfig::max_tx_data_bytes

(* MempoolConfig::validate refuses a zero capacity.                        *)
ASSUME PoolAssumption ==
  /\ MaxPending \in Nat \ {0}
  /\ MaxPerSender \in Nat \ {0}
  /\ MinGasPrice \in Nat
  /\ MaxTxData \in Nat
  /\ NoTx \notin Txs

PoolType == [txs : SUBSET Txs,
             by_sender : [Addrs -> [Nonces -> Txs \cup {NoTx}]]]

EmptyPool == [txs |-> {}, by_sender |-> [a \in Addrs |-> [n \in Nonces |-> NoTx]]]

Slot(pool, a, n) == pool.by_sender[a][n]

SenderNonces(pool, a) == {n \in Nonces : Slot(pool, a, n) # NoTx}

SenderLen(pool, a) == Cardinality(SenderNonces(pool, a))

(* Mutant of PoolRemove: the index keeps the slot.                         *)
RemoveKeepsIndex(pool, tx) == [pool EXCEPT !.txs = @ \ {tx}]

PoolRemove(pool, tx) ==
  IF tx \in pool.txs
    THEN [txs |-> pool.txs \ {tx},
          by_sender |-> [pool.by_sender EXCEPT ![tx.from][tx.nonce] = NoTx]]
    ELSE pool

PoolInsert(pool, tx) ==
  [txs |-> pool.txs \cup {tx},
   by_sender |-> [pool.by_sender EXCEPT ![tx.from][tx.nonce] = tx]]

(* The order of evict_lowest_priority: cheapest first, then the highest    *)
(* nonce, then the smallest hash.                                          *)
LowerPriority(tx, other) ==
  \/ tx.gas_price < other.gas_price
  \/ /\ tx.gas_price = other.gas_price
     /\ \/ tx.nonce > other.nonce
        \/ tx.nonce = other.nonce /\ tx.hash <= other.hash

LowestPriority(txs) ==
  CHOOSE tx \in txs : \A other \in txs : LowerPriority(tx, other)

Outcomes == {"accepted", "outbid", "refused"}

(* The checks of admit on a transaction that is not already pending.       *)
Malformed(tx) ==
  \/ tx.gas_limit = 0
  \/ tx.gas_price < MinGasPrice
  \/ TotalCost(tx) > MaxAmount

(* Mutant of SenderQueueFull: off by one.                                  *)
SenderQueueOverfull(pool, tx) ==
  /\ Slot(pool, tx.from, tx.nonce) = NoTx
  /\ SenderLen(pool, tx.from) > MaxPerSender

SenderQueueFull(pool, tx) ==
  /\ Slot(pool, tx.from, tx.nonce) = NoTx
  /\ SenderLen(pool, tx.from) >= MaxPerSender

Outbid(pool, tx) ==
  LET existing == Slot(pool, tx.from, tx.nonce)
  IN  existing # NoTx /\ tx.gas_price <= existing.gas_price

(* Replace by fee, then eviction at the global capacity, then insertion.   *)
Enter(pool, tx) ==
  LET existing == Slot(pool, tx.from, tx.nonce)
      freed    == IF existing = NoTx THEN pool ELSE PoolRemove(pool, existing)
      full     == Cardinality(freed.txs) >= MaxPending
      victim   == LowestPriority(freed.txs)
  IN  [outcome   |-> "accepted",
       pool      |-> PoolInsert(IF full THEN PoolRemove(freed, victim) ELSE freed, tx),
       displaced |-> IF existing # NoTx THEN existing
                     ELSE IF full THEN victim ELSE NoTx]

(* The size is checked first, then whether the transaction is pending.     *)
Admit(pool, tx) ==
  IF tx.data <= MaxTxData /\ tx \in pool.txs
    THEN [outcome |-> "accepted", pool |-> pool, displaced |-> NoTx]
  ELSE IF tx.data > MaxTxData \/ Malformed(tx) \/ SenderQueueFull(pool, tx)
    THEN [outcome |-> "refused", pool |-> pool, displaced |-> NoTx]
  ELSE IF Outbid(pool, tx)
    THEN [outcome |-> "outbid", pool |-> pool, displaced |-> NoTx]
  ELSE Enter(pool, tx)

(* Mempool::add, ignoring what it answers.                                 *)
Add(pool, tx) == IF tx = NoTx THEN pool ELSE Admit(pool, tx).pool

(* Mutant of RestorePool: only the previous owner of the slot is put back, *)
(* not a transaction evicted for capacity.                                 *)
RestoreSlotOnly(pool, tx, previous, displaced) ==
  Add(PoolRemove(pool, tx), previous)

(* RpcState::restore_pool: undo the admission of tx.  previous occupied    *)
(* its slot before, displaced is what admit reported.                      *)
RestorePool(pool, tx, previous, displaced) ==
  Add(Add(PoolRemove(pool, tx), previous), displaced)

PruneBelowNonce(pool, a, next) ==
  LET stale == {n \in SenderNonces(pool, a) : n < next}
  IN  [txs |-> pool.txs \ {Slot(pool, a, n) : n \in stale},
       by_sender |-> [pool.by_sender EXCEPT ![a] =
                        [n \in Nonces |-> IF n \in stale THEN NoTx ELSE @[n]]]]

=============================================================================
