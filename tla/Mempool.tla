------------------------------ MODULE Mempool ------------------------------
(***************************************************************************)
(* subhost_mempool::Mempool under any sequence of calls of its mutators.   *)
(* SubmitFails is the use RpcState::submit_transaction makes of the pool   *)
(* when the commit fails: admit, then restore_pool.                        *)
(***************************************************************************)
EXTENDS Pool

VARIABLE pool

MempoolInit == pool = EmptyPool

AdmitTx(tx) == pool' = Admit(pool, tx).pool

RemoveTx(tx) == pool' = PoolRemove(pool, tx)

Prune(a, next) == pool' = PruneBelowNonce(pool, a, next)

SubmitFails(tx) ==
  LET admission == Admit(pool, tx)
  IN  /\ admission.outcome = "accepted"
      /\ pool' = RestorePool(admission.pool, tx,
                             Slot(pool, tx.from, tx.nonce), admission.displaced)

MempoolNext ==
  \/ \E tx \in Txs : AdmitTx(tx) \/ RemoveTx(tx) \/ SubmitFails(tx)
  \/ \E a \in Addrs, next \in Nonces : Prune(a, next)

MempoolSpec == MempoolInit /\ [][MempoolNext]_pool

-----------------------------------------------------------------------------

(* The two maps of the pool describe the same transactions: every pending  *)
(* transaction owns the slot of its sender and nonce, and every occupied   *)
(* slot names a pending transaction.                                       *)
IndexConsistent ==
  /\ \A tx \in pool.txs : Slot(pool, tx.from, tx.nonce) = tx
  /\ \A a \in Addrs, n \in Nonces :
       LET tx == Slot(pool, a, n)
       IN  tx # NoTx => tx \in pool.txs /\ tx.from = a /\ tx.nonce = n

(* Neither the global nor the per-sender capacity is ever exceeded, by     *)
(* replacements, evictions or rollbacks.                                   *)
CapacityKept ==
  /\ Cardinality(pool.txs) <= MaxPending
  /\ \A a \in Addrs : SenderLen(pool, a) <= MaxPerSender

(* Whatever admit displaced, restore_pool puts the pool back exactly as it *)
(* was before the admission.                                               *)
RollbackExact ==
  \A tx \in Txs :
    LET admission == Admit(pool, tx)
    IN  admission.outcome = "accepted" =>
          RestorePool(admission.pool, tx, Slot(pool, tx.from, tx.nonce),
                      admission.displaced) = pool

=============================================================================
