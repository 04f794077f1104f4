---------------------------- MODULE Node_proofs -----------------------------
(***************************************************************************)
(* The commit path keeps CommitInv, for any number of threads, accounts,   *)
(* transactions, crashes and I/O errors, with and without reseeding; the   *)
(* node's types, its durability and its freedom from limbo follow.         *)
(* Then lemmas about the ledgers that it writes: the re-execution of a log,*)
(* fees and supply, and what makes a ledger good.                          *)
(***************************************************************************)
EXTENDS NodeAudit, Operators_proofs

(* Bootstrap runs on a thread of its own.                                  *)
LEMMA ProcFacts ==
  /\ Main \in Procs
  /\ NoThread \notin Procs
  /\ Threads \subseteq Procs
BY Zenon, NodeAssumption DEF Procs

(* A fresh state is one.                                                   *)
LEMMA EmptyStateType == EmptyState \in Accounts
BY BoundsAssumption DEF EmptyState, Accounts, Account, Nonces, Amounts

(* Seeding sets balances and leaves every nonce alone.                     *)
LEMMA SeedFacts ==
  ASSUME NEW s \in Accounts
  PROVE  /\ SeedState(s) \in Accounts
         /\ \A a \in Addrs : SeedState(s)[a].nonce = s[a].nonce
<1>1. \A a \in Addrs : s[a] \in Account
  BY Zenon DEF Accounts
<1>2. \A a \in Addrs, v \in Amounts :
        /\ [s[a] EXCEPT !.balance = v] \in Account
        /\ [s[a] EXCEPT !.balance = v].nonce = s[a].nonce
  BY Zenon, <1>1 DEF Account
<1>3. \A a \in DOMAIN Genesis : a \in Addrs /\ Genesis[a] \in Amounts
  BY Zenon, GenesisAssumption
<1> QED BY Zenon, <1>1, <1>2, <1>3 DEF SeedState, Accounts

(* The new block is one: its height is the next.                           *)
LEMMA NextBlockFacts ==
  ASSUME NEW bs \in Seq(Block), Heights(bs), NEW s \in Accounts, NEW tx \in Txs
  PROVE  /\ NextBlock(bs, s, tx) \in Block
         /\ NextBlock(bs, s, tx).height = Len(bs) + 1
         /\ NextBlock(bs, s, tx).tx = tx
         /\ ReceiptOf(NextBlock(bs, s, tx)) \in Receipt
         /\ ReceiptOf(NextBlock(bs, s, tx)).tx_hash = tx.hash
<1>1. Len(bs) \in Nat /\ (bs # <<>> => Last(bs) \in Block /\ Last(bs).height = Len(bs))
  BY DEF Heights, Last
<1>2. NextHeight(bs) = Len(bs) + 1
  BY <1>1 DEF NextHeight
<1>3. tx.hash \in Nat /\ tx.gas_limit \in Nat
  BY Zenon, TxFields
<1>4. bs # <<>> => Last(bs).height \in Nat /\ Last(bs).tx.hash \in Nat
  BY Zenon, <1>1, TxFields DEF Block
<1>5. ParentHash(bs) \in BlockHashes
  BY Zenon, <1>4 DEF ParentHash, ZeroHash, BlockHash, BlockHashes
<1>6. ReceiptRoot(tx.hash, NextHeight(bs), tx.gas_limit) \in Nat \X Nat \X Nat
  BY <1>1, <1>2, <1>3 DEF ReceiptRoot
<1>7. NextBlock(bs, s, tx) \in Block
  BY <1>1, <1>2, <1>3, <1>5, <1>6, ChainIdAssumption, BlockGasLimitAssumption
     DEF NextBlock, Block
<1>8. ReceiptOf(NextBlock(bs, s, tx)) \in Receipt
  BY <1>1, <1>2, <1>3 DEF ReceiptOf, NextBlock, Receipt, BlockHash, BlockHashes
<1> QED BY Zenon, <1>2, <1>7, <1>8 DEF NextBlock, ReceiptOf

(* The places of a sequence with one more element.                         *)
LEMMA AppendPlaces ==
  ASSUME NEW S, NEW seq \in Seq(S), NEW x \in S
  PROVE  /\ Len(seq) \in Nat /\ DOMAIN seq = 1..Len(seq)
         /\ DOMAIN Append(seq, x) = 1..(Len(seq) + 1)
         /\ Append(seq, x)[Len(seq) + 1] = x
         /\ \A i \in 1..Len(seq) : Append(seq, x)[i] = seq[i]
         /\ seq = <<>> <=> Len(seq) = 0
OBVIOUS

(* A chain with a block on top: what holds of the chain still does.        *)
LEMMA AppendFacts ==
  ASSUME NEW bs \in Seq(Block), NEW b \in Block
  PROVE  /\ Append(bs, b) \in Seq(Block)
         /\ Len(Append(bs, b)) = Len(bs) + 1
         /\ Append(bs, b) # <<>>
         /\ Last(Append(bs, b)) = b
         /\ SubSeq(Append(bs, b), 1, Len(bs)) = bs
         /\ \A i \in DOMAIN bs : i \in DOMAIN Append(bs, b) /\ Append(bs, b)[i] = bs[i]
         /\ Heights(bs) /\ b.height = Len(bs) + 1 => Heights(Append(bs, b))
         /\ AckedIn(bs) => AckedIn(Append(bs, b))
<1>1. /\ Append(bs, b) \in Seq(Block)
      /\ Len(Append(bs, b)) = Len(bs) + 1
      /\ \A i \in 1..Len(bs) : Append(bs, b)[i] = bs[i]
      /\ Append(bs, b)[Len(bs) + 1] = b
      /\ Len(bs) \in Nat
      /\ DOMAIN bs = 1..Len(bs)
      /\ DOMAIN Append(bs, b) = 1..(Len(bs) + 1)
  OBVIOUS
<1>2. \A i \in DOMAIN bs : i \in DOMAIN Append(bs, b) /\ Append(bs, b)[i] = bs[i]
  BY <1>1
<1>3. SubSeq(Append(bs, b), 1, Len(bs)) = bs
  BY <1>1
<1>4. Append(bs, b) # <<>> /\ Last(Append(bs, b)) = b
  BY <1>1 DEF Last
<1>5. ASSUME Heights(bs), b.height = Len(bs) + 1 PROVE Heights(Append(bs, b))
  BY <1>1, <1>5 DEF Heights
<1>6. AckedIn(bs) => AckedIn(Append(bs, b))
  BY Zenon, <1>2 DEF AckedIn, Holds
<1> QED BY Zenon, <1>1, <1>2, <1>3, <1>4, <1>5, <1>6

(* A receipt for a nonce that is only now spent joins the others, ...      *)
LEMMA NewReceipt ==
  ASSUME NEW rs \in SUBSET Receipt, NEW s \in Accounts, Spent(rs, s),
         NEW tx \in Txs, ApplyTransaction(s, tx).ok,
         NEW r \in Receipt, r.tx_hash = tx.hash
  PROVE  InsertReceipt(rs, r) = rs \cup {r}
<1>1. tx.nonce = s[tx.from].nonce
  BY Zenon, ExecutionSpendsOneNonce DEF Accounts
<1>2. \A x \in Txs : x.from \in Addrs /\ x.nonce \in Nat
  BY TxFields, BoundsAssumption DEF Nonces
<1>3. \A a \in Addrs : s[a].nonce \in Nat
  BY BoundsAssumption DEF Accounts, Account, Nonces
<1>4. \A q \in rs : q.tx_hash # tx.hash
  BY <1>1, <1>2, <1>3, TxsAssumption DEF Spent
<1> QED BY Zenon, <1>4 DEF InsertReceipt

(* ... and all of them are of nonces that are spent.                       *)
LEMMA InsertReceiptFacts ==
  ASSUME NEW rs \in SUBSET Receipt, NEW s \in Accounts, Spent(rs, s),
         NEW tx \in Txs, ApplyTransaction(s, tx).ok,
         NEW r \in Receipt, r.tx_hash = tx.hash
  PROVE  /\ InsertReceipt(rs, r) \in SUBSET Receipt
         /\ rs \subseteq InsertReceipt(rs, r)
         /\ Spent(InsertReceipt(rs, r), ApplyTransaction(s, tx).accounts)
<1> DEFINE after == ApplyTransaction(s, tx).accounts
<1>1. /\ after \in Accounts
      /\ tx.nonce = s[tx.from].nonce
      /\ after[tx.from].nonce = tx.nonce + 1
      /\ \A a \in Addrs \ {tx.from} : after[a].nonce = s[a].nonce
  BY Zenon, ExecutionSpendsOneNonce DEF Accounts
<1>2. \A x \in Txs : x.from \in Addrs /\ x.nonce \in Nat
  BY TxFields, BoundsAssumption DEF Nonces
<1>3. \A a \in Addrs : s[a].nonce \in Nat
  BY BoundsAssumption DEF Accounts, Account, Nonces
<1>5. InsertReceipt(rs, r) = rs \cup {r}
  BY Zenon, NewReceipt
<1> HIDE DEF after
<1>6. \A x \in Txs : x.nonce < s[x.from].nonce => x.nonce < after[x.from].nonce
  BY <1>1, <1>2, <1>3
<1>7. tx.nonce < after[tx.from].nonce
  BY <1>1, <1>2
<1>8. Spent(rs \cup {r}, after)
  BY Zenon, <1>6, <1>7 DEF Spent
<1> QED BY Zenon, <1>5, <1>8 DEF after

-----------------------------------------------------------------------------

IInv == TypeOK /\ CommitInv

(* A node that was never started.                                          *)
LEMMA InitInv == Init => IInv
<1> SUFFICES ASSUME Init PROVE IInv
  BY Zenon
<1>1. TypeOK
  BY EmptyStateType, EmptyPoolFacts, NodeAssumption
     DEF Init, TypeOK, Stages, IdleThreads
<1>2. LockInv
  BY Zenon, ProcFacts DEF Init, LockInv, IdleThreads
<1>3. PhaseInv
  BY DEF Init, PhaseInv, Spent, Heights
<1>4. DiskInv
  BY Zenon DEF Init, DiskInv, Images
<1>5. WorkInv
  BY Zenon DEF Init, WorkInv, IdleThreads
<1>6. WriteInv
  BY Zenon DEF Init, WriteInv, IdleThreads, Swapping
<1>7. MemoryNotAheadOfDisk /\ NoPendingLimbo
  BY Zenon DEF Init, MemoryNotAheadOfDisk, NoPendingLimbo
<1> QED BY Zenon, <1>1, <1>2, <1>3, <1>4, <1>5, <1>6, <1>7 DEF IInv, CommitInv

(* The thread in the commit path is alone there.                           *)
LEMMA Holder ==
  ASSUME IInv, NEW t \in Procs, pc[t] # "idle"
  PROVE  /\ lock = t /\ lock # NoThread
         /\ work[t] \in Work
         /\ \A u \in Procs \ {t} : pc[u] = "idle"
BY Zenon, ProcFacts DEF IInv, CommitInv, LockInv, TypeOK

(* What the thread has prepared is a ledger.                               *)
LEMMA SnapshotFacts ==
  ASSUME NEW w \in Work
  PROVE  /\ SnapshotOf(w) \in Snapshot
         /\ SnapshotOf(w).blocks = w.blocks
         /\ SnapshotOf(w).receipts = w.receipts
         /\ SnapshotOf(w).accounts = w.accounts
         /\ \A f \in BOOLEAN : [data |-> SnapshotOf(w), synced |-> f] \in Image
<1>1. SnapshotOf(w) \in Snapshot
  BY Zenon, ChainIdAssumption DEF SnapshotOf, Snapshot, Work
<1> QED BY Zenon, <1>1 DEF SnapshotOf, Image

(* A ledger that is sound stays so while nothing new is acknowledged.      *)
LEMMA SoundFrame ==
  ASSUME acked' = acked, NEW ledger, SoundLedger(ledger)
  PROVE  SoundLedger(ledger)'
BY Zenon DEF SoundLedger, Spent, Heights, AckedIn, Holds

(* A system call of LedgerStore::persist that succeeds changes the disk    *)
(* and the stage only.                                                     *)
LEMMA PersistFrame ==
  ASSUME IInv, NEW t \in Procs, pc[t] \in Persisting,
         NEW stage \in {"sync", "rename", "syncdir", "state"},
         pc' = [pc EXCEPT ![t] = stage],
         UNCHANGED <<phase, memory, lock, work, lookup, acked, failed, faults>>,
         file # NoFile => file' # NoFile
  PROVE  /\ pc'[t] = stage
         /\ \A u \in Procs \ {t} : pc'[u] = "idle"
         /\ pc' \in [Procs -> Stages]
         /\ LockInv' /\ PhaseInv' /\ WorkInv' /\ NoPendingLimbo'
<1>1. /\ pc[t] # "idle" /\ stage # "idle" /\ stage \in Stages
      /\ stage \in Persisting \cup {"state"}
      /\ stage \notin {"blocks", "receipts", "height"}
      /\ pc[t] \notin {"blocks", "receipts", "height"}
  BY Zenon DEF Persisting, Stages, Swapping
<1>2. /\ lock = t /\ lock # NoThread
      /\ \A u \in Procs \ {t} : pc[u] = "idle"
      /\ pc \in [Procs -> Stages]
  BY Zenon, <1>1, Holder DEF IInv, TypeOK
<1>3. /\ pc'[t] = stage
      /\ \A u \in Procs \ {t} : pc'[u] = "idle"
      /\ pc' \in [Procs -> Stages]
  BY Zenon, <1>1, <1>2
<1>4. LockInv'
  BY Zenon, <1>1, <1>2, <1>3 DEF IInv, CommitInv, LockInv
<1>5. PhaseInv'
  BY Zenon DEF IInv, CommitInv, PhaseInv, Spent, Heights, AckedIn, Holds, memory
<1>6. WorkInv'
  BY ZenonT(30), <1>1, <1>2, <1>3, SoundFrame DEF IInv, CommitInv, WorkInv, memory
<1>7. NoPendingLimbo'
  BY Zenon, <1>2 DEF NoPendingLimbo
<1> QED BY Zenon, <1>3, <1>4, <1>5, <1>6, <1>7

(* The temporary file is the thread's own until it is renamed.             *)
LEMMA TempStep ==
  ASSUME IInv, NEW t \in Procs, WriteTemp(t) \/ SyncTemp(t)
  PROVE  IInv'
<1> DEFINE next(f) == [data |-> SnapshotOf(work[t]), synced |-> f]
<1>1. /\ pc[t] \in Persisting /\ pc[t] # "idle"
      /\ UNCHANGED <<phase, memory, lock, work, lookup, acked, failed, faults>>
      /\ UNCHANGED <<file, stable, renamed>>
  BY Zenon DEF WriteTemp, SyncTemp, Advance, Persisting
<1>2. work[t] \in Work /\ temp \in [Procs -> Image \cup {NoFile}]
  BY Zenon, <1>1, Holder DEF IInv, TypeOK
<1>3. \/ /\ pc' = [pc EXCEPT ![t] = "sync"]
         /\ temp' = [temp EXCEPT ![t] = next(FALSE)]
      \/ /\ pc' = [pc EXCEPT ![t] = "rename"]
         /\ temp' = [temp EXCEPT ![t] = next(TRUE)]
  <2>1. CASE WriteTemp(t)
    BY Zenon, <2>1 DEF WriteTemp, Advance
  <2>2. CASE SyncTemp(t)
    <3>1. pc[t] = "sync"
      BY Zenon, <2>2 DEF SyncTemp, Advance
    <3>2. temp[t] = next(FALSE)
      BY Zenon, <3>1 DEF IInv, CommitInv, WriteInv
    <3>3. temp[t].data = SnapshotOf(work[t])
      BY <3>2
    <3>4. temp' = [temp EXCEPT ![t] = [data |-> temp[t].data, synced |-> TRUE]]
      BY Zenon, <2>2 DEF SyncTemp
    <3> QED BY Zenon, <2>2, <3>3, <3>4 DEF SyncTemp, Advance
  <2> QED BY Zenon, <2>1, <2>2
<1>4. /\ pc'[t] \in {"sync", "rename"}
      /\ \A u \in Procs \ {t} : pc'[u] = "idle"
      /\ pc' \in [Procs -> Stages]
      /\ LockInv' /\ PhaseInv' /\ WorkInv' /\ NoPendingLimbo'
  BY Zenon, <1>1, <1>3, PersistFrame
<1>5. TypeOK'
  <2>1. next(TRUE) \in Image /\ next(FALSE) \in Image
    BY Zenon, <1>2, SnapshotFacts
  <2>2. temp' \in [Procs -> Image \cup {NoFile}]
    BY Zenon, <1>2, <1>3, <2>1
  <2> QED BY Zenon, <1>1, <1>4, <2>2 DEF IInv, TypeOK, memory
<1>6. DiskInv'
  BY Zenon, <1>1 DEF IInv, CommitInv, DiskInv, Images, SoundLedger, Spent, Heights,
              AckedIn, Holds
<1>7. WriteInv'
  BY Zenon, <1>1, <1>2, <1>3, <1>4 DEF WriteInv, Swapping
<1>8. MemoryNotAheadOfDisk'
  BY Zenon, <1>1 DEF IInv, CommitInv, MemoryNotAheadOfDisk, memory
<1> QED BY Zenon, <1>4, <1>5, <1>6, <1>7, <1>8 DEF IInv, CommitInv

(* The rename puts a complete, fsynced ledger in place.                    *)
LEMMA RenameStep ==
  ASSUME IInv, NEW t \in Procs, Rename(t)
  PROVE  IInv'
<1> DEFINE written == [data |-> SnapshotOf(work[t]), synced |-> TRUE]
<1>1. /\ pc[t] = "rename" /\ pc[t] \in Persisting /\ pc[t] # "idle"
      /\ pc' = [pc EXCEPT ![t] = "syncdir"]
      /\ UNCHANGED <<phase, memory, lock, work, lookup, acked, failed, faults>>
      /\ UNCHANGED stable
      /\ temp' = [temp EXCEPT ![t] = NoFile]
  BY Zenon DEF Rename, Advance, Persisting
<1>2. work[t] \in Work /\ temp \in [Procs -> Image \cup {NoFile}]
  BY Zenon, <1>1, Holder DEF IInv, TypeOK
<1>3. file' = written /\ renamed' = renamed \cup {written}
  BY Zenon, <1>1 DEF IInv, CommitInv, WriteInv, Rename
<1>4. /\ written \in Image /\ written # NoFile
      /\ SnapshotOf(work[t]) \in Snapshot /\ SnapshotOf(work[t]) # Torn
  BY Zenon, <1>2, SnapshotFacts, MarkerAssumption
<1>5. /\ pc'[t] = "syncdir"
      /\ \A u \in Procs \ {t} : pc'[u] = "idle"
      /\ pc' \in [Procs -> Stages]
      /\ LockInv' /\ PhaseInv' /\ WorkInv' /\ NoPendingLimbo'
  BY Zenon, <1>1, <1>3, <1>4, PersistFrame
<1>6. SoundLedger(work[t]) /\ SoundLedger(SnapshotOf(work[t]))
  BY Zenon, <1>1, <1>2, SnapshotFacts DEF IInv, CommitInv, WorkInv, SoundLedger
<1>7. TypeOK'
  BY Zenon, <1>1, <1>2, <1>3, <1>4, <1>5 DEF IInv, TypeOK, memory
<1>8. DiskInv'
  <2>1. ASSUME NEW image \in Images'
        PROVE  image.synced /\ image.data # Torn /\ SoundLedger(image.data)'
    <3>1. CASE image = written
      <4>1. image.synced = TRUE /\ image.data = SnapshotOf(work[t])
        BY Zenon, <3>1
      <4>2. SoundLedger(image.data)
        BY Zenon, <1>6, <4>1
      <4>3. SoundLedger(image.data)'
        BY Zenon, <1>1, <4>2 DEF SoundLedger, Spent, Heights, AckedIn, Holds
      <4> QED BY Zenon, <1>4, <4>1, <4>3
    <3>2. CASE image \in Images
      BY Zenon, <1>1, <3>2 DEF IInv, CommitInv, DiskInv, SoundLedger, Spent, Heights,
                        AckedIn, Holds
    <3> QED BY Zenon, <1>1, <1>3, <3>1, <3>2 DEF Images
  <2>2. acked' # {} => file' # NoFile /\ stable' # NoFile
    BY Zenon, <1>1, <1>3, <1>4 DEF IInv, CommitInv, DiskInv
  <2> QED BY Zenon, <2>1, <2>2 DEF DiskInv
<1>9. WriteInv'
  BY Zenon, <1>1, <1>3, <1>5 DEF WriteInv, Swapping
<1>10. MemoryNotAheadOfDisk'
  BY Zenon, <1>1, <1>2, <1>3, <1>4, SnapshotFacts
     DEF IInv, CommitInv, WorkInv, MemoryNotAheadOfDisk, memory
<1> QED BY Zenon, <1>5, <1>7, <1>8, <1>9, <1>10 DEF IInv, CommitInv

(* The fsync of the directory makes it the one that survives.              *)
LEMMA SyncDirStep ==
  ASSUME IInv, NEW t \in Procs, SyncDir(t)
  PROVE  IInv'
<1>1. /\ pc[t] = "syncdir" /\ pc[t] \in Persisting
      /\ pc' = [pc EXCEPT ![t] = "state"]
      /\ UNCHANGED <<phase, memory, lock, work, lookup, acked, failed, faults>>
      /\ UNCHANGED <<temp, file>> /\ stable' = file /\ renamed' = {}
  BY Zenon DEF SyncDir, Advance, Persisting
<1>2. /\ pc'[t] = "state"
      /\ \A u \in Procs \ {t} : pc'[u] = "idle"
      /\ pc' \in [Procs -> Stages]
      /\ LockInv' /\ PhaseInv' /\ WorkInv' /\ NoPendingLimbo'
  BY Zenon, <1>1, PersistFrame
<1>3. TypeOK'
  BY Zenon, <1>1, <1>2 DEF IInv, TypeOK, memory
<1>4. DiskInv'
  BY Zenon, <1>1 DEF IInv, CommitInv, DiskInv, Images, SoundLedger, Spent, Heights,
              AckedIn, Holds
<1>5. WriteInv'
  BY Zenon, <1>1, <1>2 DEF IInv, CommitInv, WriteInv, Swapping
<1>6. MemoryNotAheadOfDisk'
  BY Zenon, <1>1 DEF IInv, CommitInv, MemoryNotAheadOfDisk, memory
<1> QED BY Zenon, <1>2, <1>3, <1>4, <1>5, <1>6 DEF IInv, CommitInv

-----------------------------------------------------------------------------

(* The disk and what was acknowledged stay as they are.                    *)
LEMMA DiskFrame ==
  ASSUME IInv, UNCHANGED <<file, stable, renamed, acked>>
  PROVE  DiskInv'
BY Zenon DEF IInv, CommitInv, DiskInv, Images, SoundLedger, Spent, Heights, AckedIn, Holds

(* A swap within seal_next_block changes one view and the stage.           *)
LEMMA SwapFrame ==
  ASSUME IInv, NEW t \in Procs, pc[t] \in Swapping,
         NEW stage \in Swapping, pc' = [pc EXCEPT ![t] = stage],
         UNCHANGED <<phase, lock, work, disk, lookup, acked, failed, faults>>
  PROVE  /\ work[t] \in Work
         /\ pc'[t] = stage
         /\ \A u \in Procs \ {t} : pc'[u] = "idle"
         /\ pc' \in [Procs -> Stages]
         /\ file = [data |-> SnapshotOf(work[t]), synced |-> TRUE]
         /\ LockInv' /\ DiskInv' /\ WriteInv' /\ NoPendingLimbo'
<1>1. /\ pc[t] # "idle" /\ stage # "idle" /\ stage \in Stages
      /\ stage \notin Persisting
  BY Zenon DEF Persisting, Stages, Swapping
<1>2. /\ lock = t /\ lock # NoThread /\ work[t] \in Work
      /\ \A u \in Procs \ {t} : pc[u] = "idle"
      /\ pc \in [Procs -> Stages]
  BY Zenon, <1>1, Holder DEF IInv, TypeOK
<1>3. /\ pc'[t] = stage
      /\ \A u \in Procs \ {t} : pc'[u] = "idle"
      /\ pc' \in [Procs -> Stages]
  BY Zenon, <1>1, <1>2
<1>4. LockInv'
  BY Zenon, <1>1, <1>2, <1>3 DEF IInv, CommitInv, LockInv
<1>5. DiskInv'
  BY Zenon, DiskFrame DEF disk
<1>6. /\ file = [data |-> SnapshotOf(work[t]), synced |-> TRUE]
      /\ stable = file /\ renamed = {}
  BY Zenon DEF IInv, CommitInv, WriteInv
<1>7. WriteInv'
  BY Zenon, <1>1, <1>3, <1>6 DEF WriteInv, Swapping, Persisting, disk
<1>8. NoPendingLimbo'
  BY Zenon, <1>2 DEF NoPendingLimbo
<1> QED BY Zenon, <1>2, <1>3, <1>4, <1>5, <1>6, <1>7, <1>8

(* The new accounts, with the old receipts, still say what is spent.       *)
LEMMA SwapStateStep ==
  ASSUME IInv, NEW t \in Procs, SwapState(t)
  PROVE  IInv'
<1>1. /\ pc[t] = "state" /\ pc[t] \in Swapping
      /\ pc' = [pc EXCEPT ![t] = "pool"]
      /\ work[t].tx # NoTx /\ accounts' = work[t].accounts
      /\ UNCHANGED <<phase, pool, blocks, receipts, height>>
      /\ UNCHANGED <<phase, lock, work, disk, lookup, acked, failed, faults>>
  BY Zenon DEF SwapState, Advance, Swapping
<1>2. /\ work[t] \in Work /\ pc'[t] = "pool"
      /\ \A u \in Procs \ {t} : pc'[u] = "idle"
      /\ pc' \in [Procs -> Stages]
      /\ LockInv' /\ DiskInv' /\ WriteInv' /\ NoPendingLimbo'
  BY Zenon, <1>1, SwapFrame DEF Swapping
<1>3. TypeOK'
  BY Zenon, <1>1, <1>2 DEF IInv, TypeOK, Work, disk
<1>4. /\ Spent(work[t].receipts, work[t].accounts) /\ receipts \subseteq work[t].receipts
      /\ phase = "serving"
  BY Zenon, <1>1 DEF IInv, CommitInv, WorkInv, SoundLedger
<1>5. PhaseInv'
  BY Zenon, <1>1, <1>4 DEF IInv, CommitInv, PhaseInv, Spent, Heights, AckedIn, Holds, disk
<1>6. WorkInv'
  BY Zenon, <1>1, <1>2, SoundFrame DEF IInv, CommitInv, WorkInv
<1>7. MemoryNotAheadOfDisk'
  BY Zenon, <1>1 DEF IInv, CommitInv, MemoryNotAheadOfDisk, disk
<1> QED BY Zenon, <1>2, <1>3, <1>5, <1>6, <1>7 DEF IInv, CommitInv

(* The committed transaction leaves the pool empty.                        *)
LEMMA SwapPoolStep ==
  ASSUME IInv, NEW t \in Procs, SwapPool(t)
  PROVE  IInv'
<1>1. /\ pc[t] = "pool" /\ pc[t] \in Swapping
      /\ pc' = [pc EXCEPT ![t] = "blocks"]
      /\ pool' = PoolRemove(pool, work[t].tx)
      /\ UNCHANGED <<accounts, blocks, receipts, height>>
      /\ UNCHANGED <<phase, lock, work, disk, lookup, acked, failed, faults>>
  BY Zenon DEF SwapPool, Advance, Swapping
<1>2. /\ work[t] \in Work /\ pc'[t] = "blocks"
      /\ \A u \in Procs \ {t} : pc'[u] = "idle"
      /\ pc' \in [Procs -> Stages]
      /\ LockInv' /\ DiskInv' /\ WriteInv' /\ NoPendingLimbo'
  BY Zenon, <1>1, SwapFrame DEF Swapping
<1>3. work[t].tx # NoTx /\ pool = PoolInsert(EmptyPool, work[t].tx)
  BY Zenon, <1>1 DEF IInv, CommitInv, WorkInv, Persisting
<1>4. work[t].tx \in Txs
  BY Zenon, <1>2, <1>3 DEF Work
<1>5. pool' = EmptyPool
  BY Zenon, <1>1, <1>3, <1>4, RemoveFromSingleton
<1>6. TypeOK'
  BY Zenon, <1>1, <1>2, <1>5, EmptyPoolFacts DEF IInv, TypeOK, disk
<1>7. PhaseInv'
  BY Zenon, <1>1 DEF IInv, CommitInv, PhaseInv, Spent, Heights, AckedIn, Holds, disk
<1>8. WorkInv'
  BY ZenonT(30), <1>1, <1>2, <1>3, <1>5, SoundFrame DEF IInv, CommitInv, WorkInv
<1>9. MemoryNotAheadOfDisk'
  BY Zenon, <1>1 DEF IInv, CommitInv, MemoryNotAheadOfDisk, disk
<1> QED BY Zenon, <1>2, <1>6, <1>7, <1>8, <1>9 DEF IInv, CommitInv

(* A chain is the prefix of its own length.                                *)
LEMMA SubSeqFull == \A bs \in Seq(Block) : SubSeq(bs, 1, Len(bs)) = bs
OBVIOUS

(* The block becomes visible: it is on disk already.                       *)
LEMMA SwapBlocksStep ==
  ASSUME IInv, NEW t \in Procs, SwapBlocks(t)
  PROVE  IInv'
<1>1. /\ pc[t] = "blocks" /\ pc[t] \in Swapping
      /\ pc' = [pc EXCEPT ![t] = "receipts"]
      /\ blocks' = work[t].blocks
      /\ UNCHANGED <<accounts, pool, receipts, height>>
      /\ UNCHANGED <<phase, lock, work, disk, lookup, acked, failed, faults>>
  BY Zenon DEF SwapBlocks, Advance, Swapping
<1>2. /\ work[t] \in Work /\ pc'[t] = "receipts"
      /\ \A u \in Procs \ {t} : pc'[u] = "idle"
      /\ pc' \in [Procs -> Stages]
      /\ file = [data |-> SnapshotOf(work[t]), synced |-> TRUE]
      /\ LockInv' /\ DiskInv' /\ WriteInv' /\ NoPendingLimbo'
  BY Zenon, <1>1, SwapFrame DEF Swapping
<1>3. /\ work[t].tx # NoTx /\ phase = "serving" /\ SoundLedger(work[t])
      /\ pool = EmptyPool
  BY Zenon, <1>1 DEF IInv, CommitInv, WorkInv, Persisting
<1>4. /\ work[t].blocks \in Seq(Block)
      /\ Len(work[t].blocks) <= Len(work[t].blocks)
      /\ SubSeq(work[t].blocks, 1, Len(work[t].blocks)) = work[t].blocks
  BY <1>2, SubSeqFull DEF Work
<1>5. TypeOK'
  BY Zenon, <1>1, <1>2, <1>4 DEF IInv, TypeOK, disk
<1>6. PhaseInv'
  BY Zenon, <1>1, <1>3 DEF IInv, CommitInv, PhaseInv, SoundLedger, Spent, Heights,
                    AckedIn, Holds, disk
<1>7. WorkInv'
  BY ZenonT(30), <1>1, <1>2, <1>3, <1>4, SoundFrame DEF IInv, CommitInv, WorkInv
<1>8. MemoryNotAheadOfDisk'
  BY Zenon, <1>1, <1>2, <1>3, <1>4, SnapshotFacts
     DEF IInv, CommitInv, MemoryNotAheadOfDisk, disk
<1> QED BY Zenon, <1>2, <1>5, <1>6, <1>7, <1>8 DEF IInv, CommitInv

(* So does its receipt.                                                    *)
LEMMA SwapReceiptsStep ==
  ASSUME IInv, NEW t \in Procs, SwapReceipts(t)
  PROVE  IInv'
<1>1. /\ pc[t] = "receipts" /\ pc[t] \in Swapping
      /\ pc' = [pc EXCEPT ![t] = "height"]
      /\ receipts' = work[t].receipts
      /\ UNCHANGED <<accounts, pool, blocks, height>>
      /\ UNCHANGED <<phase, lock, work, disk, lookup, acked, failed, faults>>
  BY Zenon DEF SwapReceipts, Advance, Swapping
<1>2. /\ work[t] \in Work /\ pc'[t] = "height"
      /\ \A u \in Procs \ {t} : pc'[u] = "idle"
      /\ pc' \in [Procs -> Stages]
      /\ file = [data |-> SnapshotOf(work[t]), synced |-> TRUE]
      /\ LockInv' /\ DiskInv' /\ WriteInv' /\ NoPendingLimbo'
  BY Zenon, <1>1, SwapFrame DEF Swapping
<1>3. /\ work[t].tx # NoTx /\ phase = "serving" /\ SoundLedger(work[t])
      /\ pool = EmptyPool
  BY Zenon, <1>1 DEF IInv, CommitInv, WorkInv, Persisting
<1>4. TypeOK'
  BY Zenon, <1>1, <1>2 DEF IInv, TypeOK, Work, disk
<1>5. accounts' = work[t].accounts
  BY Zenon, <1>1, <1>3 DEF IInv, CommitInv, WorkInv
<1>6. PhaseInv'
  BY Zenon, <1>1, <1>3, <1>5 DEF IInv, CommitInv, PhaseInv, SoundLedger, Spent, Heights,
                    AckedIn, Holds, disk
<1>7. WorkInv'
  BY Zenon, <1>1, <1>2, <1>3, <1>5, SoundFrame DEF IInv, CommitInv, WorkInv
<1>8. MemoryNotAheadOfDisk'
  BY Zenon, <1>1, <1>2, <1>3, SnapshotFacts
     DEF IInv, CommitInv, MemoryNotAheadOfDisk, disk
<1> QED BY Zenon, <1>2, <1>4, <1>6, <1>7, <1>8 DEF IInv, CommitInv

(* The answer: the acknowledged block is in memory, in the ledger file and *)
(* in the one that survives a power loss.                                  *)
LEMMA SwapHeightStep ==
  ASSUME IInv, NEW t \in Procs, SwapHeight(t)
  PROVE  IInv'
<1> DEFINE top == Last(work[t].blocks)
<1>1. /\ pc[t] = "height" /\ pc[t] \in Swapping /\ pc[t] # "idle"
      /\ pc' = [pc EXCEPT ![t] = "idle"]
      /\ height' = top.height /\ lock' = NoThread
      /\ work' = [work EXCEPT ![t] = NoWork]
      /\ acked' = acked \cup {<<work[t].tx, top.height>>}
      /\ UNCHANGED <<phase, accounts, pool, blocks, receipts, temp, file, stable,
                     renamed, lookup, failed, faults>>
  BY Zenon DEF SwapHeight, Advance, Swapping, disk
<1>2. /\ work[t] \in Work
      /\ pc' = IdleThreads /\ pc' \in [Procs -> Stages]
      /\ \A u \in Procs : pc'[u] = "idle"
  BY Zenon, <1>1, Holder DEF IInv, TypeOK, IdleThreads, Stages
<1>3. /\ work[t].tx # NoTx /\ phase = "serving" /\ SoundLedger(work[t])
      /\ pool = EmptyPool /\ blocks = work[t].blocks /\ blocks # <<>>
      /\ top.tx = work[t].tx
  BY Zenon, <1>1 DEF IInv, CommitInv, WorkInv, Persisting
<1>4. /\ blocks \in Seq(Block)
      /\ top.height = Len(blocks) /\ Len(blocks) \in DOMAIN blocks
      /\ top.height \in Nat /\ work[t].tx \in Txs
  <2>1. blocks \in Seq(Block) /\ Heights(blocks) /\ work[t].tx \in Txs
    BY Zenon, <1>2, <1>3 DEF IInv, TypeOK, SoundLedger, Work
  <2>2. Len(blocks) \in Nat /\ Len(blocks) \in DOMAIN blocks
    BY <1>3, <2>1
  <2>3. top.height = Len(blocks)
    BY Zenon, <1>3, <2>1, <2>2 DEF Heights, Last
  <2> QED BY Zenon, <2>1, <2>2, <2>3
<1>5. Holds(blocks, work[t].tx, top.height)
  BY Zenon, <1>3, <1>4 DEF Holds, Last
<1>6. /\ file = [data |-> SnapshotOf(work[t]), synced |-> TRUE] /\ stable = file
      /\ renamed = {} /\ file.data.blocks = blocks
  <2>1. /\ file = [data |-> SnapshotOf(work[t]), synced |-> TRUE]
        /\ stable = file /\ renamed = {}
    BY Zenon, <1>1 DEF IInv, CommitInv, WriteInv
  <2>2. SnapshotOf(work[t]).blocks = work[t].blocks
    BY Zenon, <1>2, SnapshotFacts
  <2> QED BY Zenon, <1>3, <2>1, <2>2
<1>7. file # NoFile /\ AckedIn(blocks)
  BY Zenon, <1>3 DEF IInv, CommitInv, PhaseInv
<1>8. AckedIn(blocks)'
  BY <1>1, <1>5, <1>7 DEF AckedIn, Holds
<1>9. TypeOK'
  BY <1>1, <1>2, <1>4, ProcFacts DEF IInv, TypeOK
<1>10. LockInv'
  BY Zenon, <1>1, <1>2, ProcFacts DEF LockInv
<1>11. PhaseInv'
  BY Zenon, <1>1, <1>3, <1>7, <1>8 DEF IInv, CommitInv, PhaseInv, Spent, Heights
<1>12. DiskInv'
  <2>1. \A image \in Images' : image = file
    BY Zenon, <1>1, <1>6 DEF Images
  <2>2. /\ file.synced /\ file.data # Torn
        /\ Heights(file.data.blocks) /\ Spent(file.data.receipts, file.data.accounts)
    BY Zenon, <1>7 DEF IInv, CommitInv, DiskInv, Images, SoundLedger
  <2>3. AckedIn(file.data.blocks)'
    BY Zenon, <1>1, <1>6, <1>8 DEF AckedIn, Holds
  <2>4. SoundLedger(file.data)'
    BY Zenon, <1>1, <2>2, <2>3 DEF SoundLedger, Heights, Spent
  <2> QED BY Zenon, <1>1, <1>6, <1>7, <2>1, <2>2, <2>4 DEF DiskInv
<1>13. WorkInv' /\ WriteInv'
  BY Zenon, <1>2 DEF WorkInv, WriteInv, Swapping
<1>14. MemoryNotAheadOfDisk' /\ NoPendingLimbo'
  BY Zenon, <1>1, <1>3 DEF IInv, CommitInv, MemoryNotAheadOfDisk, NoPendingLimbo
<1> QED BY Zenon, <1>9, <1>10, <1>11, <1>12, <1>13, <1>14 DEF IInv, CommitInv

(* seed_accounts returns; at boot the node starts serving.                 *)
LEMMA SeededStep ==
  ASSUME IInv, NEW t \in Procs, Seeded(t)
  PROVE  IInv'
<1>1. /\ pc[t] = "state" /\ pc[t] \in Swapping /\ pc[t] # "idle"
      /\ pc' = [pc EXCEPT ![t] = "idle"]
      /\ work[t].tx = NoTx /\ accounts' = work[t].accounts
      /\ lock' = NoThread /\ work' = [work EXCEPT ![t] = NoWork]
      /\ phase' = "serving"
      /\ UNCHANGED <<pool, blocks, receipts, height, temp, file, stable,
                     renamed, lookup, acked, failed, faults>>
  BY Zenon DEF Seeded, Advance, Swapping, disk
<1>2. /\ work[t] \in Work /\ pc' \in [Procs -> Stages]
      /\ \A u \in Procs : pc'[u] = "idle"
  BY Zenon, <1>1, Holder DEF IInv, TypeOK, Stages
<1>3. /\ SoundLedger(work[t]) /\ pool = EmptyPool
      /\ blocks = work[t].blocks /\ receipts \subseteq work[t].receipts
  BY Zenon, <1>1 DEF IInv, CommitInv, WorkInv
<1>4. /\ file # NoFile
      /\ file.data.blocks = work[t].blocks /\ file.data.receipts = work[t].receipts
  <2>1. file = [data |-> SnapshotOf(work[t]), synced |-> TRUE]
    BY Zenon, <1>1 DEF IInv, CommitInv, WriteInv
  <2>2. file # NoFile
    BY Zenon, <1>2, <2>1, SnapshotFacts, MarkerAssumption
  <2>3. /\ SnapshotOf(work[t]).blocks = work[t].blocks
        /\ SnapshotOf(work[t]).receipts = work[t].receipts
    BY Zenon, <1>2, SnapshotFacts
  <2> QED BY Zenon, <2>1, <2>2, <2>3
<1>5. TypeOK'
  BY Zenon, <1>1, <1>2, ProcFacts DEF IInv, TypeOK, Work
<1>6. LockInv'
  BY Zenon, <1>1, <1>2, ProcFacts DEF LockInv
<1>7. PhaseInv'
  BY Zenon, <1>1, <1>3, <1>4 DEF IInv, CommitInv, PhaseInv, SoundLedger, Spent,
                          Heights, AckedIn, Holds
<1>8. DiskInv'
  BY Zenon, <1>1, DiskFrame
<1>9. WorkInv' /\ WriteInv'
  BY Zenon, <1>2 DEF WorkInv, WriteInv, Swapping
<1>10. SubSeq(blocks, 1, Len(blocks)) = blocks /\ Len(blocks) <= Len(blocks)
  BY SubSeqFull DEF IInv, TypeOK
<1>11. MemoryNotAheadOfDisk' /\ NoPendingLimbo'
  BY Zenon, <1>1, <1>3, <1>4, <1>10 DEF MemoryNotAheadOfDisk, NoPendingLimbo
<1> QED BY Zenon, <1>5, <1>6, <1>7, <1>8, <1>9, <1>11 DEF IInv, CommitInv

-----------------------------------------------------------------------------

(* The error path puts the pool back and touches no view and no ledger.    *)
LEMMA AbortStep ==
  ASSUME IInv, NEW t \in Procs, pc[t] \in Persisting, Abort(t),
         faults' \in 0..MaxFaults
  PROVE  IInv'
<1>1. /\ pc[t] # "idle" /\ pc[t] \notin {"blocks", "receipts", "height"}
      /\ pc' = [pc EXCEPT ![t] = "idle"]
      /\ lock' = NoThread /\ work' = [work EXCEPT ![t] = NoWork]
      /\ temp' = [temp EXCEPT ![t] = NoFile]
      /\ phase' = IF phase = "booting" THEN "down" ELSE phase
      /\ UNCHANGED <<accounts, blocks, receipts, height, file, stable, renamed,
                     lookup, acked>>
  BY Zenon DEF Abort, Persisting
<1>2. /\ work[t] \in Work /\ pc' \in [Procs -> Stages]
      /\ \A u \in Procs : pc'[u] = "idle"
  BY Zenon, <1>1, Holder DEF IInv, TypeOK, Stages
<1>3. pool' = EmptyPool /\ failed' \in SUBSET Txs
  <2>0. failed \in SUBSET Txs
    BY Zenon DEF IInv, TypeOK
  <2>1. CASE work[t].tx = NoTx
    BY Zenon, <1>1, <2>0, <2>1 DEF IInv, CommitInv, WorkInv, Abort
  <2>2. CASE work[t].tx # NoTx
    <3>1. /\ pool = PoolInsert(EmptyPool, work[t].tx)
          /\ work[t].previous = NoTx /\ work[t].displaced = NoTx
      BY Zenon, <1>1, <2>2 DEF IInv, CommitInv, WorkInv
    <3>2. work[t].tx \in Txs
      BY Zenon, <1>2, <2>2 DEF Work
    <3>3. /\ pool' = RestorePool(pool, work[t].tx, NoTx, NoTx)
          /\ failed' = failed \cup {work[t].tx}
      BY Zenon, <2>2, <3>1 DEF Abort
    <3> QED BY Zenon, <2>0, <3>1, <3>2, <3>3, RemoveFromSingleton
  <2> QED BY Zenon, <2>1, <2>2
<1>4. TypeOK'
  BY Zenon, <1>1, <1>2, <1>3, EmptyPoolFacts DEF IInv, TypeOK
<1>5. LockInv'
  BY Zenon, <1>1, <1>2, ProcFacts DEF LockInv
<1>6. PhaseInv'
  BY Zenon, <1>1, <1>3 DEF IInv, CommitInv, PhaseInv, Spent, Heights, AckedIn, Holds
<1>7. DiskInv'
  BY Zenon, <1>1, DiskFrame
<1>8. WorkInv' /\ WriteInv'
  BY <1>2 DEF WorkInv, WriteInv, Swapping
<1>9. MemoryNotAheadOfDisk' /\ NoPendingLimbo'
  BY Zenon, <1>1, <1>3 DEF IInv, CommitInv, MemoryNotAheadOfDisk, NoPendingLimbo
<1> QED BY Zenon, <1>4, <1>5, <1>6, <1>7, <1>8, <1>9 DEF IInv, CommitInv

-----------------------------------------------------------------------------

(* A free lock means that nobody is in the commit path.                    *)
LEMMA LockFree ==
  ASSUME IInv, lock = NoThread
  PROVE  pool = EmptyPool /\ \A u \in Procs : pc[u] = "idle"
BY Zenon, ProcFacts DEF IInv, CommitInv, LockInv, NoPendingLimbo

(* A thread enters the commit path with a ledger that extends the one in   *)
(* memory.                                                                 *)
LEMMA EnterStep ==
  ASSUME IInv, NEW t \in Procs, NEW w \in Work, lock = NoThread,
         lock' = t, work' = [work EXCEPT ![t] = w],
         pc' = [pc EXCEPT ![t] = "write"],
         UNCHANGED <<accounts, blocks, receipts, height, disk, lookup, acked, faults>>,
         pool' \in PoolType, failed' \in SUBSET Txs,
         SoundLedger(w), receipts \subseteq w.receipts,
         Len(blocks) <= Len(w.blocks), SubSeq(w.blocks, 1, Len(blocks)) = blocks,
         \/ /\ w.tx = NoTx /\ pool' = EmptyPool /\ blocks = w.blocks
            /\ \/ phase' = phase /\ phase = "serving"
               \/ phase' = "booting" /\ phase = "down" /\ t = Main
         \/ /\ w.tx # NoTx /\ phase' = phase /\ phase = "serving"
            /\ w.blocks # <<>> /\ Last(w.blocks).tx = w.tx
            /\ w.previous = NoTx /\ w.displaced = NoTx
            /\ pool' = PoolInsert(EmptyPool, w.tx)
  PROVE  IInv'
<1>1. /\ \A u \in Procs : pc[u] = "idle"
      /\ pc \in [Procs -> Stages] /\ work \in [Procs -> Work \cup {NoWork}]
  BY Zenon, LockFree DEF IInv, TypeOK
<1>2. /\ pc'[t] = "write" /\ pc'[t] # "idle"
      /\ \A u \in Procs \ {t} : pc'[u] = "idle"
      /\ pc' \in [Procs -> Stages]
      /\ work'[t] = w /\ work' \in [Procs -> Work \cup {NoWork}]
      /\ w # NoWork /\ t # NoThread
  BY Zenon, <1>1, ProcFacts, MarkerAssumption DEF Stages, Persisting
<1>3. TypeOK'
  BY Zenon, <1>2 DEF IInv, TypeOK, disk
<1>4. LockInv'
  BY Zenon, <1>2 DEF LockInv
<1>5. PhaseInv'
  BY Zenon, <1>2 DEF IInv, CommitInv, PhaseInv, Spent, Heights, AckedIn, Holds, disk
<1>6. DiskInv'
  BY Zenon, DiskFrame DEF disk
<1>7. WorkInv'
  <2> SUFFICES ASSUME NEW u \in Procs, pc'[u] # "idle"
               PROVE  /\ SoundLedger(w)' /\ receipts' \subseteq w.receipts
                      /\ Len(blocks') <= Len(w.blocks)
                      /\ SubSeq(w.blocks, 1, Len(blocks')) = blocks'
                      /\ u = t
    BY ZenonT(60), <1>2 DEF WorkInv, Persisting, SoundLedger, Spent, Heights, AckedIn, Holds
  <2>1. SoundLedger(w)'
    BY Zenon DEF SoundLedger, Spent, Heights, AckedIn, Holds
  <2> QED BY <1>2, <2>1
<1>8. WriteInv'
  BY Zenon, <1>2 DEF WriteInv, Swapping
<1>9. MemoryNotAheadOfDisk' /\ NoPendingLimbo'
  BY Zenon, <1>2 DEF IInv, CommitInv, MemoryNotAheadOfDisk, NoPendingLimbo, disk
<1> QED BY Zenon, <1>3, <1>4, <1>5, <1>6, <1>7, <1>8, <1>9 DEF IInv, CommitInv

(* A submission prepares the ledger with its block on top.                 *)
LEMMA SubmitStep ==
  ASSUME IInv, NEW t \in Threads, NEW tx \in Txs, Submit(t, tx)
  PROVE  IInv'
<1> DEFINE executed == ApplyTransaction(accounts, tx).accounts
           block == NextBlock(blocks, executed, tx)
           w == SealWork(tx)
<1>1. /\ t \in Procs /\ phase = "serving" /\ lock = NoThread
      /\ lock' = t /\ work' = [work EXCEPT ![t] = w]
      /\ pc' = [pc EXCEPT ![t] = "write"]
      /\ UNCHANGED <<phase, accounts, blocks, receipts, height, disk, lookup,
                     acked, faults>>
      /\ Admit(pool, tx).outcome = "accepted" /\ ApplyTransaction(accounts, tx).ok
      /\ pool' = Admit(pool, tx).pool /\ failed' = failed \ {tx}
  BY Zenon, ProcFacts DEF Submit, CanSubmit, Sealable, Admission
<1>2. /\ accounts \in Accounts /\ blocks \in Seq(Block) /\ receipts \in SUBSET Receipt
      /\ failed \in SUBSET Txs
  BY Zenon DEF IInv, TypeOK
<1>3. pool = EmptyPool
  BY Zenon, <1>1, LockFree
<1>4. /\ pool' = PoolInsert(EmptyPool, tx)
      /\ Admit(pool, tx).displaced = NoTx
      /\ Slot(pool, tx.from, tx.nonce) = NoTx
      /\ pool' \in PoolType
  <2>1. Admit(EmptyPool, tx).outcome = "accepted" /\ pool' = Admit(EmptyPool, tx).pool
    BY Zenon, <1>1, <1>3
  <2>2. /\ Admit(EmptyPool, tx).pool = PoolInsert(EmptyPool, tx)
        /\ Admit(EmptyPool, tx).displaced = NoTx
        /\ Slot(EmptyPool, tx.from, tx.nonce) = NoTx
    BY Zenon, <2>1, AdmitToEmpty
  <2>3. PoolInsert(EmptyPool, tx) \in PoolType
    BY Zenon, <2>2, EmptyPoolFacts, InsertFacts
  <2> QED BY Zenon, <1>3, <2>1, <2>2, <2>3
<1>5. Heights(blocks) /\ Spent(receipts, accounts) /\ AckedIn(blocks)
  BY Zenon, <1>1 DEF IInv, CommitInv, PhaseInv
<1>6. executed \in Accounts
  BY Zenon, <1>1, <1>2, ExecutionSpendsOneNonce DEF Accounts
<1>7. /\ block \in Block /\ block.height = Len(blocks) + 1 /\ block.tx = tx
      /\ ReceiptOf(block) \in Receipt /\ ReceiptOf(block).tx_hash = tx.hash
  BY Zenon, <1>2, <1>5, <1>6, NextBlockFacts
<1>8. /\ InsertReceipt(receipts, ReceiptOf(block)) \in SUBSET Receipt
      /\ receipts \subseteq InsertReceipt(receipts, ReceiptOf(block))
      /\ Spent(InsertReceipt(receipts, ReceiptOf(block)), executed)
  BY Zenon, <1>1, <1>2, <1>5, <1>7, InsertReceiptFacts
<1> HIDE DEF block, executed
<1>9. /\ Append(blocks, block) \in Seq(Block)
      /\ Len(Append(blocks, block)) = Len(blocks) + 1
      /\ Append(blocks, block) # <<>> /\ Last(Append(blocks, block)) = block
      /\ SubSeq(Append(blocks, block), 1, Len(blocks)) = blocks
      /\ Heights(Append(blocks, block)) /\ AckedIn(Append(blocks, block))
  BY Zenon, <1>2, <1>5, <1>7, AppendFacts
<1>10. w = [tx |-> tx, previous |-> NoTx, displaced |-> NoTx,
            accounts |-> executed, blocks |-> Append(blocks, block),
            receipts |-> InsertReceipt(receipts, ReceiptOf(block))]
  BY Zenon, <1>4 DEF SealWork, Admission, block, executed
<1>11. w \in Work /\ tx # NoTx
  <2> DEFINE bs == Append(blocks, block)
             rs == InsertReceipt(receipts, ReceiptOf(block))
  <2>1. /\ tx \in Txs \cup {NoTx} /\ NoTx \in Txs \cup {NoTx} /\ tx # NoTx
        /\ executed \in Accounts /\ bs \in Seq(Block) /\ rs \in SUBSET Receipt
    BY Zenon, <1>6, <1>8, <1>9, PoolAssumption
  <2> HIDE DEF bs, rs
  <2>2. [tx |-> tx, previous |-> NoTx, displaced |-> NoTx, accounts |-> executed,
         blocks |-> bs, receipts |-> rs] \in Work
    BY Zenon, <2>1 DEF Work
  <2> QED BY Zenon, <1>10, <2>1, <2>2 DEF bs, rs
<1>12. /\ w.tx = tx /\ w.previous = NoTx /\ w.displaced = NoTx
       /\ w.blocks = Append(blocks, block) /\ w.accounts = executed
       /\ w.receipts = InsertReceipt(receipts, ReceiptOf(block))
  BY <1>10
<1> HIDE DEF w
<1>13. SoundLedger(w)
  BY Zenon, <1>8, <1>9, <1>12 DEF SoundLedger
<1>14. Len(blocks) <= Len(w.blocks) /\ SubSeq(w.blocks, 1, Len(blocks)) = blocks
  <2>1. Len(w.blocks) = Len(blocks) + 1 /\ SubSeq(w.blocks, 1, Len(blocks)) = blocks
    BY Zenon, <1>9, <1>12
  <2>2. Len(blocks) \in Nat
    BY <1>2
  <2> QED BY <2>1, <2>2
<1>15. failed' \in SUBSET Txs
  BY Zenon, <1>1, <1>2
<1> QED
  BY Zenon, <1>1, <1>4, <1>7, <1>8, <1>9, <1>11, <1>12, <1>13, <1>14, <1>15, EnterStep

(* seed_accounts, at boot or on a live chain.                              *)
LEMMA SeedStep ==
  ASSUME IInv, Reseed \/ BootFresh
  PROVE  IInv'
<1> DEFINE w == SeedWork
<1>1. /\ lock = NoThread /\ lock' = Main /\ work' = [work EXCEPT ![Main] = w]
      /\ pc' = [pc EXCEPT ![Main] = "write"]
      /\ UNCHANGED <<memory, disk, lookup, acked, failed, faults>>
      /\ \/ phase' = phase /\ phase = "serving"
         \/ phase' = "booting" /\ phase = "down" /\ file = NoFile
  BY Zenon DEF Reseed, BootFresh, CanSubmit, IInv, CommitInv, PhaseInv
<1>2. /\ accounts \in Accounts /\ blocks \in Seq(Block) /\ receipts \in SUBSET Receipt
      /\ failed \in SUBSET Txs /\ pool \in PoolType
  BY Zenon DEF IInv, TypeOK
<1>3. pool = EmptyPool
  BY Zenon, <1>1, LockFree
<1>4. /\ w.tx = NoTx /\ w.accounts = SeedState(accounts)
      /\ w.blocks = blocks /\ w.receipts = receipts
  BY Zenon DEF SeedWork
<1>5. w \in Work
  BY Zenon, <1>2, SeedFacts DEF SeedWork, Work
<1>6. AckedIn(blocks)
  BY Zenon, <1>1 DEF IInv, CommitInv, PhaseInv, DiskInv, AckedIn
<1>7. Spent(receipts, SeedState(accounts))
  <2>1. Spent(receipts, accounts)
    BY Zenon DEF IInv, CommitInv, PhaseInv
  <2>2. \A tx \in Txs : SeedState(accounts)[tx.from].nonce = accounts[tx.from].nonce
    BY Zenon, <1>2, SeedFacts, TxKeys
  <2> QED BY Zenon, <2>1, <2>2 DEF Spent
<1> HIDE DEF w
<1>8. SoundLedger(w)
  BY Zenon, <1>4, <1>6, <1>7 DEF SoundLedger, IInv, CommitInv, PhaseInv
<1>9. Len(blocks) <= Len(w.blocks) /\ SubSeq(w.blocks, 1, Len(blocks)) = blocks
  BY <1>2, <1>4, SubSeqFull
<1>10. UNCHANGED <<accounts, pool, blocks, receipts, height>>
  BY Zenon, <1>1 DEF memory
<1>11. /\ pool' = EmptyPool /\ pool' \in PoolType /\ failed' \in SUBSET Txs
       /\ receipts \subseteq w.receipts /\ blocks = w.blocks
       /\ UNCHANGED <<accounts, blocks, receipts, height, disk, lookup, acked, faults>>
  BY Zenon, <1>1, <1>2, <1>3, <1>4, <1>10
<1> QED BY Zenon, <1>1, <1>4, <1>5, <1>8, <1>9, <1>11, ProcFacts, EnterStep

(* A refused submission, and a read, change nothing that matters.          *)
LEMMA QuietStep ==
  ASSUME IInv, pool' = pool,
         UNCHANGED <<phase, accounts, blocks, receipts, height, lock, pc, work,
                     disk, acked, failed, faults>>,
         \/ lookup' = lookup
         \/ phase = "serving" /\ lookup' \in [height : Nat, tx_hash : Nat]
         \/ lookup' = NoLookup
  PROVE  IInv'
<1>1. TypeOK'
  BY Zenon DEF IInv, TypeOK, disk
<1>2. LockInv' /\ NoPendingLimbo' /\ MemoryNotAheadOfDisk'
  BY Zenon DEF IInv, CommitInv, LockInv, NoPendingLimbo, MemoryNotAheadOfDisk, disk
<1>3. PhaseInv'
  BY Zenon DEF IInv, CommitInv, PhaseInv, Spent, Heights, AckedIn, Holds, disk
<1>4. DiskInv'
  BY Zenon, DiskFrame DEF disk
<1>5. WorkInv'
  <2>1. \A t \in Procs : pc[t] # "idle" => SoundLedger(work[t])'
    BY Zenon, SoundFrame DEF IInv, CommitInv, WorkInv
  <2> QED BY Zenon, <2>1 DEF IInv, CommitInv, WorkInv
<1>6. WriteInv'
  BY Zenon DEF IInv, CommitInv, WriteInv, disk
<1> QED BY Zenon, <1>1, <1>2, <1>3, <1>4, <1>5, <1>6 DEF IInv, CommitInv

(* A refused submission leaves the pool as it was.                         *)
LEMMA SubmitRefusedStep ==
  ASSUME IInv, NEW t \in Threads, NEW tx \in Txs, SubmitRefused(t, tx)
  PROVE  IInv'
<1>1. lock = NoThread /\ pool = EmptyPool
  BY Zenon, LockFree DEF SubmitRefused, CanSubmit
<1>2. pool' = pool
  BY Zenon, <1>1, AdmitToEmpty, RemoveFromSingleton DEF SubmitRefused, Admission
<1> QED BY Zenon, <1>2, QuietStep DEF SubmitRefused

(* Readers only remember what they saw.                                    *)
LEMMA ReadStep ==
  ASSUME IInv, ReadReceipt \/ ReadNumber \/ ReadBlock
  PROVE  IInv'
<1>1. pool' = pool /\ UNCHANGED <<phase, accounts, blocks, receipts, height, lock,
                                  pc, work, disk, acked, failed, faults>>
  BY Zenon DEF ReadReceipt, ReadNumber, ReadBlock, memory
<1>2. /\ receipts \in SUBSET Receipt /\ Len(blocks) \in Nat /\ height \in Nat
  BY DEF IInv, TypeOK
<1>3. \/ phase = "serving" /\ lookup' \in [height : Nat, tx_hash : Nat]
      \/ lookup' = NoLookup
  <2>1. CASE ReadReceipt
    BY <1>2, <2>1 DEF ReadReceipt, Receipt
  <2>2. CASE ReadNumber
    BY <1>2, <2>2 DEF ReadNumber
  <2>3. CASE ReadBlock
    BY Zenon, <2>3 DEF ReadBlock
  <2> QED BY Zenon, <2>1, <2>2, <2>3
<1> QED BY Zenon, <1>1, <1>3, QuietStep

(* A crash leaves one of the ledgers that were put in place; none was      *)
(* torn, as its content was fsynced before the rename.                     *)
LEMMA CrashStep ==
  ASSUME IInv, ProcessStops \/ PowerLoss
  PROVE  IInv'
<1>1. Halt
  BY Zenon DEF ProcessStops, PowerLoss
<1>2. \/ UNCHANGED <<file, stable, renamed>>
      \/ /\ file' \in {file, stable} \cup renamed
         /\ stable' = file' /\ renamed' = {}
  BY Zenon DEF ProcessStops, PowerLoss, IInv, CommitInv, DiskInv
<1>3. TypeOK'
  <2>1. /\ phase' = "down" /\ accounts' = EmptyState /\ pool' = EmptyPool
        /\ blocks' = <<>> /\ receipts' = {} /\ height' = 0 /\ lock' = NoThread
        /\ pc' = IdleThreads /\ work' = [t \in Procs |-> NoWork]
        /\ temp' = [t \in Procs |-> NoFile] /\ lookup' = NoLookup
        /\ UNCHANGED <<acked, failed>> /\ faults' = faults + 1 /\ faults < MaxFaults
    BY Zenon, <1>1 DEF Halt
  <2>2. /\ file' \in Image \cup {NoFile} /\ stable' \in Image \cup {NoFile}
        /\ renamed' \in SUBSET Image
        /\ acked' \in SUBSET (Txs \X Nat) /\ failed' \in SUBSET Txs
    BY Zenon, <1>2, <2>1 DEF IInv, TypeOK
  <2>3. faults' \in 0..MaxFaults
    BY <2>1, NodeAssumption DEF IInv, TypeOK
  <2>4. pc' \in [Procs -> Stages]
    BY Zenon, <2>1 DEF IdleThreads, Stages
  <2>5. blocks' \in Seq(Block) /\ receipts' \in SUBSET Receipt /\ height' \in Nat
    BY <2>1
  <2> QED
    BY Zenon, <2>1, <2>2, <2>3, <2>4, <2>5, EmptyStateType, EmptyPoolFacts DEF TypeOK
<1>4. LockInv'
  BY Zenon, <1>1, ProcFacts DEF Halt, LockInv, IdleThreads
<1>5. PhaseInv'
  <2>1. /\ phase' = "down" /\ accounts' = EmptyState /\ blocks' = <<>>
        /\ receipts' = {} /\ lock' = NoThread /\ lookup' = NoLookup
    BY Zenon, <1>1 DEF Halt
  <2>2. Spent(receipts, accounts)' /\ Heights(blocks)'
    BY <2>1 DEF Spent, Heights
  <2> QED BY Zenon, <2>1, <2>2 DEF PhaseInv
<1>6. DiskInv'
  <2>1. Images' \subseteq Images /\ acked' = acked
    BY Zenon, <1>1, <1>2 DEF Images, Halt
  <2>2. acked' # {} => file' # NoFile /\ stable' # NoFile
    BY Zenon, <1>2, <2>1, MarkerAssumption DEF IInv, TypeOK, CommitInv, DiskInv
  <2> QED
    BY Zenon, <2>1, <2>2 DEF IInv, CommitInv, DiskInv, SoundLedger, Spent, Heights,
                      AckedIn, Holds
<1>7. WorkInv' /\ WriteInv'
  BY Zenon, <1>1 DEF Halt, WorkInv, WriteInv, IdleThreads, Swapping
<1>8. MemoryNotAheadOfDisk' /\ NoPendingLimbo'
  BY Zenon, <1>1 DEF Halt, MemoryNotAheadOfDisk, NoPendingLimbo
<1> QED BY Zenon, <1>3, <1>4, <1>5, <1>6, <1>7, <1>8 DEF IInv, CommitInv

(* A restart shows exactly the ledger on disk.                             *)
LEMMA BootRestoreStep ==
  ASSUME IInv, BootRestore
  PROVE  IInv'
<1>1. /\ phase = "down" /\ file # NoFile /\ phase' = "serving"
      /\ accounts' = file.data.accounts /\ pool' = EmptyPool
      /\ blocks' = file.data.blocks /\ receipts' = file.data.receipts
      /\ height' = IF blocks' = <<>> THEN 0 ELSE Last(blocks').height
      /\ UNCHANGED <<lock, pc, work, temp, file, stable, renamed, lookup,
                     acked, failed, faults>>
  BY Zenon DEF BootRestore, disk
<1>2. file.data \in Snapshot /\ SoundLedger(file.data)
  BY Zenon, <1>1 DEF IInv, CommitInv, DiskInv, TypeOK, Image, Images
<1>3. lock = NoThread /\ \A u \in Procs : pc[u] = "idle"
  BY Zenon, <1>1, LockFree DEF IInv, CommitInv, PhaseInv
<1>4. /\ blocks' \in Seq(Block) /\ Len(blocks') \in Nat
      /\ SubSeq(blocks', 1, Len(blocks')) = blocks'
      /\ accounts' \in Accounts /\ receipts' \in SUBSET Receipt
  <2>1. /\ file.data.blocks \in Seq(Block) /\ file.data.accounts \in Accounts
        /\ file.data.receipts \in SUBSET Receipt
    BY Zenon, <1>2 DEF Snapshot
  <2> QED BY <1>1, <2>1, SubSeqFull
<1>5. height' \in Nat
  <2>1. \A bs \in Seq(Block) : bs # <<>> => bs[Len(bs)] \in Block
    OBVIOUS
  <2>2. \A bs \in Seq(Block) : bs # <<>> => Last(bs).height \in Nat
    BY Zenon, <2>1 DEF Last, Block
  <2> QED BY Zenon, <1>1, <1>4, <2>2
<1>6. TypeOK'
  BY Zenon, <1>1, <1>4, <1>5, EmptyPoolFacts DEF IInv, TypeOK
<1>7. LockInv'
  BY Zenon, <1>1 DEF IInv, CommitInv, LockInv
<1>8. PhaseInv'
  BY Zenon, <1>1, <1>2, <1>3 DEF PhaseInv, SoundLedger, Spent, Heights, AckedIn, Holds
<1>9. DiskInv'
  BY Zenon, <1>1, DiskFrame
<1>10. WorkInv' /\ WriteInv'
  BY Zenon, <1>1, <1>3 DEF WorkInv, WriteInv, Swapping
<1>11. MemoryNotAheadOfDisk' /\ NoPendingLimbo'
  BY <1>1, <1>4 DEF MemoryNotAheadOfDisk, NoPendingLimbo
<1> QED BY Zenon, <1>6, <1>7, <1>8, <1>9, <1>10, <1>11 DEF IInv, CommitInv

-----------------------------------------------------------------------------

(* The commit path keeps its invariant, whatever threads, failing system   *)
(* calls and crashes do.                                                   *)
THEOREM CommitInvHolds == Spec => []IInv
<1>1. IInv /\ [Next]_vars => IInv'
  <2> SUFFICES ASSUME IInv, [Next]_vars PROVE IInv'
    BY Zenon
  <2>1. ASSUME NEW t \in Threads, NEW tx \in Txs,
               Submit(t, tx) \/ SubmitRefused(t, tx)
        PROVE  IInv'
    BY Zenon, <2>1, SubmitStep, SubmitRefusedStep
  <2>2. ASSUME NEW t \in Procs, Step(t) PROVE IInv'
    <3>1. CASE WriteTemp(t) \/ SyncTemp(t)
      BY Zenon, <3>1, TempStep
    <3>2. CASE Rename(t)
      BY Zenon, <3>2, RenameStep
    <3>3. CASE SyncDir(t)
      BY Zenon, <3>3, SyncDirStep
    <3>4. CASE SwapState(t)
      BY Zenon, <3>4, SwapStateStep
    <3>5. CASE SwapPool(t)
      BY Zenon, <3>5, SwapPoolStep
    <3>6. CASE SwapBlocks(t)
      BY Zenon, <3>6, SwapBlocksStep
    <3>7. CASE SwapReceipts(t)
      BY Zenon, <3>7, SwapReceiptsStep
    <3>8. CASE SwapHeight(t)
      BY Zenon, <3>8, SwapHeightStep
    <3>9. CASE Seeded(t)
      BY Zenon, <3>9, SeededStep
    <3>10. CASE TooLarge(t)
      <4>1. pc[t] \in Persisting /\ Abort(t) /\ faults' \in 0..MaxFaults
        BY Zenon, <3>10 DEF TooLarge, Persisting, IInv, TypeOK
      <4> QED BY Zenon, <4>1, AbortStep
    <3> QED
      BY Zenon, <2>2, <3>1, <3>2, <3>3, <3>4, <3>5, <3>6, <3>7, <3>8, <3>9, <3>10
         DEF Step
  <2>3. ASSUME NEW t \in Procs, IOError(t) PROVE IInv'
    <3>1. pc[t] \in Persisting /\ Abort(t) /\ faults' \in 0..MaxFaults
      BY <2>3, NodeAssumption DEF IOError, IInv, TypeOK
    <3> QED BY Zenon, <3>1, AbortStep
  <2>4. CASE Reseed \/ BootFresh
    BY Zenon, <2>4, SeedStep
  <2>5. CASE ReadReceipt \/ ReadNumber \/ ReadBlock
    BY Zenon, <2>5, ReadStep
  <2>6. CASE ProcessStops \/ PowerLoss
    BY Zenon, <2>6, CrashStep
  <2>7. CASE BootRestore
    BY Zenon, <2>7, BootRestoreStep
  <2>8. CASE UNCHANGED vars
    BY Zenon, <2>8, QuietStep DEF vars, memory
  <2> QED BY Zenon, <2>1, <2>2, <2>3, <2>4, <2>5, <2>6, <2>7, <2>8 DEF Next, Running
<1> QED BY <1>1, InitInv, PTL DEF Spec

(* Every variable of the node keeps its type.                              *)
THEOREM TypesHold == Spec => []TypeOK
<1>1. IInv => TypeOK
  BY Zenon DEF IInv
<1> QED BY <1>1, CommitInvHolds, PTL

(* No failed or interrupted persist leaves memory ahead of the disk.       *)
THEOREM MemoryIsBehindDisk == Spec => []MemoryNotAheadOfDisk
<1>1. IInv => MemoryNotAheadOfDisk
  BY Zenon DEF IInv, CommitInv
<1> QED BY <1>1, CommitInvHolds, PTL

(* An answer with a hash is durable: the block survives every sequence of  *)
(* crashes, power losses, failed writes and later commits.                 *)
THEOREM AcknowledgedIsDurable == Spec => []AckedIsDurable
<1>1. IInv => AckedIsDurable
  <2> SUFFICES ASSUME IInv, NEW entry \in acked
               PROVE  /\ NoFile \notin {file, stable}
                      /\ \A image \in Images :
                           Holds(image.data.blocks, entry[1], entry[2])
    BY Zenon DEF AckedIsDurable
  <2>1. file # NoFile /\ stable # NoFile
    BY Zenon DEF IInv, CommitInv, DiskInv
  <2>2. \A image \in Images : AckedIn(image.data.blocks)
    BY Zenon DEF IInv, CommitInv, DiskInv, SoundLedger
  <2> QED BY Zenon, <2>1, <2>2 DEF AckedIn
<1> QED BY <1>1, CommitInvHolds, PTL

(* Outside the commit path the pool is empty: nothing stays pending.       *)
THEOREM NoLimbo == Spec => []NoPendingLimbo
<1>1. IInv => NoPendingLimbo
  BY Zenon DEF IInv, CommitInv
<1> QED BY <1>1, CommitInvHolds, PTL

-----------------------------------------------------------------------------
(* Re-execution of a log.                                                  *)

(* g holds the states after each of the first n transactions of l.         *)
Replays(g, l, n) ==
  g = [i \in 0..n |-> IF i = 0 THEN Log!GenesisState
                      ELSE Log!ApplyTransaction(g[i - 1], l[i]).accounts]

Agree(l, m, n) == \A i \in 1..n : l[i] = m[i]

(* Two such tables agree as far as their logs do.                          *)
LEMMA ReplayUnique ==
  ASSUME NEW l, NEW m, NEW p \in Nat, NEW q \in Nat, NEW n \in Nat, n <= p, n <= q,
         Agree(l, m, n),
         NEW g, NEW h, Replays(g, l, p), Replays(h, m, q)
  PROVE  \A i \in 0..n : g[i] = h[i]
<1> DEFINE Bad == {i \in 0..n : g[i] # h[i]}
<1> SUFFICES ASSUME Bad # {} PROVE FALSE
  BY Zenon
<1>1. Bad \subseteq Nat
  OBVIOUS
<1>2. PICK i \in Bad : \A j \in Bad : i <= j
  BY <1>1, Smallest, Zenon
<1>3. CASE i = 0
  BY <1>3 DEF Replays
<1>4. CASE i # 0
  <2>1. i \in 1..n /\ i - 1 \in 0..n /\ i - 1 \notin Bad /\ i \in 0..p /\ i \in 0..q
    BY <1>2, <1>4
  <2>2. g[i - 1] = h[i - 1] /\ l[i] = m[i]
    BY Zenon, <2>1 DEF Agree
  <2>3. /\ g[i] = Log!ApplyTransaction(g[i - 1], l[i]).accounts
        /\ h[i] = Log!ApplyTransaction(h[i - 1], m[i]).accounts
    BY <1>4, <2>1 DEF Replays
  <2> QED BY Zenon, <2>2, <2>3
<1> QED BY Zenon, <1>3, <1>4

(* There is one.                                                           *)
LEMMA ReplayExists ==
  ASSUME NEW l, NEW n \in Nat
  PROVE  \E g : Replays(g, l, n)
<1> DEFINE Bad == {k \in Nat : ~ \E g : Replays(g, l, k)}
<1> SUFFICES ASSUME Bad # {} PROVE FALSE
  BY Zenon
<1>1. Bad \subseteq Nat
  BY Zenon
<1>2. PICK k \in Bad : \A j \in Bad : k <= j
  BY <1>1, Smallest, Zenon
<1>3. CASE k = 0
  <2> DEFINE g == [i \in 0..0 |-> Log!GenesisState]
  <2>1. Replays(g, l, 0)
    BY DEF Replays
  <2> QED BY Zenon, <1>2, <1>3, <2>1
<1>4. CASE k # 0
  <2>1. k \in Nat /\ k - 1 \in Nat /\ k - 1 \notin Bad
    BY <1>2, <1>4
  <2>2. PICK h : Replays(h, l, k - 1)
    BY Zenon, <2>1
  <2> DEFINE g == [i \in 0..k |->
                     IF i = k THEN Log!ApplyTransaction(h[k - 1], l[k]).accounts ELSE h[i]]
  <2>3. \A i \in 0..(k - 1) :
          h[i] = IF i = 0 THEN Log!GenesisState
                 ELSE Log!ApplyTransaction(h[i - 1], l[i]).accounts
    BY Zenon, <2>2 DEF Replays
  <2>4. \A i \in 0..k : i # 0 => i - 1 \in 0..k /\ i - 1 # k /\ (i # k => i \in 0..(k - 1))
    BY <2>1
  <2>5. \A i \in 0..k :
          g[i] = IF i = 0 THEN Log!GenesisState
                 ELSE Log!ApplyTransaction(g[i - 1], l[i]).accounts
    <3> SUFFICES ASSUME NEW i \in 0..k
                 PROVE  g[i] = IF i = 0 THEN Log!GenesisState
                               ELSE Log!ApplyTransaction(g[i - 1], l[i]).accounts
      BY Zenon
    <3>1. CASE i = 0
      <4>1. 0 \in 0..k /\ 0 \in 0..(k - 1) /\ 0 # k
        BY <1>4, <2>1
      <4>2. g[0] = h[0] /\ h[0] = Log!GenesisState
        BY Zenon, <2>3, <4>1
      <4> QED BY Zenon, <3>1, <4>2
    <3>2. CASE i # 0 /\ i # k
      <4>1. g[i - 1] = h[i - 1] /\ g[i] = h[i]
        BY Zenon, <2>4, <3>2
      <4> QED BY Zenon, <2>3, <2>4, <3>2, <4>1
    <3>3. CASE i # 0 /\ i = k
      <4>1. g[i - 1] = h[i - 1] /\ g[i] = Log!ApplyTransaction(h[k - 1], l[k]).accounts
        BY Zenon, <2>4, <3>3
      <4> QED BY Zenon, <3>3, <4>1
    <3> QED BY Zenon, <3>1, <3>2, <3>3
  <2>6. Replays(g, l, k)
    BY Zenon, <2>5 DEF Replays
  <2> QED BY Zenon, <1>2, <2>6
<1> QED BY Zenon, <1>3, <1>4

LEMMA ReplayTable ==
  ASSUME NEW l, Len(l) \in Nat
  PROVE  \E g : Replays(g, l, Len(l)) /\ Log!Replay(l) = g[Len(l)]
<1> DEFINE g == CHOOSE h : Replays(h, l, Len(l))
<1>1. Replays(g, l, Len(l))
  BY Zenon, ReplayExists
<1>2. Log!Replay(l) = g[Len(l)]
  BY Zenon DEF Log!Replay, Replays
<1> HIDE DEF g
<1> QED BY Zenon, <1>1, <1>2

(* The abstract log executes transactions as the node does.                *)
LEMMA SameExecution ==
  \A s, tx : Log!ApplyTransaction(s, tx) = ApplyTransaction(s, tx)
BY DEF Log!ApplyTransaction, ApplyTransaction, Log!Executable, Executable, Log!Fee, Fee,
       Log!TotalCost, TotalCost, Log!EnsureBalance, EnsureBalance, Log!ApplyTransfer,
       ApplyTransfer, Log!Debit, Debit

LEMMA SameGenesis == Log!GenesisState = SeedState(EmptyState)
<1>1. \A a \in Addrs : \A v : [EmptyState[a] EXCEPT !.balance = v] = [nonce |-> 0, balance |-> v]
  BY DEF EmptyState
<1>2. \A a \in Addrs : EmptyState[a] = [nonce |-> 0, balance |-> 0]
  BY Zenon DEF EmptyState
<1> QED BY Zenon, <1>1, <1>2 DEF Log!GenesisState, SeedState

(* The state of the empty log, and of a log with a transaction on top.     *)
LEMMA ReplayEmpty == Log!Replay(<<>>) = SeedState(EmptyState)
<1>1. Len(<<>>) = 0
  BY Zenon
<1>2. PICK g : Replays(g, <<>>, 0) /\ Log!Replay(<<>>) = g[0]
  BY Zenon, <1>1, ReplayTable
<1>3. g[0] = Log!GenesisState
  <2>1. 0 \in 0..0
    OBVIOUS
  <2> QED BY Zenon, <1>2, <2>1 DEF Replays
<1> QED BY Zenon, <1>2, <1>3, SameGenesis

LEMMA ReplayAppend ==
  ASSUME NEW l \in Seq(Txs), NEW tx \in Txs
  PROVE  Log!Replay(Append(l, tx)) = ApplyTransaction(Log!Replay(l), tx).accounts
<1> DEFINE m == Append(l, tx)
           n == Len(l)
<1>1. /\ n \in Nat /\ Len(m) = n + 1 /\ Len(m) \in Nat /\ m[n + 1] = tx
      /\ \A i \in 1..n : l[i] = m[i]
  OBVIOUS
<1> HIDE DEF m
<1>2. PICK g : Replays(g, l, n) /\ Log!Replay(l) = g[n]
  BY Zenon, <1>1, ReplayTable
<1>3. PICK h : Replays(h, m, n + 1) /\ Log!Replay(m) = h[n + 1]
  BY Zenon, <1>1, ReplayTable
<1> HIDE DEF n
<1>4. \A i \in 0..n : g[i] = h[i]
  <2> DEFINE k == n + 1
  <2>1. n \in Nat /\ k \in Nat /\ n <= n /\ n <= k /\ Replays(h, m, k)
    BY <1>1, <1>3
  <2> HIDE DEF k
  <2>2. Replays(g, l, n) /\ Agree(l, m, n)
    BY Zenon, <1>1, <1>2 DEF Agree
  <2> QED BY ONLY <2>1, <2>2, ReplayUnique
<1>5. h[n + 1] = Log!ApplyTransaction(h[n], m[n + 1]).accounts
  <2>1. n + 1 \in 0..(n + 1) /\ n + 1 # 0 /\ (n + 1) - 1 = n
    BY <1>1
  <2>2. h[n + 1] = IF n + 1 = 0 THEN Log!GenesisState
                   ELSE Log!ApplyTransaction(h[(n + 1) - 1], m[n + 1]).accounts
    BY Zenon, <1>3, <2>1 DEF Replays
  <2> QED BY Zenon, <2>1, <2>2
<1>6. g[n] = h[n]
  BY <1>1, <1>4
<1> QED BY Zenon, <1>1, <1>2, <1>3, <1>5, <1>6, SameExecution DEF m

-----------------------------------------------------------------------------
(* Sums over the addresses and over a chain.                               *)

(* Terms that are zero add nothing.                                        *)
LEMMA SumRestrict ==
  ASSUME NEW T, IsFiniteSet(T), NEW S, S \subseteq T, NEW f, \A x \in T : f[x] \in Int,
         \A x \in T \ S : f[x] = 0
  PROVE  Sum(f, T) = Sum(f, S)
<1> DEFINE Bad == {U \in SUBSET (T \ S) : Sum(f, S \cup U) # Sum(f, S)}
<1>0. S \cup (T \ S) = T /\ S \cup {} = S
  BY Zenon
<1>a. ASSUME Bad = {} PROVE Sum(f, T) = Sum(f, S)
  <2>1. T \ S \in SUBSET (T \ S) /\ T \ S \notin Bad
    BY Zenon, <1>a
  <2>2. Sum(f, S \cup (T \ S)) = Sum(f, S)
    BY Zenon, <2>1
  <2> QED BY Zenon, <1>0, <2>2
<1> SUFFICES ASSUME Bad # {} PROVE FALSE
  BY Zenon, <1>a
<1>1. /\ Bad \subseteq SUBSET (T \ S)
      /\ \A U \in SUBSET (T \ S) : U \notin Bad => Sum(f, S \cup U) = Sum(f, S)
      /\ \A U \in Bad : U \subseteq T \ S /\ Sum(f, S \cup U) # Sum(f, S)
  BY Zenon
<1> HIDE DEF Bad
<1>2. IsFiniteSet(T \ S)
  BY Zenon, FS_Subset
<1>3. PICK U \in Bad : \A V \in Bad : V \subseteq U => V = U
  BY Zenon, <1>1, <1>2, MinimalSubset
<1>4. U # {}
  BY Zenon, <1>0, <1>1
<1>5. PICK x \in U : TRUE
  BY Zenon, <1>4
<1>6. /\ U \ {x} \subseteq T \ S /\ U \ {x} \subseteq U /\ U \ {x} # U
      /\ x \in S \cup U /\ (S \cup U) \ {x} = S \cup (U \ {x}) /\ f[x] = 0
  BY Zenon, <1>1, <1>5
<1>7. IsFiniteSet(S \cup U) /\ \A y \in S \cup U : f[y] \in Int
  <2>1. S \cup U \subseteq T
    BY Zenon, <1>1
  <2> QED BY Zenon, <2>1, FS_Subset
<1>8. Sum(f, S \cup U) = f[x] + Sum(f, S \cup (U \ {x}))
  BY <1>6, <1>7, SumTake
<1>9. Sum(f, S \cup (U \ {x})) = Sum(f, S)
  BY Zenon, <1>1, <1>3, <1>6
<1>10. Sum(f, S) \in Int
  <2>1. IsFiniteSet(S) /\ \A y \in S : f[y] \in Int
    BY Zenon, FS_Subset
  <2> QED BY Zenon, <2>1, SumTake
<1>11. Sum(f, S \cup U) = Sum(f, S)
  <2>1. f[x] = 0
    BY Zenon, <1>6
  <2> QED BY ONLY <1>8, <1>9, <1>10, <2>1
<1> QED BY Zenon, <1>1, <1>11

FeeList(bs) == [i \in DOMAIN bs |-> Fee(bs[i].tx)]

(* The fees of a chain are the sum of the fees of its blocks.              *)
LEMMA FeesAreSum ==
  ASSUME NEW bs, IsFiniteSet(DOMAIN bs)
  PROVE  FeesOf(bs) = Sum(FeeList(bs), DOMAIN bs)
<1> DEFINE D == DOMAIN bs
           f == [i \in D |-> Fee(bs[i].tx)]
           F(g) == [T \in SUBSET D |->
              IF T = {} THEN 0 ELSE Fee(bs[Pick(T)].tx) + g[T \ {Pick(T)}]]
           h == CHOOSE g : g = F(g)
<1>1. FeesOf(bs) = h[D]
  BY Zenon DEF FeesOf, MapThenSumSet, MapThenFoldSet, Pick
<1>2. \A T \in SUBSET D : T # {} => f[Pick(T)] = Fee(bs[Pick(T)].tx)
  BY Zenon, PickIn
<1> HIDE DEF f
<1>3. \A g : g = F(g) <=> IsSum(g, f, D)
  BY Zenon, <1>2 DEF IsSum
<1>4. \E g : IsSum(g, f, D)
  BY Zenon, SumExists
<1>5. IsSum(h, f, D)
  BY Zenon, <1>3, <1>4
<1> HIDE DEF h
<1>6. FeeList(bs) = f
  BY Zenon DEF FeeList, f
<1>7. h[D] = Sum(f, D)
  BY Zenon, <1>5, SumExists, SumUnique DEF Sum
<1> QED BY Zenon, <1>1, <1>6, <1>7

LEMMA ChainDomain ==
  ASSUME NEW bs \in Seq(Block)
  PROVE  /\ DOMAIN bs = 1..Len(bs) /\ Len(bs) \in Nat /\ IsFiniteSet(DOMAIN bs)
         /\ \A i \in DOMAIN bs : bs[i] \in Block /\ bs[i].tx \in Txs
<1>1. DOMAIN bs = 1..Len(bs) /\ Len(bs) \in Nat
  OBVIOUS
<1>2. 1 \in Int /\ Len(bs) \in Int
  BY <1>1
<1>3. IsFiniteSet(1..Len(bs))
  BY <1>2, FS_Interval, Zenon
<1>4. \A i \in DOMAIN bs : bs[i] \in Block
  BY <1>1
<1>5. \A b \in Block : b.tx \in Txs
  BY Zenon DEF Block
<1> QED BY Zenon, <1>1, <1>3, <1>4, <1>5

LEMMA FeesEmpty == FeesOf(<<>>) = 0
<1>1. DOMAIN <<>> = {}
  OBVIOUS
<1>2. IsFiniteSet({})
  BY Zenon, FS_EmptySet
<1>3. Sum(FeeList(<<>>), {}) = 0
  BY Zenon, <1>2, SumRec
<1> QED BY Zenon, <1>1, <1>2, <1>3, FeesAreSum

LEMMA FeesAppend ==
  ASSUME NEW bs \in Seq(Block), NEW b \in Block
  PROVE  FeesOf(bs) \in Int /\ FeesOf(Append(bs, b)) = FeesOf(bs) + Fee(b.tx)
<1> DEFINE cs == Append(bs, b)
           n == Len(bs) + 1
           f == FeeList(bs)
           g == FeeList(cs)
           D == DOMAIN bs
<1>1. cs \in Seq(Block) /\ DOMAIN cs = D \cup {n} /\ n \notin D /\ cs[n] = b
  BY ChainDomain, AppendFacts
<1>2. \A i \in D : cs[i] = bs[i]
  BY Zenon, AppendFacts
<1>3. IsFiniteSet(D) /\ IsFiniteSet(DOMAIN cs)
  BY Zenon, <1>1, ChainDomain
<1>4. \A i \in D : f[i] \in Int /\ g[i] = f[i]
  <2>1. \A i \in D : Fee(bs[i].tx) \in Int
    BY ChainDomain, FeeType
  <2> QED BY Zenon, <1>1, <1>2, <2>1 DEF FeeList
<1>5. g[n] = Fee(b.tx) /\ g[n] \in Int
  <2>1. b.tx \in Txs
    BY Zenon DEF Block
  <2> QED BY <1>1, <2>1, FeeType DEF FeeList
<1>6. FeesOf(bs) = Sum(f, D) /\ FeesOf(cs) = Sum(g, D \cup {n})
  <2>1. FeesOf(bs) = Sum(f, D) /\ FeesOf(cs) = Sum(g, DOMAIN cs)
    BY Zenon, <1>3, FeesAreSum
  <2> QED BY Zenon, <1>1, <2>1
<1> HIDE DEF f, g, D, n
<1>7. Sum(g, D \cup {n}) = Sum(f, D) + g[n]
  <2>1. IsFiniteSet(D) /\ n \notin D /\ (\A i \in D : f[i] \in Int /\ g[i] = f[i]) /\ g[n] \in Int
    BY Zenon, <1>1, <1>3, <1>4, <1>5
  <2> QED BY ONLY <2>1, SumInsert
<1>8. Sum(f, D) \in Int
  BY ONLY Zenon, <1>3, <1>4, SumTake
<1> QED BY Zenon, <1>5, <1>6, <1>7, <1>8

(* The genesis allocations are what there is at the start.                 *)
LEMMA SeedSupply == Supply(SeedState(EmptyState)) = GenesisSupply
<1> DEFINE s == SeedState(EmptyState)
           f == Balances(s)
           D == DOMAIN Genesis
<1>1. D \subseteq Addrs /\ \A a \in D : Genesis[a] \in Amounts
  BY Zenon, GenesisAssumption
<1>2. /\ \A a \in D : f[a] = Genesis[a]
      /\ \A a \in Addrs \ D : f[a] = 0
  BY Zenon, <1>1 DEF Balances, SeedState, EmptyState
<1>3. \A a \in Addrs : f[a] \in Int
  BY <1>1, <1>2, BoundsAssumption DEF Amounts
<1>4. GenesisSupply = Sum(Genesis, D)
  BY Zenon, MapThenSumSetIsSum DEF GenesisSupply
<1>5. Supply(s) = Sum(f, Addrs)
  BY Zenon, SupplyIsSum
<1> HIDE DEF s, f, D
<1>6. Sum(f, Addrs) = Sum(f, D)
  BY Zenon, <1>1, <1>2, <1>3, SumRestrict, AddrsAssumption
<1>7. Sum(f, D) = Sum(Genesis, D)
  <2>1. IsFiniteSet(D)
    BY Zenon, <1>1, FS_Subset, AddrsAssumption
  <2> QED BY Zenon, <1>2, <2>1, SumSame
<1> QED BY Zenon, <1>4, <1>5, <1>6, <1>7 DEF s

BlocksOf(bs, a) == {i \in DOMAIN bs : bs[i].tx.from = a}

(* A block counts for its sender only.                                     *)
LEMMA CountAppend ==
  ASSUME NEW bs \in Seq(Block), NEW b \in Block, NEW a
  PROVE  /\ Cardinality(BlocksOf(bs, a)) \in Nat
         /\ Cardinality(BlocksOf(Append(bs, b), a))
              = Cardinality(BlocksOf(bs, a)) + (IF b.tx.from = a THEN 1 ELSE 0)
<1> DEFINE cs == Append(bs, b)
           n == Len(bs) + 1
           S == BlocksOf(bs, a)
<1>1. DOMAIN cs = DOMAIN bs \cup {n} /\ n \notin DOMAIN bs /\ cs[n] = b
  <2>1. bs \in Seq(Block) /\ b \in Block
    BY Zenon
  <2> QED BY ONLY <2>1
<1>2. \A i \in DOMAIN bs : cs[i] = bs[i]
  BY Zenon, AppendFacts
<1>3. IsFiniteSet(S) /\ n \notin S
  <2>1. S \subseteq DOMAIN bs
    BY Zenon DEF BlocksOf
  <2> QED BY Zenon, <1>1, <2>1, ChainDomain, FS_Subset
<1>4. BlocksOf(cs, a) = IF b.tx.from = a THEN S \cup {n} ELSE S
  BY Zenon, <1>1, <1>2 DEF BlocksOf
<1> HIDE DEF S, cs, n
<1>5. Cardinality(S) \in Nat /\ Cardinality(S \cup {n}) = Cardinality(S) + 1
  BY Zenon, <1>3, FS_CardinalityType, FS_AddElement
<1>6. Cardinality(BlocksOf(cs, a)) = Cardinality(S) + (IF b.tx.from = a THEN 1 ELSE 0)
  BY ONLY <1>4, <1>5
<1> QED BY Zenon, <1>5, <1>6 DEF S, cs

LEMMA AuditedSeed == Audited(SeedState(EmptyState), <<>>)
<1>1. Supply(SeedState(EmptyState)) \in Int
  <2>1. SeedState(EmptyState) \in [Addrs -> Account] /\ DOMAIN Genesis # {}
    BY Zenon, EmptyStateType, SeedFacts, GenesisAssumption DEF Accounts
  <2>2. PICK a \in Addrs : TRUE
    BY Zenon, <2>1, GenesisAssumption
  <2> QED BY Zenon, <2>1, <2>2, SupplyChange
<1>2. \A a \in Addrs : {i \in DOMAIN <<>> : <<>>[i].tx.from = a} = {}
  OBVIOUS
<1>3. \A a \in Addrs : SeedState(EmptyState)[a].nonce = 0
  BY Zenon, EmptyStateType, SeedFacts DEF EmptyState
<1>4. \A a \in Addrs : Cardinality({i \in DOMAIN <<>> : <<>>[i].tx.from = a}) = 0
  BY Zenon, <1>2, EmptyCardinality
<1>5. Supply(SeedState(EmptyState)) + FeesOf(<<>>) = GenesisSupply
  BY ONLY <1>1, SeedSupply, FeesEmpty
<1> QED BY Zenon, <1>3, <1>4, <1>5 DEF Audited

LEMMA AuditedAppend ==
  ASSUME NEW s \in Accounts, NEW bs \in Seq(Block), NEW b \in Block,
         Audited(s, bs), ApplyTransaction(s, b.tx).ok
  PROVE  Audited(ApplyTransaction(s, b.tx).accounts, Append(bs, b))
<1> DEFINE tx == b.tx
           after == ApplyTransaction(s, tx).accounts
           cs == Append(bs, b)
<1>1. tx \in Txs /\ s \in [Addrs -> Account]
  BY Zenon DEF Block, Accounts
<1>2. Supply(s) \in Int /\ Supply(after) = Supply(s) - Fee(tx) /\ Fee(tx) \in Int
  <2>1. Supply(s) \in Int /\ Supply(after) = Supply(s) - Fee(tx)
    BY Zenon, <1>1, ExecutionBurnsTheFee
  <2>2. Fee(tx) \in Nat
    BY Zenon, <1>1, FeeType
  <2> QED BY ONLY <2>1, <2>2
<1>3. FeesOf(bs) \in Int /\ FeesOf(cs) = FeesOf(bs) + Fee(tx)
  BY Zenon, FeesAppend
<1>4. /\ Supply(s) + FeesOf(bs) = GenesisSupply
      /\ \A a \in Addrs : s[a].nonce = Cardinality(BlocksOf(bs, a))
  BY Zenon DEF Audited, BlocksOf
<1>5. /\ after[tx.from].nonce = s[tx.from].nonce + 1
      /\ \A a \in Addrs \ {tx.from} : after[a].nonce = s[a].nonce
  <2>1. /\ tx.nonce = s[tx.from].nonce /\ after[tx.from].nonce = tx.nonce + 1
        /\ \A a \in Addrs \ {tx.from} : after[a].nonce = s[a].nonce
    BY Zenon, <1>1, ExecutionSpendsOneNonce
  <2> QED BY Zenon, <2>1
<1>6. \A a \in Addrs :
        /\ Cardinality(BlocksOf(bs, a)) \in Nat
        /\ Cardinality(BlocksOf(cs, a))
             = Cardinality(BlocksOf(bs, a)) + (IF tx.from = a THEN 1 ELSE 0)
  BY Zenon, CountAppend
<1> HIDE DEF tx, after, cs
<1>7. Supply(after) + FeesOf(cs) = GenesisSupply
  <2>1. Supply(s) + FeesOf(bs) = GenesisSupply
    BY Zenon, <1>4
  <2> QED BY ONLY <1>2, <1>3, <2>1
<1>8. \A a \in Addrs : after[a].nonce = Cardinality(BlocksOf(cs, a))
  BY ONLY <1>4, <1>5, <1>6
<1> QED BY Zenon, <1>7, <1>8 DEF Audited, BlocksOf, tx, after, cs

-----------------------------------------------------------------------------
(* The invariant.                                                          *)

TxsOf(bs) == [i \in DOMAIN bs |-> bs[i].tx]

(* What validate_chain asks of blocks and receipts, and that every nonce   *)
(* in the chain is spent.                                                  *)
ChainOK(ledger) ==
  /\ \A i \in DOMAIN ledger.blocks : ValidBlock(ledger.blocks, i)
  /\ ledger.receipts = {ReceiptOf(ledger.blocks[i]) : i \in DOMAIN ledger.blocks}
  /\ \A i \in DOMAIN ledger.blocks :
       ledger.blocks[i].tx.nonce < ledger.accounts[ledger.blocks[i].tx.from].nonce

(* The accounts are what the chain makes of the genesis allocations, with  *)
(* every transaction executed.                                             *)
BooksOK(ledger) ==
  /\ ledger.blocks # <<>> => Last(ledger.blocks).state_root = ledger.accounts
  /\ Audited(ledger.accounts, ledger.blocks)
  /\ ledger.accounts = Log!Replay(TxsOf(ledger.blocks))
  /\ Log!Executes(TxsOf(ledger.blocks))

(* Seeding a chain that has blocks breaks its books, nothing else.         *)
Good(ledger) == ChainOK(ledger) /\ (Reseeding \/ BooksOK(ledger))

Memory == [accounts |-> accounts, blocks |-> blocks, receipts |-> receipts]

Prefix(bs, cs) == Len(bs) <= Len(cs) /\ \A i \in DOMAIN bs : cs[i] = bs[i]

(* A chain that extends another holds its blocks where they were.          *)
LEMMA PrefixFacts ==
  ASSUME NEW bs \in Seq(Block), NEW cs \in Seq(Block)
  PROVE  /\ Len(bs) \in Nat /\ Len(cs) \in Nat
         /\ Len(bs) <= Len(cs) /\ SubSeq(cs, 1, Len(bs)) = bs => Prefix(bs, cs)
         /\ Prefix(bs, cs) => \A i \in DOMAIN bs : i \in DOMAIN cs /\ cs[i] = bs[i]
         /\ Prefix(bs, cs) => SubSeq(cs, 1, Len(bs)) = bs
         /\ Prefix(bs, bs)
<1>1. /\ Len(bs) \in Nat /\ DOMAIN bs = 1..Len(bs)
      /\ Len(cs) \in Nat /\ DOMAIN cs = 1..Len(cs)
  OBVIOUS
<1>2. ASSUME Len(bs) <= Len(cs), SubSeq(cs, 1, Len(bs)) = bs PROVE Prefix(bs, cs)
  <2>1. \A i \in 1..Len(bs) : SubSeq(cs, 1, Len(bs))[i] = cs[i]
    BY <1>1, <1>2
  <2> QED BY Zenon, <1>1, <1>2, <2>1 DEF Prefix
<1>3. Prefix(bs, cs) => \A i \in DOMAIN bs : i \in DOMAIN cs /\ cs[i] = bs[i]
  BY <1>1 DEF Prefix
<1>4. ASSUME Prefix(bs, cs) PROVE SubSeq(cs, 1, Len(bs)) = bs
  BY <1>1, <1>4 DEF Prefix
<1>5. Prefix(bs, bs)
  BY <1>1 DEF Prefix
<1> QED BY Zenon, <1>1, <1>2, <1>3, <1>4, <1>5

(* A ledger is good for its accounts, its blocks and its receipts.         *)
LEMMA GoodSame ==
  ASSUME NEW l, NEW m, Good(l), m.accounts = l.accounts, m.blocks = l.blocks,
         m.receipts = l.receipts
  PROVE  Good(m)
BY Zenon DEF Good, ChainOK, BooksOK

LEMMA MemoryFields ==
  /\ Memory.accounts = accounts /\ Memory.blocks = blocks
  /\ Memory.receipts = receipts
BY Zenon DEF Memory

LEMMA TxsOfFacts ==
  /\ TxsOf(<<>>) = <<>>
  /\ \A bs \in Seq(Block) :
       /\ TxsOf(bs) \in Seq(Txs) /\ Len(TxsOf(bs)) = Len(bs)
       /\ \A b \in Block : TxsOf(Append(bs, b)) = Append(TxsOf(bs), b.tx)
<1>1. TxsOf(<<>>) = <<>>
  BY DEF TxsOf
<1>2. ASSUME NEW bs \in Seq(Block)
      PROVE  TxsOf(bs) \in Seq(Txs) /\ Len(TxsOf(bs)) = Len(bs)
  <2>1. /\ DOMAIN bs = 1..Len(bs) /\ Len(bs) \in Nat
        /\ \A i \in 1..Len(bs) : bs[i].tx \in Txs
    BY Zenon, ChainDomain
  <2> QED BY <2>1 DEF TxsOf
<1>3. ASSUME NEW bs \in Seq(Block), NEW b \in Block
      PROVE  TxsOf(Append(bs, b)) = Append(TxsOf(bs), b.tx)
  <2> DEFINE cs == Append(bs, b)
             n == Len(bs)
             l == TxsOf(bs)
             m == Append(l, b.tx)
  <2>1. /\ cs \in Seq(Block) /\ n \in Nat /\ DOMAIN bs = 1..n /\ DOMAIN cs = 1..(n + 1)
        /\ cs[n + 1] = b /\ \A i \in 1..n : cs[i] = bs[i]
    OBVIOUS
  <2>2. b.tx \in Txs /\ l \in Seq(Txs) /\ Len(l) = n
    BY Zenon, <1>2 DEF Block
  <2>3. /\ DOMAIN m = 1..(n + 1) /\ m[n + 1] = b.tx
        /\ \A i \in 1..n : m[i] = l[i]
        /\ m = [i \in 1..(n + 1) |-> m[i]]
    BY ONLY <2>1, <2>2
  <2>4. \A i \in 1..n : l[i] = bs[i].tx
    BY Zenon, <2>1 DEF TxsOf
  <2>5. TxsOf(cs) = [i \in 1..(n + 1) |-> cs[i].tx]
    BY Zenon, <2>1 DEF TxsOf
  <2> HIDE DEF cs, l, m, n
  <2>6. \A i \in 1..(n + 1) : m[i] = cs[i].tx
    <3>1. \A i \in 1..(n + 1) : i = n + 1 \/ i \in 1..n
      BY <2>1
    <3> QED BY Zenon, <2>1, <2>3, <2>4, <3>1
  <2>7. TxsOf(cs) = m
    BY Zenon, <2>3, <2>5, <2>6
  <2> QED BY Zenon, <2>7 DEF cs, l, m
<1> QED BY Zenon, <1>1, <1>2, <1>3

(* The block seal_next_block builds passes validate_chain.                 *)
LEMMA ValidNext ==
  ASSUME NEW bs \in Seq(Block), \A i \in DOMAIN bs : ValidBlock(bs, i),
         NEW s \in Accounts, NEW tx \in Txs, tx.chain_id = ChainId,
         tx.gas_limit <= BlockGasLimit
  PROVE  LET cs == Append(bs, NextBlock(bs, s, tx))
         IN  \A i \in DOMAIN cs : ValidBlock(cs, i)
<1> DEFINE b == NextBlock(bs, s, tx)
           cs == Append(bs, b)
           n == Len(bs)
<1>1. Heights(bs)
  BY Zenon DEF Heights, ValidBlock
<1>2. b \in Block /\ b.height = n + 1 /\ b.tx = tx
  BY Zenon, <1>1, NextBlockFacts
<1>3. /\ n \in Nat /\ DOMAIN bs = 1..n /\ DOMAIN cs = 1..(n + 1) /\ cs[n + 1] = b
      /\ \A i \in 1..n : cs[i] = bs[i]
      /\ bs = <<>> <=> n = 0
  <2> HIDE DEF b
  <2>1. bs \in Seq(Block) /\ b \in Block
    BY Zenon, <1>2
  <2> QED BY ONLY <2>1
<1>4. /\ b.chain_id = ChainId /\ b.gas_used = tx.gas_limit /\ b.gas_limit = BlockGasLimit
      /\ b.tx_root = tx.hash /\ b.parent_hash = ParentHash(bs)
      /\ b.receipt_root = ReceiptRoot(tx.hash, NextHeight(bs), tx.gas_limit)
      /\ b.height = NextHeight(bs)
  BY Zenon DEF NextBlock
<1> HIDE DEF b, cs, n
<1>5. ParentHash(bs) = IF n + 1 = 1 THEN ZeroHash ELSE BlockHash(cs[(n + 1) - 1])
  <2>1. CASE bs = <<>>
    BY <1>3, <2>1 DEF ParentHash
  <2>2. CASE bs # <<>>
    <3>1. n \in 1..n /\ n + 1 # 1 /\ (n + 1) - 1 = n /\ cs[n] = bs[n]
      BY <1>3, <2>2
    <3> QED BY Zenon, <2>2, <3>1 DEF ParentHash, Last, n
  <2> QED BY Zenon, <2>1, <2>2
<1>6. ValidBlock(cs, n + 1)
  BY Zenon, <1>2, <1>3, <1>4, <1>5 DEF ValidBlock
<1>7. ASSUME NEW i \in 1..n PROVE ValidBlock(cs, i)
  <2>1. i \in Nat /\ cs[i] = bs[i] /\ (i # 1 => cs[i - 1] = bs[i - 1]) /\ ValidBlock(bs, i)
    BY <1>3
  <2> QED BY Zenon, <2>1 DEF ValidBlock
<1>8. \A i \in 1..(n + 1) : i = n + 1 \/ i \in 1..n
  BY <1>3
<1>9. \A i \in DOMAIN cs : ValidBlock(cs, i)
  BY Zenon, <1>3, <1>6, <1>7, <1>8
<1> QED BY Zenon, <1>9 DEF cs, b

(* The transactions of a log that execute, from none on.                   *)
LEMMA ExecutesEmpty == Log!Executes(<<>>)
BY DEF Log!Executes

LEMMA ExecutesAppend ==
  ASSUME NEW l \in Seq(Txs), NEW tx \in Txs, Log!Executes(l),
         ApplyTransaction(Log!Replay(l), tx).ok
  PROVE  Log!Executes(Append(l, tx))
<1> DEFINE m == Append(l, tx)
           n == Len(l)
<1>1. /\ n \in Nat /\ DOMAIN l = 1..n /\ DOMAIN m = 1..(n + 1) /\ m[n + 1] = tx
      /\ \A i \in 1..n : m[i] = l[i]
      /\ SubSeq(m, 1, (n + 1) - 1) = l
      /\ \A i \in 1..n : SubSeq(m, 1, i - 1) = SubSeq(l, 1, i - 1)
  OBVIOUS
<1> HIDE DEF m, n
<1>2. \A i \in 1..(n + 1) : i = n + 1 \/ i \in 1..n
  BY ONLY <1>1
<1>3. \A i \in DOMAIN m : Log!ApplyTransaction(Log!Replay(SubSeq(m, 1, i - 1)), m[i]).ok
  BY Zenon, <1>1, <1>2, SameExecution DEF Log!Executes
<1> QED BY Zenon, <1>3 DEF Log!Executes, m

(* A good chain passes the rest of validate_chain: one receipt per block.  *)
LEMMA ReceiptsMatch ==
  ASSUME NEW ledger \in Snapshot, ChainOK(ledger)
  PROVE  /\ Len(ledger.blocks) = Cardinality(ledger.receipts)
         /\ \A r, q \in ledger.receipts : r.block_hash = q.block_hash => r = q
         /\ \A r \in ledger.receipts : ValidReceipt(ledger.blocks, r)
<1> DEFINE bs == ledger.blocks
           rs == ledger.receipts
           n == Len(bs)
           f == [i \in 1..n |-> ReceiptOf(bs[i])]
<1>1. bs \in Seq(Block) /\ n \in Nat /\ DOMAIN bs = 1..n
  <2>1. ledger.blocks \in Seq(Block)
    BY Zenon DEF Snapshot
  <2> QED BY ONLY <2>1
<1>2. /\ rs = {ReceiptOf(bs[i]) : i \in 1..n}
      /\ \A i \in 1..n : ValidBlock(bs, i)
  BY Zenon, <1>1 DEF ChainOK
<1> HIDE DEF bs, rs
<1>3. \A i \in 1..n : /\ ReceiptOf(bs[i]).tx_hash = bs[i].tx.hash
                      /\ ReceiptOf(bs[i]).block_hash = BlockHash(bs[i])
                      /\ ReceiptOf(bs[i]).block_height = i
                      /\ ReceiptOf(bs[i]).gas_used = bs[i].gas_used
                      /\ BlockHash(bs[i]) = <<i, bs[i].tx.hash>>
                      /\ bs[i].height = i
                      /\ bs[i].receipt_root
                           = ReceiptRoot(bs[i].tx.hash, bs[i].height, bs[i].gas_used)
  BY Zenon, <1>2 DEF ReceiptOf, ValidBlock, BlockHash
<1>4. \A i, j \in 1..n : <<i, bs[i].tx.hash>> = <<j, bs[j].tx.hash>> => i = j
  BY Zenon
<1>5. n = Cardinality(rs)
  <2>1. f \in [1..n -> rs]
    BY Zenon, <1>2
  <2>2. \A i, j \in 1..n : f[i] = f[j] => i = j
    BY Zenon, <1>3
  <2>3. \A r \in rs : \E i \in 1..n : f[i] = r
    BY Zenon, <1>2
  <2> HIDE DEF f, n
  <2>4. f \in Bijection(1..n, rs)
    BY Zenon, <2>1, <2>2, <2>3 DEF Bijection, Injection, Surjection, IsInjective
  <2>5. ExistsBijection(1..n, rs)
    BY Zenon, <2>4 DEF ExistsBijection
  <2> QED BY Zenon, <1>1, <2>5, FS_CountingElements
<1>6. \A r, q \in rs : r.block_hash = q.block_hash => r = q
  <2>1. \A i, j \in 1..n : BlockHash(bs[i]) = BlockHash(bs[j]) => i = j
    BY ONLY <1>3, <1>4
  <2>2. \A r \in rs : \E i \in 1..n : r = ReceiptOf(bs[i])
    BY ONLY Zenon, <1>2
  <2>3. \A i \in 1..n : ReceiptOf(bs[i]).block_hash = BlockHash(bs[i])
    BY Zenon, <1>3
  <2> SUFFICES ASSUME NEW r \in rs, NEW q \in rs, r.block_hash = q.block_hash
               PROVE  r = q
    BY Zenon
  <2>4. PICK i \in 1..n : r = ReceiptOf(bs[i])
    BY Zenon, <2>2
  <2>5. PICK j \in 1..n : q = ReceiptOf(bs[j])
    BY Zenon, <2>2
  <2>6. BlockHash(bs[i]) = BlockHash(bs[j])
    BY Zenon, <2>3, <2>4, <2>5
  <2> QED BY Zenon, <2>1, <2>4, <2>5, <2>6
<1>7. \A r \in rs : ValidReceipt(bs, r)
  <2> SUFFICES ASSUME NEW r \in rs PROVE ValidReceipt(bs, r)
    BY Zenon
  <2>1. PICK i \in 1..n : r = ReceiptOf(bs[i])
    BY Zenon, <1>2
  <2>2. /\ r.block_hash = BlockHash(bs[i]) /\ r.block_height = bs[i].height
        /\ r.tx_hash = bs[i].tx.hash /\ r.gas_used = bs[i].gas_used
        /\ ReceiptRoot(bs[i].tx.hash, bs[i].height, bs[i].gas_used) = bs[i].receipt_root
    BY Zenon, <1>3, <2>1
  <2>3. ReceiptRoot(r.tx_hash, r.block_height, r.gas_used) = bs[i].receipt_root
    BY Zenon, <2>2
  <2>4. i \in DOMAIN bs
    BY Zenon, <1>1
  <2> QED BY Zenon, <2>2, <2>3, <2>4 DEF ValidReceipt
<1> QED BY Zenon, <1>5, <1>6, <1>7 DEF bs, rs

(* The receipts of a chain and of its new block are those of the longer    *)
(* chain, ...                                                              *)
LEMMA ReceiptsAppend ==
  ASSUME NEW bs \in Seq(Block), NEW b \in Block
  PROVE  {ReceiptOf(bs[i]) : i \in DOMAIN bs} \cup {ReceiptOf(b)}
           = {ReceiptOf(Append(bs, b)[i]) : i \in DOMAIN Append(bs, b)}
<1> DEFINE cs == Append(bs, b)
           n == Len(bs)
<1>1. /\ n \in Nat /\ DOMAIN bs = 1..n /\ DOMAIN cs = 1..(n + 1) /\ cs[n + 1] = b
      /\ \A i \in 1..n : cs[i] = bs[i]
  <2>1. bs \in Seq(Block) /\ b \in Block
    BY Zenon
  <2> QED BY ONLY <2>1
<1> HIDE DEF cs, n
<1>2. /\ \A i \in 1..(n + 1) : i = n + 1 \/ i \in 1..n
      /\ \A i \in 1..n : i \in 1..(n + 1)
      /\ n + 1 \in 1..(n + 1)
  BY ONLY <1>1
<1> QED BY Zenon, <1>1, <1>2 DEF cs

(* ... and a nonce that its sender has passed stays passed.                *)
LEMMA SpentAppend ==
  ASSUME NEW s \in Accounts, NEW t, NEW bs \in Seq(Block), NEW b \in Block,
         \A i \in DOMAIN bs : bs[i].tx.nonce < s[bs[i].tx.from].nonce,
         b.tx.nonce = s[b.tx.from].nonce, t[b.tx.from].nonce = b.tx.nonce + 1,
         \A a \in Addrs \ {b.tx.from} : t[a].nonce = s[a].nonce
  PROVE  \A i \in DOMAIN Append(bs, b) :
           Append(bs, b)[i].tx.nonce < t[Append(bs, b)[i].tx.from].nonce
<1>1. \A i \in DOMAIN Append(bs, b) :
        \/ Append(bs, b)[i] = b
        \/ i \in DOMAIN bs /\ Append(bs, b)[i] = bs[i]
  <2>1. bs \in Seq(Block) /\ b \in Block
    BY Zenon
  <2> QED BY ONLY <2>1
<1>2. /\ \A a \in Addrs : s[a].nonce \in Nat
      /\ \A x \in Txs : x.from \in Addrs /\ x.nonce \in Nat
  BY TxFields, BoundsAssumption DEF Accounts, Account, Nonces
<1>3. b.tx \in Txs /\ \A i \in DOMAIN bs : bs[i].tx \in Txs
  BY Zenon, ChainDomain DEF Block
<1>4. b.tx.nonce < t[b.tx.from].nonce
  <2>1. b.tx.nonce \in Nat /\ t[b.tx.from].nonce = b.tx.nonce + 1
    BY Zenon, <1>2, <1>3
  <2> QED BY ONLY <2>1
<1>5. ASSUME NEW x \in Txs, x.nonce < s[x.from].nonce
      PROVE  x.nonce < t[x.from].nonce
  <2>1. CASE x.from = b.tx.from
    <3>1. /\ x.nonce \in Nat /\ b.tx.nonce \in Nat /\ x.nonce < b.tx.nonce
          /\ t[x.from].nonce = b.tx.nonce + 1
      BY Zenon, <1>2, <1>3, <1>5, <2>1
    <3> QED BY ONLY <3>1
  <2>2. CASE x.from # b.tx.from
    BY Zenon, <1>2, <1>5, <2>2
  <2> QED BY Zenon, <2>1, <2>2
<1> QED BY Zenon, <1>1, <1>3, <1>4, <1>5

(* The ledger a submission prepares is as good as the one in memory.       *)
LEMMA GoodAppend ==
  ASSUME NEW s \in Accounts, NEW bs \in Seq(Block), NEW rs \in SUBSET Receipt,
         Good([accounts |-> s, blocks |-> bs, receipts |-> rs]), Spent(rs, s),
         NEW tx \in Txs, ApplyTransaction(s, tx).ok, tx.gas_limit <= BlockGasLimit,
         NEW w,
         w.accounts = ApplyTransaction(s, tx).accounts,
         w.blocks = Append(bs, NextBlock(bs, w.accounts, tx)),
         w.receipts = InsertReceipt(rs, ReceiptOf(NextBlock(bs, w.accounts, tx)))
  PROVE  Good(w)
<1> DEFINE after == ApplyTransaction(s, tx).accounts
           b == NextBlock(bs, after, tx)
           n == Len(bs)
<1>1. /\ \A i \in DOMAIN bs : ValidBlock(bs, i)
      /\ rs = {ReceiptOf(bs[i]) : i \in DOMAIN bs}
      /\ \A i \in DOMAIN bs : bs[i].tx.nonce < s[bs[i].tx.from].nonce
      /\ \/ Reseeding
         \/ /\ Audited(s, bs) /\ s = Log!Replay(TxsOf(bs))
            /\ Log!Executes(TxsOf(bs))
  BY Zenon DEF Good, ChainOK, BooksOK
<1>2. /\ after \in Accounts /\ tx.nonce = s[tx.from].nonce
      /\ after[tx.from].nonce = tx.nonce + 1
      /\ \A a \in Addrs \ {tx.from} : after[a].nonce = s[a].nonce
  BY Zenon, ExecutionSpendsOneNonce DEF Accounts
<1>3. tx.chain_id = ChainId
  BY Zenon DEF ApplyTransaction, Executable
<1>4. Heights(bs)
  BY Zenon, <1>1 DEF Heights, ValidBlock
<1>5. /\ b \in Block /\ b.height = n + 1 /\ b.tx = tx
      /\ ReceiptOf(b) \in Receipt /\ ReceiptOf(b).tx_hash = tx.hash
  <2>1. after \in Accounts
    BY Zenon, <1>2
  <2> HIDE DEF after
  <2> QED BY Zenon, <1>4, <2>1, NextBlockFacts
<1>6. InsertReceipt(rs, ReceiptOf(b)) = rs \cup {ReceiptOf(b)}
  <2> HIDE DEF after, b
  <2> QED BY Zenon, <1>5, NewReceipt
<1>7. b.state_root = after
  BY Zenon DEF NextBlock
<1>8. \A i \in DOMAIN Append(bs, b) : ValidBlock(Append(bs, b), i)
  BY Zenon, <1>1, <1>2, <1>3, ValidNext
<1>9. w.accounts = after /\ w.blocks = Append(bs, b) /\ w.receipts = rs \cup {ReceiptOf(b)}
  BY Zenon, <1>6
<1> HIDE DEF after, b, n
<1> DEFINE cs == Append(bs, b)
<1>10. cs # <<>> /\ Last(cs) = b
  BY Zenon, <1>5, AppendFacts
<1>11. rs \cup {ReceiptOf(b)} = {ReceiptOf(cs[i]) : i \in DOMAIN cs}
  BY Zenon, <1>1, <1>5, ReceiptsAppend
<1>12. \A i \in DOMAIN cs : cs[i].tx.nonce < after[cs[i].tx.from].nonce
  BY Zenon, <1>1, <1>2, <1>5, SpentAppend
<1>13. ChainOK(w)
  BY Zenon, <1>8, <1>9, <1>11, <1>12 DEF ChainOK
<1>14. ASSUME ~Reseeding PROVE BooksOK(w)
  <2>1. Audited(s, bs) /\ s = Log!Replay(TxsOf(bs)) /\ Log!Executes(TxsOf(bs))
    BY Zenon, <1>1, <1>14
  <2>2. Audited(after, cs)
    BY Zenon, <1>5, <2>1, AuditedAppend DEF after
  <2>3. after = Log!Replay(TxsOf(cs))
    <3>1. TxsOf(cs) = Append(TxsOf(bs), tx) /\ TxsOf(bs) \in Seq(Txs)
      BY Zenon, <1>5, TxsOfFacts
    <3>2. Log!Replay(Append(TxsOf(bs), tx)) = ApplyTransaction(Log!Replay(TxsOf(bs)), tx).accounts
      BY Zenon, <3>1, ReplayAppend
    <3> QED BY Zenon, <2>1, <3>1, <3>2 DEF after
  <2>4. Log!Executes(TxsOf(cs))
    <3>1. TxsOf(cs) = Append(TxsOf(bs), tx) /\ TxsOf(bs) \in Seq(Txs)
      BY Zenon, <1>5, TxsOfFacts
    <3> QED BY Zenon, <2>1, <3>1, ExecutesAppend
  <2> QED BY Zenon, <1>7, <1>9, <1>10, <2>2, <2>3, <2>4 DEF BooksOK
<1> QED BY Zenon, <1>13, <1>14 DEF Good

(* Genesis is good, written once or again.                                 *)
LEMMA SeedTwice == SeedState(SeedState(EmptyState)) = SeedState(EmptyState)
<1>1. \A a \in Addrs : EmptyState[a] = [nonce |-> 0, balance |-> 0]
  BY Zenon DEF EmptyState
<1>2. \A v, u : [[[nonce |-> 0, balance |-> 0] EXCEPT !.balance = v] EXCEPT !.balance = v]
                = [[nonce |-> 0, balance |-> 0] EXCEPT !.balance = v]
  BY Zenon
<1> QED BY Zenon, <1>1, <1>2 DEF SeedState

LEMMA GoodSeed ==
  ASSUME NEW s \in Accounts, NEW bs \in Seq(Block), NEW rs,
         \/ Good([accounts |-> s, blocks |-> bs, receipts |-> rs])
         \/ s = EmptyState /\ bs = <<>> /\ rs = {},
         Reseeding \/ bs = <<>>,
         NEW w, w.accounts = SeedState(s), w.blocks = bs, w.receipts = rs
  PROVE  Good(w)
<1>1. \A a \in Addrs : SeedState(s)[a].nonce = s[a].nonce
  BY Zenon, SeedFacts
<1>2. /\ \A i \in DOMAIN bs : ValidBlock(bs, i)
      /\ rs = {ReceiptOf(bs[i]) : i \in DOMAIN bs}
      /\ \A i \in DOMAIN bs : bs[i].tx.nonce < s[bs[i].tx.from].nonce
  <2>1. CASE Good([accounts |-> s, blocks |-> bs, receipts |-> rs])
    BY Zenon, <2>1 DEF Good, ChainOK
  <2>2. CASE bs = <<>> /\ rs = {}
    <3>1. DOMAIN <<>> = {}
      OBVIOUS
    <3> QED BY Zenon, <2>2, <3>1
  <2> QED BY Zenon, <2>1, <2>2
<1>3. \A i \in DOMAIN bs : bs[i].tx.from \in Addrs
  BY Zenon, ChainDomain, TxKeys
<1>4. ChainOK(w)
  BY Zenon, <1>1, <1>2, <1>3 DEF ChainOK
<1>5. ASSUME ~Reseeding PROVE BooksOK(w)
  <2>1. bs = <<>>
    BY Zenon, <1>5
  <2>2. s = EmptyState \/ s = SeedState(EmptyState)
    BY Zenon, <1>5, <2>1, TxsOfFacts, ReplayEmpty DEF Good, BooksOK
  <2>3. w.accounts = SeedState(EmptyState)
    BY Zenon, <2>2, SeedTwice
  <2> QED BY Zenon, <2>1, <2>3, AuditedSeed, ReplayEmpty, TxsOfFacts,
                ExecutesEmpty DEF BooksOK
<1> QED BY Zenon, <1>4, <1>5 DEF Good

=============================================================================
