-------------------------------- MODULE Node --------------------------------
(***************************************************************************)
(* A running node: RpcState and its commit path (crates/subhost-rpc), the  *)
(* ledger file (crates/subhost-storage) and Node::bootstrap                *)
(* (crates/subhost-node), with the crashes they are written to survive.    *)
(*                                                                         *)
(* RPC handlers run on a multi-threaded runtime.  A thread that submits    *)
(* holds the commit lock from admission to the last swap; what it does in  *)
(* memory before the ledger write touches only data guarded by that lock   *)
(* and is one step, every system call of the write and every swap of a     *)
(* view is a step of its own.  Readers take no lock across two reads.      *)
(***************************************************************************)
EXTENDS Chain

CONSTANTS
  Threads,        \* the runtime's threads that serve eth_sendTransaction
  Main,           \* the thread that runs Node::bootstrap
  NoThread,       \* the commit lock is free
  NoFile,         \* no such file
  Torn,           \* the content of a file whose write was cut short
  NoWork,         \* a thread that is not in the commit path
  NoLookup,       \* no reader between its two reads
  Genesis,        \* the allocations of the genesis file
  MaxBlocks,      \* how many blocks fit MAX_LEDGER_BYTES
  MaxFaults,      \* bound on crashes and I/O errors of one behaviour
  Reseeding       \* whether seed_accounts is also called on a chain with blocks

ASSUME GenesisAssumption ==
  /\ DOMAIN Genesis \subseteq Addrs
  /\ DOMAIN Genesis # {}
  /\ \A a \in DOMAIN Genesis : Genesis[a] \in Amounts

ASSUME NodeAssumption ==
  /\ MaxBlocks \in Nat
  /\ MaxFaults \in Nat
  /\ Reseeding \in BOOLEAN
  /\ Main \notin Threads
  /\ NoThread \notin Threads \cup {Main}

Procs == Threads \cup {Main}

VARIABLES
  phase,      \* "down", "booting", "serving"
  accounts,   \* RpcState::state
  pool,       \* RpcState::mempool
  blocks,     \* RpcState::blocks
  receipts,   \* RpcState::receipts
  height,     \* RpcState::block_height
  lock,       \* RpcState::commit_lock: its holder
  pc,         \* where each thread is in the commit path
  work,       \* the locals of the commit path of each thread
  temp,       \* each thread's temporary file
  file,       \* the ledger file as the running system sees it
  stable,     \* the ledger file when the directory was last fsynced
  renamed,    \* the ledger files renamed into place since then
  lookup,     \* a reader that did the first of its two reads
  acked,      \* history: <<transaction, height>> answered with a hash
  failed,     \* history: transactions answered with a storage error
  faults      \* history: number of crashes and I/O errors so far

memory == <<accounts, pool, blocks, receipts, height>>
disk == <<temp, file, stable, renamed>>
vars == <<phase, memory, lock, pc, work, disk, lookup, acked, failed, faults>>

-----------------------------------------------------------------------------

(* Stages of the commit path: the system calls of LedgerStore::persist,    *)
(* then the swaps of seal_next_block.                                      *)
Persisting == {"write", "sync", "rename", "syncdir"}

Swapping == {"state", "pool", "blocks", "receipts", "height"}

Stages == {"idle"} \cup Persisting \cup Swapping

IdleThreads == [t \in Procs |-> "idle"]

Work == [tx : Txs \cup {NoTx}, previous : Txs \cup {NoTx},
         displaced : Txs \cup {NoTx}, accounts : Accounts,
         blocks : Seq(Block), receipts : SUBSET Receipt]

(* A file: its content and whether the content was fsynced.                *)
Image == [data : Snapshot \cup {Torn}, synced : BOOLEAN]

(* The markers are none of the values they stand in for.                   *)
ASSUME MarkerAssumption ==
  NoFile \notin Image /\ NoWork \notin Work /\ Torn \notin Snapshot

Loads(image) == image.data # Torn /\ Restorable(image.data)

SnapshotOf(w) ==
  [chain_id |-> ChainId, accounts |-> w.accounts, blocks |-> w.blocks,
   receipts |-> w.receipts]

(* set_balance for every genesis allocation.                               *)
SeedState(s) ==
  [a \in Addrs |-> IF a \in DOMAIN Genesis
                     THEN [s[a] EXCEPT !.balance = Genesis[a]] ELSE s[a]]

SeedWork ==
  [tx |-> NoTx, previous |-> NoTx, displaced |-> NoTx,
   accounts |-> SeedState(accounts),
   blocks |-> blocks, receipts |-> receipts]

Init ==
  /\ phase = "down"
  /\ accounts = EmptyState
  /\ pool = EmptyPool
  /\ blocks = <<>>
  /\ receipts = {}
  /\ height = 0
  /\ lock = NoThread
  /\ pc = IdleThreads
  /\ work = [t \in Procs |-> NoWork]
  /\ temp = [t \in Procs |-> NoFile]
  /\ file = NoFile
  /\ stable = NoFile
  /\ renamed = {}
  /\ lookup = NoLookup
  /\ acked = {}
  /\ failed = {}
  /\ faults = 0

-----------------------------------------------------------------------------
(* submit_transaction up to the ledger write.                              *)

Admission(tx) == Admit(pool, tx)

Sealable(tx) ==
  /\ Admission(tx).outcome = "accepted"
  /\ tx.gas_limit <= BlockGasLimit
  /\ ApplyTransaction(accounts, tx).ok

SealWork(tx) ==
  LET executed == ApplyTransaction(accounts, tx).accounts
      block    == NextBlock(blocks, executed, tx)
  IN  [tx        |-> tx,
       previous  |-> Slot(pool, tx.from, tx.nonce),
       displaced |-> Admission(tx).displaced,
       accounts  |-> executed,
       blocks    |-> Append(blocks, block),
       receipts  |-> InsertReceipt(receipts, ReceiptOf(block))]

(* Mutant of CanSubmit: the commit lock is not taken.                      *)
CanSubmitUnlocked(t) == phase = "serving" /\ pc[t] = "idle"

CanSubmit(t) == phase = "serving" /\ lock = NoThread /\ pc[t] = "idle"

Submit(t, tx) ==
  /\ CanSubmit(t)
  /\ Sealable(tx)
  /\ lock' = t
  /\ pool' = Admission(tx).pool
  /\ work' = [work EXCEPT ![t] = SealWork(tx)]
  /\ pc' = [pc EXCEPT ![t] = "write"]
  /\ failed' = failed \ {tx}
  /\ UNCHANGED <<phase, accounts, blocks, receipts, height, disk, lookup,
                 acked, faults>>

(* The pool refuses the transaction, or it was admitted, its execution     *)
(* failed and the pool was restored.                                       *)
SubmitRefused(t, tx) ==
  /\ CanSubmit(t)
  /\ ~Sealable(tx)
  /\ pool' = IF Admission(tx).outcome # "accepted" THEN pool
             ELSE RestorePool(Admission(tx).pool, tx,
                              Slot(pool, tx.from, tx.nonce),
                              Admission(tx).displaced)
  /\ UNCHANGED <<phase, accounts, blocks, receipts, height, lock, pc, work,
                 disk, lookup, acked, failed, faults>>

(* seed_accounts on a chain that is being served.                          *)
Reseed ==
  /\ Reseeding \/ blocks = <<>>
  /\ CanSubmit(Main)
  /\ lock' = Main
  /\ work' = [work EXCEPT ![Main] = SeedWork]
  /\ pc' = [pc EXCEPT ![Main] = "write"]
  /\ UNCHANGED <<phase, memory, disk, lookup, acked, failed, faults>>

-----------------------------------------------------------------------------
(* LedgerStore::persist.                                                   *)

Advance(t, from, to) ==
  /\ pc[t] = from
  /\ pc' = [pc EXCEPT ![t] = to]

(* Mutant of WriteTemp: the block is shown before it is written.           *)
WriteTempShown(t) ==
  /\ Advance(t, "write", "sync")
  /\ Len(work[t].blocks) <= MaxBlocks
  /\ temp' = [temp EXCEPT ![t] = [data |-> SnapshotOf(work[t]), synced |-> FALSE]]
  /\ blocks' = work[t].blocks
  /\ UNCHANGED <<phase, accounts, pool, receipts, height, lock, work, file,
                 stable, renamed, lookup, acked, failed, faults>>

WriteTemp(t) ==
  /\ Advance(t, "write", "sync")
  /\ Len(work[t].blocks) <= MaxBlocks
  /\ temp' = [temp EXCEPT ![t] = [data |-> SnapshotOf(work[t]), synced |-> FALSE]]
  /\ UNCHANGED <<phase, memory, lock, work, file, stable, renamed, lookup,
                 acked, failed, faults>>

(* Mutant of SyncTemp: the temporary file is not fsynced.                  *)
SyncTempSkipped(t) ==
  /\ Advance(t, "sync", "rename")
  /\ UNCHANGED <<phase, memory, lock, work, disk, lookup, acked, failed, faults>>

SyncTemp(t) ==
  /\ Advance(t, "sync", "rename")
  /\ temp' = [temp EXCEPT ![t] = [data |-> @.data, synced |-> TRUE]]
  /\ UNCHANGED <<phase, memory, lock, work, file, stable, renamed, lookup,
                 acked, failed, faults>>

Rename(t) ==
  /\ Advance(t, "rename", "syncdir")
  /\ file' = temp[t]
  /\ renamed' = renamed \cup {temp[t]}
  /\ temp' = [temp EXCEPT ![t] = NoFile]
  /\ UNCHANGED <<phase, memory, lock, work, stable, lookup, acked, failed,
                 faults>>

(* Mutant of SyncDir: the directory is not fsynced.                        *)
SyncDirSkipped(t) ==
  /\ Advance(t, "syncdir", "state")
  /\ UNCHANGED <<phase, memory, lock, work, disk, lookup, acked, failed, faults>>

SyncDir(t) ==
  /\ Advance(t, "syncdir", "state")
  /\ stable' = file
  /\ renamed' = {}
  /\ UNCHANGED <<phase, memory, lock, work, temp, file, lookup, acked,
                 failed, faults>>

(* Mutant of Abort: the pool is not restored.                              *)
AbortNoRestore(t) ==
  /\ pc' = [pc EXCEPT ![t] = "idle"]
  /\ lock' = NoThread
  /\ work' = [work EXCEPT ![t] = NoWork]
  /\ temp' = [temp EXCEPT ![t] = NoFile]
  /\ phase' = IF phase = "booting" THEN "down" ELSE phase
  /\ failed' = failed \cup ({work[t].tx} \ {NoTx})
  /\ UNCHANGED <<accounts, pool, blocks, receipts, height, file, stable,
                 renamed, lookup, acked>>

(* The error path: the temporary file is deleted when it is dropped; a     *)
(* submission restores the pool and answers with an error, a failed        *)
(* genesis seeding ends the process.                                       *)
Abort(t) ==
  /\ pc' = [pc EXCEPT ![t] = "idle"]
  /\ lock' = NoThread
  /\ work' = [work EXCEPT ![t] = NoWork]
  /\ temp' = [temp EXCEPT ![t] = NoFile]
  /\ phase' = IF phase = "booting" THEN "down" ELSE phase
  /\ IF work[t].tx = NoTx
       THEN UNCHANGED <<pool, failed>>
       ELSE /\ pool' = RestorePool(pool, work[t].tx, work[t].previous,
                                   work[t].displaced)
            /\ failed' = failed \cup {work[t].tx}
  /\ UNCHANGED <<accounts, blocks, receipts, height, file, stable, renamed,
                 lookup, acked>>

TooLarge(t) ==
  /\ pc[t] = "write"
  /\ Len(work[t].blocks) > MaxBlocks
  /\ Abort(t)
  /\ UNCHANGED faults

(* Any system call of persist may fail; when it is the fsync of the        *)
(* directory the new ledger is already in place.                           *)
IOError(t) ==
  /\ pc[t] \in Persisting
  /\ faults < MaxFaults
  /\ faults' = faults + 1
  /\ Abort(t)

-----------------------------------------------------------------------------
(* The swaps, in the order of seal_next_block.                             *)

SwapState(t) ==
  /\ Advance(t, "state", "pool")
  /\ work[t].tx # NoTx
  /\ accounts' = work[t].accounts
  /\ UNCHANGED <<phase, pool, blocks, receipts, height, lock, work, disk,
                 lookup, acked, failed, faults>>

(* Mutant of SwapPool: the receipts are swapped in before the blocks.      *)
SwapPoolAndReceipts(t) ==
  /\ Advance(t, "pool", "blocks")
  /\ pool' = PoolRemove(pool, work[t].tx)
  /\ receipts' = work[t].receipts
  /\ UNCHANGED <<phase, accounts, blocks, height, lock, work, disk,
                 lookup, acked, failed, faults>>

SwapPool(t) ==
  /\ Advance(t, "pool", "blocks")
  /\ pool' = PoolRemove(pool, work[t].tx)
  /\ UNCHANGED <<phase, accounts, blocks, receipts, height, lock, work, disk,
                 lookup, acked, failed, faults>>

SwapBlocks(t) ==
  /\ Advance(t, "blocks", "receipts")
  /\ blocks' = work[t].blocks
  /\ UNCHANGED <<phase, accounts, pool, receipts, height, lock, work, disk,
                 lookup, acked, failed, faults>>

SwapReceipts(t) ==
  /\ Advance(t, "receipts", "height")
  /\ receipts' = work[t].receipts
  /\ UNCHANGED <<phase, accounts, pool, blocks, height, lock, work, disk,
                 lookup, acked, failed, faults>>

(* The last swap, the release of the commit lock and the answer.           *)
SwapHeight(t) ==
  /\ Advance(t, "height", "idle")
  /\ height' = Last(work[t].blocks).height
  /\ lock' = NoThread
  /\ work' = [work EXCEPT ![t] = NoWork]
  /\ acked' = acked \cup {<<work[t].tx, Last(work[t].blocks).height>>}
  /\ UNCHANGED <<phase, accounts, pool, blocks, receipts, disk, lookup,
                 failed, faults>>

(* seed_accounts swaps the state only; bootstrap then starts the server.   *)
Seeded(t) ==
  /\ Advance(t, "state", "idle")
  /\ work[t].tx = NoTx
  /\ accounts' = work[t].accounts
  /\ lock' = NoThread
  /\ work' = [work EXCEPT ![t] = NoWork]
  /\ phase' = "serving"
  /\ UNCHANGED <<pool, blocks, receipts, height, disk, lookup, acked,
                 failed, faults>>

-----------------------------------------------------------------------------
(* Reads that take two steps: eth_getTransactionByHash (the receipt, then  *)
(* its block), eth_getBlockByNumber of the latest block (the count, then   *)
(* the block) and a client that asks eth_blockNumber and then for that     *)
(* block.                                                                  *)

ReadReceipt ==
  /\ phase = "serving"
  /\ lookup = NoLookup
  /\ \E r \in receipts :
       lookup' = [height |-> r.block_height, tx_hash |-> r.tx_hash]
  /\ UNCHANGED <<phase, memory, lock, pc, work, disk, acked, failed, faults>>

ReadNumber ==
  /\ phase = "serving"
  /\ lookup = NoLookup
  /\ \E h \in {Len(blocks), height} \ {0} :
       lookup' = [height |-> h, tx_hash |-> 0]
  /\ UNCHANGED <<phase, memory, lock, pc, work, disk, acked, failed, faults>>

ReadBlock ==
  /\ lookup # NoLookup
  /\ lookup' = NoLookup
  /\ UNCHANGED <<phase, memory, lock, pc, work, disk, acked, failed, faults>>

-----------------------------------------------------------------------------
(* Crashes, and Node::bootstrap.                                           *)

Halt ==
  /\ phase # "down"
  /\ faults < MaxFaults
  /\ faults' = faults + 1
  /\ phase' = "down"
  /\ accounts' = EmptyState
  /\ pool' = EmptyPool
  /\ blocks' = <<>>
  /\ receipts' = {}
  /\ height' = 0
  /\ lock' = NoThread
  /\ pc' = IdleThreads
  /\ work' = [t \in Procs |-> NoWork]
  /\ temp' = [t \in Procs |-> NoFile]
  /\ lookup' = NoLookup
  /\ UNCHANGED <<acked, failed>>

(* The process dies or is shut down; the operating system keeps its files. *)
ProcessStops == Halt /\ UNCHANGED <<file, stable, renamed>>

(* Every ledger file that a loss of power may leave in place.              *)
Images == ({file, stable} \cup renamed) \ {NoFile}

(* The machine dies: any rename since the last fsync of the directory may  *)
(* be undone, and those before it kept; content that was not fsynced may   *)
(* be torn.                                                                *)
PowerLoss ==
  /\ Halt
  /\ file' \in {file, stable} \cup renamed \cup
               {[data |-> Torn, synced |-> TRUE] :
                  image \in {each \in Images : ~each.synced}}
  /\ stable' = file'
  /\ renamed' = {}

BootFresh ==
  /\ phase = "down"
  /\ file = NoFile
  /\ phase' = "booting"
  /\ lock' = Main
  /\ work' = [work EXCEPT ![Main] = SeedWork]
  /\ pc' = [pc EXCEPT ![Main] = "write"]
  /\ UNCHANGED <<memory, disk, lookup, acked, failed, faults>>

(* Mutant of BootRestore: genesis is applied over the ledger it loaded.    *)
BootRestoreReseeds ==
  /\ phase = "down"
  /\ file # NoFile
  /\ Loads(file)
  /\ phase' = "serving"
  /\ accounts' = SeedState(file.data.accounts)
  /\ pool' = EmptyPool
  /\ blocks' = file.data.blocks
  /\ receipts' = file.data.receipts
  /\ height' = IF blocks' = <<>> THEN 0 ELSE Last(blocks').height
  /\ UNCHANGED <<lock, pc, work, disk, lookup, acked, failed, faults>>

(* Mutant of BootRestore: the height is not restored.                      *)
BootRestoreNoHeight ==
  /\ phase = "down"
  /\ file # NoFile
  /\ Loads(file)
  /\ phase' = "serving"
  /\ accounts' = file.data.accounts
  /\ pool' = EmptyPool
  /\ blocks' = file.data.blocks
  /\ receipts' = file.data.receipts
  /\ UNCHANGED <<height, lock, pc, work, disk, lookup, acked, failed, faults>>

(* Mutant of BootRestore: a ledger without blocks is refused.              *)
BootRestoreNonEmpty ==
  /\ phase = "down"
  /\ file # NoFile
  /\ Loads(file)
  /\ file.data.blocks # <<>>
  /\ phase' = "serving"
  /\ accounts' = file.data.accounts
  /\ pool' = EmptyPool
  /\ blocks' = file.data.blocks
  /\ receipts' = file.data.receipts
  /\ height' = Last(blocks').height
  /\ UNCHANGED <<lock, pc, work, disk, lookup, acked, failed, faults>>

(* A ledger that does not load makes bootstrap fail: the node stays down.  *)
BootRestore ==
  /\ phase = "down"
  /\ file # NoFile
  /\ Loads(file)
  /\ phase' = "serving"
  /\ accounts' = file.data.accounts
  /\ pool' = EmptyPool
  /\ blocks' = file.data.blocks
  /\ receipts' = file.data.receipts
  /\ height' = IF blocks' = <<>> THEN 0 ELSE Last(blocks').height
  /\ UNCHANGED <<lock, pc, work, disk, lookup, acked, failed, faults>>

Step(t) ==
  \/ WriteTemp(t) \/ SyncTemp(t) \/ Rename(t) \/ SyncDir(t)
  \/ SwapState(t) \/ SwapPool(t) \/ SwapBlocks(t) \/ SwapReceipts(t)
  \/ SwapHeight(t) \/ Seeded(t) \/ TooLarge(t)

(* What happens while the machine is up.                                   *)
Running ==
  \/ \E t \in Threads, tx \in Txs : Submit(t, tx) \/ SubmitRefused(t, tx)
  \/ \E t \in Procs : Step(t) \/ IOError(t)
  \/ Reseed
  \/ ReadReceipt \/ ReadNumber \/ ReadBlock
  \/ ProcessStops \/ BootFresh \/ BootRestore

Next == Running \/ PowerLoss

Spec == Init /\ [][Next]_vars

(* A thread in the commit path keeps running, and a node that is down is   *)
(* started again.                                                          *)
FairSpec ==
  /\ Spec
  /\ \A t \in Procs : WF_vars(Step(t))
  /\ WF_vars(BootFresh \/ BootRestore)

-----------------------------------------------------------------------------

(* The views, the threads' locals and the files have their types, after    *)
(* crashes and failed writes too.                                          *)
TypeOK ==
  /\ phase \in {"down", "booting", "serving"}
  /\ accounts \in Accounts
  /\ pool \in PoolType
  /\ blocks \in Seq(Block)
  /\ receipts \in SUBSET Receipt
  /\ height \in Nat
  /\ lock \in Procs \cup {NoThread}
  /\ pc \in [Procs -> Stages]
  /\ work \in [Procs -> Work \cup {NoWork}]
  /\ temp \in [Procs -> Image \cup {NoFile}]
  /\ file \in Image \cup {NoFile}
  /\ stable \in Image \cup {NoFile}
  /\ renamed \in SUBSET Image
  /\ lookup \in [height : Nat, tx_hash : Nat] \cup {NoLookup}
  /\ acked \in SUBSET (Txs \X Nat)
  /\ failed \in SUBSET Txs
  /\ faults \in 0..MaxFaults

(* "a failed persist cannot leave the in-memory ledger ahead of disk": all *)
(* a serving node shows is in the ledger file, block by block.             *)
MemoryNotAheadOfDisk ==
  phase = "serving" =>
    /\ file # NoFile
    /\ Len(blocks) <= Len(file.data.blocks)
    /\ SubSeq(file.data.blocks, 1, Len(blocks)) = blocks
    /\ receipts \subseteq file.data.receipts

(* Whenever the machine stops, the ledger it leaves behind loads: no torn  *)
(* file, and no snapshot that validate_chain refuses.                      *)
LedgerAlwaysLoads == \A image \in Images : Loads(image)

Holds(bs, tx, h) == h \in DOMAIN bs /\ bs[h].tx = tx

(* A transaction answered with its hash is in the ledger at its height,    *)
(* and in every one that a power loss may leave behind.                    *)
AckedIsDurable ==
  \A entry \in acked :
    /\ NoFile \notin {file, stable}
    /\ \A image \in Images : Holds(image.data.blocks, entry[1], entry[2])

(* A serving node shows every acknowledged transaction in all its views,   *)
(* whatever crashes and failed submissions came in between: its block, its *)
(* receipt, the block height and the sender's nonce.                       *)
AckedIsVisible ==
  phase = "serving" =>
    \A entry \in acked :
      /\ Holds(blocks, entry[1], entry[2])
      /\ height >= entry[2]
      /\ \E r \in receipts : r.tx_hash = entry[1].hash /\ r.block_height = entry[2]
      /\ accounts[entry[1].from].nonce > entry[1].nonce

(* "there is no pending limbo": outside the commit path the pool is empty, *)
(* whether the last submission was sealed, refused or failed on the disk.  *)
NoPendingLimbo == lock = NoThread => pool = EmptyPool

(* The second read of a two-step read finds the block the first one        *)
(* promised, whichever swaps happen in between.                            *)
LookupResolves ==
  lookup # NoLookup =>
    /\ lookup.height \in DOMAIN blocks
    /\ lookup.tx_hash # 0 => blocks[lookup.height].tx.hash = lookup.tx_hash

(* After the last fault the node comes up and stays up: no crash, not even *)
(* one while genesis is being written, leaves it unable to start.          *)
EventuallyServes == <>[](phase = "serving")

-----------------------------------------------------------------------------
(* The inductive invariant of the commit path.                             *)

Heights(bs) == \A i \in DOMAIN bs : bs[i].height = i

AckedIn(bs) == \A entry \in acked : Holds(bs, entry[1], entry[2])

(* Every receipt is of a transaction whose nonce its sender has spent.     *)
Spent(rs, s) ==
  \A r \in rs : \E tx \in Txs : tx.hash = r.tx_hash /\ tx.nonce < s[tx.from].nonce

SoundLedger(ledger) ==
  Heights(ledger.blocks) /\ AckedIn(ledger.blocks)
    /\ Spent(ledger.receipts, ledger.accounts)

(* The commit lock is held by the one thread in the commit path.           *)
LockInv ==
  /\ \A t \in Procs : pc[t] # "idle" <=> lock = t
  /\ \A t \in Procs : pc[t] # "idle" => work[t] # NoWork

PhaseInv ==
  /\ phase = "down" => lock = NoThread
  /\ phase = "booting" => lock = Main /\ work[Main].tx = NoTx
  /\ phase # "serving" =>
       accounts = EmptyState /\ blocks = <<>> /\ receipts = {} /\ lookup = NoLookup
  /\ Spent(receipts, accounts)
  /\ Heights(blocks)
  /\ phase = "serving" => file # NoFile /\ AckedIn(blocks)

DiskInv ==
  /\ \A image \in Images :
       image.synced /\ image.data # Torn /\ SoundLedger(image.data)
  /\ acked # {} => file # NoFile /\ stable # NoFile

(* A submission extends the chain by its block and holds its transaction   *)
(* in the pool until it is swapped out; a seeding changes neither.         *)
WorkInv ==
  \A t \in Procs : pc[t] # "idle" =>
    /\ SoundLedger(work[t])
    /\ receipts \subseteq work[t].receipts
    /\ Len(blocks) <= Len(work[t].blocks)
    /\ SubSeq(work[t].blocks, 1, Len(blocks)) = blocks
    /\ work[t].tx = NoTx =>
         /\ pc[t] \in Persisting \cup {"state"}
         /\ pool = EmptyPool
         /\ blocks = work[t].blocks
    /\ work[t].tx # NoTx =>
         /\ phase = "serving"
         /\ work[t].blocks # <<>>
         /\ Last(work[t].blocks).tx = work[t].tx
         /\ work[t].previous = NoTx
         /\ work[t].displaced = NoTx
         /\ pool = IF pc[t] \in {"blocks", "receipts", "height"}
                     THEN EmptyPool ELSE PoolInsert(EmptyPool, work[t].tx)
    /\ pc[t] \in {"receipts", "height"} => blocks = work[t].blocks
    /\ pc[t] \in {"pool", "blocks", "receipts", "height"} =>
         accounts = work[t].accounts

(* How far the write of each stage has come.                               *)
WriteInv ==
  \A t \in Procs :
    LET written == [data |-> SnapshotOf(work[t]), synced |-> TRUE]
    IN  /\ pc[t] = "sync" =>
             temp[t] = [data |-> SnapshotOf(work[t]), synced |-> FALSE]
        /\ pc[t] = "rename" => temp[t] = written
        /\ pc[t] \in {"syncdir"} \cup Swapping => file = written
        /\ pc[t] \in Swapping => stable = written /\ renamed = {}

(* Inductive: one thread commits at a time, its locals extend the views,   *)
(* what it has written is what it is about to show, and whatever is on     *)
(* disk holds every acknowledged transaction, also when seed_accounts is   *)
(* called on a live chain.                                                 *)
CommitInv ==
  /\ LockInv
  /\ PhaseInv
  /\ DiskInv
  /\ WorkInv
  /\ WriteInv
  /\ MemoryNotAheadOfDisk
  /\ NoPendingLimbo

-----------------------------------------------------------------------------
(* What a comment of the code claims beyond that.                          *)

(* "either returns a hash for a committed block or an error": a submission *)
(* answered with an error did not commit its transaction.                  *)
ErrorMeansNotCommitted ==
  phase = "serving" =>
    \A tx \in failed, i \in DOMAIN blocks : blocks[i].tx # tx

=============================================================================
