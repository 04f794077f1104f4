---------------------------- MODULE Audit_proofs ----------------------------
(***************************************************************************)
(* What readers, auditors and a restarted node find, for any threads,      *)
(* accounts, transactions, crashes and I/O errors: every ledger on disk    *)
(* loads and its books balance, and the views resolve each other.          *)
(***************************************************************************)
EXTENDS Node_proofs

(* No thread has begun to show what it committed.                          *)
Settled == \A t \in Procs : pc[t] \in {"idle", "state"} \cup Persisting

(* The views of a serving node, between the swaps too: the blocks are a    *)
(* chain, the receipts are of its blocks and reach up to the height.       *)
ViewInv ==
  /\ phase # "serving" => height = 0
  /\ phase = "serving" =>
       /\ \A i \in DOMAIN blocks : ValidBlock(blocks, i)
       /\ height <= Len(blocks)
       /\ \A r \in receipts : \E i \in DOMAIN blocks : r = ReceiptOf(blocks[i])
       /\ \A i \in 1..height : ReceiptOf(blocks[i]) \in receipts
       /\ \A entry \in acked :
            /\ entry[2] <= height
            /\ entry[1].nonce < accounts[entry[1].from].nonce
       /\ Settled => Good(Memory) /\ height = Len(blocks)

(* Every ledger on disk is good, ...                                       *)
DiskGood ==
  \A image \in Images : Good(image.data) /\ image.data.chain_id = ChainId

(* ... and the one a thread is about to write; a submission's adds one     *)
(* block to what is served.                                                *)
WorkGood ==
  \A t \in Procs : pc[t] # "idle" =>
    /\ Good(work[t])
    /\ work[t].tx # NoTx => Len(work[t].blocks) = height + 1
    /\ work[t].tx # NoTx /\ pc[t] \in Persisting =>
         ApplyTransaction(accounts, work[t].tx).ok
    /\ pc[t] = "height" => receipts = work[t].receipts

(* The ledger file is at most one block ahead of the views, and the one of *)
(* the last fsync of the directory is a part of it and of them.            *)
TailInv ==
  /\ stable # NoFile => file # NoFile /\ Prefix(stable.data.blocks, file.data.blocks)
  /\ phase = "serving" => Len(file.data.blocks) <= Len(blocks) + 1
  /\ phase # "down" /\ stable # NoFile
       /\ (\A t \in Procs : pc[t] \in {"idle"} \cup Persisting) =>
       Prefix(stable.data.blocks, blocks)

(* So is every ledger renamed into place since the directory was fsynced,  *)
(* though none of them need be a part of another.                          *)
RenamedInv ==
  \A image \in renamed :
    /\ file # NoFile
    /\ Len(image.data.blocks) <= Len(file.data.blocks) + 1
    /\ phase # "down" => Len(image.data.blocks) <= Len(blocks) + 1
    /\ stable # NoFile => Prefix(stable.data.blocks, image.data.blocks)

AuditInv ==
  ViewInv /\ DiskGood /\ WorkGood /\ TailInv /\ RenamedInv /\ LookupResolves

LEMMA PrefixTrans ==
  ASSUME NEW bs \in Seq(Block), NEW cs \in Seq(Block), NEW ds \in Seq(Block),
         Prefix(bs, cs), Prefix(cs, ds)
  PROVE  Prefix(bs, ds)
<1>1. /\ Len(bs) \in Nat /\ DOMAIN bs = 1..Len(bs)
      /\ Len(cs) \in Nat /\ DOMAIN cs = 1..Len(cs) /\ Len(ds) \in Nat
  OBVIOUS
<1> QED BY <1>1 DEF Prefix

(* A ledger file holds a chain.                                            *)
LEMMA ImageBlocks ==
  ASSUME IInv
  PROVE  /\ file # NoFile => file.data \in Snapshot /\ file.data.blocks \in Seq(Block)
         /\ stable # NoFile => stable.data \in Snapshot /\ stable.data.blocks \in Seq(Block)
         /\ \A image \in Images : image.data \in Snapshot /\ image.data.blocks \in Seq(Block)
         /\ renamed \subseteq Images
<1>1. \A image \in Images : image \in Image /\ image.data # Torn
  BY Zenon DEF IInv, TypeOK, CommitInv, DiskInv, Images
<1>2. \A image \in Image : image.data # Torn => image.data \in Snapshot
  BY Zenon DEF Image
<1>3. \A data \in Snapshot : data.blocks \in Seq(Block)
  BY Zenon DEF Snapshot
<1>4. (file # NoFile => file \in Images) /\ (stable # NoFile => stable \in Images)
  BY Zenon DEF Images
<1>5. renamed \subseteq Images
  BY Zenon, MarkerAssumption DEF IInv, TypeOK, Images
<1> QED BY Zenon, <1>1, <1>2, <1>3, <1>4, <1>5

(* A node that is down has nobody in the commit path.                      *)
LEMMA ServingOrBooting ==
  ASSUME IInv, NEW t \in Procs, pc[t] # "idle"
  PROVE  phase # "down"
BY Zenon, Holder DEF IInv, CommitInv, PhaseInv

(* A submission adds one block to the views.                               *)
LEMMA AheadByOne ==
  ASSUME IInv, AuditInv, NEW t \in Procs, pc[t] # "idle", Settled, phase = "serving"
  PROVE  /\ Len(work[t].blocks) <= Len(blocks) + 1
         /\ work[t].tx # NoTx => Len(work[t].blocks) = Len(blocks) + 1
<1>1. Len(blocks) \in Nat /\ height = Len(blocks)
  BY Zenon DEF IInv, TypeOK, AuditInv, ViewInv
<1>2. CASE work[t].tx = NoTx
  <2>1. work[t].blocks = blocks
    BY Zenon, <1>2 DEF IInv, CommitInv, WorkInv
  <2> QED BY <1>1, <1>2, <2>1
<1>3. CASE work[t].tx # NoTx
  BY <1>1, <1>3 DEF AuditInv, WorkGood
<1> QED BY Zenon, <1>2, <1>3

(* While the views are swapped the new ledger is on disk for good.         *)
LEMMA Written ==
  ASSUME IInv, NEW t \in Procs, pc[t] \in Swapping
  PROVE  /\ file # NoFile /\ stable = file /\ renamed = {}
         /\ file.data.blocks = work[t].blocks
         /\ file.data.accounts = work[t].accounts
<1>1. pc[t] # "idle"
  BY Zenon DEF Swapping
<1>2. /\ file = [data |-> SnapshotOf(work[t]), synced |-> TRUE]
      /\ stable = file /\ renamed = {}
  BY Zenon DEF IInv, CommitInv, WriteInv
<1>3. work[t] \in Work
  BY Zenon, <1>1, Holder
<1>4. file # NoFile
  BY Zenon, <1>2, <1>3, SnapshotFacts, MarkerAssumption
<1>5. file.data = SnapshotOf(work[t])
  BY Zenon, <1>2
<1> QED BY Zenon, <1>2, <1>3, <1>4, <1>5, SnapshotFacts

(* The renames stay where they are while the chain is not taken down.      *)
LEMMA RenamedFrame ==
  ASSUME RenamedInv, UNCHANGED <<file, stable, renamed, blocks>>,
         phase' # "down" => phase # "down" \/ file = NoFile
  PROVE  RenamedInv'
BY Zenon DEF RenamedInv, Prefix

(* After the fsync of the directory there are none.                        *)
LEMMA NoneRenamed ==
  ASSUME renamed' = {}
  PROVE  RenamedInv'
BY Zenon DEF RenamedInv

-----------------------------------------------------------------------------
(* The steps of the commit path.                                           *)

(* The views do not change, and no thread starts showing what it has.      *)
LEMMA ViewFrame ==
  ASSUME AuditInv, UNCHANGED <<phase, accounts, blocks, receipts, height, acked, lookup>>,
         Settled' => Settled
  PROVE  ViewInv' /\ LookupResolves'
<1>1. Memory' = Memory
  BY Zenon DEF Memory
<1>2. ViewInv'
  BY Zenon, <1>1 DEF AuditInv, ViewInv, ValidBlock
<1>3. LookupResolves'
  BY Zenon DEF AuditInv, LookupResolves
<1> QED BY Zenon, <1>2, <1>3

(* The thread in the commit path is the one to look at.                    *)
LEMMA Alone ==
  ASSUME IInv, NEW t \in Procs, pc[t] # "idle"
  PROVE  /\ Settled <=> pc[t] \in {"state"} \cup Persisting
         /\ \A u \in Procs \ {t} : pc[u] = "idle"
         /\ work[t] \in Work /\ work[t].blocks \in Seq(Block) /\ blocks \in Seq(Block)
         /\ Len(blocks) \in Nat /\ height \in Nat
         /\ Prefix(blocks, work[t].blocks)
<1>1. work[t] \in Work /\ \A u \in Procs \ {t} : pc[u] = "idle"
  BY Zenon, Holder
<1>2. Settled <=> pc[t] \in {"state"} \cup Persisting
  BY Zenon, <1>1 DEF Settled
<1>3. work[t].blocks \in Seq(Block) /\ blocks \in Seq(Block) /\ height \in Nat
  BY Zenon, <1>1 DEF Work, IInv, TypeOK
<1>4. Len(blocks) <= Len(work[t].blocks) /\ SubSeq(work[t].blocks, 1, Len(blocks)) = blocks
  BY Zenon DEF IInv, CommitInv, WorkInv
<1> QED BY Zenon, <1>1, <1>2, <1>3, <1>4, PrefixFacts

(* What is written is good.                                                *)
LEMMA WrittenGood ==
  ASSUME IInv, WorkGood, NEW t \in Procs, pc[t] # "idle"
  PROVE  /\ Good(SnapshotOf(work[t])) /\ SnapshotOf(work[t]).chain_id = ChainId
         /\ SnapshotOf(work[t]).blocks = work[t].blocks
<1>1. Good(work[t]) /\ work[t] \in Work
  BY Zenon, Holder DEF WorkGood
<1> QED BY Zenon, <1>1, SnapshotFacts, GoodSame DEF SnapshotOf

(* A system call of persist shows nothing.                                 *)
LEMMA PersistViews ==
  ASSUME IInv, AuditInv, NEW t \in Procs, pc[t] \in Persisting,
         NEW stage \in {"sync", "rename", "syncdir", "state"},
         pc' = [pc EXCEPT ![t] = stage],
         UNCHANGED <<phase, memory, work, lookup, acked>>
  PROVE  /\ ViewInv' /\ LookupResolves' /\ WorkGood'
         /\ pc'[t] = stage
         /\ \A u \in Procs \ {t} : pc'[u] = "idle" /\ pc[u] = "idle"
<1>1. pc[t] # "idle" /\ stage # "idle" /\ stage # "height" /\ pc \in [Procs -> Stages]
  BY Zenon DEF Persisting, IInv, TypeOK
<1>2. Settled /\ \A u \in Procs \ {t} : pc[u] = "idle"
  BY Zenon, <1>1, Alone
<1>3. pc'[t] = stage /\ \A u \in Procs \ {t} : pc'[u] = "idle"
  BY Zenon, <1>1, <1>2
<1>4. UNCHANGED <<phase, accounts, blocks, receipts, height, acked, lookup>>
  BY Zenon DEF memory
<1>5. WorkGood'
  BY Zenon, <1>1, <1>3, <1>4 DEF AuditInv, WorkGood
<1> QED BY Zenon, <1>2, <1>3, <1>4, <1>5, ViewFrame

LEMMA TempAudit ==
  ASSUME IInv, AuditInv, NEW t \in Procs, WriteTemp(t) \/ SyncTemp(t)
  PROVE  AuditInv'
<1>1. /\ pc[t] \in Persisting
      /\ UNCHANGED <<phase, memory, work, lookup, acked>>
      /\ UNCHANGED <<file, stable, renamed, blocks>>
      /\ \/ pc' = [pc EXCEPT ![t] = "sync"]
         \/ pc' = [pc EXCEPT ![t] = "rename"]
  BY Zenon DEF WriteTemp, SyncTemp, Advance, Persisting, memory
<1>2. /\ ViewInv' /\ LookupResolves' /\ WorkGood'
      /\ \A u \in Procs \ {t} : pc[u] = "idle"
  BY Zenon, <1>1, PersistViews
<1>3. DiskGood'
  BY Zenon, <1>1 DEF AuditInv, DiskGood, Images
<1>4. \A u \in Procs : pc[u] \in {"idle"} \cup Persisting
  BY Zenon, <1>1, <1>2
<1>5. TailInv'
  BY Zenon, <1>1, <1>4 DEF AuditInv, TailInv, memory
<1>6. RenamedInv'
  BY Zenon, <1>1, RenamedFrame DEF AuditInv
<1> QED BY Zenon, <1>2, <1>3, <1>5, <1>6 DEF AuditInv

LEMMA RenameAudit ==
  ASSUME IInv, AuditInv, NEW t \in Procs, Rename(t)
  PROVE  AuditInv'
<1> DEFINE written == [data |-> SnapshotOf(work[t]), synced |-> TRUE]
<1>1. /\ pc[t] = "rename" /\ pc[t] \in Persisting /\ pc[t] # "idle"
      /\ UNCHANGED <<phase, memory, work, lookup, acked>> /\ stable' = stable
      /\ UNCHANGED <<blocks, height>>
      /\ pc' = [pc EXCEPT ![t] = "syncdir"]
  BY Zenon DEF Rename, Advance, Persisting, memory
<1>2. /\ ViewInv' /\ LookupResolves' /\ WorkGood'
      /\ \A u \in Procs \ {t} : pc[u] = "idle"
  BY Zenon, <1>1, PersistViews
<1>3. /\ file' = written /\ written.data = SnapshotOf(work[t])
      /\ renamed' = renamed \cup {written}
  <2>1. file' = written /\ renamed' = renamed \cup {written}
    BY Zenon, <1>1 DEF IInv, CommitInv, WriteInv, Rename
  <2> QED BY Zenon, <2>1
<1>4. /\ Good(written.data) /\ written.data.chain_id = ChainId
      /\ written.data.blocks = work[t].blocks
  BY Zenon, <1>1, <1>3, WrittenGood DEF AuditInv
<1>5. file' # NoFile
  <2>1. work[t] \in Work
    BY Zenon, <1>1, Holder
  <2> QED BY Zenon, <1>3, <2>1, SnapshotFacts, MarkerAssumption
<1> HIDE DEF written
<1>6. DiskGood'
  BY Zenon, <1>1, <1>3, <1>4 DEF AuditInv, DiskGood, Images
<1>7. \A u \in Procs : pc[u] \in {"idle"} \cup Persisting
  BY Zenon, <1>1, <1>2
<1>8. /\ blocks \in Seq(Block) /\ work[t].blocks \in Seq(Block) /\ Settled
      /\ Len(blocks) \in Nat /\ Prefix(blocks, work[t].blocks)
  BY Zenon, <1>1, Alone
<1>9. stable # NoFile => Prefix(stable.data.blocks, blocks)
  BY Zenon, <1>1, <1>7, <1>8, ServingOrBooting DEF AuditInv, TailInv
<1>10. stable # NoFile => Prefix(stable.data.blocks, work[t].blocks)
  <2> SUFFICES ASSUME stable # NoFile PROVE Prefix(stable.data.blocks, work[t].blocks)
    BY Zenon
  <2>1. stable.data.blocks \in Seq(Block)
    BY Zenon, ImageBlocks
  <2> QED BY Zenon, <1>8, <1>9, <2>1, PrefixTrans
<1>11. phase = "serving" => Len(work[t].blocks) <= Len(blocks) + 1
  BY Zenon, <1>1, <1>8, AheadByOne
<1>12. TailInv'
  BY Zenon, <1>1, <1>3, <1>4, <1>5, <1>9, <1>10, <1>11 DEF TailInv
<1>13. /\ Len(work[t].blocks) \in Nat /\ Len(work[t].blocks) <= Len(work[t].blocks) + 1
       /\ Len(work[t].blocks) <= Len(blocks) + 1
       /\ Len(blocks) + 1 <= Len(work[t].blocks) + 1
  <2>1. Len(work[t].blocks) \in Nat /\ Len(blocks) <= Len(work[t].blocks)
    BY ONLY <1>8 DEF Prefix
  <2>2. phase # "serving" => work[t].blocks = blocks
    BY Zenon, <1>1 DEF IInv, CommitInv, WorkInv
  <2> QED BY ONLY <1>8, <1>11, <2>1, <2>2
<1>14. phase # "down"
  BY Zenon, <1>1, ServingOrBooting
<1>15. \A image \in renamed :
         /\ Len(image.data.blocks) <= Len(blocks) + 1
         /\ Len(image.data.blocks) <= Len(work[t].blocks) + 1
         /\ stable # NoFile => Prefix(stable.data.blocks, image.data.blocks)
  <2> SUFFICES ASSUME NEW image \in renamed
               PROVE  /\ Len(image.data.blocks) <= Len(blocks) + 1
                      /\ Len(image.data.blocks) <= Len(work[t].blocks) + 1
                      /\ stable # NoFile => Prefix(stable.data.blocks, image.data.blocks)
    BY Zenon
  <2>1. /\ Len(image.data.blocks) <= Len(blocks) + 1
        /\ stable # NoFile => Prefix(stable.data.blocks, image.data.blocks)
    BY Zenon, <1>14 DEF AuditInv, RenamedInv
  <2>2. image.data.blocks \in Seq(Block)
    BY Zenon, ImageBlocks
  <2>3. Len(image.data.blocks) <= Len(work[t].blocks) + 1
    BY ONLY <1>8, <1>13, <2>1, <2>2
  <2> QED BY Zenon, <2>1, <2>3
<1>16. RenamedInv'
  BY Zenon, <1>1, <1>3, <1>4, <1>5, <1>10, <1>13, <1>15 DEF RenamedInv
<1> QED BY Zenon, <1>2, <1>6, <1>12, <1>16 DEF AuditInv

LEMMA SyncDirAudit ==
  ASSUME IInv, AuditInv, NEW t \in Procs, SyncDir(t)
  PROVE  AuditInv'
<1>1. /\ pc[t] = "syncdir" /\ pc[t] \in Persisting /\ pc[t] # "idle"
      /\ UNCHANGED <<phase, memory, work, lookup, acked>>
      /\ file' = file /\ stable' = file /\ renamed' = {}
      /\ UNCHANGED <<blocks, height>>
      /\ pc' = [pc EXCEPT ![t] = "state"]
  BY Zenon DEF SyncDir, Advance, Persisting, memory
<1>2. ViewInv' /\ LookupResolves' /\ WorkGood' /\ pc'[t] = "state"
  BY Zenon, <1>1, PersistViews
<1>3. DiskGood'
  BY Zenon, <1>1 DEF AuditInv, DiskGood, Images
<1>4. file # NoFile => Prefix(file.data.blocks, file.data.blocks)
  BY Zenon, ImageBlocks, PrefixFacts
<1>5. pc'[t] \notin {"idle"} \cup Persisting
  BY Zenon, <1>2 DEF Persisting
<1>6. TailInv'
  BY Zenon, <1>1, <1>4, <1>5 DEF AuditInv, TailInv
<1> QED BY Zenon, <1>1, <1>2, <1>3, <1>6, NoneRenamed DEF AuditInv

(* A swap shows part of what is on disk.                                   *)
LEMMA SwapRest ==
  ASSUME IInv, AuditInv, NEW t \in Procs, pc[t] \in Swapping, work[t].tx # NoTx,
         NEW stage \in {"pool", "blocks", "receipts", "height"},
         pc' = [pc EXCEPT ![t] = stage],
         UNCHANGED <<phase, height, work, disk, lookup, acked>>,
         blocks' \in Seq(Block), Prefix(blocks, blocks'),
         stage = "height" => receipts' = work[t].receipts
  PROVE  /\ DiskGood' /\ WorkGood' /\ TailInv' /\ RenamedInv' /\ LookupResolves' /\ ~Settled'
         /\ phase = "serving" /\ pc[t] # "idle"
         /\ blocks \in Seq(Block) /\ work[t] \in Work /\ work[t].blocks \in Seq(Block)
         /\ Prefix(blocks, work[t].blocks) /\ ChainOK(work[t])
<1>1. /\ pc[t] # "idle" /\ stage # "idle" /\ stage \notin Persisting /\ stage # "state"
      /\ pc \in [Procs -> Stages]
  BY Zenon DEF Persisting, Swapping, IInv, TypeOK
<1>2. /\ \A u \in Procs \ {t} : pc[u] = "idle"
      /\ work[t] \in Work /\ work[t].blocks \in Seq(Block) /\ blocks \in Seq(Block)
      /\ Prefix(blocks, work[t].blocks)
  BY Zenon, <1>1, Alone
<1>3. pc'[t] = stage /\ \A u \in Procs \ {t} : pc'[u] = "idle"
  BY Zenon, <1>1, <1>2
<1>4. DiskGood'
  BY Zenon DEF AuditInv, DiskGood, Images, disk
<1>5. WorkGood'
  BY Zenon, <1>1, <1>3 DEF AuditInv, WorkGood
<1>6. phase = "serving"
  BY Zenon, <1>1 DEF IInv, CommitInv, WorkInv
<1>7. TailInv'
  <2>1. ~ \A u \in Procs : pc'[u] \in {"idle"} \cup Persisting
    BY Zenon, <1>1, <1>3
  <2>2. Len(blocks) \in Nat /\ Len(blocks') \in Nat /\ Len(blocks) <= Len(blocks')
    BY <1>2 DEF Prefix
  <2>3. file # NoFile => Len(file.data.blocks) \in Nat
    BY ImageBlocks
  <2>4. file # NoFile
    BY Zenon, <1>6 DEF IInv, CommitInv, PhaseInv
  <2>5. Len(file.data.blocks) <= Len(blocks') + 1
    BY <1>6, <2>2, <2>3, <2>4 DEF AuditInv, TailInv
  <2> QED BY Zenon, <2>1, <2>5 DEF AuditInv, TailInv, disk
<1>8. LookupResolves'
  BY Zenon, <1>2, PrefixFacts DEF AuditInv, LookupResolves
<1>9. ~Settled'
  BY Zenon, <1>1, <1>3 DEF Settled
<1>10. ChainOK(work[t])
  BY Zenon, <1>1 DEF AuditInv, WorkGood, Good
<1>11. RenamedInv'
  BY Zenon, Written, NoneRenamed DEF disk
<1> QED BY Zenon, <1>1, <1>2, <1>4, <1>5, <1>6, <1>7, <1>8, <1>9, <1>10, <1>11

(* What was acknowledged is spent in every ledger that extends the chain.  *)
LEMMA AckedSpent ==
  ASSUME NEW bs \in Seq(Block), AckedIn(bs), NEW ledger, ChainOK(ledger),
         ledger.blocks \in Seq(Block), Prefix(bs, ledger.blocks)
  PROVE  \A entry \in acked : entry[1].nonce < ledger.accounts[entry[1].from].nonce
<1> SUFFICES ASSUME NEW entry \in acked
             PROVE  entry[1].nonce < ledger.accounts[entry[1].from].nonce
  BY Zenon
<1>1. entry[2] \in DOMAIN bs /\ bs[entry[2]].tx = entry[1]
  BY Zenon DEF AckedIn, Holds
<1>2. entry[2] \in DOMAIN ledger.blocks /\ ledger.blocks[entry[2]] = bs[entry[2]]
  BY Zenon, <1>1, PrefixFacts
<1> QED BY Zenon, <1>1, <1>2 DEF ChainOK

LEMMA SwapStateAudit ==
  ASSUME IInv, AuditInv, NEW t \in Procs, SwapState(t)
  PROVE  AuditInv'
<1>1. /\ pc[t] \in Swapping /\ work[t].tx # NoTx /\ accounts' = work[t].accounts
      /\ pc' = [pc EXCEPT ![t] = "pool"]
      /\ UNCHANGED <<phase, height, work, disk, lookup, acked>> /\ UNCHANGED <<blocks, receipts>>
  BY Zenon DEF SwapState, Advance, Swapping
<1>2. blocks' \in Seq(Block) /\ Prefix(blocks, blocks')
  BY Zenon, <1>1, PrefixFacts DEF IInv, TypeOK
<1>3. /\ DiskGood' /\ WorkGood' /\ TailInv' /\ RenamedInv' /\ LookupResolves' /\ ~Settled'
      /\ phase = "serving" /\ blocks \in Seq(Block) /\ work[t].blocks \in Seq(Block)
      /\ Prefix(blocks, work[t].blocks) /\ ChainOK(work[t])
  BY Zenon, <1>1, <1>2, SwapRest
<1>4. AckedIn(blocks)
  BY Zenon, <1>3 DEF IInv, CommitInv, PhaseInv
<1>5. \A entry \in acked : entry[1].nonce < accounts'[entry[1].from].nonce
  BY Zenon, <1>1, <1>3, <1>4, AckedSpent
<1>6. ViewInv'
  BY Zenon, <1>1, <1>3, <1>5 DEF AuditInv, ViewInv, ValidBlock
<1> QED BY Zenon, <1>3, <1>6 DEF AuditInv

LEMMA SwapPoolAudit ==
  ASSUME IInv, AuditInv, NEW t \in Procs, SwapPool(t)
  PROVE  AuditInv'
<1>1. /\ pc[t] = "pool" /\ pc[t] \in Swapping /\ pc' = [pc EXCEPT ![t] = "blocks"]
      /\ UNCHANGED <<phase, height, work, disk, lookup, acked>>
      /\ UNCHANGED <<accounts, blocks, receipts>>
  BY Zenon DEF SwapPool, Advance, Swapping
<1>2. blocks' \in Seq(Block) /\ Prefix(blocks, blocks')
  BY Zenon, <1>1, PrefixFacts DEF IInv, TypeOK
<1>3. work[t].tx # NoTx
  BY Zenon, <1>1 DEF IInv, CommitInv, WorkInv, Persisting
<1>4. DiskGood' /\ WorkGood' /\ TailInv' /\ RenamedInv' /\ LookupResolves' /\ ~Settled' /\ phase = "serving"
  BY Zenon, <1>1, <1>2, <1>3, SwapRest
<1>5. ViewInv'
  BY Zenon, <1>1, <1>4 DEF AuditInv, ViewInv, ValidBlock
<1> QED BY Zenon, <1>4, <1>5 DEF AuditInv

LEMMA SwapBlocksAudit ==
  ASSUME IInv, AuditInv, NEW t \in Procs, SwapBlocks(t)
  PROVE  AuditInv'
<1>1. /\ pc[t] = "blocks" /\ pc[t] \in Swapping /\ pc[t] # "idle"
      /\ pc' = [pc EXCEPT ![t] = "receipts"]
      /\ UNCHANGED <<phase, height, work, disk, lookup, acked>>
      /\ UNCHANGED <<accounts, receipts>> /\ blocks' = work[t].blocks
  BY Zenon DEF SwapBlocks, Advance, Swapping
<1>2. blocks' \in Seq(Block) /\ Prefix(blocks, blocks') /\ height \in Nat
  BY Zenon, <1>1, Alone
<1>3. work[t].tx # NoTx
  BY Zenon, <1>1 DEF IInv, CommitInv, WorkInv, Persisting
<1>4. /\ DiskGood' /\ WorkGood' /\ TailInv' /\ RenamedInv' /\ LookupResolves' /\ ~Settled'
      /\ phase = "serving" /\ blocks \in Seq(Block)
      /\ Prefix(blocks, work[t].blocks) /\ ChainOK(work[t])
  BY Zenon, <1>1, <1>2, <1>3, SwapRest
<1>5. \A i \in DOMAIN blocks' : ValidBlock(blocks', i)
  BY Zenon, <1>1, <1>4 DEF ChainOK
<1>6. /\ \A i \in DOMAIN blocks : i \in DOMAIN blocks' /\ blocks'[i] = blocks[i]
      /\ Len(blocks) \in Nat /\ Len(blocks') \in Nat /\ DOMAIN blocks = 1..Len(blocks)
      /\ Len(blocks) <= Len(blocks')
  BY Zenon, <1>2, <1>4, PrefixFacts, ChainDomain DEF Prefix
<1>7. /\ height <= Len(blocks)
      /\ \A r \in receipts : \E i \in DOMAIN blocks : r = ReceiptOf(blocks[i])
      /\ \A i \in 1..height : ReceiptOf(blocks[i]) \in receipts
      /\ \A entry \in acked :
            /\ entry[2] <= height
            /\ entry[1].nonce < accounts[entry[1].from].nonce
  BY Zenon, <1>4 DEF AuditInv, ViewInv
<1>8. height <= Len(blocks') /\ \A i \in 1..height : i \in DOMAIN blocks
  BY <1>2, <1>6, <1>7
<1>9. \A r \in receipts : \E i \in DOMAIN blocks' : r = ReceiptOf(blocks'[i])
  BY Zenon, <1>6, <1>7
<1>10. \A i \in 1..height : ReceiptOf(blocks'[i]) \in receipts
  BY Zenon, <1>6, <1>7, <1>8
<1>11. ViewInv'
  BY Zenon, <1>1, <1>4, <1>5, <1>7, <1>8, <1>9, <1>10 DEF ViewInv
<1> QED BY Zenon, <1>4, <1>11 DEF AuditInv

LEMMA SwapReceiptsAudit ==
  ASSUME IInv, AuditInv, NEW t \in Procs, SwapReceipts(t)
  PROVE  AuditInv'
<1>1. /\ pc[t] = "receipts" /\ pc[t] \in Swapping /\ pc[t] # "idle"
      /\ pc' = [pc EXCEPT ![t] = "height"]
      /\ UNCHANGED <<phase, height, work, disk, lookup, acked>>
      /\ UNCHANGED <<accounts, blocks>> /\ receipts' = work[t].receipts
  BY Zenon DEF SwapReceipts, Advance, Swapping
<1>2. blocks' \in Seq(Block) /\ Prefix(blocks, blocks') /\ height \in Nat
  BY Zenon, <1>1, PrefixFacts DEF IInv, TypeOK
<1>3. work[t].tx # NoTx /\ blocks = work[t].blocks
  BY Zenon, <1>1 DEF IInv, CommitInv, WorkInv, Persisting
<1>4. /\ DiskGood' /\ WorkGood' /\ TailInv' /\ RenamedInv' /\ LookupResolves' /\ ~Settled'
      /\ phase = "serving" /\ blocks \in Seq(Block) /\ ChainOK(work[t])
  BY Zenon, <1>1, <1>2, <1>3, SwapRest
<1>5. receipts' = {ReceiptOf(blocks[i]) : i \in DOMAIN blocks}
  BY Zenon, <1>1, <1>3, <1>4 DEF ChainOK
<1>6. height <= Len(blocks) /\ \A i \in 1..height : i \in DOMAIN blocks
  <2>1. height <= Len(blocks) /\ Len(blocks) \in Nat /\ DOMAIN blocks = 1..Len(blocks)
    BY <1>4 DEF AuditInv, ViewInv
  <2> QED BY ONLY <1>2, <2>1
<1>7. /\ \A r \in receipts' : \E i \in DOMAIN blocks : r = ReceiptOf(blocks[i])
      /\ \A i \in 1..height : ReceiptOf(blocks[i]) \in receipts'
  BY Zenon, <1>5, <1>6
<1>8. ViewInv'
  BY Zenon, <1>1, <1>4, <1>6, <1>7 DEF AuditInv, ViewInv, ValidBlock
<1> QED BY Zenon, <1>4, <1>8 DEF AuditInv

(* Nobody is left in the commit path: what the views need.                 *)
LEMMA IdleViews ==
  ASSUME \A u \in Procs : pc'[u] = "idle", phase' = "serving",
         blocks' \in Seq(Block), height' \in Nat, height' = Len(blocks'),
         Good(Memory'), AckedIn(blocks)'
  PROVE  ViewInv' /\ WorkGood'
<1>1. ChainOK(Memory')
  BY Zenon DEF Good
<1>2. /\ \A i \in DOMAIN blocks' : ValidBlock(blocks', i)
      /\ receipts' = {ReceiptOf(blocks'[i]) : i \in DOMAIN blocks'}
  BY Zenon, <1>1, MemoryFields DEF ChainOK, Memory
<1>3. DOMAIN blocks' = 1..height' /\ height' <= Len(blocks')
  BY ChainDomain
<1>4. \A entry \in acked' : entry[2] <= height'
  <2>1. \A entry \in acked' : entry[2] \in 1..height'
    BY Zenon, <1>3 DEF AckedIn, Holds
  <2> QED BY <2>1
<1>5. \A entry \in acked' : entry[1].nonce < accounts'[entry[1].from].nonce
  <2> SUFFICES ASSUME NEW entry \in acked'
               PROVE  entry[1].nonce < accounts'[entry[1].from].nonce
    BY Zenon
  <2>1. entry[2] \in DOMAIN blocks' /\ blocks'[entry[2]].tx = entry[1]
    BY Zenon DEF AckedIn, Holds
  <2>2. \A i \in DOMAIN blocks' :
          blocks'[i].tx.nonce < accounts'[blocks'[i].tx.from].nonce
    BY Zenon, <1>1 DEF ChainOK, Memory
  <2> QED BY Zenon, <2>1, <2>2
<1>6. ViewInv'
  BY Zenon, <1>2, <1>3, <1>4, <1>5 DEF ViewInv
<1>7. WorkGood'
  BY Zenon DEF WorkGood
<1> QED BY Zenon, <1>6, <1>7

(* The answer.                                                             *)
LEMMA SwapHeightAudit ==
  ASSUME IInv, IInv', AuditInv, NEW t \in Procs, SwapHeight(t)
  PROVE  AuditInv'
<1>1. /\ pc[t] = "height" /\ pc[t] \in Swapping /\ pc[t] # "idle"
      /\ pc' = [pc EXCEPT ![t] = "idle"]
      /\ height' = Last(work[t].blocks).height
      /\ UNCHANGED <<phase, accounts, blocks, receipts, file, stable, renamed, lookup>>
  BY Zenon DEF SwapHeight, Advance, Swapping, disk
<1>2. /\ pc \in [Procs -> Stages] /\ \A u \in Procs \ {t} : pc[u] = "idle"
      /\ blocks \in Seq(Block) /\ Len(blocks) \in Nat
  BY Zenon, <1>1, Alone DEF IInv, TypeOK
<1>3. \A u \in Procs : pc'[u] = "idle"
  BY Zenon, <1>1, <1>2
<1>4. /\ blocks = work[t].blocks /\ accounts = work[t].accounts
      /\ phase = "serving" /\ blocks # <<>>
  BY Zenon, <1>1 DEF IInv, CommitInv, WorkInv, Persisting
<1>5. Good(work[t]) /\ receipts = work[t].receipts
  BY Zenon, <1>1 DEF AuditInv, WorkGood
<1>6. Good(Memory')
  <2>1. Memory' = Memory /\ Good(Memory)
    BY Zenon, <1>1, <1>4, <1>5, MemoryFields, GoodSame DEF Memory
  <2> QED BY Zenon, <2>1
<1>7. height' = Len(blocks')
  <2>1. Len(blocks) \in DOMAIN blocks
    BY <1>2, <1>4
  <2> QED BY Zenon, <1>1, <1>4, <2>1 DEF IInv, CommitInv, PhaseInv, Heights, Last
<1>8. AckedIn(blocks)' /\ blocks' \in Seq(Block) /\ height' \in Nat /\ phase' = "serving"
  BY Zenon, <1>1, <1>4 DEF IInv, CommitInv, PhaseInv, TypeOK
<1>9. ViewInv' /\ WorkGood'
  BY Zenon, <1>3, <1>6, <1>7, <1>8, IdleViews
<1>10. DiskGood' /\ LookupResolves'
  BY Zenon, <1>1 DEF AuditInv, DiskGood, Images, LookupResolves
<1>11. TailInv'
  <2>1. file # NoFile /\ stable = file /\ file.data.blocks = blocks
    BY Zenon, <1>1, <1>4, Written
  <2>4. Prefix(blocks, blocks)
    BY Zenon, <1>2, PrefixFacts
  <2> QED BY Zenon, <1>1, <2>1, <2>4 DEF AuditInv, TailInv
<1>12. RenamedInv'
  BY Zenon, <1>1, Written, NoneRenamed
<1> QED BY Zenon, <1>9, <1>10, <1>11, <1>12 DEF AuditInv

(* seed_accounts returns.                                                  *)
LEMMA SeededAudit ==
  ASSUME IInv, IInv', AuditInv, NEW t \in Procs, Seeded(t)
  PROVE  AuditInv'
<1>1. /\ pc[t] = "state" /\ pc[t] \in Swapping /\ pc[t] # "idle"
      /\ pc' = [pc EXCEPT ![t] = "idle"] /\ work[t].tx = NoTx
      /\ accounts' = work[t].accounts /\ phase' = "serving"
      /\ UNCHANGED <<blocks, receipts, height, file, stable, renamed, lookup, acked>>
  BY Zenon DEF Seeded, Advance, Swapping, disk
<1>2. /\ pc \in [Procs -> Stages] /\ \A u \in Procs \ {t} : pc[u] = "idle"
      /\ blocks \in Seq(Block) /\ Len(blocks) \in Nat /\ Settled
  BY Zenon, <1>1, Alone DEF IInv, TypeOK
<1>3. \A u \in Procs : pc'[u] = "idle"
  BY Zenon, <1>1, <1>2
<1>4. blocks = work[t].blocks /\ Good(work[t])
  BY Zenon, <1>1 DEF IInv, CommitInv, WorkInv, AuditInv, WorkGood
<1>5. receipts = work[t].receipts /\ height = Len(blocks)
  <2>1. CASE phase = "serving"
    <3>1. Good(Memory) /\ height = Len(blocks)
      BY Zenon, <1>2, <2>1 DEF AuditInv, ViewInv
    <3> QED BY Zenon, <1>4, <3>1, MemoryFields DEF Good, ChainOK
  <2>2. CASE phase # "serving"
    <3>1. receipts = {} /\ blocks = <<>> /\ height = 0
      BY Zenon, <2>2 DEF IInv, CommitInv, PhaseInv, AuditInv, ViewInv
    <3>2. work[t].receipts = {ReceiptOf(blocks[i]) : i \in DOMAIN blocks}
      BY Zenon, <1>4 DEF Good, ChainOK
    <3> QED BY ONLY <3>1, <3>2
  <2> QED BY Zenon, <2>1, <2>2
<1>6. Good(Memory')
  <2>1. /\ Memory'.accounts = work[t].accounts /\ Memory'.blocks = work[t].blocks
        /\ Memory'.receipts = work[t].receipts
    BY Zenon, <1>1, <1>4, <1>5 DEF Memory
  <2> QED BY Zenon, <1>4, <2>1, GoodSame
<1>7. /\ AckedIn(blocks)' /\ blocks' \in Seq(Block) /\ height' \in Nat
      /\ height' = Len(blocks')
  BY Zenon, <1>1, <1>5 DEF IInv, CommitInv, PhaseInv, TypeOK
<1>8. ViewInv' /\ WorkGood'
  BY Zenon, <1>1, <1>3, <1>6, <1>7, IdleViews
<1>9. DiskGood' /\ LookupResolves'
  BY Zenon, <1>1 DEF AuditInv, DiskGood, Images, LookupResolves
<1>10. TailInv'
  <2>1. file # NoFile /\ stable = file /\ file.data.blocks = blocks
    BY Zenon, <1>1, <1>4, Written
  <2>4. Prefix(blocks, blocks) /\ Len(blocks) <= Len(blocks) + 1
    BY <1>2, PrefixFacts
  <2> QED BY Zenon, <1>1, <2>1, <2>4 DEF AuditInv, TailInv
<1>11. RenamedInv'
  BY Zenon, <1>1, Written, NoneRenamed
<1> QED BY Zenon, <1>8, <1>9, <1>10, <1>11 DEF AuditInv

(* A submission or a seeding that gives up shows nothing.                  *)
LEMMA AbortAudit ==
  ASSUME IInv, IInv', AuditInv, NEW t \in Procs, pc[t] \in Persisting, Abort(t)
  PROVE  AuditInv'
<1>1. /\ pc[t] # "idle" /\ pc' = [pc EXCEPT ![t] = "idle"]
      /\ phase' = IF phase = "booting" THEN "down" ELSE phase
      /\ UNCHANGED <<accounts, blocks, receipts, height, file, stable, renamed,
                     lookup, acked>>
  BY Zenon DEF Abort, Persisting
<1>2. /\ pc \in [Procs -> Stages] /\ \A u \in Procs \ {t} : pc[u] = "idle"
      /\ Settled
  BY Zenon, <1>1, Alone DEF IInv, TypeOK
<1>3. \A u \in Procs : pc'[u] = "idle" /\ pc[u] \in {"idle"} \cup Persisting
  BY Zenon, <1>1, <1>2
<1>4. DiskGood' /\ LookupResolves' /\ WorkGood'
  BY Zenon, <1>1, <1>3 DEF AuditInv, DiskGood, Images, LookupResolves, WorkGood
<1>5. Memory' = Memory
  BY Zenon, <1>1 DEF Memory
<1>6. ViewInv'
  BY Zenon, <1>1, <1>2, <1>5 DEF AuditInv, ViewInv, ValidBlock
<1>7. TailInv'
  BY Zenon, <1>1, <1>3 DEF AuditInv, TailInv
<1>8. RenamedInv'
  BY Zenon, <1>1, RenamedFrame DEF AuditInv
<1> QED BY Zenon, <1>4, <1>6, <1>7, <1>8 DEF AuditInv

-----------------------------------------------------------------------------
(* Entering the commit path, reading, and crashing.                        *)

(* A thread enters the commit path.                                        *)
LEMMA EnterAudit ==
  ASSUME IInv, AuditInv, NEW t \in Procs, NEW w, lock = NoThread,
         work' = [work EXCEPT ![t] = w], pc' = [pc EXCEPT ![t] = "write"],
         UNCHANGED <<accounts, blocks, receipts, height, disk, lookup, acked>>,
         \/ phase' = phase
         \/ phase = "down" /\ phase' = "booting" /\ file = NoFile,
         Good(w),
         w.tx # NoTx => /\ Len(w.blocks) = height + 1
                        /\ ApplyTransaction(accounts, w.tx).ok
  PROVE  AuditInv'
<1>1. /\ \A u \in Procs : pc[u] = "idle"
      /\ Settled
  BY Zenon, LockFree DEF Settled
<1>2. pc \in [Procs -> Stages] /\ work \in [Procs -> Work \cup {NoWork}]
  BY Zenon DEF IInv, TypeOK
<1>3. pc'[t] = "write" /\ work'[t] = w /\ \A u \in Procs \ {t} : pc'[u] = "idle"
  BY Zenon, <1>1, <1>2
<1>4. UNCHANGED <<file, stable, renamed>>
  BY Zenon DEF disk
<1>5. DiskGood' /\ LookupResolves'
  BY Zenon, <1>4 DEF AuditInv, DiskGood, Images, LookupResolves
<1>6. WorkGood'
  BY Zenon, <1>3 DEF WorkGood
<1>7. Memory' = Memory
  BY Zenon DEF Memory
<1>8. ViewInv'
  BY Zenon, <1>1, <1>7 DEF AuditInv, ViewInv, ValidBlock
<1>9. TailInv'
  BY Zenon, <1>1, <1>4 DEF AuditInv, TailInv
<1>10. RenamedInv'
  BY Zenon, <1>4, RenamedFrame DEF AuditInv
<1> QED BY Zenon, <1>5, <1>6, <1>8, <1>9, <1>10 DEF AuditInv

LEMMA SubmitAudit ==
  ASSUME IInv, AuditInv, NEW t \in Threads, NEW tx \in Txs, Submit(t, tx)
  PROVE  AuditInv'
<1> DEFINE after == ApplyTransaction(accounts, tx).accounts
           b == NextBlock(blocks, after, tx)
           w == SealWork(tx)
<1>1. /\ t \in Procs /\ phase = "serving" /\ lock = NoThread
      /\ work' = [work EXCEPT ![t] = w] /\ pc' = [pc EXCEPT ![t] = "write"]
      /\ UNCHANGED <<accounts, blocks, receipts, height, disk, lookup, acked>>
      /\ phase' = phase
      /\ ApplyTransaction(accounts, tx).ok /\ tx.gas_limit <= BlockGasLimit
  BY Zenon, ProcFacts DEF Submit, CanSubmit, Sealable
<1>2. accounts \in Accounts /\ blocks \in Seq(Block) /\ receipts \in SUBSET Receipt
  BY Zenon DEF IInv, TypeOK
<1>3. Spent(receipts, accounts) /\ Heights(blocks)
  BY Zenon DEF IInv, CommitInv, PhaseInv
<1>4. Good(Memory) /\ height = Len(blocks)
  <2>1. Settled
    BY Zenon, <1>1, LockFree DEF Settled
  <2> QED BY Zenon, <1>1, <2>1 DEF AuditInv, ViewInv
<1>5. /\ w.tx = tx /\ w.accounts = after /\ w.blocks = Append(blocks, b)
      /\ w.receipts = InsertReceipt(receipts, ReceiptOf(b))
  BY Zenon DEF SealWork
<1>6. Good([accounts |-> accounts, blocks |-> blocks, receipts |-> receipts])
  BY Zenon, <1>4 DEF Memory
<1>7. b \in Block
  <2>1. after \in Accounts
    BY Zenon, <1>1, <1>2, ExecutionSpendsOneNonce DEF Accounts
  <2> QED BY Zenon, <1>2, <1>3, <2>1, NextBlockFacts
<1>8. Len(w.blocks) = height + 1
  BY Zenon, <1>2, <1>4, <1>5, <1>7, AppendFacts
<1> HIDE DEF w
<1>9. Good(w)
  <2>1. /\ w.accounts = ApplyTransaction(accounts, tx).accounts
        /\ w.blocks = Append(blocks, NextBlock(blocks, w.accounts, tx))
        /\ w.receipts = InsertReceipt(receipts, ReceiptOf(NextBlock(blocks, w.accounts, tx)))
    BY Zenon, <1>5
  <2> QED BY Zenon, <1>1, <1>2, <1>3, <1>6, <2>1, GoodAppend
<1> QED BY Zenon, <1>1, <1>5, <1>8, <1>9, EnterAudit

LEMMA SeedAudit ==
  ASSUME IInv, AuditInv, Reseed \/ BootFresh
  PROVE  AuditInv'
<1> DEFINE w == SeedWork
<1>1. /\ lock = NoThread /\ work' = [work EXCEPT ![Main] = w]
      /\ pc' = [pc EXCEPT ![Main] = "write"]
      /\ UNCHANGED <<accounts, blocks, receipts, height, disk, lookup, acked>>
      /\ \/ phase' = phase /\ phase = "serving" /\ (Reseeding \/ blocks = <<>>)
         \/ phase = "down" /\ phase' = "booting" /\ file = NoFile
  BY Zenon DEF Reseed, BootFresh, CanSubmit, IInv, CommitInv, PhaseInv, memory
<1>2. accounts \in Accounts /\ blocks \in Seq(Block)
  BY Zenon DEF IInv, TypeOK
<1>3. /\ w.tx = NoTx /\ w.accounts = SeedState(accounts) /\ w.blocks = blocks
      /\ w.receipts = receipts
  BY Zenon DEF SeedWork
<1>4. phase = "serving" =>
        Good([accounts |-> accounts, blocks |-> blocks, receipts |-> receipts])
  <2>1. Settled
    BY Zenon, <1>1, LockFree DEF Settled
  <2> QED BY Zenon, <2>1 DEF AuditInv, ViewInv, Memory
<1>5. phase = "down" => accounts = EmptyState /\ blocks = <<>> /\ receipts = {}
  BY Zenon DEF IInv, CommitInv, PhaseInv
<1> HIDE DEF w
<1>6. Good(w)
  BY Zenon, <1>1, <1>2, <1>3, <1>4, <1>5, GoodSeed
<1> QED BY Zenon, <1>1, <1>3, <1>6, ProcFacts, EnterAudit

(* A refused submission, and a read.                                       *)
LEMMA QuietAudit ==
  ASSUME AuditInv, LookupResolves',
         UNCHANGED <<phase, accounts, blocks, receipts, height, pc, work, disk, acked>>
  PROVE  AuditInv'
<1>1. Memory' = Memory /\ Settled' = Settled /\ UNCHANGED <<file, stable, renamed>>
  BY Zenon DEF Memory, Settled, disk
<1>2. ViewInv'
  BY Zenon, <1>1 DEF AuditInv, ViewInv, ValidBlock
<1>3. DiskGood' /\ WorkGood'
  BY Zenon, <1>1 DEF AuditInv, DiskGood, Images, WorkGood
<1>4. TailInv'
  BY Zenon, <1>1 DEF AuditInv, TailInv
<1>5. RenamedInv'
  BY Zenon, <1>1, RenamedFrame DEF AuditInv
<1> QED BY Zenon, <1>2, <1>3, <1>4, <1>5 DEF AuditInv

(* The first read of two promises a block that is there.                   *)
LEMMA ReadAudit ==
  ASSUME IInv, AuditInv, ReadReceipt \/ ReadNumber \/ ReadBlock
  PROVE  AuditInv'
<1>1. UNCHANGED <<phase, accounts, blocks, receipts, height, pc, work, disk, acked>>
  BY Zenon DEF ReadReceipt, ReadNumber, ReadBlock, memory
<1>2. blocks \in Seq(Block) /\ DOMAIN blocks = 1..Len(blocks) /\ Len(blocks) \in Nat /\ height \in Nat
  BY DEF IInv, TypeOK
<1>3. CASE ReadReceipt
  <2>1. PICK r \in receipts : lookup' = [height |-> r.block_height, tx_hash |-> r.tx_hash]
    BY Zenon, <1>3 DEF ReadReceipt
  <2>2. PICK i \in DOMAIN blocks : r = ReceiptOf(blocks[i]) /\ ValidBlock(blocks, i)
    BY Zenon, <1>3 DEF AuditInv, ViewInv, ReadReceipt
  <2>3. r.block_height = i /\ r.tx_hash = blocks[i].tx.hash
    BY Zenon, <2>2 DEF ReceiptOf, ValidBlock
  <2>4. LookupResolves'
    BY Zenon, <1>1, <2>1, <2>2, <2>3 DEF LookupResolves
  <2> QED BY Zenon, <1>1, <2>4, QuietAudit
<1>4. CASE ReadNumber
  <2>1. PICK h \in {Len(blocks), height} \ {0} : lookup' = [height |-> h, tx_hash |-> 0]
    BY Zenon, <1>4 DEF ReadNumber
  <2>2. height <= Len(blocks)
    BY Zenon, <1>4 DEF AuditInv, ViewInv, ReadNumber
  <2>3. h \in DOMAIN blocks
    BY <1>2, <2>2
  <2>4. LookupResolves'
    BY Zenon, <1>1, <2>1, <2>3 DEF LookupResolves
  <2> QED BY Zenon, <1>1, <2>4, QuietAudit
<1>5. CASE ReadBlock
  <2>1. LookupResolves'
    BY Zenon, <1>5 DEF ReadBlock, LookupResolves
  <2> QED BY Zenon, <1>1, <2>1, QuietAudit
<1> QED BY Zenon, <1>3, <1>4, <1>5

LEMMA SubmitRefusedAudit ==
  ASSUME AuditInv, NEW t \in Threads, NEW tx \in Txs, SubmitRefused(t, tx)
  PROVE  AuditInv'
<1>1. /\ UNCHANGED <<phase, accounts, blocks, receipts, height, pc, work, disk, acked>>
      /\ lookup' = lookup
  BY Zenon DEF SubmitRefused
<1>2. LookupResolves'
  BY Zenon, <1>1 DEF AuditInv, LookupResolves
<1> QED BY Zenon, <1>1, <1>2, QuietAudit

(* A crash leaves one of the ledgers that were put in place, and no views. *)
LEMMA CrashAudit ==
  ASSUME IInv, AuditInv, ProcessStops \/ PowerLoss
  PROVE  AuditInv'
<1>1. /\ phase' = "down" /\ height' = 0 /\ lookup' = NoLookup
      /\ \A u \in Procs : pc'[u] = "idle"
  BY Zenon DEF ProcessStops, PowerLoss, Halt, IdleThreads
<1>2. \/ file' = file /\ stable' = stable /\ renamed' = renamed
      \/ /\ file' \in {file, stable} \cup renamed
         /\ stable' = file' /\ renamed' = {}
  BY Zenon DEF ProcessStops, PowerLoss, IInv, CommitInv, DiskInv
<1>3. ViewInv' /\ WorkGood' /\ LookupResolves'
  BY Zenon, <1>1 DEF ViewInv, WorkGood, LookupResolves
<1>4. DiskGood'
  BY Zenon, <1>2 DEF AuditInv, DiskGood, Images
<1>5. stable' # NoFile => file' # NoFile /\ Prefix(stable'.data.blocks, file'.data.blocks)
  <2>1. CASE file' = file /\ stable' = stable
    BY Zenon, <2>1 DEF AuditInv, TailInv
  <2>2. CASE file' \in {file, stable} \cup renamed /\ stable' = file'
    <3>1. file' # NoFile => file'.data.blocks \in Seq(Block)
      BY Zenon, <2>2, ImageBlocks DEF Images
    <3> QED BY Zenon, <2>2, <3>1, PrefixFacts
  <2> QED BY Zenon, <1>2, <2>1, <2>2
<1>6. TailInv'
  BY Zenon, <1>1, <1>5 DEF TailInv
<1>7. RenamedInv'
  BY Zenon, <1>1, <1>2 DEF AuditInv, RenamedInv, Prefix
<1> QED BY Zenon, <1>3, <1>4, <1>6, <1>7 DEF AuditInv

(* A restart shows the ledger on disk.                                     *)
LEMMA BootRestoreAudit ==
  ASSUME IInv, IInv', AuditInv, BootRestore
  PROVE  AuditInv'
<1>1. /\ phase = "down" /\ file # NoFile /\ phase' = "serving"
      /\ accounts' = file.data.accounts
      /\ blocks' = file.data.blocks /\ receipts' = file.data.receipts
      /\ height' = IF blocks' = <<>> THEN 0 ELSE Last(blocks').height
      /\ UNCHANGED <<pc, file, stable, renamed, lookup, acked>>
  BY Zenon DEF BootRestore, disk
<1>2. file.data \in Snapshot /\ Good(file.data)
  BY Zenon, <1>1, ImageBlocks DEF AuditInv, DiskGood, Images
<1>3. lookup = NoLookup /\ \A u \in Procs : pc'[u] = "idle"
  BY Zenon, <1>1, LockFree DEF IInv, CommitInv, PhaseInv
<1>4. /\ blocks' \in Seq(Block) /\ Len(blocks') \in Nat /\ height' \in Nat
      /\ AckedIn(blocks)' /\ Heights(blocks)'
  <2>1. TypeOK' /\ CommitInv'
    BY Zenon DEF IInv
  <2>2. blocks' \in Seq(Block) /\ height' \in Nat
    BY Zenon, <2>1 DEF TypeOK
  <2>3. AckedIn(blocks)' /\ Heights(blocks)'
    BY Zenon, <1>1, <2>1 DEF CommitInv, PhaseInv
  <2>4. Len(blocks') \in Nat
    BY ONLY <2>2
  <2> QED BY Zenon, <2>2, <2>3, <2>4
<1>5. height' = Len(blocks')
  <2>1. CASE blocks' = <<>>
    BY Zenon, <1>1, <2>1
  <2>2. CASE blocks' # <<>>
    <3>1. Len(blocks') \in DOMAIN blocks'
      BY <1>4, <2>2
    <3> QED BY Zenon, <1>1, <1>4, <2>2, <3>1 DEF Heights, Last
  <2> QED BY Zenon, <2>1, <2>2
<1>6. Good(Memory')
  <2>1. /\ Memory'.accounts = file.data.accounts /\ Memory'.blocks = file.data.blocks
        /\ Memory'.receipts = file.data.receipts
    BY Zenon, <1>1 DEF Memory
  <2> QED BY Zenon, <1>2, <2>1, GoodSame
<1>7. ViewInv' /\ WorkGood'
  BY Zenon, <1>1, <1>3, <1>4, <1>5, <1>6, IdleViews
<1>8. DiskGood' /\ LookupResolves'
  BY Zenon, <1>1, <1>3 DEF AuditInv, DiskGood, Images, LookupResolves
<1>9. TailInv'
  <2>1. Len(file.data.blocks) <= Len(blocks') + 1
    BY <1>1, <1>4
  <2> QED BY Zenon, <1>1, <2>1 DEF AuditInv, TailInv
<1>10. RenamedInv'
  BY Zenon, <1>1 DEF AuditInv, RenamedInv, Prefix
<1> QED BY Zenon, <1>7, <1>8, <1>9, <1>10 DEF AuditInv

-----------------------------------------------------------------------------

LEMMA AuditInit == Init => AuditInv
<1> SUFFICES ASSUME Init PROVE AuditInv
  BY Zenon
<1>1. ViewInv
  BY Zenon DEF Init, ViewInv
<1>2. DiskGood /\ LookupResolves
  BY Zenon DEF Init, DiskGood, Images, LookupResolves
<1>3. WorkGood
  BY Zenon DEF Init, WorkGood, IdleThreads
<1>4. TailInv
  BY Zenon DEF Init, TailInv
<1>5. RenamedInv
  BY Zenon DEF Init, RenamedInv
<1> QED BY Zenon, <1>1, <1>2, <1>3, <1>4, <1>5 DEF AuditInv

LEMMA AuditNext == IInv /\ IInv' /\ AuditInv /\ [Next]_vars => AuditInv'
<1> SUFFICES ASSUME IInv, IInv', AuditInv, [Next]_vars PROVE AuditInv'
  BY Zenon
<1>1. ASSUME NEW t \in Threads, NEW tx \in Txs,
             Submit(t, tx) \/ SubmitRefused(t, tx)
      PROVE  AuditInv'
  BY Zenon, <1>1, SubmitAudit, SubmitRefusedAudit
<1>2. ASSUME NEW t \in Procs, Step(t) PROVE AuditInv'
  <2>1. CASE WriteTemp(t) \/ SyncTemp(t)
    BY Zenon, <2>1, TempAudit
  <2>2. CASE Rename(t)
    BY Zenon, <2>2, RenameAudit
  <2>3. CASE SyncDir(t)
    BY Zenon, <2>3, SyncDirAudit
  <2>4. CASE SwapState(t)
    BY Zenon, <2>4, SwapStateAudit
  <2>5. CASE SwapPool(t)
    BY Zenon, <2>5, SwapPoolAudit
  <2>6. CASE SwapBlocks(t)
    BY Zenon, <2>6, SwapBlocksAudit
  <2>7. CASE SwapReceipts(t)
    BY Zenon, <2>7, SwapReceiptsAudit
  <2>8. CASE SwapHeight(t)
    BY Zenon, <2>8, SwapHeightAudit
  <2>9. CASE Seeded(t)
    BY Zenon, <2>9, SeededAudit
  <2>10. CASE TooLarge(t)
    <3>1. pc[t] \in Persisting /\ Abort(t)
      BY Zenon, <2>10 DEF TooLarge, Persisting
    <3> QED BY Zenon, <3>1, AbortAudit
  <2> QED
    BY Zenon, <1>2, <2>1, <2>2, <2>3, <2>4, <2>5, <2>6, <2>7, <2>8, <2>9, <2>10 DEF Step
<1>3. ASSUME NEW t \in Procs, IOError(t) PROVE AuditInv'
  BY Zenon, <1>3, AbortAudit DEF IOError
<1>4. CASE Reseed \/ BootFresh
  BY Zenon, <1>4, SeedAudit
<1>5. CASE ReadReceipt \/ ReadNumber \/ ReadBlock
  BY Zenon, <1>5, ReadAudit
<1>6. CASE ProcessStops \/ PowerLoss
  BY Zenon, <1>6, CrashAudit
<1>7. CASE BootRestore
  BY Zenon, <1>7, BootRestoreAudit
<1>8. CASE UNCHANGED vars
  <2>1. /\ UNCHANGED <<phase, accounts, blocks, receipts, height, pc, work, disk, acked>>
        /\ lookup' = lookup
    BY Zenon, <1>8 DEF vars, memory
  <2>2. LookupResolves'
    BY Zenon, <2>1 DEF AuditInv, LookupResolves
  <2> QED BY Zenon, <2>1, <2>2, QuietAudit
<1> QED BY Zenon, <1>1, <1>2, <1>3, <1>4, <1>5, <1>6, <1>7, <1>8 DEF Next, Running

(* Every ledger on disk and every one being written is a chain with its    *)
(* receipts, the views resolve each other between any two swaps, and the   *)
(* disk is at most one block ahead, with and without reseeding.            *)
THEOREM AuditInvHolds == Spec => []AuditInv
<1>1. IInv /\ IInv' /\ AuditInv /\ [Next]_vars => AuditInv'
  BY Zenon, AuditNext
<1> QED BY <1>1, AuditInit, CommitInvHolds, PTL DEF Spec

(* A node whose genesis is only seeded on an empty chain, as bootstrap     *)
(* does, always leaves a ledger that LedgerStore::load accepts, whenever   *)
(* and however it stops.                                                   *)
THEOREM LedgersLoad ==
  ASSUME ~Reseeding
  PROVE  Spec => []LedgerAlwaysLoads
<1>1. IInv /\ AuditInv => LedgerAlwaysLoads
  <2> SUFFICES ASSUME IInv, AuditInv, NEW image \in Images PROVE Loads(image)
    BY Zenon DEF LedgerAlwaysLoads
  <2>1. image.data # Torn /\ image.data \in Snapshot
    BY ImageBlocks DEF IInv, CommitInv, DiskInv, Images
  <2>2. /\ ChainOK(image.data) /\ BooksOK(image.data)
        /\ image.data.chain_id = ChainId
    BY Zenon DEF AuditInv, DiskGood, Good
  <2> DEFINE d == image.data
  <2>3. /\ Len(d.blocks) = Cardinality(d.receipts)
        /\ \A r, q \in d.receipts : r.block_hash = q.block_hash => r = q
        /\ \A r \in d.receipts : ValidReceipt(d.blocks, r)
    BY Zenon, <2>1, <2>2, ReceiptsMatch
  <2>4. /\ \A i \in DOMAIN d.blocks : ValidBlock(d.blocks, i)
        /\ d.blocks # <<>> => Last(d.blocks).state_root = d.accounts
    BY Zenon, <2>2 DEF ChainOK, BooksOK
  <2> QED BY Zenon, <2>1, <2>2, <2>3, <2>4 DEF Loads, Restorable, ValidateChain
<1> QED BY <1>1, CommitInvHolds, AuditInvHolds, PTL

(* The books balance: nothing is minted, lost or replayed by crashes,      *)
(* failed writes, retries and restarts.                                    *)
THEOREM BooksBalance ==
  ASSUME ~Reseeding
  PROVE  Spec => []LedgerAudits
<1>1. IInv /\ AuditInv => LedgerAudits
  <2> SUFFICES ASSUME IInv, AuditInv PROVE LedgerAudits
    BY Zenon
  <2>1. \A image \in Images : Audited(image.data.accounts, image.data.blocks)
    BY Zenon DEF AuditInv, DiskGood, Good, BooksOK
  <2>2. ASSUME phase = "serving", lock = NoThread PROVE Audited(accounts, blocks)
    <3>1. Settled
      BY Zenon, <2>2, LockFree DEF Settled
    <3>2. BooksOK(Memory)
      BY Zenon, <2>2, <3>1 DEF AuditInv, ViewInv, Good
    <3> QED BY Zenon, <3>2, MemoryFields DEF BooksOK
  <2> QED BY Zenon, <2>1, <2>2 DEF LedgerAudits
<1> QED BY <1>1, CommitInvHolds, AuditInvHolds, PTL

(* A transaction answered with its hash is in every view of a serving      *)
(* node, after every crash and restart.                                    *)
THEOREM AcknowledgedIsVisible == Spec => []AckedIsVisible
<1>1. IInv /\ AuditInv => AckedIsVisible
  <2> SUFFICES ASSUME IInv, AuditInv, phase = "serving", NEW entry \in acked
               PROVE  /\ Holds(blocks, entry[1], entry[2])
                      /\ height >= entry[2]
                      /\ \E r \in receipts : /\ r.tx_hash = entry[1].hash
                                             /\ r.block_height = entry[2]
                      /\ accounts[entry[1].from].nonce > entry[1].nonce
    BY Zenon DEF AckedIsVisible
  <2>1. /\ entry[2] \in DOMAIN blocks /\ blocks[entry[2]].tx = entry[1]
        /\ Holds(blocks, entry[1], entry[2])
        /\ blocks[entry[2]].height = entry[2]
    BY Zenon DEF IInv, CommitInv, PhaseInv, AckedIn, Holds, Heights
  <2>2. /\ entry[2] <= height /\ entry[1].nonce < accounts[entry[1].from].nonce
        /\ \A i \in 1..height : ReceiptOf(blocks[i]) \in receipts
    BY Zenon DEF AuditInv, ViewInv
  <2>3. /\ height \in Nat /\ entry[2] \in 1..height /\ height >= entry[2]
    BY <2>1, <2>2 DEF IInv, TypeOK
  <2>4. /\ ReceiptOf(blocks[entry[2]]).tx_hash = entry[1].hash
        /\ ReceiptOf(blocks[entry[2]]).block_height = entry[2]
    BY Zenon, <2>1 DEF ReceiptOf
  <2>5. accounts[entry[1].from].nonce > entry[1].nonce
    <3>1. entry[1] \in Txs
      BY Zenon DEF IInv, TypeOK
    <3>2. entry[1].nonce \in Nat /\ accounts[entry[1].from].nonce \in Nat
      BY <3>1, TxKeys, BoundsAssumption DEF IInv, TypeOK, Accounts, Account, Nonces
    <3> QED BY Zenon, <2>2, <3>2
  <2> QED BY Zenon, <2>1, <2>2, <2>3, <2>4, <2>5
<1> QED BY <1>1, CommitInvHolds, AuditInvHolds, PTL

(* What a restart brings back: after a stop of the process the chain that  *)
(* was served, and at most the one block whose write had not been          *)
(* answered; after a power loss at most as many blocks, on top of the      *)
(* ledger of the last fsync of the directory.                              *)
FilesFollowViews ==
  /\ phase = "serving" => /\ Prefix(blocks, file.data.blocks)
                          /\ Len(file.data.blocks) <= Len(blocks) + 1
  /\ stable # NoFile => \A image \in Images :
                          Prefix(stable.data.blocks, image.data.blocks)
  /\ phase = "serving" => \A image \in Images :
                            Len(image.data.blocks) <= Len(blocks) + 1

(* However many writes fail and however often they are retried, no ledger  *)
(* that a restart may find is more than one block ahead of what is served. *)
THEOREM RestartAddsAtMostOne == Spec => []FilesFollowViews
<1>1. IInv /\ AuditInv => FilesFollowViews
  <2> SUFFICES ASSUME IInv, AuditInv PROVE FilesFollowViews
    BY Zenon
  <2>1. ASSUME phase = "serving" PROVE Prefix(blocks, file.data.blocks)
    <3>1. /\ file # NoFile /\ Len(blocks) <= Len(file.data.blocks)
          /\ SubSeq(file.data.blocks, 1, Len(blocks)) = blocks
      BY Zenon, <2>1 DEF IInv, CommitInv, MemoryNotAheadOfDisk
    <3>2. blocks \in Seq(Block) /\ file.data.blocks \in Seq(Block)
      BY Zenon, <3>1, ImageBlocks DEF IInv, TypeOK
    <3> QED BY Zenon, <3>1, <3>2, PrefixFacts
  <2>2. ASSUME stable # NoFile, NEW image \in Images
        PROVE  Prefix(stable.data.blocks, image.data.blocks)
    <3>1. Prefix(stable.data.blocks, stable.data.blocks)
      BY Zenon, <2>2, ImageBlocks, PrefixFacts
    <3> QED BY Zenon, <2>2, <3>1 DEF Images, AuditInv, TailInv, RenamedInv
  <2>3. ASSUME phase = "serving", NEW image \in Images
        PROVE  Len(image.data.blocks) <= Len(blocks) + 1
    <3>1. file # NoFile /\ Len(file.data.blocks) <= Len(blocks) + 1
      BY Zenon, <2>3 DEF IInv, CommitInv, PhaseInv, AuditInv, TailInv
    <3>2. CASE image = stable
      <4>1. stable # NoFile /\ Prefix(stable.data.blocks, file.data.blocks)
        BY Zenon, <2>3, <3>2 DEF Images, AuditInv, TailInv
      <4>2. /\ stable.data.blocks \in Seq(Block) /\ file.data.blocks \in Seq(Block)
            /\ blocks \in Seq(Block)
        BY Zenon, <3>1, <4>1, ImageBlocks DEF IInv, TypeOK
      <4>3. Len(stable.data.blocks) <= Len(blocks) + 1
        BY ONLY <3>1, <4>1, <4>2 DEF Prefix
      <4> QED BY Zenon, <3>2, <4>3
    <3>3. CASE image \in renamed
      BY Zenon, <2>3, <3>3 DEF AuditInv, RenamedInv
    <3> QED BY Zenon, <2>3, <3>1, <3>2, <3>3 DEF Images
  <2> QED BY Zenon, <2>1, <2>2, <2>3 DEF FilesFollowViews, AuditInv, TailInv
<1> QED BY <1>1, CommitInvHolds, AuditInvHolds, PTL

(* The second read of a two-step read finds its block, whichever swaps     *)
(* come in between.                                                        *)
THEOREM LookupsResolve == Spec => []LookupResolves
<1>1. AuditInv => LookupResolves
  BY Zenon DEF AuditInv
<1> QED BY <1>1, AuditInvHolds, PTL

=============================================================================
