------------------------- MODULE Refinement_proofs --------------------------
(***************************************************************************)
(* The ledger file implements the abstract commit log, and a page of the   *)
(* explorer is a chain, for any threads, accounts, transactions, crashes and*)
(* I/O errors.                                                             *)
(***************************************************************************)
EXTENDS Explorer, Audit_proofs

-----------------------------------------------------------------------------
(* The ledger file implements the commit log.                              *)

LogOf(f) == IF f = NoFile THEN <<>> ELSE TxsOf(f.data.blocks)

StateOf(f) == IF f = NoFile THEN SeedState(EmptyState) ELSE f.data.accounts

Top(entries) == Max({entry[2] : entry \in entries} \cup {0})

(* The refinement mapping, and the abstract steps through it.              *)
LEMMA LogVars ==
  /\ Log!vars = <<LogOf(file), StateOf(file), Top(acked)>>
  /\ Log!vars' = <<LogOf(file'), StateOf(file'), Top(acked')>>
BY Zenon DEF Log!vars, LogOf, StateOf, Top, TxsOf, AckedHeights

LEMMA LogCommit ==
  ASSUME NEW n \in Nat, NEW tx \in Txs,
         n \in {Len(LogOf(file)), Len(LogOf(file)) - 1}, n >= Top(acked),
         LogOf(file') = Append(SubSeq(LogOf(file), 1, n), tx),
         ApplyTransaction(Log!Replay(SubSeq(LogOf(file), 1, n)), tx).ok,
         StateOf(file') = Log!Replay(LogOf(file')), acked' = acked
  PROVE  Log!Next
<1>1. Log!Commit(n, tx)
  BY Zenon, SameExecution DEF Log!Commit, LogOf, StateOf, Top, TxsOf, AckedHeights
<1> QED BY Zenon, <1>1 DEF Log!Next, LogOf, TxsOf

LEMMA LogRecover ==
  ASSUME LogOf(file') \in Seq(Txs),
         Len(LogOf(file')) \in Top(acked)..(Len(LogOf(file)) + 1),
         SubSeq(LogOf(file'), 1, Top(acked)) = SubSeq(LogOf(file), 1, Top(acked)),
         Log!Executes(LogOf(file')),
         StateOf(file') = Log!Replay(LogOf(file')), acked' = acked
  PROVE  Log!Next
<1>1. Log!Recover
  BY Zenon DEF Log!Recover, LogOf, StateOf, Top, TxsOf, AckedHeights
<1> QED BY Zenon, <1>1 DEF Log!Next, LogOf, TxsOf

LEMMA LogAcknowledge ==
  ASSUME NEW n \in 0..Len(LogOf(file)), n > Top(acked), Top(acked') = n,
         file' = file
  PROVE  Log!Next
<1>1. Log!Acknowledge(n)
  BY Zenon DEF Log!Acknowledge, LogOf, StateOf, Top, TxsOf, AckedHeights
<1> QED BY Zenon, <1>1 DEF Log!Next, LogOf, TxsOf

(* The transactions of a part of a chain, and of one with a block on top.  *)
LEMMA TxsOfPrefix ==
  ASSUME NEW bs \in Seq(Block), NEW cs \in Seq(Block), Prefix(bs, cs)
  PROVE  SubSeq(TxsOf(cs), 1, Len(bs)) = TxsOf(bs)
<1>1. /\ DOMAIN bs = 1..Len(bs) /\ Len(bs) \in Nat
      /\ DOMAIN cs = 1..Len(cs) /\ Len(cs) \in Nat /\ Len(bs) <= Len(cs)
      /\ \A i \in 1..Len(bs) : cs[i] = bs[i]
  BY DEF Prefix
<1>2. TxsOf(bs) \in Seq(Txs) /\ TxsOf(cs) \in Seq(Txs) /\ Len(TxsOf(cs)) = Len(cs)
      /\ Len(TxsOf(bs)) = Len(bs)
  BY Zenon, TxsOfFacts
<1>3. \A i \in 1..Len(bs) : TxsOf(cs)[i] = TxsOf(bs)[i]
  BY <1>1 DEF TxsOf
<1> HIDE DEF TxsOf
<1> QED BY ONLY <1>1, <1>2, <1>3

LEMMA TxsOfNext ==
  ASSUME NEW bs \in Seq(Block), NEW cs \in Seq(Block), Prefix(bs, cs),
         Len(cs) = Len(bs) + 1
  PROVE  TxsOf(cs) = Append(TxsOf(bs), Last(cs).tx)
<1>1. /\ DOMAIN bs = 1..Len(bs) /\ Len(bs) \in Nat /\ Len(cs) \in DOMAIN cs
      /\ DOMAIN cs = 1..(Len(bs) + 1) /\ cs[Len(cs)] \in Block
      /\ \A i \in 1..Len(bs) : cs[i] = bs[i]
  BY DEF Prefix
<1> DEFINE b == cs[Len(cs)]
<1>2. cs = Append(bs, b)
  BY <1>1
<1>3. b \in Block /\ Last(cs) = b
  BY Zenon, <1>1 DEF Last
<1> HIDE DEF b
<1> QED BY Zenon, <1>2, <1>3, TxsOfFacts

(* The state in the ledger file is the one its log gives.                  *)
LEMMA ImageLog ==
  ASSUME NEW f, f # NoFile => f.data.blocks \in Seq(Block) /\ BooksOK(f.data)
  PROVE  /\ StateOf(f) = Log!Replay(LogOf(f))
         /\ LogOf(f) \in Seq(Txs) /\ Log!Executes(LogOf(f))
         /\ f # NoFile => Len(LogOf(f)) = Len(f.data.blocks)
<1>1. CASE f = NoFile
  BY <1>1, ReplayEmpty, ExecutesEmpty DEF LogOf, StateOf
<1>2. CASE f # NoFile
  <2>1. /\ TxsOf(f.data.blocks) \in Seq(Txs)
        /\ Len(TxsOf(f.data.blocks)) = Len(f.data.blocks)
    BY Zenon, <1>2, TxsOfFacts
  <2> QED BY Zenon, <1>2, <2>1 DEF BooksOK, LogOf, StateOf
<1> QED BY Zenon, <1>1, <1>2

LEMMA LogFacts ==
  ASSUME IInv, AuditInv, ~Reseeding, NEW f \in {file, stable} \cup renamed
  PROVE  /\ StateOf(f) = Log!Replay(LogOf(f))
         /\ LogOf(f) \in Seq(Txs) /\ Log!Executes(LogOf(f))
         /\ f # NoFile => Len(LogOf(f)) = Len(f.data.blocks)
<1>1. f # NoFile => f.data.blocks \in Seq(Block)
  BY Zenon, ImageBlocks DEF Images
<1>2. f # NoFile => BooksOK(f.data)
  BY Zenon DEF AuditInv, DiskGood, Good, Images
<1> QED BY Zenon, <1>1, <1>2, ImageLog

(* What was acknowledged is in a chain that holds it.                      *)
LEMMA TopBound ==
  ASSUME IInv, NEW bs \in Seq(Block), AckedIn(bs)
  PROVE  /\ Top(acked) \in 0..Len(bs)
         /\ \A entry \in acked : entry[2] <= Top(acked)
         /\ Top(acked) # 0 => \E entry \in acked : Top(acked) = entry[2]
<1> DEFINE S == {entry[2] : entry \in acked} \cup {0}
<1>1. Len(bs) \in Nat /\ DOMAIN bs = 1..Len(bs)
  OBVIOUS
<1>2. \A entry \in acked : entry[2] \in 1..Len(bs)
  BY Zenon, <1>1 DEF AckedIn, Holds
<1>3. S \subseteq 0..Len(bs) /\ S # {}
  BY <1>1, <1>2
<1>4. Max(S) \in S /\ \A m \in S : m <= Max(S)
  BY Zenon, <1>1, <1>3, Largest
<1>5. Top(acked) = Max(S)
  BY Zenon DEF Top
<1> HIDE DEF Top
<1> QED BY Zenon, <1>3, <1>4, <1>5

(* A step that leaves a part of the log which holds all that was           *)
(* acknowledged recovers it.                                               *)
LEMMA CutStep ==
  ASSUME IInv, AuditInv, ~Reseeding, acked' = acked,
         NEW n \in 0..Len(LogOf(file)), n >= Top(acked), Top(acked) \in Nat,
         LogOf(file') = SubSeq(LogOf(file), 1, n), Log!Executes(LogOf(file')),
         StateOf(file') = Log!Replay(LogOf(file'))
  PROVE  [Log!Next]_Log!vars
<1> DEFINE l == LogOf(file)
           m == LogOf(file')
           k == Top(acked)
<1>1. l \in Seq(Txs) /\ Len(l) \in Nat /\ n \in 0..Len(l) /\ k \in 0..n
      /\ m = SubSeq(l, 1, n)
  BY LogFacts
<1> HIDE DEF l, m, k
<1>2. m \in Seq(Txs) /\ Len(m) \in k..(Len(l) + 1) /\ SubSeq(m, 1, k) = SubSeq(l, 1, k)
  BY ONLY <1>1
<1>3. Log!Next
  BY Zenon, <1>2, LogRecover DEF l, m, k
<1> QED BY Zenon, <1>3

(* The rename commits a transaction on top of what is served; it replaces  *)
(* the block that a failed fsync of the directory left in the file.        *)
LEMMA RenameLog ==
  ASSUME IInv, AuditInv, ~Reseeding, NEW t \in Procs, Rename(t)
  PROVE  [Log!Next]_Log!vars
<1> DEFINE w == work[t]
           fs == file.data.blocks
<1>1. /\ pc[t] = "rename" /\ pc[t] \in Persisting /\ pc[t] # "idle"
      /\ acked' = acked /\ w \in Work
  BY Zenon, Holder DEF Rename, Advance, Persisting
<1>2. file' = [data |-> SnapshotOf(w), synced |-> TRUE]
  BY Zenon, <1>1 DEF IInv, CommitInv, WriteInv, Rename
<1>3. /\ file' # NoFile /\ file'.data.blocks = w.blocks
      /\ w.blocks \in Seq(Block)
  <2>1. file' # NoFile
    BY Zenon, <1>1, <1>2, SnapshotFacts, MarkerAssumption
  <2>2. SnapshotOf(w).blocks = w.blocks
    BY Zenon, <1>1, SnapshotFacts
  <2>3. file'.data = SnapshotOf(w)
    BY Zenon, <1>2
  <2> QED BY Zenon, <1>1, <2>1, <2>2, <2>3 DEF Work
<1>4. LogOf(file') = TxsOf(w.blocks)
  BY Zenon, <1>3 DEF LogOf
<1>5. /\ StateOf(file') = Log!Replay(LogOf(file'))
      /\ LogOf(file) \in Seq(Txs) /\ Log!Executes(LogOf(file'))
      /\ file # NoFile => Len(LogOf(file)) = Len(fs) /\ fs \in Seq(Block)
  <2> DEFINE f == file'
  <2>1. BooksOK(w)
    BY Zenon, <1>1 DEF AuditInv, WorkGood, Good
  <2>2. f.data.blocks = w.blocks /\ f.data.accounts = w.accounts
    BY Zenon, <1>1, <1>2, <1>3, SnapshotFacts
  <2>3. f.data.blocks \in Seq(Block) /\ BooksOK(f.data)
    BY Zenon, <1>3, <2>1, <2>2 DEF BooksOK
  <2> HIDE DEF f
  <2>4. StateOf(f) = Log!Replay(LogOf(f)) /\ Log!Executes(LogOf(f))
    BY Zenon, <2>3, ImageLog
  <2> QED BY Zenon, <2>4, LogFacts, ImageBlocks DEF f
<1>6. Settled
  BY Zenon, <1>1, Holder DEF Settled
<1>7. /\ blocks \in Seq(Block) /\ Len(blocks) \in Nat
      /\ phase \in {"serving", "booting"}
      /\ phase = "serving" => /\ file # NoFile /\ Prefix(blocks, fs)
                              /\ Len(fs) <= Len(blocks) + 1 /\ AckedIn(blocks)
  <2>1. blocks \in Seq(Block) /\ phase \in {"serving", "booting"}
    BY Zenon, <1>1, ServingOrBooting DEF IInv, TypeOK
  <2>2. ASSUME phase = "serving"
        PROVE  /\ file # NoFile /\ Len(blocks) <= Len(fs)
               /\ SubSeq(fs, 1, Len(blocks)) = blocks
               /\ Len(fs) <= Len(blocks) + 1 /\ AckedIn(blocks)
    BY Zenon, <2>2 DEF IInv, CommitInv, PhaseInv, MemoryNotAheadOfDisk, AuditInv, TailInv
  <2> QED BY Zenon, <1>5, <2>1, <2>2, PrefixFacts
<1>8. CASE w.tx = NoTx
  <2>1. w.blocks = blocks /\ AckedIn(blocks)
    BY Zenon, <1>1, <1>8 DEF IInv, CommitInv, WorkInv, SoundLedger
  <2>2. CASE file = NoFile
    <3>1. phase # "serving"
      BY Zenon, <1>7, <2>2
    <3>2. blocks = <<>>
      BY Zenon, <3>1 DEF IInv, CommitInv, PhaseInv
    <3>3. Top(acked) \in 0..0
      BY Zenon, <1>7, <2>1, <3>2, TopBound
    <3>4. LogOf(file) = <<>> /\ LogOf(file') = <<>>
      BY Zenon, <1>4, <2>1, <2>2, <3>2, TxsOfFacts DEF LogOf
    <3>5. 0 \in 0..Len(LogOf(file)) /\ 0 >= Top(acked) /\ Top(acked) \in Nat
          /\ LogOf(file') = SubSeq(LogOf(file), 1, 0)
      BY ONLY <3>3, <3>4
    <3> QED BY Zenon, <1>1, <1>5, <3>5, CutStep
  <2>3. CASE file # NoFile
    <3>1. Prefix(blocks, fs)
      <4>1. CASE phase = "serving"
        BY Zenon, <1>7, <4>1
      <4>2. CASE phase # "serving"
        <5>1. blocks = <<>>
          BY Zenon, <4>2 DEF IInv, CommitInv, PhaseInv
        <5>2. Len(fs) \in Nat
          BY ONLY <1>5, <2>3
        <5> QED BY ONLY <5>1, <5>2 DEF Prefix
      <4> QED BY Zenon, <4>1, <4>2
    <3>2. /\ SubSeq(TxsOf(fs), 1, Len(blocks)) = TxsOf(blocks)
          /\ Len(blocks) <= Len(fs) /\ Len(fs) \in Nat
      <4>1. fs \in Seq(Block) /\ Len(fs) \in Nat /\ Len(blocks) <= Len(fs)
        BY ONLY <1>5, <2>3, <3>1 DEF Prefix
      <4> HIDE DEF fs
      <4> QED BY Zenon, <1>7, <3>1, <4>1, TxsOfPrefix
    <3>3. Top(acked) \in 0..Len(blocks)
      BY Zenon, <1>7, <2>1, TopBound
    <3>4. LogOf(file) = TxsOf(fs)
      BY Zenon, <2>3 DEF LogOf
    <3>5. /\ Len(blocks) \in 0..Len(LogOf(file)) /\ Len(blocks) >= Top(acked)
          /\ Top(acked) \in Nat
          /\ LogOf(file') = SubSeq(LogOf(file), 1, Len(blocks))
      BY ONLY <1>4, <1>5, <1>7, <2>1, <2>3, <3>2, <3>3, <3>4
    <3> QED BY Zenon, <1>1, <1>5, <3>5, CutStep
  <2> QED BY Zenon, <2>2, <2>3
<1>9. CASE w.tx # NoTx
  <2>1. /\ phase = "serving" /\ w.tx \in Txs /\ Last(w.blocks).tx = w.tx
    BY Zenon, <1>1, <1>9 DEF IInv, CommitInv, WorkInv, Work
  <2>2. Prefix(blocks, w.blocks) /\ Len(w.blocks) = Len(blocks) + 1
    <3>1. SubSeq(w.blocks, 1, Len(blocks)) = blocks
      BY Zenon, <1>1, <1>9 DEF IInv, CommitInv, WorkInv
    <3>2. Len(w.blocks) = Len(blocks) + 1
      BY Zenon, <1>1, <1>6, <1>9, <2>1, AheadByOne
    <3> QED BY ONLY <1>3, <1>7, <3>1, <3>2, PrefixFacts
  <2>3. /\ ApplyTransaction(accounts, w.tx).ok
        /\ accounts = Log!Replay(TxsOf(blocks))
    <3>1. ApplyTransaction(accounts, w.tx).ok
      BY Zenon, <1>1, <1>9 DEF AuditInv, WorkGood
    <3>2. BooksOK(Memory)
      BY Zenon, <1>6, <2>1 DEF AuditInv, ViewInv, Good
    <3> QED BY Zenon, <3>1, <3>2, MemoryFields DEF BooksOK
  <2>4. TxsOf(w.blocks) = Append(TxsOf(blocks), w.tx)
    BY Zenon, <1>3, <1>7, <2>1, <2>2, TxsOfNext
  <2>5. SubSeq(LogOf(file), 1, Len(blocks)) = TxsOf(blocks)
    BY Zenon, <1>5, <1>7, <2>1, TxsOfPrefix DEF LogOf
  <2>6. Len(blocks) >= Top(acked)
    <3>1. Top(acked) \in 0..Len(blocks)
      BY Zenon, <1>7, <2>1, TopBound
    <3> QED BY ONLY <1>7, <3>1
  <2>7. Len(blocks) \in {Len(LogOf(file)), Len(LogOf(file)) - 1}
    <3>1. Len(LogOf(file)) = Len(fs) /\ Len(fs) \in Nat /\ Len(blocks) <= Len(fs)
      BY ONLY <1>5, <1>7, <2>1 DEF Prefix
    <3> QED BY ONLY <1>7, <2>1, <3>1
  <2>8. Log!Next
    BY Zenon, <1>1, <1>4, <1>5, <1>7, <2>1, <2>3, <2>4, <2>5, <2>6, <2>7, LogCommit
  <2> QED BY Zenon, <2>8
<1> QED BY Zenon, <1>8, <1>9

(* A power loss may bring back any ledger renamed into place since the     *)
(* directory was fsynced, or the one of that fsync: all of them hold what  *)
(* the latter holds, and with it everything that was acknowledged.         *)
LEMMA PowerLog ==
  ASSUME IInv, AuditInv, ~Reseeding, PowerLoss
  PROVE  [Log!Next]_Log!vars
<1> DEFINE l == LogOf(file)
           f == file'
           m == LogOf(f)
           k == Top(acked)
<1>1. acked' = acked /\ f \in {file, stable} \cup renamed
  BY Zenon DEF PowerLoss, Halt, IInv, CommitInv, DiskInv
<1> HIDE DEF f
<1>2. /\ l \in Seq(Txs) /\ m \in Seq(Txs) /\ Log!Executes(m) /\ StateOf(f) = Log!Replay(m)
      /\ file # NoFile => Len(l) = Len(file.data.blocks)
      /\ f # NoFile => Len(m) = Len(f.data.blocks)
  BY Zenon, <1>1, LogFacts
<1>3. stable # NoFile =>
        /\ file # NoFile /\ f # NoFile
        /\ Prefix(stable.data.blocks, file.data.blocks)
        /\ Prefix(stable.data.blocks, f.data.blocks)
        /\ stable.data.blocks \in Seq(Block) /\ AckedIn(stable.data.blocks)
  <2> SUFFICES ASSUME stable # NoFile
               PROVE  /\ file # NoFile /\ f # NoFile
                      /\ Prefix(stable.data.blocks, file.data.blocks)
                      /\ Prefix(stable.data.blocks, f.data.blocks)
                      /\ stable.data.blocks \in Seq(Block) /\ AckedIn(stable.data.blocks)
    BY Zenon
  <2>1. file # NoFile /\ Prefix(stable.data.blocks, file.data.blocks)
    BY Zenon DEF AuditInv, TailInv
  <2>2. stable.data.blocks \in Seq(Block) /\ AckedIn(stable.data.blocks)
    BY Zenon, ImageBlocks DEF IInv, CommitInv, DiskInv, Images, SoundLedger
  <2>3. f # NoFile
    BY Zenon, <1>1, <2>1, ImageBlocks DEF Images
  <2>4. Prefix(stable.data.blocks, f.data.blocks)
    BY Zenon, <1>1, <2>1, <2>2, PrefixFacts DEF AuditInv, RenamedInv
  <2> QED BY Zenon, <2>1, <2>2, <2>3, <2>4
<1>4. Len(m) <= Len(l) + 1
  <2>1. CASE f = file
    BY <1>2, <2>1
  <2>2. CASE f = stable
    <3>1. CASE stable = NoFile
      <4>1. m = <<>>
        BY Zenon, <2>2, <3>1 DEF LogOf
      <4> QED BY ONLY <1>2, <4>1
    <3>2. CASE stable # NoFile
      <4>1. Len(m) = Len(stable.data.blocks) /\ Len(l) = Len(file.data.blocks)
        BY Zenon, <1>2, <1>3, <2>2, <3>2
      <4>2. Len(stable.data.blocks) <= Len(file.data.blocks)
        BY Zenon, <1>3, <3>2 DEF Prefix
      <4> QED BY ONLY <1>2, <4>1, <4>2
    <3> QED BY Zenon, <3>1, <3>2
  <2>3. CASE f \in renamed
    <3>1. f # NoFile /\ file # NoFile
      BY Zenon, <2>3, ImageBlocks DEF Images, AuditInv, RenamedInv
    <3> QED BY Zenon, <1>2, <2>3, <3>1 DEF AuditInv, RenamedInv
  <2> QED BY Zenon, <1>1, <2>1, <2>2, <2>3
<1>5. k \in 0..Len(m) /\ SubSeq(m, 1, k) = SubSeq(l, 1, k)
  <2>1. CASE stable = NoFile
    <3>1. acked = {}
      BY Zenon, <2>1 DEF IInv, CommitInv, DiskInv
    <3>2. AckedIn(<<>>) /\ <<>> \in Seq(Block) /\ Len(<<>>) = 0
      BY <3>1 DEF AckedIn
    <3>3. k \in 0..0
      BY Zenon, <3>2, TopBound
    <3> HIDE DEF l, m, k
    <3> QED BY ONLY <1>2, <3>3
  <2>2. CASE stable # NoFile
    <3> DEFINE ss == stable.data.blocks
    <3>1. l = TxsOf(file.data.blocks) /\ m = TxsOf(f.data.blocks)
      BY Zenon, <1>3, <2>2 DEF LogOf
    <3>2. file.data.blocks \in Seq(Block) /\ f.data.blocks \in Seq(Block)
      BY Zenon, <1>1, <1>3, <2>2, ImageBlocks
    <3>3. SubSeq(l, 1, Len(ss)) = TxsOf(ss) /\ SubSeq(m, 1, Len(ss)) = TxsOf(ss)
      BY Zenon, <1>3, <2>2, <3>1, <3>2, TxsOfPrefix
    <3>4. k \in 0..Len(ss)
      BY Zenon, <1>3, <2>2, TopBound
    <3>5. Len(ss) <= Len(l) /\ Len(ss) <= Len(m)
      BY Zenon, <1>2, <1>3, <2>2 DEF Prefix
    <3>6. Len(ss) \in Nat
      BY Zenon, <1>3, <2>2, PrefixFacts
    <3> HIDE DEF l, m, k, ss
    <3>7. SubSeq(SubSeq(l, 1, Len(ss)), 1, k) = SubSeq(l, 1, k)
      BY ONLY <1>2, <3>4, <3>5, <3>6
    <3>8. SubSeq(SubSeq(m, 1, Len(ss)), 1, k) = SubSeq(m, 1, k)
      BY ONLY <1>2, <3>4, <3>5, <3>6
    <3>9. k \in 0..Len(m)
      BY ONLY <1>2, <3>4, <3>5, <3>6
    <3> QED BY Zenon, <3>3, <3>7, <3>8, <3>9
  <2> QED BY Zenon, <2>1, <2>2
<1> HIDE DEF l, m, k
<1>6. Len(m) \in k..(Len(l) + 1)
  BY ONLY <1>2, <1>4, <1>5
<1>7. Log!Next
  BY Zenon, <1>1, <1>2, <1>5, <1>6, LogRecover DEF l, m, k, f
<1> QED BY Zenon, <1>7

(* The answer to the client acknowledges the whole log.                    *)
LEMMA AnswerLog ==
  ASSUME IInv, IInv', AuditInv, ~Reseeding, NEW t \in Procs, SwapHeight(t)
  PROVE  [Log!Next]_Log!vars
<1> DEFINE n == Len(blocks)
<1>1. /\ pc[t] = "height" /\ pc[t] \in Swapping /\ pc[t] # "idle"
      /\ acked' = acked \cup {<<work[t].tx, Last(work[t].blocks).height>>}
      /\ UNCHANGED <<phase, blocks, file>>
  BY Zenon DEF SwapHeight, Advance, Swapping, disk
<1>2. /\ phase = "serving" /\ blocks = work[t].blocks /\ blocks # <<>>
      /\ blocks \in Seq(Block) /\ Heights(blocks) /\ AckedIn(blocks)
  BY Zenon, <1>1 DEF IInv, TypeOK, CommitInv, PhaseInv, WorkInv, Persisting
<1>3. n \in Nat /\ n \in DOMAIN blocks /\ Last(work[t].blocks).height = n
  BY <1>2 DEF Heights, Last
<1>4. /\ file # NoFile /\ file.data.blocks = blocks /\ Len(LogOf(file)) = n
  BY Zenon, <1>1, <1>2, Written, LogFacts
<1>5. Top(acked) \in 0..n
  BY Zenon, <1>2, TopBound
<1>6. Top(acked') = n
  <2> DEFINE e == <<work[t].tx, n>>
             T == {entry[2] : entry \in acked'} \cup {0}
  <2>1. \A entry \in acked : entry[2] \in 0..n
    BY ONLY <1>2, <1>3 DEF AckedIn, Holds
  <2>2. acked' = acked \cup {e} /\ e[2] = n
    BY Zenon, <1>1, <1>3
  <2> HIDE DEF e, n
  <2>3. T \subseteq 0..n /\ n \in T
    BY ONLY <1>3, <2>1, <2>2
  <2> DEFINE m == Max(T)
  <2> HIDE DEF T
  <2>4. m \in T /\ \A k \in T : k <= m
    BY Zenon, <1>3, <2>3, Largest
  <2> HIDE DEF m
  <2>5. m = n
    BY ONLY <1>3, <2>3, <2>4
  <2> QED BY Zenon, <2>5 DEF m, T, Top
<1>7. CASE Top(acked) = n
  <2>1. UNCHANGED Log!vars
    BY Zenon, <1>1, <1>6, <1>7, LogVars
  <2> QED BY Zenon, <2>1
<1>8. CASE Top(acked) # n
  <2>1. n \in 0..Len(LogOf(file)) /\ n > Top(acked) /\ file' = file
    BY ONLY <1>1, <1>3, <1>4, <1>5, <1>8
  <2>2. Log!Next
    BY Zenon, <1>6, <2>1, LogAcknowledge
  <2> QED BY Zenon, <2>2
<1> QED BY Zenon, <1>7, <1>8

(* No other step touches the ledger file or answers a client.              *)
LEMMA QuietLog ==
  ASSUME file' = file, acked' = acked
  PROVE  [Log!Next]_Log!vars
<1>1. UNCHANGED Log!vars
  BY Zenon, LogVars
<1> QED BY Zenon, <1>1

LEMMA InitLog == Init => Log!Init
<1> SUFFICES ASSUME Init PROVE Log!Init
  BY Zenon
<1>1. file = NoFile /\ acked = {}
  BY Zenon DEF Init
<1>2. Max(AckedHeights \cup {0}) = 0
  <2>1. AckedHeights \cup {0} = {0}
    BY Zenon, <1>1 DEF AckedHeights
  <2>2. {0} \subseteq 0..0 /\ {0} # {}
    OBVIOUS
  <2>3. Max({0}) \in {0}
    BY Zenon, <2>2, Largest
  <2> QED BY Zenon, <2>1, <2>3
<1> QED BY Zenon, <1>1, <1>2, SameGenesis DEF Log!Init

LEMMA NextLog ==
  ASSUME IInv, IInv', AuditInv, ~Reseeding, [Next]_vars
  PROVE  [Log!Next]_Log!vars
<1>1. ASSUME NEW t \in Threads, NEW tx \in Txs,
             Submit(t, tx) \/ SubmitRefused(t, tx)
      PROVE  [Log!Next]_Log!vars
  <2>1. file' = file /\ acked' = acked
    BY Zenon, <1>1 DEF Submit, SubmitRefused, disk
  <2> QED BY Zenon, <2>1, QuietLog
<1>2. ASSUME NEW t \in Procs, Step(t) PROVE [Log!Next]_Log!vars
  <2>1. CASE Rename(t)
    BY Zenon, <2>1, RenameLog
  <2>2. CASE SwapHeight(t)
    BY Zenon, <2>2, AnswerLog
  <2>3. CASE WriteTemp(t) \/ SyncTemp(t) \/ SyncDir(t) \/ TooLarge(t)
    <3>1. file' = file /\ acked' = acked
      BY Zenon, <2>3 DEF WriteTemp, SyncTemp, SyncDir, TooLarge, Abort
    <3> QED BY Zenon, <3>1, QuietLog
  <2>4. CASE SwapState(t) \/ SwapPool(t) \/ SwapBlocks(t) \/ SwapReceipts(t) \/ Seeded(t)
    <3>1. file' = file /\ acked' = acked
      BY Zenon, <2>4 DEF SwapState, SwapPool, SwapBlocks, SwapReceipts, Seeded, disk
    <3> QED BY Zenon, <3>1, QuietLog
  <2> QED BY Zenon, <1>2, <2>1, <2>2, <2>3, <2>4 DEF Step
<1>3. ASSUME NEW t \in Procs, IOError(t) PROVE [Log!Next]_Log!vars
  <2>1. file' = file /\ acked' = acked
    BY Zenon, <1>3 DEF IOError, Abort
  <2> QED BY Zenon, <2>1, QuietLog
<1>4. CASE Reseed \/ BootFresh \/ BootRestore
  <2>1. file' = file /\ acked' = acked
    BY Zenon, <1>4 DEF Reseed, BootFresh, BootRestore, disk
  <2> QED BY Zenon, <2>1, QuietLog
<1>5. CASE ReadReceipt \/ ReadNumber \/ ReadBlock
  <2>1. file' = file /\ acked' = acked
    BY Zenon, <1>5 DEF ReadReceipt, ReadNumber, ReadBlock, disk
  <2> QED BY Zenon, <2>1, QuietLog
<1>6. CASE ProcessStops
  <2>1. file' = file /\ acked' = acked
    BY Zenon, <1>6 DEF ProcessStops, Halt
  <2> QED BY Zenon, <2>1, QuietLog
<1>7. CASE PowerLoss
  BY Zenon, <1>7, PowerLog
<1>8. CASE UNCHANGED vars
  <2>1. file' = file /\ acked' = acked
    BY Zenon, <1>8 DEF vars, disk
  <2> QED BY Zenon, <2>1, QuietLog
<1> QED BY Zenon, <1>1, <1>2, <1>3, <1>4, <1>5, <1>6, <1>7, <1>8 DEF Next, Running

(* The ledger file implements the commit log: every step of the threads,   *)
(* every failing system call, crash and restart maps to a commit, to an    *)
(* acknowledgement, to the recovery of a log that differs in blocks nobody *)
(* was told of, or to nothing.                                             *)
THEOREM LedgerIsACommitLog ==
  ASSUME ~Reseeding
  PROVE  Spec => ImplementsCommitLog
<1>1. IInv /\ IInv' /\ AuditInv /\ [Next]_vars => [Log!Next]_Log!vars
  BY Zenon, NextLog
<1> QED
  BY <1>1, InitLog, CommitInvHolds, AuditInvHolds, PTL
     DEF Spec, ImplementsCommitLog, Log!Spec
-----------------------------------------------------------------------------
(* A page of the explorer.                                                 *)

BlockViews == [number : Nat, hash : BlockHashes, parent_hash : BlockHashes,
               tx_hash : Nat]

Pages == [height : Nat, next : Nat, blocks : Seq(BlockViews)]

(* p shows the blocks of bs from its height down to the next to ask for.   *)
PageOn(p, bs) ==
  /\ p \in Pages
  /\ p.height <= Len(bs) /\ p.next <= p.height
  /\ Len(p.blocks) = p.height - p.next
  /\ \A i \in 1..(p.height - p.next) :
       p.blocks[i] = BlockView(BlockJson(p.height + 1 - i, bs[p.height + 1 - i]))

(* A page outlives the process it was read from: its blocks are on disk    *)
(* when the node is down.                                                  *)
PageInv ==
  page # NoPage =>
    /\ phase # "booting" /\ file # NoFile
    /\ phase = "serving" => PageOn(page, blocks) /\ page.height <= height
    /\ phase = "down" => PageOn(page, file.data.blocks)

(* Blocks on top of a chain do not disturb a page of it.                   *)
LEMMA PageKept ==
  ASSUME NEW p, NEW bs \in Seq(Block), NEW cs \in Seq(Block), PageOn(p, bs),
         Prefix(bs, cs)
  PROVE  PageOn(p, cs)
<1> DEFINE h == p.height
           n == p.next
<1>1. /\ h \in Nat /\ n \in Nat /\ Len(bs) \in Nat /\ Len(cs) \in Nat
      /\ h <= Len(bs) /\ n <= h /\ Len(bs) <= Len(cs)
      /\ DOMAIN bs = 1..Len(bs)
      /\ \A i \in 1..Len(bs) : cs[i] = bs[i]
  BY DEF PageOn, Pages, Prefix
<1> HIDE DEF h, n
<1>2. h <= Len(cs) /\ \A i \in 1..(h - n) : cs[h + 1 - i] = bs[h + 1 - i]
  BY <1>1
<1> QED BY Zenon, <1>2 DEF PageOn, h, n

LEMMA ViewType ==
  ASSUME NEW b \in Block, NEW k \in Nat
  PROVE  /\ BlockJson(k, b) # Null
         /\ BlockView(BlockJson(k, b)) \in BlockViews
<1>1. /\ b.tx.hash \in Nat /\ b.height \in Nat /\ b.parent_hash \in BlockHashes
  BY Zenon, TxFields DEF Block
<1>2. BlockHash(b) \in BlockHashes
  BY Zenon, <1>1 DEF BlockHash, BlockHashes
<1>3. BlockJson(k, b) \in [number : Nat, hash : BlockHashes,
                           parentHash : BlockHashes, transaction : Nat]
  BY Zenon, <1>1, <1>2 DEF BlockJson
<1>4. BlockView(BlockJson(k, b)) \in BlockViews
  BY Zenon, <1>1, <1>2 DEF BlockJson, BlockView, BlockViews
<1> QED BY Zenon, <1>3, <1>4, ExplorerAssumption

LEMMA PageFields ==
  ASSUME NEW p \in Pages, NEW m, NEW ps
  PROVE  LET q == [p EXCEPT !.next = m, !.blocks = ps]
         IN  /\ q.height = p.height /\ q.next = m /\ q.blocks = ps
             /\ m \in Nat /\ ps \in Seq(BlockViews) => q \in Pages
BY Zenon DEF Pages

(* Asking for the next block.                                              *)
LEMMA PageGrows ==
  ASSUME NEW p, NEW bs \in Seq(Block), PageOn(p, bs), p.next \in DOMAIN bs
  PROVE  LET json == BlockJson(p.next, bs[p.next])
             q == [p EXCEPT !.next = @ - 1,
                            !.blocks = Append(@, BlockView(json))]
         IN  PageOn(q, bs) /\ q.height = p.height
<1> DEFINE h == p.height
           n == p.next
           ps == p.blocks
           v == BlockView(BlockJson(n, bs[n]))
           qs == Append(ps, v)
           q == [p EXCEPT !.next = @ - 1, !.blocks = Append(@, v)]
<1>1. /\ p \in Pages
      /\ h \in Nat /\ n \in Nat /\ ps \in Seq(BlockViews)
      /\ h <= Len(bs) /\ n <= h /\ Len(ps) = h - n
      /\ \A i \in 1..(h - n) :
           ps[i] = BlockView(BlockJson(h + 1 - i, bs[h + 1 - i]))
  BY Zenon DEF PageOn, Pages
<1>2. n \in 1..Len(bs) /\ bs[n] \in Block
  OBVIOUS
<1>3. v \in BlockViews
  BY Zenon, <1>1, <1>2, ViewType
<1>4. /\ q.height = h /\ q.next = n - 1 /\ q.blocks = qs
      /\ n - 1 \in Nat /\ qs \in Seq(BlockViews) => q \in Pages
  BY Zenon, <1>1, PageFields
<1> HIDE DEF h, n, ps, v
<1>5. /\ qs \in Seq(BlockViews) /\ Len(qs) = Len(ps) + 1
      /\ qs[Len(ps) + 1] = v
      /\ \A i \in 1..Len(ps) : qs[i] = ps[i]
  BY ONLY <1>1, <1>3
<1> HIDE DEF qs, q
<1>6. n - 1 \in Nat /\ n - 1 <= h /\ Len(qs) = h - (n - 1)
  BY ONLY <1>1, <1>2, <1>5
<1>7. q \in Pages
  BY Zenon, <1>4, <1>5, <1>6
<1>8. ASSUME NEW i \in 1..(h - (n - 1))
      PROVE  qs[i] = BlockView(BlockJson(h + 1 - i, bs[h + 1 - i]))
  <2>1. CASE i = Len(ps) + 1
    <3>1. h + 1 - i = n
      BY ONLY <1>1, <2>1
    <3> QED BY Zenon, <1>5, <2>1, <3>1 DEF v
  <2>2. CASE i # Len(ps) + 1
    <3>1. i \in 1..(h - n) /\ i \in 1..Len(ps)
      BY ONLY <1>1, <2>2
    <3> QED BY Zenon, <1>1, <1>5, <3>1
  <2> QED BY Zenon, <2>1, <2>2
<1>9. PageOn(q, bs)
  BY Zenon, <1>1, <1>4, <1>6, <1>7, <1>8 DEF PageOn
<1> QED BY Zenon, <1>4, <1>9 DEF q, v, n, h

(* A running node that serves only adds to what it shows, until it stops   *)
(* with all of it on disk, ...                                             *)
LEMMA ServingGrows ==
  ASSUME IInv, IInv', AuditInv, phase = "serving", Running
  PROVE  \/ phase' = "serving" /\ Prefix(blocks, blocks') /\ height <= height'
         \/ phase' = "down" /\ file' = file
<1>1. /\ blocks \in Seq(Block) /\ height \in Nat /\ Prefix(blocks, blocks)
      /\ height <= height
  BY PrefixFacts DEF IInv, TypeOK
<1> DEFINE Same == phase' = phase /\ blocks' = blocks /\ height' = height
<1>2. ASSUME NEW t \in Threads, NEW tx \in Txs,
             Submit(t, tx) \/ SubmitRefused(t, tx)
      PROVE  Same
  BY Zenon, <1>2 DEF Submit, SubmitRefused
<1>3. ASSUME NEW t \in Procs, Step(t)
      PROVE  phase' = "serving" /\ Prefix(blocks, blocks') /\ height <= height'
  <2>1. CASE SwapBlocks(t)
    <3>1. /\ pc[t] # "idle" /\ blocks' = work[t].blocks /\ phase' = phase /\ height' = height
      BY Zenon, <2>1 DEF SwapBlocks, Advance
    <3>2. /\ Len(blocks) <= Len(work[t].blocks)
          /\ SubSeq(work[t].blocks, 1, Len(blocks)) = blocks
      BY Zenon, <3>1 DEF IInv, CommitInv, WorkInv
    <3>3. blocks' \in Seq(Block)
      BY Zenon DEF IInv, TypeOK
    <3>4. Prefix(blocks, blocks')
      BY Zenon, <1>1, <3>1, <3>2, <3>3, PrefixFacts
    <3> QED BY Zenon, <1>1, <3>1, <3>4
  <2>2. CASE SwapHeight(t)
    <3>1. /\ pc[t] = "height" /\ blocks' = blocks /\ phase' = phase
          /\ height' = Last(work[t].blocks).height
      BY Zenon, <2>2 DEF SwapHeight, Advance
    <3>2. /\ blocks = work[t].blocks /\ blocks # <<>> /\ Heights(blocks)
      BY Zenon, <3>1 DEF IInv, CommitInv, PhaseInv, WorkInv, Persisting
    <3>3. height' = Len(blocks)
      <4>1. Len(blocks) \in DOMAIN blocks
        BY ONLY <1>1, <3>2
      <4> QED BY Zenon, <3>1, <3>2, <4>1 DEF Heights, Last
    <3>4. height <= Len(blocks)
      BY Zenon DEF AuditInv, ViewInv
    <3> QED BY Zenon, <1>1, <3>1, <3>3, <3>4
  <2>3. CASE WriteTemp(t) \/ SyncTemp(t) \/ Rename(t) \/ SyncDir(t) \/ TooLarge(t)
    <3>1. Same
      BY Zenon, <2>3 DEF WriteTemp, SyncTemp, Rename, SyncDir, TooLarge, Abort, memory
    <3> QED BY Zenon, <1>1, <3>1
  <2>4. CASE SwapState(t) \/ SwapPool(t) \/ SwapReceipts(t) \/ Seeded(t)
    <3>1. Same
      BY Zenon, <2>4 DEF SwapState, SwapPool, SwapReceipts, Seeded
    <3> QED BY Zenon, <1>1, <3>1
  <2> QED BY Zenon, <1>3, <2>1, <2>2, <2>3, <2>4 DEF Step
<1>4. ASSUME NEW t \in Procs, IOError(t) PROVE Same
  BY Zenon, <1>4 DEF IOError, Abort
<1>5. CASE Reseed \/ ReadReceipt \/ ReadNumber \/ ReadBlock
  <2>1. Same
    BY Zenon, <1>5 DEF Reseed, ReadReceipt, ReadNumber, ReadBlock, memory
  <2> QED BY Zenon, <1>1, <2>1
<1>6. CASE ProcessStops
  BY Zenon, <1>6 DEF ProcessStops, Halt
<1>7. CASE BootFresh \/ BootRestore
  BY Zenon, <1>7 DEF BootFresh, BootRestore
<1> HIDE DEF Same
<1>8. Same => phase' = "serving" /\ Prefix(blocks, blocks') /\ height <= height'
  BY Zenon, <1>1 DEF Same
<1> QED BY Zenon, <1>2, <1>3, <1>4, <1>5, <1>6, <1>7, <1>8 DEF Running

(* ... and comes back with the ledger on disk.                             *)
LEMMA DownStays ==
  ASSUME IInv, phase = "down", file # NoFile, Running
  PROVE  (phase' = "down" /\ file' = file) \/ BootRestore
<1>1. lock = NoThread /\ \A u \in Procs : pc[u] = "idle"
  BY Zenon, LockFree DEF IInv, CommitInv, PhaseInv
<1>2. \A t \in Threads, tx \in Txs : ~Submit(t, tx) /\ ~SubmitRefused(t, tx)
  BY Zenon DEF Submit, SubmitRefused, CanSubmit
<1>3. ASSUME NEW t \in Procs PROVE ~Step(t) /\ ~IOError(t)
  <2>1. pc[t] = "idle"
    BY Zenon, <1>1
  <2>2. ~WriteTemp(t) /\ ~SyncTemp(t) /\ ~Rename(t) /\ ~SyncDir(t) /\ ~TooLarge(t)
    BY Zenon, <2>1 DEF WriteTemp, SyncTemp, Rename, SyncDir, TooLarge, Advance
  <2>3. ~SwapState(t) /\ ~SwapPool(t) /\ ~SwapBlocks(t) /\ ~SwapReceipts(t)
    BY Zenon, <2>1 DEF SwapState, SwapPool, SwapBlocks, SwapReceipts, Advance
  <2>4. ~SwapHeight(t) /\ ~Seeded(t) /\ ~IOError(t)
    BY Zenon, <2>1 DEF SwapHeight, Seeded, IOError, Advance, Persisting
  <2> QED BY Zenon, <2>2, <2>3, <2>4 DEF Step
<1>4. ~Reseed /\ ~ReadReceipt /\ ~ReadNumber /\ ~ProcessStops /\ ~BootFresh
  BY Zenon DEF Reseed, CanSubmit, ReadReceipt, ReadNumber, ProcessStops, Halt, BootFresh
<1>5. ReadBlock => phase' = "down" /\ file' = file
  BY Zenon DEF ReadBlock, disk
<1> QED BY Zenon, <1>2, <1>3, <1>4, <1>5 DEF Running

(* What a step of a node whose machine keeps its power may do to the chain *)
(* it shows: extend it, stop with all of it on disk, or, when it was down, *)
(* show what the disk has.                                                 *)
ShownChainGrows ==
  /\ phase = "serving" =>
       \/ phase' = "serving" /\ Prefix(blocks, blocks') /\ height <= height'
       \/ phase' = "down" /\ file' = file /\ Prefix(blocks, file.data.blocks)
  /\ phase = "down" /\ file # NoFile =>
       \/ phase' = "down" /\ file' = file
       \/ phase' = "serving" /\ blocks' = file.data.blocks /\ height' = Len(blocks')

LEMMA RunningShows ==
  ASSUME IInv, IInv', AuditInv, AuditInv', Running
  PROVE  ShownChainGrows
<1>1. CASE phase = "serving"
  <2>1. /\ file # NoFile /\ Len(blocks) <= Len(file.data.blocks)
        /\ SubSeq(file.data.blocks, 1, Len(blocks)) = blocks
    BY Zenon, <1>1 DEF IInv, CommitInv, MemoryNotAheadOfDisk
  <2>2. blocks \in Seq(Block) /\ file.data.blocks \in Seq(Block)
    BY Zenon, <2>1, ImageBlocks DEF IInv, TypeOK
  <2>3. Prefix(blocks, file.data.blocks)
    BY Zenon, <2>1, <2>2, PrefixFacts
  <2> QED BY Zenon, <1>1, <2>3, ServingGrows DEF ShownChainGrows
<1>2. CASE phase = "down" /\ file # NoFile
  <2>1. ASSUME BootRestore
        PROVE  phase' = "serving" /\ blocks' = file.data.blocks /\ height' = Len(blocks')
    <3>1. /\ phase' = "serving" /\ blocks' = file.data.blocks
          /\ \A u \in Procs : pc'[u] = "idle"
      BY Zenon, <1>2, <2>1, LockFree DEF BootRestore, IInv, CommitInv, PhaseInv
    <3>2. height' = Len(blocks')
      BY Zenon, <3>1 DEF AuditInv, ViewInv, Settled
    <3> QED BY Zenon, <3>1, <3>2
  <2> QED BY Zenon, <1>2, <2>1, DownStays DEF ShownChainGrows
<1> QED BY Zenon, <1>1, <1>2 DEF ShownChainGrows

(* Short of a power loss, a chain that a reader was shown is only ever     *)
(* extended, by commits, failed writes, stops and restarts in any order.   *)
THEOREM ServedChainGrows == Spec => [][PowerLoss \/ ShownChainGrows]_vars
<1>1. IInv /\ IInv' /\ AuditInv /\ AuditInv' /\ [Next]_vars
        => [PowerLoss \/ ShownChainGrows]_vars
  <2> SUFFICES ASSUME IInv, IInv', AuditInv, AuditInv', Running PROVE ShownChainGrows
    BY Zenon DEF Next
  <2> QED BY Zenon, RunningShows
<1> QED BY <1>1, CommitInvHolds, AuditInvHolds, PTL DEF Spec

(* A node that boots for the first time has shown nobody a page.           *)
LEMMA PageRunning ==
  ASSUME IInv, IInv', AuditInv, AuditInv', PageInv, Running, page' = page
  PROVE  PageInv'
<1> SUFFICES ASSUME page # NoPage
             PROVE  /\ phase' # "booting" /\ file' # NoFile
                    /\ phase' = "serving" => /\ PageOn(page, blocks')
                                             /\ page.height <= height'
                    /\ phase' = "down" => PageOn(page, file'.data.blocks)
  BY Zenon DEF PageInv
<1>1. /\ phase \in {"serving", "down"} /\ file # NoFile
      /\ blocks \in Seq(Block) /\ blocks' \in Seq(Block)
      /\ file.data.blocks \in Seq(Block)
      /\ height \in Nat /\ height' \in Nat
  BY Zenon, ImageBlocks DEF PageInv, IInv, TypeOK
<1>2. phase' = "serving" => file' # NoFile
  BY Zenon DEF IInv, CommitInv, PhaseInv
<1>3. CASE phase = "serving"
  <2>1. PageOn(page, blocks) /\ page.height <= height /\ page.height \in Nat
    BY Zenon, <1>3 DEF PageInv, PageOn, Pages
  <2>2. CASE phase' = "serving" /\ Prefix(blocks, blocks') /\ height <= height'
    <3>1. PageOn(page, blocks')
      BY Zenon, <1>1, <2>1, <2>2, PageKept
    <3>2. page.height <= height'
      BY ONLY <1>1, <2>1, <2>2
    <3> QED BY Zenon, <1>2, <2>2, <3>1, <3>2
  <2>3. CASE phase' = "down" /\ file' = file /\ Prefix(blocks, file.data.blocks)
    <3>1. PageOn(page, file.data.blocks)
      BY Zenon, <1>1, <2>1, <2>3, PageKept
    <3> QED BY Zenon, <1>1, <2>3, <3>1
  <2> QED BY Zenon, <1>3, <2>2, <2>3, RunningShows DEF ShownChainGrows
<1>4. CASE phase = "down"
  <2>1. PageOn(page, file.data.blocks)
    BY Zenon, <1>4 DEF PageInv
  <2>2. CASE phase' = "down" /\ file' = file
    BY Zenon, <1>1, <2>1, <2>2
  <2>3. CASE phase' = "serving" /\ blocks' = file.data.blocks /\ height' = Len(blocks')
    <3>1. page.height <= height'
      BY Zenon, <2>1, <2>3 DEF PageOn
    <3> QED BY Zenon, <1>2, <2>1, <2>3, <3>1
  <2> QED BY Zenon, <1>1, <1>4, <2>2, <2>3, RunningShows DEF ShownChainGrows
<1> QED BY Zenon, <1>1, <1>3, <1>4

(* The calls of the explorer.                                              *)
LEMMA PageCalls ==
  ASSUME IInv, AuditInv, PageInv, ReadTip \/ ReadPageBlock \/ LeavePage
  PROVE  PageInv' /\ UNCHANGED vars
<1>1. UNCHANGED vars /\ UNCHANGED <<phase, blocks, height, file>>
  BY Zenon DEF ReadTip, ReadPageBlock, LeavePage, vars, memory, disk
<1>2. blocks \in Seq(Block) /\ height \in Nat /\ Len(blocks) \in Nat
      /\ DOMAIN blocks = 1..Len(blocks)
  BY DEF IInv, TypeOK
<1>3. CASE ReadTip
  <2> DEFINE q == [height |-> height, next |-> height, blocks |-> <<>>]
  <2>1. phase = "serving" /\ page' = q /\ file # NoFile /\ height <= Len(blocks)
    BY Zenon, <1>3 DEF ReadTip, Tip, IInv, CommitInv, PhaseInv, AuditInv, ViewInv
  <2>2. /\ q.height = height /\ q.next = height /\ q.blocks = <<>> /\ q \in Pages
        /\ Len(<<>>) = height - height /\ 1..(height - height) = {}
    BY ONLY <1>2 DEF Pages
  <2> HIDE DEF q
  <2>3. PageOn(q, blocks) /\ q.height <= height
    BY ONLY <1>2, <2>1, <2>2 DEF PageOn
  <2> QED BY Zenon, <1>1, <2>1, <2>3 DEF PageInv
<1>4. CASE ReadPageBlock
  <2> DEFINE n == page.next
             json == BlockJson(n, blocks[n])
             q == [page EXCEPT !.next = @ - 1,
                               !.blocks = Append(@, BlockView(json))]
  <2>1. /\ phase = "serving" /\ page # NoPage /\ PageOn(page, blocks)
        /\ page.height <= height /\ n >= FirstShown(page.height) /\ file # NoFile
    BY Zenon, <1>4 DEF ReadPageBlock, PageInv
  <2>2. n \in DOMAIN blocks /\ n \in Nat
    <3>1. /\ page.height \in Nat /\ n \in Nat /\ page.height <= Len(blocks)
          /\ n <= page.height
      BY Zenon, <2>1 DEF PageOn, Pages
    <3>2. FirstShown(page.height) >= 1 /\ FirstShown(page.height) \in Nat
      BY ONLY <3>1, ExplorerAssumption DEF FirstShown
    <3> QED BY ONLY <1>2, <2>1, <3>1, <3>2
  <2>3. blocks[n] \in Block
    BY ONLY <1>2, <2>2
  <2>4. GetBlockByNumber(n) = json /\ json # Null
    BY Zenon, <2>2, <2>3, ViewType DEF GetBlockByNumber
  <2>5. page' = q
    BY Zenon, <1>4, <2>4 DEF ReadPageBlock
  <2>6. PageOn(q, blocks) /\ q.height = page.height
    BY Zenon, <1>2, <2>1, <2>2, PageGrows
  <2> HIDE DEF q, n, json
  <2> QED BY Zenon, <1>1, <2>1, <2>5, <2>6 DEF PageInv
<1>5. CASE LeavePage
  BY Zenon, <1>1, <1>5 DEF LeavePage, PageInv
<1> QED BY Zenon, <1>1, <1>3, <1>4, <1>5

(* The explorer only looks.                                                *)
LEMMA ExplorerLooks ==
  [ExplorerNext]_<<vars, page>> => [Next]_vars
<1> SUFFICES ASSUME [ExplorerNext]_<<vars, page>> PROVE [Next]_vars
  BY Zenon
<1>1. CASE Running \/ PowerLoss
  BY Zenon, <1>1 DEF Next
<1>2. CASE ReadTip \/ ReadPageBlock \/ LeavePage
  BY Zenon, <1>2 DEF ReadTip, ReadPageBlock, LeavePage
<1> QED BY Zenon, <1>1, <1>2 DEF ExplorerNext

LEMMA PageNext ==
  IInv /\ IInv' /\ AuditInv /\ AuditInv' /\ PageInv
    /\ [ExplorerNext]_<<vars, page>> => PageInv'
<1> SUFFICES ASSUME IInv, IInv', AuditInv, AuditInv', PageInv,
                    [ExplorerNext]_<<vars, page>>
             PROVE  PageInv'
  BY Zenon
<1>1. CASE Running /\ page' = page
  BY Zenon, <1>1, PageRunning
<1>2. CASE PowerLoss /\ page' = NoPage
  BY Zenon, <1>2 DEF PageInv
<1>3. CASE ReadTip \/ ReadPageBlock \/ LeavePage
  BY Zenon, <1>3, PageCalls
<1>4. CASE UNCHANGED <<vars, page>>
  <2>1. UNCHANGED <<phase, blocks, height, file, page>>
    BY Zenon, <1>4 DEF vars, memory, disk
  <2> QED BY Zenon, <2>1 DEF PageInv
<1> QED BY Zenon, <1>1, <1>2, <1>3, <1>4 DEF ExplorerNext

(* What a page that shows a chain of valid blocks says.                    *)
LEMMA PageLinks ==
  ASSUME NEW p, NEW bs \in Seq(Block), PageOn(p, bs),
         \A k \in DOMAIN bs : ValidBlock(bs, k)
  PROVE  /\ Len(p.blocks) = p.height - p.next
         /\ \A i \in DOMAIN p.blocks :
              /\ p.height + 1 - i \in 1..p.height
              /\ p.height + 1 - i \in DOMAIN bs
              /\ p.blocks[i].number = p.height + 1 - i
              /\ p.blocks[i].hash = BlockHash(bs[p.height + 1 - i])
              /\ p.blocks[i].tx_hash = bs[p.height + 1 - i].tx.hash
              /\ i > 1 => p.blocks[i].hash = p.blocks[i - 1].parent_hash
<1> DEFINE h == p.height
           n == p.next
           ps == p.blocks
<1>1. /\ h \in Nat /\ n \in Nat /\ ps \in Seq(BlockViews)
      /\ h <= Len(bs) /\ n <= h /\ Len(ps) = h - n
      /\ \A i \in 1..(h - n) :
           ps[i] = BlockView(BlockJson(h + 1 - i, bs[h + 1 - i]))
  BY Zenon DEF PageOn, Pages
<1>2. \A k, b : /\ BlockView(BlockJson(k, b)).number = k
                /\ BlockView(BlockJson(k, b)).hash = BlockHash(b)
                /\ BlockView(BlockJson(k, b)).parent_hash = b.parent_hash
                /\ BlockView(BlockJson(k, b)).tx_hash = b.tx.hash
  BY Zenon DEF BlockView, BlockJson
<1>3. DOMAIN bs = 1..Len(bs) /\ Len(bs) \in Nat /\ DOMAIN ps = 1..(h - n)
  BY <1>1
<1> HIDE DEF h, n, ps
<1>4. ASSUME NEW i \in 1..(h - n)
      PROVE  /\ h + 1 - i \in 1..h /\ h + 1 - i \in DOMAIN bs
             /\ ps[i].number = h + 1 - i /\ ps[i].hash = BlockHash(bs[h + 1 - i])
             /\ ps[i].tx_hash = bs[h + 1 - i].tx.hash
             /\ i > 1 => ps[i].hash = ps[i - 1].parent_hash
  <2>1. h + 1 - i \in 1..h /\ h + 1 - i \in 1..Len(bs)
    BY ONLY <1>1, <1>3
  <2>2. /\ ps[i].number = h + 1 - i /\ ps[i].hash = BlockHash(bs[h + 1 - i])
        /\ ps[i].tx_hash = bs[h + 1 - i].tx.hash
    BY ONLY <1>1, <1>2
  <2>3. ASSUME i > 1 PROVE ps[i].hash = ps[i - 1].parent_hash
    <3> DEFINE k == h + 1 - (i - 1)
    <3>1. /\ i - 1 \in 1..(h - n) /\ k \in 1..Len(bs) /\ k # 1
          /\ k - 1 = h + 1 - i
      BY ONLY <1>1, <1>3, <2>3
    <3>2. ps[i - 1].parent_hash = bs[k].parent_hash
      BY ONLY <1>1, <1>2, <3>1
    <3> HIDE DEF k
    <3>3. bs[k].parent_hash = BlockHash(bs[k - 1])
      BY Zenon, <1>3, <3>1 DEF ValidBlock
    <3> QED BY Zenon, <2>2, <3>1, <3>2, <3>3
  <2> QED BY Zenon, <1>3, <2>1, <2>2, <2>3
<1> QED BY Zenon, <1>1, <1>3, <1>4 DEF h, n, ps

(* A page that was read block by block, across commits, failed writes and  *)
(* restarts of the node, is a part of one chain, and whoever asks for the  *)
(* transactions on it finds their receipts.                                *)
THEOREM PagesAreChains == ExplorerSpec => []PageIsChain
<1>1. ExplorerInit => PageInv /\ Init
  BY Zenon DEF ExplorerInit, PageInv
<1>2. IInv /\ IInv' /\ AuditInv /\ AuditInv' /\ PageInv
        /\ [ExplorerNext]_<<vars, page>> => PageInv'
  BY Zenon, PageNext
<1>3. IInv /\ AuditInv /\ PageInv => PageIsChain
  <2> SUFFICES ASSUME IInv, AuditInv, PageInv, page # NoPage PROVE PageIsChain
    BY Zenon DEF PageIsChain
  <2>1. CASE phase = "serving"
    <3>1. /\ PageOn(page, blocks) /\ page.height <= height /\ blocks \in Seq(Block)
          /\ \A k \in DOMAIN blocks : ValidBlock(blocks, k)
          /\ \A k \in 1..height : ReceiptOf(blocks[k]) \in receipts
          /\ height \in Nat /\ page.height \in Nat
      BY Zenon, <2>1 DEF PageInv, PageOn, Pages, IInv, TypeOK, AuditInv, ViewInv
    <3>2. /\ Len(page.blocks) = page.height - page.next
          /\ \A i \in DOMAIN page.blocks :
               /\ page.height + 1 - i \in 1..page.height
               /\ page.blocks[i].number = page.height + 1 - i
               /\ page.blocks[i].hash = BlockHash(blocks[page.height + 1 - i])
               /\ page.blocks[i].tx_hash = blocks[page.height + 1 - i].tx.hash
               /\ i > 1 => page.blocks[i].hash = page.blocks[i - 1].parent_hash
      BY Zenon, <3>1, PageLinks
    <3>3. ASSUME NEW i \in DOMAIN page.blocks
          PROVE  \E r \in receipts : /\ r.tx_hash = page.blocks[i].tx_hash
                                     /\ r.block_hash = page.blocks[i].hash
      <4> DEFINE k == page.height + 1 - i
      <4>1. k \in 1..page.height
        BY Zenon, <3>2
      <4>2. k \in 1..height
        BY ONLY <3>1, <4>1
      <4>3. /\ page.blocks[i].hash = BlockHash(blocks[k])
            /\ page.blocks[i].tx_hash = blocks[k].tx.hash
        BY Zenon, <3>2
      <4> HIDE DEF k
      <4>4. /\ ReceiptOf(blocks[k]).tx_hash = blocks[k].tx.hash
            /\ ReceiptOf(blocks[k]).block_hash = BlockHash(blocks[k])
        BY Zenon DEF ReceiptOf
      <4> QED BY Zenon, <3>1, <4>2, <4>3, <4>4
    <3> QED BY Zenon, <3>2, <3>3 DEF PageIsChain
  <2>2. CASE phase # "serving"
    <3> DEFINE bs == file.data.blocks
    <3>1. file # NoFile /\ PageOn(page, bs) /\ bs \in Seq(Block)
      BY Zenon, <2>2, ImageBlocks DEF PageInv, IInv, TypeOK
    <3>2. \A k \in DOMAIN bs : ValidBlock(bs, k)
      BY Zenon, <3>1 DEF AuditInv, DiskGood, Good, ChainOK, Images
    <3> HIDE DEF bs
    <3>3. /\ Len(page.blocks) = page.height - page.next
          /\ \A i \in DOMAIN page.blocks :
               /\ page.blocks[i].number = page.height + 1 - i
               /\ i > 1 => page.blocks[i].hash = page.blocks[i - 1].parent_hash
      BY Zenon, <3>1, <3>2, PageLinks
    <3> QED BY Zenon, <2>2, <3>3 DEF PageIsChain
  <2> QED BY Zenon, <2>1, <2>2
<1> QED
  BY <1>1, <1>2, <1>3, ExplorerLooks, CommitInvHolds, AuditInvHolds, PTL
     DEF ExplorerSpec, Spec

=============================================================================
