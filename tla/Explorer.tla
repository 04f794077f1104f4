------------------------------ MODULE Explorer ------------------------------
(***************************************************************************)
(* The dashboard (explorer/src/main.rs) reading a node: snapshot asks for  *)
(* the height and then, one call each and newest first, for the blocks     *)
(* below it, while submissions, crashes and restarts go on.  The explorer  *)
(* runs on the node's machine, as its default rpc_url says: a power loss   *)
(* ends both, a restart of the node only makes a call fail.                *)
(***************************************************************************)
EXTENDS NodeAudit

CONSTANTS
  MaxShown,   \* MAX_BLOCKS of the explorer
  NoPage,     \* no page was asked for
  Null        \* JSON null

(* Null is no block.                                                       *)
ASSUME ExplorerAssumption ==
  /\ MaxShown \in Nat \ {0}
  /\ Null \notin [number : Nat, hash : BlockHashes, parentHash : BlockHashes,
                  transaction : Nat]

VARIABLE page   \* the page being built: its height, the next block to ask
                \* for, and the blocks it has so far

-----------------------------------------------------------------------------

(* Mutant of Tip: the height is the length of the block list.              *)
TipOfBlocks == Len(blocks)

(* eth_blockNumber.                                                        *)
Tip == height

(* The oldest block shown: saturating_sub, then at least 1.                *)
FirstShown(h) == IF h < MaxShown THEN 1 ELSE h - MaxShown + 1

(* block_json: what the node says of a block and its transaction.          *)
BlockJson(number, block) ==
  [number |-> number, hash |-> BlockHash(block), parentHash |-> block.parent_hash,
   transaction |-> block.tx.hash]

(* eth_getBlockByNumber: null outside the block list.                      *)
GetBlockByNumber(n) ==
  IF n \in DOMAIN blocks THEN BlockJson(n, blocks[n]) ELSE Null

BlockView(json) ==
  [number |-> json.number, hash |-> json.hash, parent_hash |-> json.parentHash,
   tx_hash |-> json.transaction]

ReadTip ==
  /\ phase = "serving"
  /\ page = NoPage
  /\ page' = [height |-> Tip, next |-> Tip, blocks |-> <<>>]
  /\ UNCHANGED vars

(* A block that is not there is left out.                                  *)
ReadPageBlock ==
  /\ phase = "serving"
  /\ page # NoPage
  /\ page.next >= FirstShown(page.height)
  /\ LET json == GetBlockByNumber(page.next)
     IN  page' = [page EXCEPT
           !.next = @ - 1,
           !.blocks = IF json = Null THEN @ ELSE Append(@, BlockView(json))]
  /\ UNCHANGED vars

(* A call fails while the node is down: there is no page then.  A page     *)
(* that is shown is closed or asked for again.                             *)
LeavePage ==
  /\ page # NoPage
  /\ phase # "serving" \/ page.next < FirstShown(page.height)
  /\ page' = NoPage
  /\ UNCHANGED vars

ExplorerInit == Init /\ page = NoPage

ExplorerNext ==
  \/ Running /\ page' = page
  \/ PowerLoss /\ page' = NoPage
  \/ ReadTip
  \/ ReadPageBlock
  \/ LeavePage

ExplorerSpec == ExplorerInit /\ [][ExplorerNext]_<<vars, page>>

(* The fairness of Node; nobody has to look at a page.                     *)
ExplorerFairSpec ==
  /\ ExplorerSpec
  /\ \A t \in Procs : WF_vars(Step(t))
  /\ WF_vars(BootFresh \/ BootRestore)

-----------------------------------------------------------------------------

(* Whatever is committed, and however often the node is restarted, between *)
(* the calls of one page: the page has no gap below its height, every      *)
(* block on it names the next one as its parent, and the transaction of    *)
(* every block on it has a receipt in that block for whoever asks next.    *)
PageIsChain ==
  page # NoPage =>
    /\ Len(page.blocks) = page.height - page.next
    /\ \A i \in DOMAIN page.blocks :
         /\ page.blocks[i].number = page.height + 1 - i
         /\ i > 1 => page.blocks[i].hash = page.blocks[i - 1].parent_hash
         /\ phase = "serving" =>
              \E r \in receipts : /\ r.tx_hash = page.blocks[i].tx_hash
                                  /\ r.block_hash = page.blocks[i].hash

=============================================================================
