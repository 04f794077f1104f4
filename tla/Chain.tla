------------------------------- MODULE Chain -------------------------------
(***************************************************************************)
(* Blocks and receipts of crates/subhost-core as crates/subhost-rpc builds *)
(* them, and the integrity gate crates/subhost-storage runs on load.       *)
(* A hash is what it commits to: the accounts stand for the state root,    *)
(* the height and the transaction for a block hash.                        *)
(***************************************************************************)
EXTENDS Pool, Sequences

CONSTANT BlockGasLimit   \* BLOCK_GAS_LIMIT

ASSUME BlockGasLimitAssumption == BlockGasLimit \in Nat

Accounts == [Addrs -> Account]

BlockHash(block) == <<block.height, block.tx.hash>>

ZeroHash == <<0, 0>>

BlockHashes == Nat \X Nat

ReceiptRoot(tx_hash, height, gas_used) == <<tx_hash, height, gas_used>>

Block == [height : Nat, chain_id : Nat, parent_hash : BlockHashes,
          state_root : Accounts, tx_root : Nat,
          receipt_root : Nat \X Nat \X Nat, gas_used : Nat, gas_limit : Nat,
          tx : Txs]

Receipt == [tx_hash : Nat, block_hash : BlockHashes, block_height : Nat,
            gas_used : Nat]

(* What LedgerStore::persist writes; the receipts, sorted by height in the *)
(* file, are a set here.                                                   *)
Snapshot == [chain_id : Nat, accounts : Accounts, blocks : Seq(Block),
             receipts : SUBSET Receipt]

-----------------------------------------------------------------------------

Last(blocks) == blocks[Len(blocks)]

ParentHash(blocks) ==
  IF blocks = <<>> THEN ZeroHash ELSE BlockHash(Last(blocks))

NextHeight(blocks) ==
  IF blocks = <<>> THEN 1 ELSE Last(blocks).height + 1

(* The block seal_next_block builds for tx on top of blocks, accounts      *)
(* being the state after tx.                                               *)
NextBlock(blocks, accounts, tx) ==
  [height       |-> NextHeight(blocks),
   chain_id     |-> ChainId,
   parent_hash  |-> ParentHash(blocks),
   state_root   |-> accounts,
   tx_root      |-> tx.hash,
   receipt_root |-> ReceiptRoot(tx.hash, NextHeight(blocks), tx.gas_limit),
   gas_used     |-> tx.gas_limit,
   gas_limit    |-> BlockGasLimit,
   tx           |-> tx]

ReceiptOf(block) ==
  [tx_hash      |-> block.tx.hash,
   block_hash   |-> BlockHash(block),
   block_height |-> block.height,
   gas_used     |-> block.gas_used]

(* HashMap::insert, keyed by the transaction hash.                         *)
InsertReceipt(receipts, receipt) ==
  {r \in receipts : r.tx_hash # receipt.tx_hash} \cup {receipt}

-----------------------------------------------------------------------------

ValidBlock(blocks, i) ==
  LET block == blocks[i]
  IN  /\ block.height = i
      /\ block.parent_hash = IF i = 1 THEN ZeroHash ELSE BlockHash(blocks[i - 1])
      /\ block.chain_id = ChainId
      /\ block.gas_used <= block.gas_limit
      /\ block.tx_root = block.tx.hash
      /\ block.tx.chain_id = ChainId
      /\ block.gas_used = block.tx.gas_limit
      /\ block.receipt_root =
           ReceiptRoot(block.tx.hash, block.height, block.gas_used)

ValidReceipt(blocks, receipt) ==
  \E i \in DOMAIN blocks :
    /\ BlockHash(blocks[i]) = receipt.block_hash
    /\ receipt.block_height = blocks[i].height
    /\ receipt.tx_hash = blocks[i].tx.hash
    /\ receipt.gas_used = blocks[i].gas_used
    /\ ReceiptRoot(receipt.tx_hash, receipt.block_height, receipt.gas_used)
         = blocks[i].receipt_root

ValidateChain(blocks, receipts, accounts) ==
  /\ \A i \in DOMAIN blocks : ValidBlock(blocks, i)
  /\ Len(blocks) = Cardinality(receipts)
  /\ \A r, s \in receipts : r.block_hash = s.block_hash => r = s
  /\ \A r \in receipts : ValidReceipt(blocks, r)
  /\ blocks # <<>> => Last(blocks).state_root = accounts

(* LedgerStore::restore.                                                   *)
Restorable(snapshot) ==
  /\ snapshot.chain_id = ChainId
  /\ ValidateChain(snapshot.blocks, snapshot.receipts, snapshot.accounts)

=============================================================================
