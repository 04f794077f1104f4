----------------------------- MODULE NodeAudit -----------------------------
(***************************************************************************)
(* What an auditor of the ledger relies on: the books of the chain balance *)
(* and the ledger file implements an abstract commit log.                  *)
(***************************************************************************)
EXTENDS Node

FeesOf(bs) == MapThenSumSet(LAMBDA i : Fee(bs[i].tx), DOMAIN bs)

GenesisSupply == MapThenSumSet(LAMBDA a : Genesis[a], DOMAIN Genesis)

Audited(s, bs) ==
  /\ Supply(s) + FeesOf(bs) = GenesisSupply
  /\ \A a \in Addrs :
       s[a].nonce = Cardinality({i \in DOMAIN bs : bs[i].tx.from = a})

(* On disk, and in memory between two commits, balances and burnt fees add *)
(* up to the genesis allocations and every nonce counts the sender's       *)
(* blocks: no crash, retry or restart mints, loses or replays anything.    *)
LedgerAudits ==
  /\ \A image \in Images : Audited(image.data.accounts, image.data.blocks)
  /\ phase = "serving" /\ lock = NoThread => Audited(accounts, blocks)

-----------------------------------------------------------------------------
(* The ledger file implements the abstract log.                            *)

AckedHeights == {entry[2] : entry \in acked}

Log == INSTANCE CommitLog WITH
  log   <- IF file = NoFile THEN <<>>
           ELSE [i \in DOMAIN file.data.blocks |-> file.data.blocks[i].tx],
  state <- IF file = NoFile THEN SeedState(EmptyState) ELSE file.data.accounts,
  acked <- Max(AckedHeights \cup {0})

(* The ledger file is an append-only log of executed transactions: its     *)
(* state is what re-executing its blocks on the genesis allocations gives  *)
(* (which load never checks), and only unacknowledged blocks are ever lost *)
(* or replaced.                                                            *)
ImplementsCommitLog == Log!Spec

=============================================================================
