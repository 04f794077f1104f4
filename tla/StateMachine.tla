---------------------------- MODULE StateMachine ----------------------------
(***************************************************************************)
(* The public mutators of subhost_state::State called in any order, with   *)
(* history variables for what was put in, what was burnt as fees, and how  *)
(* often each transaction was executed.                                    *)
(***************************************************************************)
EXTENDS State

VARIABLES
  accounts,  \* State::accounts
  minted,    \* history: net amount put in by credit and set_balance
  burned,    \* history: fees returned by apply_transaction
  runs       \* history: successful executions of each transaction

vars == <<accounts, minted, burned, runs>>

Init ==
  /\ accounts = EmptyState
  /\ minted = 0
  /\ burned = 0
  /\ runs = [tx \in Txs |-> 0]

CreditAccount(a, amount) ==
  LET result == Credit(accounts, a, amount)
  IN  /\ accounts' = result.accounts
      /\ minted' = IF result.ok THEN minted + amount ELSE minted
      /\ UNCHANGED <<burned, runs>>

SetAccountBalance(a, amount) ==
  /\ accounts' = SetBalance(accounts, a, amount)
  /\ minted' = minted + amount - accounts[a].balance
  /\ UNCHANGED <<burned, runs>>

Transfer(from, to, amount) ==
  /\ accounts' = ApplyTransfer(accounts, from, to, amount).accounts
  /\ UNCHANGED <<minted, burned, runs>>

Execute(tx) ==
  LET result == ApplyTransaction(accounts, tx)
  IN  /\ accounts' = result.accounts
      /\ burned' = IF result.ok THEN burned + Fee(tx) ELSE burned
      /\ runs' = IF result.ok THEN [runs EXCEPT ![tx] = @ + 1] ELSE runs
      /\ UNCHANGED minted

Next ==
  \/ \E a \in Addrs, amount \in Amounts :
       CreditAccount(a, amount) \/ SetAccountBalance(a, amount)
  \/ \E from, to \in Addrs, amount \in Amounts : Transfer(from, to, amount)
  \/ \E tx \in Txs : Execute(tx)

Spec == Init /\ [][Next]_vars

-----------------------------------------------------------------------------

(* Every balance fits a u128 and every nonce a u64, whatever sequence of   *)
(* credits, transfers and transactions the state has seen.                 *)
TypeOK ==
  /\ accounts \in [Addrs -> Account]
  /\ minted \in Int
  /\ burned \in Nat
  /\ runs \in [Txs -> Nat]

(* No call creates or destroys value: what the accounts hold and what was  *)
(* burnt as fees is what was put in, self-transfers and refused calls      *)
(* included.                                                               *)
Conservation == Supply(accounts) + burned = minted

(* "leaves the state untouched on any error" (apply_transaction): no       *)
(* transaction can fail between the transfer and the fee.                  *)
UntouchedOnError ==
  \A tx \in Txs :
    LET result == ApplyTransaction(accounts, tx)
    IN  ~result.ok => result.accounts = accounts

(* A (sender, nonce) pair is spent at most once: no transaction is         *)
(* replayed, and of two that share a nonce at most one executes, also when *)
(* the sender is drained and funded again in between.                      *)
SlotSpentOnce ==
  \A tx, other \in Txs :
    tx.from = other.from /\ tx.nonce = other.nonce =>
      /\ runs[tx] <= 1
      /\ tx # other => runs[tx] + runs[other] <= 1

=============================================================================
