------------------------------- MODULE State -------------------------------
(***************************************************************************)
(* Transactions (crates/subhost-core) and the account rules of             *)
(* crates/subhost-state, as operators on a function from addresses to      *)
(* accounts.  An address the code holds no entry for has the default       *)
(* account.  A mutating method that returns Result is an operator that     *)
(* returns both the verdict and the accounts as the method leaves them, on *)
(* the error paths too.  checked_add and checked_mul on u128 and u64 fail  *)
(* above MaxAmount and MaxNonce.                                           *)
(***************************************************************************)
EXTENDS Integers, FiniteSets, FiniteSetsExt

CONSTANTS
  Addrs,      \* the addresses
  NoAddr,     \* Transaction::to is None
  ChainId,    \* the chain the node serves
  MaxAmount,  \* u128::MAX
  MaxNonce,   \* u64::MAX
  Txs         \* the signed transactions clients may submit

Amounts == 0..MaxAmount

Nonces == 0..MaxNonce

TxTypes == {"Transfer", "Other"}

ASSUME BoundsAssumption == MaxAmount \in Nat /\ MaxNonce \in Nat

(* An address is 20 bytes.                                                 *)
ASSUME AddrsAssumption == IsFiniteSet(Addrs)

ASSUME ChainIdAssumption == ChainId \in Nat \ {0}

ASSUME NoAddrAssumption == NoAddr \notin Addrs

(* hash is the rank of the transaction hash; data is the length of the     *)
(* payload.  The signature was verified when the request was parsed.       *)
Transaction ==
  [hash : Nat \ {0}, tx_type : TxTypes, nonce : Nonces,
   from : Addrs, to : Addrs \cup {NoAddr}, value : Amounts,
   gas_price : Amounts, gas_limit : Nat, data : Nat, chain_id : Nat]

(* The hash identifies a transaction.                                      *)
ASSUME TxsAssumption ==
  /\ Txs \subseteq Transaction
  /\ \A tx, other \in Txs : tx.hash = other.hash => tx = other

Fee(tx) == tx.gas_price * tx.gas_limit

TotalCost(tx) == tx.value + Fee(tx)

-----------------------------------------------------------------------------

Account == [nonce : Nonces, balance : Amounts]

EmptyState == [a \in Addrs |-> [nonce |-> 0, balance |-> 0]]

SetBalance(accounts, a, amount) == [accounts EXCEPT ![a].balance = amount]

Credit(accounts, a, amount) ==
  IF accounts[a].balance + amount > MaxAmount
    THEN [ok |-> FALSE, accounts |-> accounts]
    ELSE [ok |-> TRUE,
          accounts |-> [accounts EXCEPT ![a].balance = @ + amount]]

Debit(accounts, a, amount) ==
  IF accounts[a].balance < amount
    THEN [ok |-> FALSE, accounts |-> accounts]
    ELSE [ok |-> TRUE,
          accounts |-> [accounts EXCEPT ![a].balance = @ - amount]]

(* Mutant of ApplyTransfer: both new balances computed from the old ones,  *)
(* so that a self-transfer is a credit.                                    *)
ApplyTransferDoubleCredit(accounts, from, to, amount) ==
  IF \/ accounts[from].balance < amount
     \/ accounts[to].balance + amount > MaxAmount
    THEN [ok |-> FALSE, accounts |-> accounts]
    ELSE [ok |-> TRUE,
          accounts |-> [accounts EXCEPT
                          ![from].balance = @ - amount,
                          ![to].balance = accounts[to].balance + amount]]

ApplyTransfer(accounts, from, to, amount) ==
  IF \/ accounts[from].balance < amount
     \/ from # to /\ accounts[to].balance + amount > MaxAmount
    THEN [ok |-> FALSE, accounts |-> accounts]
    ELSE [ok |-> TRUE,
          accounts |-> IF from = to
                         THEN accounts
                         ELSE [accounts EXCEPT ![from].balance = @ - amount,
                                               ![to].balance = @ + amount]]

EnsureBalance(accounts, a, amount) == accounts[a].balance >= amount

(* Mutant of Executable: a nonce the account has already spent passes.     *)
ExecutableAnyNonce(accounts, tx) ==
  /\ tx.chain_id = ChainId
  /\ tx.gas_limit # 0
  /\ tx.nonce <= accounts[tx.from].nonce
  /\ tx.nonce < MaxNonce
  /\ tx.tx_type = "Transfer"
  /\ tx.to # NoAddr
  /\ TotalCost(tx) <= MaxAmount
  /\ EnsureBalance(accounts, tx.from, TotalCost(tx))

(* The checks of apply_transaction that precede its first mutation.        *)
Executable(accounts, tx) ==
  /\ tx.chain_id = ChainId
  /\ tx.gas_limit # 0
  /\ tx.nonce = accounts[tx.from].nonce
  /\ tx.nonce < MaxNonce
  /\ Fee(tx) <= MaxAmount
  /\ tx.tx_type = "Transfer"
  /\ tx.to # NoAddr
  /\ TotalCost(tx) <= MaxAmount
  /\ EnsureBalance(accounts, tx.from, TotalCost(tx))

(* The fee is debited and credited to nobody.                              *)
ApplyTransaction(accounts, tx) ==
  IF ~Executable(accounts, tx)
    THEN [ok |-> FALSE, accounts |-> accounts]
    ELSE LET moved == ApplyTransfer(accounts, tx.from, tx.to, tx.value)
             paid  == Debit(moved.accounts, tx.from, Fee(tx))
         IN  IF ~moved.ok
               THEN moved
               ELSE IF ~paid.ok
                 THEN paid
                 ELSE [ok |-> TRUE,
                       accounts |-> [paid.accounts EXCEPT
                                       ![tx.from].nonce = tx.nonce + 1]]

(* What the accounts hold together.                                        *)
Supply(accounts) == MapThenSumSet(LAMBDA a : accounts[a].balance, Addrs)

=============================================================================
