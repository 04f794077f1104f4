-------------------------- MODULE Clients_proofs ---------------------------
(***************************************************************************)
(* The accounts, the programs that pay through a node and the pool, for    *)
(* every set of addresses, transactions and callers, every width of the    *)
(* integers and every capacity.                                            *)
(***************************************************************************)
EXTENDS Clients, Mempool, Operators_proofs

(* What makes SlotSpentOnce inductive: an executed transaction's nonce is  *)
(* below its sender's.                                                     *)
ExecutedIsSpent ==
  \A tx \in Txs : runs[tx] > 0 => tx.nonce < accounts[tx.from].nonce

NonceInv == TypeOK /\ ExecutedIsSpent /\ SlotSpentOnce

(* A call that moves no nonce keeps the invariant.                         *)
LEMMA BalanceOnlyStep ==
  ASSUME NonceInv, accounts' \in [Addrs -> Account],
         \A a \in Addrs : accounts'[a].nonce = accounts[a].nonce,
         minted' \in Int, burned' \in Nat, runs' = runs
  PROVE  NonceInv'
<1>1. \A tx \in Txs : tx.from \in Addrs
  BY Zenon, TxFields
<1> QED
  BY Zenon, <1>1 DEF NonceInv, TypeOK, ExecutedIsSpent, SlotSpentOnce

(* An execution keeps it too: the transaction's slot was unspent before.   *)
LEMMA ExecuteStep ==
  ASSUME NonceInv, NEW tx \in Txs, Execute(tx)
  PROVE  NonceInv'
<1> DEFINE result == ApplyTransaction(accounts, tx)
<1>0. accounts \in [Addrs -> Account] /\ Fee(tx) \in Nat
  BY Zenon, FeeType DEF NonceInv, TypeOK
<1>1. CASE ~result.ok
  <2>1. accounts' = accounts /\ UNCHANGED <<minted, burned, runs>>
    BY Zenon, <1>0, <1>1, ErrorLeavesStateUntouched DEF Execute
  <2> QED BY Zenon, <2>1 DEF NonceInv, TypeOK, ExecutedIsSpent, SlotSpentOnce
<1>2. CASE result.ok
  <2>1. /\ accounts' \in [Addrs -> Account]
        /\ tx.nonce = accounts[tx.from].nonce
        /\ accounts'[tx.from].nonce = tx.nonce + 1
        /\ \A a \in Addrs \ {tx.from} : accounts'[a].nonce = accounts[a].nonce
    BY ZenonT(30), <1>0, <1>2, ExecutionSpendsOneNonce DEF Execute
  <2>2. /\ minted' = minted /\ burned' = burned + Fee(tx)
        /\ runs' = [runs EXCEPT ![tx] = @ + 1]
    BY Zenon, <1>2 DEF Execute
  <2>3. \A x \in Txs : x.from \in Addrs /\ x.nonce \in Nat
    BY TxFields, BoundsAssumption DEF Nonces
  <2>4. \A a \in Addrs : accounts[a].nonce \in Nat
    BY <1>0, BoundsAssumption DEF Account, Nonces
  <2>5. runs \in [Txs -> Nat] /\ minted \in Int /\ burned \in Nat
    BY Zenon DEF NonceInv, TypeOK
  <2>6. \A x \in Txs : x.from = tx.from /\ x.nonce = tx.nonce => runs[x] = 0
    BY <2>1, <2>3, <2>4, <2>5 DEF NonceInv, ExecutedIsSpent
  <2>7. TypeOK'
    BY <1>0, <2>1, <2>2, <2>5 DEF TypeOK
  <2>8. ExecutedIsSpent'
    BY <2>1, <2>2, <2>3, <2>4, <2>5 DEF NonceInv, ExecutedIsSpent
  <2>9. SlotSpentOnce'
    <3> SUFFICES ASSUME NEW x \in Txs, NEW y \in Txs,
                        x.from = y.from, x.nonce = y.nonce
                 PROVE  /\ runs'[x] <= 1
                        /\ x # y => runs'[x] + runs'[y] <= 1
      BY Zenon DEF SlotSpentOnce
    <3>1. runs[x] <= 1 /\ (x # y => runs[x] + runs[y] <= 1)
      BY Zenon DEF NonceInv, SlotSpentOnce
    <3>2. CASE x.from = tx.from /\ x.nonce = tx.nonce
      <4>1. runs[x] = 0 /\ runs[y] = 0
        BY Zenon, <2>6, <3>2
      <4>2. \A z \in Txs : runs'[z] = IF z = tx THEN runs[z] + 1 ELSE runs[z]
        BY Zenon, <2>2, <2>5
      <4> QED BY <4>1, <4>2
    <3>3. CASE ~(x.from = tx.from /\ x.nonce = tx.nonce)
      <4>1. runs'[x] = runs[x] /\ runs'[y] = runs[y]
        BY Zenon, <2>2, <2>5, <3>3
      <4> QED BY Zenon, <3>1, <4>1
    <3> QED BY Zenon, <3>2, <3>3
  <2> QED BY Zenon, <2>7, <2>8, <2>9 DEF NonceInv
<1> QED BY Zenon, <1>1, <1>2

(* A state without accounts satisfies the invariant.                       *)
LEMMA NonceInvInit == Init => NonceInv
<1> SUFFICES ASSUME Init PROVE NonceInv
  BY Zenon
<1>1. EmptyState \in [Addrs -> Account]
  BY BoundsAssumption DEF EmptyState, Account, Nonces, Amounts
<1> QED BY <1>1 DEF Init, NonceInv, TypeOK, ExecutedIsSpent, SlotSpentOnce

(* Every public mutator of State keeps it.                                 *)
LEMMA NonceInvStep == NonceInv /\ [Next]_vars => NonceInv'
<1> SUFFICES ASSUME NonceInv, [Next]_vars PROVE NonceInv'
  BY Zenon
<1>0. /\ accounts \in [Addrs -> Account] /\ minted \in Int /\ burned \in Nat
      /\ \A a \in Addrs : accounts[a].balance \in Nat
  BY BoundsAssumption DEF NonceInv, TypeOK, Account, Amounts
<1>1. ASSUME NEW a \in Addrs, NEW v \in Amounts, CreditAccount(a, v)
      PROVE  NonceInv'
  <2>1. accounts' = Credit(accounts, a, v).accounts
    BY Zenon, <1>1 DEF CreditAccount
  <2>2. minted' \in Int /\ burned' = burned /\ runs' = runs
    BY <1>0, <1>1, BoundsAssumption DEF CreditAccount, Amounts
  <2> QED BY Zenon, <1>0, <2>1, <2>2, CreditType, BalanceOnlyStep
<1>2. ASSUME NEW a \in Addrs, NEW v \in Amounts, SetAccountBalance(a, v)
      PROVE  NonceInv'
  <2>1. accounts' = SetBalance(accounts, a, v)
    BY Zenon, <1>2 DEF SetAccountBalance
  <2>2. minted' \in Int /\ burned' = burned /\ runs' = runs
    BY <1>0, <1>2, BoundsAssumption DEF SetAccountBalance, Amounts
  <2> QED BY Zenon, <1>0, <2>1, <2>2, SetBalanceType, BalanceOnlyStep
<1>3. ASSUME NEW from \in Addrs, NEW to \in Addrs, NEW v \in Amounts,
             Transfer(from, to, v)
      PROVE  NonceInv'
  <2>1. accounts' = ApplyTransfer(accounts, from, to, v).accounts
    BY Zenon, <1>3 DEF Transfer
  <2>2. minted' = minted /\ burned' = burned /\ runs' = runs
    BY Zenon, <1>3 DEF Transfer
  <2> QED BY <1>0, <2>1, <2>2, ApplyTransferType, BalanceOnlyStep
<1>4. ASSUME NEW tx \in Txs, Execute(tx) PROVE NonceInv'
  BY Zenon, <1>4, ExecuteStep
<1>5. CASE UNCHANGED vars
  BY Zenon, <1>5 DEF vars, NonceInv, TypeOK, ExecutedIsSpent, SlotSpentOnce
<1> QED BY Zenon, <1>1, <1>2, <1>3, <1>4, <1>5 DEF Next

(* Every behaviour of the public mutators of State keeps the invariant.    *)
THEOREM NonceInvHolds == Spec => []NonceInv
BY NonceInvInit, NonceInvStep, PTL DEF Spec

(* Balances stay in u128 and nonces in u64.                                *)
THEOREM TypesHold == Spec => []TypeOK
<1>1. NonceInv => TypeOK
  BY Zenon DEF NonceInv
<1> QED BY <1>1, NonceInvHolds, PTL

(* A (sender, nonce) pair is spent at most once.                           *)
THEOREM SlotsAreSpentOnce == Spec => []SlotSpentOnce
<1>1. NonceInv => SlotSpentOnce
  BY Zenon DEF NonceInv
<1> QED BY <1>1, NonceInvHolds, PTL

(* A nonce moves only by the execution of a transaction that has it: by    *)
(* one, and with that transaction on record.  Credits, transfers and       *)
(* refused transactions leave every nonce alone.                           *)
NonceStep ==
  \A a \in Addrs : accounts'[a].nonce # accounts[a].nonce =>
    /\ accounts'[a].nonce = accounts[a].nonce + 1
    /\ \E tx \in Txs : /\ tx.from = a /\ tx.nonce = accounts[a].nonce
                       /\ runs'[tx] = runs[tx] + 1

LEMMA NonceStepHolds == NonceInv /\ [Next]_vars => NonceStep
<1> SUFFICES ASSUME NonceInv, [Next]_vars PROVE NonceStep
  BY Zenon
<1>0. accounts \in [Addrs -> Account] /\ runs \in [Txs -> Nat]
  BY Zenon DEF NonceInv, TypeOK
<1>1. ASSUME \A a \in Addrs : accounts'[a].nonce = accounts[a].nonce PROVE NonceStep
  BY Zenon, <1>1 DEF NonceStep
<1>2. ASSUME NEW a \in Addrs, NEW v \in Amounts, CreditAccount(a, v) \/ SetAccountBalance(a, v)
      PROVE  NonceStep
  BY <1>0, <1>1, <1>2, CreditType, SetBalanceType DEF CreditAccount, SetAccountBalance
<1>3. ASSUME NEW from \in Addrs, NEW to \in Addrs, NEW v \in Amounts, Transfer(from, to, v)
      PROVE  NonceStep
  BY <1>0, <1>1, <1>3, ApplyTransferType DEF Transfer
<1>4. ASSUME NEW tx \in Txs, Execute(tx) PROVE NonceStep
  <2>1. CASE ~ApplyTransaction(accounts, tx).ok
    BY Zenon, <1>0, <1>1, <1>4, <2>1, ErrorLeavesStateUntouched DEF Execute
  <2>2. CASE ApplyTransaction(accounts, tx).ok
    <3>1. /\ tx.nonce = accounts[tx.from].nonce
          /\ accounts'[tx.from].nonce = tx.nonce + 1
          /\ \A a \in Addrs \ {tx.from} : accounts'[a].nonce = accounts[a].nonce
      BY <1>0, <1>4, <2>2, ExecutionSpendsOneNonce DEF Execute
    <3>2. runs'[tx] = runs[tx] + 1
      BY Zenon, <1>0, <1>4, <2>2 DEF Execute
    <3> QED BY Zenon, <3>1, <3>2 DEF NonceStep
  <2> QED BY Zenon, <2>1, <2>2
<1>5. CASE UNCHANGED vars
  BY Zenon, <1>1, <1>5 DEF vars
<1> QED BY Zenon, <1>2, <1>3, <1>4, <1>5 DEF Next

(* No account's nonce is ever moved but by an execution, and then by one.  *)
THEOREM NoncesCountExecutions == Spec => [][NonceStep]_vars
BY NonceStepHolds, NonceInvHolds, PTL DEF Spec

(* In every reachable state a refused transaction leaves no trace.         *)
THEOREM RefusedLeavesNoTrace == Spec => []UntouchedOnError
<1>1. NonceInv => UntouchedOnError
  BY Zenon, ErrorLeavesStateUntouched DEF NonceInv, TypeOK, UntouchedOnError
<1> QED BY <1>1, NonceInvHolds, PTL

(* Every public mutator keeps the books: what it adds to the accounts it   *)
(* adds to minted, and what it takes out is the fee.                       *)
LEMMA ConservationStep ==
  ASSUME NonceInv, Conservation, [Next]_vars
  PROVE  Conservation'
<1>0. /\ accounts \in [Addrs -> Account] /\ minted \in Int /\ burned \in Nat
      /\ \A a \in Addrs : accounts[a].balance \in Nat
  BY BoundsAssumption DEF NonceInv, TypeOK, Account, Amounts
<1>1. ASSUME NEW a \in Addrs, NEW v \in Amounts, CreditAccount(a, v)
      PROVE  Conservation'
  <2>0. v \in Nat /\ MaxAmount \in Nat
    BY BoundsAssumption DEF Amounts
  <2>1. CASE accounts[a].balance + v > MaxAmount
    <3>1. accounts' = accounts /\ minted' = minted /\ burned' = burned
      BY Zenon, <1>1, <2>1 DEF CreditAccount, Credit
    <3> QED BY Zenon, <3>1 DEF Conservation
  <2>2. CASE ~(accounts[a].balance + v > MaxAmount)
    <3>1. /\ accounts' = SetBalance(accounts, a, accounts[a].balance + v)
          /\ minted' = minted + v /\ burned' = burned
      BY Zenon, <1>1, <2>2 DEF CreditAccount, Credit, SetBalance
    <3>2. accounts[a].balance + v \in Amounts
      BY <1>0, <2>0, <2>2 DEF Amounts
    <3>3. /\ Supply(accounts) \in Int
          /\ Supply(accounts') = Supply(accounts) - accounts[a].balance
                                    + (accounts[a].balance + v)
      BY Zenon, <1>0, <3>1, <3>2, SetBalanceSupply
    <3> QED BY <1>0, <2>0, <3>1, <3>3 DEF Conservation
  <2> QED BY Zenon, <2>1, <2>2
<1>2. ASSUME NEW a \in Addrs, NEW v \in Amounts, SetAccountBalance(a, v)
      PROVE  Conservation'
  <2>0. v \in Nat
    BY BoundsAssumption DEF Amounts
  <2>1. /\ accounts' = SetBalance(accounts, a, v)
        /\ minted' = minted + v - accounts[a].balance /\ burned' = burned
    BY Zenon, <1>2 DEF SetAccountBalance
  <2>2. /\ Supply(accounts) \in Int
        /\ Supply(accounts') = Supply(accounts) - accounts[a].balance + v
    BY Zenon, <1>0, <2>1, SetBalanceSupply
  <2> QED BY <1>0, <2>0, <2>1, <2>2 DEF Conservation
<1>3. ASSUME NEW from \in Addrs, NEW to \in Addrs, NEW v \in Amounts,
             Transfer(from, to, v)
      PROVE  Conservation'
  <2>1. minted' = minted /\ burned' = burned /\ Supply(accounts') = Supply(accounts)
    BY Zenon, <1>0, <1>3, TransferSupply DEF Transfer
  <2> QED BY Zenon, <2>1 DEF Conservation
<1>4. ASSUME NEW tx \in Txs, Execute(tx) PROVE Conservation'
  <2>0. Fee(tx) \in Nat
    BY Zenon, FeeType
  <2>1. CASE ~ApplyTransaction(accounts, tx).ok
    <3>1. accounts' = accounts /\ minted' = minted /\ burned' = burned
      BY Zenon, <1>0, <1>4, <2>1, ErrorLeavesStateUntouched DEF Execute
    <3> QED BY Zenon, <3>1 DEF Conservation
  <2>2. CASE ApplyTransaction(accounts, tx).ok
    <3>1. /\ accounts' = ApplyTransaction(accounts, tx).accounts
          /\ minted' = minted /\ burned' = burned + Fee(tx)
      BY Zenon, <1>4, <2>2 DEF Execute
    <3>2. Supply(accounts) \in Int /\ Supply(accounts') = Supply(accounts) - Fee(tx)
      BY Zenon, <1>0, <2>2, <3>1, ExecutionBurnsTheFee
    <3> QED BY <1>0, <2>0, <3>1, <3>2 DEF Conservation
  <2> QED BY Zenon, <2>1, <2>2
<1>5. CASE UNCHANGED vars
  BY Zenon, <1>5 DEF vars, Conservation
<1> QED BY Zenon, <1>1, <1>2, <1>3, <1>4, <1>5 DEF Next

(* No call of the state's mutators creates or destroys value.              *)
THEOREM ValueIsConserved == Spec => []Conservation
<1>1. Init => Conservation
  <2> SUFFICES ASSUME Init PROVE Supply(EmptyState) = 0
    BY DEF Init, Conservation
  <2>1. Supply(EmptyState) = Sum(Balances(EmptyState), Addrs)
    BY Zenon, SupplyIsSum
  <2>2. Balances(EmptyState) = [a \in Addrs |-> 0]
    BY Zenon DEF Balances, EmptyState
  <2>3. Sum([a \in Addrs |-> 0], Addrs) = 0
    BY Zenon, SumZero, AddrsAssumption
  <2> QED BY Zenon, <2>1, <2>2, <2>3
<1>2. NonceInv /\ Conservation /\ [Next]_vars => Conservation'
  BY Zenon, ConservationStep
<1> QED BY <1>1, <1>2, NonceInvHolds, PTL DEF Spec

-----------------------------------------------------------------------------
(* The callers of a node.                                                  *)

NoncesOf(o) == IF o.nonce = Unset THEN Nonces ELSE {o.nonce}

(* The functions of the callers are functions; before the node is up       *)
(* nothing was asked, and then every caller has an order of the plans.     *)
CallersOK ==
  /\ stage \in [Callers -> {"new", "waiting", "chain", "nonce", "sign", "sent"}
                             \cup Returned]
  /\ chain = [c \in Callers |-> chain[c]]
  /\ nonce = [c \in Callers |-> nonce[c]]
  /\ serving \in BOOLEAN
  /\ serving => order \in Plans
  /\ wire \subseteq Callers
  /\ answers \subseteq Callers \X BOOLEAN
  /\ ~serving => /\ \A c \in Callers : stage[c] = "new"
                 /\ wire = {} /\ answers = {} /\ executed = {}

(* A request is on its way once: its caller waits for it or has given up,  *)
(* and an answer is there only while its caller waits and the request is   *)
(* no longer on its way.                                                   *)
SentOnce ==
  /\ \A c \in wire : stage[c] \in {"sent", "lost"}
  /\ \A c \in Callers, ok \in BOOLEAN :
       <<c, ok>> \in answers => stage[c] = "sent" /\ c \notin wire

(* A caller that signs has its chain, and a nonce that was given or read.  *)
Prepared ==
  \A c \in Callers :
    /\ /\ c \in wire \/ stage[c] \in {"nonce", "sign", "sent", "printed", "refused"}
       /\ order[c].via # "other"
       => chain[c] = Default(order[c].chain_id, ChainId)
    /\ /\ c \in wire \/ stage[c] \in {"sign", "sent", "printed", "refused"}
       /\ order[c].via # "other"
       => nonce[c] \in NoncesOf(order[c])

(* A transfer of the explorer holds the lock from the first read to the    *)
(* answer.                                                                 *)
GuardHeld ==
  \A c \in Callers :
    stage[c] \in {"chain", "nonce", "sign", "sent"} /\ order[c].via = "explorer"
      => guard = c

(* What a caller is told was executed is what it signed.                   *)
AnswersAreTrue ==
  /\ \A tx \in executed : tx \in Txs /\ runs[tx] > 0
  /\ \A c \in Callers :
       (stage[c] = "printed" \/ <<c, TRUE>> \in answers) /\ order[c].via # "other"
         => SignedTx(c) \in executed

ClientInv ==
  /\ CallersOK
  /\ SentOnce
  /\ Prepared
  /\ GuardHeld
  /\ AnswersAreTrue
  /\ ExecutedWasSigned
  /\ ExplorerNonceHolds

(* What an order leads to is among the transactions.                       *)
LEMMA OrderedExists ==
  ASSUME NEW plan \in Plans, NEW c \in Callers, plan[c].via # "other"
  PROVE  /\ plan[c].via \in {"cli", "explorer"}
         /\ plan[c].via = "explorer" => plan[c].nonce = Unset
         /\ \A n \in NoncesOf(plan[c]) : \E tx \in Txs :
              HasFields(tx, plan[c].from, plan[c].to, plan[c].amount, n,
                        plan[c].gas_price, TransferGasLimit,
                        Default(plan[c].chain_id, ChainId))
BY Zenon, PlansAssumption DEF NoncesOf

(* So is what a request made by hand decodes to, and a signature is a key  *)
(* and what it signs.                                                      *)
LEMMA HandMadeExists ==
  ASSUME NEW plan \in Plans, NEW c \in Callers, plan[c].via = "other"
  PROVE  LET r == plan[c].request
         IN  /\ r.from # Unset /\ r.to # Unset =>
                  \E tx \in Txs :
                    HasFields(tx, r.from, r.to, Default(r.value, 0),
                              Default(r.nonce, 0), Default(r.gasPrice, 1),
                              Default(r.gas, DefaultGasLimit), ChainId)
             /\ \/ r.signature = Unset
                \/ r.signature = [key |-> r.signature.key,
                                  payload |-> r.signature.payload]
BY Zenon, PlansAssumption

(* The transaction of some fields has these fields, if there is one.       *)
LEMMA TxOfFields ==
  ASSUME NEW from, NEW to, NEW value, NEW n, NEW price, NEW gas, NEW id,
         \E tx \in Txs : HasFields(tx, from, to, value, n, price, gas, id)
  PROVE  LET tx == TxOf(from, to, value, n, price, gas, id)
         IN  tx \in Txs /\ HasFields(tx, from, to, value, n, price, gas, id)
BY Zenon DEF TxOf

(* What a prepared caller signs is a transaction of its order's sender.    *)
LEMMA SignedIsTx ==
  ASSUME order \in Plans, NEW c \in Callers, order[c].via # "other",
         chain[c] = Default(order[c].chain_id, ChainId),
         nonce[c] \in NoncesOf(order[c])
  PROVE  /\ SignedTx(c) \in Txs
         /\ SignedTx(c).from = order[c].from
         /\ chain[c] # Unset /\ nonce[c] # Unset
<1>1. \E tx \in Txs :
        HasFields(tx, order[c].from, order[c].to, order[c].amount, nonce[c],
                  order[c].gas_price, TransferGasLimit, chain[c])
  BY Zenon, OrderedExists
<1>2. /\ SignedTx(c) \in Txs
      /\ HasFields(SignedTx(c), order[c].from, order[c].to, order[c].amount,
                   nonce[c], order[c].gas_price, TransferGasLimit, chain[c])
  BY Zenon, <1>1, TxOfFields DEF SignedTx
<1>3. \A tx \in Txs : tx.chain_id \in Nat /\ tx.nonce \in Nat
  BY TxsAssumption, BoundsAssumption DEF Transaction, Nonces
<1> QED BY Zenon, <1>2, <1>3, ClientsAssumption DEF HasFields

(* The sender of an order has an account.                                  *)
LEMMA OrderSender ==
  ASSUME NEW plan \in Plans, NEW c \in Callers, plan[c].via # "other"
  PROVE  plan[c].from \in Addrs
<1>1. NoncesOf(plan[c]) # {}
  BY BoundsAssumption DEF NoncesOf, Nonces
<1>2. PICK tx \in Txs : tx.from = plan[c].from
  BY <1>1, OrderedExists DEF HasFields
<1> QED BY Zenon, <1>2, TxFields

(* What the node executes for a caller was signed, with all its fields, by *)
(* the key of its sender: by the caller, or in the request it was handed.  *)
LEMMA AcceptedWasSigned ==
  ASSUME order \in Plans, NEW c \in Callers, Accepts(Request(c)),
         order[c].via # "other" =>
           /\ chain[c] = Default(order[c].chain_id, ChainId)
           /\ nonce[c] \in NoncesOf(order[c])
  PROVE  LET tx == TransactionFromParams(Request(c))
         IN  /\ tx \in Txs
             /\ ApplyTransaction(accounts, tx).ok
             /\ order[c].via # "other" =>
                  tx = SignedTx(c) /\ chain[c] # Unset /\ nonce[c] # Unset
             /\ order[c].via = "other" =>
                  order[c].request.signature = [key |-> tx.from, payload |-> tx]
<1> DEFINE tx == TransactionFromParams(Request(c))
<1>1. ApplyTransaction(accounts, tx).ok
  BY Zenon DEF Accepts, Commits
<1>2. CASE order[c].via # "other"
  <2>1. Request(c).signature.payload = SignedTx(c)
    BY Zenon, <1>2 DEF Request
  <2>2. tx = SignedTx(c)
    BY Zenon, <2>1 DEF Accepts, Verifies
  <2> QED BY Zenon, <1>1, <1>2, <2>2, SignedIsTx
<1>3. CASE order[c].via = "other"
  <2> DEFINE r == order[c].request
  <2>1. Request(c) = r
    BY Zenon, <1>3 DEF Request
  <2>2. /\ r.from # Unset /\ r.to # Unset /\ r.signature # Unset
        /\ r.signature.key = r.from
        /\ r.signature.payload = TransactionFromParams(r)
    BY Zenon, <2>1 DEF Accepts, Decodes, Verifies, CarriesSignature
  <2>3. /\ TransactionFromParams(r) \in Txs
        /\ TransactionFromParams(r).from = r.from
    <3>1. \E x \in Txs :
            HasFields(x, r.from, r.to, Default(r.value, 0), Default(r.nonce, 0),
                      Default(r.gasPrice, 1), Default(r.gas, DefaultGasLimit), ChainId)
      BY Zenon, <1>3, <2>2, HandMadeExists
    <3>2. /\ TransactionFromParams(r) \in Txs
          /\ HasFields(TransactionFromParams(r), r.from, r.to, Default(r.value, 0),
                       Default(r.nonce, 0), Default(r.gasPrice, 1),
                       Default(r.gas, DefaultGasLimit), ChainId)
      BY Zenon, <3>1, TxOfFields DEF TransactionFromParams
    <3> QED BY Zenon, <3>2 DEF HasFields
  <2>4. r.signature = [key |-> r.signature.key, payload |-> r.signature.payload]
    BY Zenon, <1>3, <2>2, HandMadeExists
  <2> QED BY Zenon, <1>1, <1>3, <2>1, <2>2, <2>3, <2>4
<1> QED BY Zenon, <1>2, <1>3

(* The parts of the invariant that a step of one caller can disturb are    *)
(* those of that caller: what it signs is fixed by its order, its chain    *)
(* and its nonce.                                                          *)
LEMMA SignedUnchanged ==
  ASSUME NEW c, order' = order, chain'[c] = chain[c], nonce'[c] = nonce[c]
  PROVE  SignedTx(c)' = SignedTx(c)
BY Zenon DEF SignedTx

(* What was signed stays signed, and a nonce that another program spent    *)
(* stays spent by it.                                                      *)
LEMMA SignedStays ==
  ASSUME order' = order, \A d \in Callers : Signed(d) \subseteq Signed(d)'
  PROVE  \A x : \A d \in Callers : SignedBy(x, d) => SignedBy(x, d)'
BY Zenon DEF SignedBy

LEMMA SpentStays ==
  ASSUME NEW c \in Callers, SpentByOther(c), order' = order, nonce'[c] = nonce[c],
         executed \subseteq executed',
         \A d \in Callers : Signed(d) \subseteq Signed(d)',
         \A d \in Callers : stage[d] = "lost" => stage'[d] = "lost"
  PROVE  SpentByOther(c)'
<1>1. PICK d \in Callers \ {c}, x \in executed :
             /\ order[d].via # "explorer" \/ stage[d] = "lost"
             /\ SignedBy(x, d) /\ x.from = order[c].from /\ x.nonce = nonce[c]
  BY Zenon DEF SpentByOther
<1>2. SignedBy(x, d)'
  BY Zenon, <1>1, SignedStays
<1> QED BY Zenon, <1>1, <1>2 DEF SpentByOther

(* Steps of the accounts before the node is up.                            *)
LEMMA BeforeServing ==
  ASSUME ClientInv, ~serving, UNCHANGED clientVars
  PROVE  ClientInv'
<1>1. /\ executed = {} /\ wire = {} /\ answers = {} /\ \A c \in Callers : stage[c] = "new"
  BY Zenon DEF ClientInv, CallersOK
<1>2. CallersOK' /\ SentOnce' /\ Prepared' /\ GuardHeld'
  BY Zenon DEF ClientInv, clientVars, CallersOK, SentOnce, Prepared, GuardHeld
<1>3. AnswersAreTrue' /\ ExecutedWasSigned' /\ ExplorerNonceHolds'
  BY Zenon, <1>1 DEF clientVars, AnswersAreTrue, ExecutedWasSigned, ExplorerNonceHolds
<1> QED BY Zenon, <1>2, <1>3 DEF ClientInv

(* The node comes up.                                                      *)
LEMMA ServeStep ==
  ASSUME ClientInv, Serve
  PROVE  ClientInv'
<1>1. /\ executed = {} /\ wire = {} /\ answers = {} /\ \A c \in Callers : stage[c] = "new"
  BY Zenon DEF ClientInv, CallersOK, Serve
<1>2. /\ executed' = {} /\ wire' = {} /\ answers' = {} /\ serving' /\ order' \in Plans
      /\ stage' = stage /\ chain' = chain /\ nonce' = nonce
      /\ \A c \in Callers : stage'[c] = "new"
  BY Zenon, <1>1 DEF Serve
<1>3. CallersOK'
  BY Zenon, <1>2 DEF ClientInv, CallersOK, Serve
<1>4. SentOnce' /\ Prepared' /\ GuardHeld'
  BY Zenon, <1>2 DEF SentOnce, Prepared, GuardHeld
<1>5. AnswersAreTrue' /\ ExecutedWasSigned' /\ ExplorerNonceHolds'
  BY Zenon, <1>2 DEF AnswersAreTrue, ExecutedWasSigned, ExplorerNonceHolds
<1> QED BY Zenon, <1>3, <1>4, <1>5 DEF ClientInv

(* A step of one caller before its request is sent changes where it is and *)
(* what it signs, and nothing of the others.                               *)
LEMMA PrepareStep ==
  ASSUME ClientInv, NEW c \in Callers, serving,
         stage[c] \in {"new", "waiting", "chain", "nonce"},
         NEW next \in {"waiting", "chain", "nonce", "sign"},
         stage' = [stage EXCEPT ![c] = next],
         chain' = [chain EXCEPT ![c] = chain'[c]],
         nonce' = [nonce EXCEPT ![c] = nonce'[c]],
         UNCHANGED <<vars, serving, order, wire, answers, executed>>,
         order[c].via # "other" =>
           /\ next \in {"nonce", "sign"} =>
                chain'[c] = Default(order[c].chain_id, ChainId)
           /\ next = "sign" => nonce'[c] \in NoncesOf(order[c]),
         order[c].via = "explorer" =>
           /\ next # "waiting" => guard' = c
           /\ next = "sign" => nonce'[c] = accounts[order[c].from].nonce,
         \A d \in Callers : d # c /\ guard = d => guard' = d
  PROVE  ClientInv'
<1>0. /\ CallersOK /\ SentOnce /\ Prepared /\ GuardHeld /\ AnswersAreTrue
      /\ ExecutedWasSigned /\ ExplorerNonceHolds
  BY Zenon DEF ClientInv
<1>1. /\ stage'[c] = next
      /\ \A d \in Callers \ {c} : /\ stage'[d] = stage[d] /\ chain'[d] = chain[d]
                                  /\ nonce'[d] = nonce[d]
      /\ wire' = wire /\ answers' = answers /\ executed' = executed /\ order' = order
      /\ runs' = runs /\ accounts' = accounts
  BY Zenon, <1>0 DEF CallersOK, vars
<1>2. c \notin wire /\ \A ok \in BOOLEAN : <<c, ok>> \notin answers
  BY Zenon, <1>0 DEF SentOnce
<1>3. CallersOK'
  BY Zenon, <1>0, <1>1 DEF CallersOK, Returned
<1>4. SentOnce'
  BY Zenon, <1>0, <1>1, <1>2 DEF SentOnce, CallersOK
<1>5. Prepared'
  BY ZenonT(30), <1>0, <1>1, <1>2 DEF Prepared
<1>6. GuardHeld'
  BY Zenon, <1>0, <1>1 DEF GuardHeld
<1>7. \A d \in Callers \ {c} : SignedTx(d)' = SignedTx(d)
  BY Zenon, <1>1, SignedUnchanged
<1>8. AnswersAreTrue'
  <2>1. \A tx \in executed' : tx \in Txs /\ runs'[tx] > 0
    BY Zenon, <1>0, <1>1 DEF AnswersAreTrue
  <2>2. ASSUME NEW d \in Callers, stage'[d] = "printed" \/ <<d, TRUE>> \in answers',
               order'[d].via # "other"
        PROVE  SignedTx(d)' \in executed'
    <3>1. d # c
      BY Zenon, <1>1, <1>2, <2>2
    <3>2. SignedTx(d) \in executed
      BY Zenon, <1>0, <1>1, <2>2, <3>1 DEF AnswersAreTrue
    <3> QED BY <1>1, <1>7, <3>1, <3>2
  <2> QED BY Zenon, <2>1, <2>2 DEF AnswersAreTrue
<1>9. \A d \in Callers : Signed(d) \subseteq Signed(d)'
  <2>1. Signed(c) = {}
    BY Zenon DEF Signed, Returned
  <2>2. \A d \in Callers \ {c} : Signed(d)' = Signed(d)
    BY Zenon, <1>1, <1>7 DEF Signed
  <2> QED BY Zenon, <2>1, <2>2
<1>10. ExecutedWasSigned'
  BY ZenonT(30), <1>0, <1>1, <1>9, SignedStays DEF ExecutedWasSigned
<1>11. ExplorerNonceHolds'
  <2> SUFFICES ASSUME NEW d \in Callers, stage'[d] \in {"sign", "sent"},
                      order[d].via = "explorer", stage'[d] = "sent" => d \in wire
               PROVE  nonce'[d] = accounts[order[d].from].nonce \/ SpentByOther(d)'
    BY Zenon, <1>1 DEF ExplorerNonceHolds
  <2>1. CASE d = c
    BY Zenon, <1>1, <2>1
  <2>2. CASE d # c
    <3>1. nonce[d] = accounts[order[d].from].nonce \/ SpentByOther(d)
      BY Zenon, <1>0, <1>1, <2>2 DEF ExplorerNonceHolds
    <3>2. \A e \in Callers : stage[e] = "lost" => stage'[e] = "lost"
      BY Zenon, <1>1
    <3> QED BY Zenon, <1>1, <1>9, <2>2, <3>1, <3>2, SpentStays
  <2> QED BY Zenon, <2>1, <2>2
<1> QED BY Zenon, <1>3, <1>4, <1>5, <1>6, <1>8, <1>10, <1>11 DEF ClientInv

(* A request goes out.                                                     *)
LEMMA SendStep ==
  ASSUME ClientInv, NEW c \in Callers, serving,
         \/ stage[c] = "sign"
         \/ stage[c] = "new" /\ order[c].via = "other",
         stage' = [stage EXCEPT ![c] = "sent"], wire' = wire \cup {c},
         UNCHANGED <<vars, serving, order, chain, nonce, guard, answers, executed>>
  PROVE  ClientInv'
<1>0. /\ CallersOK /\ SentOnce /\ Prepared /\ GuardHeld /\ AnswersAreTrue
      /\ ExecutedWasSigned /\ ExplorerNonceHolds
  BY Zenon DEF ClientInv
<1>1. /\ stage'[c] = "sent" /\ \A d \in Callers \ {c} : stage'[d] = stage[d]
      /\ answers' = answers /\ executed' = executed /\ order' = order
      /\ runs' = runs /\ accounts' = accounts /\ chain' = chain /\ nonce' = nonce
      /\ guard' = guard
  BY Zenon, <1>0 DEF CallersOK, vars
<1>2. c \notin wire /\ \A ok \in BOOLEAN : <<c, ok>> \notin answers
  BY Zenon, <1>0 DEF SentOnce
<1>3. CallersOK'
  BY Zenon, <1>0, <1>1 DEF CallersOK, Returned
<1>4. SentOnce'
  BY Zenon, <1>0, <1>1, <1>2 DEF SentOnce, CallersOK
<1>5. Prepared'
  BY Zenon, <1>0, <1>1, <1>2 DEF Prepared
<1>6. GuardHeld'
  BY Zenon, <1>0, <1>1 DEF GuardHeld
<1>7. \A d : SignedTx(d)' = SignedTx(d)
  BY Zenon, <1>1, SignedUnchanged
<1>8. AnswersAreTrue'
  <2>1. \A d \in Callers : stage'[d] = "printed" => stage[d] = "printed"
    BY Zenon, <1>1
  <2> QED BY Zenon, <1>0, <1>1, <1>7, <2>1 DEF AnswersAreTrue
<1>9. \A d \in Callers : Signed(d) \subseteq Signed(d)'
  BY Zenon, <1>1, <1>7 DEF Signed, Returned
<1>10. ExecutedWasSigned'
  BY ZenonT(30), <1>0, <1>1, <1>9, SignedStays DEF ExecutedWasSigned
<1>11. ExplorerNonceHolds'
  <2> SUFFICES ASSUME NEW d \in Callers, stage'[d] \in {"sign", "sent"},
                      order[d].via = "explorer", stage'[d] = "sent" => d \in wire'
               PROVE  nonce[d] = accounts[order[d].from].nonce \/ SpentByOther(d)'
    BY Zenon, <1>1 DEF ExplorerNonceHolds
  <2>1. stage[d] \in {"sign", "sent"} /\ (stage[d] = "sent" => d \in wire)
    BY Zenon, <1>1
  <2>2. nonce[d] = accounts[order[d].from].nonce \/ SpentByOther(d)
    BY Zenon, <1>0, <2>1 DEF ExplorerNonceHolds
  <2>3. \A e \in Callers : stage[e] = "lost" => stage'[e] = "lost"
    BY Zenon, <1>1
  <2> QED BY Zenon, <1>1, <1>9, <2>2, <2>3, SpentStays
<1> QED BY Zenon, <1>3, <1>4, <1>5, <1>6, <1>8, <1>10, <1>11 DEF ClientInv

(* A caller returns: with its answer, or without.                          *)
LEMMA ReturnStep ==
  ASSUME ClientInv, NEW c \in Callers, NEW how \in Returned, Return(c, how),
         stage[c] \in {"chain", "nonce", "sent"},
         how # "lost" => \E ok \in BOOLEAN : <<c, ok>> \in answers,
         how = "printed" => <<c, TRUE>> \in answers
  PROVE  ClientInv'
<1>0. /\ CallersOK /\ SentOnce /\ Prepared /\ GuardHeld /\ AnswersAreTrue
      /\ ExecutedWasSigned /\ ExplorerNonceHolds
  BY Zenon DEF ClientInv
<1>1. /\ stage'[c] = how /\ \A d \in Callers \ {c} : stage'[d] = stage[d]
      /\ executed' = executed /\ order' = order /\ wire' = wire /\ serving' = serving
      /\ runs' = runs /\ accounts' = accounts /\ chain' = chain /\ nonce' = nonce
      /\ stage' = [stage EXCEPT ![c] = how]
  BY Zenon, <1>0 DEF CallersOK, vars, Return
<1>2. /\ answers' \subseteq answers
      /\ \A d \in Callers, ok \in BOOLEAN :
           <<d, ok>> \in answers' <=> <<d, ok>> \in answers /\ d # c
  BY Zenon DEF Return
<1>3. /\ how # "lost" => stage[c] = "sent" /\ c \notin wire
      /\ c \in wire => stage[c] = "sent"
  BY Zenon, <1>0 DEF SentOnce
<1>4. CallersOK'
  <2>1. serving
    BY Zenon, <1>0 DEF CallersOK
  <2>2. stage' \in [Callers -> {"new", "waiting", "chain", "nonce", "sign", "sent"}
                                 \cup Returned]
    BY Zenon, <1>0, <1>1 DEF CallersOK
  <2> QED BY Zenon, <1>0, <1>1, <1>2, <2>1, <2>2 DEF CallersOK
<1>5. SentOnce'
  BY Zenon, <1>0, <1>1, <1>2, <1>3 DEF SentOnce, CallersOK, Returned
<1>6. Prepared'
  BY Zenon, <1>0, <1>1, <1>3 DEF Prepared, Returned
<1>7. GuardHeld'
  BY Zenon, <1>0, <1>1 DEF GuardHeld, Returned, Return, Released
<1>8. \A d : SignedTx(d)' = SignedTx(d)
  BY Zenon, <1>1, SignedUnchanged
<1>9. AnswersAreTrue'
  <2>1. \A d \in Callers : stage'[d] = "printed" \/ <<d, TRUE>> \in answers' =>
                             stage[d] = "printed" \/ <<d, TRUE>> \in answers
    BY Zenon, <1>1, <1>2
  <2> QED BY Zenon, <1>0, <1>1, <1>8, <2>1 DEF AnswersAreTrue
<1>10. \A d \in Callers : Signed(d) \subseteq Signed(d)'
  BY Zenon, <1>1, <1>8 DEF Signed, Returned
<1>11. ExecutedWasSigned'
  BY ZenonT(30), <1>0, <1>1, <1>10, SignedStays DEF ExecutedWasSigned
<1>12. ExplorerNonceHolds'
  <2> SUFFICES ASSUME NEW d \in Callers, stage'[d] \in {"sign", "sent"},
                      order[d].via = "explorer", stage'[d] = "sent" => d \in wire
               PROVE  nonce[d] = accounts[order[d].from].nonce \/ SpentByOther(d)'
    BY Zenon, <1>1 DEF ExplorerNonceHolds
  <2>1. d # c /\ stage'[d] = stage[d]
    BY Zenon, <1>1 DEF Returned
  <2>2. nonce[d] = accounts[order[d].from].nonce \/ SpentByOther(d)
    BY Zenon, <1>0, <2>1 DEF ExplorerNonceHolds
  <2>3. \A e \in Callers : stage[e] = "lost" => stage'[e] = "lost"
    BY Zenon, <1>1
  <2> QED BY Zenon, <1>1, <1>10, <2>2, <2>3, SpentStays
<1> QED BY Zenon, <1>4, <1>5, <1>6, <1>7, <1>9, <1>11, <1>12 DEF ClientInv

(* The node handles a request: it executes what the caller signed, or      *)
(* nothing.                                                                *)
LEMMA HandleExecutes ==
  ASSUME ClientInv, NEW c \in Callers, Handle(c)
  PROVE  LET tx == TransactionFromParams(Request(c))
         IN  \/ /\ ~Accepts(Request(c))
                /\ UNCHANGED <<vars, executed>>
             \/ /\ Accepts(Request(c))
                /\ tx \in Txs /\ Execute(tx) /\ executed' = executed \cup {tx}
                /\ ApplyTransaction(accounts, tx).ok
                /\ order[c].via # "other" => tx \in Signed(c) /\ tx = SignedTx(c)
                /\ order[c].via = "other" =>
                     order[c].request.signature = [key |-> tx.from, payload |-> tx]
<1> DEFINE tx == TransactionFromParams(Request(c))
<1>1. CASE ~Accepts(Request(c))
  BY Zenon, <1>1 DEF Handle
<1>2. CASE Accepts(Request(c))
  <2>1. Execute(tx) /\ executed' = executed \cup {tx} /\ c \in wire
    BY Zenon, <1>2 DEF Handle
  <2>2. serving /\ order \in Plans
    BY Zenon, <2>1 DEF ClientInv, CallersOK
  <2>3. order[c].via # "other" => /\ chain[c] = Default(order[c].chain_id, ChainId)
                                  /\ nonce[c] \in NoncesOf(order[c])
    BY Zenon, <2>1 DEF ClientInv, Prepared
  <2>4. /\ tx \in Txs
        /\ ApplyTransaction(accounts, tx).ok
        /\ order[c].via # "other" =>
             tx = SignedTx(c) /\ chain[c] # Unset /\ nonce[c] # Unset
        /\ order[c].via = "other" =>
             order[c].request.signature = [key |-> tx.from, payload |-> tx]
    BY Zenon, <1>2, <2>2, <2>3, AcceptedWasSigned
  <2>5. stage[c] \in {"sent", "lost"}
    BY Zenon, <2>1 DEF ClientInv, SentOnce
  <2>6. order[c].via # "other" => tx \in Signed(c)
    BY Zenon, <2>4, <2>5 DEF Signed, Returned
  <2> QED BY Zenon, <1>2, <2>1, <2>4, <2>6
<1> QED BY Zenon, <1>1, <1>2

LEMMA HandleStep ==
  ASSUME ClientInv, NonceInv, NEW c \in Callers, Handle(c)
  PROVE  ClientInv'
<1> DEFINE tx == TransactionFromParams(Request(c))
           ok == Accepts(Request(c))
<1>0. /\ CallersOK /\ SentOnce /\ Prepared /\ GuardHeld /\ AnswersAreTrue
      /\ ExecutedWasSigned
  BY Zenon DEF ClientInv
<1>1. /\ stage' = stage /\ order' = order /\ chain' = chain /\ nonce' = nonce
      /\ guard' = guard /\ serving' = serving
      /\ c \in wire /\ wire' = wire \ {c}
      /\ answers' = IF stage[c] = "sent" THEN answers \cup {<<c, ok>>} ELSE answers
  BY Zenon DEF Handle
<1>2. ok \in BOOLEAN
  BY Zenon DEF Accepts, Decodes
<1>3. \/ ~ok /\ runs' = runs /\ executed' = executed /\ accounts' = accounts
      \/ /\ ok /\ tx \in Txs /\ Execute(tx) /\ executed' = executed \cup {tx}
         /\ ApplyTransaction(accounts, tx).ok
         /\ order[c].via # "other" => tx \in Signed(c) /\ tx = SignedTx(c)
         /\ order[c].via = "other" =>
              order[c].request.signature = [key |-> tx.from, payload |-> tx]
  BY Zenon, HandleExecutes DEF vars
<1> HIDE DEF tx, ok
<1>4. serving /\ stage[c] \in {"sent", "lost"}
  BY Zenon, <1>0, <1>1 DEF CallersOK, SentOnce
<1>5. CallersOK'
  BY <1>0, <1>1, <1>2, <1>4 DEF CallersOK
<1>6. \A d \in Callers, o \in BOOLEAN :
        <<d, o>> \in answers' =>
          \/ <<d, o>> \in answers
          \/ d = c /\ o = ok /\ stage[c] = "sent"
  BY Zenon, <1>1
<1>7. SentOnce'
  BY Zenon, <1>0, <1>1, <1>6 DEF SentOnce, CallersOK
<1>8. Prepared'
  BY Zenon, <1>0, <1>1 DEF Prepared
<1>9. GuardHeld'
  BY Zenon, <1>0, <1>1 DEF GuardHeld
<1>10. \A d : SignedTx(d)' = SignedTx(d) /\ Signed(d)' = Signed(d)
  BY Zenon, <1>1, SignedUnchanged DEF Signed
<1>11. executed \subseteq executed'
  BY Zenon, <1>3
<1>12. AnswersAreTrue'
  <2>1. ASSUME NEW x \in executed' PROVE x \in Txs /\ runs'[x] > 0
    <3>1. runs \in [Txs -> Nat]
      BY Zenon DEF NonceInv, TypeOK
    <3>2. \A y \in executed : y \in Txs /\ runs[y] > 0
      BY Zenon, <1>0 DEF AnswersAreTrue
    <3>3. \/ runs' = runs /\ x \in executed
          \/ /\ tx \in Txs /\ x \in executed \cup {tx}
             /\ runs' = [runs EXCEPT ![tx] = @ + 1]
      BY Zenon, <1>3, <2>1 DEF Execute
    <3>4. CASE runs' = runs /\ x \in executed
      BY Zenon, <3>2, <3>4
    <3>5. CASE /\ tx \in Txs /\ x \in executed \cup {tx}
               /\ runs' = [runs EXCEPT ![tx] = @ + 1]
      <4>1. x \in Txs
        BY Zenon, <3>2, <3>5
      <4>2. runs'[x] = IF x = tx THEN runs[x] + 1 ELSE runs[x]
        BY Zenon, <3>1, <3>5, <4>1
      <4> QED BY <3>1, <3>2, <3>5, <4>1, <4>2
    <3> QED BY Zenon, <3>3, <3>4, <3>5
  <2>2. ASSUME NEW d \in Callers, stage'[d] = "printed" \/ <<d, TRUE>> \in answers',
               order'[d].via # "other"
        PROVE  SignedTx(d)' \in executed'
    <3>1. CASE stage[d] = "printed" \/ <<d, TRUE>> \in answers
      <4>1. SignedTx(d) \in executed
        BY Zenon, <1>0, <1>1, <2>2, <3>1 DEF AnswersAreTrue
      <4> QED BY Zenon, <1>10, <1>11, <4>1
    <3>2. CASE ~(stage[d] = "printed" \/ <<d, TRUE>> \in answers)
      <4>1. d = c /\ ok
        BY Zenon, <1>1, <1>6, <2>2, <3>2
      <4>2. SignedTx(d) \in executed'
        BY Zenon, <1>1, <1>3, <2>2, <4>1
      <4> QED BY Zenon, <1>10, <4>2
    <3> QED BY Zenon, <3>1, <3>2
  <2> QED BY Zenon, <2>1, <2>2 DEF AnswersAreTrue
<1>13. \A x : ok /\ x = tx => SignedBy(x, c)'
  BY Zenon, <1>1, <1>3, <1>10 DEF SignedBy
<1>14. ExecutedWasSigned'
  <2>1. \A x : \A d \in Callers : SignedBy(x, d) => SignedBy(x, d)'
    BY Zenon, <1>1, <1>10, SignedStays
  <2> QED BY ZenonT(30), <1>0, <1>3, <1>13, <2>1 DEF ExecutedWasSigned
<1>15. ExplorerNonceHolds'
  <2> SUFFICES ASSUME NEW d \in Callers, stage[d] \in {"sign", "sent"},
                      order[d].via = "explorer", stage[d] = "sent" => d \in wire'
               PROVE  nonce[d] = accounts'[order[d].from].nonce \/ SpentByOther(d)'
    BY Zenon, <1>1 DEF ExplorerNonceHolds
  <2>1. d # c
    BY Zenon, <1>1, <1>4
  <2>2. order[c].via # "explorer" \/ stage[c] = "lost"
    BY Zenon, <1>0, <1>4, <2>1 DEF GuardHeld
  <2>3. nonce[d] = accounts[order[d].from].nonce \/ SpentByOther(d)
    BY Zenon, <1>1 DEF ClientInv, ExplorerNonceHolds
  <2>4. CASE SpentByOther(d)
    BY Zenon, <1>1, <1>10, <1>11, <2>4, SpentStays
  <2>5. CASE nonce[d] = accounts[order[d].from].nonce
    <3>1. CASE accounts' = accounts
      BY Zenon, <2>5, <3>1
    <3>2. CASE accounts' # accounts
      <4>1. ok
        BY Zenon, <1>3, <3>2
      <4>2. /\ tx.nonce = accounts[tx.from].nonce
            /\ \A a \in Addrs \ {tx.from} : accounts'[a].nonce = accounts[a].nonce
        <5>1. /\ accounts \in [Addrs -> Account] /\ tx \in Txs
              /\ ApplyTransaction(accounts, tx).ok
              /\ accounts' = ApplyTransaction(accounts, tx).accounts
          BY Zenon, <1>3, <4>1 DEF NonceInv, TypeOK, Execute
        <5> QED BY Zenon, <5>1, ExecutionSpendsOneNonce
      <4>3. order[d].from \in Addrs
        BY Zenon, <1>0, <1>4, OrderSender DEF CallersOK
      <4>4. CASE order[d].from # tx.from
        BY Zenon, <2>5, <4>2, <4>3, <4>4
      <4>5. CASE order[d].from = tx.from
        <5>1. PICK x : x = tx
          BY Zenon
        <5>2. x \in executed' /\ x.from = order'[d].from /\ x.nonce = nonce'[d]
          BY Zenon, <1>1, <1>3, <2>5, <4>1, <4>2, <4>5, <5>1
        <5>3. SignedBy(x, c)'
          BY Zenon, <1>13, <4>1, <5>1
        <5> QED BY Zenon, <1>1, <2>1, <2>2, <5>2, <5>3 DEF SpentByOther
      <4> QED BY Zenon, <4>4, <4>5
    <3> QED BY Zenon, <3>1, <3>2
  <2> QED BY Zenon, <2>3, <2>4, <2>5
<1> QED BY Zenon, <1>5, <1>7, <1>8, <1>9, <1>12, <1>14, <1>15 DEF ClientInv

(* The steps of ClientNext, named.                                         *)
LEMMA ClientInvStep ==
  ASSUME ClientInv, NonceInv, [ClientNext]_<<vars, clientVars>>
  PROVE  ClientInv' /\ [Next]_vars
<1>0. /\ CallersOK /\ SentOnce /\ Prepared /\ GuardHeld
      /\ stage \in [Callers -> {"new", "waiting", "chain", "nonce", "sign", "sent"}
                                 \cup Returned]
      /\ chain = [d \in Callers |-> chain[d]] /\ nonce = [d \in Callers |-> nonce[d]]
      /\ serving => order \in Plans
  BY Zenon DEF ClientInv, CallersOK
<1>1. CASE UNCHANGED <<vars, clientVars>>
  <2>1. CallersOK' /\ SentOnce' /\ Prepared' /\ GuardHeld'
    BY Zenon, <1>1 DEF ClientInv, clientVars, CallersOK, SentOnce, Prepared, GuardHeld
  <2>2. \A d : SignedTx(d)' = SignedTx(d) /\ Signed(d)' = Signed(d)
    BY Zenon, <1>1, SignedUnchanged DEF Signed, clientVars
  <2>3. AnswersAreTrue'
    BY Zenon, <1>1, <2>2 DEF ClientInv, vars, clientVars, AnswersAreTrue
  <2>4. ExecutedWasSigned'
    BY Zenon, <1>1, <2>2 DEF ClientInv, vars, clientVars, ExecutedWasSigned, SignedBy
  <2>5. ExplorerNonceHolds'
    <3>1. \A d \in Callers : SpentByOther(d) => SpentByOther(d)'
      BY Zenon, <1>1, <2>2, SpentStays DEF clientVars
    <3> QED BY Zenon, <1>1, <3>1 DEF ClientInv, vars, clientVars, ExplorerNonceHolds
  <2> QED BY Zenon, <1>1, <2>1, <2>3, <2>4, <2>5 DEF ClientInv
<1>2. CASE ~serving /\ Next /\ UNCHANGED clientVars
  BY Zenon, <1>2, BeforeServing
<1>3. CASE Serve
  BY Zenon, <1>3, ServeStep DEF Serve
<1>4. ASSUME NEW c \in Callers, NEW via \in {"cli", "explorer"}, NEW next,
             next = (IF via = "cli" THEN "chain" ELSE "waiting"), Begin(c, via, next)
      PROVE  ClientInv' /\ [Next]_vars
  <2>1. /\ serving /\ stage[c] = "new" /\ stage' = [stage EXCEPT ![c] = next]
        /\ UNCHANGED <<vars, serving, order, chain, nonce, guard, wire, answers, executed>>
        /\ next \in {"waiting", "chain"} /\ (order[c].via = "explorer" => next = "waiting")
    BY Zenon, <1>4 DEF Begin, Goto
  <2>2. chain' = [chain EXCEPT ![c] = chain'[c]] /\ nonce' = [nonce EXCEPT ![c] = nonce'[c]]
    BY Zenon, <1>0, <2>1
  <2>3. ClientInv'
    BY Zenon, <2>1, <2>2, PrepareStep
  <2> QED BY Zenon, <2>1, <2>3
<1>5. ASSUME NEW c \in Callers, TakeGuard(c) PROVE ClientInv' /\ [Next]_vars
  <2>1. /\ stage[c] = "waiting" /\ stage' = [stage EXCEPT ![c] = "chain"]
        /\ UNCHANGED <<vars, serving, order, chain, nonce, wire, answers, executed>>
        /\ guard = NoCaller /\ guard' = c
    BY Zenon, <1>5 DEF TakeGuard, GuardFree, Goto
  <2>2. chain' = [chain EXCEPT ![c] = chain'[c]] /\ nonce' = [nonce EXCEPT ![c] = nonce'[c]]
    BY Zenon, <1>0, <2>1
  <2>3. serving /\ \A d \in Callers : guard # d
    BY Zenon, <1>0, <2>1, ClientsAssumption DEF CallersOK
  <2>4. ClientInv'
    BY Zenon, <2>1, <2>2, <2>3, PrepareStep
  <2> QED BY Zenon, <2>1, <2>4
<1>6. ASSUME NEW c \in Callers, ReadChain(c) PROVE ClientInv' /\ [Next]_vars
  <2>1. /\ stage[c] = "chain" /\ stage' = [stage EXCEPT ![c] = "nonce"]
        /\ UNCHANGED <<vars, serving, order, nonce, guard, wire, answers, executed>>
        /\ chain' = [chain EXCEPT ![c] = Default(order[c].chain_id, ChainId)]
    BY Zenon, <1>6 DEF ReadChain, GetChainId, Goto
  <2>2. /\ nonce' = [nonce EXCEPT ![c] = nonce'[c]]
        /\ chain'[c] = Default(order[c].chain_id, ChainId)
        /\ chain' = [chain EXCEPT ![c] = chain'[c]]
    BY Zenon, <1>0, <2>1
  <2>3. serving /\ (order[c].via = "explorer" => guard = c)
    BY Zenon, <1>0, <2>1 DEF CallersOK, GuardHeld
  <2>4. ClientInv'
    BY Zenon, <2>1, <2>2, <2>3, PrepareStep
  <2> QED BY Zenon, <2>1, <2>4
<1>7. ASSUME NEW c \in Callers, ReadNonce(c) PROVE ClientInv' /\ [Next]_vars
  <2> DEFINE n == Default(order[c].nonce, accounts[order[c].from].nonce)
  <2>1. /\ stage[c] = "nonce" /\ stage' = [stage EXCEPT ![c] = "sign"]
        /\ UNCHANGED <<vars, serving, order, chain, guard, wire, answers, executed>>
        /\ nonce' = [nonce EXCEPT ![c] = n]
    BY Zenon, <1>7 DEF ReadNonce, GetTransactionCount, Goto
  <2>2. serving /\ order \in Plans
    BY Zenon, <1>0, <2>1 DEF CallersOK
  <2>3. /\ order[c].via # "other" => n \in NoncesOf(order[c])
        /\ order[c].via = "explorer" => n = accounts[order[c].from].nonce
    <3>1. order[c].via # "other" => accounts[order[c].from].nonce \in Nonces
      BY Zenon, <2>2, OrderSender DEF NonceInv, TypeOK, Account
    <3>2. order[c].via = "explorer" => order[c].nonce = Unset
      BY Zenon, <2>2, OrderedExists
    <3> QED BY Zenon, <3>1, <3>2 DEF NoncesOf, Default
  <2> HIDE DEF n
  <2>4. /\ nonce'[c] = n /\ nonce' = [nonce EXCEPT ![c] = nonce'[c]]
        /\ chain' = [chain EXCEPT ![c] = chain'[c]]
    BY Zenon, <1>0, <2>1
  <2>5. /\ order[c].via = "explorer" => guard' = c
        /\ order[c].via # "other" => chain'[c] = Default(order[c].chain_id, ChainId)
    BY Zenon, <1>0, <2>1 DEF Prepared, GuardHeld
  <2>6. ClientInv'
    BY Zenon, <2>1, <2>2, <2>3, <2>4, <2>5, PrepareStep
  <2> QED BY Zenon, <2>1, <2>6
<1>8. ASSUME NEW c \in Callers, Send(c) \/ SendHandMade(c)
      PROVE  ClientInv' /\ [Next]_vars
  <2>1. /\ stage' = [stage EXCEPT ![c] = "sent"] /\ wire' = wire \cup {c}
        /\ \/ stage[c] = "sign"
           \/ stage[c] = "new" /\ order[c].via = "other" /\ serving
        /\ UNCHANGED <<vars, serving, order, chain, nonce, guard, answers, executed>>
    BY Zenon, <1>8 DEF Send, SendHandMade, Goto
  <2>2. serving
    BY Zenon, <1>0, <2>1 DEF CallersOK
  <2>3. ClientInv'
    BY Zenon, <2>1, <2>2, SendStep
  <2> QED BY Zenon, <2>1, <2>3
<1>9. ASSUME NEW c \in Callers, Printed(c) \/ Refused(c) \/ GiveUp(c)
      PROVE  ClientInv' /\ [Next]_vars
  <2>1. PICK how \in Returned :
          /\ Return(c, how) /\ stage[c] \in {"chain", "nonce", "sent"}
          /\ how # "lost" => \E ok \in BOOLEAN : <<c, ok>> \in answers
          /\ how = "printed" => <<c, TRUE>> \in answers
    BY Zenon, <1>9 DEF Printed, Refused, GiveUp, Answer, Returned
  <2>2. ClientInv'
    BY Zenon, <2>1, ReturnStep
  <2> QED BY Zenon, <2>1, <2>2 DEF Return
<1>10. ASSUME NEW c \in Callers, Handle(c) PROVE ClientInv' /\ [Next]_vars
  <2>1. ClientInv'
    BY Zenon, <1>10, HandleStep
  <2>2. [Next]_vars
    BY Zenon, <1>10, HandleExecutes DEF Next
  <2> QED BY Zenon, <2>1, <2>2
<1> QED
  BY Zenon, <1>1, <1>2, <1>3, <1>4, <1>5, <1>6, <1>7, <1>8, <1>9, <1>10
  DEF ClientNext, ClientStep, TxSend, TransferRequest

(* Nothing was asked before the node is up.                                *)
LEMMA ClientInvInit == ClientInit => ClientInv
<1> SUFFICES ASSUME ClientInit PROVE ClientInv
  BY Zenon
<1>1. /\ executed = {} /\ wire = {} /\ answers = {} /\ serving = FALSE
      /\ \A c \in Callers : stage[c] = "new"
  BY Zenon DEF ClientInit
<1>2. CallersOK /\ SentOnce
  BY Zenon, <1>1 DEF ClientInit, CallersOK, SentOnce
<1>3. Prepared /\ GuardHeld
  BY Zenon, <1>1 DEF Prepared, GuardHeld
<1>4. AnswersAreTrue /\ ExecutedWasSigned /\ ExplorerNonceHolds
  BY Zenon, <1>1 DEF AnswersAreTrue, ExecutedWasSigned, ExplorerNonceHolds
<1> QED BY Zenon, <1>2, <1>3, <1>4 DEF ClientInv

(* The accounts behind the node are accounts of StateMachine: no request   *)
(* reaches them but as a transaction of Txs, applied whole.                *)
THEOREM ClientsUseTheState == ClientSpec => Spec /\ []ClientInv
<1>1. ClientInit => Init /\ ClientInv
  BY Zenon, ClientInvInit DEF ClientInit
<1>2. Init => NonceInv
  BY Zenon, NonceInvInit
<1>3. NonceInv /\ [Next]_vars => NonceInv'
  BY Zenon, NonceInvStep
<1>4. ClientInv /\ NonceInv /\ [ClientNext]_<<vars, clientVars>>
        => ClientInv' /\ [Next]_vars
  BY Zenon, ClientInvStep
<1> QED BY <1>1, <1>2, <1>3, <1>4, PTL DEF ClientSpec, Spec

(* Whatever the callers, the network and the node do, value is conserved.  *)
THEOREM ClientsConserve == ClientSpec => []Conservation
BY ClientsUseTheState, ValueIsConserved, PTL

(* A nonce that a client has read only goes stale by an execution.         *)
THEOREM ClientNoncesCount == ClientSpec => [][NonceStep]_vars
BY ClientsUseTheState, NoncesCountExecutions, PTL

(* The node executes only what the key of the sender signed.               *)
THEOREM NodeNeverSigns == ClientSpec => []ExecutedWasSigned
<1>1. ClientInv => ExecutedWasSigned
  BY Zenon DEF ClientInv
<1> QED BY <1>1, ClientsUseTheState, PTL

(* The nonce an explorer transfer has read stays its sender's next one,    *)
(* but for other programs and abandoned transfers.                         *)
THEOREM LockHoldsTheNonce == ClientSpec => []ExplorerNonceHolds
<1>1. ClientInv => ExplorerNonceHolds
  BY Zenon DEF ClientInv
<1> QED BY <1>1, ClientsUseTheState, PTL

(* A command that printed a hash has paid, and once.                       *)
THEOREM PrintedPaysOnce == ClientSpec => []PrintedIsPaid
<1>1. ClientInv /\ NonceInv => PrintedIsPaid
  <2> SUFFICES ASSUME ClientInv, NonceInv, NEW c \in Callers, stage[c] = "printed",
                      order[c].via # "other"
               PROVE  SignedTx(c) \in executed /\ runs[SignedTx(c)] = 1
    BY Zenon DEF PrintedIsPaid
  <2>1. SignedTx(c) \in executed /\ SignedTx(c) \in Txs /\ runs[SignedTx(c)] > 0
    BY Zenon DEF ClientInv, AnswersAreTrue
  <2>2. runs[SignedTx(c)] <= 1 /\ runs[SignedTx(c)] \in Nat
    BY Zenon, <2>1 DEF NonceInv, TypeOK, SlotSpentOnce
  <2>3. runs[SignedTx(c)] = 1
    BY ONLY <2>1, <2>2
  <2> QED BY Zenon, <2>1, <2>3
<1> QED BY <1>1, ClientsUseTheState, NonceInvHolds, PTL

-----------------------------------------------------------------------------
(* The pool.                                                               *)

(* What makes the rollback exact: the pool is within its capacities and    *)
(* what is pending would be admitted again.                                *)
PoolInv(p) ==
  /\ p \in PoolType
  /\ Indexed(p)
  /\ IsFiniteSet(p.txs)
  /\ Cardinality(p.txs) <= MaxPending
  /\ \A a \in Addrs : SenderLen(p, a) <= MaxPerSender
  /\ \A tx \in p.txs : tx.data <= MaxTxData /\ ~Malformed(tx)

(* A sender has finitely many slots.                                       *)
LEMMA SenderLenType ==
  ASSUME NEW p, NEW a
  PROVE  /\ IsFiniteSet(SenderNonces(p, a))
         /\ SenderLen(p, a) \in Nat
<1>1. IsFiniteSet(Nonces)
  BY FS_Interval, BoundsAssumption DEF Nonces
<1>2. SenderNonces(p, a) \subseteq Nonces
  BY Zenon DEF SenderNonces
<1>3. IsFiniteSet(SenderNonces(p, a))
  BY Zenon, <1>1, <1>2, FS_Subset
<1> QED BY Zenon, <1>3, FS_CardinalityType DEF SenderLen

(* A new pool.                                                             *)
LEMMA EmptyPoolInv == PoolInv(EmptyPool)
<1>1. Cardinality(EmptyPool.txs) = 0 /\ IsFiniteSet(EmptyPool.txs)
  BY Zenon, EmptyPoolFacts, FS_EmptySet
<1>2. ASSUME NEW a \in Addrs PROVE SenderLen(EmptyPool, a) = 0
  <2>1. SenderNonces(EmptyPool, a) = {}
    BY Zenon, EmptyPoolFacts DEF SenderNonces
  <2> QED BY Zenon, <2>1, FS_EmptySet DEF SenderLen
<1> QED BY <1>1, <1>2, EmptyPoolFacts, PoolAssumption DEF PoolInv

(* remove frees a place in the pool and one in the sender's queue.         *)
LEMMA RemoveInv ==
  ASSUME NEW p, PoolInv(p), NEW tx \in p.txs
  PROVE  /\ PoolInv(PoolRemove(p, tx))
         /\ Cardinality(PoolRemove(p, tx).txs) = Cardinality(p.txs) - 1
         /\ SenderLen(PoolRemove(p, tx), tx.from) = SenderLen(p, tx.from) - 1
         /\ PoolRemove(p, tx).txs = p.txs \ {tx}
         /\ \A a \in Addrs, n \in Nonces :
              Slot(PoolRemove(p, tx), a, n) =
                IF a = tx.from /\ n = tx.nonce THEN NoTx ELSE Slot(p, a, n)
<1> DEFINE q == PoolRemove(p, tx)
<1>1. tx \in Txs /\ p \in PoolType /\ Indexed(p)
  BY Zenon DEF PoolInv, PoolType
<1>2. /\ q \in PoolType /\ Indexed(q) /\ q.txs = p.txs \ {tx}
      /\ \A a \in Addrs, n \in Nonces :
           Slot(q, a, n) = IF a = tx.from /\ n = tx.nonce THEN NoTx ELSE Slot(p, a, n)
  BY <1>1, RemoveFacts
<1>3. tx.from \in Addrs /\ tx.nonce \in Nonces
  BY Zenon, <1>1, TxKeys
<1>4. tx.nonce \in SenderNonces(p, tx.from)
  BY Zenon, <1>1, <1>3, PoolAssumption DEF SenderNonces, Indexed
<1> HIDE DEF q
<1>5. /\ IsFiniteSet(q.txs) /\ Cardinality(q.txs) = Cardinality(p.txs) - 1
      /\ Cardinality(p.txs) \in Nat
  <2>1. IsFiniteSet(p.txs) /\ tx \in p.txs /\ q.txs = p.txs \ {tx}
    BY Zenon, <1>2 DEF PoolInv
  <2>2. Cardinality(p.txs) \in Nat
    BY Zenon, <2>1, FS_CardinalityType
  <2>3. /\ IsFiniteSet(p.txs \ {tx})
        /\ Cardinality(p.txs \ {tx}) = Cardinality(p.txs) - 1
    BY Zenon, <2>1, FS_RemoveElement
  <2> QED BY Zenon, <2>1, <2>2, <2>3
<1>6. ASSUME NEW a \in Addrs
      PROVE  SenderNonces(q, a) = IF a = tx.from THEN SenderNonces(p, a) \ {tx.nonce}
                                                 ELSE SenderNonces(p, a)
  BY Zenon, <1>2 DEF SenderNonces
<1>7. SenderLen(q, tx.from) = SenderLen(p, tx.from) - 1
  <2>1. SenderNonces(q, tx.from) = SenderNonces(p, tx.from) \ {tx.nonce}
    BY Zenon, <1>3, <1>6
  <2>2. IsFiniteSet(SenderNonces(p, tx.from))
    BY Zenon, SenderLenType
  <2>3. Cardinality(SenderNonces(p, tx.from) \ {tx.nonce})
          = Cardinality(SenderNonces(p, tx.from)) - 1
    BY Zenon, <1>4, <2>2, FS_RemoveElement
  <2> QED BY Zenon, <2>1, <2>3 DEF SenderLen
<1>8. \A a \in Addrs \ {tx.from} : SenderLen(q, a) = SenderLen(p, a)
  BY Zenon, <1>6 DEF SenderLen
<1>9. \A a \in Addrs : SenderLen(q, a) <= MaxPerSender
  <2>1. /\ SenderLen(p, tx.from) \in Nat /\ MaxPerSender \in Nat
        /\ \A a \in Addrs : SenderLen(p, a) <= MaxPerSender
    BY Zenon, <1>3, SenderLenType, PoolAssumption DEF PoolInv
  <2>2. SenderLen(q, tx.from) <= MaxPerSender
    <3>1. SenderLen(p, tx.from) <= MaxPerSender
      BY Zenon, <1>3, <2>1
    <3> QED BY ONLY <1>7, <2>1, <3>1
  <2> QED BY Zenon, <1>8, <2>1, <2>2
<1>10. /\ Cardinality(q.txs) <= MaxPending
       /\ \A x \in q.txs : x.data <= MaxTxData /\ ~Malformed(x)
  <2>1. /\ Cardinality(p.txs) <= MaxPending /\ MaxPending \in Nat
        /\ \A x \in p.txs : x.data <= MaxTxData /\ ~Malformed(x)
    BY Zenon, PoolAssumption DEF PoolInv
  <2>2. Cardinality(q.txs) <= MaxPending
    BY ONLY <1>5, <2>1
  <2> QED BY Zenon, <1>2, <2>1, <2>2
<1>11. PoolInv(q)
  BY Zenon, <1>2, <1>5, <1>9, <1>10 DEF PoolInv
<1> QED BY Zenon, <1>2, <1>5, <1>7, <1>11 DEF q

(* An insertion into a free slot with room in the pool and in the queue.   *)
LEMMA InsertInv ==
  ASSUME NEW p, PoolInv(p), NEW tx \in Txs, Slot(p, tx.from, tx.nonce) = NoTx,
         Cardinality(p.txs) < MaxPending, SenderLen(p, tx.from) < MaxPerSender,
         tx.data <= MaxTxData, ~Malformed(tx)
  PROVE  PoolInv(PoolInsert(p, tx))
<1> DEFINE q == PoolInsert(p, tx)
<1>1. p \in PoolType /\ Indexed(p) /\ tx.from \in Addrs /\ tx.nonce \in Nonces
  BY Zenon, TxKeys DEF PoolInv
<1>2. /\ q \in PoolType /\ Indexed(q) /\ q.txs = p.txs \cup {tx}
      /\ \A a \in Addrs, n \in Nonces :
           Slot(q, a, n) = IF a = tx.from /\ n = tx.nonce THEN tx ELSE Slot(p, a, n)
  BY Zenon, <1>1, InsertFacts
<1>3. tx \notin p.txs
  BY Zenon, <1>1, PoolAssumption DEF Indexed
<1> HIDE DEF q
<1>4. /\ IsFiniteSet(q.txs) /\ Cardinality(q.txs) = Cardinality(p.txs) + 1
      /\ Cardinality(p.txs) \in Nat
  <2>1. IsFiniteSet(p.txs) /\ tx \notin p.txs /\ q.txs = p.txs \cup {tx}
    BY Zenon, <1>2, <1>3 DEF PoolInv
  <2>2. Cardinality(p.txs) \in Nat
    BY Zenon, <2>1, FS_CardinalityType
  <2>3. /\ IsFiniteSet(p.txs \cup {tx})
        /\ Cardinality(p.txs \cup {tx}) = Cardinality(p.txs) + 1
    BY Zenon, <2>1, FS_AddElement
  <2> QED BY Zenon, <2>1, <2>2, <2>3
<1>5. ASSUME NEW a \in Addrs
      PROVE  SenderNonces(q, a) = IF a = tx.from THEN SenderNonces(p, a) \cup {tx.nonce}
                                                 ELSE SenderNonces(p, a)
  BY Zenon, <1>1, <1>2, PoolAssumption DEF SenderNonces
<1>6. tx.nonce \notin SenderNonces(p, tx.from)
  BY Zenon DEF SenderNonces
<1>7. SenderLen(q, tx.from) = SenderLen(p, tx.from) + 1
  <2>1. SenderNonces(q, tx.from) = SenderNonces(p, tx.from) \cup {tx.nonce}
    BY Zenon, <1>1, <1>5
  <2>2. IsFiniteSet(SenderNonces(p, tx.from))
    BY Zenon, SenderLenType
  <2>3. Cardinality(SenderNonces(p, tx.from) \cup {tx.nonce})
          = Cardinality(SenderNonces(p, tx.from)) + 1
    BY Zenon, <1>6, <2>2, FS_AddElement
  <2> QED BY Zenon, <2>1, <2>3 DEF SenderLen
<1>8. \A a \in Addrs \ {tx.from} : SenderLen(q, a) = SenderLen(p, a)
  BY Zenon, <1>5 DEF SenderLen
<1>9. \A a \in Addrs : SenderLen(q, a) <= MaxPerSender
  <2>1. /\ SenderLen(p, tx.from) \in Nat /\ MaxPerSender \in Nat
        /\ \A a \in Addrs : SenderLen(p, a) <= MaxPerSender
    BY Zenon, <1>1, SenderLenType, PoolAssumption DEF PoolInv
  <2>2. SenderLen(q, tx.from) <= MaxPerSender
    <3>1. SenderLen(p, tx.from) < MaxPerSender
      BY Zenon
    <3> QED BY ONLY <1>7, <2>1, <3>1
  <2> QED BY Zenon, <1>8, <2>1, <2>2
<1>10. /\ Cardinality(q.txs) <= MaxPending
       /\ \A x \in q.txs : x.data <= MaxTxData /\ ~Malformed(x)
  <2>1. /\ Cardinality(p.txs) < MaxPending /\ MaxPending \in Nat
        /\ \A x \in p.txs : x.data <= MaxTxData /\ ~Malformed(x)
    BY Zenon, PoolAssumption DEF PoolInv
  <2>2. Cardinality(q.txs) <= MaxPending
    BY ONLY <1>4, <2>1
  <2> QED BY Zenon, <1>2, <2>1, <2>2
<1>11. PoolInv(q)
  BY Zenon, <1>2, <1>4, <1>9, <1>10 DEF PoolInv
<1> QED BY Zenon, <1>11 DEF q

(* Removing what was just inserted gives the pool back.                    *)
LEMMA InsertRemove ==
  ASSUME NEW p, PoolInv(p), NEW tx \in Txs, Slot(p, tx.from, tx.nonce) = NoTx
  PROVE  PoolRemove(PoolInsert(p, tx), tx) = p
<1> DEFINE q == PoolInsert(p, tx)
           r == PoolRemove(q, tx)
<1>1. p \in PoolType /\ Indexed(p) /\ tx.from \in Addrs /\ tx.nonce \in Nonces
  BY Zenon, TxKeys DEF PoolInv
<1>2. /\ q \in PoolType /\ Indexed(q) /\ q.txs = p.txs \cup {tx}
      /\ \A a \in Addrs, n \in Nonces :
           Slot(q, a, n) = IF a = tx.from /\ n = tx.nonce THEN tx ELSE Slot(p, a, n)
  BY Zenon, <1>1, InsertFacts
<1>3. tx \notin p.txs
  BY Zenon, <1>1, PoolAssumption DEF Indexed
<1> HIDE DEF q
<1>4. /\ r \in PoolType /\ r.txs = q.txs \ {tx}
      /\ \A a \in Addrs, n \in Nonces :
           Slot(r, a, n) = IF tx \in q.txs /\ a = tx.from /\ n = tx.nonce
                             THEN NoTx ELSE Slot(q, a, n)
  BY Zenon, <1>2, RemoveFacts
<1> HIDE DEF r
<1>5. r.txs = p.txs
  BY ZenonT(30), <1>2, <1>3, <1>4
<1>6. \A a \in Addrs, n \in Nonces : Slot(r, a, n) = Slot(p, a, n)
  BY ZenonT(30), <1>2, <1>4
<1>7. r = p
  BY Zenon, <1>1, <1>4, <1>5, <1>6, PoolEquality
<1> QED BY Zenon, <1>7 DEF q, r

(* What is pending, taken out, is admitted again into its place.           *)
LEMMA ReAdd ==
  ASSUME NEW p, PoolInv(p), NEW tx \in p.txs
  PROVE  Add(PoolRemove(p, tx), tx) = p
<1> DEFINE q == PoolRemove(p, tx)
           r == PoolInsert(q, tx)
<1>1. /\ tx \in Txs /\ p \in PoolType /\ Indexed(p) /\ tx # NoTx
      /\ tx.from \in Addrs /\ tx.nonce \in Nonces
      /\ tx.data <= MaxTxData /\ ~Malformed(tx) /\ tx.data \in Nat
      /\ Cardinality(p.txs) \in Nat /\ Cardinality(p.txs) <= MaxPending
      /\ SenderLen(p, tx.from) <= MaxPerSender /\ SenderLen(p, tx.from) \in Nat
  <2>1. tx \in Txs /\ p \in PoolType /\ Indexed(p) /\ tx # NoTx
    BY Zenon, PoolAssumption DEF PoolInv, PoolType
  <2>2. tx.from \in Addrs /\ tx.nonce \in Nonces /\ tx.data \in Nat
    BY Zenon, <2>1, TxsAssumption DEF Transaction
  <2>3. Cardinality(p.txs) \in Nat
    BY Zenon, FS_CardinalityType DEF PoolInv
  <2> QED BY Zenon, <2>1, <2>2, <2>3, SenderLenType DEF PoolInv
<1>2. /\ PoolInv(q) /\ q.txs = p.txs \ {tx}
      /\ Cardinality(q.txs) = Cardinality(p.txs) - 1
      /\ SenderLen(q, tx.from) = SenderLen(p, tx.from) - 1
      /\ \A a \in Addrs, n \in Nonces :
           Slot(q, a, n) = IF a = tx.from /\ n = tx.nonce THEN NoTx ELSE Slot(p, a, n)
  BY Zenon, RemoveInv
<1> HIDE DEF q
<1>3. Slot(q, tx.from, tx.nonce) = NoTx /\ tx \notin q.txs
  BY Zenon, <1>1, <1>2
<1>4. ~(Cardinality(q.txs) >= MaxPending) /\ ~(SenderLen(q, tx.from) >= MaxPerSender)
  <2>1. /\ Cardinality(p.txs) \in Nat /\ Cardinality(p.txs) <= MaxPending
        /\ SenderLen(p, tx.from) <= MaxPerSender /\ SenderLen(p, tx.from) \in Nat
        /\ Cardinality(q.txs) = Cardinality(p.txs) - 1
        /\ SenderLen(q, tx.from) = SenderLen(p, tx.from) - 1
        /\ MaxPending \in Nat /\ MaxPerSender \in Nat
    BY Zenon, <1>1, <1>2, PoolAssumption
  <2> QED BY ONLY <2>1
<1>5. ~SenderQueueFull(q, tx) /\ ~Outbid(q, tx)
  BY Zenon, <1>3, <1>4 DEF SenderQueueFull, Outbid
<1>6. ~(tx.data > MaxTxData)
  BY <1>1, PoolAssumption
<1>7. Admit(q, tx) = Enter(q, tx)
  BY Zenon, <1>1, <1>3, <1>5, <1>6 DEF Admit
<1>8. Enter(q, tx).pool = r
  BY Zenon, <1>3, <1>4 DEF Enter
<1>9. Add(q, tx) = r
  BY Zenon, <1>1, <1>7, <1>8 DEF Add
<1>10. q \in PoolType /\ Indexed(q)
  BY Zenon, <1>2 DEF PoolInv
<1>11. /\ r \in PoolType /\ r.txs = q.txs \cup {tx}
       /\ \A a \in Addrs, n \in Nonces :
            Slot(r, a, n) = IF a = tx.from /\ n = tx.nonce THEN tx ELSE Slot(q, a, n)
  BY Zenon, <1>1, <1>3, <1>10, InsertFacts
<1> HIDE DEF r
<1>12. r.txs = p.txs
  BY ZenonT(30), <1>2, <1>11
<1>13. Slot(p, tx.from, tx.nonce) = tx
  BY Zenon, <1>1 DEF Indexed
<1>14. \A a \in Addrs, n \in Nonces : Slot(r, a, n) = Slot(p, a, n)
  BY ZenonT(30), <1>2, <1>11, <1>13
<1>15. r = p
  BY Zenon, <1>1, <1>11, <1>12, <1>14, PoolEquality
<1> QED BY Zenon, <1>9, <1>15 DEF q

(* There is a transaction to evict: the order is total, so that a finite   *)
(* set that is not empty has a lowest element.                             *)
LEMMA VictimIsPending ==
  ASSUME NEW S, S \subseteq Txs, IsFiniteSet(S), S # {}
  PROVE  /\ LowestPriority(S) \in S
         /\ \A other \in S : LowerPriority(LowestPriority(S), other)
<1> DEFINE HasLowest(T) == \E tx \in T : \A other \in T : LowerPriority(tx, other)
           Bad == {T \in SUBSET S : T # {} /\ ~HasLowest(T)}
<1>0. \A tx \in S : tx.gas_price \in Nat /\ tx.nonce \in Nat /\ tx.hash \in Nat
  BY TxFields, BoundsAssumption DEF Amounts, Nonces
<1>1. SUFFICES ASSUME Bad # {} PROVE FALSE
  <2>1. HasLowest(S)
    BY Zenon, <1>1
  <2> QED BY Zenon, <2>1 DEF LowestPriority
<1>2. /\ Bad \subseteq SUBSET S
      /\ \A T \in Bad : T # {} /\ ~HasLowest(T)
      /\ \A T \in SUBSET S : T # {} /\ T \notin Bad => HasLowest(T)
  BY Zenon
<1> HIDE DEF Bad
<1>3. PICK T \in Bad : \A U \in Bad : U \subseteq T => U = T
  BY <1>1, <1>2, MinimalSubset
<1>4. PICK x \in T : TRUE
  BY Zenon, <1>2, <1>3
<1>5. T \subseteq S
  BY Zenon, <1>2, <1>3
<1>6. CASE T = {x}
  <2>1. LowerPriority(x, x)
    BY <1>0, <1>4, <1>5 DEF LowerPriority
  <2>2. HasLowest(T)
    BY Zenon, <1>6, <2>1
  <2> QED BY Zenon, <1>2, <1>3, <2>2
<1>7. CASE T # {x}
  <2>1. T \ {x} # {} /\ T \ {x} \notin Bad
    BY Zenon, <1>3, <1>4, <1>7
  <2>2. HasLowest(T \ {x})
    BY Zenon, <1>2, <1>5, <2>1
  <2>3. PICK y \in T \ {x} : \A other \in T \ {x} : LowerPriority(y, other)
    BY Zenon, <2>2
  <2>4. CASE LowerPriority(x, y)
    <3>1. ASSUME NEW z \in T PROVE LowerPriority(x, z)
      <4>1. CASE z = x
        BY <1>0, <1>4, <1>5, <4>1 DEF LowerPriority
      <4>2. CASE z # x
        <5>1. LowerPriority(y, z)
          BY Zenon, <2>3, <4>2
        <5> QED BY <1>0, <1>4, <1>5, <2>3, <2>4, <5>1 DEF LowerPriority
      <4> QED BY Zenon, <4>1, <4>2
    <3> QED BY Zenon, <1>2, <1>3, <1>4, <3>1
  <2>5. CASE ~LowerPriority(x, y)
    <3>1. LowerPriority(y, x)
      BY <1>0, <1>4, <1>5, <2>3, <2>5 DEF LowerPriority
    <3>2. \A z \in T : LowerPriority(y, z)
      BY Zenon, <2>3, <3>1
    <3> QED BY Zenon, <1>2, <1>3, <2>3, <3>2
  <2> QED BY Zenon, <2>4, <2>5
<1> QED BY Zenon, <1>6, <1>7

(* The place that Enter makes before it inserts: the slot is free, and the *)
(* pool and the queue have room; and what restore_pool needs to undo it.   *)
LEMMA EnterFacts ==
  ASSUME NEW p, PoolInv(p), NEW tx \in Txs, tx \notin p.txs, ~SenderQueueFull(p, tx)
  PROVE  LET existing == Slot(p, tx.from, tx.nonce)
         IN  \E room :
               /\ PoolInv(room)
               /\ Slot(room, tx.from, tx.nonce) = NoTx
               /\ Cardinality(room.txs) < MaxPending
               /\ SenderLen(room, tx.from) < MaxPerSender
               /\ Enter(p, tx).pool = PoolInsert(room, tx)
               /\ \/ existing = NoTx /\ Enter(p, tx).displaced = NoTx /\ room = p
                  \/ /\ existing \in p.txs /\ Enter(p, tx).displaced = existing
                     /\ room = PoolRemove(p, existing)
                  \/ /\ existing = NoTx /\ Enter(p, tx).displaced \in p.txs
                     /\ room = PoolRemove(p, Enter(p, tx).displaced)
<1> DEFINE existing == Slot(p, tx.from, tx.nonce)
<1>1. tx.from \in Addrs /\ tx.nonce \in Nonces
  BY Zenon, TxKeys
<1>2. Indexed(p) /\ IsFiniteSet(p.txs) /\ p.txs \subseteq Txs
  BY Zenon DEF PoolInv, PoolType
<1>3. Cardinality(p.txs) \in Nat /\ Cardinality(p.txs) <= MaxPending
  BY Zenon, <1>2, FS_CardinalityType DEF PoolInv
<1>4. SenderLen(p, tx.from) \in Nat /\ SenderLen(p, tx.from) <= MaxPerSender
  BY Zenon, <1>1, SenderLenType DEF PoolInv
<1>5. MaxPending \in Nat /\ MaxPending # 0 /\ MaxPerSender \in Nat
  BY Zenon, PoolAssumption
<1>6. existing = NoTx => SenderLen(p, tx.from) < MaxPerSender
  <2>1. existing = NoTx => ~(SenderLen(p, tx.from) >= MaxPerSender)
    BY Zenon DEF SenderQueueFull
  <2> QED BY <1>4, <1>5, <2>1
<1>7. CASE existing # NoTx
  <2> DEFINE room == PoolRemove(p, existing)
  <2>1. existing \in p.txs /\ existing.from = tx.from /\ existing.nonce = tx.nonce
    BY Zenon, <1>1, <1>2, <1>7 DEF Indexed
  <2>2. /\ PoolInv(room)
        /\ Cardinality(room.txs) = Cardinality(p.txs) - 1
        /\ SenderLen(room, existing.from) = SenderLen(p, existing.from) - 1
        /\ \A a \in Addrs, n \in Nonces :
             Slot(room, a, n) = IF a = existing.from /\ n = existing.nonce
                                  THEN NoTx ELSE Slot(p, a, n)
    BY Zenon, <2>1, RemoveInv
  <2>3. Slot(room, tx.from, tx.nonce) = NoTx
    BY Zenon, <1>1, <2>1, <2>2
  <2>a. Cardinality(room.txs) = Cardinality(p.txs) - 1
    BY Zenon, <2>2
  <2>4. ~(Cardinality(room.txs) >= MaxPending) /\ Cardinality(room.txs) < MaxPending
    BY ONLY <1>3, <1>5, <2>a
  <2>5. Enter(p, tx).pool = PoolInsert(room, tx) /\ Enter(p, tx).displaced = existing
    BY Zenon, <1>7, <2>4 DEF Enter
  <2>6. SenderLen(room, tx.from) = SenderLen(p, tx.from) - 1
    BY Zenon, <2>1, <2>2
  <2>7. SenderLen(room, tx.from) < MaxPerSender
    BY ONLY <1>4, <1>5, <2>6
  <2>8. PoolInv(room)
    BY Zenon, <2>2
  <2> HIDE DEF room
  <2>9. room = PoolRemove(p, existing)
    BY Zenon DEF room
  <2> QED BY Zenon, <2>1, <2>3, <2>4, <2>5, <2>7, <2>8, <2>9
<1>8. CASE existing = NoTx /\ ~(Cardinality(p.txs) >= MaxPending)
  <2>1. Enter(p, tx).pool = PoolInsert(p, tx) /\ Enter(p, tx).displaced = NoTx
    BY Zenon, <1>8 DEF Enter
  <2>2. Cardinality(p.txs) < MaxPending
    BY ONLY <1>3, <1>5, <1>8
  <2> QED BY Zenon, <1>6, <1>8, <2>1, <2>2
<1>9. CASE existing = NoTx /\ Cardinality(p.txs) >= MaxPending
  <2> DEFINE victim == LowestPriority(p.txs)
             room == PoolRemove(p, victim)
  <2>1. Cardinality(p.txs) # 0
    BY ONLY <1>3, <1>5, <1>9
  <2>2. p.txs # {}
    BY Zenon, <2>1, FS_EmptySet
  <2>3. victim \in p.txs
    BY Zenon, <1>2, <2>2, VictimIsPending
  <2>4. Enter(p, tx).pool = PoolInsert(room, tx) /\ Enter(p, tx).displaced = victim
    BY Zenon, <1>9 DEF Enter
  <2> HIDE DEF victim
  <2>5. /\ PoolInv(room)
        /\ Cardinality(room.txs) = Cardinality(p.txs) - 1
        /\ \A a \in Addrs, n \in Nonces :
             Slot(room, a, n) = IF a = victim.from /\ n = victim.nonce
                                  THEN NoTx ELSE Slot(p, a, n)
    BY Zenon, <2>3, RemoveInv
  <2>6. /\ Slot(room, tx.from, tx.nonce) = NoTx
        /\ \A n \in Nonces : Slot(room, tx.from, n) # NoTx => Slot(p, tx.from, n) # NoTx
    BY Zenon, <1>1, <1>9, <2>5
  <2> HIDE DEF room
  <2>7. SenderNonces(room, tx.from) \subseteq SenderNonces(p, tx.from)
    BY Zenon, <2>6 DEF SenderNonces
  <2>8. SenderLen(room, tx.from) <= SenderLen(p, tx.from) /\ SenderLen(room, tx.from) \in Nat
    BY Zenon, <2>7, SenderLenType, FS_Subset DEF SenderLen
  <2>9. SenderLen(room, tx.from) < MaxPerSender
    BY ONLY <1>4, <1>5, <1>6, <1>9, <2>8
  <2>b. Cardinality(room.txs) = Cardinality(p.txs) - 1
    BY Zenon, <2>5
  <2>10. Cardinality(room.txs) < MaxPending
    BY ONLY <1>3, <1>5, <2>b
  <2>11. room = PoolRemove(p, Enter(p, tx).displaced) /\ Enter(p, tx).displaced \in p.txs
    BY Zenon, <2>3, <2>4 DEF room
  <2> QED BY Zenon, <1>9, <2>4, <2>5, <2>6, <2>9, <2>10, <2>11
<1> QED BY Zenon, <1>7, <1>8, <1>9

(* admit keeps the invariant, whatever it answers, and its rollback is     *)
(* exact.                                                                  *)
LEMMA AdmitInv ==
  ASSUME NEW p, PoolInv(p), NEW tx \in Txs
  PROVE  /\ PoolInv(Admit(p, tx).pool)
         /\ Admit(p, tx).outcome = "accepted" =>
              RestorePool(Admit(p, tx).pool, tx, Slot(p, tx.from, tx.nonce),
                          Admit(p, tx).displaced) = p
<1> DEFINE existing == Slot(p, tx.from, tx.nonce)
<1>0. /\ tx.data \in Nat /\ MaxTxData \in Nat /\ Indexed(p) /\ p \in PoolType
      /\ tx # NoTx /\ NoTx \notin p.txs
  BY Zenon, TxsAssumption, PoolAssumption DEF Transaction, PoolInv, PoolType
<1>1. CASE tx.data <= MaxTxData /\ tx \in p.txs
  <2>1. Admit(p, tx).pool = p /\ Admit(p, tx).displaced = NoTx
    BY Zenon, <1>1 DEF Admit
  <2>2. existing = tx
    BY Zenon, <1>0, <1>1 DEF Indexed
  <2>3. RestorePool(p, tx, tx, NoTx) = Add(PoolRemove(p, tx), tx)
    BY Zenon DEF RestorePool, Add
  <2>4. Add(PoolRemove(p, tx), tx) = p
    BY Zenon, <1>1, ReAdd
  <2> QED BY Zenon, <2>1, <2>2, <2>3, <2>4
<1>2. CASE /\ ~(tx.data <= MaxTxData /\ tx \in p.txs)
           /\ \/ tx.data > MaxTxData \/ Malformed(tx) \/ SenderQueueFull(p, tx)
              \/ Outbid(p, tx)
  <2>1. Admit(p, tx).pool = p /\ Admit(p, tx).outcome # "accepted"
    BY Zenon, <1>2 DEF Admit
  <2> QED BY Zenon, <2>1
<1>3. CASE /\ ~(tx.data <= MaxTxData /\ tx \in p.txs)
           /\ ~(tx.data > MaxTxData \/ Malformed(tx) \/ SenderQueueFull(p, tx))
           /\ ~Outbid(p, tx)
  <2>1. Admit(p, tx) = Enter(p, tx)
    BY Zenon, <1>3 DEF Admit
  <2>2. tx.data <= MaxTxData /\ ~Malformed(tx) /\ tx \notin p.txs
    BY <1>0, <1>3
  <2>3. PICK room :
          /\ PoolInv(room)
          /\ Slot(room, tx.from, tx.nonce) = NoTx
          /\ Cardinality(room.txs) < MaxPending
          /\ SenderLen(room, tx.from) < MaxPerSender
          /\ Enter(p, tx).pool = PoolInsert(room, tx)
          /\ \/ existing = NoTx /\ Enter(p, tx).displaced = NoTx /\ room = p
             \/ /\ existing \in p.txs /\ Enter(p, tx).displaced = existing
                /\ room = PoolRemove(p, existing)
             \/ /\ existing = NoTx /\ Enter(p, tx).displaced \in p.txs
                /\ room = PoolRemove(p, Enter(p, tx).displaced)
    BY Zenon, <1>3, <2>2, EnterFacts
  <2>4. PoolInv(Admit(p, tx).pool)
    BY Zenon, <2>1, <2>2, <2>3, InsertInv
  <2> DEFINE displaced == Enter(p, tx).displaced
  <2>5. PoolRemove(Enter(p, tx).pool, tx) = room
    BY Zenon, <2>3, InsertRemove
  <2>6. RestorePool(Enter(p, tx).pool, tx, existing, displaced)
          = Add(Add(room, existing), displaced)
    BY Zenon, <2>5 DEF RestorePool
  <2>7. CASE existing = NoTx /\ displaced = NoTx /\ room = p
    BY Zenon, <2>1, <2>4, <2>6, <2>7 DEF Add
  <2>8. CASE existing \in p.txs /\ displaced = existing /\ room = PoolRemove(p, existing)
    <3>1. Add(room, existing) = p
      BY Zenon, <2>8, ReAdd
    <3>2. existing.data <= MaxTxData
      BY Zenon, <2>8 DEF PoolInv
    <3>3. Add(p, existing) = p
      BY Zenon, <2>8, <3>2 DEF Add, Admit
    <3> QED BY Zenon, <2>1, <2>4, <2>6, <2>8, <3>1, <3>3
  <2>9. CASE existing = NoTx /\ displaced \in p.txs /\ room = PoolRemove(p, displaced)
    <3>1. Add(room, existing) = room
      BY Zenon, <2>9 DEF Add
    <3>2. Add(room, displaced) = p
      BY Zenon, <2>9, ReAdd
    <3> QED BY Zenon, <2>1, <2>4, <2>6, <3>1, <3>2
  <2> QED BY Zenon, <2>3, <2>7, <2>8, <2>9
<1> QED BY Zenon, <1>1, <1>2, <1>3

(* prune_below_nonce drops the stale slots of one sender from both maps.   *)
LEMMA PruneInv ==
  ASSUME NEW p, PoolInv(p), NEW a \in Addrs, NEW next \in Nonces
  PROVE  PoolInv(PruneBelowNonce(p, a, next))
<1> DEFINE stale == {n \in SenderNonces(p, a) : n < next}
           gone == {Slot(p, a, n) : n \in stale}
           q == PruneBelowNonce(p, a, next)
<1>1. p \in PoolType /\ Indexed(p)
  BY Zenon DEF PoolInv
<1>2. q.txs = p.txs \ gone
  BY Zenon DEF PruneBelowNonce
<1>3. /\ q \in PoolType
      /\ \A b \in Addrs, n \in Nonces :
           Slot(q, b, n) = IF b = a /\ n \in stale THEN NoTx ELSE Slot(p, b, n)
  BY <1>1 DEF PruneBelowNonce, PoolType, Slot
<1>4. \A n \in stale : n \in Nonces /\ Slot(p, a, n) # NoTx
  BY Zenon DEF SenderNonces
<1> HIDE DEF q, stale
<1>5. Indexed(q)
  <2>1. ASSUME NEW tx \in q.txs PROVE Slot(q, tx.from, tx.nonce) = tx
    <3>1. tx \in p.txs /\ tx \notin gone /\ Slot(p, tx.from, tx.nonce) = tx
      BY Zenon, <1>1, <1>2, <2>1 DEF Indexed
    <3>2. tx.from \in Addrs /\ tx.nonce \in Nonces
      BY Zenon, <1>1, <3>1, TxKeys DEF PoolType
    <3>3. ~(tx.from = a /\ tx.nonce \in stale)
      BY Zenon, <3>1
    <3> QED BY Zenon, <1>3, <3>1, <3>2, <3>3
  <2>2. ASSUME NEW b \in Addrs, NEW n \in Nonces, Slot(q, b, n) # NoTx
        PROVE  /\ Slot(q, b, n) \in q.txs
               /\ Slot(q, b, n).from = b /\ Slot(q, b, n).nonce = n
    <3>1. ~(b = a /\ n \in stale) /\ Slot(q, b, n) = Slot(p, b, n)
      BY Zenon, <1>3, <2>2
    <3>2. /\ Slot(p, b, n) \in p.txs
          /\ Slot(p, b, n).from = b /\ Slot(p, b, n).nonce = n
      BY Zenon, <1>1, <2>2, <3>1 DEF Indexed
    <3>3. \A m \in stale : Slot(p, a, m).from = a /\ Slot(p, a, m).nonce = m
      BY Zenon, <1>1, <1>4 DEF Indexed
    <3>4. Slot(p, b, n) \notin gone
      BY Zenon, <3>1, <3>2, <3>3
    <3> QED BY Zenon, <1>2, <3>1, <3>2, <3>4
  <2> QED BY Zenon, <2>1, <2>2 DEF Indexed
<1>6. /\ q.txs \subseteq p.txs /\ IsFiniteSet(p.txs) /\ IsFiniteSet(q.txs)
      /\ Cardinality(q.txs) <= Cardinality(p.txs)
  BY Zenon, <1>2, FS_Subset DEF PoolInv
<1>7. Cardinality(q.txs) <= MaxPending
  BY <1>6, FS_CardinalityType, PoolAssumption DEF PoolInv
<1>8. ASSUME NEW b \in Addrs PROVE SenderLen(q, b) <= MaxPerSender
  <2>1. SenderNonces(q, b) \subseteq SenderNonces(p, b)
    BY Zenon, <1>3 DEF SenderNonces
  <2>2. SenderLen(q, b) <= SenderLen(p, b)
    BY Zenon, <2>1, SenderLenType, FS_Subset DEF SenderLen
  <2> QED BY <2>2, SenderLenType, PoolAssumption DEF PoolInv
<1>9. PoolInv(q)
  BY Zenon, <1>3, <1>5, <1>6, <1>7, <1>8 DEF PoolInv
<1> QED BY Zenon, <1>9 DEF q

(* Every sequence of calls of the pool's mutators keeps the invariant.     *)
THEOREM PoolInvHolds == MempoolSpec => []PoolInv(pool)
<1>1. MempoolInit => PoolInv(pool)
  BY Zenon, EmptyPoolInv DEF MempoolInit
<1>2. PoolInv(pool) /\ [MempoolNext]_pool => PoolInv(pool)'
  <2> SUFFICES ASSUME PoolInv(pool), [MempoolNext]_pool PROVE PoolInv(pool')
    BY Zenon
  <2>1. ASSUME NEW tx \in Txs, AdmitTx(tx) PROVE PoolInv(pool')
    BY Zenon, <2>1, AdmitInv DEF AdmitTx
  <2>2. ASSUME NEW tx \in Txs, RemoveTx(tx) PROVE PoolInv(pool')
    <3>1. CASE tx \in pool.txs
      BY Zenon, <2>2, <3>1, RemoveInv DEF RemoveTx
    <3>2. CASE tx \notin pool.txs
      BY Zenon, <2>2, <3>2 DEF RemoveTx, PoolRemove
    <3> QED BY Zenon, <3>1, <3>2
  <2>3. ASSUME NEW tx \in Txs, SubmitFails(tx) PROVE PoolInv(pool')
    <3>1. pool' = pool
      BY Zenon, <2>3, AdmitInv DEF SubmitFails
    <3> QED BY Zenon, <3>1
  <2>4. ASSUME NEW a \in Addrs, NEW next \in Nonces, Prune(a, next)
        PROVE  PoolInv(pool')
    BY Zenon, <2>4, PruneInv DEF Prune
  <2>5. CASE pool' = pool
    BY Zenon, <2>5
  <2> QED BY Zenon, <2>1, <2>2, <2>3, <2>4, <2>5 DEF MempoolNext
<1> QED BY <1>1, <1>2, PTL DEF MempoolSpec

(* The two maps of the pool always describe the same transactions.         *)
THEOREM PoolIsIndexed == MempoolSpec => []IndexConsistent
<1>1. PoolInv(pool) => IndexConsistent
  BY Zenon DEF PoolInv, Indexed, IndexConsistent
<1> QED BY <1>1, PoolInvHolds, PTL

(* No sequence of calls makes the pool or a sender's queue too long.       *)
THEOREM PoolKeepsCapacity == MempoolSpec => []CapacityKept
<1>1. PoolInv(pool) => CapacityKept
  BY Zenon DEF PoolInv, CapacityKept
<1> QED BY <1>1, PoolInvHolds, PTL

(* In every reachable pool, a failed submission is undone without a trace. *)
THEOREM PoolRollsBack == MempoolSpec => []RollbackExact
<1>1. PoolInv(pool) => RollbackExact
  BY Zenon, AdmitInv DEF RollbackExact
<1> QED BY <1>1, PoolInvHolds, PTL

(* Whatever admit would push out of the pool is the one transaction it     *)
(* reports: the owner of the slot, outbid by the new one, or, when the     *)
(* pool is full, one that pays no more than any other.                     *)
DisplacedIsWorst ==
  \A tx \in Txs : \A gone \in pool.txs \ Admit(pool, tx).pool.txs :
    /\ gone = Admit(pool, tx).displaced
    /\ \/ /\ gone.from = tx.from /\ gone.nonce = tx.nonce
          /\ gone.gas_price < tx.gas_price
       \/ /\ Cardinality(pool.txs) = MaxPending
          /\ \A other \in pool.txs : gone.gas_price <= other.gas_price

LEMMA AdmitDisplaces ==
  ASSUME NEW p, PoolInv(p), NEW tx \in Txs, NEW gone \in p.txs \ Admit(p, tx).pool.txs
  PROVE  /\ gone = Admit(p, tx).displaced
         /\ \/ /\ gone.from = tx.from /\ gone.nonce = tx.nonce
               /\ gone.gas_price < tx.gas_price
            \/ /\ Cardinality(p.txs) = MaxPending
               /\ \A other \in p.txs : gone.gas_price <= other.gas_price
<1> DEFINE existing == Slot(p, tx.from, tx.nonce)
           displaced == Enter(p, tx).displaced
<1>1. Admit(p, tx).pool # p
  BY Zenon
<1>2. /\ Admit(p, tx) = Enter(p, tx) /\ ~SenderQueueFull(p, tx) /\ ~Outbid(p, tx)
      /\ tx.data \in Nat /\ MaxTxData \in Nat
      /\ ~(tx.data <= MaxTxData /\ tx \in p.txs) /\ ~(tx.data > MaxTxData)
  BY Zenon, <1>1, TxsAssumption, PoolAssumption DEF Admit, Transaction
<1>3. tx \notin p.txs
  BY <1>2
<1>4. /\ Indexed(p) /\ IsFiniteSet(p.txs) /\ p.txs \subseteq Txs /\ NoTx \notin p.txs
      /\ tx.from \in Addrs /\ tx.nonce \in Nonces
  BY Zenon, PoolAssumption, TxKeys DEF PoolInv, PoolType
<1>5. PICK room :
        /\ Enter(p, tx).pool = PoolInsert(room, tx)
        /\ \/ existing = NoTx /\ displaced = NoTx /\ room = p
           \/ existing \in p.txs /\ displaced = existing /\ room = PoolRemove(p, existing)
           \/ existing = NoTx /\ displaced \in p.txs /\ room = PoolRemove(p, displaced)
  BY Zenon, <1>2, <1>3, EnterFacts
<1>6. Admit(p, tx).pool.txs = room.txs \cup {tx}
  <2>1. PoolInsert(room, tx).txs = room.txs \cup {tx}
    BY ONLY Zenon DEF PoolInsert
  <2> QED BY Zenon, <1>2, <1>5, <2>1
<1>7. room # p /\ displaced \in p.txs /\ room = PoolRemove(p, displaced)
  BY Zenon, <1>5, <1>6
<1>8. gone = displaced
  <2>1. room.txs = p.txs \ {displaced}
    BY Zenon, <1>7 DEF PoolRemove
  <2> QED BY Zenon, <1>6, <2>1
<1>9. \A x \in Txs : x.gas_price \in Nat
  BY TxFields, BoundsAssumption DEF Amounts
<1>10. CASE existing # NoTx
  <2>1. gone = existing /\ existing.from = tx.from /\ existing.nonce = tx.nonce
    BY Zenon, <1>4, <1>5, <1>8, <1>10 DEF Indexed
  <2>2. ~(tx.gas_price <= existing.gas_price)
    BY Zenon, <1>2, <1>10 DEF Outbid
  <2>3. gone \in Txs /\ gone.gas_price \in Nat /\ tx.gas_price \in Nat
    BY Zenon, <1>4, <1>9
  <2>4. gone.gas_price < tx.gas_price
    BY ONLY <2>1, <2>2, <2>3
  <2> QED BY Zenon, <1>2, <1>8, <2>1, <2>4
<1>11. CASE existing = NoTx
  <2>1. Cardinality(p.txs) >= MaxPending /\ displaced = LowestPriority(p.txs)
    BY Zenon, <1>4, <1>7, <1>11 DEF Enter
  <2>2. Cardinality(p.txs) \in Nat /\ Cardinality(p.txs) <= MaxPending /\ MaxPending \in Nat
    BY Zenon, <1>4, FS_CardinalityType, PoolAssumption DEF PoolInv
  <2>3. Cardinality(p.txs) = MaxPending
    BY ONLY <2>1, <2>2
  <2>4. ASSUME NEW other \in p.txs PROVE gone.gas_price <= other.gas_price
    <3>1. LowerPriority(gone, other)
      BY Zenon, <1>4, <1>8, <2>1, VictimIsPending
    <3>2. gone.gas_price \in Nat /\ other.gas_price \in Nat
      BY Zenon, <1>4, <1>9
    <3> QED BY <3>1, <3>2 DEF LowerPriority
  <2> QED BY Zenon, <1>2, <1>8, <2>3, <2>4
<1> QED BY Zenon, <1>10, <1>11

(* An admission never costs a pending transaction its place but for a      *)
(* better offer for the same nonce or, in a full pool, as a cheapest one.  *)
THEOREM PoolDropsTheCheapest == MempoolSpec => []DisplacedIsWorst
<1>1. PoolInv(pool) => DisplacedIsWorst
  BY Zenon, AdmitDisplaces DEF DisplacedIsWorst
<1> QED BY <1>1, PoolInvHolds, PTL

=============================================================================
