------------------------------ MODULE Clients ------------------------------
(***************************************************************************)
(* The programs that pay through a node: `subhost tx send`                 *)
(* (crates/subhost-cli), the explorer's transfer endpoint                  *)
(* (explorer/src/main.rs) and whoever else calls eth_sendTransaction, with *)
(* the request decoding and the signature gate of crates/subhost-rpc.  The *)
(* accounts behind the node are those of StateMachine, which run until the *)
(* node is started on some state that they reach.                          *)
(*                                                                         *)
(* A caller is one command or one HTTP request; a retry is another caller. *)
(* Each of its calls of the node is a step, eth_sendTransaction one to     *)
(* ask, one at the node and one to be answered; calls may be answered late *)
(* or never.  A commit, which module Node takes apart, is one step.        *)
(* Wallets open (module Home says when they do not).                       *)
(***************************************************************************)
EXTENDS StateMachine

CONSTANTS
  Worlds,            \* the accounts that the node is started on
  Callers,           \* the commands and requests of one behaviour
  Plans,             \* what they may be asked to do, one order for each
  Unset,             \* an option or a field that was left out
  NoCaller,          \* the explorer's transfer lock is free
  PoolMinGasPrice,   \* of the node's pool
  BlockGasLimit,     \* of the node's blocks
  DefaultGasLimit,   \* DEFAULT_TX_GAS_LIMIT
  TransferGasLimit   \* TRANSFER_GAS_LIMIT

ASSUME ClientsAssumption ==
  /\ NoCaller \notin Callers
  /\ Unset \notin Nat \cup Addrs \cup {NoAddr}
  /\ {PoolMinGasPrice, BlockGasLimit, DefaultGasLimit, TransferGasLimit}
       \subseteq Nat

VARIABLES
  serving,   \* whether the node is up
  stage,     \* where each caller is
  order,     \* what it is asked to do: a payment by the command line or the
             \* explorer, or a request that another program made itself
  chain,     \* the chain it signs for
  nonce,     \* the nonce it signs with
  guard,     \* ExplorerState::transfer_lock: its holder
  wire,      \* the callers whose request is on its way to the node
  answers,   \* the node's answers on their way back
  executed   \* history: the transactions the node executed while serving

clientVars == <<serving, stage, order, chain, nonce, guard, wire, answers, executed>>

Returned == {"printed", "refused", "lost"}

-----------------------------------------------------------------------------
(* Requests.  A signature is the key that made it and what it signs; a key *)
(* is named by the address it controls.                                    *)

HasFields(tx, from, to, value, n, price, gas, id) ==
  /\ tx.from = from /\ tx.to = to /\ tx.value = value /\ tx.nonce = n
  /\ tx.gas_price = price /\ tx.gas_limit = gas /\ tx.chain_id = id
  /\ tx.tx_type = "Transfer" /\ tx.data = 0

(* The transaction of the given fields: the hash is over all of them.      *)
TxOf(from, to, value, n, price, gas, id) ==
  CHOOSE tx \in Txs : HasFields(tx, from, to, value, n, price, gas, id)

Default(field, value) == IF field = Unset THEN value ELSE field

(* Txs has every transaction that an order can lead to: the payments, for  *)
(* each nonce the caller may read, and what a request made by hand decodes *)
(* to.  A transfer of the explorer has no field for the nonce.             *)
ASSUME PlansAssumption ==
  \A plan \in Plans : \A c \in Callers :
    LET o == plan[c]
    IN  IF o.via = "other"
        THEN LET r == o.request
             IN  /\ r.from # Unset /\ r.to # Unset =>
                      \E tx \in Txs :
                        HasFields(tx, r.from, r.to, Default(r.value, 0),
                                  Default(r.nonce, 0), Default(r.gasPrice, 1),
                                  Default(r.gas, DefaultGasLimit), ChainId)
                 /\ \/ r.signature = Unset
                    \/ r.signature = [key |-> r.signature.key,
                                      payload |-> r.signature.payload]
        ELSE /\ o.via \in {"cli", "explorer"}
             /\ o.via = "explorer" => o.nonce = Unset
             /\ \A n \in IF o.nonce = Unset THEN Nonces ELSE {o.nonce} :
                  \E tx \in Txs :
                    HasFields(tx, o.from, o.to, o.amount, n, o.gas_price,
                              TransferGasLimit, Default(o.chain_id, ChainId))

SignedTx(c) ==
  TxOf(order[c].from, order[c].to, order[c].amount, nonce[c], order[c].gas_price,
       TransferGasLimit, chain[c])

(* The parameter object of eth_sendTransaction.                            *)
Request(c) ==
  IF order[c].via = "other" THEN order[c].request
  ELSE [from |-> order[c].from, to |-> order[c].to, value |-> order[c].amount,
        nonce |-> nonce[c], gasPrice |-> order[c].gas_price,
        gas |-> TransferGasLimit, chainId |-> chain[c], publicKey |-> order[c].from,
        signature |-> [key |-> order[c].from, payload |-> SignedTx(c)]]

(* transaction_from_params: fields that were left out get their defaults.  *)
Decodes(req) ==
  /\ req.from # Unset
  /\ Default(req.chainId, ChainId) = ChainId
  /\ req.to # Unset

TransactionFromParams(req) ==
  TxOf(req.from, req.to, Default(req.value, 0), Default(req.nonce, 0),
       Default(req.gasPrice, 1), Default(req.gas, DefaultGasLimit), ChainId)

(* fixed_hex: without the two fields nothing is verified.                  *)
CarriesSignature(req) == Unset \notin {req.publicKey, req.signature}

(* Mutant of Verifies: the key is not bound to the sender.                 *)
VerifiesAnySigner(req) ==
  /\ CarriesSignature(req)
  /\ req.signature.key = req.publicKey
  /\ req.signature.payload = TransactionFromParams(req)

(* verify_transaction_signature.                                           *)
Verifies(req) ==
  /\ CarriesSignature(req)
  /\ req.publicKey = req.from
  /\ req.signature.key = req.publicKey
  /\ req.signature.payload = TransactionFromParams(req)

(* submit_transaction, outside of which the pool is empty.                 *)
Commits(tx) ==
  /\ tx.gas_price >= PoolMinGasPrice
  /\ tx.gas_limit <= BlockGasLimit
  /\ ApplyTransaction(accounts, tx).ok

Accepts(req) ==
  Decodes(req) /\ Verifies(req) /\ Commits(TransactionFromParams(req))

-----------------------------------------------------------------------------

ClientInit ==
  /\ Init
  /\ serving = FALSE
  /\ stage = [c \in Callers |-> "new"]
  /\ order = [c \in Callers |-> Unset]
  /\ chain = [c \in Callers |-> Unset]
  /\ nonce = [c \in Callers |-> Unset]
  /\ guard = NoCaller
  /\ wire = {}
  /\ answers = {}
  /\ executed = {}

(* The node is up, and so are the orders of this behaviour.                *)
Serve ==
  /\ ~serving
  /\ accounts \in Worlds
  /\ serving' = TRUE
  /\ order' \in Plans
  /\ UNCHANGED <<vars, stage, chain, nonce, guard, wire, answers, executed>>

Goto(c, from, to) ==
  /\ stage[c] = from
  /\ stage' = [stage EXCEPT ![c] = to]

(* The checks before anything is asked of the node.                        *)
Begin(c, via, next) ==
  /\ serving
  /\ order[c].via = via
  /\ order[c].amount # 0
  /\ order[c].from # order[c].to
  /\ Goto(c, "new", next)
  /\ UNCHANGED <<vars, serving, order, chain, nonce, guard, wire, answers, executed>>

TxSend(c) == Begin(c, "cli", "chain")

TransferRequest(c) == Begin(c, "explorer", "waiting")

(* Mutant of GuardFree: transfers do not wait for each other.              *)
GuardIgnored == TRUE

GuardFree == guard = NoCaller

(* "Hold the lock across the nonce read and the submit."                   *)
TakeGuard(c) ==
  /\ GuardFree
  /\ guard' = c
  /\ Goto(c, "waiting", "chain")
  /\ UNCHANGED <<vars, serving, order, chain, nonce, wire, answers, executed>>

(* eth_chainId and eth_getTransactionCount, as the node answers them.      *)
GetChainId == ChainId
GetTransactionCount(a) == accounts[a].nonce

(* eth_chainId, unless the chain was given.                                *)
ReadChain(c) ==
  /\ Goto(c, "chain", "nonce")
  /\ chain' = [chain EXCEPT ![c] = Default(order[c].chain_id, GetChainId)]
  /\ UNCHANGED <<vars, serving, order, nonce, guard, wire, answers, executed>>

(* eth_getTransactionCount, unless the nonce was given.                    *)
ReadNonce(c) ==
  /\ Goto(c, "nonce", "sign")
  /\ nonce' = [nonce EXCEPT ![c] =
                 Default(order[c].nonce, GetTransactionCount(order[c].from))]
  /\ UNCHANGED <<vars, serving, order, chain, guard, wire, answers, executed>>

Send(c) ==
  /\ Goto(c, "sign", "sent")
  /\ wire' = wire \cup {c}
  /\ UNCHANGED <<vars, serving, order, chain, nonce, guard, answers, executed>>

(* Another program sends the request that it made itself.                 *)
SendHandMade(c) ==
  /\ serving
  /\ order[c].via = "other"
  /\ Goto(c, "new", "sent")
  /\ wire' = wire \cup {c}
  /\ UNCHANGED <<vars, serving, order, chain, nonce, guard, answers, executed>>

(* Mutant of Released: the lock is kept when the last call fails.          *)
ReleasedOnAnswer(c) ==
  IF guard = c /\ \E ok \in BOOLEAN : <<c, ok>> \in answers THEN NoCaller ELSE guard

(* The guard is dropped when transfer returns, with a hash or an error.    *)
Released(c) == IF guard = c THEN NoCaller ELSE guard

Return(c, how) ==
  /\ stage' = [stage EXCEPT ![c] = how]
  /\ guard' = Released(c)
  /\ answers' = {a \in answers : a[1] # c}
  /\ UNCHANGED <<vars, serving, order, chain, nonce, wire, executed>>

(* Mutant of Answer: an error object is taken for a result.                *)
AnswerAny(c, ok) == \E any \in BOOLEAN : <<c, any>> \in answers

Answer(c, ok) == <<c, ok>> \in answers

Printed(c) == stage[c] = "sent" /\ Answer(c, TRUE) /\ Return(c, "printed")

Refused(c) == stage[c] = "sent" /\ Answer(c, FALSE) /\ Return(c, "refused")

(* One of the calls fails or its timeout is over, or the command is        *)
(* stopped; the node may still get what was sent.                          *)
GiveUp(c) == stage[c] \in {"chain", "nonce", "sent"} /\ Return(c, "lost")

-----------------------------------------------------------------------------
(* The node's side of eth_sendTransaction.                                 *)

Handle(c) ==
  LET ok == Accepts(Request(c))
      tx == TransactionFromParams(Request(c))
  IN  /\ c \in wire
      /\ wire' = wire \ {c}
      /\ answers' = IF stage[c] = "sent" THEN answers \cup {<<c, ok>>} ELSE answers
      /\ IF ok THEN Execute(tx) /\ executed' = executed \cup {tx}
               ELSE UNCHANGED <<vars, executed>>
      /\ UNCHANGED <<serving, stage, order, chain, nonce, guard>>

ClientStep(c) ==
  \/ TakeGuard(c) \/ ReadChain(c) \/ ReadNonce(c) \/ Send(c)
  \/ Printed(c) \/ Refused(c) \/ GiveUp(c)

ClientNext ==
  \/ ~serving /\ Next /\ UNCHANGED clientVars
  \/ Serve
  \/ \E c \in Callers :
       TxSend(c) \/ TransferRequest(c) \/ SendHandMade(c) \/ ClientStep(c) \/ Handle(c)

ClientSpec == ClientInit /\ [][ClientNext]_<<vars, clientVars>>

(* A caller goes on when its answer, its timeout or the lock is there.     *)
ClientFairSpec ==
  ClientSpec /\ \A c \in Callers : WF_<<vars, clientVars>>(ClientStep(c))

-----------------------------------------------------------------------------

Signed(c) ==
  IF stage[c] \notin {"sent"} \cup Returned \/ chain[c] = Unset \/ nonce[c] = Unset
    THEN {} ELSE {SignedTx(c)}

(* The caller signed the transaction, itself or for a request it made.     *)
SignedBy(tx, c) ==
  \/ tx \in Signed(c)
  \/ /\ order[c].via = "other"
     /\ order[c].request.signature = [key |-> tx.from, payload |-> tx]

(* "the node never signs on a caller's behalf": every transaction the node *)
(* executed was signed, with all its fields, by the key of its sender,     *)
(* also where the request left fields out and the node filled them in.     *)
ExecutedWasSigned == \A tx \in executed : \E c \in Callers : SignedBy(tx, c)

(* A command that printed a hash has paid what it was asked to pay, once:  *)
(* late answers and those of other callers are never taken for its own.    *)
PrintedIsPaid ==
  \A c \in Callers : stage[c] = "printed" /\ order[c].via # "other" =>
    /\ SignedTx(c) \in executed
    /\ runs[SignedTx(c)] = 1

(* The node executed a transaction of the sender and the nonce of caller c *)
(* that another program signed, or a transfer the explorer had given up.   *)
SpentByOther(c) ==
  \E d \in Callers \ {c} :
    /\ order[d].via # "explorer" \/ stage[d] = "lost"
    /\ \E tx \in executed :
         SignedBy(tx, d) /\ tx.from = order[c].from /\ tx.nonce = nonce[c]

(* "Serializes nonce read and submit so two transfers cannot reuse a       *)
(* nonce": the nonce an explorer transfer has read stays the next one of   *)
(* its sender until the node has its request, unless a program other than  *)
(* the explorer, or a transfer the explorer had given up, spent it.        *)
ExplorerNonceHolds ==
  \A c \in Callers :
    /\ stage[c] \in {"sign", "sent"} /\ order[c].via = "explorer"
    /\ stage[c] = "sent" => c \in wire
    => \/ nonce[c] = accounts[order[c].from].nonce
       \/ SpentByOther(c)

(* A transfer that waits for the explorer's lock is answered in the end,   *)
(* whatever the node and the other callers do: whoever holds the lock      *)
(* gives it back, with an answer, an error or at a timeout.                *)
CallersReturn == \A c \in Callers : stage[c] = "waiting" ~> stage[c] \in Returned

=============================================================================
