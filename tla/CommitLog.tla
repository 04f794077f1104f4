----------------------------- MODULE CommitLog -----------------------------
(***************************************************************************)
(* What the node promises about its ledger, without threads, views or      *)
(* files: a log of transactions and the state that executing them on the   *)
(* genesis allocations gives.  A suffix nobody was told of may be lost or  *)
(* replaced; what was acknowledged stays.                                  *)
(***************************************************************************)
EXTENDS State, Sequences

CONSTANT Genesis   \* the genesis allocations

VARIABLES
  log,     \* the transactions of the ledger, in order
  state,   \* the account state of the ledger
  acked    \* how many transactions of the log are acknowledged

vars == <<log, state, acked>>

GenesisState ==
  [a \in Addrs |-> [nonce   |-> 0,
                    balance |-> IF a \in DOMAIN Genesis THEN Genesis[a] ELSE 0]]

(* The state after re-executing a log from genesis.                        *)
Replay(l) ==
  LET after[i \in 0..Len(l)] ==
        IF i = 0 THEN GenesisState
        ELSE ApplyTransaction(after[i - 1], l[i]).accounts
  IN  after[Len(l)]

(* Every transaction of a log goes through on the state before it.         *)
Executes(l) ==
  \A i \in DOMAIN l : ApplyTransaction(Replay(SubSeq(l, 1, i - 1)), l[i]).ok

Init ==
  /\ log = <<>>
  /\ state = GenesisState
  /\ acked = 0

(* Put tx on top of the first n transactions, n short of the log by at     *)
(* most the one block a failed write left behind.                          *)
Commit(n, tx) ==
  LET base == SubSeq(log, 1, n)
  IN  /\ n >= acked
      /\ log' = Append(base, tx)
      /\ ApplyTransaction(Replay(base), tx).ok
      /\ state' = Replay(log')
      /\ UNCHANGED acked

(* A crash or a second attempt leaves an older log, or one that was        *)
(* abandoned before it was acknowledged; all of it executes.               *)
Recover ==
  /\ log' \in Seq(Txs)
  /\ Len(log') \in acked..(Len(log) + 1)
  /\ SubSeq(log', 1, acked) = SubSeq(log, 1, acked)
  /\ Executes(log')
  /\ state' = Replay(log')
  /\ UNCHANGED acked

Acknowledge(n) ==
  /\ n > acked
  /\ acked' = n
  /\ UNCHANGED <<log, state>>

Next ==
  \/ \E tx \in Txs : \E n \in {Len(log), Len(log) - 1} \cap Nat : Commit(n, tx)
  \/ \E n \in 0..Len(log) : Acknowledge(n)
  \/ Recover

Spec == Init /\ [][Next]_vars

=============================================================================
