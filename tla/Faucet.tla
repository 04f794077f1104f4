------------------------------- MODULE Faucet -------------------------------
(***************************************************************************)
(* subhost_faucet: requests served concurrently by FaucetState::drip, the  *)
(* cooldown ledger they share, the lock around nonce read and submission,  *)
(* and the node they call over JSON-RPC.  Each await of drip is a step.    *)
(* The node is external: it takes a transfer whose nonce is the next one   *)
(* of the faucet's account, may refuse any, and its answers may be lost.   *)
(*                                                                         *)
(* A request is one call of handle_drip, for an address in some spelling.  *)
(* Any call to the node may fail or get no answer before the HTTP client's *)
(* timeout, a caller may leave and the faucet be restarted at any time.    *)
(***************************************************************************)
EXTENDS Integers, FiniteSets

CONSTANTS
  Requests,    \* the calls of the drip endpoint in one behaviour
  Spellings,   \* addresses as callers write them
  Lower,       \* to_ascii_lowercase of a spelling, Invalid when it is no address
  Invalid,     \* what parse_address refuses
  Signer,      \* FaucetSigner::address
  Calls,       \* which spelling each request is made with
  NoRequest,   \* the submit lock is free
  Cooldown,    \* FaucetConfig::cooldown_secs, in ticks
  MaxTime,     \* bound on the clock
  MaxRestarts  \* bound on the restarts of the faucet

ASSUME FaucetAssumption ==
  /\ DOMAIN Lower = Spellings
  /\ Cooldown \in Nat \ {0}
  /\ {MaxTime, MaxRestarts} \subseteq Nat
  /\ NoRequest \notin Requests
  /\ Calls \subseteq [Requests -> Spellings]

VARIABLES
  now,        \* Instant::now()
  boot,       \* which process of the faucet runs
  entries,    \* CooldownLedger::entries
  lock,       \* FaucetState::submit_lock: its holder
  pc,         \* where each request is
  address,    \* the address each request names
  claimed,    \* when each request claimed its slot
  outbox,     \* transfers on their way to the node
  accepted,   \* transfers the node committed
  replies,    \* the node's answers on their way to a request that waits
  late        \* history: releases that removed another request's claim

vars == <<now, boot, entries, lock, pc, address, claimed, outbox, accepted,
          replies, late>>

Transfer == [request : Requests, to : {Lower[s] : s \in Spellings},
             nonce : Nat, boot : 0..MaxRestarts, claimed : 0..MaxTime]

LateRelease == [to : {Lower[s] : s \in Spellings}, boot : 0..MaxRestarts,
                claimed : 0..MaxTime, at : 0..MaxTime]

Working == {"waiting", "chain", "nonce", "sending", "releasing"}
Done == {"refused", "granted", "failed", "gone"}

Init ==
  /\ now = 0
  /\ boot = 0
  /\ entries = <<>>
  /\ lock = NoRequest
  /\ pc = [r \in Requests |-> "new"]
  /\ address \in Calls
  /\ claimed = [r \in Requests |-> 0]
  /\ outbox = {}
  /\ accepted = {}
  /\ replies = {}
  /\ late = {}

-----------------------------------------------------------------------------
(* The cooldown ledger.                                                    *)

KeyAsSpelled(s) == s
Key(s) == Lower[s]

CanClaim(k) == k \in DOMAIN entries => now - entries[k] >= Cooldown

Claim(k) ==
  entries' = [x \in DOMAIN entries \cup {k} |-> IF x = k THEN now ELSE entries[x]]

ReleasedNothing(s) == entries
Released(s) == [x \in DOMAIN entries \ {Key(s)} |-> entries[x]]

Stale(k) == now - entries[k] >= 2 * Cooldown

Sweep ==
  /\ entries' = [k \in {x \in DOMAIN entries : ~Stale(x)} |-> entries[k]]
  /\ UNCHANGED <<now, boot, lock, pc, address, claimed, outbox, accepted, replies,
                 late>>

-----------------------------------------------------------------------------
(* One request.                                                            *)

Fundable(s) == Lower[s] \notin {Invalid, Signer}

Refuse(r) ==
  /\ pc[r] = "new"
  /\ Fundable(address[r]) => ~CanClaim(Key(address[r]))
  /\ pc' = [pc EXCEPT ![r] = "refused"]
  /\ UNCHANGED <<now, boot, entries, lock, address, claimed, outbox, accepted, replies,
                 late>>

Drip(r) ==
  /\ pc[r] = "new"
  /\ Fundable(address[r])
  /\ CanClaim(Key(address[r]))
  /\ Claim(Key(address[r]))
  /\ claimed' = [claimed EXCEPT ![r] = now]
  /\ pc' = [pc EXCEPT ![r] = "waiting"]
  /\ UNCHANGED <<now, boot, lock, address, outbox, accepted, replies, late>>

LockIgnored(r) == TRUE
LockFree(r) == lock = NoRequest

TakeLock(r) ==
  /\ pc[r] = "waiting"
  /\ LockFree(r)
  /\ lock' = r
  /\ pc' = [pc EXCEPT ![r] = "chain"]
  /\ UNCHANGED <<now, boot, entries, address, claimed, outbox, accepted, replies,
                 late>>

ReadChain(r) ==
  /\ pc[r] = "chain"
  /\ pc' = [pc EXCEPT ![r] = "nonce"]
  /\ UNCHANGED <<now, boot, entries, lock, address, claimed, outbox, accepted, replies,
                 late>>

(* eth_getTransactionCount: the node's committed nonce of the faucet.      *)
CommittedNonce == Cardinality(accepted)

(* The nonce is the node's when it answers; the transfer reaches it later. *)
Send(r) ==
  /\ pc[r] = "nonce"
  /\ outbox' = outbox \cup {[request |-> r, to |-> Lower[address[r]],
                             nonce |-> CommittedNonce, boot |-> boot,
                             claimed |-> claimed[r]]}
  /\ pc' = [pc EXCEPT ![r] = "sending"]
  /\ UNCHANGED <<now, boot, entries, lock, address, claimed, accepted, replies,
                 late>>

GuardForgotten(r) == lock
GuardDropped(r) == IF lock = r THEN NoRequest ELSE lock

(* The connection of the call is closed: an answer on its way is lost.     *)
Hangup(r) == replies' = {reply \in replies : reply.request # r}

(* submit_transfer returns an error: the guard is dropped first, the slot  *)
(* released after it.                                                      *)
Fail(r) ==
  /\ lock' = GuardDropped(r)
  /\ pc' = [pc EXCEPT ![r] = "releasing"]
  /\ Hangup(r)
  /\ UNCHANGED <<now, boot, entries, address, claimed, outbox, accepted, late>>

(* chain_id or nonce failed.                                               *)
ReadFails(r) == pc[r] \in {"chain", "nonce"} /\ Fail(r)

AnsweredAtAll(r, ok) == \E reply \in replies : reply.request = r
Answered(r, ok) == [request |-> r, ok |-> ok] \in replies

Refused(r) == pc[r] = "sending" /\ Answered(r, FALSE) /\ Fail(r)

(* The ten seconds of the HTTP client are over.                            *)
TimesOut(r) == pc[r] = "sending" /\ Fail(r)

(* The slot is the request's own claim, or free by now.                    *)
HoldsClaim(r) ==
  Key(address[r]) \in DOMAIN entries => entries[Key(address[r])] = claimed[r]

ReleaseOf(r) ==
  [to |-> Lower[address[r]], boot |-> boot, claimed |-> claimed[r], at |-> now]

(* release removes the slot of the address, whoever claimed it last.       *)
Release(r) ==
  /\ pc[r] = "releasing"
  /\ entries' = Released(address[r])
  /\ late' = IF HoldsClaim(r) THEN late ELSE late \cup {ReleaseOf(r)}
  /\ pc' = [pc EXCEPT ![r] = "failed"]
  /\ UNCHANGED <<now, boot, lock, address, claimed, outbox, accepted, replies>>

Grant(r) ==
  /\ pc[r] = "sending"
  /\ Answered(r, TRUE)
  /\ lock' = GuardDropped(r)
  /\ pc' = [pc EXCEPT ![r] = "granted"]
  /\ Hangup(r)
  /\ UNCHANGED <<now, boot, entries, address, claimed, outbox, accepted, late>>

(* The caller closes the connection: the server drops the future at its    *)
(* await, and with it the guard.  No code of drip runs any more.           *)
Disconnect(r) ==
  /\ pc[r] \in {"waiting", "chain", "nonce", "sending"}
  /\ lock' = GuardDropped(r)
  /\ pc' = [pc EXCEPT ![r] = "gone"]
  /\ Hangup(r)
  /\ UNCHANGED <<now, boot, entries, address, claimed, outbox, accepted, late>>

(* The faucet process is restarted: the ledger was in its memory.          *)
Restart ==
  /\ boot < MaxRestarts
  /\ boot' = boot + 1
  /\ entries' = <<>>
  /\ lock' = NoRequest
  /\ replies' = {}
  /\ pc' = [r \in Requests |-> IF pc[r] \in Working THEN "gone" ELSE pc[r]]
  /\ UNCHANGED <<now, address, claimed, outbox, accepted, late>>

-----------------------------------------------------------------------------
(* The node and the clock.                                                 *)

Reply(t, ok) ==
  replies' = replies \cup
    {x \in {[request |-> t.request, ok |-> ok]} : pc[x.request] = "sending"}

NodeAccepts(t) ==
  /\ t.nonce = CommittedNonce
  /\ outbox' = outbox \ {t}
  /\ accepted' = accepted \cup {t}
  /\ Reply(t, TRUE)
  /\ UNCHANGED <<now, boot, entries, lock, pc, address, claimed, late>>

NodeRefuses(t) ==
  /\ outbox' = outbox \ {t}
  /\ Reply(t, FALSE)
  /\ UNCHANGED <<now, boot, entries, lock, pc, address, claimed, accepted, late>>

(* Time passes for everybody, however long a request has been waiting.     *)
Tick ==
  /\ now < MaxTime
  /\ now' = now + 1
  /\ UNCHANGED <<boot, entries, lock, pc, address, claimed, outbox, accepted, replies,
                 late>>

Step(r) ==
  \/ Refuse(r) \/ Drip(r) \/ TakeLock(r) \/ ReadChain(r) \/ Send(r) \/ ReadFails(r)
  \/ Refused(r) \/ TimesOut(r) \/ Release(r) \/ Grant(r) \/ Disconnect(r)

Next ==
  \/ \E r \in Requests : Step(r)
  \/ \E t \in outbox : NodeAccepts(t) \/ NodeRefuses(t)
  \/ Sweep \/ Restart \/ Tick

Spec == Init /\ [][Next]_vars

(* The runtime resumes a request whose await is ready; the HTTP client's   *)
(* timeout makes every call ready in the end, whatever the node does.      *)
Progress(r) ==
  \/ TakeLock(r) \/ ReadChain(r) \/ Send(r) \/ ReadFails(r) \/ Refused(r)
  \/ TimesOut(r) \/ Release(r) \/ Grant(r)

FairSpec == Spec /\ \A r \in Requests : WF_vars(Progress(r))

-----------------------------------------------------------------------------

(* Claims are not in the future, and requests are where drip has an await. *)
TypeOK ==
  /\ now \in 0..MaxTime
  /\ boot \in 0..MaxRestarts
  /\ \A k \in DOMAIN entries : entries[k] \in 0..now
  /\ lock \in Requests \cup {NoRequest}
  /\ pc \in [Requests -> {"new"} \cup Working \cup Done]
  /\ address \in [Requests -> Spellings]
  /\ claimed \in [Requests -> 0..now]
  /\ outbox \subseteq Transfer
  /\ accepted \subseteq Transfer
  /\ replies \subseteq [request : Requests, ok : BOOLEAN]
  /\ late \subseteq LateRelease

(* An address cools down only for a drip at work, one that was granted, or *)
(* one whose caller left: a drip that failed leaves its address free       *)
(* (lib.rs:246-247), whatever other requests did meanwhile.                *)
LockoutMeansFunded ==
  \A k \in DOMAIN entries : \E r \in Requests :
    /\ Lower[address[r]] = k
    /\ claimed[r] = entries[k]
    /\ pc[r] \in Working \cup {"granted", "gone"}

(* The faucet no longer waits for the answer to the transfer: the request  *)
(* timed out, its caller left, or the faucet was restarted.  The node may  *)
(* still hold the transfer, or take it later.                              *)
Abandoned(t) == pc[t.request] \in {"releasing", "failed", "gone"}

(* By then a request for the address that had failed only when its own     *)
(* cooldown was over released a claim that was no longer its own.          *)
ReleasedLate(to, b, by) ==
  \E x \in late : /\ x.to = to /\ x.boot = b /\ x.at <= by
                  /\ x.at - x.claimed >= Cooldown

(* Two transfers one faucet process sent to one address, in whatever       *)
(* spelling, and the node took were claimed a cooldown apart, unless the   *)
(* faucet gave one of them up, or an earlier request for the address took  *)
(* longer than the cooldown, failed, and released (lib.rs:262) the claim   *)
(* another request had made meanwhile.                                     *)
OneDripPerCooldown ==
  \A t, u \in accepted : t # u /\ t.to = u.to /\ t.boot = u.boot /\ t.claimed <= u.claimed
    => \/ Abandoned(t) \/ Abandoned(u)
       \/ u.claimed - t.claimed >= Cooldown
       \/ ReleasedLate(t.to, t.boot, u.claimed)

(* Two transfers the node holds or may still receive carry the same nonce  *)
(* only when the faucet gave one of them up.  lib.rs:205: "Serializes      *)
(* nonce read and submit so two requests cannot reuse a nonce."            *)
NonceNotReused ==
  \A t, u \in outbox \cup accepted : t # u /\ t.nonce = u.nonce
    => Abandoned(t) \/ Abandoned(u)

(* A request answered with a hash was funded, by the transfer of its own   *)
(* recipient: the faucet never fabricates a hash (lib.rs:4), with answers  *)
(* lost, callers gone and restarts in between.                             *)
GrantedIsFunded ==
  \A r \in Requests : pc[r] = "granted" =>
    \E t \in accepted : t.request = r /\ t.to = Lower[address[r]]

(* Every request that claimed its slot is answered, even when the node     *)
(* never answers.                                                          *)
RequestsReturn ==
  \A r \in Requests : pc[r] = "waiting" ~> pc[r] \in Done

=============================================================================
