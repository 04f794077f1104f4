--------------------------- MODULE Faucet_proofs ---------------------------
(***************************************************************************)
(* Nonces, hashes and cooldowns of the faucet, for any number of requests, *)
(* addresses and restarts, with a node that may refuse, answer late or     *)
(* never, and callers that leave.                                          *)
(***************************************************************************)
EXTENDS Faucet, FiniteSetTheorems, TLAPS

Critical == {"chain", "nonce", "sending"}

(* Where a request can be once it has sent its transfer.                   *)
Sent == {"sending", "releasing", "failed", "granted", "gone"}

Transfers == outbox \cup accepted

(* The submit lock: only its holder is between chain id and answer.        *)
LockInv == \A r \in Requests : pc[r] \in Critical <=> lock = r

(* A request sends one transfer, of its own recipient, and the node takes  *)
(* it once.                                                                *)
SentInv ==
  /\ \A t \in Transfers : pc[t.request] \in Sent /\ t.to = Lower[address[t.request]]
  /\ \A t, u \in Transfers : t.request = u.request => t = u
  /\ outbox \cap accepted = {}

(* The node commits the nonces 0, 1, 2, ...; nobody signs beyond them.     *)
CommittedInv ==
  /\ IsFiniteSet(accepted)
  /\ \A t \in accepted : t.nonce < CommittedNonce
  /\ \A t, u \in accepted : t.nonce = u.nonce => t = u
  /\ \A t \in outbox : t.nonce <= CommittedNonce

(* Only what was committed is answered with a hash.                        *)
GrantInv ==
  /\ \A x \in replies : x.ok => \E t \in accepted : t.request = x.request
  /\ \A r \in Requests : pc[r] = "granted" => \E t \in accepted : t.request = r

(* A request read its nonce after every grant before it was committed.     *)
OrderInv ==
  \A t \in outbox, u \in accepted :
    pc[t.request] = "sending" /\ pc[u.request] = "granted" => u.nonce < t.nonce

NonceInv ==
  TypeOK /\ LockInv /\ SentInv /\ CommittedInv /\ GrantInv /\ OrderInv

-----------------------------------------------------------------------------

LEMMA TransferFields ==
  ASSUME NEW t \in Transfer
  PROVE  /\ t.request \in Requests /\ t.nonce \in Nat /\ t.boot \in Nat /\ t.claimed \in Nat
BY FaucetAssumption DEF Transfer

LEMMA Times ==
  ASSUME TypeOK
  PROVE  /\ now \in Nat /\ MaxTime \in Nat /\ boot \in Nat /\ MaxRestarts \in Nat
         /\ now <= MaxTime /\ boot <= MaxRestarts
         /\ \A r \in Requests : claimed[r] \in 0..MaxTime
BY FaucetAssumption DEF TypeOK

LEMMA InitNonceInv ==
  Init => NonceInv
<1> SUFFICES ASSUME Init PROVE NonceInv
  BY Zenon
<1>1. TypeOK
  BY FaucetAssumption DEF Init, TypeOK, Working, Done
<1>2. LockInv
  BY Zenon, FaucetAssumption DEF Init, LockInv, Critical
<1>3. CommittedInv
  BY Zenon, FS_EmptySet DEF Init, CommittedInv
<1>4. SentInv /\ GrantInv /\ OrderInv
  BY Zenon DEF Init, SentInv, GrantInv, OrderInv, Transfers
<1> QED BY Zenon, <1>1, <1>2, <1>3, <1>4 DEF NonceInv

(* A request that neither sends nor is committed moves on.                 *)
LEMMA RequestMoves ==
  ASSUME NonceInv, TypeOK', LockInv', NEW r \in Requests, NEW to,
         pc' = [pc EXCEPT ![r] = to],
         UNCHANGED <<address, outbox, accepted>>, replies' \subseteq replies,
         to # "sending", pc[r] \in Sent => to \in Sent,
         to = "granted" => pc[r] = "sending" /\ [request |-> r, ok |-> TRUE] \in replies
  PROVE  NonceInv'
<1>0. \A t \in Transfers : t.request \in Requests
  BY Zenon, TransferFields DEF NonceInv, TypeOK, Transfers
<1>1. \A s \in Requests : pc'[s] = IF s = r THEN to ELSE pc[s]
  BY Zenon DEF NonceInv, TypeOK
<1>2. Transfers' = Transfers
  BY Zenon DEF Transfers
<1>3. SentInv'
  BY Zenon, <1>0, <1>1, <1>2 DEF NonceInv, SentInv
<1>4. CommittedInv'
  BY Zenon DEF NonceInv, CommittedInv, CommittedNonce
<1>5. GrantInv'
  BY <1>1 DEF NonceInv, GrantInv
<1>6. OrderInv'
  <2> SUFFICES ASSUME NEW t \in outbox, NEW u \in accepted,
                      pc'[t.request] = "sending", pc'[u.request] = "granted"
               PROVE  u.nonce < t.nonce
    BY Zenon DEF OrderInv
  <2>1. t.request # r /\ pc[t.request] = "sending" /\ t.request \in Requests
        /\ u.request \in Requests
    BY Zenon, <1>0, <1>1 DEF Transfers
  <2>2. pc[u.request] = "granted"
    <3>1. lock = t.request
      BY Zenon, <2>1 DEF NonceInv, LockInv, Critical
    <3>2. pc[r] # "sending"
      BY Zenon, <2>1, <3>1 DEF NonceInv, LockInv, Critical
    <3> QED BY Zenon, <1>1, <2>1, <3>2
  <2> QED BY Zenon, <2>1, <2>2 DEF NonceInv, OrderInv
<1> QED BY Zenon, <1>3, <1>4, <1>5, <1>6 DEF NonceInv

(* The lock while a request outside of its scope moves, ...                *)
LEMMA LockKept ==
  ASSUME NonceInv, NEW r \in Requests, NEW to, pc' = [pc EXCEPT ![r] = to],
         lock' = lock, pc[r] \in Critical <=> to \in Critical
  PROVE  LockInv'
BY Zenon DEF NonceInv, TypeOK, LockInv

(* ... and when its guard is dropped.                                      *)
LEMMA LockDropped ==
  ASSUME NonceInv, NEW r \in Requests, NEW to, pc' = [pc EXCEPT ![r] = to],
         lock' = GuardDropped(r), to \notin Critical
  PROVE  LockInv'
BY Zenon, FaucetAssumption DEF NonceInv, TypeOK, LockInv, GuardDropped

(* The types of a step that only moves a request.                          *)
LEMMA MoveTypes ==
  ASSUME TypeOK, NEW r \in Requests, NEW to \in {"new"} \cup Working \cup Done,
         pc' = [pc EXCEPT ![r] = to], lock' \in Requests \cup {NoRequest},
         replies' \subseteq replies,
         UNCHANGED <<now, boot, address, outbox, accepted, late>>,
         claimed' \in [Requests -> 0..now],
         \A k \in DOMAIN entries' : entries'[k] \in 0..now
  PROVE  TypeOK'
BY Zenon DEF TypeOK

LEMMA StagesDiffer ==
  /\ Critical \cap {"new", "waiting", "refused", "releasing", "failed", "granted", "gone"} = {}
  /\ {"chain", "nonce"} \subseteq Critical /\ "sending" \in Critical
BY Zenon DEF Critical

LEMMA DripNonceInv ==
  ASSUME NonceInv, NEW r \in Requests, Drip(r)
  PROVE  NonceInv'
<1>1. /\ pc[r] = "new"
      /\ pc' = [pc EXCEPT ![r] = "waiting"]
      /\ claimed' = [claimed EXCEPT ![r] = now]
      /\ entries' = [x \in DOMAIN entries \cup {Key(address[r])} |->
                       IF x = Key(address[r]) THEN now ELSE entries[x]]
      /\ UNCHANGED <<now, boot, lock, address, outbox, accepted, replies, late>>
  BY Zenon DEF Drip, Claim
<1>2. TypeOK /\ now \in 0..now
  BY Times DEF NonceInv
<1>3. \A k \in DOMAIN entries' : entries'[k] \in 0..now
  BY Zenon, <1>1, <1>2 DEF TypeOK
<1>4. claimed' \in [Requests -> 0..now]
  BY Zenon, <1>1, <1>2 DEF TypeOK
<1>5. lock' \in Requests \cup {NoRequest} /\ "waiting" \in {"new"} \cup Working \cup Done
  BY Zenon, <1>1, <1>2 DEF TypeOK, Working
<1>6. TypeOK'
  BY Zenon, <1>1, <1>2, <1>3, <1>4, <1>5, MoveTypes
<1>7. LockInv'
  BY Zenon, <1>1, LockKept, StagesDiffer
<1> QED BY Zenon, <1>1, <1>6, <1>7, RequestMoves DEF Sent

LEMMA ReleaseNonceInv ==
  ASSUME NonceInv, NEW r \in Requests, Release(r)
  PROVE  NonceInv'
<1>1. /\ pc[r] = "releasing"
      /\ pc' = [pc EXCEPT ![r] = "failed"]
      /\ entries' = [x \in DOMAIN entries \ {Key(address[r])} |-> entries[x]]
      /\ late' \subseteq late \cup {ReleaseOf(r)}
      /\ UNCHANGED <<now, boot, lock, address, claimed, outbox, accepted, replies>>
  BY Zenon DEF Release, Released
<1>2. TypeOK
  BY Zenon DEF NonceInv
<1>3. \A k \in DOMAIN entries' : entries'[k] \in 0..now
  BY Zenon, <1>1, <1>2 DEF TypeOK
<1>4. TypeOK'
  <2>1. claimed[r] \in 0..MaxTime /\ now \in 0..MaxTime
    BY <1>2, Times
  <2>2. ReleaseOf(r) \in LateRelease
    BY Zenon, <1>2, <2>1 DEF TypeOK, ReleaseOf, LateRelease
  <2> QED BY Zenon, <1>1, <1>2, <1>3, <2>2 DEF TypeOK, Done
<1>5. LockInv'
  BY Zenon, <1>1, LockKept, StagesDiffer
<1> QED BY Zenon, <1>1, <1>4, <1>5, RequestMoves DEF Sent

(* Refuse, TakeLock and ReadChain.                                         *)
LEMMA EarlyNonceInv ==
  ASSUME NonceInv, NEW r \in Requests, Refuse(r) \/ TakeLock(r) \/ ReadChain(r)
  PROVE  NonceInv'
<1>0. TypeOK
  BY Zenon DEF NonceInv
<1>1. CASE Refuse(r)
  <2>1. /\ pc[r] = "new" /\ pc' = [pc EXCEPT ![r] = "refused"]
        /\ UNCHANGED <<now, boot, entries, lock, address, claimed, outbox, accepted, replies,
                       late>>
    BY Zenon, <1>1 DEF Refuse
  <2>2. TypeOK'
    BY Zenon, <1>0, <2>1 DEF TypeOK, Done
  <2>3. LockInv'
    BY Zenon, <2>1, LockKept, StagesDiffer
  <2> QED BY Zenon, <2>1, <2>2, <2>3, RequestMoves DEF Sent
<1>2. CASE TakeLock(r)
  <2>1. /\ pc[r] = "waiting" /\ pc' = [pc EXCEPT ![r] = "chain"]
        /\ lock = NoRequest /\ lock' = r
        /\ UNCHANGED <<now, boot, entries, address, claimed, outbox, accepted, replies,
                       late>>
    BY Zenon, <1>2 DEF TakeLock, LockFree
  <2>2. TypeOK'
    BY Zenon, <1>0, <2>1 DEF TypeOK, Working
  <2>3. LockInv'
    BY Zenon, <2>1, FaucetAssumption, StagesDiffer DEF NonceInv, TypeOK, LockInv
  <2> QED BY Zenon, <2>1, <2>2, <2>3, RequestMoves DEF Sent
<1>3. CASE ReadChain(r)
  <2>1. /\ pc[r] = "chain" /\ pc' = [pc EXCEPT ![r] = "nonce"]
        /\ UNCHANGED <<now, boot, entries, lock, address, claimed, outbox, accepted, replies,
                       late>>
    BY Zenon, <1>3 DEF ReadChain
  <2>2. TypeOK'
    BY Zenon, <1>0, <2>1 DEF TypeOK, Working
  <2>3. LockInv'
    BY Zenon, <2>1, LockKept, StagesDiffer
  <2> QED BY Zenon, <2>1, <2>2, <2>3, RequestMoves DEF Sent
<1> QED BY Zenon, <1>1, <1>2, <1>3

(* The ends of submit_transfer: an error, a hash, or a caller that left.   *)
LEMMA EndNonceInv ==
  ASSUME NonceInv, NEW r \in Requests,
         ReadFails(r) \/ Refused(r) \/ TimesOut(r) \/ Grant(r) \/ Disconnect(r)
  PROVE  NonceInv'
<1>0. TypeOK
  BY Zenon DEF NonceInv
<1>1. PICK to \in {"releasing", "granted", "gone"} :
        /\ pc' = [pc EXCEPT ![r] = to]
        /\ to = "granted" => pc[r] = "sending" /\ [request |-> r, ok |-> TRUE] \in replies
        /\ lock' = GuardDropped(r)
        /\ replies' = {reply \in replies : reply.request # r}
        /\ UNCHANGED <<now, boot, entries, address, claimed, outbox, accepted, late>>
  BY Zenon DEF ReadFails, Refused, TimesOut, Fail, Grant, Disconnect, Hangup, Answered
<1>2. TypeOK'
  BY Zenon, <1>0, <1>1 DEF TypeOK, Working, Done, GuardDropped
<1>3. LockInv'
  BY Zenon, <1>1, LockDropped, StagesDiffer
<1> QED BY Zenon, <1>1, <1>2, <1>3, RequestMoves DEF Sent

LEMMA SendNonceInv ==
  ASSUME NonceInv, NEW r \in Requests, Send(r)
  PROVE  NonceInv'
<1> DEFINE new == [request |-> r, to |-> Lower[address[r]], nonce |-> CommittedNonce,
                   boot |-> boot, claimed |-> claimed[r]]
<1>1. /\ pc[r] = "nonce"
      /\ pc' = [pc EXCEPT ![r] = "sending"]
      /\ outbox' = outbox \cup {new}
      /\ UNCHANGED <<now, boot, entries, lock, address, claimed, accepted, replies, late>>
  BY Zenon DEF Send
<1>2. CommittedNonce \in Nat
  BY Zenon, FS_CardinalityType DEF NonceInv, CommittedInv, CommittedNonce
<1>3. new \in Transfer
  <2>1. TypeOK
    BY Zenon DEF NonceInv
  <2>2. claimed[r] \in 0..MaxTime
    BY Zenon, <2>1, Times
  <2> QED BY Zenon, <1>2, <2>1, <2>2 DEF TypeOK, Transfer
<1>4. new.request = r /\ new.to = Lower[address[r]] /\ new.nonce = CommittedNonce
  BY Zenon
<1> HIDE DEF new
<1>5. TypeOK' /\ LockInv'
  <2>1. TypeOK'
    BY Zenon, <1>1, <1>3 DEF NonceInv, TypeOK, Working
  <2> QED BY Zenon, <1>1, <2>1, LockKept, StagesDiffer
<1>6. \A t \in Transfers : t.request # r /\ t.request \in Requests
  BY Zenon, <1>1, TransferFields DEF NonceInv, TypeOK, SentInv, Sent, Transfers
<1>7. Transfers' = Transfers \cup {new}
  BY Zenon, <1>1 DEF Transfers
<1>8. \A s \in Requests : pc'[s] = IF s = r THEN "sending" ELSE pc[s]
  BY Zenon, <1>1 DEF NonceInv, TypeOK
<1>9. SentInv'
  <2>1. \A t \in Transfers' : pc'[t.request] \in Sent /\ t.to = Lower[address'[t.request]]
    BY <1>1, <1>4, <1>6, <1>7, <1>8 DEF NonceInv, SentInv, Sent
  <2>2. \A t, u \in Transfers' : t.request = u.request => t = u
    BY Zenon, <1>4, <1>6, <1>7 DEF NonceInv, SentInv
  <2>3. outbox' \cap accepted' = {}
    BY Zenon, <1>1, <1>4, <1>6 DEF NonceInv, SentInv, Transfers
  <2> QED BY Zenon, <2>1, <2>2, <2>3 DEF SentInv
<1>10. CommittedInv'
  BY <1>1, <1>2, <1>4 DEF NonceInv, CommittedInv, CommittedNonce
<1>11. GrantInv'
  BY <1>1, <1>8 DEF NonceInv, GrantInv
<1>12. OrderInv'
  <2> SUFFICES ASSUME NEW t \in outbox', NEW u \in accepted,
                      pc'[t.request] = "sending", pc'[u.request] = "granted"
               PROVE  u.nonce < t.nonce
    BY Zenon, <1>1 DEF OrderInv
  <2>1. pc[u.request] = "granted"
    BY Zenon, <1>6, <1>8 DEF Transfers
  <2>2. CASE t = new
    BY Zenon, <1>4, <2>2 DEF NonceInv, CommittedInv
  <2>3. CASE t \in outbox
    <3>1. pc[t.request] = "sending"
      BY Zenon, <1>6, <1>8, <2>3 DEF Transfers
    <3> QED BY Zenon, <2>1, <2>3, <3>1 DEF NonceInv, OrderInv
  <2> QED BY Zenon, <1>1, <2>2, <2>3
<1> QED BY Zenon, <1>5, <1>9, <1>10, <1>11, <1>12 DEF NonceInv

LEMMA NodeAcceptsNonceInv ==
  ASSUME NonceInv, NEW t \in outbox, NodeAccepts(t)
  PROVE  NonceInv'
<1>1. /\ t.nonce = CommittedNonce
      /\ outbox' = outbox \ {t}
      /\ accepted' = accepted \cup {t}
      /\ replies' \subseteq replies \cup {[request |-> t.request, ok |-> TRUE]}
      /\ UNCHANGED <<now, boot, entries, lock, pc, address, claimed, late>>
  BY Zenon DEF NodeAccepts, Reply
<1>2. t \in Transfer /\ t \notin accepted /\ t.request \in Requests
  BY Zenon, TransferFields DEF NonceInv, TypeOK, SentInv
<1>3. TypeOK' /\ LockInv'
  <2>1. [request |-> t.request, ok |-> TRUE] \in [request : Requests, ok : BOOLEAN]
    BY Zenon, <1>2
  <2>2. replies' \subseteq [request : Requests, ok : BOOLEAN]
    BY Zenon, <1>1, <2>1 DEF NonceInv, TypeOK
  <2>3. outbox' \subseteq Transfer /\ accepted' \subseteq Transfer
    BY Zenon, <1>1, <1>2 DEF NonceInv, TypeOK
  <2> QED BY Zenon, <1>1, <2>2, <2>3 DEF NonceInv, TypeOK, LockInv
<1>4. Transfers' = Transfers
  BY Zenon, <1>1 DEF Transfers
<1>5. SentInv'
  BY Zenon, <1>1, <1>4 DEF NonceInv, SentInv
<1>6. /\ IsFiniteSet(accepted')
      /\ CommittedNonce' = CommittedNonce + 1
      /\ CommittedNonce \in Nat
  BY Zenon, <1>1, <1>2, FS_AddElement, FS_CardinalityType DEF NonceInv, CommittedInv, CommittedNonce
<1>7. CommittedInv'
  <2>0. \A u \in outbox \cup accepted : u.nonce \in Nat
    BY Zenon, TransferFields DEF NonceInv, TypeOK
  <2>1. \A u \in accepted' : u.nonce < CommittedNonce'
    BY <1>1, <1>6, <2>0 DEF NonceInv, CommittedInv
  <2>2. \A u, v \in accepted' : u.nonce = v.nonce => u = v
    BY <1>1, <1>6, <2>0 DEF NonceInv, CommittedInv
  <2>3. \A u \in outbox' : u.nonce <= CommittedNonce'
    BY <1>1, <1>6, <2>0 DEF NonceInv, CommittedInv
  <2> QED BY Zenon, <1>6, <2>1, <2>2, <2>3 DEF CommittedInv
<1>8. GrantInv'
  BY <1>1 DEF NonceInv, GrantInv
<1>9. OrderInv'
  <2>1. pc[t.request] # "granted"
    <3> SUFFICES ASSUME pc[t.request] = "granted" PROVE FALSE
      BY Zenon
    <3>1. PICK u \in accepted : u.request = t.request
      BY Zenon, <1>2 DEF NonceInv, GrantInv
    <3> QED BY Zenon, <1>2, <3>1 DEF NonceInv, SentInv, Transfers
  <2> QED BY Zenon, <1>1, <2>1 DEF NonceInv, OrderInv
<1> QED BY Zenon, <1>3, <1>5, <1>7, <1>8, <1>9 DEF NonceInv

LEMMA NodeRefusesNonceInv ==
  ASSUME NonceInv, NEW t \in outbox, NodeRefuses(t)
  PROVE  NonceInv'
<1>1. /\ outbox' = outbox \ {t}
      /\ replies' \subseteq replies \cup {[request |-> t.request, ok |-> FALSE]}
      /\ UNCHANGED <<now, boot, entries, lock, pc, address, claimed, accepted, late>>
  BY Zenon DEF NodeRefuses, Reply
<1>2. t.request \in Requests
  BY Zenon, TransferFields DEF NonceInv, TypeOK
<1>3. TypeOK' /\ LockInv'
  <2>1. [request |-> t.request, ok |-> FALSE] \in [request : Requests, ok : BOOLEAN]
    BY Zenon, <1>2
  <2>2. replies' \subseteq [request : Requests, ok : BOOLEAN]
    BY Zenon, <1>1, <2>1 DEF NonceInv, TypeOK
  <2>3. outbox' \subseteq Transfer /\ accepted' \subseteq Transfer
    BY Zenon, <1>1, <1>2 DEF NonceInv, TypeOK
  <2> QED BY Zenon, <1>1, <2>2, <2>3 DEF NonceInv, TypeOK, LockInv
<1>4. SentInv' /\ OrderInv'
  BY Zenon, <1>1 DEF NonceInv, SentInv, OrderInv, Transfers
<1>5. CommittedInv'
  BY Zenon, <1>1 DEF NonceInv, CommittedInv, CommittedNonce
<1>6. GrantInv'
  BY <1>1 DEF NonceInv, GrantInv
<1> QED BY Zenon, <1>3, <1>4, <1>5, <1>6 DEF NonceInv

LEMMA RestartNonceInv ==
  ASSUME NonceInv, Restart
  PROVE  NonceInv'
<1>1. /\ boot < MaxRestarts /\ boot' = boot + 1
      /\ entries' = <<>> /\ lock' = NoRequest /\ replies' = {}
      /\ pc' = [r \in Requests |-> IF pc[r] \in Working THEN "gone" ELSE pc[r]]
      /\ UNCHANGED <<now, address, claimed, outbox, accepted, late>>
  BY Zenon DEF Restart
<1>2. TypeOK'
  <2>1. boot' \in 0..MaxRestarts
    BY <1>1, FaucetAssumption DEF NonceInv, TypeOK
  <2>2. pc' \in [Requests -> {"new"} \cup Working \cup Done]
    BY Zenon, <1>1 DEF NonceInv, TypeOK, Done
  <2>3. \A k \in DOMAIN entries' : entries'[k] \in 0..now'
    BY <1>1
  <2> QED BY Zenon, <1>1, <2>1, <2>2, <2>3 DEF NonceInv, TypeOK
<1>3. \A r \in Requests : /\ pc'[r] \notin Working
                          /\ pc'[r] = "granted" => pc[r] = "granted"
                          /\ pc[r] \in Sent => pc'[r] \in Sent
  BY Zenon, <1>1 DEF Working, Sent
<1>4. LockInv'
  BY Zenon, <1>1, <1>3, FaucetAssumption DEF LockInv, Critical, Working
<1>5. \A t \in Transfers : t.request \in Requests
  BY Zenon, TransferFields DEF NonceInv, TypeOK, Transfers
<1>6. SentInv'
  BY Zenon, <1>1, <1>3, <1>5 DEF NonceInv, SentInv, Transfers
<1>7. CommittedInv'
  BY Zenon, <1>1 DEF NonceInv, CommittedInv, CommittedNonce
<1>8. GrantInv'
  BY Zenon, <1>1, <1>3 DEF NonceInv, GrantInv
<1>9. OrderInv'
  BY Zenon, <1>1, <1>3, <1>5 DEF OrderInv, Transfers, Working
<1> QED BY Zenon, <1>2, <1>4, <1>6, <1>7, <1>8, <1>9 DEF NonceInv

(* The clock, the sweep and stuttering.                                    *)
LEMMA QuietNonceInv ==
  ASSUME NonceInv, Tick \/ Sweep \/ UNCHANGED vars
  PROVE  NonceInv'
<1>1. UNCHANGED <<boot, lock, pc, address, claimed, outbox, accepted, replies, late>>
  BY Zenon DEF Tick, Sweep, vars
<1>2. TypeOK
  BY Zenon DEF NonceInv
<1>3. TypeOK'
  <2>1. now' \in 0..MaxTime /\ now <= now' /\ now \in Nat /\ now' \in Nat
    BY <1>2, Times DEF Tick, Sweep, vars
  <2>2. \A k \in DOMAIN entries' : entries'[k] \in 0..now
    BY Zenon, <1>2 DEF TypeOK, Tick, Sweep, vars
  <2>3. 0..now \subseteq 0..now'
    BY <2>1
  <2> QED BY Zenon, <1>1, <1>2, <2>1, <2>2, <2>3 DEF TypeOK
<1>4. LockInv' /\ SentInv' /\ OrderInv'
  BY Zenon, <1>1 DEF NonceInv, LockInv, SentInv, OrderInv, Transfers
<1>5. CommittedInv' /\ GrantInv'
  BY Zenon, <1>1 DEF NonceInv, CommittedInv, CommittedNonce, GrantInv
<1> QED BY Zenon, <1>3, <1>4, <1>5 DEF NonceInv

LEMMA NextNonceInv ==
  NonceInv /\ [Next]_vars => NonceInv'
<1> SUFFICES ASSUME NonceInv, [Next]_vars PROVE NonceInv'
  BY Zenon
<1>1. ASSUME NEW r \in Requests, Step(r) PROVE NonceInv'
  BY Zenon, <1>1, DripNonceInv, ReleaseNonceInv, EarlyNonceInv, EndNonceInv, SendNonceInv DEF Step
<1>2. ASSUME NEW t \in outbox, NodeAccepts(t) \/ NodeRefuses(t) PROVE NonceInv'
  BY Zenon, <1>2, NodeAcceptsNonceInv, NodeRefusesNonceInv
<1>3. CASE Restart
  BY Zenon, <1>3, RestartNonceInv
<1>4. CASE Tick \/ Sweep \/ UNCHANGED vars
  BY Zenon, <1>4, QuietNonceInv
<1> QED BY Zenon, <1>1, <1>2, <1>3, <1>4 DEF Next

(* The inductive invariant behind the faucet's nonces and hashes.          *)
THEOREM NonceInvHolds ==
  Spec => []NonceInv
BY InitNonceInv, NextNonceInv, PTL DEF Spec

(* submit_lock keeps two requests from reusing a nonce: of two transfers   *)
(* with one nonce the faucet has given one up.                             *)
THEOREM NoncesAreNotReused ==
  Spec => []NonceNotReused
<1>1. NonceInv => NonceNotReused
  <2> SUFFICES ASSUME NonceInv, NEW t \in Transfers, NEW u \in Transfers,
                      t # u, t.nonce = u.nonce, ~Abandoned(t), ~Abandoned(u)
               PROVE  FALSE
    BY Zenon DEF NonceNotReused, Transfers
  <2>1. /\ t.request \in Requests /\ u.request \in Requests /\ t.request # u.request
        /\ t.nonce \in Nat /\ u.nonce \in Nat
    BY Zenon, TransferFields DEF NonceInv, TypeOK, SentInv, Transfers
  <2>2. /\ pc[t.request] \in {"sending", "granted"}
        /\ pc[u.request] \in {"sending", "granted"}
    BY Zenon DEF NonceInv, SentInv, Abandoned, Sent
  <2>3. \A x \in Transfers : pc[x.request] = "granted" /\ x.request \in Requests
                               => x \in accepted
    BY DEF NonceInv, SentInv, GrantInv, Transfers
  <2>4. ~(pc[t.request] = "sending" /\ pc[u.request] = "sending")
    BY Zenon, <2>1 DEF NonceInv, LockInv, Critical
  <2>5. ~(t \in accepted /\ u \in accepted)
    BY Zenon DEF NonceInv, CommittedInv
  <2> QED BY <2>1, <2>2, <2>3, <2>4, <2>5 DEF NonceInv, OrderInv, Transfers
<1> QED BY <1>1, NonceInvHolds, PTL

(* The faucet never fabricates a hash: a granted request has its own       *)
(* transfer committed.                                                     *)
THEOREM GrantsAreFunded ==
  Spec => []GrantedIsFunded
<1>1. NonceInv => GrantedIsFunded
  BY DEF NonceInv, SentInv, GrantInv, GrantedIsFunded, Transfers
<1> QED BY <1>1, NonceInvHolds, PTL
-----------------------------------------------------------------------------

(* A slot is held for a request that did not fail: the witness of a slot   *)
(* moves on, and when it fails it takes the slot along.                    *)
THEOREM LockoutsAreFunded ==
  Spec => []LockoutMeansFunded
<1>1. Init => LockoutMeansFunded
  BY DEF Init, LockoutMeansFunded
<1>2. ASSUME TypeOK, LockoutMeansFunded, [Next]_vars PROVE LockoutMeansFunded'
  <2> USE <1>2
  <2> DEFINE Holding == Working \cup {"granted", "gone"}
  <2> SUFFICES ASSUME NEW k \in DOMAIN entries'
               PROVE  \E r \in Requests : /\ Lower[address'[r]] = k
                                          /\ claimed'[r] = entries'[k]
                                          /\ pc'[r] \in Holding
    BY Zenon DEF LockoutMeansFunded
  <2>1. ASSUME NEW r \in Requests, Drip(r), k = Key(address[r])
        PROVE  Lower[address'[r]] = k /\ claimed'[r] = entries'[k] /\ pc'[r] \in Holding
    BY Zenon, <2>1 DEF Drip, Claim, Key, TypeOK, Working
  <2>2. ASSUME \A r \in Requests : Drip(r) => k # Key(address[r])
        PROVE  \E r \in Requests : /\ Lower[address'[r]] = k
                                   /\ claimed'[r] = entries'[k]
                                   /\ pc'[r] \in Holding
    <3>1. k \in DOMAIN entries /\ entries'[k] = entries[k]
      <4>1. ASSUME NEW r \in Requests, Step(r)
            PROVE  k \in DOMAIN entries /\ entries'[k] = entries[k]
        BY ZenonT(60), <2>2, <4>1 DEF Step, Refuse, Drip, Claim, TakeLock, ReadChain, Send,
          ReadFails, Refused, TimesOut, Fail, Release, Released, Grant, Disconnect
      <4>2. ASSUME NEW t \in outbox, NodeAccepts(t) \/ NodeRefuses(t)
            PROVE  k \in DOMAIN entries /\ entries'[k] = entries[k]
        BY Zenon, <4>2 DEF NodeAccepts, NodeRefuses
      <4>3. CASE Sweep \/ Restart \/ Tick \/ UNCHANGED vars
        BY <4>3 DEF Sweep, Restart, Tick, vars
      <4> QED BY Zenon, <4>1, <4>2, <4>3 DEF Next
    <3>2. PICK r \in Requests : /\ Lower[address[r]] = k /\ claimed[r] = entries[k]
                                /\ pc[r] \in Holding
      BY Zenon, <3>1 DEF LockoutMeansFunded
    <3>3. pc[r] # "new"
      BY Zenon, <3>2 DEF Working
    <3>4. address' = address /\ claimed'[r] = claimed[r] /\ pc'[r] \in Holding
      <4>1. ASSUME NEW q \in Requests, Step(q)
            PROVE  address' = address /\ claimed'[r] = claimed[r] /\ pc'[r] \in Holding
        <5>1. address' = address /\ claimed'[r] = claimed[r]
          BY Zenon, <3>3, <4>1 DEF TypeOK, Step, Refuse, Drip, TakeLock, ReadChain, Send, ReadFails,
            Refused, TimesOut, Fail, Release, Grant, Disconnect
        <5>2. q # r => pc'[r] = pc[r]
          BY Zenon, <4>1 DEF TypeOK, Step, Refuse, Drip, TakeLock, ReadChain, Send, ReadFails,
            Refused, TimesOut, Fail, Release, Grant, Disconnect
        <5>3. q = r => ~Release(r)
          BY Zenon, <3>1, <3>2 DEF Release, Released, Key
        <5>4. q = r => pc'[r] \in Working \cup {"granted", "gone"}
          BY Zenon, <3>3, <4>1, <5>3 DEF TypeOK, Step, Refuse, Drip, TakeLock, ReadChain, Send,
            ReadFails, Refused, TimesOut, Fail, Grant, Disconnect, Working
        <5> QED BY Zenon, <3>2, <5>1, <5>2, <5>4
      <4>2. ASSUME NEW t \in outbox, NodeAccepts(t) \/ NodeRefuses(t)
            PROVE  UNCHANGED <<address, claimed, pc>>
        BY Zenon, <4>2 DEF NodeAccepts, NodeRefuses
      <4>3. CASE Restart
        BY <3>1, <4>3 DEF Restart
      <4>4. CASE Sweep \/ Tick \/ UNCHANGED vars
        BY Zenon, <3>2, <4>4 DEF Sweep, Tick, vars
      <4> QED BY Zenon, <3>2, <4>1, <4>2, <4>3, <4>4 DEF Next
    <3> QED BY Zenon, <3>1, <3>2, <3>4
  <2> QED BY Zenon, <2>1, <2>2
<1>3. NonceInv => TypeOK
  BY Zenon DEF NonceInv
<1> QED BY <1>1, <1>2, <1>3, NonceInvHolds, PTL DEF Spec
-----------------------------------------------------------------------------
(* One drip per cooldown.                                                  *)

(* At work, or granted by the process that runs.                           *)
Live(r) ==
  \/ pc[r] \in Working
  \/ pc[r] = "granted" /\ \E t \in accepted : t.request = r /\ t.boot = boot

(* A transfer remembers its request, and is of the process that waits.     *)
StampInv ==
  \A t \in Transfers : /\ t.claimed = claimed[t.request]
                       /\ t.boot <= boot
                       /\ pc[t.request] \in Working => t.boot = boot

(* While a live request cools down the ledger has an entry no older, or    *)
(* lost it to a late release.                                              *)
EntryInv ==
  \A r \in Requests : Live(r) =>
    \/ now - claimed[r] >= Cooldown
    \/ /\ Key(address[r]) \in DOMAIN entries
       /\ entries[Key(address[r])] >= claimed[r]
    \/ ReleasedLate(Key(address[r]), boot, now)

(* Live requests of one address claimed a cooldown apart, or the later one *)
(* after a late release.                                                   *)
ApartInv ==
  \A r, s \in Requests :
    Live(r) /\ Live(s) /\ r # s /\ Key(address[r]) = Key(address[s]) /\ claimed[r] <= claimed[s]
      => \/ claimed[s] - claimed[r] >= Cooldown
         \/ ReleasedLate(Key(address[s]), boot, claimed[s])

CoolInv == StampInv /\ EntryInv /\ ApartInv /\ OneDripPerCooldown

LEMMA InitCoolInv ==
  Init => CoolInv
<1> SUFFICES ASSUME Init PROVE CoolInv
  BY Zenon
<1>1. \A r \in Requests : ~Live(r) /\ pc[r] \notin Working
  BY Zenon DEF Init, Live, Working
<1> QED BY Zenon, <1>1 DEF Init, CoolInv, StampInv, EntryInv, ApartInv, OneDripPerCooldown, Transfers

(* The clock values as integers.                                           *)
LEMMA Stamps ==
  ASSUME TypeOK
  PROVE  /\ now \in Nat /\ boot \in Nat /\ Cooldown \in Nat /\ Cooldown > 0
         /\ \A r \in Requests : claimed[r] \in Nat /\ claimed[r] <= now
         /\ \A k \in DOMAIN entries : entries[k] \in Nat /\ entries[k] <= now
         /\ \A t \in Transfers : t.request \in Requests /\ t.boot \in Nat /\ t.claimed \in Nat
         /\ \A x \in late : x.at \in Nat /\ x.claimed \in Nat
<1>1. now \in Nat /\ boot \in Nat /\ Cooldown \in Nat /\ Cooldown > 0
  BY Times, FaucetAssumption
<1>2. \A r \in Requests : claimed[r] \in Nat /\ claimed[r] <= now
  BY <1>1 DEF TypeOK
<1>3. \A k \in DOMAIN entries : entries[k] \in Nat /\ entries[k] <= now
  BY <1>1 DEF TypeOK
<1>4. \A t \in Transfers : t.request \in Requests /\ t.boot \in Nat /\ t.claimed \in Nat
  BY Zenon, TransferFields DEF TypeOK, Transfers
<1>5. \A x \in late : x.at \in Nat /\ x.claimed \in Nat
  BY FaucetAssumption DEF TypeOK, LateRelease
<1> QED BY Zenon, <1>1, <1>2, <1>3, <1>4, <1>5

(* A request moves on and claims, sends and commits nothing.               *)
LEMMA CoolMoves ==
  ASSUME NonceInv, CoolInv, EntryInv', NEW r \in Requests, NEW to,
         pc' = [pc EXCEPT ![r] = to],
         to \in Working \cup {"granted"} => pc[r] \in Working,
         pc[r] \in {"releasing", "failed", "gone"} => to \in {"releasing", "failed", "gone"},
         UNCHANGED <<now, boot, address, claimed, outbox, accepted>>, late \subseteq late'
  PROVE  CoolInv'
<1>1. \A s \in Requests : pc'[s] = IF s = r THEN to ELSE pc[s]
  BY Zenon DEF NonceInv, TypeOK
<1>2. \A t \in Transfers : t.request \in Requests
  BY Zenon, Stamps DEF NonceInv
<1>3. Transfers' = Transfers
  BY Zenon DEF Transfers
<1>4. \A s \in Requests : pc'[s] \in Working => pc[s] \in Working
  BY Zenon, <1>1
<1>5. \A s \in Requests : Live(s)' => Live(s)
  BY Zenon, <1>1 DEF Live
<1>6. StampInv'
  BY Zenon, <1>2, <1>3, <1>4 DEF CoolInv, StampInv
<1>7. ApartInv'
  <2> SUFFICES ASSUME NEW x \in Requests, NEW y \in Requests, Live(x)', Live(y)', x # y,
                      Key(address[x]) = Key(address[y]), claimed[x] <= claimed[y]
               PROVE  \/ claimed[y] - claimed[x] >= Cooldown
                      \/ ReleasedLate(Key(address[y]), boot, claimed[y])'
    BY Zenon DEF ApartInv
  <2>1. Live(x) /\ Live(y)
    BY Zenon, <1>5
  <2>2. \/ claimed[y] - claimed[x] >= Cooldown
        \/ ReleasedLate(Key(address[y]), boot, claimed[y])
    BY Zenon, <2>1 DEF CoolInv, ApartInv
  <2> QED BY Zenon, <2>2 DEF ReleasedLate
<1>8. \A t \in accepted : Abandoned(t) => Abandoned(t)'
  BY Zenon, <1>1, <1>2 DEF Abandoned, Transfers
<1>9. OneDripPerCooldown'
  <2> SUFFICES ASSUME NEW t \in accepted, NEW u \in accepted, t # u, t.to = u.to,
                      t.boot = u.boot, t.claimed <= u.claimed, ~Abandoned(t), ~Abandoned(u)
               PROVE  \/ u.claimed - t.claimed >= Cooldown
                      \/ ReleasedLate(t.to, t.boot, u.claimed)'
    BY Zenon, <1>8 DEF OneDripPerCooldown
  <2>1. \/ u.claimed - t.claimed >= Cooldown
        \/ ReleasedLate(t.to, t.boot, u.claimed)
    BY Zenon DEF CoolInv, OneDripPerCooldown
  <2> QED BY Zenon, <2>1 DEF ReleasedLate
<1> QED BY Zenon, <1>6, <1>7, <1>9 DEF CoolInv

(* The ledger untouched, no request comes to life.                         *)
LEMMA EntriesKept ==
  ASSUME NonceInv, CoolInv, NEW r \in Requests, NEW to, pc' = [pc EXCEPT ![r] = to],
         to \in Working \cup {"granted"} => pc[r] \in Working,
         UNCHANGED <<now, boot, address, claimed, accepted, entries, late>>
  PROVE  EntryInv'
<1>1. \A s \in Requests : pc'[s] = IF s = r THEN to ELSE pc[s]
  BY Zenon DEF NonceInv, TypeOK
<1>2. \A s \in Requests : Live(s)' => Live(s)
  BY Zenon, <1>1 DEF Live
<1> QED BY Zenon, <1>2 DEF CoolInv, EntryInv, ReleasedLate

LEMMA PlainStepsCool ==
  ASSUME NonceInv, CoolInv, NEW r \in Requests,
         \/ Refuse(r) \/ TakeLock(r) \/ ReadChain(r) \/ ReadFails(r) \/ Refused(r)
         \/ TimesOut(r) \/ Grant(r) \/ Disconnect(r)
  PROVE  CoolInv'
<1>1. PICK to \in {"refused", "chain", "nonce", "releasing", "granted", "gone"} :
        /\ pc' = [pc EXCEPT ![r] = to]
        /\ to \in {"chain", "nonce", "releasing", "granted"} => pc[r] \in Working
        /\ pc[r] \notin {"releasing", "failed", "gone"}
        /\ UNCHANGED <<now, boot, entries, address, claimed, outbox, accepted, late>>
  BY Zenon DEF Refuse, TakeLock, ReadChain, ReadFails, Refused, TimesOut, Fail, Grant, Disconnect, Working
<1>2. to \in Working \cup {"granted"} => pc[r] \in Working
  BY Zenon, <1>1 DEF Working
<1>3. EntryInv'
  BY Zenon, <1>1, <1>2, EntriesKept
<1> QED BY Zenon, <1>1, <1>2, <1>3, CoolMoves

LEMMA SendCool ==
  ASSUME NonceInv, CoolInv, NEW r \in Requests, Send(r)
  PROVE  CoolInv'
<1> DEFINE new == [request |-> r, to |-> Lower[address[r]], nonce |-> CommittedNonce,
                   boot |-> boot, claimed |-> claimed[r]]
<1>1. /\ pc[r] = "nonce" /\ pc' = [pc EXCEPT ![r] = "sending"]
      /\ outbox' = outbox \cup {new}
      /\ UNCHANGED <<now, boot, entries, address, claimed, accepted, late>>
  BY Zenon DEF Send
<1>2. new.request = r /\ new.boot = boot /\ new.claimed = claimed[r]
  BY Zenon
<1> HIDE DEF new
<1>3. \A s \in Requests : pc'[s] = IF s = r THEN "sending" ELSE pc[s]
  BY Zenon, <1>1 DEF NonceInv, TypeOK
<1>4. \A s \in Requests : pc'[s] \in Working <=> pc[s] \in Working
  BY Zenon, <1>1, <1>3 DEF Working
<1>5. \A s \in Requests : Live(s)' <=> Live(s)
  BY <1>1, <1>3, <1>4 DEF Live
<1>6. boot \in Nat /\ \A t \in Transfers : t.request \in Requests
  BY Zenon, Stamps DEF NonceInv
<1>7. StampInv'
  BY <1>1, <1>2, <1>4, <1>6 DEF CoolInv, StampInv, Transfers
<1>8. EntryInv'
  BY Zenon, <1>1, EntriesKept DEF Working
<1>9. ApartInv'
  BY Zenon, <1>1, <1>5 DEF CoolInv, ApartInv, ReleasedLate
<1>10. OneDripPerCooldown'
  <2>1. \A t \in accepted : Abandoned(t)' <=> Abandoned(t)
    BY <1>1, <1>3, <1>6 DEF Abandoned, Transfers
  <2> QED BY Zenon, <1>1, <2>1 DEF CoolInv, OneDripPerCooldown, ReleasedLate
<1> QED BY Zenon, <1>7, <1>8, <1>9, <1>10 DEF CoolInv

LEMMA DripCool ==
  ASSUME NonceInv, CoolInv, NEW r \in Requests, Drip(r)
  PROVE  CoolInv'
<1> DEFINE k == Key(address[r])
<1>1. /\ pc[r] = "new" /\ pc' = [pc EXCEPT ![r] = "waiting"]
      /\ CanClaim(k)
      /\ claimed' = [claimed EXCEPT ![r] = now]
      /\ entries' = [x \in DOMAIN entries \cup {k} |-> IF x = k THEN now ELSE entries[x]]
      /\ UNCHANGED <<now, boot, address, outbox, accepted, late>>
  BY Zenon DEF Drip, Claim
<1>2. \A s \in Requests : /\ pc'[s] = IF s = r THEN "waiting" ELSE pc[s]
                          /\ claimed'[s] = IF s = r THEN now ELSE claimed[s]
  BY Zenon, <1>1 DEF NonceInv, TypeOK
<1>3. /\ now \in Nat /\ Cooldown \in Nat /\ Cooldown > 0
      /\ \A s \in Requests : claimed[s] \in Nat /\ claimed[s] <= now
      /\ \A x \in DOMAIN entries : entries[x] \in Nat /\ entries[x] <= now
      /\ \A t \in Transfers : t.request \in Requests
  BY Zenon, Stamps DEF NonceInv
<1>4. \A s \in Requests : s # r /\ Live(s)' => Live(s)
  BY Zenon, <1>1, <1>2 DEF Live
<1>5. \A t \in Transfers : t.request # r
  BY Zenon, <1>1 DEF NonceInv, SentInv, Sent
<1>6. \A s \in Requests : Live(s) /\ Key(address[s]) = k =>
        now - claimed[s] >= Cooldown \/ ReleasedLate(k, boot, now)
  BY <1>1, <1>3 DEF CoolInv, EntryInv, CanClaim
<1> HIDE DEF k
<1>7. StampInv'
  BY ZenonT(30), <1>1, <1>2, <1>3, <1>5 DEF CoolInv, StampInv, Transfers
<1>8. EntryInv'
  <2> SUFFICES ASSUME NEW s \in Requests, Live(s)'
               PROVE  \/ now - claimed'[s] >= Cooldown
                      \/ /\ Key(address[s]) \in DOMAIN entries'
                         /\ entries'[Key(address[s])] >= claimed'[s]
                      \/ ReleasedLate(Key(address[s]), boot, now)
    BY Zenon, <1>1 DEF EntryInv, ReleasedLate
  <2>1. CASE Key(address[s]) = k
    BY <1>1, <1>2, <1>3, <2>1
  <2>2. CASE Key(address[s]) # k
    <3>1. s # r
      BY Zenon, <2>2 DEF k
    <3>2. \/ now - claimed[s] >= Cooldown
          \/ /\ Key(address[s]) \in DOMAIN entries
             /\ entries[Key(address[s])] >= claimed[s]
          \/ ReleasedLate(Key(address[s]), boot, now)
      BY Zenon, <1>4, <3>1 DEF CoolInv, EntryInv
    <3> QED BY Zenon, <1>1, <1>2, <2>2, <3>1, <3>2
  <2> QED BY Zenon, <2>1, <2>2
<1>9. ApartInv'
  <2> SUFFICES ASSUME NEW x \in Requests, NEW y \in Requests, Live(x)', Live(y)', x # y,
                      Key(address[x]) = Key(address[y]), claimed'[x] <= claimed'[y]
               PROVE  \/ claimed'[y] - claimed'[x] >= Cooldown
                      \/ ReleasedLate(Key(address[y]), boot, claimed'[y])
    BY Zenon, <1>1 DEF ApartInv, ReleasedLate
  <2>1. CASE y = r
    BY Zenon, <1>2, <1>4, <1>6, <2>1 DEF k
  <2>2. CASE x = r
    <3>1. claimed[y] = now /\ claimed'[y] = now
      BY <1>2, <1>3, <2>2
    <3>2. ReleasedLate(k, boot, now)
      BY <1>3, <1>4, <1>6, <2>2, <3>1 DEF k
    <3> QED BY Zenon, <2>2, <3>1, <3>2 DEF k
  <2>3. CASE x # r /\ y # r
    BY Zenon, <1>2, <1>4, <2>3 DEF CoolInv, ApartInv
  <2> QED BY Zenon, <2>1, <2>2, <2>3
<1>10. OneDripPerCooldown'
  <2>1. \A t \in accepted : Abandoned(t)' <=> Abandoned(t)
    BY Zenon, <1>1, <1>2, <1>3, <1>5 DEF Abandoned, Transfers
  <2> QED BY Zenon, <1>1, <2>1 DEF CoolInv, OneDripPerCooldown, ReleasedLate
<1> QED BY Zenon, <1>7, <1>8, <1>9, <1>10 DEF CoolInv

(* A failed request within its own cooldown takes away a slot nobody live  *)
(* still needs; a later one may take another's, and is on record then.     *)
LEMMA ReleaseCool ==
  ASSUME NonceInv, CoolInv, NEW r \in Requests, Release(r)
  PROVE  CoolInv'
<1>1. /\ pc[r] = "releasing" /\ pc' = [pc EXCEPT ![r] = "failed"]
      /\ entries' = [x \in DOMAIN entries \ {Key(address[r])} |-> entries[x]]
      /\ UNCHANGED <<now, boot, address, claimed, outbox, accepted>>
  BY Zenon DEF Release, Released
<1>2. late \subseteq late' /\ (~HoldsClaim(r) => ReleaseOf(r) \in late')
  BY Zenon DEF Release
<1>3. \A s \in Requests : pc'[s] = IF s = r THEN "failed" ELSE pc[s]
  BY Zenon, <1>1 DEF NonceInv, TypeOK
<1>4. "failed" \notin Working \cup {"granted"} /\ pc[r] \in Working
  BY Zenon, <1>1 DEF Working
<1>5. /\ now \in Nat /\ Cooldown \in Nat /\ Cooldown > 0
      /\ \A s \in Requests : claimed[s] \in Nat /\ claimed[s] <= now
      /\ \A x \in DOMAIN entries : entries[x] \in Nat
      /\ \A x \in late : x.at \in Nat
  BY Zenon, Stamps DEF NonceInv
<1>6. EntryInv'
  <2> SUFFICES ASSUME NEW s \in Requests, Live(s)', ~(now - claimed[s] >= Cooldown)
               PROVE  \/ /\ Key(address[s]) \in DOMAIN entries'
                         /\ entries'[Key(address[s])] >= claimed[s]
                      \/ \E x \in late' : /\ x.to = Key(address[s]) /\ x.boot = boot /\ x.at <= now
                                          /\ x.at - x.claimed >= Cooldown
    BY Zenon, <1>1 DEF EntryInv, ReleasedLate
  <2>1. s # r /\ Live(s) /\ Live(r)
    BY Zenon, <1>1, <1>3, <1>4 DEF Live
  <2>2. \/ /\ Key(address[s]) \in DOMAIN entries
           /\ entries[Key(address[s])] >= claimed[s]
        \/ ReleasedLate(Key(address[s]), boot, now)
    BY Zenon, <1>5, <2>1 DEF CoolInv, EntryInv
  <2>3. CASE ReleasedLate(Key(address[s]), boot, now)
    BY Zenon, <1>2, <2>3 DEF ReleasedLate
  <2>4. CASE Key(address[s]) = Key(address[r]) /\ ~ReleasedLate(Key(address[s]), boot, now)
    <3>1. claimed[s] - claimed[r] >= Cooldown
      <4>1. \A n \in Nat : n <= now => ~ReleasedLate(Key(address[s]), boot, n)
        BY <1>5, <2>4 DEF ReleasedLate
      <4>2. claimed[r] <= claimed[s] => claimed[s] - claimed[r] >= Cooldown
        BY Zenon, <1>5, <2>1, <2>4, <4>1 DEF CoolInv, ApartInv
      <4>3. claimed[s] <= claimed[r] => claimed[r] - claimed[s] >= Cooldown
        BY Zenon, <1>5, <2>1, <2>4, <4>1 DEF CoolInv, ApartInv
      <4> QED BY <1>5, <4>2, <4>3
    <3>2. ~HoldsClaim(r)
      BY <1>5, <2>2, <2>4, <3>1 DEF HoldsClaim
    <3>3. ReleaseOf(r) \in late'
      BY Zenon, <1>2, <3>2
    <3>4. /\ ReleaseOf(r).to = Key(address[s]) /\ ReleaseOf(r).boot = boot
          /\ ReleaseOf(r).at = now /\ ReleaseOf(r).claimed = claimed[r]
      BY Zenon, <2>4 DEF ReleaseOf, Key
    <3> QED BY <1>5, <3>1, <3>3, <3>4
  <2>5. CASE Key(address[s]) # Key(address[r])
    BY Zenon, <1>1, <2>2, <2>3, <2>5
  <2> QED BY Zenon, <2>3, <2>4, <2>5
<1> QED BY Zenon, <1>1, <1>2, <1>4, <1>6, CoolMoves

LEMMA NodeAcceptsCool ==
  ASSUME NonceInv, CoolInv, NEW t \in outbox, NodeAccepts(t)
  PROVE  CoolInv'
<1>1. /\ outbox' = outbox \ {t} /\ accepted' = accepted \cup {t}
      /\ UNCHANGED <<now, boot, entries, pc, address, claimed, late>>
  BY Zenon DEF NodeAccepts
<1>2. t.request \in Requests /\ t \notin accepted /\ t \in Transfers
  BY Zenon, Stamps DEF NonceInv, SentInv, Transfers
<1>3. pc[t.request] # "granted"
  BY <1>2 DEF NonceInv, SentInv, GrantInv, Transfers
<1>4. \A s \in Requests : Live(s)' => Live(s)
  BY Zenon, <1>1, <1>3 DEF Live
<1>5. Transfers' = Transfers
  BY Zenon, <1>1 DEF Transfers
<1>6. StampInv'
  BY Zenon, <1>1, <1>5 DEF CoolInv, StampInv
<1>7. EntryInv' /\ ApartInv'
  BY Zenon, <1>1, <1>4 DEF CoolInv, EntryInv, ApartInv, ReleasedLate
<1>8. OneDripPerCooldown'
  <2>1. ASSUME NEW u \in accepted, u.to = t.to, u.boot = t.boot, ~Abandoned(t), ~Abandoned(u)
        PROVE  /\ t.claimed <= u.claimed => \/ u.claimed - t.claimed >= Cooldown
                                           \/ ReleasedLate(t.to, t.boot, u.claimed)
               /\ u.claimed <= t.claimed => \/ t.claimed - u.claimed >= Cooldown
                                           \/ ReleasedLate(t.to, t.boot, t.claimed)
    <3>1. u \in Transfers /\ u.request \in Requests /\ t.request # u.request
      BY Zenon, <1>2, Stamps DEF NonceInv, SentInv, Transfers
    <3>2. pc[t.request] = "sending" /\ pc[u.request] \in {"sending", "granted"}
      BY Zenon, <1>2, <1>3, <2>1, <3>1 DEF NonceInv, SentInv, Sent, Abandoned
    <3>3. t.boot = boot
      BY Zenon, <1>2, <3>2 DEF CoolInv, StampInv, Working
    <3>4. Live(t.request) /\ Live(u.request)
      BY Zenon, <2>1, <3>2, <3>3 DEF Live, Working
    <3>5. Key(address[t.request]) = t.to /\ Key(address[u.request]) = t.to
      BY Zenon, <1>2, <2>1, <3>1 DEF NonceInv, SentInv, Key
    <3>6. t.claimed = claimed[t.request] /\ u.claimed = claimed[u.request]
      BY Zenon, <1>2, <3>1 DEF CoolInv, StampInv
    <3> QED BY Zenon, <1>2, <3>1, <3>3, <3>4, <3>5, <3>6 DEF CoolInv, ApartInv
  <2>2. \A u \in Transfers : Abandoned(u)' <=> Abandoned(u)
    BY Zenon, <1>1 DEF Abandoned
  <2>3. accepted' \subseteq Transfers
    BY Zenon, <1>1, <1>2 DEF Transfers
  <2> SUFFICES ASSUME NEW v \in accepted', NEW w \in accepted', v # w, v.to = w.to,
                      v.boot = w.boot, v.claimed <= w.claimed, ~Abandoned(v), ~Abandoned(w)
               PROVE  \/ w.claimed - v.claimed >= Cooldown
                      \/ ReleasedLate(v.to, v.boot, w.claimed)
    BY Zenon, <1>1, <2>2, <2>3 DEF OneDripPerCooldown, ReleasedLate
  <2>4. CASE v = t
    BY Zenon, <1>1, <2>1, <2>4
  <2>5. CASE w = t
    BY Zenon, <1>1, <2>1, <2>5
  <2>6. CASE v \in accepted /\ w \in accepted
    BY Zenon, <2>6 DEF CoolInv, OneDripPerCooldown
  <2> QED BY Zenon, <1>1, <2>4, <2>5, <2>6
<1> QED BY Zenon, <1>6, <1>7, <1>8 DEF CoolInv

LEMMA RestartCool ==
  ASSUME NonceInv, CoolInv, Restart
  PROVE  CoolInv'
<1>1. /\ boot' = boot + 1
      /\ pc' = [r \in Requests |-> IF pc[r] \in Working THEN "gone" ELSE pc[r]]
      /\ UNCHANGED <<now, address, claimed, outbox, accepted, late>>
  BY Zenon DEF Restart
<1>2. boot \in Nat /\ \A t \in Transfers : t.request \in Requests /\ t.boot \in Nat
  BY Zenon, Stamps DEF NonceInv
<1>3. \A r \in Requests : pc'[r] \notin Working
  BY Zenon, <1>1 DEF Working
<1>4. StampInv'
  BY <1>1, <1>2, <1>3 DEF CoolInv, StampInv, Transfers
<1>5. \A t \in accepted : t.boot # boot'
  BY <1>1, <1>2 DEF CoolInv, StampInv, Transfers
<1>6. \A r \in Requests : ~Live(r)'
  BY Zenon, <1>1, <1>3, <1>5 DEF Live
<1>7. EntryInv' /\ ApartInv'
  BY Zenon, <1>6 DEF EntryInv, ApartInv
<1>8. \A t \in accepted : Abandoned(t) => Abandoned(t)'
  BY Zenon, <1>1, <1>2 DEF Abandoned, Transfers
<1>9. OneDripPerCooldown'
  BY Zenon, <1>1, <1>8 DEF CoolInv, OneDripPerCooldown, ReleasedLate
<1> QED BY Zenon, <1>4, <1>7, <1>9 DEF CoolInv

(* A refusal of the node, the clock, the sweep and stuttering.             *)
LEMMA QuietCool ==
  ASSUME NonceInv, CoolInv,
         (\E t \in outbox : NodeRefuses(t)) \/ Tick \/ Sweep \/ UNCHANGED vars
  PROVE  CoolInv'
<1>1. /\ UNCHANGED <<boot, pc, address, claimed, accepted, late>>
      /\ outbox' \subseteq outbox
  BY Zenon DEF NodeRefuses, Tick, Sweep, vars
<1>2. /\ now \in Nat /\ Cooldown \in Nat /\ Cooldown > 0
      /\ \A s \in Requests : claimed[s] \in Nat /\ claimed[s] <= now
      /\ \A x \in DOMAIN entries : entries[x] \in Nat /\ entries[x] <= now
      /\ \A x \in late : x.at \in Nat
  BY Zenon, Stamps DEF NonceInv
<1>3. \A s \in Requests : Live(s)' <=> Live(s)
  BY Zenon, <1>1 DEF Live
<1>4. StampInv'
  BY Zenon, <1>1, <1>3 DEF CoolInv, StampInv, Transfers
<1>5. ApartInv'
  BY Zenon, <1>1, <1>3 DEF CoolInv, ApartInv, ReleasedLate
<1>6. EntryInv'
  <2>1. CASE Tick
    <3> SUFFICES ASSUME NEW s \in Requests, Live(s)
                 PROVE  \/ now' - claimed[s] >= Cooldown
                        \/ /\ Key(address[s]) \in DOMAIN entries
                           /\ entries[Key(address[s])] >= claimed[s]
                        \/ ReleasedLate(Key(address[s]), boot, now')
      BY Zenon, <1>1, <1>3, <2>1 DEF EntryInv, ReleasedLate, Tick
    <3>1. \/ now - claimed[s] >= Cooldown
          \/ /\ Key(address[s]) \in DOMAIN entries
             /\ entries[Key(address[s])] >= claimed[s]
          \/ ReleasedLate(Key(address[s]), boot, now)
      BY Zenon DEF CoolInv, EntryInv
    <3>2. now' = now + 1
      BY Zenon, <2>1 DEF Tick
    <3> QED BY <1>2, <3>1, <3>2 DEF ReleasedLate
  <2>2. CASE Sweep
    <3> SUFFICES ASSUME NEW s \in Requests, Live(s)
                 PROVE  \/ now - claimed[s] >= Cooldown
                        \/ /\ Key(address[s]) \in DOMAIN entries'
                           /\ entries'[Key(address[s])] >= claimed[s]
                        \/ ReleasedLate(Key(address[s]), boot, now)
      BY Zenon, <1>1, <1>3, <2>2 DEF EntryInv, ReleasedLate, Sweep
    <3>1. \/ now - claimed[s] >= Cooldown
          \/ /\ Key(address[s]) \in DOMAIN entries
             /\ entries[Key(address[s])] >= claimed[s]
          \/ ReleasedLate(Key(address[s]), boot, now)
      BY Zenon DEF CoolInv, EntryInv
    <3> QED BY <1>2, <2>2, <3>1 DEF Sweep, Stale
  <2>3. CASE (\E t \in outbox : NodeRefuses(t)) \/ UNCHANGED vars
    BY Zenon, <1>1, <1>3, <2>3 DEF CoolInv, EntryInv, ReleasedLate, NodeRefuses, vars
  <2> QED BY Zenon, <2>1, <2>2, <2>3
<1>7. OneDripPerCooldown'
  BY ZenonT(30), <1>1 DEF CoolInv, OneDripPerCooldown, ReleasedLate, Abandoned
<1> QED BY Zenon, <1>4, <1>5, <1>6, <1>7 DEF CoolInv

(* One drip per address and cooldown, however long requests take, but for  *)
(* the one way there is around it: a request that fails after its cooldown *)
(* releases the claim of its successor.                                    *)
THEOREM DripsAreACooldownApart ==
  Spec => []OneDripPerCooldown
<1>1. NonceInv /\ CoolInv /\ [Next]_vars => CoolInv'
  <2> SUFFICES ASSUME NonceInv, CoolInv, [Next]_vars PROVE CoolInv'
    BY Zenon
  <2>1. ASSUME NEW r \in Requests, Step(r) PROVE CoolInv'
    BY Zenon, <2>1, PlainStepsCool, SendCool, DripCool, ReleaseCool DEF Step
  <2> QED BY Zenon, <2>1, NodeAcceptsCool, RestartCool, QuietCool DEF Next
<1>2. CoolInv => OneDripPerCooldown
  BY Zenon DEF CoolInv
<1> QED BY <1>1, <1>2, InitCoolInv, NonceInvHolds, PTL DEF Spec

=============================================================================
