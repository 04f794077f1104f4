------------------------------ MODULE HotStuff ------------------------------
(***************************************************************************)
(* subhost_consensus::{ValidatorRegistry, QuorumCertificate, HotStuff}:    *)
(* replicas that adopt certificates over signed (view, block) payloads.    *)
(*                                                                         *)
(* Keys, blocks and addresses are model values.  A BLS signature is the    *)
(* record of the key that made it and the payload it covers, or Garbage    *)
(* for bytes that do not decode to one; verification compares both.  That  *)
(* nobody but the holder of a key makes its signatures is an assumption of *)
(* this module on subhost_crypto, which its hash_to_g2 does not meet.  The *)
(* crate drives no votes: Sign is the environment, in which the holder of  *)
(* a registered key signs at most one block per view, or any if faulty.    *)
(***************************************************************************)
EXTENDS ConsensusConfig, Sequences, FiniteSets

CONSTANTS
  Replicas,        \* nodes, each with its own HotStuff value
  Addresses,       \* validator addresses
  Keys,            \* BLS keys
  FaultyKeys,      \* keys whose holder may sign conflicting blocks
  Blocks,          \* block hashes
  MaxView,         \* the largest view (u64::MAX)
  Garbage,         \* signature bytes that decode to no signature
  None,            \* an absent key or certificate
  Registrations,   \* <<address, key, proof of possession>> submitted
  Signers          \* sequences of addresses certificates may list

Views == 0..MaxView
Signature == [key : Keys, view : Views, block : Blocks]
(* A proof of possession: who made it, over the encoding of which key.     *)
Proof == [key : Keys, of : Keys]
Certificate ==
  [view : Views, block : Blocks,
   signatures : Seq([address : Addresses, signature : Signature \cup {Garbage}])]

ASSUME HotStuffAssumption ==
  /\ IsFiniteSet(Addresses)
  /\ FaultyKeys \subseteq Keys
  /\ MaxView \in Nat
  /\ None \notin Keys /\ None \notin Certificate
  /\ Garbage \notin Signature
  /\ Registrations \subseteq Addresses \X Keys \X Proof
  /\ Signers \subseteq Seq(Addresses)

VARIABLES
  keys,     \* ValidatorRegistry::keys, built before the replicas start
  started,  \* HotStuff::new has been given the registry
  signed,   \* signatures in existence
  view,     \* HotStuff::view of each replica
  highQc,   \* HotStuff::high_qc
  locked    \* HotStuff::locked_view

vars == <<keys, started, signed, view, highQc, locked>>
replicaVars == <<view, highQc, locked>>

Init ==
  /\ keys = [a \in Addresses |-> None]
  /\ started = FALSE
  /\ signed = {}
  /\ view = [r \in Replicas |-> 0]
  /\ highQc = [r \in Replicas |-> None]
  /\ locked = [r \in Replicas |-> 0]

-----------------------------------------------------------------------------

VerifyPossession(k, proof) == proof = [key |-> k, of |-> k]

(* The new key is in the map even when the address had one, in which case  *)
(* DuplicateValidator is returned; a failed proof of possession registers  *)
(* nothing.                                                                *)
Register(a, k, proof) ==
  /\ ~started
  /\ VerifyPossession(k, proof)
  /\ keys' = [keys EXCEPT ![a] = k]
  /\ UNCHANGED <<started, signed, replicaVars>>

(* HotStuff::new moves the registry into the replicas, which only read it. *)
Start ==
  /\ ~started
  /\ started' = TRUE
  /\ UNCHANGED <<keys, signed, replicaVars>>

Sign(k, v, b) ==
  /\ started
  /\ \E a \in Addresses : keys[a] = k
  /\ k \notin FaultyKeys =>
       \A s \in signed : s.key = k /\ s.view = v => s.block = b
  /\ signed' = signed \cup {[key |-> k, view |-> v, block |-> b]}
  /\ UNCHANGED <<keys, started, replicaVars>>

(* checked_add: an overflow is InvalidProposal.                            *)
ViewCanAdvance(r) == view[r] < MaxView

EnterNextView(r) ==
  /\ started
  /\ ViewCanAdvance(r)
  /\ view' = [view EXCEPT ![r] = @ + 1]
  /\ UNCHANGED <<keys, started, signed, highQc, locked>>

VerifiesAnyView(e, v, b) ==
  e.signature # Garbage /\ e.signature.key = keys[e.address] /\ e.signature.block = b

(* BLSScheme::verify of the entry under the registered key, idealised: the *)
(* entry verifies exactly when the holder of the key signed this payload.  *)
(* hash_to_g2 (subhost-crypto 147-155) is hash-and-multiply, not standard  *)
(* hash-to-curve: the code does not provide what is assumed here.          *)
Verifies(e, v, b) ==
  e.signature = [key |-> keys[e.address], view |-> v, block |-> b]

SignersOf(qc) == {qc.signatures[i].address : i \in DOMAIN qc.signatures}

Distinct(qc) ==
  \A i, j \in DOMAIN qc.signatures :
    qc.signatures[i].address = qc.signatures[j].address => i = j

VerifiedCount(qc) == Cardinality(SignersOf(qc))

(* The loop returns at the first entry that is malformed, unknown, invalid *)
(* or repeated, so a certificate passes it when every entry is good.       *)
ValidateQc(qc) ==
  /\ \E a \in Addresses : keys[a] # None
  /\ \A i \in DOMAIN qc.signatures :
       /\ qc.signatures[i].signature # Garbage
       /\ keys[qc.signatures[i].address] # None
       /\ Verifies(qc.signatures[i], qc.view, qc.block)
  /\ Distinct(qc)
  /\ VerifiedCount(qc) >= QuorumThreshold(ValidatorCount)

AnyView(r, qc) == TRUE

IsNewer(r, qc) == highQc[r] # None => qc.view > highQc[r].view

RaiseView(r, v) == IF view[r] >= v THEN view[r] ELSE v

UpdateHighQc(r, qc) ==
  /\ started
  /\ ValidateQc(qc)
  /\ IsNewer(r, qc)
  /\ locked' = [locked EXCEPT ![r] = qc.view]
  /\ view' = [view EXCEPT ![r] = RaiseView(r, qc.view)]
  /\ highQc' = [highQc EXCEPT ![r] = qc]
  /\ UNCHANGED <<keys, started, signed>>

IsSafeProposal(r, v) == v > locked[r] \/ highQc[r] = None

(* The certificates a peer can put together: each entry but the last has   *)
(* its address's signature on the payload, the last any signature in       *)
(* existence or garbage.  One bad entry is enough to meet every check.     *)
SignatureOf(a, v, b) == [key |-> keys[a], view |-> v, block |-> b]

CanAssemble(v, b, addrs) ==
  \A i \in 1..(Len(addrs) - 1) : SignatureOf(addrs[i], v, b) \in signed

Assembled(v, b, addrs, last) ==
  [view |-> v, block |-> b,
   signatures |-> [i \in DOMAIN addrs |->
     [address |-> addrs[i],
      signature |-> IF i = Len(addrs) THEN last ELSE SignatureOf(addrs[i], v, b)]]]

Next ==
  \/ \E reg \in Registrations : Register(reg[1], reg[2], reg[3])
  \/ Start
  \/ \E k \in Keys, v \in Views, b \in Blocks : Sign(k, v, b)
  \/ \E r \in Replicas : EnterNextView(r)
  \/ \E r \in Replicas, v \in Views, b \in Blocks, addrs \in Signers :
       /\ CanAssemble(v, b, addrs)
       /\ \E last \in signed \cup {Garbage} : UpdateHighQc(r, Assembled(v, b, addrs, last))

Spec == Init /\ [][Next]_vars

-----------------------------------------------------------------------------

(* A replica's lock is the view of its highest certificate, its own view   *)
(* is not behind it, and the certificate is backed by a quorum of distinct *)
(* registered validators whose keys really signed that view and block.     *)
LockIsCertified ==
  \A r \in Replicas :
    IF highQc[r] = None THEN locked[r] = 0
    ELSE LET qc == highQc[r]
             backers == {a \in Addresses : keys[a] # None /\
                           [key |-> keys[a], view |-> qc.view, block |-> qc.block] \in signed}
         IN  /\ locked[r] = qc.view
             /\ view[r] >= qc.view
             /\ Cardinality(SignersOf(qc) \cap backers) >= QuorumThreshold(ValidatorCount)

(* The registry the quorum sizing is meant for: one key per address, as    *)
(* many validators as the configuration counts, at most max_faulty faulty. *)
RegisteredAddresses == {a \in Addresses : keys[a] # None}
SizedRegistry ==
  /\ \A a, b \in RegisteredAddresses : keys[a] = keys[b] => a = b
  /\ Cardinality(RegisteredAddresses) = ValidatorCount
  /\ Cardinality({a \in RegisteredAddresses : keys[a] \in FaultyKeys}) <= MaxFaulty(ValidatorCount)

(* Two replicas never hold certificates for different blocks of one view   *)
(* (consensus lib.rs:35: "Derive BFT quorum sizing from a validator        *)
(* count").                                                                *)
Agreement ==
  SizedRegistry =>
    \A r, s \in Replicas :
      highQc[r] # None /\ highQc[s] # None /\ highQc[r].view = highQc[s].view
        => highQc[r].block = highQc[s].block

(* The safety rule never relaxes: views and locks only grow, and a view    *)
(* is_safe_proposal once refused stays refused.                            *)
SafetyRuleIsMonotone ==
  [][\A r \in Replicas :
       /\ view'[r] >= view[r]
       /\ \A v \in Views : IsSafeProposal(r, v)' => IsSafeProposal(r, v)]_vars

=============================================================================
