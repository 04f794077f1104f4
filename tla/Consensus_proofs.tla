------------------------- MODULE Consensus_proofs --------------------------
(***************************************************************************)
(* Locks, the safety rule and agreement of the HotStuff replicas, for any  *)
(* number of replicas, validators, views and certificates; the DAG and the *)
(* staking registry for any vertices, validators and amounts.              *)
(*                                                                         *)
(* Agreement rests on a quorum intersection, which the threshold 2f+1      *)
(* gives for 3f+1 validators only: that is the hypothesis of the theorem   *)
(* AgreementHolds, and run HotStuffFive shows that it cannot be dropped.   *)
(***************************************************************************)
EXTENDS HotStuff, Dag, Staking, Operators_proofs

TypeOK ==
  /\ keys \in [Addresses -> Keys \cup {None}]
  /\ started \in BOOLEAN
  /\ signed \subseteq Signature
  /\ view \in [Replicas -> Views]
  /\ highQc \in [Replicas -> Certificate \cup {None}]
  /\ locked \in [Replicas -> Views]

(* The holder of a key that is not faulty signs one block of a view.       *)
HonestOnce ==
  \A s, t \in signed :
    s.key = t.key /\ s.view = t.view /\ s.key \notin FaultyKeys => s.block = t.block

(* What validate_qc established of a certificate, as it is remembered.     *)
Certified(qc) ==
  /\ \A a \in SignersOf(qc) :
       /\ keys[a] # None
       /\ [key |-> keys[a], view |-> qc.view, block |-> qc.block] \in signed
  /\ Cardinality(SignersOf(qc)) >= QuorumThreshold(ValidatorCount)

(* Where a replica stands.  Registration is over once it has adopted a     *)
(* certificate, so that the signers' keys stay what they were.             *)
ReplicaInv ==
  \A r \in Replicas :
    IF highQc[r] = None THEN locked[r] = 0
    ELSE /\ started
         /\ Certified(highQc[r])
         /\ locked[r] = highQc[r].view
         /\ view[r] >= highQc[r].view

Inv == TypeOK /\ HonestOnce /\ ReplicaInv

-----------------------------------------------------------------------------

(* The certificates of the model are those of the code's type, and what    *)
(* passes validate_qc is signed by registered validators.                  *)
LEMMA ValidatedIsCertified ==
  ASSUME TypeOK,
         NEW v \in Views, NEW b \in Blocks, NEW addrs \in Signers,
         NEW last \in signed \cup {Garbage},
         CanAssemble(v, b, addrs), ValidateQc(Assembled(v, b, addrs, last))
  PROVE  /\ Assembled(v, b, addrs, last) \in Certificate
         /\ Certified(Assembled(v, b, addrs, last))
<1> DEFINE qc == Assembled(v, b, addrs, last)
<1>1. addrs \in Seq(Addresses) /\ DOMAIN addrs = 1..Len(addrs) /\ Len(addrs) \in Nat
  BY HotStuffAssumption
<1>2. /\ qc.view = v /\ qc.block = b
      /\ DOMAIN qc.signatures = 1..Len(addrs)
      /\ \A i \in 1..Len(addrs) :
           /\ qc.signatures[i].address = addrs[i]
           /\ qc.signatures[i].signature =
                IF i = Len(addrs) THEN last ELSE SignatureOf(addrs[i], v, b)
  BY Zenon, <1>1 DEF Assembled
<1>a. \A i \in DOMAIN qc.signatures :
        /\ qc.signatures[i].signature # Garbage
        /\ keys[qc.signatures[i].address] # None
        /\ qc.signatures[i].signature =
             [key |-> keys[qc.signatures[i].address], view |-> qc.view, block |-> qc.block]
  BY Zenon DEF ValidateQc, Verifies
<1>3. \A i \in 1..Len(addrs) :
        /\ keys[addrs[i]] # None
        /\ SignatureOf(addrs[i], v, b) \in signed
        /\ qc.signatures[i].signature = SignatureOf(addrs[i], v, b)
  <2> TAKE i \in 1..Len(addrs)
  <2>1. /\ keys[addrs[i]] # None
        /\ qc.signatures[i].signature # Garbage
        /\ qc.signatures[i].signature = SignatureOf(addrs[i], v, b)
    <3> HIDE DEF qc
    <3> QED BY <1>2, <1>a DEF SignatureOf
  <2>2. CASE i = Len(addrs)
    BY Zenon, <1>2, <2>1, <2>2
  <2>3. CASE i # Len(addrs)
    <3>1. \A n \in Nat : \A j \in 1..n : j # n => j \in 1..(n - 1)
      OBVIOUS
    <3>2. i \in 1..(Len(addrs) - 1)
      BY Zenon, <1>1, <2>3, <3>1
    <3> QED BY Zenon, <2>1, <3>2 DEF CanAssemble
  <2> QED BY Zenon, <2>1, <2>2, <2>3
<1>4. qc \in Certificate
  <2>1. qc = [view |-> v, block |-> b, signatures |-> qc.signatures]
    BY Zenon DEF Assembled
  <2>2. \A i \in 1..Len(addrs) :
          qc.signatures[i] \in [address : Addresses, signature : Signature \cup {Garbage}]
    <3> TAKE i \in 1..Len(addrs)
    <3>1. qc.signatures[i] = [address |-> addrs[i],
                              signature |-> qc.signatures[i].signature]
      BY Zenon, <1>1 DEF Assembled
    <3>2. qc.signatures[i].signature \in Signature /\ addrs[i] \in Addresses
      BY <1>1, <1>3 DEF TypeOK
    <3> QED BY <3>1, <3>2
  <2>3. qc.signatures = [i \in 1..Len(addrs) |-> qc.signatures[i]]
    BY Zenon, <1>1 DEF Assembled
  <2>4. qc.signatures \in Seq([address : Addresses, signature : Signature \cup {Garbage}])
    BY <1>1, <2>2, <2>3
  <2> QED BY <2>1, <2>4 DEF Certificate
<1>5. \A a \in SignersOf(qc) :
        keys[a] # None /\ [key |-> keys[a], view |-> v, block |-> b] \in signed
  <2> HIDE DEF qc
  <2> TAKE a \in SignersOf(qc)
  <2>1. PICK i \in 1..Len(addrs) : a = addrs[i]
    BY Zenon, <1>2 DEF SignersOf
  <2> QED BY Zenon, <1>3, <2>1 DEF SignatureOf
<1>6. Cardinality(SignersOf(qc)) >= QuorumThreshold(ValidatorCount)
  BY Zenon DEF ValidateQc, VerifiedCount
<1> QED BY Zenon, <1>2, <1>4, <1>5, <1>6 DEF Certified

LEMMA SignersAreAddresses ==
  ASSUME NEW qc \in Certificate
  PROVE  SignersOf(qc) \subseteq Addresses
<1> DEFINE Entry == [address : Addresses, signature : Signature \cup {Garbage}]
<1>1. qc.signatures \in Seq(Entry)
  BY Zenon DEF Certificate
<1>2. \A i \in DOMAIN qc.signatures : qc.signatures[i] \in Entry
  <2> HIDE DEF Entry
  <2> QED BY <1>1
<1> QED BY Zenon, <1>2 DEF SignersOf

(* A replica's certificate stays certified while keys stand and signatures *)
(* grow.                                                                   *)
LEMMA CertifiedIsStable ==
  ASSUME NEW r \in Replicas, Certified(highQc[r]), highQc'[r] = highQc[r],
         keys' = keys, signed \subseteq signed'
  PROVE  Certified(highQc[r])'
<1>1. SignersOf(highQc[r])' = SignersOf(highQc[r])
  BY Zenon DEF SignersOf
<1> QED BY Zenon, <1>1 DEF Certified

LEMMA InitInv ==
  Init => Inv
<1> SUFFICES ASSUME Init PROVE Inv
  BY Zenon
<1>1. 0 \in Views
  BY HotStuffAssumption DEF Views
<1>2. TypeOK
  BY Zenon, <1>1 DEF Init, TypeOK
<1>3. HonestOnce
  BY Zenon DEF Init, HonestOnce
<1>4. ReplicaInv
  BY Zenon DEF Init, ReplicaInv
<1> QED BY Zenon, <1>2, <1>3, <1>4 DEF Inv

LEMMA RegisterInv ==
  ASSUME Inv, NEW reg \in Registrations, Register(reg[1], reg[2], reg[3])
  PROVE  Inv'
<1>1. reg[1] \in Addresses /\ reg[2] \in Keys
  BY Zenon, HotStuffAssumption
<1>2. /\ keys' = [keys EXCEPT ![reg[1]] = reg[2]]
      /\ UNCHANGED <<started, signed, view, highQc, locked>>
      /\ ~started
  BY Zenon DEF Register, replicaVars
<1>3. TypeOK'
  BY Zenon, <1>1, <1>2 DEF Inv, TypeOK
<1>4. \A r \in Replicas : highQc[r] = None /\ locked[r] = 0
  BY Zenon, <1>2 DEF Inv, ReplicaInv
<1> QED BY Zenon, <1>2, <1>3, <1>4 DEF Inv, HonestOnce, ReplicaInv

LEMMA SignInv ==
  ASSUME Inv, NEW k \in Keys, NEW v \in Views, NEW b \in Blocks, Sign(k, v, b)
  PROVE  Inv'
<1> DEFINE new == [key |-> k, view |-> v, block |-> b]
<1>1. /\ signed' = signed \cup {new}
      /\ UNCHANGED <<keys, started, view, highQc, locked>>
  BY Zenon DEF Sign, replicaVars
<1>2. new \in Signature /\ new.key = k /\ new.view = v /\ new.block = b
  BY Zenon DEF Signature
<1>3. TypeOK'
  BY Zenon, <1>1, <1>2 DEF Inv, TypeOK
<1>4. HonestOnce'
  <2>1. k \notin FaultyKeys => \A s \in signed : s.key = k /\ s.view = v => s.block = b
    BY Zenon DEF Sign
  <2> QED BY <1>1, <1>2, <2>1 DEF Inv, HonestOnce
<1>5. ReplicaInv'
  <2>1. \A r \in Replicas : Certified(highQc[r]) => Certified(highQc[r])'
    BY Zenon, <1>1, CertifiedIsStable
  <2> QED BY Zenon, <1>1, <2>1 DEF Inv, ReplicaInv
<1> QED BY Zenon, <1>3, <1>4, <1>5 DEF Inv

LEMMA EnterNextViewInv ==
  ASSUME Inv, NEW r \in Replicas, EnterNextView(r)
  PROVE  Inv'
<1>1. /\ view' = [view EXCEPT ![r] = @ + 1]
      /\ view[r] < MaxView
      /\ UNCHANGED <<keys, started, signed, highQc, locked>>
  BY Zenon DEF EnterNextView, ViewCanAdvance
<1>2. TypeOK'
  BY <1>1, HotStuffAssumption DEF Inv, TypeOK, Views
<1>3. \A s \in Replicas : view'[s] >= view[s]
  BY <1>1, HotStuffAssumption DEF Inv, TypeOK, Views
<1>4. \A s \in Replicas : Certified(highQc[s]) => Certified(highQc[s])'
  BY Zenon, <1>1, CertifiedIsStable
<1>5. \A s \in Replicas : highQc[s] # None => highQc[s].view \in Nat
  BY HotStuffAssumption DEF Inv, TypeOK, Certificate, Views
<1>6. \A s \in Replicas : view[s] \in Nat /\ view'[s] \in Nat
  BY <1>2, HotStuffAssumption DEF Inv, TypeOK, Views
<1>7. ReplicaInv'
  BY <1>1, <1>3, <1>4, <1>5, <1>6 DEF Inv, ReplicaInv
<1> QED BY Zenon, <1>1, <1>2, <1>7 DEF Inv, HonestOnce

LEMMA UpdateHighQcInv ==
  ASSUME Inv, NEW r \in Replicas, NEW qc \in Certificate, Certified(qc),
         UpdateHighQc(r, qc)
  PROVE  Inv'
<1>1. /\ started
      /\ locked' = [locked EXCEPT ![r] = qc.view]
      /\ view' = [view EXCEPT ![r] = RaiseView(r, qc.view)]
      /\ highQc' = [highQc EXCEPT ![r] = qc]
      /\ UNCHANGED <<keys, started, signed>>
  BY Zenon DEF UpdateHighQc
<1>2. qc.view \in Views /\ qc # None
  BY Zenon, HotStuffAssumption DEF Certificate
<1>3. /\ RaiseView(r, qc.view) \in Views
      /\ RaiseView(r, qc.view) >= qc.view
  BY <1>2, HotStuffAssumption DEF Inv, TypeOK, RaiseView, Views
<1>4. TypeOK'
  BY Zenon, <1>1, <1>2, <1>3 DEF Inv, TypeOK
<1>7. ReplicaInv'
  <2> SUFFICES ASSUME NEW s \in Replicas
               PROVE  (IF highQc[s] = None THEN locked[s] = 0
                       ELSE /\ started
                            /\ Certified(highQc[s])
                            /\ locked[s] = highQc[s].view
                            /\ view[s] >= highQc[s].view)'
    BY Zenon DEF ReplicaInv
  <2>1. CASE s = r
    <3>1. highQc'[s] = qc /\ locked'[s] = qc.view /\ view'[s] = RaiseView(r, qc.view)
      BY Zenon, <1>1, <2>1 DEF Inv, TypeOK
    <3>2. SignersOf(highQc[s])' = SignersOf(qc)
      BY Zenon, <3>1 DEF SignersOf
    <3>3. Certified(highQc[s])'
      BY <1>1, <3>1, <3>2 DEF Certified
    <3> QED BY Zenon, <1>1, <1>2, <1>3, <3>1, <3>3
  <2>2. CASE s # r
    <3>1. highQc'[s] = highQc[s] /\ locked'[s] = locked[s] /\ view'[s] = view[s]
      BY Zenon, <1>1, <2>2 DEF Inv, TypeOK
    <3>2. Certified(highQc[s]) => Certified(highQc[s])'
      BY Zenon, <1>1, <3>1, CertifiedIsStable
    <3> QED BY Zenon, <1>1, <3>1, <3>2 DEF Inv, ReplicaInv
  <2> QED BY Zenon, <2>1, <2>2
<1> QED BY Zenon, <1>1, <1>4, <1>7 DEF Inv, HonestOnce

LEMMA NextInv ==
  Inv /\ [Next]_vars => Inv'
<1> SUFFICES ASSUME Inv, [Next]_vars PROVE Inv'
  BY Zenon
<1>1. ASSUME NEW reg \in Registrations, Register(reg[1], reg[2], reg[3]) PROVE Inv'
  BY Zenon, <1>1, RegisterInv
<1>2. CASE Start
  <2>1. started' = TRUE /\ UNCHANGED <<keys, signed, view, highQc, locked>>
    BY Zenon, <1>2 DEF Start, replicaVars
  <2>2. \A r \in Replicas : Certified(highQc[r]) => Certified(highQc[r])'
    BY Zenon, <2>1, CertifiedIsStable
  <2> QED BY Zenon, <2>1, <2>2 DEF Inv, TypeOK, HonestOnce, ReplicaInv
<1>3. ASSUME NEW k \in Keys, NEW v \in Views, NEW b \in Blocks, Sign(k, v, b) PROVE Inv'
  BY Zenon, <1>3, SignInv
<1>4. ASSUME NEW r \in Replicas, EnterNextView(r) PROVE Inv'
  BY Zenon, <1>4, EnterNextViewInv
<1>5. ASSUME NEW r \in Replicas, NEW v \in Views, NEW b \in Blocks, NEW addrs \in Signers,
             NEW last \in signed \cup {Garbage}, CanAssemble(v, b, addrs),
             UpdateHighQc(r, Assembled(v, b, addrs, last))
      PROVE  Inv'
  <2>1. /\ Assembled(v, b, addrs, last) \in Certificate
        /\ Certified(Assembled(v, b, addrs, last))
    BY Zenon, <1>5, ValidatedIsCertified DEF Inv, UpdateHighQc
  <2>2. PICK qc \in Certificate : qc = Assembled(v, b, addrs, last)
    BY Zenon, <2>1
  <2>3. Certified(qc) /\ UpdateHighQc(r, qc)
    BY Zenon, <1>5, <2>1, <2>2
  <2> QED BY Zenon, <2>3, UpdateHighQcInv
<1>6. CASE UNCHANGED vars
  <2>1. UNCHANGED <<keys, started, signed, view, highQc, locked>>
    BY Zenon, <1>6 DEF vars
  <2>2. \A r \in Replicas : Certified(highQc[r]) => Certified(highQc[r])'
    BY Zenon, <2>1, CertifiedIsStable
  <2> QED BY Zenon, <2>1, <2>2 DEF Inv, TypeOK, HonestOnce, ReplicaInv
<1> QED BY Zenon, <1>1, <1>2, <1>3, <1>4, <1>5, <1>6 DEF Next

(* The inductive invariant: types, one signature per honest key and view,  *)
(* and what a replica remembers of the certificate it adopted.             *)
THEOREM InvHolds ==
  Spec => []Inv
BY InitInv, NextInv, PTL DEF Spec

-----------------------------------------------------------------------------

(* update_high_qc leaves a replica with a lock that is the view of a       *)
(* certificate which a quorum of registered validators really signed.      *)
THEOREM LocksAreCertified ==
  Spec => []LockIsCertified
<1>1. Inv => LockIsCertified
  <2> SUFFICES ASSUME Inv, NEW r \in Replicas, highQc[r] # None
               PROVE  LET qc == highQc[r]
                          backers == {a \in Addresses : keys[a] # None /\
                            [key |-> keys[a], view |-> qc.view, block |-> qc.block] \in signed}
                      IN  /\ locked[r] = qc.view
                          /\ view[r] >= qc.view
                          /\ Cardinality(SignersOf(qc) \cap backers)
                               >= QuorumThreshold(ValidatorCount)
    BY Zenon DEF Inv, ReplicaInv, LockIsCertified
  <2> DEFINE qc == highQc[r]
             backers == {a \in Addresses : keys[a] # None /\
                [key |-> keys[a], view |-> qc.view, block |-> qc.block] \in signed}
  <2>1. SignersOf(qc) \subseteq Addresses
    BY Zenon, SignersAreAddresses DEF Inv, TypeOK
  <2>2. Certified(qc) /\ locked[r] = qc.view /\ view[r] >= qc.view
    BY Zenon DEF Inv, ReplicaInv
  <2>3. SignersOf(qc) \cap backers = SignersOf(qc)
    BY Zenon, <2>1, <2>2 DEF Certified
  <2> QED BY Zenon, <2>2, <2>3 DEF Certified
<1> QED BY <1>1, InvHolds, PTL

(* is_safe_proposal never relaxes and no view is ever lowered, whichever   *)
(* certificates arrive in whichever order.                                 *)
THEOREM SafetyRuleNeverRelaxes ==
  Spec => SafetyRuleIsMonotone
<1> DEFINE Monotone ==
      \A r \in Replicas :
        /\ view'[r] >= view[r]
        /\ \A v \in Views : IsSafeProposal(r, v)' => IsSafeProposal(r, v)
<1>1. Inv /\ [Next]_vars => [Monotone]_vars
  <2> SUFFICES ASSUME Inv, Next PROVE Monotone
    BY Zenon
  <2>0. \A r \in Replicas : view[r] \in Int /\ locked[r] \in Int
    BY HotStuffAssumption DEF Inv, TypeOK, Views
  <2>1. CASE UNCHANGED <<view, highQc, locked>>
    BY <2>0, <2>1 DEF IsSafeProposal
  <2>2. ASSUME NEW r \in Replicas, EnterNextView(r) PROVE Monotone
    <3>1. view' = [view EXCEPT ![r] = @ + 1] /\ UNCHANGED <<highQc, locked>>
      BY Zenon, <2>2 DEF EnterNextView
    <3>2. view \in [Replicas -> Views]
      BY Zenon DEF Inv, TypeOK
    <3> QED BY <2>0, <3>1, <3>2 DEF IsSafeProposal
  <2>3. ASSUME NEW r \in Replicas, NEW qc \in Certificate, UpdateHighQc(r, qc)
        PROVE  Monotone
    <3>1. /\ highQc[r] # None => qc.view > highQc[r].view
          /\ locked' = [locked EXCEPT ![r] = qc.view]
          /\ view' = [view EXCEPT ![r] = RaiseView(r, qc.view)]
          /\ highQc' = [highQc EXCEPT ![r] = qc]
      BY Zenon, <2>3 DEF UpdateHighQc, IsNewer
    <3>2. qc # None /\ qc.view \in Int
      BY HotStuffAssumption DEF Certificate, Views
    <3>3. highQc[r] # None => locked[r] = highQc[r].view
      BY Zenon DEF Inv, ReplicaInv
    <3>4. RaiseView(r, qc.view) >= view[r]
      BY <2>0, <3>2 DEF RaiseView
    <3>5. ASSUME NEW s \in Replicas, NEW v \in Views
          PROVE  view'[s] >= view[s] /\ (IsSafeProposal(s, v)' => IsSafeProposal(s, v))
      <4>0. v \in Int
        BY HotStuffAssumption DEF Views
      <4>1. CASE s = r
        <5>1. view'[s] = RaiseView(r, qc.view) /\ locked'[s] = qc.view /\ highQc'[s] = qc
          BY Zenon, <3>1, <4>1 DEF Inv, TypeOK
        <5> QED BY <2>0, <3>1, <3>2, <3>3, <3>4, <4>0, <4>1, <5>1 DEF IsSafeProposal
      <4>2. CASE s # r
        <5>1. view'[s] = view[s] /\ locked'[s] = locked[s] /\ highQc'[s] = highQc[s]
          BY Zenon, <3>1, <4>2 DEF Inv, TypeOK
        <5> QED BY <2>0, <5>1 DEF IsSafeProposal
      <4> QED BY Zenon, <4>1, <4>2
    <3>6. 0 \in Views
      BY HotStuffAssumption DEF Views
    <3> QED BY Zenon, <3>5, <3>6
  <2>4. ASSUME NEW r \in Replicas, NEW v \in Views, NEW b \in Blocks, NEW addrs \in Signers,
               NEW last \in signed \cup {Garbage}, CanAssemble(v, b, addrs),
               UpdateHighQc(r, Assembled(v, b, addrs, last))
        PROVE  Monotone
    <3>1. PICK qc \in Certificate : qc = Assembled(v, b, addrs, last)
      BY Zenon, <2>4, ValidatedIsCertified DEF Inv, UpdateHighQc
    <3> HIDE DEF Monotone
    <3> QED BY Zenon, <2>3, <2>4, <3>1
  <2> HIDE DEF Monotone
  <2>5. ASSUME NEW reg \in Registrations, Register(reg[1], reg[2], reg[3]) PROVE Monotone
    BY Zenon, <2>1, <2>5 DEF Register, replicaVars
  <2>6. CASE Start
    BY Zenon, <2>1, <2>6 DEF Start, replicaVars
  <2>7. ASSUME NEW k \in Keys, NEW v \in Views, NEW b \in Blocks, Sign(k, v, b)
        PROVE  Monotone
    BY Zenon, <2>1, <2>7 DEF Sign, replicaVars
  <2> QED BY Zenon, <2>2, <2>4, <2>5, <2>6, <2>7 DEF Next
<1> QED BY <1>1, InvHolds, PTL DEF Spec, SafetyRuleIsMonotone

-----------------------------------------------------------------------------

(* Of 3f+1 validators, at most f of them faulty, two quorums of 2f+1 share *)
(* one that is not faulty.                                                 *)
LEMMA QuorumsShareAnHonest ==
  ASSUME NEW f \in Nat, NEW V, IsFiniteSet(V), Cardinality(V) = 3 * f + 1,
         NEW Bad \in SUBSET V, Cardinality(Bad) <= f,
         NEW P \in SUBSET V, Cardinality(P) >= 2 * f + 1,
         NEW Q \in SUBSET V, Cardinality(Q) >= 2 * f + 1
  PROVE  \E a \in P \cap Q : a \notin Bad
<1>1. /\ IsFiniteSet(P) /\ IsFiniteSet(Q) /\ IsFiniteSet(P \cap Q) /\ IsFiniteSet(Bad)
      /\ IsFiniteSet(P \cup Q) /\ Cardinality(P \cup Q) <= Cardinality(V)
  <2>1. P \cap Q \in SUBSET V /\ P \cup Q \in SUBSET V
    BY Zenon
  <2> QED BY Zenon, <2>1, FS_Subset
<1>2. Cardinality(P \cup Q) = Cardinality(P) + Cardinality(Q) - Cardinality(P \cap Q)
  BY Zenon, <1>1, FS_Union
<1>3. /\ Cardinality(P) \in Nat /\ Cardinality(Q) \in Nat /\ Cardinality(P \cap Q) \in Nat
      /\ Cardinality(Bad) \in Nat
  BY Zenon, <1>1, FS_CardinalityType
<1>4. Cardinality(P \cap Q) > Cardinality(Bad)
  BY <1>1, <1>2, <1>3
<1> QED
  <2> SUFFICES ASSUME P \cap Q \subseteq Bad PROVE FALSE
    BY Zenon
  <2>1. Cardinality(P \cap Q) <= Cardinality(Bad)
    BY Zenon, <1>1, FS_Subset
  <2> QED BY <1>3, <1>4, <2>1

(* Two replicas never adopt certificates for different blocks of one view, *)
(* when the validator count is 3f+1 for the f that ConsensusConfig derives *)
(* from it.                                                                *)
THEOREM AgreementHolds ==
  ASSUME ValidatorCount = 3 * MaxFaulty(ValidatorCount) + 1
  PROVE  Spec => []Agreement
<1>1. Inv => Agreement
  <2> SUFFICES ASSUME Inv, SizedRegistry, NEW r \in Replicas, NEW s \in Replicas,
                      highQc[r] # None, highQc[s] # None,
                      highQc[r].view = highQc[s].view
               PROVE  highQc[r].block = highQc[s].block
    BY Zenon DEF Agreement
  <2> DEFINE f == MaxFaulty(ValidatorCount)
             Bad == {a \in RegisteredAddresses : keys[a] \in FaultyKeys}
             P == SignersOf(highQc[r])
             Q == SignersOf(highQc[s])
  <2>1. f \in Nat /\ QuorumThreshold(ValidatorCount) = 2 * f + 1
    BY ConfigAssumption DEF MaxFaulty, QuorumThreshold
  <2>2. /\ IsFiniteSet(RegisteredAddresses) /\ Cardinality(RegisteredAddresses) = 3 * f + 1
        /\ Cardinality(Bad) <= f /\ Bad \in SUBSET RegisteredAddresses
    <3>1. RegisteredAddresses \in SUBSET Addresses
      BY Zenon DEF RegisteredAddresses
    <3> QED BY Zenon, <3>1, HotStuffAssumption, FS_Subset DEF SizedRegistry
  <2>3. Certified(highQc[r]) /\ Certified(highQc[s])
    BY Zenon DEF Inv, ReplicaInv
  <2>4. ASSUME NEW x \in Replicas, highQc[x] # None
        PROVE  SignersOf(highQc[x]) \subseteq Addresses
    BY Zenon, <2>4, SignersAreAddresses DEF Inv, TypeOK
  <2>5. P \in SUBSET RegisteredAddresses /\ Q \in SUBSET RegisteredAddresses
    BY Zenon, <2>3, <2>4 DEF Certified, RegisteredAddresses
  <2>6. Cardinality(P) >= 2 * f + 1 /\ Cardinality(Q) >= 2 * f + 1
    BY Zenon, <2>1, <2>3 DEF Certified
  <2>7. PICK a \in P \cap Q : a \notin Bad
    <3> HIDE DEF f, Bad, P, Q
    <3> QED BY <2>1, <2>2, <2>5, <2>6, QuorumsShareAnHonest
  <2>8. keys[a] \notin FaultyKeys
    BY Zenon, <2>5, <2>7
  <2> DEFINE one == [key |-> keys[a], view |-> highQc[r].view, block |-> highQc[r].block]
             two == [key |-> keys[a], view |-> highQc[s].view, block |-> highQc[s].block]
  <2>9. one \in signed /\ two \in signed
    BY Zenon, <2>3, <2>7 DEF Certified
  <2> QED BY Zenon, <2>8, <2>9 DEF Inv, HonestOnce
<1> QED BY <1>1, InvHolds, PTL

-----------------------------------------------------------------------------
(* The DAG.                                                                *)

(* The indexes describe the vertices that are held, and what is held as    *)
(* committed was committed.                                                *)
DagInv ==
  /\ vertices \subseteq Vertices
  /\ DOMAIN index = {v.id : v \in vertices}
  /\ \A v \in vertices : index[v.id] = v.round
  /\ committed \subseteq DOMAIN index
  /\ committed \subseteq everCommitted
  /\ CommittedHasSupport
  /\ ParentsHeldOrCommitted

(* The authors are finitely many, so that support can be counted.          *)
LEMMA AuthorsFinite == IsFiniteSet({v.author : v \in Vertices})
<1> DEFINE A == {v.author : v \in Vertices}
           f == [v \in Vertices |-> v.author]
<1>1. f \in Surjection(Vertices, A)
  BY Zenon DEF Surjection
<1> QED BY Zenon, <1>1, FS_Surjection, DagAssumption

(* More vertices give no less support.                                     *)
LEMMA SupportGrows ==
  ASSUME NEW S, NEW T, S \subseteq T, T \subseteq {v.author : v \in Vertices},
         Cardinality(S) >= QuorumThreshold(ValidatorCount)
  PROVE  Cardinality(T) >= QuorumThreshold(ValidatorCount)
<1>1. IsFiniteSet(T) /\ IsFiniteSet(S)
  BY Zenon, AuthorsFinite, FS_Subset
<1>2. Cardinality(S) <= Cardinality(T) /\ Cardinality(S) \in Nat /\ Cardinality(T) \in Nat
  BY Zenon, <1>1, FS_Subset, FS_CardinalityType
<1>3. QuorumThreshold(ValidatorCount) \in Int
  BY ConfigAssumption DEF QuorumThreshold, MaxFaulty
<1> QED BY <1>2, <1>3

(* The support of a held hash is the number of its supporters.             *)
LEMMA SupportOfHeld ==
  ASSUME NEW h \in DOMAIN index
  PROVE  HasQuorumSupport(h)
           <=> Cardinality(Supporters(h)) >= QuorumThreshold(ValidatorCount)
BY Zenon DEF HasQuorumSupport, SupportFor

LEMMA AddVertexStep ==
  ASSUME DagInv, NEW v \in Vertices, AddVertex(v)
  PROVE  DagInv'
<1>1. /\ vertices' = vertices \cup {v} /\ committed' = committed
      /\ everCommitted' = everCommitted
      /\ DOMAIN index' = DOMAIN index \cup {v.id} /\ v.id \notin DOMAIN index
      /\ index'[v.id] = v.round
      /\ \A h \in DOMAIN index : index'[h] = index[h]
  BY Zenon DEF AddVertex, Admissible
<1>2. /\ vertices' \subseteq Vertices
      /\ DOMAIN index' = {w.id : w \in vertices'}
  BY <1>1 DEF DagInv
<1>3. \A w \in vertices' : index'[w.id] = w.round
  <2>1. \A w \in vertices : w.id \in DOMAIN index
    BY Zenon DEF DagInv
  <2> QED BY Zenon, <1>1, <2>1 DEF DagInv
<1>4. committed' \subseteq DOMAIN index' /\ committed' \subseteq everCommitted'
  BY Zenon, <1>1 DEF DagInv
<1>5. CommittedHasSupport'
  <2> SUFFICES ASSUME NEW h \in committed PROVE HasQuorumSupport(h)'
    BY Zenon, <1>1 DEF CommittedHasSupport
  <2>1. h \in DOMAIN index /\ h \in DOMAIN index' /\ index'[h] = index[h]
    BY Zenon, <1>1 DEF DagInv
  <2>2. Supporters(h) \subseteq Supporters(h)'
    BY Zenon, <1>1, <2>1 DEF Supporters
  <2>3. Supporters(h)' \subseteq {w.author : w \in Vertices}
    BY Zenon, <1>2 DEF Supporters
  <2>4. Cardinality(Supporters(h)) >= QuorumThreshold(ValidatorCount)
    BY Zenon, <2>1, SupportOfHeld DEF DagInv, CommittedHasSupport
  <2>5. Cardinality(Supporters(h)') >= QuorumThreshold(ValidatorCount)
    BY Zenon, <2>2, <2>3, <2>4, SupportGrows
  <2> QED BY Zenon, <2>1, <2>5 DEF HasQuorumSupport, SupportFor
<1>6. ParentsHeldOrCommitted'
  BY Zenon, <1>1 DEF DagInv, ParentsHeldOrCommitted, AddVertex, Admissible
<1> QED BY Zenon, <1>2, <1>3, <1>4, <1>5, <1>6 DEF DagInv

(* gc drops only committed vertices below the cutoff: a commit that it     *)
(* keeps is at or above the cutoff, and its supporters one round higher.   *)
LEMMA GcStep ==
  ASSUME DagInv, NEW keep \in KeepRounds, Gc(keep)
  PROVE  DagInv'
<1>1. PICK latest \in {v.round : v \in vertices} \cup {0} :
        LET live == Survivors(Cutoff(latest, keep))
            ids  == {v.id : v \in live}
        IN  /\ vertices' = live
            /\ index' = [h \in DOMAIN index \cap ids |-> index[h]]
            /\ committed' = committed \cap ids
            /\ everCommitted' = everCommitted
  BY Zenon DEF Gc, StillCommitted
<1> DEFINE cutoff == Cutoff(latest, keep)
           live == Survivors(cutoff)
           ids == {v.id : v \in live}
<1>2. /\ vertices' = live /\ committed' = committed \cap ids
      /\ index' = [h \in DOMAIN index \cap ids |-> index[h]]
      /\ everCommitted' = everCommitted
  BY Zenon, <1>1
<1>3. cutoff \in Nat /\ \A v \in Vertices : v.round \in Nat
  BY DagAssumption DEF Cutoff, DagInv
<1> HIDE DEF cutoff
<1>4. /\ live \subseteq vertices
      /\ \A v \in vertices : v \in live <=> v.round >= cutoff \/ v.id \notin committed
  BY Zenon DEF Survivors
<1> HIDE DEF live
<1>5. /\ \A v \in vertices : v \in Vertices /\ v.id \in DOMAIN index /\ index[v.id] = v.round
      /\ \A h \in DOMAIN index : \E v \in vertices : v.id = h
  BY Zenon DEF DagInv
<1>6. ids \subseteq DOMAIN index
  BY Zenon, <1>4, <1>5
<1>7. /\ vertices' \subseteq Vertices
      /\ DOMAIN index' = {v.id : v \in vertices'}
      /\ \A h \in ids : index'[h] = index[h]
  BY Zenon, <1>2, <1>4, <1>5, <1>6
<1>8. \A v \in vertices' : index'[v.id] = v.round
  BY Zenon, <1>2, <1>4, <1>5, <1>7
<1>9. committed' \subseteq DOMAIN index' /\ committed' \subseteq everCommitted'
  BY Zenon, <1>2, <1>6 DEF DagInv
<1>10. CommittedHasSupport'
  <2> SUFFICES ASSUME NEW h \in committed, h \in ids PROVE HasQuorumSupport(h)'
    BY Zenon, <1>2 DEF CommittedHasSupport
  <2>1. h \in DOMAIN index /\ h \in DOMAIN index' /\ index'[h] = index[h]
    BY Zenon, <1>2, <1>6, <1>7
  <2>2. PICK v \in live : v.id = h
    BY Zenon
  <2>3. v.round >= cutoff /\ index[h] = v.round /\ v.round \in Nat
    BY Zenon, <1>3, <1>4, <1>5, <2>2
  <2>4. \A w \in vertices : w.round = index[h] + 1 => w \in live
    BY <1>3, <1>4, <2>3
  <2>5. Supporters(h)' = Supporters(h)
    BY Zenon, <1>2, <1>4, <2>1, <2>4 DEF Supporters
  <2>6. Cardinality(Supporters(h)) >= QuorumThreshold(ValidatorCount)
    BY Zenon, <2>1, SupportOfHeld DEF DagInv, CommittedHasSupport
  <2> QED BY Zenon, <2>1, <2>5, <2>6 DEF HasQuorumSupport, SupportFor
<1>11. ParentsHeldOrCommitted'
  <2> SUFFICES ASSUME NEW v \in live, v.round > 1
               PROVE  v.parents # {} /\ v.parents \subseteq DOMAIN index' \cup everCommitted
    BY Zenon, <1>2 DEF ParentsHeldOrCommitted
  <2>1. v.parents # {} /\ v.parents \subseteq DOMAIN index \cup everCommitted
    BY Zenon, <1>4 DEF DagInv, ParentsHeldOrCommitted
  <2>2. ASSUME NEW h \in DOMAIN index PROVE h \in DOMAIN index' \cup everCommitted
    <3>1. PICK u \in vertices : u.id = h
      BY Zenon, <1>5
    <3>2. CASE u \in live
      BY Zenon, <1>2, <3>1, <3>2
    <3>3. CASE u \notin live
      BY Zenon, <1>4, <3>1, <3>3 DEF DagInv
    <3> QED BY Zenon, <3>2, <3>3
  <2> QED BY Zenon, <2>1, <2>2
<1> QED BY Zenon, <1>7, <1>8, <1>9, <1>10, <1>11 DEF DagInv

(* Admissions, commitments and collections in any order keep it.           *)
THEOREM DagInvHolds == DagSpec => []DagInv
<1>1. DagInit => DagInv
  BY DEF DagInit, DagInv, CommittedHasSupport, ParentsHeldOrCommitted
<1>2. DagInv /\ [DagNext]_dagVars => DagInv'
  <2> SUFFICES ASSUME DagInv, [DagNext]_dagVars PROVE DagInv'
    BY Zenon
  <2>1. ASSUME NEW v \in Vertices, AddVertex(v) PROVE DagInv'
    BY Zenon, <2>1, AddVertexStep
  <2>2. ASSUME NEW h \in Ids, MarkCommitted(h) PROVE DagInv'
    <3>1. /\ h \in DOMAIN index /\ HasQuorumSupport(h)
          /\ vertices' = vertices /\ index' = index /\ committed' = committed \cup {h}
          /\ everCommitted' = everCommitted \cup {h}
      BY Zenon, <2>2 DEF MarkCommitted, CanCommit
    <3>2. \A x : HasQuorumSupport(x)' <=> HasQuorumSupport(x)
      BY Zenon, <3>1 DEF HasQuorumSupport, SupportFor, Supporters
    <3>3. CommittedHasSupport'
      BY Zenon, <3>1, <3>2 DEF DagInv, CommittedHasSupport
    <3>4. ParentsHeldOrCommitted'
      BY Zenon, <3>1 DEF DagInv, ParentsHeldOrCommitted
    <3> QED BY Zenon, <3>1, <3>3, <3>4 DEF DagInv
  <2>3. ASSUME NEW keep \in KeepRounds, Gc(keep) PROVE DagInv'
    BY Zenon, <2>3, GcStep
  <2>4. CASE UNCHANGED dagVars
    BY Zenon, <2>4
    DEF dagVars, DagInv, CommittedHasSupport, ParentsHeldOrCommitted,
        HasQuorumSupport, SupportFor, Supporters
  <2> QED BY Zenon, <2>1, <2>2, <2>3, <2>4 DEF DagNext
<1> QED BY <1>1, <1>2, PTL DEF DagSpec

(* Collection never takes the support from under a commit it keeps.        *)
THEOREM CommitsKeepSupport == DagSpec => []CommittedHasSupport
<1>1. DagInv => CommittedHasSupport
  BY Zenon DEF DagInv
<1> QED BY <1>1, DagInvHolds, PTL

(* No vertex dangles: its parents are held or were committed.              *)
THEOREM HistoryIsClosed == DagSpec => []ParentsHeldOrCommitted
<1>1. DagInv => ParentsHeldOrCommitted
  BY Zenon DEF DagInv
<1> QED BY <1>1, DagInvHolds, PTL

-----------------------------------------------------------------------------
(* The staking registry.                                                   *)

StakingTypeOK ==
  /\ stake \in [Registered -> Nat]
  /\ Registered \subseteq Validators /\ IsFiniteSet(Registered)
  /\ delegations \in [DOMAIN delegations -> Nat] /\ IsFiniteSet(DOMAIN delegations)
  /\ DOMAIN delegations \subseteq Delegators \X Validators
  /\ selfStake \in [Registered -> Nat]
  /\ slashings \in Seq(Evidence)
  /\ net \in Int

StakingInv ==
  StakingTypeOK /\ NothingStranded /\ UnslashedStakeIsExact /\ StakeNeverLost

(* The keys of the delegations to one validator.                           *)
To(f, v) == {k \in DOMAIN f : k[2] = v}

(* The sums of the model as those of Operators_proofs.                     *)
LEMMA DelegatedIsSum ==
  ASSUME NEW v
  PROVE  /\ DelegatedTo(v) = Sum(delegations, To(delegations, v))
         /\ DelegatedTo(v)' = Sum(delegations', To(delegations', v))
BY Zenon DEF DelegatedTo, To, MapThenSumSet, MapThenFoldSet, Sum, Solution, IsSum, Pick

LEMMA TotalIsSum ==
  /\ TotalStake = Sum(stake, DOMAIN stake)
  /\ TotalStake' = Sum(stake', DOMAIN stake')
BY Zenon DEF TotalStake, Registered, MapThenSumSet, MapThenFoldSet, Sum, Solution, IsSum, Pick

(* HashMap::insert, of a new key or over an old one.                       *)
LEMMA InsertSum ==
  ASSUME NEW f, NEW S, S \subseteq DOMAIN f, IsFiniteSet(S), \A y \in S : f[y] \in Nat,
         NEW k, NEW x \in Nat, k \in DOMAIN f => k \in S
  PROVE  Sum(Insert(f, k, x), S \cup {k})
           = Sum(f, S) - (IF k \in S THEN f[k] ELSE 0) + x
<1> DEFINE g == Insert(f, k, x)
<1>1. g[k] = x /\ \A y \in S \ {k} : g[y] = f[y]
  BY Zenon DEF Insert
<1> HIDE DEF g
<1>2. Sum(f, S) \in Int
  BY SumTake
<1>3. CASE k \in S
  <2>1. S \cup {k} = S
    BY Zenon, <1>3
  <2>2. \A y \in S : f[y] \in Int /\ g[y] \in Int
    BY <1>1
  <2>3. \A y \in S \ {k} : f[y] = g[y]
    BY Zenon, <1>1
  <2>4. Sum(g, S) = Sum(f, S) - f[k] + g[k]
    BY <1>3, <2>2, <2>3, SumChange
  <2> QED BY Zenon, <1>1, <1>3, <2>1, <2>4 DEF g
<1>4. CASE k \notin S
  <2>1. (\A y \in S : f[y] \in Int /\ g[y] = f[y]) /\ g[k] \in Int
    BY <1>1, <1>4
  <2>2. Sum(g, S \cup {k}) = Sum(f, S) + g[k]
    BY <1>4, <2>1, SumInsert
  <2> QED BY <1>1, <1>2, <1>4, <2>2 DEF g
<1> QED BY Zenon, <1>3, <1>4

(* HashMap::remove.                                                        *)
LEMMA RemoveSum ==
  ASSUME NEW f, NEW S, S \subseteq DOMAIN f, IsFiniteSet(S), \A y \in S : f[y] \in Nat,
         NEW k \in S
  PROVE  Sum(Remove(f, {k}), S \ {k}) = Sum(f, S) - f[k]
<1> DEFINE g == Remove(f, {k})
<1>1. \A y \in S \ {k} : g[y] = f[y]
  BY Zenon DEF Remove
<1>2. \A y \in S : f[y] \in Int
  OBVIOUS
<1> HIDE DEF g
<1>3. Sum(g, S \ {k}) = Sum(f, S) - f[k]
  BY <1>1, <1>2, SumRemove
<1> QED BY Zenon, <1>3 DEF g

(* What one delegation's change does to the sums of all validators.        *)
LEMMA DelegationInsert ==
  ASSUME StakingTypeOK, NEW d \in Delegators, NEW v \in Validators, NEW x \in Nat,
         delegations' = Insert(delegations, <<d, v>>, x)
  PROVE  /\ delegations' \in [DOMAIN delegations' -> Nat]
         /\ IsFiniteSet(DOMAIN delegations')
         /\ DOMAIN delegations' = DOMAIN delegations \cup {<<d, v>>}
         /\ delegations'[<<d, v>>] = x
         /\ \A k \in DOMAIN delegations \ {<<d, v>>} : delegations'[k] = delegations[k]
         /\ DelegatedTo(v)' = DelegatedTo(v) - Delegated(d, v) + x
         /\ \A w \in Validators \ {v} : DelegatedTo(w)' = DelegatedTo(w)
<1> DEFINE f == delegations
           k == <<d, v>>
           g == Insert(f, k, x)
<1>1. f \in [DOMAIN f -> Nat] /\ IsFiniteSet(DOMAIN f)
  BY Zenon DEF StakingTypeOK
<1>2. /\ DOMAIN g = DOMAIN f \cup {k} /\ g \in [DOMAIN g -> Nat] /\ g[k] = x
      /\ \A y \in DOMAIN f \ {k} : g[y] = f[y]
  BY Zenon, <1>1 DEF Insert
<1>3. IsFiniteSet(DOMAIN g)
  BY <1>1, <1>2, FS_AddElement
<1>4. To(g, v) = To(f, v) \cup {k} /\ (k \in DOMAIN f => k \in To(f, v))
  BY <1>2 DEF To
<1>5. /\ To(f, v) \subseteq DOMAIN f /\ IsFiniteSet(To(f, v))
      /\ \A y \in To(f, v) : f[y] \in Nat
  BY Zenon, <1>1, FS_Subset DEF To
<1>6. Sum(g, To(f, v) \cup {k})
        = Sum(f, To(f, v)) - (IF k \in To(f, v) THEN f[k] ELSE 0) + x
  BY <1>4, <1>5, InsertSum
<1>7. Delegated(d, v) = IF k \in To(f, v) THEN f[k] ELSE 0
  BY Zenon, <1>4, <1>5 DEF Delegated
<1>8. DelegatedTo(v)' = DelegatedTo(v) - Delegated(d, v) + x
  BY Zenon, <1>4, <1>6, <1>7, DelegatedIsSum
<1>9. ASSUME NEW w \in Validators, w # v
      PROVE  DelegatedTo(w)' = DelegatedTo(w)
  <2>1. To(g, w) = To(f, w) /\ k \notin To(f, w)
    BY <1>2, <1>9 DEF To
  <2>2. IsFiniteSet(To(f, w)) /\ \A y \in To(f, w) : g[y] = f[y]
    BY Zenon, <1>1, <1>2, <2>1, FS_Subset DEF To
  <2>3. Sum(g, To(f, w)) = Sum(f, To(f, w))
    BY Zenon, <2>2, SumSame
  <2> QED BY Zenon, <2>1, <2>3, DelegatedIsSum
<1> QED BY Zenon, <1>2, <1>3, <1>8, <1>9

LEMMA DelegationRemove ==
  ASSUME StakingTypeOK, NEW d \in Delegators, NEW v \in Validators,
         <<d, v>> \in DOMAIN delegations,
         delegations' = Remove(delegations, {<<d, v>>})
  PROVE  /\ delegations' \in [DOMAIN delegations' -> Nat]
         /\ IsFiniteSet(DOMAIN delegations')
         /\ DOMAIN delegations' = DOMAIN delegations \ {<<d, v>>}
         /\ \A k \in DOMAIN delegations' : delegations'[k] = delegations[k]
         /\ DelegatedTo(v)' = DelegatedTo(v) - delegations[<<d, v>>]
         /\ \A w \in Validators \ {v} : DelegatedTo(w)' = DelegatedTo(w)
<1> DEFINE f == delegations
           k == <<d, v>>
           g == Remove(f, {k})
<1>1. f \in [DOMAIN f -> Nat] /\ IsFiniteSet(DOMAIN f)
  BY Zenon DEF StakingTypeOK
<1>2. /\ DOMAIN g = DOMAIN f \ {k} /\ g \in [DOMAIN g -> Nat]
      /\ \A y \in DOMAIN g : g[y] = f[y]
  BY Zenon, <1>1 DEF Remove
<1>3. IsFiniteSet(DOMAIN g)
  BY Zenon, <1>1, <1>2, FS_Subset
<1>4. To(g, v) = To(f, v) \ {k} /\ k \in To(f, v)
  BY Zenon, <1>2 DEF To
<1>5. /\ To(f, v) \subseteq DOMAIN f /\ IsFiniteSet(To(f, v))
      /\ \A y \in To(f, v) : f[y] \in Nat
  BY Zenon, <1>1, FS_Subset DEF To
<1>6. Sum(g, To(f, v) \ {k}) = Sum(f, To(f, v)) - f[k]
  BY Zenon, <1>4, <1>5, RemoveSum
<1>7. DelegatedTo(v)' = DelegatedTo(v) - f[k]
  BY Zenon, <1>4, <1>6, DelegatedIsSum
<1>8. ASSUME NEW w \in Validators, w # v
      PROVE  DelegatedTo(w)' = DelegatedTo(w)
  <2>1. To(g, w) = To(f, w)
    BY <1>2, <1>8 DEF To
  <2>2. IsFiniteSet(To(f, w)) /\ \A y \in To(f, w) : g[y] = f[y]
    BY Zenon, <1>1, <1>2, <2>1, FS_Subset DEF To
  <2>3. Sum(g, To(f, w)) = Sum(f, To(f, w))
    BY Zenon, <2>2, SumSame
  <2> QED BY Zenon, <2>1, <2>3, DelegatedIsSum
<1> QED BY Zenon, <1>2, <1>3, <1>7, <1>8

(* A validator's delegations add up to a natural number of which each is   *)
(* a part, and to nothing if there is none.                                *)
LEMMA DelegatedBounds ==
  ASSUME StakingTypeOK, NEW v
  PROVE  /\ DelegatedTo(v) \in Nat
         /\ \A k \in To(delegations, v) : delegations[k] <= DelegatedTo(v)
         /\ To(delegations, v) = {} => DelegatedTo(v) = 0
<1>1. /\ IsFiniteSet(To(delegations, v))
      /\ \A k \in To(delegations, v) : delegations[k] \in Nat
  BY Zenon, FS_Subset DEF StakingTypeOK, To
<1> QED BY <1>1, SumOfNats, SumRec, DelegatedIsSum

(* Writing one validator's stake changes the total by what it changes.     *)
LEMMA StakeWrite ==
  ASSUME StakingTypeOK, NEW v \in Registered, NEW x \in Nat,
         stake' = [stake EXCEPT ![v] = x]
  PROVE  /\ stake' \in [Registered -> Nat] /\ DOMAIN stake' = Registered
         /\ stake'[v] = x /\ \A w \in Registered \ {v} : stake'[w] = stake[w]
         /\ TotalStake \in Nat
         /\ TotalStake' = TotalStake - stake[v] + x
<1>1. /\ stake \in [Registered -> Nat] /\ IsFiniteSet(Registered)
      /\ \A w \in Registered : stake[w] \in Nat
  BY Zenon DEF StakingTypeOK
<1>2. /\ stake' \in [Registered -> Nat] /\ DOMAIN stake' = Registered
      /\ stake'[v] = x /\ \A w \in Registered \ {v} : stake'[w] = stake[w]
  BY Zenon, <1>1
<1>3. /\ \A w \in Registered : stake[w] \in Int /\ stake'[w] \in Int
      /\ \A w \in Registered \ {v} : stake[w] = stake'[w]
  BY <1>1, <1>2
<1>4. Sum(stake', Registered) = Sum(stake, Registered) - stake[v] + stake'[v]
  BY ONLY <1>1, <1>3, v \in Registered, SumChange
<1>5. Sum(stake, Registered) \in Nat
  BY Zenon, <1>1, SumOfNats
<1> QED BY Zenon, <1>2, <1>4, <1>5, TotalIsSum DEF Registered

(* An ejected validator's delegations go, and no other validator's.        *)
LEMMA DelegationBurn ==
  ASSUME StakingTypeOK, NEW v \in Validators, delegations' = BurnDelegations(v)
  PROVE  /\ delegations' \in [DOMAIN delegations' -> Nat]
         /\ IsFiniteSet(DOMAIN delegations')
         /\ DOMAIN delegations' = {k \in DOMAIN delegations : k[2] # v}
         /\ \A k \in DOMAIN delegations' : delegations'[k] = delegations[k]
         /\ \A w \in Validators \ {v} : DelegatedTo(w)' = DelegatedTo(w)
<1> DEFINE f == delegations
           g == BurnDelegations(v)
<1>1. f \in [DOMAIN f -> Nat] /\ IsFiniteSet(DOMAIN f) /\ DOMAIN f \subseteq Delegators \X Validators
  BY Zenon DEF StakingTypeOK
<1>2. /\ DOMAIN g = DOMAIN f \ (Delegators \X {v})
      /\ g \in [DOMAIN g -> Nat] /\ \A k \in DOMAIN g : g[k] = f[k]
  BY Zenon, <1>1 DEF BurnDelegations, Remove
<1>3. DOMAIN g = {k \in DOMAIN f : k[2] # v}
  BY Zenon, <1>1, <1>2
<1>4. IsFiniteSet(DOMAIN g)
  BY Zenon, <1>1, <1>3, FS_Subset
<1>5. ASSUME NEW w \in Validators, w # v
      PROVE  DelegatedTo(w)' = DelegatedTo(w)
  <2>1. To(g, w) = To(f, w)
    BY Zenon, <1>3, <1>5 DEF To
  <2>2. IsFiniteSet(To(f, w)) /\ \A y \in To(f, w) : g[y] = f[y]
    BY Zenon, <1>1, <1>2, <2>1, FS_Subset DEF To
  <2>3. Sum(g, To(f, w)) = Sum(f, To(f, w))
    BY Zenon, <2>2, SumSame
  <2> QED BY Zenon, <2>1, <2>3, DelegatedIsSum
<1> QED BY Zenon, <1>2, <1>3, <1>4, <1>5

(* A penalty is a part of the stake it is computed from.                   *)
LEMMA PenaltyBound ==
  ASSUME NEW type, NEW amount \in Nat
  PROVE  Penalty(type, amount) \in Nat /\ Penalty(type, amount) <= amount
<1>1. ASSUME NEW n \in Nat \ {0}
      PROVE  amount \div n \in Nat /\ amount \div n <= amount
  <2> DEFINE q == amount \div n
  <2>1. q \in Int /\ n * q <= amount /\ amount < n * (q + 1)
    BY SMTT(30)
  <2> HIDE DEF q
  <2>2. q >= 0
    <3>1. SUFFICES ASSUME q + 1 <= 0 PROVE FALSE
      BY <2>1
    <3>2. n * (q + 1) <= 0
      BY <2>1, <3>1
    <3> QED BY <2>1, <3>2
  <2>3. q <= n * q
    BY <2>1, <2>2
  <2> QED BY <2>1, <2>2, <2>3 DEF q
<1> QED BY <1>1, StakingAssumption DEF Penalty

(* The registry starts without validators.                                 *)
LEMMA StakingInvInit == StakingInit => StakingInv
<1> SUFFICES ASSUME StakingInit PROVE StakingInv
  BY Zenon
<1>1. DOMAIN stake = {} /\ DOMAIN delegations = {} /\ DOMAIN selfStake = {}
  BY DEF StakingInit
<1>2. StakingTypeOK
  BY <1>1, FS_EmptySet DEF StakingInit, StakingTypeOK, Registered
<1>3. TotalStake = 0
  BY Zenon, <1>1, TotalIsSum, SumRec, FS_EmptySet
<1> QED BY <1>1, <1>2, <1>3
      DEF StakingInv, NothingStranded, UnslashedStakeIsExact, StakeNeverLost, StakingInit,
          Registered

(* A call that returns early keeps everything.                             *)
LEMMA StakingIdle ==
  ASSUME StakingInv, UNCHANGED <<stake, delegations, slashings, selfStake, net>>
  PROVE  StakingInv'
<1>1. TotalStake' = TotalStake /\ \A v : DelegatedTo(v)' = DelegatedTo(v)
  BY Zenon, TotalIsSum, DelegatedIsSum
<1> QED BY Zenon, <1>1
      DEF StakingInv, StakingTypeOK, NothingStranded, UnslashedStakeIsExact, StakeNeverLost,
          Registered

(* A registration: nothing is delegated to an address that is not          *)
(* registered, so the new validator's stake is its self-stake.             *)
LEMMA AddValidatorStep ==
  ASSUME StakingInv, NEW v \in Validators, NEW amount \in Nat,
         v \notin Registered, stake' = Insert(stake, v, amount),
         selfStake' = Insert(selfStake, v, amount), net' = net + amount,
         UNCHANGED <<delegations, slashings>>
  PROVE  StakingInv'
<1>1. StakingTypeOK /\ NothingStranded /\ UnslashedStakeIsExact /\ StakeNeverLost
  BY Zenon DEF StakingInv
<1>2. /\ stake \in [Registered -> Nat] /\ selfStake \in [Registered -> Nat]
      /\ IsFiniteSet(Registered) /\ net \in Int
  BY Zenon, <1>1 DEF StakingTypeOK
<1>3. /\ Registered' = Registered \cup {v}
      /\ stake' \in [Registered' -> Nat] /\ selfStake' \in [Registered' -> Nat]
      /\ stake'[v] = amount /\ selfStake'[v] = amount
      /\ \A w \in Registered : w # v /\ stake'[w] = stake[w] /\ selfStake'[w] = selfStake[w]
  BY Zenon, <1>2 DEF Registered, Insert
<1>4. IsFiniteSet(Registered')
  BY Zenon, <1>2, <1>3, FS_AddElement
<1>5. StakingTypeOK'
  BY <1>1, <1>2, <1>3, <1>4 DEF StakingTypeOK
<1>6. NothingStranded'
  BY Zenon, <1>1, <1>3 DEF NothingStranded
<1>7. \A w : DelegatedTo(w)' = DelegatedTo(w)
  BY Zenon, DelegatedIsSum
<1>8. DelegatedTo(v) = 0
  <2>1. To(delegations, v) = {}
    BY Zenon, <1>1 DEF NothingStranded, To
  <2> QED BY Zenon, <1>1, <2>1, DelegatedBounds
<1>9. UnslashedStakeIsExact'
  <2>1. SUFFICES ASSUME NEW w \in Registered',
                        \A i \in 1..Len(slashings) : slashings[i].validator # w
                 PROVE  stake'[w] = selfStake'[w] + DelegatedTo(w)
    BY Zenon, <1>7 DEF UnslashedStakeIsExact
  <2>2. CASE w = v
    BY <1>3, <1>8, <2>2
  <2>3. CASE w # v
    <3>1. w \in Registered
      BY Zenon, <1>3, <2>3
    <3>2. stake[w] = selfStake[w] + DelegatedTo(w)
      BY Zenon, <1>1, <2>1, <3>1 DEF UnslashedStakeIsExact
    <3> QED BY Zenon, <1>3, <3>1, <3>2
  <2> QED BY Zenon, <2>2, <2>3
<1>10. TotalStake' = TotalStake + amount /\ TotalStake \in Int
  <2>1. /\ Registered \subseteq DOMAIN stake /\ \A w \in Registered : stake[w] \in Nat
        /\ v \in DOMAIN stake => v \in Registered
    BY Zenon, <1>2
  <2>2. Sum(Insert(stake, v, amount), Registered \cup {v})
          = Sum(stake, Registered) - (IF v \in Registered THEN stake[v] ELSE 0) + amount
    BY <1>2, <2>1, InsertSum
  <2>3. Sum(stake, Registered) \in Nat
    BY Zenon, <1>2, <2>1, SumOfNats
  <2>4. DOMAIN stake = Registered /\ DOMAIN stake' = Registered \cup {v}
    BY Zenon, <1>3 DEF Registered
  <2> QED BY <2>2, <2>3, <2>4, TotalIsSum
<1>11. StakeNeverLost'
  BY <1>1, <1>2, <1>10 DEF StakeNeverLost
<1> QED BY Zenon, <1>5, <1>6, <1>9, <1>11 DEF StakingInv

(* Delegating and undelegating move a validator's stake and what is        *)
(* delegated to it by the same amount.                                     *)
LEMMA MovedTogether ==
  ASSUME StakingInv, NEW v \in Registered, v \in Validators, NEW x \in Nat, NEW change \in Int,
         stake' = [stake EXCEPT ![v] = x], net' = net + change,
         UNCHANGED <<slashings, selfStake>>,
         delegations' \in [DOMAIN delegations' -> Nat], IsFiniteSet(DOMAIN delegations'),
         DOMAIN delegations' \subseteq Delegators \X Validators,
         \A k \in DOMAIN delegations' : k[2] \in Registered /\ delegations'[k] > 0,
         DelegatedTo(v)' = DelegatedTo(v) + change,
         \A w \in Validators \ {v} : DelegatedTo(w)' = DelegatedTo(w),
         Registered \subseteq Validators,
         x >= stake[v] + change,
         (\A i \in 1..Len(slashings) : slashings[i].validator # v) => x = stake[v] + change
  PROVE  StakingInv'
<1>1. StakingTypeOK /\ UnslashedStakeIsExact /\ StakeNeverLost
  BY Zenon DEF StakingInv
<1>2. /\ stake' \in [Registered -> Nat] /\ DOMAIN stake' = Registered
      /\ stake'[v] = x /\ \A w \in Registered \ {v} : stake'[w] = stake[w]
      /\ TotalStake \in Nat
      /\ TotalStake' = TotalStake - stake[v] + x
  BY Zenon, <1>1, StakeWrite
<1>3. /\ stake \in [Registered -> Nat] /\ selfStake \in [Registered -> Nat]
      /\ IsFiniteSet(Registered) /\ net \in Int /\ slashings \in Seq(Evidence)
  BY Zenon, <1>1 DEF StakingTypeOK
<1>4. Registered' = Registered
  BY Zenon, <1>2 DEF Registered
<1>5. StakingTypeOK'
  <2>1. net \in Int /\ change \in Int /\ net' = net + change
    BY Zenon, <1>3
  <2>2. net' \in Int
    BY ONLY <2>1
  <2> QED BY Zenon, <1>2, <1>3, <1>4, <2>2 DEF StakingTypeOK
<1>6. NothingStranded'
  BY Zenon, <1>4 DEF NothingStranded
<1>7. UnslashedStakeIsExact'
  <2>1. SUFFICES ASSUME NEW w \in Registered,
                        \A i \in 1..Len(slashings) : slashings[i].validator # w
                 PROVE  stake'[w] = selfStake[w] + DelegatedTo(w)'
    BY Zenon, <1>4 DEF UnslashedStakeIsExact
  <2>2. stake[w] = selfStake[w] + DelegatedTo(w)
    BY Zenon, <1>1, <2>1 DEF UnslashedStakeIsExact
  <2>3. DelegatedTo(w) \in Nat /\ selfStake[w] \in Nat
    BY Zenon, <1>1, <1>3, DelegatedBounds
  <2>4. CASE w = v
    <3>1. x = stake[v] + change
      BY Zenon, <2>1, <2>4
    <3> QED BY <1>2, <2>2, <2>3, <2>4, <3>1
  <2>5. CASE w # v
    BY Zenon, <1>2, <2>2, <2>5
  <2> QED BY Zenon, <2>4, <2>5
<1>8. stake[v] \in Nat
  BY Zenon, <1>3
<1>9. StakeNeverLost'
  BY <1>1, <1>2, <1>3, <1>8 DEF StakeNeverLost
<1> QED BY Zenon, <1>5, <1>6, <1>7, <1>9 DEF StakingInv

(* delegate: where the delegation's own check fails the entry is an old    *)
(* one, since a new one starts from zero, and keeps its amount.            *)
LEMMA DelegateStep ==
  ASSUME StakingInv, Registered \subseteq Validators, NEW d \in Delegators,
         NEW v \in Validators, NEW amount \in Inputs, Delegate(d, v, amount)
  PROVE  StakingInv'
<1> DEFINE k == <<d, v>>
<1>1. StakingTypeOK /\ NothingStranded
  BY Zenon DEF StakingInv
<1>2. /\ stake \in [Registered -> Nat] /\ delegations \in [DOMAIN delegations -> Nat]
      /\ DOMAIN delegations \subseteq Delegators \X Validators
  BY Zenon, <1>1 DEF StakingTypeOK
<1>3. amount \in Nat /\ amount <= MaxStake /\ MaxStake \in Nat
  BY StakingAssumption
<1>4. Delegated(d, v) \in Nat
  BY Zenon, <1>2 DEF Delegated
<1>5. CASE /\ StakeFits(d, v, amount)
           /\ delegations' = Insert(delegations, k, Delegated(d, v) + amount)
           /\ stake' = [stake EXCEPT ![v] = @ + amount]
           /\ net' = net + amount
           /\ UNCHANGED <<slashings, selfStake>>
  <2>1. v \in Registered /\ amount > 0 /\ stake[v] \in Nat
    BY <1>2, <1>3, <1>5 DEF StakeFits
  <2> DEFINE y == Delegated(d, v) + amount
             x == stake[v] + amount
  <2>2. y \in Nat /\ y > 0 /\ x \in Nat /\ stake' = [stake EXCEPT ![v] = x]
    BY <1>3, <1>4, <1>5, <2>1
  <2>3. /\ delegations' \in [DOMAIN delegations' -> Nat]
        /\ IsFiniteSet(DOMAIN delegations')
        /\ DOMAIN delegations' = DOMAIN delegations \cup {k}
        /\ delegations'[k] = y
        /\ \A i \in DOMAIN delegations \ {k} : delegations'[i] = delegations[i]
        /\ DelegatedTo(v)' = DelegatedTo(v) - Delegated(d, v) + y
        /\ \A w \in Validators \ {v} : DelegatedTo(w)' = DelegatedTo(w)
    BY Zenon, <1>1, <1>5, <2>2, DelegationInsert
  <2>4. DelegatedTo(v)' = DelegatedTo(v) + amount
    <3>1. DelegatedTo(v) \in Nat
      BY Zenon, <1>1, DelegatedBounds
    <3> QED BY <1>3, <1>4, <2>3, <3>1
  <2>5. DOMAIN delegations' \subseteq Delegators \X Validators
    BY <1>2, <2>3
  <2>6. \A i \in DOMAIN delegations' : i[2] \in Registered /\ delegations'[i] > 0
    BY <1>1, <2>1, <2>2, <2>3 DEF NothingStranded
  <2>7. x >= stake[v] + amount /\ x = stake[v] + amount /\ amount \in Int
    BY <1>3, <2>2
  <2>8. net' = net + amount /\ UNCHANGED <<slashings, selfStake>>
    BY Zenon, <1>5
  <2> HIDE DEF x, y
  <2> QED BY Zenon, <2>1, <2>2, <2>3, <2>4, <2>5, <2>6, <2>7, <2>8, MovedTogether
<1>6. CASE /\ ~DelegationFits(d, v, amount)
           /\ delegations' = Insert(delegations, k, Delegated(d, v))
           /\ UNCHANGED <<stake, slashings, selfStake, net>>
  <2>1. k \in DOMAIN delegations
    <3>1. k \notin DOMAIN delegations => Delegated(d, v) = 0
      BY Zenon DEF Delegated
    <3>2. ~(Delegated(d, v) + amount <= MaxStake)
      BY Zenon, <1>6 DEF DelegationFits
    <3>3. 0 + amount <= MaxStake
      BY ONLY <1>3
    <3> QED BY Zenon, <3>1, <3>2, <3>3
  <2>2. delegations' = delegations
    BY Zenon, <1>2, <1>6, <2>1 DEF Insert, Delegated
  <2> QED BY Zenon, <1>6, <2>2, StakingIdle
<1>7. CASE Return("error")
  BY Zenon, <1>7, StakingIdle DEF Return
<1> QED BY Zenon, <1>5, <1>6, <1>7 DEF Delegate

(* undelegate: the subtraction saturates only where slashing has cut the   *)
(* stake below what is delegated.                                          *)
LEMMA UndelegateStep ==
  ASSUME StakingInv, Registered \subseteq Validators, NEW d \in Delegators,
         NEW v \in Validators, NEW amount \in Inputs, Undelegate(d, v, amount)
  PROVE  StakingInv'
<1> DEFINE k == <<d, v>>
<1>1. StakingTypeOK /\ NothingStranded /\ UnslashedStakeIsExact
  BY Zenon DEF StakingInv
<1>2. /\ stake \in [Registered -> Nat] /\ delegations \in [DOMAIN delegations -> Nat]
      /\ DOMAIN delegations \subseteq Delegators \X Validators
      /\ selfStake \in [Registered -> Nat] /\ net \in Int
  BY Zenon, <1>1 DEF StakingTypeOK
<1>3. amount \in Nat
  BY StakingAssumption
<1>4. CASE /\ CanUndelegate(d, v, amount)
           /\ delegations' = Withdrawn(k, delegations[k] - amount)
           /\ stake' = IF v \in Registered
                       THEN [stake EXCEPT ![v] = SaturatingSub(@, amount)]
                       ELSE stake
           /\ net' = net - amount
           /\ UNCHANGED <<slashings, selfStake>>
  <2> DEFINE y == delegations[k] - amount
             x == SaturatingSub(stake[v], amount)
  <2>1. k \in DOMAIN delegations /\ delegations[k] >= amount /\ amount > 0
    <3>1. k \in DOMAIN delegations /\ delegations[k] >= amount /\ amount # 0
      BY Zenon, <1>4 DEF CanUndelegate
    <3> QED BY ONLY <1>3, <3>1
  <2>2. v \in Registered /\ stake[v] \in Nat /\ delegations[k] \in Nat
    BY Zenon, <1>1, <1>2, <2>1 DEF NothingStranded
  <2>3. /\ y \in Nat /\ x \in Nat /\ x >= stake[v] + (-amount)
        /\ stake[v] >= amount => x = stake[v] + (-amount)
        /\ net' = net + (-amount) /\ -amount \in Int
    BY <1>2, <1>3, <1>4, <2>1, <2>2 DEF SaturatingSub
  <2>4. stake' = [stake EXCEPT ![v] = x]
    BY Zenon, <1>4, <2>2
  <2>5. DelegatedTo(v) \in Nat /\ delegations[k] <= DelegatedTo(v)
    BY Zenon, <1>1, <2>1, DelegatedBounds DEF To
  <2>6. (\A i \in 1..Len(slashings) : slashings[i].validator # v) => x = stake[v] + (-amount)
    <3>1. SUFFICES ASSUME \A i \in 1..Len(slashings) : slashings[i].validator # v
                   PROVE  stake[v] >= amount
      BY Zenon, <2>3
    <3>2. stake[v] = selfStake[v] + DelegatedTo(v) /\ selfStake[v] \in Nat
      BY Zenon, <1>1, <1>2, <2>2, <3>1 DEF UnslashedStakeIsExact
    <3> QED BY <1>3, <2>1, <2>2, <2>5, <3>2
  <2>7. /\ delegations' \in [DOMAIN delegations' -> Nat] /\ IsFiniteSet(DOMAIN delegations')
        /\ DOMAIN delegations' \subseteq DOMAIN delegations
        /\ \A i \in DOMAIN delegations' : delegations'[i] > 0
        /\ DelegatedTo(v)' = DelegatedTo(v) + (-amount)
        /\ \A w \in Validators \ {v} : DelegatedTo(w)' = DelegatedTo(w)
    <3>1. CASE y = 0
      <4>1. delegations' = Remove(delegations, {k})
        BY Zenon, <1>4, <3>1 DEF Withdrawn
      <4>2. /\ delegations' \in [DOMAIN delegations' -> Nat]
            /\ IsFiniteSet(DOMAIN delegations')
            /\ DOMAIN delegations' = DOMAIN delegations \ {k}
            /\ \A i \in DOMAIN delegations' : delegations'[i] = delegations[i]
            /\ DelegatedTo(v)' = DelegatedTo(v) - delegations[k]
            /\ \A w \in Validators \ {v} : DelegatedTo(w)' = DelegatedTo(w)
        BY Zenon, <1>1, <2>1, <4>1, DelegationRemove
      <4>3. DelegatedTo(v)' = DelegatedTo(v) + (-amount)
        BY <1>3, <2>2, <2>5, <3>1, <4>2
      <4> QED BY Zenon, <1>1, <4>2, <4>3 DEF NothingStranded
    <3>2. CASE y # 0
      <4>1. delegations' = Insert(delegations, k, y)
        BY Zenon, <1>2, <1>4, <2>1, <3>2 DEF Withdrawn, Insert
      <4>2. /\ delegations' \in [DOMAIN delegations' -> Nat]
            /\ IsFiniteSet(DOMAIN delegations')
            /\ DOMAIN delegations' = DOMAIN delegations \cup {k}
            /\ delegations'[k] = y
            /\ \A i \in DOMAIN delegations \ {k} : delegations'[i] = delegations[i]
            /\ DelegatedTo(v)' = DelegatedTo(v) - Delegated(d, v) + y
            /\ \A w \in Validators \ {v} : DelegatedTo(w)' = DelegatedTo(w)
        BY Zenon, <1>1, <2>3, <4>1, DelegationInsert
      <4>3. DelegatedTo(v)' = DelegatedTo(v) + (-amount)
        BY <1>3, <2>1, <2>2, <2>5, <4>2 DEF Delegated
      <4>4. y > 0 /\ DOMAIN delegations' = DOMAIN delegations
        BY <2>1, <2>3, <3>2, <4>2
      <4> QED BY Zenon, <1>1, <4>2, <4>3, <4>4 DEF NothingStranded
    <3> QED BY Zenon, <3>1, <3>2
  <2>8. /\ DOMAIN delegations' \subseteq Delegators \X Validators
        /\ \A i \in DOMAIN delegations' : i[2] \in Registered /\ delegations'[i] > 0
    BY Zenon, <1>1, <1>2, <2>7 DEF NothingStranded
  <2> HIDE DEF x, y
  <2> QED BY Zenon, <1>4, <2>2, <2>3, <2>4, <2>6, <2>7, <2>8, MovedTogether
<1>5. CASE Return("error")
  BY Zenon, <1>5, StakingIdle DEF Return
<1> QED BY Zenon, <1>4, <1>5 DEF Undelegate

(* slash: the validator it is about is slashed from now on; the others     *)
(* keep their stake and their delegations.                                 *)
LEMMA SlashStep ==
  ASSUME StakingInv, NEW v \in Validators, NEW type \in SlashingTypes,
         v \in Registered, Record(v, type), ApplyPenalty(v, Penalty(type, stake[v])),
         net' = net - Penalty(type, stake[v])
  PROVE  StakingInv'
<1> DEFINE p == Penalty(type, stake[v])
<1>1. StakingTypeOK /\ NothingStranded /\ UnslashedStakeIsExact /\ StakeNeverLost
  BY Zenon DEF StakingInv
<1>2. /\ stake \in [Registered -> Nat] /\ selfStake \in [Registered -> Nat]
      /\ Registered \subseteq Validators /\ IsFiniteSet(Registered)
      /\ net \in Int /\ slashings \in Seq(Evidence) /\ stake[v] \in Nat
  BY Zenon, <1>1 DEF StakingTypeOK
<1>3. p \in Nat /\ p <= stake[v]
  BY Zenon, <1>2, PenaltyBound
<1>4. /\ slashings' \in Seq(Evidence) /\ Len(slashings') = Len(slashings) + 1
      /\ slashings'[Len(slashings')].validator = v
      /\ \A i \in 1..Len(slashings) : slashings'[i] = slashings[i]
  <2> DEFINE e == [validator |-> v, type |-> type]
  <2>1. e \in Evidence /\ e.validator = v
    BY Zenon DEF Evidence
  <2>2. slashings' = Append(slashings, e)
    BY Zenon DEF Record
  <2> HIDE DEF e
  <2>3. slashings \in Seq(Evidence)
    BY Zenon, <1>2
  <2> QED BY ONLY <2>1, <2>2, <2>3
<1>5. ASSUME NEW w, \A i \in 1..Len(slashings') : slashings'[i].validator # w
      PROVE  w # v /\ \A i \in 1..Len(slashings) : slashings[i].validator # w
  <2> DEFINE n == Len(slashings)
  <2>0. slashings \in Seq(Evidence) /\ Len(slashings') = n + 1
    BY Zenon, <1>2, <1>4
  <2>1. n \in Nat
    BY ONLY <2>0
  <2> HIDE DEF n
  <2>2. n + 1 \in 1..(n + 1) /\ \A i \in 1..n : i \in 1..(n + 1)
    BY ONLY <2>1
  <2>3. w # v
    BY Zenon, <1>4, <1>5, <2>0, <2>2
  <2> QED BY Zenon, <1>4, <1>5, <2>0, <2>2, <2>3 DEF n
<1> HIDE DEF p
<1>6. ASSUME Registered' \subseteq Registered,
             stake' \in [Registered' -> Nat], selfStake' \in [Registered' -> Nat],
             delegations' \in [DOMAIN delegations' -> Nat], IsFiniteSet(DOMAIN delegations'),
             DOMAIN delegations' \subseteq DOMAIN delegations,
             \A k \in DOMAIN delegations' : k[2] \in Registered' /\ delegations'[k] > 0,
             \A w \in Registered' \ {v} : /\ stake'[w] = stake[w]
                                          /\ selfStake'[w] = selfStake[w]
                                          /\ DelegatedTo(w)' = DelegatedTo(w),
             TotalStake \in Nat, TotalStake' = TotalStake - p
      PROVE  StakingInv'
  <2>1. IsFiniteSet(Registered')
    BY Zenon, <1>2, <1>6, FS_Subset
  <2>2. /\ DOMAIN delegations' \subseteq Delegators \X Validators
        /\ Registered' \subseteq Validators
    BY Zenon, <1>1, <1>6 DEF StakingTypeOK
  <2>3. net' \in Int
    BY <1>2, <1>3 DEF p
  <2>4. StakingTypeOK'
    BY Zenon, <1>4, <1>6, <2>1, <2>2, <2>3 DEF StakingTypeOK
  <2>5. NothingStranded'
    BY Zenon, <1>6 DEF NothingStranded
  <2>6. UnslashedStakeIsExact'
    <3>1. SUFFICES ASSUME NEW w \in Registered',
                          \A i \in 1..Len(slashings') : slashings'[i].validator # w
                   PROVE  stake'[w] = selfStake'[w] + DelegatedTo(w)'
      BY Zenon DEF UnslashedStakeIsExact
    <3>2. w # v /\ \A i \in 1..Len(slashings) : slashings[i].validator # w
      BY Zenon, <1>5, <3>1
    <3>3. stake[w] = selfStake[w] + DelegatedTo(w)
      BY Zenon, <1>1, <1>6, <3>2 DEF UnslashedStakeIsExact
    <3> QED BY Zenon, <1>6, <3>2, <3>3
  <2>7. StakeNeverLost'
    BY <1>1, <1>2, <1>3, <1>6 DEF StakeNeverLost, p
  <2> QED BY Zenon, <2>4, <2>5, <2>6, <2>7 DEF StakingInv
<1>7. /\ DOMAIN stake = Registered /\ Sum(stake, Registered) \in Nat
      /\ TotalStake = Sum(stake, Registered)
  <2>1. \A w \in Registered : stake[w] \in Nat
    BY Zenon, <1>2
  <2>2. Sum(stake, Registered) \in Nat
    BY Zenon, <1>2, <2>1, SumOfNats
  <2> QED BY Zenon, <2>2, TotalIsSum DEF Registered
<1>8. CASE p = 0 /\ UNCHANGED <<stake, delegations, selfStake>>
  <2>1. Registered' = Registered /\ TotalStake' = TotalStake
    BY Zenon, <1>8, TotalIsSum DEF Registered
  <2>2. \A w : DelegatedTo(w)' = DelegatedTo(w)
    BY Zenon, <1>8, DelegatedIsSum
  <2>3. \A k \in DOMAIN delegations : k[2] \in Registered' /\ delegations[k] > 0
    BY Zenon, <1>1, <2>1 DEF NothingStranded
  <2>4. TotalStake \in Nat /\ TotalStake' = TotalStake - p
    BY <1>7, <1>8, <2>1
  <2>5. delegations \in [DOMAIN delegations -> Nat] /\ IsFiniteSet(DOMAIN delegations)
    BY Zenon, <1>1 DEF StakingTypeOK
  <2> QED BY Zenon, <1>2, <1>6, <1>8, <2>1, <2>2, <2>3, <2>4, <2>5
<1>9. CASE stake[v] <= p /\ Eject(v)
  <2>1. p = stake[v]
    BY <1>2, <1>3, <1>9
  <2>2. /\ stake' = Remove(stake, {v}) /\ selfStake' = Remove(selfStake, {v})
        /\ delegations' = BurnDelegations(v)
    BY Zenon, <1>9 DEF Eject
  <2>3. /\ Registered' = Registered \ {v}
        /\ stake' \in [Registered' -> Nat] /\ selfStake' \in [Registered' -> Nat]
        /\ \A w \in Registered \ {v} : stake'[w] = stake[w] /\ selfStake'[w] = selfStake[w]
    BY Zenon, <1>2, <2>2 DEF Remove, Registered
  <2>4. /\ delegations' \in [DOMAIN delegations' -> Nat]
        /\ IsFiniteSet(DOMAIN delegations')
        /\ DOMAIN delegations' = {k \in DOMAIN delegations : k[2] # v}
        /\ \A k \in DOMAIN delegations' : delegations'[k] = delegations[k]
        /\ \A w \in Validators \ {v} : DelegatedTo(w)' = DelegatedTo(w)
    BY Zenon, <1>1, <2>2, DelegationBurn
  <2>5. \A k \in DOMAIN delegations' : k[2] \in Registered' /\ delegations'[k] > 0
    BY Zenon, <1>1, <2>3, <2>4 DEF NothingStranded
  <2>6. TotalStake' = TotalStake - p
    <3>1. Registered \subseteq DOMAIN stake /\ \A w \in Registered : stake[w] \in Nat
      BY Zenon, <1>2
    <3>2. Sum(Remove(stake, {v}), Registered \ {v}) = Sum(stake, Registered) - stake[v]
      BY Zenon, <1>2, <3>1, RemoveSum
    <3>3. DOMAIN stake' = Registered \ {v}
      BY Zenon, <2>3 DEF Registered
    <3> QED BY Zenon, <1>7, <2>1, <2>2, <3>2, <3>3, TotalIsSum
  <2>7. \A w \in Registered' \ {v} : /\ stake'[w] = stake[w]
                                     /\ selfStake'[w] = selfStake[w]
                                     /\ DelegatedTo(w)' = DelegatedTo(w)
    BY Zenon, <1>2, <2>3, <2>4
  <2>8. Registered' \subseteq Registered /\ DOMAIN delegations' \subseteq DOMAIN delegations
    BY Zenon, <2>3, <2>4
  <2> QED BY Zenon, <1>6, <1>7, <2>3, <2>4, <2>5, <2>6, <2>7, <2>8
<1>10. CASE stake[v] > p /\ Deduct(v, p)
  <2> DEFINE x == stake[v] - p
  <2>1. x \in Nat /\ stake' = [stake EXCEPT ![v] = x] /\ UNCHANGED <<delegations, selfStake>>
    BY <1>2, <1>3, <1>10 DEF Deduct
  <2>2. x = stake[v] - p
    BY Zenon
  <2> HIDE DEF x
  <2>3. /\ stake' \in [Registered -> Nat] /\ DOMAIN stake' = Registered
        /\ \A w \in Registered \ {v} : stake'[w] = stake[w]
        /\ TotalStake' = TotalStake - stake[v] + x
    BY Zenon, <1>1, <2>1, StakeWrite
  <2>4. TotalStake' = TotalStake - p
    BY <1>2, <1>3, <1>7, <2>2, <2>3
  <2>5. Registered' = Registered
    BY Zenon, <2>3 DEF Registered
  <2>6. \A w : DelegatedTo(w)' = DelegatedTo(w)
    BY Zenon, <2>1, DelegatedIsSum
  <2>7. \A k \in DOMAIN delegations : k[2] \in Registered' /\ delegations[k] > 0
    BY Zenon, <1>1, <2>5 DEF NothingStranded
  <2>8. delegations \in [DOMAIN delegations -> Nat] /\ IsFiniteSet(DOMAIN delegations)
    BY Zenon, <1>1 DEF StakingTypeOK
  <2> QED BY Zenon, <1>2, <1>6, <1>7, <2>1, <2>3, <2>4, <2>5, <2>6, <2>7, <2>8
<1> QED BY Zenon, <1>8, <1>9, <1>10 DEF ApplyPenalty, p

(* Every call keeps the registry's invariant.                              *)
LEMMA StakingInvStep == StakingInv /\ [StakingNext]_stakingVars => StakingInv'
<1> SUFFICES ASSUME StakingInv, [StakingNext]_stakingVars PROVE StakingInv'
  BY Zenon
<1>1. Registered \subseteq Validators
  BY Zenon DEF StakingInv, StakingTypeOK
<1>2. ASSUME NEW v \in Validators, NEW amount \in Inputs, NEW inRange \in BOOLEAN,
             AddValidator(v, amount, inRange)
      PROVE  StakingInv'
  <2>1. amount \in Nat
    BY StakingAssumption
  <2>2. CASE CanAdd(v, amount, inRange) /\ ~Return("error")
    BY Zenon, <1>2, <2>1, <2>2, AddValidatorStep DEF AddValidator, CanAdd
  <2>3. CASE Return("error")
    BY Zenon, <2>3, StakingIdle DEF Return
  <2> QED BY Zenon, <1>2, <2>2, <2>3 DEF AddValidator
<1>3. ASSUME NEW v \in Validators, NEW type \in SlashingTypes, NEW hasProof \in BOOLEAN,
             Slash(v, type, hasProof)
      PROVE  StakingInv'
  <2>1. CASE Return("error")
    BY Zenon, <2>1, StakingIdle DEF Return
  <2>2. CASE ~Return("error")
    BY Zenon, <1>3, <2>2, SlashStep DEF Slash
  <2> QED BY Zenon, <2>1, <2>2
<1>4. CASE UNCHANGED stakingVars
  BY Zenon, <1>4, StakingIdle DEF stakingVars
<1> QED BY Zenon, <1>1, <1>2, <1>3, <1>4, DelegateStep, UndelegateStep DEF StakingNext

(* The invariant of the staking registry, for every set of validators,     *)
(* delegators and amounts.                                                 *)
THEOREM StakingInvHolds == StakingSpec => []StakingInv
BY StakingInvInit, StakingInvStep, PTL DEF StakingSpec

(* Each delegation is to a registered validator and holds something,       *)
(* through ejections and re-registrations.                                 *)
THEOREM NoDelegationIsStranded == StakingSpec => []NothingStranded
<1>1. StakingInv => NothingStranded
  BY Zenon DEF StakingInv
<1> QED BY <1>1, StakingInvHolds, PTL

(* A validator never slashed holds its self-stake and what is delegated to *)
(* it, to the unit: the saturating subtraction of undelegate never bites.  *)
THEOREM UnslashedIsExact == StakingSpec => []UnslashedStakeIsExact
<1>1. StakingInv => UnslashedStakeIsExact
  BY Zenon DEF StakingInv
<1> QED BY <1>1, StakingInvHolds, PTL

(* No call destroys stake: what is held is at least what was put in, less  *)
(* withdrawals and penalties.                                              *)
THEOREM NoStakeIsLost == StakingSpec => []StakeNeverLost
<1>1. StakingInv => StakeNeverLost
  BY Zenon DEF StakingInv
<1> QED BY <1>1, StakingInvHolds, PTL

=============================================================================
