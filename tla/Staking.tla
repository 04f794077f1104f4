------------------------------ MODULE Staking ------------------------------
(***************************************************************************)
(* subhost_consensus::staking::StakingModule: validators, delegations and  *)
(* slashing.  A HashMap is a function whose domain is the set of keys.     *)
(* Delegation::rewards is left out: nothing in the crate ever changes it   *)
(* from 0.  Deposits, withdrawals and burns are summed in the history      *)
(* variable net, the self-stake a validator registered with is kept in     *)
(* selfStake.                                                              *)
(***************************************************************************)
EXTENDS Integers, Sequences, FiniteSetsExt, Functions

CONSTANTS
  Validators,       \* addresses that may register
  Delegators,       \* addresses that may delegate
  MaxStake,         \* the largest Amount (u128::MAX)
  MinStake,         \* MIN_VALIDATOR_STAKE
  DowntimeDivisor,  \* 100 in SlashingType::penalty
  Inputs,           \* amounts callers pass
  MaxSlashings      \* bound on the evidence recorded

ASSUME StakingAssumption ==
  /\ MaxStake \in Nat
  /\ MinStake \in 1..MaxStake
  /\ DowntimeDivisor \in Nat \ {0}
  /\ Inputs \subseteq 0..MaxStake
  /\ MaxSlashings \in Nat

VARIABLES
  stake,        \* StakingModule::validators, the stake of each
  delegations,  \* StakingModule::delegations, the amount of each
  slashings,    \* StakingModule::slashings
  outcome,      \* what the last call returned
  selfStake,    \* history: the stake a validator registered with
  net           \* history: deposits - withdrawals - burns

stakingVars == <<stake, delegations, slashings, outcome, selfStake, net>>

SlashingTypes == {"DoubleSign", "Downtime", "MaliciousBehavior"}
Evidence == [validator : Validators, type : SlashingTypes]

Registered == DOMAIN stake
Insert(f, k, v) == [x \in DOMAIN f \cup {k} |-> IF x = k THEN v ELSE f[x]]
Remove(f, ks) == [x \in DOMAIN f \ ks |-> f[x]]

(* A call that returns an error or has nothing to do.                      *)
Return(result) ==
  /\ outcome' = result
  /\ UNCHANGED <<stake, delegations, slashings, selfStake, net>>

StakingInit ==
  /\ stake = <<>>
  /\ delegations = <<>>
  /\ slashings = <<>>
  /\ outcome = "ok"
  /\ selfStake = <<>>
  /\ net = 0

-----------------------------------------------------------------------------

CanAddAgain(v, amount, inRange) ==
  amount >= MinStake /\ inRange

(* inRange: key, commission and uptime pass Validator::validate.           *)
CanAdd(v, amount, inRange) ==
  amount >= MinStake /\ inRange /\ v \notin Registered

AddValidator(v, amount, inRange) ==
  \/ /\ CanAdd(v, amount, inRange)
     /\ stake' = Insert(stake, v, amount)
     /\ selfStake' = Insert(selfStake, v, amount)
     /\ net' = net + amount
     /\ outcome' = "ok"
     /\ UNCHANGED <<delegations, slashings>>
  \/ /\ ~CanAdd(v, amount, inRange)
     /\ Return("error")

Delegated(d, v) ==
  IF <<d, v>> \in DOMAIN delegations THEN delegations[<<d, v>>] ELSE 0

StakeFits(d, v, amount) ==
  amount # 0 /\ v \in Registered /\ stake[v] + amount <= MaxStake

(* The delegation can overflow where the validator's stake does not, since *)
(* slashing cuts the stake alone.                                          *)
DelegationFits(d, v, amount) == Delegated(d, v) + amount <= MaxStake

(* The entry is in the map, with 0 when it is new, before its own overflow *)
(* check.                                                                  *)
Delegate(d, v, amount) ==
  \/ /\ StakeFits(d, v, amount)
     /\ DelegationFits(d, v, amount)
     /\ delegations' = Insert(delegations, <<d, v>>, Delegated(d, v) + amount)
     /\ stake' = [stake EXCEPT ![v] = @ + amount]
     /\ net' = net + amount
     /\ outcome' = "ok"
     /\ UNCHANGED <<slashings, selfStake>>
  \/ /\ StakeFits(d, v, amount)
     /\ ~DelegationFits(d, v, amount)
     /\ delegations' = Insert(delegations, <<d, v>>, Delegated(d, v))
     /\ outcome' = "error"
     /\ UNCHANGED <<stake, slashings, selfStake, net>>
  \/ /\ ~StakeFits(d, v, amount)
     /\ Return("error")

SaturatingSub(x, y) == IF x >= y THEN x - y ELSE 0

WithdrawnForgetful(k, remaining) == Remove(delegations, {k})

(* undelegate drops the record once nothing is left in it.                 *)
Withdrawn(k, remaining) ==
  IF remaining = 0 THEN Remove(delegations, {k})
  ELSE [delegations EXCEPT ![k] = remaining]

CanUndelegate(d, v, amount) ==
  /\ amount # 0
  /\ <<d, v>> \in DOMAIN delegations
  /\ delegations[<<d, v>>] >= amount

Undelegate(d, v, amount) ==
  \/ /\ CanUndelegate(d, v, amount)
     /\ delegations' = Withdrawn(<<d, v>>, delegations[<<d, v>>] - amount)
     /\ stake' = IF v \in Registered
                 THEN [stake EXCEPT ![v] = SaturatingSub(@, amount)]
                 ELSE stake
     /\ net' = net - amount
     /\ outcome' = "ok"
     /\ UNCHANGED <<slashings, selfStake>>
  \/ /\ ~CanUndelegate(d, v, amount)
     /\ Return("error")

Penalty(type, amount) ==
  IF type = "DoubleSign" THEN amount
  ELSE IF type = "Downtime" THEN amount \div DowntimeDivisor
  ELSE amount \div 2

BurnNothing(v) == delegations

(* Delegations to an ejected validator are burned with it.                 *)
BurnDelegations(v) == Remove(delegations, Delegators \X {v})

Eject(v) ==
  /\ stake' = Remove(stake, {v})
  /\ selfStake' = Remove(selfStake, {v})
  /\ delegations' = BurnDelegations(v)

Deduct(v, penalty) ==
  /\ stake' = [stake EXCEPT ![v] = @ - penalty]
  /\ UNCHANGED <<delegations, selfStake>>

(* The penalty is computed from the stake just read, so it never exceeds   *)
(* it; a penalty of 0 is recorded and changes nothing else.                *)
ApplyPenalty(v, penalty) ==
  \/ /\ penalty = 0
     /\ UNCHANGED <<stake, delegations, selfStake>>
  \/ /\ penalty # 0
     /\ stake[v] <= penalty
     /\ Eject(v)
  \/ /\ penalty # 0
     /\ stake[v] > penalty
     /\ Deduct(v, penalty)

(* Evidence is recorded before any mutation so it survives ejection.       *)
Record(v, type) ==
  slashings' = Append(slashings, [validator |-> v, type |-> type])

Slash(v, type, hasProof) ==
  \/ /\ v \in Registered
     /\ hasProof
     /\ Len(slashings) < MaxSlashings
     /\ Record(v, type)
     /\ ApplyPenalty(v, Penalty(type, stake[v]))
     /\ net' = net - Penalty(type, stake[v])
     /\ outcome' = "ok"
  \/ /\ v \notin Registered \/ ~hasProof
     /\ Return("error")

StakingNext ==
  \E v \in Validators :
    \/ \E amount \in Inputs, inRange \in BOOLEAN : AddValidator(v, amount, inRange)
    \/ \E d \in Delegators, amount \in Inputs :
         Delegate(d, v, amount) \/ Undelegate(d, v, amount)
    \/ \E type \in SlashingTypes, hasProof \in BOOLEAN : Slash(v, type, hasProof)

StakingSpec == StakingInit /\ [][StakingNext]_stakingVars

-----------------------------------------------------------------------------

DelegatedTo(v) ==
  MapThenSumSet(LAMBDA k : delegations[k], {k \in DOMAIN delegations : k[2] = v})

TotalStake == MapThenSumSet(LAMBDA v : stake[v], Registered)

(* No delegation is stranded: each is to a validator that is registered,   *)
(* through ejections and re-registrations, and holds something.            *)
NothingStranded ==
  \A k \in DOMAIN delegations : k[2] \in Registered /\ delegations[k] > 0

(* A validator never slashed holds exactly its self-stake and what is      *)
(* delegated to it, whatever was delegated and withdrawn in between.       *)
UnslashedStakeIsExact ==
  \A v \in Registered :
    (\A i \in 1..Len(slashings) : slashings[i].validator # v)
      => stake[v] = selfStake[v] + DelegatedTo(v)

(* Stake leaves the registry only as a withdrawal or a penalty: no call    *)
(* destroys any.                                                           *)
StakeNeverLost == TotalStake >= net

=============================================================================
