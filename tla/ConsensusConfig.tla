-------------------------- MODULE ConsensusConfig --------------------------
(***************************************************************************)
(* subhost_consensus::ConsensusConfig: quorum sizing for a validator count *)
(* n > 0.  The constructor refuses n = 0.                                  *)
(***************************************************************************)
EXTENDS Integers

CONSTANT ValidatorCount   \* ConsensusConfig::validator_count

ASSUME ConfigAssumption == ValidatorCount \in Nat \ {0}

MaxFaulty(n) == (n - 1) \div 3

QuorumThresholdHalved(n) == MaxFaulty(n) + 1

QuorumThreshold(n) == 2 * MaxFaulty(n) + 1

=============================================================================
