SPECIFICATION StakingSpec
CONSTANTS
  v1 = v1
  v2 = v2
  d1 = d1
  d2 = d2
  Validators = {v1, v2}
  Delegators = {d1, d2}
  MaxStake = 5
  MinStake = 2
  DowntimeDivisor = 3
  Inputs = {0, 1, 2, 3}
  MaxSlashings = 2
INVARIANTS
  NothingStranded
  UnslashedStakeIsExact
  StakeNeverLost
