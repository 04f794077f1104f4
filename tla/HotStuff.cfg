SPECIFICATION Spec
CONSTANTS
  b1 = b1
  b2 = b2
  r1 = r1
  r2 = r2
  Replicas = {r1, r2}
  Addresses = {1, 2, 3, 4, 9}
  Keys = {1, 2, 3, 4}
  FaultyKeys = {4}
  Blocks = {b1, b2}
  MaxView = 1
  Garbage = Garbage
  None = None
  ValidatorCount = 4
  Registrations <- MCRegistrations
  Signers <- SignersOfFour
INVARIANTS
  Agreement
  LockIsCertified
PROPERTY
  SafetyRuleIsMonotone
SYMMETRY Symmetry
CHECK_DEADLOCK FALSE
