SPECIFICATION Spec
CONSTANTS
  b1 = b1
  b2 = b2
  r1 = r1
  r2 = r2
  Replicas = {r1, r2}
  Addresses = {1, 2, 3, 4, 5}
  Keys = {1, 2, 3, 4, 5}
  FaultyKeys = {5}
  Blocks = {b1, b2}
  MaxView = 0
  Garbage = Garbage
  None = None
  ValidatorCount = 5
  Registrations <- RegistrationsOfFive
  Signers <- SignersOfFive
INVARIANTS
  Agreement
SYMMETRY Symmetry
CHECK_DEADLOCK FALSE
