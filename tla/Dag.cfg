SPECIFICATION DagSpec
CONSTANTS
  Vertices <- MCVertices
  ValidatorCount = 4
  KeepRounds = {0, 1}
INVARIANTS
  CommittedHasSupport
  ParentsHeldOrCommitted
