SPECIFICATION HomeSpec
CONSTANTS
  c1 = c1
  c2 = c2
  good = good
  other = other
  short = short
  Procs = {c1, c2}
  Paths <- MCPaths
  Keys <- MCKeys
  Passwords = {good, other, short}
  Weak = {short}
  InitArgs <- MCInitArgs
  FallbackChainId = 1
  Malformed = Malformed
  NoFile = NoFile
  Torn = Torn
  Unrelated = Unrelated
  NoJob = NoJob
  MaxCommands = 3
  MaxFaults = 1
SYMMETRY Symmetry
INVARIANTS CreatedIsKept UnlockedIsOwners OrphanedOnlyByOverwrite
CHECK_DEADLOCK FALSE
