SPECIFICATION ClientFairSpec
CONSTANTS
  a = a
  b = b
  Addrs = {a, b}
  NoAddr = NoAddr
  ChainId = 1
  MaxAmount = 4
  MaxNonce = 2
  Txs <- MCTxs
  Worlds <- MCWorlds
  Callers = {1, 2, 3}
  Plans <- MCPlans
  NoCaller = NoCaller
  Unset = Unset
  PoolMinGasPrice = 1
  BlockGasLimit = 1
  DefaultGasLimit = 1
  TransferGasLimit = 1
INVARIANTS
  Conservation
  SlotSpentOnce
  ExecutedWasSigned
  PrintedIsPaid
  ExplorerNonceHolds
PROPERTY
  CallersReturn
CHECK_DEADLOCK FALSE
