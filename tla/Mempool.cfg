SPECIFICATION MempoolSpec
CONSTANTS
  a = a
  b = b
  c = c
  Addrs = {a, b, c}
  NoAddr = NoAddr
  NoTx = NoTx
  ChainId = 1
  MaxAmount = 4
  MaxNonce = 2
  MaxPending = 3
  MaxPerSender = 2
  MinGasPrice = 1
  MaxTxData = 1
  Txs <- MCTxs
INVARIANTS
  IndexConsistent
  CapacityKept
  RollbackExact
