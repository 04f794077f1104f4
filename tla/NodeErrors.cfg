SPECIFICATION ExplorerSpec
CONSTANTS
  a = a
  b = b
  Addrs = {a, b}
  NoAddr = NoAddr
  NoTx = NoTx
  ChainId = 1
  MaxAmount = 9
  MaxNonce = 3
  MaxPending = 2
  MaxPerSender = 2
  MinGasPrice = 1
  MaxTxData = 1
  BlockGasLimit = 1
  Txs <- MCTxs
  Threads = {t1, t2}
  Main = Main
  NoThread = NoThread
  NoFile = NoFile
  Torn = Torn
  NoWork = NoWork
  NoLookup = NoLookup
  Genesis <- MCGenesis
  MaxBlocks = 3
  MaxFaults = 2
  Reseeding = FALSE
  MaxShown = 2
  NoPage = NoPage
  Null = Null
INVARIANT ErrorMeansNotCommitted
