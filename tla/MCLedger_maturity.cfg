SPECIFICATION LedgerSpec
CONSTANTS
  NoBlock = null
  Spent = spent
  Genesis = "g"
  Blocks <- MCBlocks
  Parent <- MCParent
  Anc <- MCAnc
  Height <- MCHeight
  Outpoints <- MCOutpoints
  Creates <- MCCreates
  Spends <- MCSpends
  Coinbase <- MCCoinbase
  MaxCrashes = 2
  Txs <- MCTxs
  Vin <- MCVin
  Vout <- MCVout
  BlockTxs <- MCBlockTxs
  CoinbaseTxs = {"P"}
  CoinstakeTxs = {"C"}
  InvalidTxs = {"Y"}
  LockHeight <- MCLockHeight
  nCoinbaseMaturity = 2
  nCoinbaseMaturity_Reduction = 4
  reductionForkBlock = 4
  limitAncestorCount = 3
  limitDescendantCount = 3
  maxMempool = 3
  maxDisconnected = 1
  Peers = {n1, n2}
  NoPeer = none
  RelayTxs = {"T", "U", "X", "Y"}
  RelayBlocks = {"m", "a1"}
  nMaxOrphanTx = 2
  MaxNotify = 0
  Nodes = {r, s}
  NoNode = nobody
  Responsive = {r}
  StoredAtStart = {"g", "k"}
  BadBlocks = {"b1"}
  Announced = {"a2", "b1"}
  Unasked = {"a1", "b1"}
  CompactBlocks = {"a2"}
  BestBlock = "a2"
  BLOCK_DOWNLOAD_WINDOW = 2
  MAX_BLOCKS_IN_TRANSIT_PER_PEER = 2
  MaxConnects = 1
  MaxCompact = 1
INVARIANT
  PoolMature
CHECK_DEADLOCK FALSE
