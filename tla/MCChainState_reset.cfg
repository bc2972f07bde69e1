SPECIFICATION Spec
CONSTANTS
  NoBlock = null
  Genesis = "g"
  Blocks <- PairBlocks
  Parent <- Pair
  Anc <- PairAnc
  Height <- PairHeight
  Trust <- PairHeight
  BadContextual = {"b3"}
  BadScripts = {}
  CorruptOnDisk = {"a2"}
  Kernel <- PairCrossKernel
  InitialHeaders = {"b1", "b2"}
  ImportFile = {"b1", "b2", "b3"}
  nMinimumChainWork = 0
  MIN_BLOCKS_TO_KEEP = 288
  Rpcs = {"submitblock", "invalidateblock", "reconsiderblock"}
  RpcAnyTime = FALSE
  FlushModes = {"none"}
  AddressOrders <- PairAddresses
  MaxRestarts = 0
  MaxRpcs = 2
CHECK_DEADLOCK FALSE
INVARIANTS
  ActiveChainNotFailed
  FailedBlocksMarked
