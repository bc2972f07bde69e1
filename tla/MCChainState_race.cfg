SPECIFICATION Spec
CONSTANTS
  NoBlock = null
  Genesis = "g"
  Blocks <- PairBlocks
  Parent <- Pair
  Anc <- PairAnc
  Height <- PairHeight
  Trust <- PairHeight
  BadContextual = {}
  BadScripts = {}
  CorruptOnDisk = {}
  Kernel <- PairNoKernel
  InitialHeaders = {}
  ImportFile = {"b1", "b2", "b3"}
  nMinimumChainWork = 0
  MIN_BLOCKS_TO_KEEP = 288
  Rpcs = {"invalidateblock"}
  RpcAnyTime = TRUE
  FlushModes = {"none"}
  AddressOrders <- PairAddresses
  MaxRestarts = 0
  MaxRpcs = 1
CHECK_DEADLOCK FALSE
INVARIANTS
  ActiveChainNotFailed
