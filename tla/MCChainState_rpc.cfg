SPECIFICATION Spec
CONSTANTS
  NoBlock = null
  Genesis = "g"
  Blocks <- PairBlocks
  Parent <- Pair
  Anc <- PairAnc
  Height <- PairHeight
  Trust <- PairHeight
  BadContextual = {}
  BadScripts = {"b3"}
  CorruptOnDisk = {}
  Kernel <- PairNoKernel
  InitialHeaders = {}
  ImportFile = {}
  nMinimumChainWork = 0
  MIN_BLOCKS_TO_KEEP = 288
  Rpcs = {"invalidateblock", "preciousblock", "submitblock"}
  RpcAnyTime = FALSE
  FlushModes = {"none"}
  AddressOrders <- PairAddresses
  MaxRestarts = 0
  MaxRpcs = 2
CHECK_DEADLOCK FALSE
INVARIANTS
  CandidatesComplete
