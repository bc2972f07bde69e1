SPECIFICATION Spec
CONSTANTS
  NoBlock = null
  Genesis = "g"
  Blocks <- PairBlocks
  Parent <- Pair
  Anc <- PairAnc
  Height <- PairHeight
  Trust <- PairHeight
  BadContextual = {}
  BadScripts = {}
  CorruptOnDisk = {}
  Kernel <- PairSideKernel
  InitialHeaders = {}
  ImportFile = {}
  nMinimumChainWork = 0
  MIN_BLOCKS_TO_KEEP = 288
  Rpcs = {}
  RpcAnyTime = FALSE
  FlushModes = {"none"}
  AddressOrders <- PairAddresses
  MaxRestarts = 0
  MaxRpcs = 0
INVARIANTS
  OnlyInvalidFail
