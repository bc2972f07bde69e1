SPECIFICATION Spec
CONSTANTS
  NoBlock = null
  Genesis = "g"
  Blocks <- TwigBlocks
  Parent <- Twig
  Anc <- TwigAnc
  Height <- TwigHeight
  Trust <- TwigHeight
  BadContextual = {}
  BadScripts = {}
  CorruptOnDisk = {}
  Kernel <- TwigNoKernel
  InitialHeaders = {}
  ImportFile = {}
  nMinimumChainWork = 0
  MIN_BLOCKS_TO_KEEP = 288
  Rpcs = {"invalidateblock"}
  RpcAnyTime = FALSE
  FlushModes = {"none", "index", "full"}
  AddressOrders <- TwigAddresses
  MaxRestarts = 2
  MaxRpcs = 1
CHECK_DEADLOCK FALSE
INVARIANTS
  ActiveChainConnected
  DiskChainConnected
  FailedMaskJustified
