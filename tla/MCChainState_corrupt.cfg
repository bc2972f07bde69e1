SPECIFICATION FairSpec
CONSTANTS
  NoBlock = null
  Genesis = "g"
  Blocks <- TwigBlocks
  Parent <- Twig
  Anc <- TwigAnc
  Height <- TwigHeight
  Trust <- TwigHeight
  BadContextual = {}
  BadScripts = {}
  CorruptOnDisk = {"b1"}
  Kernel <- TwigNoKernel
  InitialHeaders = {}
  ImportFile = {}
  nMinimumChainWork = 0
  MIN_BLOCKS_TO_KEEP = 288
  Rpcs = {}
  RpcAnyTime = FALSE
  FlushModes = {"none"}
  AddressOrders <- TwigAddresses
  MaxRestarts = 0
  MaxRpcs = 0
PROPERTIES
  ActivationTerminates
