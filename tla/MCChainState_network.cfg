SPECIFICATION FairSpec
CONSTANTS
  NoBlock = null
  Genesis = "g"
  Blocks <- StakedBlocks
  Parent <- Staked
  Anc <- StakedAnc
  Height <- StakedHeight
  Trust <- StakedHeight
  BadContextual = {}
  BadScripts = {"b2"}
  CorruptOnDisk = {}
  Kernel <- StakedKernel
  InitialHeaders = {"k", "a1", "a2"}
  ImportFile = {"k", "a1", "a2"}
  nMinimumChainWork = 0
  MIN_BLOCKS_TO_KEEP = 288
  Rpcs = {}
  RpcAnyTime = FALSE
  FlushModes = {"none"}
  AddressOrders <- StakedAddresses
  MaxRestarts = 0
  MaxRpcs = 0
CHECK_DEADLOCK FALSE
INVARIANTS
  OnlyInvalidFail
  BestChainActive
  LinkingExact
PROPERTIES
  NoRegress
  ActivationTerminates
