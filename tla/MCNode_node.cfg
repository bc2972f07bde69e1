SPECIFICATION NodeSpec
CONSTANTS
  ScriptThreads = {c1, c2}
  Masters = {m1, m2}
  Interruptible = {m1}
  Checks = {1, 2, 3}
  Good = {1, 2}
  nBatchSize = 2
  NoMaster = none
  s1 = s1
  s2 = s2
  w1 = w1
  h1 = h1
  i1 = i1
  g1 = g1
  main = main
  Services = {s1, s2}
  HttpWorkers = {w1}
  Handlers = {h1}
  Importers = {i1}
  Miners = {g1}
  Main = main
  Populations <- MCPopulations
  NoCallback = nocallback
  SyncLimit = 0
  maxDepth = 1
  MaxDemand = 3
  BaseHeights = {0, 1399998, 1444999, 2149999, 2999998, 44999999}
  FirstReward = 1000000
  halvingForkBlock = 1400000
  halvingFixForkBlock = 1445000
  StakeProof = 3
  PeerKinds = {"pos", "curve", "mino"}
  MaxBlocks = 4
  Width = 24
  DigitBits = 2
  nDgwPastBlocks = 2
  Spacing <- MCSpacing
  ReducedSpacing <- MCReducedSpacing
  powForkTime = 580
  reductionForkBlock = 2
  TimeSteps <- MCTimeSteps
  MaxLength = 6
INVARIANTS
  NodeTypeOK
  VerdictExact
  QueueFinished
  NoCallbackMissed
  StakerLives
  OnlyStaleRefused
  RetargetNearExact
PROPERTIES
  ControlEnds
  CallbacksSerial
  EveryCallbackRuns
  ShutdownCompletes
  RequestsTaken
CHECK_DEADLOCK FALSE
