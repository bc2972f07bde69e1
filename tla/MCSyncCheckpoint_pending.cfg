SPECIFICATION FairCheckpointSpec
CONSTANTS
  NoBlock = NoBlock
  M = M
  s1 = s1
  Blocks <- LineBlocks
  Genesis = "g"
  Parent <- Line
  Anc <- LineAnc
  Height <- LineHeight
  Nodes = {M, s1}
  Master = M
  checkpointdepth = 0
  Hardened = "g"
  Commands = {"a"}
  Restarting = {}
  MaxRestarts = 0
  MaxReconnects = 0
  AlertNodes = {M, s1}
  Issuers = {M}
  Links <- MCLinks
  Lifetime = 1
  MaxClock = 1
  MaxAlerts = 3
  MaxBreaks = 0
PROPERTIES
  PendingAdopted
CHECK_DEADLOCK FALSE
