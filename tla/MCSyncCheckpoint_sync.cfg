SPECIFICATION SignedSpec
CONSTANTS
  NoBlock = NoBlock
  M = M
  s1 = s1
  Blocks <- ForkBlocks
  Genesis = "g"
  Parent <- Fork
  Anc <- ForkAnc
  Height <- ForkHeight
  Nodes = {M, s1}
  Master = M
  checkpointdepth = 0
  Hardened = "h"
  Commands = {"b"}
  Restarting = {s1}
  MaxRestarts = 1
  MaxReconnects = 1
  AlertNodes = {M, s1}
  Issuers = {M}
  Links <- MCLinks
  Lifetime = 1
  MaxClock = 1
  MaxAlerts = 3
  MaxBreaks = 1
INVARIANTS
  SyncAccepted
  OneCheckpointChain
  NoFalseAlarm
  CancelledStayAway
  AlertsAgree
CHECK_DEADLOCK FALSE
