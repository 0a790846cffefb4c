CONSTANTS
  Objects = {o1, o2}
  Configs <- StateConfigs
  NoConfig = NoConfig
  BadTargets = {}
  Mode = "current-thread"
  MaxShared = 2
  MaxStreams = 1
SPECIFICATION FairSpec
INVARIANTS
  ProbeInv
  ConnectingHasProbe
PROPERTIES
  ConnectingFromIdle
  WatchReturns
