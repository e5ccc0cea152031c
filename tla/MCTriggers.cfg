SPECIFICATION SettledFairSpec
CONSTANTS
  onLog = onLog
  onInterval = onInterval
  line = line
  v1 = v1
  v2 = v2
  tx1 = tx1
  None = None
  NoKey = NoKey
  Unborn = Unborn
  Dormant = Dormant
  Lines <- MCLines
  Versions <- MCVersions
  Triggers <- MCTriggers
  LineOf <- MCLineOf
  Pinned <- MCPinned
  KeysOf <- MCKeys
  Spawnable <- MCTriggers
  WithPredicate <- IntervalOnly
  Windows <- WindowsAround
  MaxWindow = 8
  Grain = 2
  Capacity = 2
  MaxTime = 4
  MaxBorn = 2
  MaxCrashes = 1
  MayDrop = TRUE
CHECK_DEADLOCK FALSE
INVARIANTS
  StaleFiresOnce
  FreshTarget
  OneWorkerPerRegistration
PROPERTIES
  NoRepeatWithinWindow
  LastFiredTruthful
  DispatcherReturns
