SPECIFICATION LocalSpec
CONSTANTS
  Kinds = {scope, chan}
  MaxGen = 3
  MaxSlots = 2
  HeapDelays = {1, 2}
  HeapMax = 6
  CwTasks = {1, 2, 3}
  CwChans = 2
  CwSelects <- Selects
  ChunkSize = 2
  ArenaBase = 4
  ArenaChunks = 3
  RtTop = 13
  MinRegions = 1
  RtMax = 4
  MapKeys = {1, 2, 3, 4, 5, 6, 7}
  MapValues = {"v", "LLONG_MIN"}
  HrPlans <- Plans
  HrLimits <- Limits
  HrSizeMax = 255
  ProcCap = 1
  ProcMaxWrite = 2
INVARIANTS
  StaleNeverResolves
  LiveAlwaysResolves
  HeapSound
  CancelDropsExactly
  RegionFindExact
  MapSound
  HttpSplitIndependent
  HttpBodyWhole
  ProcReleasedOnce
  ProcKillsOwnChild
  ProcVerdict
PROPERTY ProcCallEnds
CHECK_DEADLOCK FALSE
