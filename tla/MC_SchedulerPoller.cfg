SPECIFICATION Spec
CONSTANTS
  MaxTasks = 2
  MaxScopes = 1
  MaxTimers = 2
  Uses <- PollerUses
  None = None
INVARIANTS
  QueueSound
  TimersSound
  NothingLeaked
  BoundedParkTruthful
