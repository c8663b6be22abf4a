SPECIFICATION Spec
CONSTANTS
  MaxTasks = 2
  MaxScopes = 2
  MaxTimers = 2
  Uses <- CancelUses
  None = None
INVARIANTS
  QueueSound
  Wakeable
  NoDanglingTask
  DeadlockHasCause
