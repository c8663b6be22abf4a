SPECIFICATION Spec
CONSTANTS
  MaxTasks = 3
  MaxScopes = 2
  MaxTimers = 1
  Uses <- CaptureUses
  None = None
INVARIANTS
  TasksInsideScopes
