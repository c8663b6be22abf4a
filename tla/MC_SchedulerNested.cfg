SPECIFICATION Spec
CONSTANTS
  MaxTasks = 2
  MaxScopes = 2
  MaxTimers = 2
  Uses <- NestedUses
  None = None
INVARIANTS
  NoOrphans
