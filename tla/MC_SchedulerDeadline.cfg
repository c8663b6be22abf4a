SPECIFICATION FairSpec
CONSTANTS
  MaxTasks = 2
  MaxScopes = 2
  MaxTimers = 2
  Uses <- DeadlineUses
  None = None
PROPERTIES
  DeadlineHonoured
