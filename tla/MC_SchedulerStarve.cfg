SPECIFICATION FairSpec
CONSTANTS
  MaxTasks = 2
  MaxScopes = 2
  MaxTimers = 2
  Uses <- StarveUses
  None = None
PROPERTIES
  ParkedBodyExpires
