CONSTANTS
  MaxPage = 3
  Interval = 1
  MaxPosts = 2
  MaxTurns = 2
  MaxOthers = 1
  MaxBoots = 1
SPECIFICATION Spec
CHECK_DEADLOCK FALSE
INVARIANTS AutoTypeOK SleepAccounts SettledMeansStored
PROPERTY UploadGoesFurther
