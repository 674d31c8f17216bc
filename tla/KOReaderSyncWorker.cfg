CONSTANTS
  MaxPosts = 3
  SleepPush = TRUE
SPECIFICATION FairSpec
INVARIANTS
  TypeOK
  PostedJobHasWaker
  ReportedWasStored
  RadioReturned
PROPERTIES
  SleepSparesTheSocket
  SleepReached
