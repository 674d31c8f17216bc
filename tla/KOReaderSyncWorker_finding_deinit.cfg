CONSTANTS
  MaxPosts = 2
  SleepPush = TRUE
SPECIFICATION Spec
PROPERTY
  NoDeinitUnderSocket
