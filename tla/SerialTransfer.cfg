CONSTANTS
  Paths = {p, q}
  x = x
  y = y
  None = None
  Mangled = Mangled
  Tries = 3
  MaxOps = 3
  Files <- MCFiles
SPECIFICATION Spec
CHECK_DEADLOCK FALSE
INVARIANTS
  TypeOK
  AnswersAreTrue
  OneHiccupForgiven
PROPERTY
  NoneWaitsForever
