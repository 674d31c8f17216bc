CONSTANTS
  Paths = {p}
  x = x
  y = y
  None = None
  Mangled = Mangled
  Tries = 3
  MaxOps = 2
  Files <- MCFiles
SPECIFICATION Spec
CHECK_DEADLOCK FALSE
INVARIANT ConfirmedMeansStored
