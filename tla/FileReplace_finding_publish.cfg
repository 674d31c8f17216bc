CONSTANTS
  Contents = {a, b}
  None = None
  Torn = Torn
SPECIFICATION Spec
INVARIANT IndexKept
