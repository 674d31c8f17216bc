CONSTANTS
  Contents = {a, b, c}
  None = None
  Torn = Torn
SPECIFICATION Spec
INVARIANTS
  TypeOK
  NoLeavesBoth
PROPERTY
  ImplementsReplacedFile
