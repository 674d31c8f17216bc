CONSTANTS
  b1 = b1
  b2 = b2
  b3 = b3
  Books = {b1, b2, b3}
  NoBook = NoBook
  EntryCount = 2
  Legacies <- AllLegacies
  Edits = {"Session", "Finish", "Remove", "Rekey", "List"}
  MaxTime = 1
  MaxSeq = 3
  MaxDamages = 0
SPECIFICATION Spec
SYMMETRY BookSymmetry
INVARIANTS
  TypeOK
  FileAlwaysLoads
  NeverOutOfSlots
  StaleIndexDetected
PROPERTIES
  DoneIsOnTheCard
  ImplementsReadingHistory
