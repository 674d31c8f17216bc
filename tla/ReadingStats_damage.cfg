CONSTANTS
  b1 = b1
  b2 = b2
  b3 = b3
  Books = {b1, b2, b3}
  NoBook = NoBook
  EntryCount = 2
  Legacies <- NoLegacies
  Edits = {"Session", "Rekey", "Remove", "List"}
  MaxTime = 1
  MaxSeq = 3
  MaxDamages = 2
SPECIFICATION Spec
SYMMETRY BookSymmetry
INVARIANTS
  DamageCostsOneBook
PROPERTIES
  RemovalNeverStartsOver
