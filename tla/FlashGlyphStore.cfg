SPECIFICATION Spec
CONSTANTS
  a = a
  b = b
  n = n
  Glyphs <- MCGlyphs
  Blanks <- MCBlanks
  Size <- MCSize
  Home <- MCHome
  SegmentCount = 3
  Cap = 2
  SlotCount = 5
  MaxProbe = 2
  LoadLimit = 3
  StaleLimit = 2
  EpochMod = 4
  RebuildLimit = 4
  RebuildSpan = 3
  FreeTarget = 1
  JournalEntries = 1
  MaxCount = 1
  MaxBatch = 2
  MaxFaults = 1
INVARIANTS FlashTypeOK NothingTornServed OpenFindsWhatWasThere
PROPERTIES WriteOnce AnswersStay CutForgetsNothing OpenMakesRoom
