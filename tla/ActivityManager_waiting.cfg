CONSTANTS
  Activities = {reader, m1, m2, sleep}
  Readers = {reader}
  Networked = {}
  UsbDrives = {}
  SleepScreen = sleep
  None = None
  Calls = {"request", "immediate", "wait", "lock", "replace"}
  MaxStack = 0
  MaxChain = 1
SPECIFICATION FairSpec
INVARIANTS
  NoTornFrame
PROPERTIES
  EveryUpdateDrawn
  TransitionHappens
  WaiterReturnsEventually
