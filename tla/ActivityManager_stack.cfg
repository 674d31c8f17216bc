CONSTANTS
  Activities = {reader, usb, m1, m2, sleep}
  Readers = {reader}
  Networked = {m1, usb}
  UsbDrives = {usb}
  SleepScreen = sleep
  None = None
  Calls = {"request", "replace", "push", "finish", "release"}
  MaxStack = 2
  MaxChain = 2
SPECIFICATION Spec
INVARIANTS
  TypeOK
  NoUseAfterFree
  StackWellFormed
PROPERTY
  ImplementsScreenStack
