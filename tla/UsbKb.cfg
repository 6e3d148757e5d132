SPECIFICATION UsbSpec
CONSTANTS
  Keys = {"a"}
  Faults = 1
INVARIANTS
  ListsWellFormed
PROPERTIES
  EachStepAnswered
  ResendEnds
  RemovalNoticed
CHECK_DEADLOCK FALSE
