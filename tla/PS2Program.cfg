SPECIFICATION ProgramSpec
CONSTANTS
  Depth = 3
  Packets <- TestPackets
  MaxPackets = 2
  MaxPlugs = 1
  Timeout = 2
  minX = 65
  maxX = 75
  minY = 65
  maxY = 70
INVARIANTS
  CursorInRange
PROPERTIES
  InitReturns
  NoDrift
CHECK_DEADLOCK FALSE
