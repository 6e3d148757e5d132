SPECIFICATION WiresSpec
CONSTANTS
  Values = {0, 1}
  None = None
  MinGap = 4
  AccessTime = 1
INVARIANT OneDriver
PROPERTY OneAccessPerCall
