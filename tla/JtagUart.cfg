SPECIFICATION UartSpec
CONSTANTS
  Depth = 2
  ReadThreshold = 0
  WriteThreshold = 1
  Numbers = 3
  BufLen = 3
  MaxCount = 2
  MaxSpace = 2
INVARIANTS
  ChunkIsHead
  SendWakeup
  ReceiveWakeup
PROPERTIES
  TxPipe
  RxPipe
  WriteEnds
  ReadEnds
CHECK_DEADLOCK FALSE
