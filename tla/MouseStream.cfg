\* Timers in the order of the real ones, short; bytes and positions as they are.
CONSTANTS
  Command = 244
  Ack = 250
  Cycles101us = 14
  DataLow = 10
  Cycles15ms = 18
  Cycles2ms = 150
  Status = 57
  XMove = 0
  YMove = 56
  MinPhase = 4
  MaxPhase = 5
  MaxFailures = 6
  MaxPackets = 4
  MaxResets = 1
  Min = 5
  XMax = 635
  YMax = 475
  Span = 1024
  ByteSpan = 256
  BitL = 1
  BitX = 16
  BitY = 32
SPECIFICATION StreamSpec
INVARIANTS
  CommandHeard
  PacketsUnderstood
PROPERTIES
  MouseEnabled
  StaysOnScreen
  MovesLikeAPointer
