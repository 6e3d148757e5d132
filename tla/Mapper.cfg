CONSTANTS
  X0 = 100
  Y0 = 100
  W = 440
  H = 280
  FrameLast = 2
  BrushMax = 6
  Colors <- MCColors
  Cursors <- MCCursors
  Pixels <- MCPixels
  Tool <- MCTool
  Pick <- MCPick
SPECIFICATION ShotSpec
INVARIANTS
  ShotTypeOK
  OneOperation
PROPERTY OneShotPerPress
