CONSTANTS
  hpixels = 8
  vlines = 1
  X0 = 2
  Y0 = 0
  W = 6
  H = 2
  FrameLast = 17
  BrushMax = 3
  ColSpan = 8
  RowSpan = 2
  BackSpan = 16
  MaxMouse = 3
  MaxResets = 0
  Colors <- MCColors
  Pixels <- MCPixels
  Garbage <- MCGarbage
  Cursors <- OpsCursors
  Tool <- OpsTool
  Pick <- OpsPick
  InitCanvases <- OpsCanvases
  InitBrushes <- OpsBrushes
  NoOp = NoOp
SPECIFICATION OpsSpec
INVARIANTS
  VerticalFlip
  HorizontalFlip
  CanvasCleared
  ColorReplaced
