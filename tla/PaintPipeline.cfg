CONSTANTS
  hpixels = 6
  vlines = 2
  X0 = 2
  Y0 = 1
  W = 3
  H = 2
  FrameLast = 20
  BrushMax = 3
  ColSpan = 8
  RowSpan = 4
  BackSpan = 8
  MaxMouse = 2
  MaxResets = 1
  Colors <- MCColors
  Pixels <- MCPixels
  Garbage <- MCGarbage
  Cursors <- PipeCursors
  Tool <- PipeTool
  Pick <- PipePick
  InitCanvases <- PipeCanvases
  InitBrushes <- PipeBrushes
SPECIFICATION PaintSpec
INVARIANTS
  BeamReadsItsPixel
PROPERTIES
  OnlyPaintChangesCanvas
  HeldBrushPaints
  OperationsEnd
  ReleaseRearms
