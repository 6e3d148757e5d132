\* The 640x480 timing of VGA_controller.sv, every pixel of the frame.
CONSTANTS
  hpixels = 799
  vlines = 524
  HDisplay = 640
  VDisplay = 480
  HSyncFirst = 656
  HSyncLast = 752
  VSyncLine = 490
  SpriteSpan = 16384
  LogoWords = 11400
  ToolWords = 11900
  ResetAt <- TestResets
SPECIFICATION DisplaySpec
INVARIANTS
  SyncOutsidePicture
  HSyncOnItsPixels
  SpritesAligned
  PickIsWhatYouSee
PROPERTY FramesRecur
