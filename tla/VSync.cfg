\* The 640x480 timing of VGA_controller.sv.
CONSTANTS
  hpixels = 799
  vlines = 524
  HDisplay = 640
  VDisplay = 480
  HSyncFirst = 656
  HSyncLast = 752
  VSyncLine = 490
SPECIFICATION VGASpec
INVARIANT VSyncOnItsLines
