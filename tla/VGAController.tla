--------------------------- MODULE VGAController ----------------------------
(***************************************************************************)
(* VGA_controller.sv: the divider that makes the 25 MHz pixel clock out of *)
(* the 50 MHz board clock, the raster counters (module Raster) and the two *)
(* registered synchronisation pulses.  A step is an edge of the 50 MHz     *)
(* clock or the asynchronous reset.                                        *)
(***************************************************************************)
EXTENDS Raster

CONSTANTS
  HDisplay,    \* first column that is not displayed: 640
  VDisplay,    \* first line that is not displayed: 480
  HSyncFirst,  \* hsync is low while hc + 1 was in HSyncFirst .. HSyncLast-1:
  HSyncLast,   \*   656 and 752
  VSyncLine    \* vsync compares vc + 1 with this line and the next: 490

ASSUME SyncAssumption ==
  /\ HDisplay \in Nat /\ VDisplay \in Nat
  /\ HSyncFirst \in Nat /\ HSyncLast \in Nat /\ VSyncLine \in Nat
  /\ 0 < HDisplay /\ HDisplay <= HSyncFirst
  /\ HSyncFirst < HSyncLast /\ HSyncLast <= hpixels
  /\ 0 < VDisplay /\ VDisplay < VSyncLine /\ VSyncLine < vlines

VARIABLES
  clkdiv,      \* the divided clock, pixel_clk
  hs, vs       \* the synchronisation pulses, active low

vgaVars == <<clkdiv, hc, vc, hs, vs>>

VGATypeOK ==
  /\ RasterTypeOK
  /\ clkdiv \in {0, 1}
  /\ hs \in {0, 1}
  /\ vs \in {0, 1}

VGAInit ==
  /\ RasterInit
  /\ clkdiv = 0
  /\ hs = 0
  /\ vs = 0

(* The asynchronous reset; holding KEY[0] down is a run of these steps.    *)
Reset ==
  /\ hc' = 0 /\ vc' = 0
  /\ clkdiv' = 0
  /\ hs' = 0 /\ vs' = 0

(* Mutants of the pulse process: the + 1 that makes up for the register is *)
(* forgotten, the pulse starts at once.                                    *)
HSyncProcLate ==
  hs' = IF HSyncFirst <= hc /\ hc < HSyncLast THEN 0 ELSE 1

HSyncProcNoFirst ==
  hs' = IF hc + 1 < HSyncLast THEN 0 ELSE 1

HSyncProc ==
  hs' = IF HSyncFirst <= hc + 1 /\ hc + 1 < HSyncLast THEN 0 ELSE 1

VSyncProc ==
  vs' = IF vc + 1 \in {VSyncLine, VSyncLine + 1} THEN 0 ELSE 1

(* A 50 MHz edge that raises clkdiv: the counters and pulses are clocked.  *)
PixelEdge ==
  /\ clkdiv = 0
  /\ clkdiv' = 1
  /\ CounterProc
  /\ HSyncProc
  /\ VSyncProc

(* A 50 MHz edge that lowers clkdiv.                                       *)
HalfEdge ==
  /\ clkdiv = 1
  /\ clkdiv' = 0
  /\ UNCHANGED <<hc, vc, hs, vs>>

Clk == PixelEdge \/ HalfEdge

VGANext == Clk \/ Reset

(* The board clock never stops.                                            *)
VGASpec == VGAInit /\ [][VGANext]_vgaVars /\ WF_vgaVars(Clk)

(* The blank output: high while the beam is inside the picture.            *)
Display == hc < HDisplay /\ vc < VDisplay

-----------------------------------------------------------------------------
(* The registers hold their reset values until the first pixel edge.       *)
JustReset == hc = 0 /\ vc = 0 /\ hs = 0 /\ vs = 0

(* The picture is never blanked by a pulse: wherever colour is displayed   *)
(* both pulses are high, although they are registered one pixel later than *)
(* the counters they are computed from.                                    *)
SyncOutsidePicture == Display /\ ~JustReset => hs = 1 /\ vs = 1

(* "horizontal sync pulse is 96 pixels long at pixels 656-752": the        *)
(* register delay and the + 1 in its comparison cancel out.                *)
HSyncOnItsPixels ==
  ~JustReset => (hs = 0 <=> hc \in HSyncFirst .. HSyncLast - 1)

(* "vertical sync pulse is 2 lines(800 pixels) long at line 490-491", as   *)
(* the comment of vsync_proc says.  It does not hold: the + 1 that makes   *)
(* up for a register of pixels is added to lines.                          *)
VSyncOnItsLines ==
  ~JustReset => (vs = 0 <=> vc \in VSyncLine .. VSyncLine + 1)

(* Once the reset key is released for good, the beam returns to the last   *)
(* pixel of the frame again and again.                                     *)
FramesRecur ==
  <>[][~Reset]_vgaVars => []<>(hc = hpixels /\ vc = vlines)

=============================================================================
