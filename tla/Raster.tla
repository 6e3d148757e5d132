------------------------------- MODULE Raster -------------------------------
(***************************************************************************)
(* The pixel and line counters of VGA_controller.sv.  Every other block of *)
(* the display path (Color_Mapper.sv, the frame memories of lab8.sv) is    *)
(* driven by these two counters, so they live in a module of their own.    *)
(* One CounterProc step is one rising edge of the 25 MHz pixel clock.      *)
(***************************************************************************)
EXTENDS Integers

CONSTANTS
  hpixels,   \* last column of a line: 799 in the code
  vlines     \* last line of a frame: 524 in the code

ASSUME RasterAssumption ==
  /\ hpixels \in Nat
  /\ vlines \in Nat

VARIABLES
  hc,        \* horizontal pixel counter, DrawX outside the controller
  vc         \* vertical line counter, DrawY outside the controller

RasterTypeOK ==
  /\ hc \in 0 .. hpixels
  /\ vc \in 0 .. vlines

RasterInit ==
  /\ hc = 0
  /\ vc = 0

(* A mutant: the last line is left out.                                    *)
CounterProcShortFrame ==
  \/ hc = hpixels /\ hc' = 0 /\ vc' = (IF vc + 1 = vlines THEN 0 ELSE vc + 1)
  \/ hc # hpixels /\ hc' = hc + 1 /\ UNCHANGED vc

(* The counters advance in raster order and wrap at the end of the frame.  *)
CounterProc ==
  \/ /\ hc = hpixels
     /\ hc' = 0
     /\ \/ vc = vlines  /\ vc' = 0
        \/ vc # vlines  /\ vc' = vc + 1
  \/ /\ hc # hpixels
     /\ hc' = hc + 1
     /\ UNCHANGED vc

(* Pixel clocks in one frame.                                              *)
FrameLength == (hpixels + 1) * (vlines + 1)

=============================================================================
