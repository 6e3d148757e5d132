--------------------------- MODULE OneShot_proofs ---------------------------
(***************************************************************************)
(* The paint logic of Color_Mapper.sv, for every canvas, frame length,     *)
(* brush size, set of colours and placement of the buttons: its registers  *)
(* keep their ranges, one operation runs at a time, and one press of the   *)
(* button is one effect of a one-shot tool.                                *)
(***************************************************************************)
EXTENDS OneShot, TLAPS

USE MapperAssumption

(* Every action that can be a pixel clock of the paint logic.              *)
Logic ==
  OpStep \/ Larger \/ Smaller \/ SelectBrush \/ Eraser \/ StartOp \/ NoTool
    \/ Release

(* The pixel registers hold colours.                                       *)
LEMMA PixelOutType ==
  ASSUME MapperTypeOK,
         NEW draw, NEW px \in Colors, NEW bk \in Colors, NEW bk2 \in Colors,
         NEW rnd \in Colors, PixelOut(draw, px, bk, bk2, rnd)
  PROVE  ramIn' \in Colors /\ backIn' \in Colors /\ atCursor' \in Colors
<1>1. OpPixel(px, bk, bk2, rnd) \in Colors
  BY DEF OpPixel, MapperTypeOK
<1> QED
  BY <1>1 DEF PixelOut, MapperTypeOK

(* The control registers keep their ranges.                                *)
LEMMA LogicType ==
  ASSUME MapperTypeOK, Logic
  PROVE  /\ curColor' \in Colors
         /\ Brush_size' \in 0 .. BrushMax /\ Brush_size' % 3 = 0
         /\ Brush_type' \in 0 .. 4
         /\ counter' \in 0 .. FrameLast
         /\ pressed' \in BOOLEAN
         /\ horiz' \in BOOLEAN /\ vert' \in BOOLEAN /\ rando' \in BOOLEAN
         /\ toReplace' \in Colors
<1> USE DEF MapperTypeOK
<1>0. Pick[cursor] \in Colors \cup {-1}
  OBVIOUS
<1>1. CASE OpStep
  <2>1. UNCHANGED <<curColor, Brush_size, Brush_type>>
    BY <1>1 DEF OpStep, setting
  <2>2. toReplace' \in Colors
    BY <1>1 DEF OpStep
  <2>3. pressed' = TRUE
    BY <1>1 DEF OpStep
  <2>4. CASE counter = FrameLast
    <3>1. counter' = 0 /\ horiz' = FALSE /\ vert' = FALSE /\ rando' = FALSE
      BY <1>1, <2>4 DEF OpStep
    <3>2. 0 \in 0 .. FrameLast
      OBVIOUS
    <3> QED
      BY <2>1, <2>2, <2>3, <3>1, <3>2
  <2>5. CASE counter # FrameLast
    <3>1. counter' = counter + 1 /\ UNCHANGED opFlags
      BY <1>1, <2>5 DEF OpStep
    <3> QED
      BY <2>1, <2>2, <2>3, <2>5, <3>1 DEF opFlags
  <2> QED
    BY <2>4, <2>5
<1>2. CASE Larger
  BY <1>0, <1>2 DEF Larger, PickColor, opFlags
<1>3. CASE Smaller
  <2>1. Brush_size > 0 =>
          Brush_size - 3 \in 0 .. BrushMax /\ (Brush_size - 3) % 3 = 0
    OBVIOUS
  <2> QED
    BY <1>0, <1>3, <2>1 DEF Smaller, PickColor, opFlags
<1>4. CASE SelectBrush
  <2>1. \A t \in DOMAIN BrushOf : BrushOf[t] \in 0 .. 4
    BY DEF BrushOf
  <2> QED
    BY <1>0, <1>4, <2>1 DEF SelectBrush, PickColor, opFlags
<1>5. CASE Eraser
  BY <1>5 DEF Eraser, opFlags
<1>6. CASE StartOp
  BY <1>0, <1>6 DEF StartOp, PickColor
<1>7. CASE NoTool
  BY <1>0, <1>7 DEF NoTool, PickColor, opFlags
<1>8. CASE Release
  BY <1>8 DEF Release, setting, opFlags
<1> QED
  BY <1>1, <1>2, <1>3, <1>4, <1>5, <1>6, <1>7, <1>8 DEF Logic

(* A step of the paint logic or of its inputs keeps every range.           *)
LEMMA TypeStep ==
  ASSUME MapperTypeOK, [MapperNext]_mapperVars PROVE MapperTypeOK'
<1>1. CASE PixelClock
  <2>1. PICK draw \in Pixels, px, bk, bk2, rnd \in Colors :
           Posedge(draw, px, bk, bk2, rnd)
    BY <1>1 DEF PixelClock
  <2>2. Logic /\ PixelOut(draw, px, bk, bk2, rnd)
    BY <2>1 DEF Posedge, Logic
  <2>3. cursor' \in Cursors /\ left_btn' \in BOOLEAN
    BY <1>1 DEF PixelClock, inputs, MapperTypeOK
  <2> QED
    BY <2>2, <2>3, LogicType, PixelOutType DEF MapperTypeOK
<1>2. CASE MouseButton
  BY <1>2 DEF MouseButton, MapperTypeOK, setting, opFlags, pipe
<1>3. CASE MouseMove
  BY <1>3 DEF MouseMove, MapperTypeOK, setting, opFlags, pipe
<1>4. CASE UNCHANGED mapperVars
  BY <1>4 DEF mapperVars, inputs, MapperTypeOK, setting, opFlags, pipe
<1> QED
  BY <1>1, <1>2, <1>3, <1>4 DEF MapperNext

LEMMA TypeInit ==
  ASSUME MapperInit PROVE MapperTypeOK
<1>1. 0 \in 0 .. BrushMax /\ 0 % 3 = 0 /\ 0 \in 0 .. 4 /\ 0 \in 0 .. FrameLast
  OBVIOUS
<1> QED
  BY <1>1 DEF MapperInit, MapperTypeOK

(* The registers of the paint logic keep their ranges; in particular the   *)
(* brush size is a multiple of 3 that never wraps.                         *)
THEOREM TypeCorrect == MapperSpec => []MapperTypeOK
BY TypeInit, TypeStep, PTL DEF MapperSpec

(* An operation's flags are down whenever the frame counter is at zero,    *)
(* and at most one is ever up.                                             *)
LEMMA LogicOneOperation ==
  ASSUME MapperTypeOK, OneOperation, Logic PROVE OneOperation'
<1> USE DEF MapperTypeOK, OneOperation
<1>1. CASE OpStep
  <2>1. CASE counter = FrameLast
    BY <1>1, <2>1 DEF OpStep
  <2>2. CASE counter # FrameLast
    BY <1>1, <2>2 DEF OpStep, opFlags
  <2> QED
    BY <2>1, <2>2
<1>2. CASE Larger \/ Smaller \/ SelectBrush \/ Eraser \/ NoTool \/ Release
  BY <1>2 DEF Larger, Smaller, SelectBrush, Eraser, NoTool, Release, opFlags
<1>3. CASE StartOp
  <2>1. counter = 0
    BY <1>3 DEF StartOp, At, OpRunning
  <2> QED
    BY <1>3, <2>1 DEF StartOp
<1> QED
  BY <1>1, <1>2, <1>3 DEF Logic

LEMMA OneOperationStep ==
  ASSUME MapperTypeOK, OneOperation, [MapperNext]_mapperVars
  PROVE  OneOperation'
<1>1. CASE PixelClock
  <2>1. Logic
    BY <1>1 DEF PixelClock, Posedge, Logic
  <2> QED
    BY <2>1, LogicOneOperation
<1>2. CASE MouseButton \/ MouseMove
  BY <1>2 DEF MouseButton, MouseMove, OneOperation, opFlags
<1>3. CASE UNCHANGED mapperVars
  BY <1>3 DEF mapperVars, OneOperation, opFlags
<1> QED
  BY <1>1, <1>2, <1>3 DEF MapperNext

(* At most one operation runs at any time, and its flags go down with it:  *)
(* for the paint logic by itself, whatever its surroundings do.            *)
THEOREM AtMostOneOperation == MapperSpec => []OneOperation
<1>1. MapperInit => OneOperation
  BY DEF MapperInit, OneOperation
<1> QED
  BY <1>1, OneOperationStep, TypeCorrect, PTL DEF MapperSpec

-----------------------------------------------------------------------------
(* The paint logic with the history of the held button.                    *)
LEMMA ShotIsMapper ==
  ASSUME [ShotNext]_shotVars PROVE [MapperNext]_mapperVars
BY DEF ShotNext, shotVars, MapperNext

(* The registers keep their ranges with the history beside them.           *)
THEOREM ShotTypeCorrect == ShotSpec => []ShotTypeOK
<1>1. ShotInit => ShotTypeOK
  BY TypeInit DEF ShotInit, ShotTypeOK
<1>2. ShotTypeOK /\ [ShotNext]_shotVars => ShotTypeOK'
  <2> SUFFICES ASSUME ShotTypeOK, [ShotNext]_shotVars PROVE ShotTypeOK'
    OBVIOUS
  <2>1. MapperTypeOK'
    BY TypeStep, ShotIsMapper DEF ShotTypeOK
  <2>2. spent' \in BOOLEAN
    <3>1. CASE PixelClock /\ spent' = (spent \/ Fires)
      BY <3>1 DEF ShotTypeOK
    <3>2. CASE MouseMove /\ UNCHANGED spent
      BY <3>2 DEF ShotTypeOK
    <3>3. CASE MouseButton /\ spent' = (spent /\ left_btn')
      BY <3>3 DEF ShotTypeOK
    <3>4. CASE UNCHANGED shotVars
      BY <3>4 DEF ShotTypeOK, shotVars
    <3> QED
      BY <3>1, <3>2, <3>3, <3>4 DEF ShotNext
  <2> QED
    BY <2>1, <2>2 DEF ShotTypeOK
<1> QED
  BY <1>1, <1>2, PTL DEF ShotSpec

(* What keeps a held button from firing twice: the register pressed        *)
(* remembers it.  The property alone is not inductive, it says nothing of  *)
(* pressed.                                                                *)
HeldIsRemembered == spent => left_btn /\ pressed

(* Only a tool that is not yet pressed fires, and it is pressed then.      *)
LEMMA FiringPresses ==
  ASSUME PixelClock, Fires PROVE left_btn /\ ~pressed /\ pressed'
<1>1. CASE OpStep
  <2>1. Brush_size' = Brush_size
    BY <1>1 DEF OpStep, setting
  <2>2. BucketClick \/ counter # 0
    BY <1>1 DEF OpStep, OpRunning
  <2> QED
    BY <2>1, <2>2 DEF Fires
<1>2. CASE Larger \/ Smaller \/ StartOp
  BY <1>2 DEF Larger, Smaller, StartOp, At
<1>3. CASE SelectBrush \/ Eraser \/ NoTool \/ Release
  <2>1. Brush_size' = Brush_size /\ counter' = counter
    BY <1>3 DEF SelectBrush, Eraser, NoTool, Release, setting
  <2> QED
    BY <2>1 DEF Fires
<1> QED
  BY <1>1, <1>2, <1>3 DEF PixelClock, Posedge

(* While the button is down no pixel clock forgets that it had its effect. *)
LEMMA PressedStays ==
  ASSUME PixelClock, left_btn, pressed PROVE pressed'
<1>1. CASE OpStep
  BY <1>1 DEF OpStep
<1>2. CASE Larger \/ Smaller \/ StartOp
  BY <1>2 DEF Larger, Smaller, StartOp
<1>3. CASE SelectBrush \/ Eraser \/ NoTool
  BY <1>3 DEF SelectBrush, Eraser, NoTool
<1>4. CASE Release
  BY <1>4 DEF Release
<1> QED
  BY <1>1, <1>2, <1>3, <1>4 DEF PixelClock, Posedge

LEMMA HeldIsRememberedInductive ==
  ASSUME HeldIsRemembered, [ShotNext]_shotVars PROVE HeldIsRemembered'
<1>1. CASE PixelClock /\ spent' = (spent \/ Fires)
  <2>1. left_btn' = left_btn
    BY <1>1 DEF PixelClock, inputs
  <2>2. CASE Fires
    BY <1>1, <2>1, <2>2, FiringPresses DEF HeldIsRemembered
  <2>3. CASE ~Fires
    BY <1>1, <2>1, <2>3, PressedStays DEF HeldIsRemembered
  <2> QED
    BY <2>2, <2>3
<1>2. CASE MouseMove /\ UNCHANGED spent
  BY <1>2 DEF MouseMove, HeldIsRemembered
<1>3. CASE MouseButton /\ spent' = (spent /\ left_btn')
  BY <1>3 DEF MouseButton, HeldIsRemembered
<1>4. CASE UNCHANGED shotVars
  BY <1>4 DEF shotVars, mapperVars, inputs, HeldIsRemembered
<1> QED
  BY <1>1, <1>2, <1>3, <1>4 DEF ShotNext

(* However the button, the pointer and the pixel clock interleave, a press *)
(* fires at most one one-shot tool, once.                                  *)
THEOREM OneShotHolds == ShotSpec => OneShotPerPress
<1>1. ShotInit => HeldIsRemembered
  BY DEF ShotInit, HeldIsRemembered
<1>2. HeldIsRemembered /\ [ShotNext]_shotVars => HeldIsRemembered'
  BY HeldIsRememberedInductive
<1>3. HeldIsRemembered /\ [ShotNext]_shotVars => [Fires => ~spent]_shotVars
  <2> SUFFICES ASSUME HeldIsRemembered, ShotNext, Fires PROVE ~spent
    OBVIOUS
  <2>1. CASE PixelClock
    BY <2>1, FiringPresses DEF HeldIsRemembered
  <2>2. CASE MouseMove \/ MouseButton
    BY <2>2 DEF MouseMove, MouseButton, setting, Fires
  <2> QED
    BY <2>1, <2>2 DEF ShotNext
<1> QED
  BY <1>1, <1>2, <1>3, PTL DEF ShotSpec, OneShotPerPress

=============================================================================
