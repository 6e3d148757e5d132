---------------------------- MODULE ColorMapper -----------------------------
(***************************************************************************)
(* The paint logic of Color_Mapper.sv: the registers that its always_ff    *)
(* block updates on the rising edge of the pixel clock, except the display *)
(* outputs (module Display).  The pixel behind the beam and the outputs of *)
(* the memories are parameters of Posedge: module Paint connects them to   *)
(* the frame memories; here they are whatever the memories may answer.     *)
(* A 4-bit colour stands for the pairs {ramIn2, ramIn}, {ramOut2, ramOut}. *)
(***************************************************************************)
EXTENDS Integers

CONSTANTS
  X0, Y0, W, H,   \* the canvas: columns X0 .. X0+W-1, lines Y0 .. Y0+H-1
  FrameLast,      \* counter value of the last pixel of a frame: 419999
  BrushMax,       \* largest brush size: 255
  Colors,         \* the 4-bit colours; 0 is white
  Cursors,        \* the points <<x, y>> the mouse can report
  Pixels,         \* the points the beam visits
  Tool,           \* the tool button under a cursor, "none" elsewhere
  Pick            \* the palette colour under a cursor, -1 elsewhere

Buttons == {"larger", "smaller", "circle", "square", "hline", "vline",
            "random", "bucket", "eraser", "clear", "fliph", "flipv"}

OneShots == {"random", "clear", "fliph", "flipv"}

BrushOf == [circle |-> 0, square |-> 1, hline |-> 2, vline |-> 3, bucket |-> 4]

InCanvas(p) == p[1] < X0 + W /\ p[2] < Y0 + H /\ p[1] >= X0 /\ p[2] >= Y0

ASSUME MapperAssumption ==
  /\ X0 \in Nat /\ Y0 \in Nat /\ W \in Nat /\ H \in Nat
  /\ FrameLast \in Nat \ {0}
  /\ BrushMax \in Nat /\ BrushMax % 3 = 0
  /\ 0 \in Colors /\ -1 \notin Colors
  /\ Cursors \subseteq Int \X Int /\ Pixels \subseteq Int \X Int
  /\ Tool \in [Cursors -> Buttons \cup {"none"}]
  /\ Pick \in [Cursors -> Colors \cup {-1}]

VARIABLES
  cursor, left_btn,            \* inputs, from the mouse
  curColor, Brush_size, Brush_type,
  counter,                     \* pixels done by the running operation
  pressed,                     \* the held button has had its effect
  horiz, vert, rando,          \* which operation is running
  toReplace, atCursor,         \* colours the bucket replaces and reads
  ramIn, backIn                \* the pixel to the frame memories

inputs == <<cursor, left_btn>>
opFlags == <<horiz, vert, rando>>
setting == <<curColor, Brush_size, Brush_type>>
pipe == <<toReplace, atCursor, ramIn, backIn>>
mapperVars == <<inputs, setting, counter, pressed, opFlags, pipe>>

MapperTypeOK ==
  /\ cursor \in Cursors
  /\ left_btn \in BOOLEAN
  /\ curColor \in Colors
  /\ Brush_size \in 0 .. BrushMax
  /\ Brush_size % 3 = 0
  /\ Brush_type \in 0 .. 4
  /\ counter \in 0 .. FrameLast
  /\ pressed \in BOOLEAN
  /\ horiz \in BOOLEAN /\ vert \in BOOLEAN /\ rando \in BOOLEAN
  /\ toReplace \in Colors /\ atCursor \in Colors
  /\ ramIn \in Colors /\ backIn \in Colors

(* There is no reset: the registers power up to zero.                      *)
MapperInit ==
  /\ cursor \in Cursors
  /\ left_btn = FALSE
  /\ curColor = 0 /\ Brush_size = 0 /\ Brush_type = 0
  /\ counter = 0
  /\ pressed = FALSE
  /\ horiz = FALSE /\ vert = FALSE /\ rando = FALSE
  /\ toReplace = 0 /\ atCursor = 0 /\ ramIn = 0 /\ backIn = 0

-----------------------------------------------------------------------------
cursorInCanvas == InCanvas(cursor)

Dist(a, b) == IF a > b THEN a - b ELSE b - a

(* The pixels under the brush; the bucket, type 4, covers none.            *)
Covers(draw) ==
  LET dx == Dist(draw[1], cursor[1])
      dy == Dist(draw[2], cursor[2])
  IN  \/ Brush_type = 0 /\ dx * dx + dy * dy <= Brush_size * Brush_size
      \/ Brush_type = 1 /\ dx <= Brush_size /\ dy <= Brush_size
      \/ Brush_type = 2 /\ dy <= Brush_size \div 8 /\ dx <= Brush_size
      \/ Brush_type = 3 /\ dx <= Brush_size \div 8 /\ dy <= Brush_size

Painting(draw) == Covers(draw) /\ left_btn /\ cursorInCanvas

BucketClick == left_btn /\ cursorInCanvas /\ Brush_type = 4 /\ counter = 0

OpRunning == BucketClick \/ counter # 0

(* A mutant: Clear does not look where the cursor is.                      *)
OpPixelAlwaysFills(px, bk, bk2, rnd) ==
  IF horiz THEN bk
  ELSE IF vert THEN bk2
  ELSE IF rando THEN rnd
  ELSE IF toReplace = px THEN curColor
  ELSE px

(* What the running operation makes of the pixel px: the answer of one of  *)
(* the mirror memories bk, bk2, noise rnd, white, or the bucket's colour.  *)
OpPixel(px, bk, bk2, rnd) ==
  IF horiz THEN bk
  ELSE IF vert THEN bk2
  ELSE IF rando THEN rnd
  ELSE IF ~cursorInCanvas THEN 0
  ELSE IF toReplace = px THEN curColor
  ELSE px

(* The pixel sent to the memories; the brush wins over the operation.      *)
PixelOut(draw, px, bk, bk2, rnd) ==
  /\ ramIn' = IF Painting(draw) THEN curColor
              ELSE IF OpRunning THEN OpPixel(px, bk, bk2, rnd)
              ELSE px
  /\ backIn' = IF Painting(draw) THEN curColor ELSE px
  /\ atCursor' = IF cursor = draw THEN px ELSE atCursor

(* Mutants of OpStep: the flags outlive their operation; the counter starts *)
(* over at 1; the bucket's target is read again at every pixel.            *)
OpStepKeepsFlags ==
  /\ OpRunning
  /\ pressed' = TRUE
  /\ toReplace' = IF counter = 0 /\ ~(horiz \/ vert \/ rando)
                  THEN atCursor ELSE toReplace
  /\ counter' = IF counter = FrameLast THEN 0 ELSE counter + 1
  /\ UNCHANGED <<setting, opFlags>>

OpStepRestarts ==
  /\ OpRunning
  /\ pressed' = TRUE
  /\ toReplace' = IF counter = 0 /\ ~(horiz \/ vert \/ rando)
                  THEN atCursor ELSE toReplace
  /\ counter' = IF counter = FrameLast THEN 1 ELSE counter + 1
  /\ UNCHANGED <<setting, opFlags>>

OpStepRereads ==
  /\ OpRunning
  /\ pressed' = TRUE
  /\ toReplace' = atCursor
  /\ \/ /\ counter = FrameLast
        /\ counter' = 0
        /\ horiz' = FALSE /\ vert' = FALSE /\ rando' = FALSE
     \/ /\ counter # FrameLast
        /\ counter' = counter + 1
        /\ UNCHANGED opFlags
  /\ UNCHANGED setting

OpStep ==
  /\ OpRunning
  /\ pressed' = TRUE
  /\ toReplace' = IF counter = 0 /\ ~(horiz \/ vert \/ rando)
                  THEN atCursor ELSE toReplace
  /\ \/ /\ counter = FrameLast
        /\ counter' = 0
        /\ horiz' = FALSE /\ vert' = FALSE /\ rando' = FALSE
     \/ /\ counter # FrameLast
        /\ counter' = counter + 1
        /\ UNCHANGED opFlags
  /\ UNCHANGED setting

-----------------------------------------------------------------------------
(* A pixel clock with the button down and no operation running.            *)
At(t) == left_btn /\ ~OpRunning /\ Tool[cursor] = t

PickColor == curColor' = IF Pick[cursor] # -1 THEN Pick[cursor] ELSE curColor

(* Mutants of Larger: no limit, and no memory of the held button.          *)
LargerNoLimit ==
  /\ At("larger") /\ ~pressed
  /\ pressed' = TRUE
  /\ Brush_size' = Brush_size + 3
  /\ PickColor
  /\ UNCHANGED <<Brush_type, counter, opFlags, toReplace>>

LargerRepeats ==
  /\ At("larger")
  /\ pressed' = TRUE
  /\ Brush_size' = IF Brush_size < BrushMax THEN Brush_size + 3 ELSE Brush_size
  /\ PickColor
  /\ UNCHANGED <<Brush_type, counter, opFlags, toReplace>>

Larger ==
  /\ At("larger") /\ ~pressed
  /\ pressed' = TRUE
  /\ Brush_size' = IF Brush_size < BrushMax THEN Brush_size + 3 ELSE Brush_size
  /\ PickColor
  /\ UNCHANGED <<Brush_type, counter, opFlags, toReplace>>

Smaller ==
  /\ At("smaller") /\ ~pressed
  /\ pressed' = TRUE
  /\ Brush_size' = IF Brush_size > 0 THEN Brush_size - 3 ELSE Brush_size
  /\ PickColor
  /\ UNCHANGED <<Brush_type, counter, opFlags, toReplace>>

SelectBrush ==
  \E t \in DOMAIN BrushOf :
    /\ At(t)
    /\ Brush_type' = BrushOf[t]
    /\ PickColor
    /\ UNCHANGED <<Brush_size, counter, pressed, opFlags, toReplace>>

Eraser ==
  /\ At("eraser")
  /\ Brush_type' = 1
  /\ curColor' = 0
  /\ UNCHANGED <<Brush_size, counter, pressed, opFlags, toReplace>>

StartOp ==
  \E t \in OneShots :
    /\ At(t) /\ ~pressed
    /\ pressed' = TRUE
    /\ counter' = 1
    /\ rando' = (rando \/ t = "random")
    /\ horiz' = (horiz \/ t = "fliph")
    /\ vert' = (vert \/ t = "flipv")
    /\ PickColor
    /\ UNCHANGED <<Brush_size, Brush_type, toReplace>>

(* The button is down where no tool reacts to it.                          *)
NoTool ==
  /\ left_btn /\ ~OpRunning
  /\ \/ Tool[cursor] = "none"
     \/ pressed /\ Tool[cursor] \in OneShots \cup {"larger", "smaller"}
  /\ PickColor
  /\ UNCHANGED <<Brush_size, Brush_type, counter, pressed, opFlags, toReplace>>

(* A mutant: the released button is not noticed.                           *)
ReleaseForgotten ==
  /\ ~left_btn /\ ~OpRunning
  /\ UNCHANGED <<pressed, setting, counter, opFlags, toReplace>>

Release ==
  /\ ~left_btn /\ ~OpRunning
  /\ pressed' = FALSE
  /\ UNCHANGED <<setting, counter, opFlags, toReplace>>

Posedge(draw, px, bk, bk2, rnd) ==
  /\ \/ OpStep
     \/ Larger \/ Smaller \/ SelectBrush \/ Eraser \/ StartOp \/ NoTool
     \/ Release
  /\ PixelOut(draw, px, bk, bk2, rnd)

-----------------------------------------------------------------------------
(* The memories and the beam as an environment.                            *)
PixelClock ==
  /\ \E draw \in Pixels, px, bk, bk2, rnd \in Colors :
       Posedge(draw, px, bk, bk2, rnd)
  /\ UNCHANGED inputs

(* A byte from the mouse changes the buttons or one coordinate.            *)
MouseButton ==
  /\ left_btn' = ~left_btn
  /\ UNCHANGED <<cursor, setting, counter, pressed, opFlags, pipe>>

MouseMove ==
  /\ cursor' \in Cursors
  /\ UNCHANGED <<left_btn, setting, counter, pressed, opFlags, pipe>>

MapperNext == PixelClock \/ MouseButton \/ MouseMove

(* The pixel clock never stops.                                            *)
MapperSpec == MapperInit /\ [][MapperNext]_mapperVars /\ WF_mapperVars(PixelClock)

-----------------------------------------------------------------------------
(* At most one operation runs, and no trace of one is left when its frame  *)
(* is over: the bucket, which sets no flag, cannot inherit another's.      *)
OneOperation ==
  /\ counter = 0 => ~horiz /\ ~vert /\ ~rando
  /\ ~(horiz /\ vert) /\ ~(horiz /\ rando) /\ ~(vert /\ rando)

(* Every operation comes to its end.                                       *)
OperationsEnd == counter # 0 ~> counter = 0

(* Once the button stays up the one-shot tools are armed again, however    *)
(* the operation that was running and the release were interleaved.        *)
ReleaseRearms == <>[]~left_btn => <>[](~pressed /\ counter = 0)

=============================================================================
