------------------------------ MODULE PaintOps ------------------------------
(***************************************************************************)
(* Paint with a history of the operation that runs for a frame: which one, *)
(* the picture it started from, the pixel at which it started, whether the *)
(* picture had been still for a frame, whether it ran alone (the brush     *)
(* painted nothing) and with a steady cursor (inside or outside the canvas *)
(* throughout); and of the cursor: whether the beam has come by the pixel  *)
(* under it.  The postconditions say what each tool makes of the whole     *)
(* picture when the reset key is left alone.                               *)
(***************************************************************************)
EXTENDS Paint

CONSTANT NoOp

(* The tool buttons lie beside the canvas: Color_Mapper.sv, 555 and 540.   *)
(* On a canvas two pixels wide a word of vertScreen would be read while it *)
(* is written; that of the code is 440 wide.                               *)
ASSUME OpsAssumption ==
  /\ \A p \in Cursors : InCanvas(p) => Tool[p] = "none"
  /\ W > 2

VARIABLES
  op,      \* the operation that runs or has just ended, NoOp otherwise
  done,    \* it has ended with the last pixel clock
  still,   \* pixel clocks since the picture changed, up to a frame
  looked   \* the beam has passed the cursor, and since then neither the
           \* cursor nor the colour under it has changed

opsVars == <<paintVars, op, done, still, looked>>

UnderCursor ==
  IF cursorInCanvas THEN canvas[<<cursor[1] - X0, cursor[2] - Y0>>] ELSE NoOp

Kind ==
  IF horiz' THEN "fliph" ELSE IF vert' THEN "flipv" ELSE IF rando' THEN "random"
  ELSE IF BucketClick THEN "bucket" ELSE "clear"

(* What the bucket is to replace: the colour under the cursor, or, if the  *)
(* beam has not come by since that changed, the one the register has still.*)
Target == IF looked /\ cursorInCanvas THEN UnderCursor ELSE atCursor

StartedOp ==
  [kind   |-> Kind,
   at     |-> <<xOffset, yOffset>>,
   pic    |-> canvas,
   inside |-> cursorInCanvas,
   before |-> toReplace,
   target |-> Target,
   colour |-> curColor,
   still  |-> still = FrameLength,
   alone  |-> ~Painting(Beam),
   steady |-> TRUE]

HistoryStep ==
  /\ still' = IF canvas' # canvas THEN 0
              ELSE IF still = FrameLength THEN still ELSE still + 1
  /\ looked' = ((looked \/ cursor = Beam) /\ UnderCursor' = UnderCursor)
  /\ \/ /\ counter = 0 /\ counter' # 0
        /\ op' = StartedOp /\ done' = FALSE
     \/ /\ counter = 0 /\ counter' = 0
        /\ op' = NoOp /\ done' = FALSE
     \/ /\ counter # 0
        /\ op' = [op EXCEPT !.alone = @ /\ ~Painting(Beam),
                            !.steady = @ /\ cursorInCanvas = op.inside]
        /\ done' = (counter' = 0)

OpsInit ==
  /\ PaintInit
  /\ op = NoOp /\ done = FALSE /\ still = FrameLength /\ looked = FALSE

OpsNext ==
  \/ PixelPeriod /\ HistoryStep
  \/ /\ MouseEvent
     /\ looked' = (looked /\ cursor' = cursor)
     /\ UNCHANGED <<op, done, still>>

OpsSpec == OpsInit /\ [][OpsNext]_opsVars

-----------------------------------------------------------------------------
Ended(kind) == done /\ op.kind = kind /\ op.alone

(* The pixels a flip gets right: not the one behind the beam at the click; *)
(* not the last column, which back_write leaves out; not the first pixel,  *)
(* for which back_read reads nothing (each other line starts with the word *)
(* held since the end of the line above, which is the right one); and not  *)
(* the pixel of horizScreen that is read while its address is written.     *)
Flipped == {c \in Cells \ {op.at, <<0, 0>>} : c[1] < W - 1}

(* Flip vertical exchanges top and bottom.                                 *)
VerticalFlip ==
  Ended("flipv") /\ op.still =>
    \A c \in Flipped : canvas[c] = op.pic[<<c[1], H - 1 - c[2]>>]

(* Flip horizontal mirrors all columns but the last at their middle.       *)
HorizontalFlip ==
  Ended("fliph") /\ op.still =>
    \A c \in Flipped : 2 * c[1] # W => canvas[c] = op.pic[<<W - 2 - c[1], c[2]>>]

(* Clear whitens the canvas, but for the pixel behind the beam.            *)
CanvasCleared ==
  Ended("clear") /\ op.steady => \A c \in Cells \ {op.at} : canvas[c] = 0

(* The bucket replaces the colour under the cursor by its own everywhere,  *)
(* and nothing else; only the pixel at which it starts is still compared   *)
(* with the colour that the fill before replaced.                          *)
ColorReplaced ==
  Ended("bucket") /\ op.steady =>
    \A c \in Cells :
      canvas[c] = IF op.pic[c] = IF c = op.at THEN op.before ELSE op.target
                  THEN op.colour ELSE op.pic[c]

=============================================================================
