------------------------------ MODULE MCPaint -------------------------------
(***************************************************************************)
(* Small canvases with the margins that the read-ahead and the write-      *)
(* behind use.                                                             *)
(* Colour 13, which nothing else has, stands for the undefined answer of a *)
(* memory.                                                                 *)
(***************************************************************************)
EXTENDS Paint, TLC

MCPixels == (0 .. hpixels) \X (0 .. vlines)

MCColors == 0 .. 14
MCGarbage == {13}

(* For the operations: a cursor on each tool, beside the canvas, and one   *)
(* on the canvas; a different colour in every pixel but the last three, which *)
(* repeat the first ones; the bucket selected.                             *)
OpsTool == (<<8, 0>> :> "clear") @@ (<<8, 1>> :> "fliph")
             @@ (<<0, 0>> :> "flipv") @@ (<<3, 1>> :> "none")
OpsCursors == DOMAIN OpsTool
OpsPick == [p \in OpsCursors |-> -1]
OpsCanvases == {[c \in Cells |-> 1 + ((c[1] + W * c[2]) % 9)]}
OpsBrushes == {<<4, 0, 14>>}

(* For the pipeline: a mirror, the bucket, and a square brush larger than  *)
(* the canvas.                                                             *)
PipeTool == (<<6, 1>> :> "fliph") @@ (<<4, 2>> :> "none")
PipeCursors == DOMAIN PipeTool
PipePick == [p \in PipeCursors |-> -1]
PipeCanvases == {[c \in Cells |-> 1 + c[1] + W * c[2]]}
PipeBrushes == {<<1, 3, 14>>, <<4, 0, 14>>}

=============================================================================
