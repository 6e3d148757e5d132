--------------------------- MODULE MCColorMapper ----------------------------
(***************************************************************************)
(* ColorMapper on the real screen layout: one cursor on each tool, on a    *)
(* swatch, on the canvas and on the desk, two colours, a short frame.      *)
(***************************************************************************)
EXTENDS ColorMapper

L == INSTANCE Layout

MCDraw == <<320, 240>>

MCToolCursors == {<<L!ToolRows[i][1] + 29, L!ToolRows[i][2]>> : i \in DOMAIN L!ToolRows}

MCCursors == MCToolCursors \cup {<<55, 170>>, MCDraw, <<0, 0>>}

MCPixels == {MCDraw, <<99, 100>>}

MCTool == [p \in MCCursors |-> L!ToolAt(p)]
MCPick == [p \in MCCursors |-> L!PickAt(p)]

MCColors == {0, 4}

(* The canvas of ColorMapper is the canvas of the layout.                  *)
ASSUME SameCanvas ==
  /\ \A p \in MCCursors \cup MCPixels : InCanvas(p) <=> L!Canvas(p)
  /\ L!ToolNames = Buttons

=============================================================================
