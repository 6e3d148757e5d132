----------------------------- MODULE MCPaintOps -----------------------------
(***************************************************************************)
(* The constants of MCPaint for PaintOps.                                  *)
(***************************************************************************)
EXTENDS PaintOps, MCPaint

=============================================================================
