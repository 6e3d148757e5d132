------------------------------ MODULE OneShot -------------------------------
(***************************************************************************)
(* Color_Mapper.sv with a history of the held button: spent is TRUE once a *)
(* one-shot tool has fired since the button went down.                     *)
(***************************************************************************)
EXTENDS ColorMapper

VARIABLE spent

shotVars == <<mapperVars, spent>>

(* A brush size changes, or a frame operation starts from a tool.          *)
Fires ==
  \/ Brush_size' # Brush_size
  \/ counter = 0 /\ counter' # 0 /\ ~BucketClick

ShotInit == MapperInit /\ spent = FALSE

ShotNext ==
  \/ PixelClock /\ spent' = (spent \/ Fires)
  \/ MouseMove /\ UNCHANGED spent
  \/ MouseButton /\ spent' = (spent /\ left_btn')

ShotSpec == ShotInit /\ [][ShotNext]_shotVars

ShotTypeOK == MapperTypeOK /\ spent \in BOOLEAN

(* A press fires at most one one-shot tool, once: neither the next pixel   *)
(* clock, nor dragging to another tool, nor the end of the operation it    *)
(* started fires again while the button is down.  (Raising the button for  *)
(* less than a pixel clock does not re-arm it either.)                     *)
OneShotPerPress == [][Fires => ~spent]_shotVars

=============================================================================
