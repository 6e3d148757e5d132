------------------------------ MODULE Pointer -------------------------------
(***************************************************************************)
(* What Mouse.sv promises the painter: a pointer on the screen and a       *)
(* button.  A packet of the mouse shows up in steps: its button at once;   *)
(* its horizontal movement is reported, then made, in full and once, with  *)
(* its own sign, when the packet is complete; its vertical movement is     *)
(* known by then, and made with the button of the next packet.  A pointer  *)
(* on the screen stays there; about one that is not (the registers power   *)
(* up to zero) nothing is promised.                                        *)
(***************************************************************************)
EXTENDS Integers

CONSTANTS
  Min, XMax, YMax,  \* the screen: Min .. XMax by Min .. YMax
  Span,             \* positions a register can hold
  Reach             \* the movements a packet can report

VARIABLES
  x, y, button,
  owedX, owedY      \* movements that are reported and not made yet

pointerVars == <<x, y, button, owedX, owedY>>

Clamp(v, lo, hi) == IF v < lo THEN lo ELSE IF v > hi THEN hi ELSE v

(* Where a movement by d may take a coordinate v.                          *)
Moved(v, d, hi) ==
  IF v \in Min .. hi THEN {Clamp(v + d, Min, hi)} ELSE 0 .. Span - 1

PointerInit ==
  /\ x \in 0 .. Span - 1 /\ y \in 0 .. Span - 1
  /\ button = FALSE
  /\ owedX = 0 /\ owedY = 0

(* Mice count upwards, the screen counts downwards.                        *)
Button ==
  /\ owedX = 0
  /\ button' \in BOOLEAN
  /\ y' \in Moved(y, -owedY, YMax)
  /\ owedY' = 0
  /\ UNCHANGED <<x, owedX>>

Report ==
  /\ owedX = 0 /\ owedY = 0
  /\ owedX' \in Reach
  /\ UNCHANGED <<x, y, button, owedY>>

Move ==
  /\ owedY = 0
  /\ x' \in Moved(x, owedX, XMax)
  /\ owedX' = 0 /\ owedY' \in Reach
  /\ UNCHANGED <<y, button>>

(* The reset key forgets the button and what is owed, not the position.    *)
Forget ==
  /\ button' = FALSE
  /\ owedX' = 0 /\ owedY' = 0
  /\ UNCHANGED <<x, y>>

PointerNext == Button \/ Report \/ Move \/ Forget

PointerSpec == PointerInit /\ [][PointerNext]_pointerVars

=============================================================================
