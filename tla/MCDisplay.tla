----------------------------- MODULE MCDisplay ------------------------------
(* An instance of Display for TLC.                                         *)
EXTENDS Display

(* The reset key goes down, or is held: at the ends of the line and of the *)
(* frame, in and beside the logo, the tools and the last row the tools'    *)
(* memory has words for, and in both pulses.                               *)
TestResets == {0, 200, 290, 624, 700, 799} \X {0, 40, 269, 490, 524}

=============================================================================
