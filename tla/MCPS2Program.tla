---------------------------- MODULE MCPS2Program ----------------------------
(* An instance of PS2Program for TLC.                                      *)
EXTENDS PS2Program

(* Right and up, by steps of 2 and 1; left and down, by 7 and 2.           *)
TestPackets == {<<8, 64, 32>>, <<56, 224, 64>>}

=============================================================================
