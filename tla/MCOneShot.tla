----------------------------- MODULE MCOneShot ------------------------------
(***************************************************************************)
(* The constants of MCColorMapper for OneShot.                             *)
(***************************************************************************)
EXTENDS OneShot, MCColorMapper

=============================================================================
