---------------------------- MODULE MCBackplane ----------------------------
(***************************************************************************)
(* Backplane on a small instance.                                          *)
(***************************************************************************)
EXTENDS Backplane

CONSTANTS home, far
=============================================================================
