---------------------------- MODULE MCRetirement ----------------------------
(* Model checking of Retirement with a few submissions in flight. *)
EXTENDS Retirement
=============================================================================
