------------------------------ MODULE MCBeacon ------------------------------
(* Model checking of beacon allocation on a small clock. *)
EXTENDS Beacon
=============================================================================
