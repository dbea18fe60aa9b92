------------------------------ MODULE MCUplink ------------------------------
(* Model checking of the uplink on a small instance. *)
EXTENDS Uplink
=============================================================================
