------------------------------ MODULE MCPktQue ------------------------------
(* Model checking of the uplink ring on a small instance. *)
EXTENDS PktQue
=============================================================================
