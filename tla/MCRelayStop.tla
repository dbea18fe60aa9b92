---------------------------- MODULE MCRelayStop ----------------------------
(* Model checking of the relay's stop with a thread of each kind. *)
EXTENDS RelayStop
=============================================================================
