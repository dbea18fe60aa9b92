------------------------------ MODULE MCTimeRef ------------------------------
(* Model checking of the time references on a small clock. *)
EXTENDS TimeRef

SmallJumps == {-5, 6}
=============================================================================
