----------------------------- MODULE MCDownlink -----------------------------
(* Model checking of the downlink protocol: tokens are interchangeable. *)
EXTENDS Downlink, TLC

Symmetry == Permutations(Tokens)
=============================================================================
