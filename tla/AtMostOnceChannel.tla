------------------------- MODULE AtMostOnceChannel -------------------------
(***************************************************************************)
(* What a packet ring of the relay promises to the threads around it: the  *)
(* packets it accepts, numbered in the order of acceptance, come out in    *)
(* that order and each at most once.  As long as it is not lossy nothing   *)
(* is skipped either.  Accepting a packet may turn the channel lossy: that *)
(* is the overrun of the ring by two producers.                            *)
(***************************************************************************)
EXTENDS Naturals

VARIABLES
  accepted,    \* the number of packets accepted
  delivered,   \* the number of the packet delivered last, 0 before the first
  lossy        \* packets may be skipped from now on

chan == <<accepted, delivered, lossy>>

Init == accepted = 0 /\ delivered = 0 /\ lossy = FALSE

Put ==
  /\ accepted' = accepted + 1
  /\ lossy' \in {lossy, TRUE}
  /\ UNCHANGED delivered

Get ==
  /\ delivered' \in delivered + 1 .. accepted
  /\ ~lossy => delivered' = delivered + 1
  /\ UNCHANGED <<accepted, lossy>>

Next == Put \/ Get

Spec == Init /\ [][Next]_chan
=============================================================================
