----------------------------- MODULE MCJitSched -----------------------------
(* Model checking of downlink scheduling on a small clock. *)
EXTENDS JitSched

Ask(type, off, airtime) == [type |-> type, off |-> off, airtime |-> airtime]

\* Class A in the past, too late, just in time, in the middle and past the limit;
\* the others.
WrapRequests ==
  {Ask("A", off, 2) : off \in {-5, 2, 7, 13, 18}}
  \cup {Ask("C", 0, 2), Ask("B", 12, 3), Ask("BEACON", 10, 0)}

\* Three requests close to each other, for a queue of two places.
BusyRequests ==
  {Ask("A", 8, 2), Ask("C", 0, 2), Ask("A", 12, 4), Ask("BEACON", 14, 0)}
=============================================================================
