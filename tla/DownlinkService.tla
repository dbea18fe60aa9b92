-------------------------- MODULE DownlinkService --------------------------
(***************************************************************************)
(* What the packet forwarder promises the server for its PULL_RESPs: each  *)
(* is handled after those before it, its packet is queued or refused, and  *)
(* the server is told at most once which, and only what is true.  A        *)
(* datagram that is no proper request is never answered.                   *)
(***************************************************************************)
EXTENDS Naturals

CONSTANT MaxResp  \* bound on the number of PULL_RESPs

VARIABLES
  fate,  \* fate[i] of PULL_RESP i: "none", "received", "queued" or "refused"
  told   \* told[i] to the server: "nothing", "OK" or "error"

Resp == 1 .. MaxResp

Init == /\ fate = [i \in Resp |-> "none"]
        /\ told = [i \in Resp |-> "nothing"]

\* PULL_RESPs are taken one by one: when i comes, all before it are settled,
\* for good unless they are queued or refused and the server has been told.
Receive(i) ==
  /\ fate[i] = "none"
  /\ \A j \in Resp : j < i => fate[j] # "none"
  /\ \A j \in Resp : fate[j] \in {"queued", "refused"} => told[j] # "nothing"
  /\ fate' = [fate EXCEPT ![i] = "received"]
  /\ UNCHANGED told

\* The last PULL_RESP received is decided.
Decide(i) ==
  /\ fate[i] = "received"
  /\ \A j \in Resp : i < j => fate[j] = "none"
  /\ \E f \in {"queued", "refused"} : fate' = [fate EXCEPT ![i] = f]
  /\ UNCHANGED told

\* One that is refused while it is parsed is never seen undecided.
ReceiveRefused(i) ==
  /\ fate[i] = "none"
  /\ \A j \in Resp : j < i => fate[j] # "none"
  /\ \A j \in Resp : fate[j] \in {"queued", "refused"} => told[j] # "nothing"
  /\ fate' = [fate EXCEPT ![i] = "refused"]
  /\ UNCHANGED told

Tell(i) ==
  /\ fate[i] \in {"queued", "refused"} /\ told[i] = "nothing"
  /\ told' = [told EXCEPT ![i] = IF fate[i] = "queued" THEN "OK" ELSE "error"]
  /\ UNCHANGED fate

Next == \E i \in Resp :
          Receive(i) \/ ReceiveRefused(i) \/ Decide(i) \/ Tell(i)

Spec == Init /\ [][Next]_<<fate, told>>
=============================================================================
