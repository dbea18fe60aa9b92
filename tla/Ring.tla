-------------------------------- MODULE Ring --------------------------------
(***************************************************************************)
(* The index arithmetic of the shipment relay's two packet rings,          *)
(* edUdpPkt_Que (forwarders -> server) and serJsonPkt_Que (server ->       *)
(* forwarders), shipment/src/lora_pkt_shipment.c.  Both are arrays of      *)
(* UDPPKT_NODEARRAY_NUM slots with a front index (the slot before the      *)
(* oldest packet) and a rear index (the slot of the newest packet).        *)
(***************************************************************************)
EXTENDS Naturals

CONSTANT N   \* UDPPKT_NODEARRAY_NUM, 250 in the code

\* With a single slot the ring would be full and empty at once.
ASSUME NAssumption == N \in Nat \ {0, 1}

Slot == 0 .. N - 1

\* Both indices start at the last slot.
FirstIndex == N - 1

Succ(i) == (i + 1) % N

\* Defect: full is missed when rear is at the last slot.
IsFullNoWrap(front, rear) == rear + 1 = front

IsFull(front, rear) == Succ(rear) = front

\* Defect: front is taken for the slot of the oldest packet.
IsEmptyOffByOne(front, rear) == Succ(rear) = front

IsEmpty(front, rear) == rear = front

-----------------------------------------------------------------------------
(* Used by properties only. *)

\* The number of steps forward from slot i to slot j, 0 .. N - 1.
Dist(i, j) == IF i <= j THEN j - i ELSE j - i + N

\* The position of slot i counted from front: 1 is the slot to be taken
\* next, N is front itself.
Pos(front, i) == IF i = front THEN N ELSE Dist(front, i)
=============================================================================
