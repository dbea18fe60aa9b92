------------------------------- MODULE PktQue -------------------------------
(***************************************************************************)
(* The uplink ring edUdpPkt_Que with the threads that use it: every        *)
(* producer receives datagrams and calls Ship_EDUdpPkt_Que_In, the single  *)
(* consumer (ShipM_sendtoLoRaWANSer_thread) polls Ship_EDUdpPkt_Que_Out.   *)
(*                                                                         *)
(* Ship_EDUdpPkt_Que_In tests IsFull and Ship_EDUdpPkt_Que_Out tests       *)
(* IsEmpty in a critical section of their own, release the mutex, and lock *)
(* it again to move the index and to copy: the test and the act are two    *)
(* steps here, as they are in the code.                                    *)
(*                                                                         *)
(* A field of a slot holds the number of the accepted packet its content   *)
(* comes from, and 0 when it is cleared: "which packet is this" is all the *)
(* properties ask about lengths, addresses, descriptors and payloads.      *)
(***************************************************************************)
EXTENDS Ring, FiniteSets

CONSTANTS
  Producers,   \* the threads that call In
  MaxIn        \* bound of the model: no datagram is read once so many were accepted

ASSUME ProducersAssumption == IsFiniteSet(Producers)
ASSUME MaxInAssumption == MaxIn \in Nat

VARIABLES
  front, rear,   \* the ring's indices
  node,          \* NodeArray
  pc,            \* pc[p]: "recv", "check" or "put", where producer p stands
  cpc,           \* "poll" or "out": where the consumer stands
  data,          \* the consumer's local copy of the last packet taken
  nIn,           \* history: the number of packets accepted
  lapped,        \* history: rear has moved onto front while the ring was full
  raced          \* history: raced[p], another producer has put a packet
                 \* between p's test and p's own put

vars == <<front, rear, node, pc, cpc, data, nIn, lapped, raced>>

Node == [done : BOOLEAN, first : BOOLEAN,
         len : Nat, addr : Nat, fd : Nat, buf : Nat]

EmptyNode == [done |-> FALSE, first |-> FALSE,
              len |-> 0, addr |-> 0, fd |-> 0, buf |-> 0]

\* What In writes into a slot for packet n.  "first" is a history field: the
\* ring was empty, and the consumer not about to take, when n was accepted.
Filled(n, alone) == [done |-> TRUE, first |-> alone,
                     len |-> n, addr |-> n, fd |-> n, buf |-> n]

\* What Out clears of the slot it takes, and of the rear slot.
Emptied(d) == [d EXCEPT !.done = FALSE, !.len = 0, !.addr = 0]

Wiped(d) == [d EXCEPT !.buf = 0]

Init ==
  /\ front = FirstIndex
  /\ rear = FirstIndex
  /\ node = [i \in Slot |-> EmptyNode]
  /\ pc = [p \in Producers |-> "recv"]
  /\ cpc = "poll"
  /\ data = EmptyNode
  /\ nIn = 0
  /\ lapped = FALSE
  /\ raced = [p \in Producers |-> FALSE]

-----------------------------------------------------------------------------
(* Producers. *)

\* recvfrom returned a datagram; the producer calls In with it.
Recv(p) ==
  /\ pc[p] = "recv"
  /\ nIn < MaxIn
  /\ pc' = [pc EXCEPT ![p] = "check"]
  /\ UNCHANGED <<front, rear, node, cpc, data, nIn, lapped, raced>>

\* The ring is full: In returns false and the datagram is dropped.
InRefused(p) ==
  /\ pc[p] = "check"
  /\ IsFull(front, rear)
  /\ pc' = [pc EXCEPT ![p] = "recv"]
  /\ UNCHANGED <<front, rear, node, cpc, data, nIn, lapped, raced>>

\* The ring is not full, the mutex is released.
InPass(p) ==
  /\ pc[p] = "check"
  /\ ~IsFull(front, rear)
  /\ pc' = [pc EXCEPT ![p] = "put"]
  /\ UNCHANGED <<front, rear, node, cpc, data, nIn, lapped, raced>>

\* The second critical section of In: fullness is not tested again.
InPut(p) ==
  /\ pc[p] = "put"
  /\ rear' = Succ(rear)
  /\ nIn' = nIn + 1
  /\ node' = [node EXCEPT ![Succ(rear)] =
                Filled(nIn + 1, IsEmpty(front, rear) /\ cpc = "poll")]
  /\ lapped' = (lapped \/ IsFull(front, rear))
  /\ raced' = [q \in Producers |-> q # p /\ (raced[q] \/ pc[q] = "put")]
  /\ pc' = [pc EXCEPT ![p] = "recv"]
  /\ UNCHANGED <<front, cpc, data>>

-----------------------------------------------------------------------------
(* The consumer. *)

\* Out finds the ring empty and returns false; the thread sleeps and retries.
OutEmpty ==
  /\ cpc = "poll"
  /\ IsEmpty(front, rear)
  /\ UNCHANGED vars

\* Defect: the consumer waits for a full ring.
OutPassWhenFull ==
  /\ cpc = "poll"
  /\ ~IsEmpty(front, rear)
  /\ cpc' = IF IsFull(front, rear) THEN "out" ELSE "poll"
  /\ UNCHANGED <<front, rear, node, pc, data, nIn, lapped, raced>>

OutPass ==
  /\ cpc = "poll"
  /\ ~IsEmpty(front, rear)
  /\ cpc' = "out"
  /\ UNCHANGED <<front, rear, node, pc, data, nIn, lapped, raced>>

\* Defect: the slot is cleared before it is copied.
OutTakeClearsFirst ==
  /\ cpc = "out"
  /\ front' = Succ(front)
  /\ node' = [node EXCEPT ![Succ(front)] = Wiped(@)]
  /\ data' = node'[Succ(front)]
  /\ cpc' = "poll"
  /\ UNCHANGED <<rear, pc, nIn, lapped, raced>>

\* Defect: the newest packet is taken, as from a stack.
OutTakeNewest ==
  /\ cpc = "out"
  /\ front' = rear
  /\ data' = node[rear]
  /\ node' = [node EXCEPT ![rear] = EmptyNode]
  /\ cpc' = "poll"
  /\ UNCHANGED <<rear, pc, nIn, lapped, raced>>

\* The second critical section of Out.  The slot is copied before it is
\* cleared; the payload that is cleared is the REAR slot's, which is the
\* slot just taken only when the ring held a single packet.
OutTake ==
  /\ cpc = "out"
  /\ LET f == Succ(front)
     IN  /\ front' = f
         /\ data' = node[f]
         /\ node' = [[node EXCEPT ![f] = Emptied(@)] EXCEPT ![rear] = Wiped(@)]
  /\ cpc' = "poll"
  /\ UNCHANGED <<rear, pc, nIn, lapped, raced>>

Next ==
  \/ \E p \in Producers : Recv(p) \/ InRefused(p) \/ InPass(p) \/ InPut(p)
  \/ OutEmpty
  \/ OutPass
  \/ OutTake

Spec == Init /\ [][Next]_vars

\* The consumer thread keeps running: neither of its two critical sections
\* can be disabled once it is enabled except by the consumer itself (OutPass
\* also by a lap, after which the liveness property below asks for nothing).
FairSpec == Spec /\ WF_vars(OutPass) /\ WF_vars(OutTake)

-----------------------------------------------------------------------------
TypeOK ==
  /\ front \in Slot
  /\ rear \in Slot
  /\ node \in [Slot -> Node]
  /\ pc \in [Producers -> {"recv", "check", "put"}]
  /\ cpc \in {"poll", "out"}
  /\ data \in Node
  /\ nIn \in Nat
  /\ lapped \in BOOLEAN
  /\ raced \in [Producers -> BOOLEAN]

\* The number of slots, counted from front, that hold packets not yet taken:
\* when rear has been moved onto front behind the back of a consumer that has
\* already seen the ring non-empty, all N of them do.
Waiting ==
  IF rear # front THEN Dist(front, rear)
  ELSE IF cpc = "out" THEN N ELSE 0

\* Although emptiness is tested in one critical section and the packet taken
\* in another, Ship_EDUdpPkt_Que_Out never copies a slot that holds no packet,
\* or the address of one packet with the descriptor or length of another, not
\* even after the producers have overrun the ring.
TakesAWholePacket ==
  cpc = "out" =>
    LET d == node[Succ(front)]
    IN  d.done /\ d.len > 0 /\ d.addr = d.len /\ d.fd = d.len

\* A producer can move rear onto front (and so make a full ring look empty)
\* only if another producer has put a packet since its own IsFull test: the
\* ring of a relay that serves one forwarder never does.
LapNeedsRace ==
  \A p \in Producers :
    (pc[p] = "put" /\ ~raced[p] /\ ~lapped) => ~IsFull(front, rear)

\* Until the ring is lapped, the packets between front and rear are exactly
\* the accepted ones that have not been taken: none is lost or taken twice.
NoLossUnlessLapped ==
  ~lapped => nIn - data.len = Waiting

\* The payload the consumer sends is that of the packet it took or, because
\* Out clears the payload of the rear slot, all zeros; a packet that was
\* accepted into an empty ring is never the victim of that clearing.
FirstOfBurstIntact ==
  /\ data.buf \in {data.len, 0}
  /\ (data.first /\ ~lapped) => data.buf = data.len

\* What the ring promises its users: the specification of AtMostOnceChannel.
Channel == INSTANCE AtMostOnceChannel
             WITH accepted <- nIn, delivered <- data.len, lossy <- lapped

ChannelSpec == Channel!Spec

\* Every packet In accepts is eventually taken by the sending thread, unless
\* the ring is lapped.
AcceptedIsTaken ==
  \A k \in 1 .. MaxIn : (nIn >= k) ~> (data.len >= k \/ lapped)
=============================================================================
