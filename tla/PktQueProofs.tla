---------------------------- MODULE PktQueProofs ----------------------------
(***************************************************************************)
(* Proofs about PktQue, for every ring size, every set of producers and    *)
(* every bound MaxIn.                                                      *)
(*                                                                         *)
(* The inductive invariant describes the live slots, those at positions    *)
(* 1 .. Waiting from front: each holds one whole packet, newer than the    *)
(* packet taken last, and their packets get newer from front to rear.      *)
(* Only as long as the ring has not been lapped are their numbers also     *)
(* consecutive.                                                            *)
(***************************************************************************)
EXTENDS PktQue, Integers, TLAPS

Live(i) == Pos(front, i) <= Waiting

LiveSlotsWhole ==
  \A i \in Slot : Live(i) =>
    /\ node[i].done
    /\ node[i].len > data.len
    /\ node[i].len <= nIn
    /\ node[i].addr = node[i].len
    /\ node[i].fd = node[i].len
    /\ node[i].buf \in {node[i].len, 0}

LiveSlotsOrdered ==
  \A i, j \in Slot :
    (Live(j) /\ Pos(front, i) < Pos(front, j)) => node[i].len < node[j].len

Unlapped ==
  ~lapped =>
    /\ cpc = "out" => rear # front
    /\ nIn = data.len + Waiting
    /\ \A i \in Slot : Live(i) =>
         /\ node[i].len = data.len + Pos(front, i)
         /\ node[i].first => (Pos(front, i) = 1 /\ node[i].buf = node[i].len)

IInv ==
  /\ TypeOK
  /\ LiveSlotsWhole
  /\ LiveSlotsOrdered
  /\ Unlapped
  /\ LapNeedsRace
  /\ FirstOfBurstIntact
  /\ data.len <= nIn

-----------------------------------------------------------------------------
\* The index arithmetic of the ring, for every size.

\* The successor modulo N of a slot, without the modulus: the increment the
\* two index updates of In and Out perform.
LEMMA SuccValue ==
  ASSUME NEW i \in Slot
  PROVE  /\ Succ(i) \in Slot
         /\ Succ(i) = IF i = N - 1 THEN 0 ELSE i + 1
<1>1. CASE i = N - 1
  <2>1. N % N = 0
    BY NAssumption
  <2>2. QED
    BY <1>1, <2>1, NAssumption DEF Succ, Slot
<1>2. CASE i # N - 1
  <2>1. i + 1 \in 0 .. N - 1
    BY <1>2, NAssumption DEF Slot
  <2>2. (i + 1) % N = i + 1
    BY <2>1, NAssumption
  <2>3. QED
    BY <1>2, <2>1, <2>2, NAssumption DEF Succ, Slot
<1>3. QED
  BY <1>1, <1>2

\* Different slots have different successors: both indices keep their distance
\* when both move.
LEMMA SuccInjective ==
  ASSUME NEW i \in Slot, NEW j \in Slot, Succ(i) = Succ(j)
  PROVE  i = j
<1>1. /\ Succ(i) = IF i = N - 1 THEN 0 ELSE i + 1
      /\ Succ(j) = IF j = N - 1 THEN 0 ELSE j + 1
  BY SuccValue
<1>2. i \in Nat /\ j \in Nat /\ N \in Nat
  BY NAssumption DEF Slot
<1>3. CASE i = N - 1
  <2>1. Succ(i) = 0 /\ j + 1 # 0
    BY <1>1, <1>2, <1>3
  <2>2. j = N - 1
    BY <1>1, <2>1
  <2>3. QED
    BY <1>3, <2>2
<1>4. CASE i # N - 1
  <2>1. Succ(i) = i + 1 /\ i + 1 # 0
    BY <1>1, <1>2, <1>4
  <2>2. j + 1 = i + 1
    BY <1>1, <2>1
  <2>3. QED
    BY <1>2, <2>2
<1>5. QED
  BY <1>3, <1>4

\* The positions counted from a slot are 1 .. N, each of one slot only, and
\* the slot after it is at position 1: the layout both indices walk along.
LEMMA PosBasics ==
  ASSUME NEW f \in Slot, NEW i \in Slot, NEW j \in Slot
  PROVE  /\ Pos(f, i) \in 1 .. N
         /\ Pos(f, i) = Pos(f, j) => i = j
         /\ Pos(f, Succ(f)) = 1
         /\ (i # f /\ Succ(i) # f) => Pos(f, Succ(i)) = Pos(f, i) + 1
         /\ Succ(i) = f => (Pos(f, i) = N - 1 /\ i # f)
BY SuccValue, NAssumption DEF Pos, Dist, Slot

\* Taking the packet at position 1 moves every other slot one position closer.
LEMMA PosAfterTake ==
  ASSUME NEW f \in Slot, NEW i \in Slot
  PROVE  Pos(Succ(f), i) = IF i = Succ(f) THEN N ELSE Pos(f, i) - 1
BY SuccValue, NAssumption DEF Pos, Dist, Slot

-----------------------------------------------------------------------------
(* The invariant holds initially. *)

\* The ring is empty and nobody holds a packet.
LEMMA InitInv == Init => IInv
<1> SUFFICES ASSUME Init PROVE IInv
  OBVIOUS
<1>1. Waiting = 0
  BY DEF Init, Waiting
<1>2. TypeOK
  <2>1. FirstIndex \in Slot
    BY NAssumption DEF FirstIndex, Slot
  <2>2. EmptyNode \in Node
    BY DEF EmptyNode, Node
  <2>3. QED
    BY <2>1, <2>2 DEF Init, TypeOK
<1>3. \A i \in Slot : ~Live(i)
  BY <1>1, <1>2, PosBasics, NAssumption DEF Live, TypeOK
<1>4. data.len = 0 /\ data.buf = 0 /\ data.first = FALSE /\ nIn = 0
  BY DEF Init, EmptyNode
<1>5. LapNeedsRace /\ FirstOfBurstIntact
  BY <1>4 DEF Init, LapNeedsRace, FirstOfBurstIntact
<1>6. LiveSlotsWhole /\ LiveSlotsOrdered
  BY <1>3 DEF LiveSlotsWhole, LiveSlotsOrdered
<1>7. Unlapped
  BY <1>1, <1>3, <1>4 DEF Unlapped, Init
<1>8. QED
  BY <1>2, <1>4, <1>5, <1>6, <1>7 DEF IInv

-----------------------------------------------------------------------------
(* The steps that touch neither the ring nor what the consumer has seen of *)
(* it.                                                                     *)

\* If only the places of the producers change, the invariant is at most
\* endangered by a producer that has just passed its test.
LEMMA PlaceStep ==
  ASSUME IInv,
         UNCHANGED <<front, rear, node, cpc, data, nIn, lapped, raced>>,
         pc' \in [Producers -> {"recv", "check", "put"}],
         \A p \in Producers :
           (pc'[p] = "put" /\ pc[p] # "put") => ~IsFull(front, rear)
  PROVE  IInv'
<1>1. TypeOK' /\ LiveSlotsWhole' /\ LiveSlotsOrdered' /\ FirstOfBurstIntact'
  BY DEF IInv, TypeOK, LiveSlotsWhole, LiveSlotsOrdered, FirstOfBurstIntact,
         Live, Waiting
<1>2. Unlapped' /\ (data.len <= nIn)'
  BY DEF IInv, Unlapped, Live, Waiting
<1>3. LapNeedsRace'
  BY DEF IInv, LapNeedsRace
<1>4. QED
  BY <1>1, <1>2, <1>3 DEF IInv

\* Receiving a packet and testing IsFull preserve the invariant.
LEMMA RecvInv ==
  ASSUME IInv, NEW p \in Producers, Recv(p) \/ InRefused(p) \/ InPass(p)
  PROVE  IInv'
<1>1. pc \in [Producers -> {"recv", "check", "put"}]
  BY DEF IInv, TypeOK
<1>2. CASE Recv(p)
  BY <1>1, <1>2, PlaceStep DEF Recv
<1>3. CASE InRefused(p)
  BY <1>1, <1>3, PlaceStep DEF InRefused
<1>4. CASE InPass(p)
  BY <1>1, <1>4, PlaceStep DEF InPass
<1>5. QED
  BY <1>2, <1>3, <1>4

\* Seeing the ring non-empty changes no slot and no position.
LEMMA OutPassInv ==
  ASSUME IInv, OutPass
  PROVE  IInv'
<1>1. rear # front /\ Waiting' = Waiting
  BY DEF OutPass, IsEmpty, Waiting
<1>2. TypeOK' /\ LapNeedsRace' /\ FirstOfBurstIntact' /\ (data.len <= nIn)'
  BY DEF IInv, OutPass, TypeOK, LapNeedsRace, FirstOfBurstIntact
<1>3. LiveSlotsWhole' /\ LiveSlotsOrdered'
  BY <1>1 DEF IInv, OutPass, LiveSlotsWhole, LiveSlotsOrdered, Live
<1>4. Unlapped'
  BY <1>1 DEF IInv, OutPass, Unlapped, Live
<1>5. QED
  BY <1>2, <1>3, <1>4 DEF IInv

-----------------------------------------------------------------------------
(* Accepting a packet. *)

\* Which slots are live after a put: the written one joins the live slots,
\* or the ring has been lapped and looks empty (full, to a consumer about to
\* take), or it had been lapped before and the written slot is the only one.
LEMMA PutPositions ==
  ASSUME IInv, NEW p \in Producers, InPut(p)
  PROVE  \/ /\ ~IsFull(front, rear)
            /\ ~(rear = front /\ cpc = "out")
            /\ Waiting' = Waiting + 1
            /\ Pos(front, Succ(rear)) = Waiting + 1
         \/ /\ IsFull(front, rear)
            /\ rear # front
            /\ Waiting = N - 1
            /\ Waiting' = IF cpc = "out" THEN N ELSE 0
            /\ Pos(front, Succ(rear)) = N
         \/ /\ ~IsFull(front, rear)
            /\ rear = front
            /\ lapped
            /\ Waiting' = 1
            /\ Pos(front, Succ(rear)) = 1
<1>1. front \in Slot /\ rear \in Slot
  BY DEF IInv, TypeOK
<1>2. front' = front /\ rear' = Succ(rear) /\ cpc' = cpc
  BY DEF InPut
<1>3. Waiting = IF rear # front THEN Dist(front, rear)
                ELSE IF cpc = "out" THEN N ELSE 0
  BY DEF Waiting
<1>4. Waiting' = IF Succ(rear) # front THEN Dist(front, Succ(rear))
                 ELSE IF cpc = "out" THEN N ELSE 0
  BY <1>2 DEF Waiting
<1>5. /\ Succ(rear) \in Slot
      /\ Succ(rear) = IF rear = N - 1 THEN 0 ELSE rear + 1
  BY <1>1, SuccValue
<1>6. (rear = front /\ cpc = "out") => lapped
  BY DEF IInv, Unlapped, TypeOK
<1>7. QED
  BY <1>1, <1>3, <1>4, <1>5, <1>6, NAssumption DEF IsFull, Pos, Dist, Slot

\* The second critical section of In preserves the invariant, lapping or not.
LEMMA InPutInv ==
  ASSUME IInv, NEW p \in Producers, InPut(p)
  PROVE  IInv'
<1> DEFINE r == Succ(rear)
           new == Filled(nIn + 1, IsEmpty(front, rear) /\ cpc = "poll")
<1>1. /\ front \in Slot /\ rear \in Slot /\ r \in Slot
      /\ node \in [Slot -> Node] /\ nIn \in Nat /\ data \in Node
      /\ Waiting \in 0 .. N
  BY SuccValue, PosBasics, NAssumption
     DEF IInv, TypeOK, Waiting, Slot, Dist
<1>2. /\ UNCHANGED <<front, cpc, data>>
      /\ rear' = r
      /\ nIn' = nIn + 1
      /\ node' = [node EXCEPT ![r] = new]
      /\ lapped' = (lapped \/ IsFull(front, rear))
  BY DEF InPut
<1>3. /\ new \in Node /\ new.done
      /\ new.len = nIn + 1 /\ new.addr = nIn + 1
      /\ new.fd = nIn + 1 /\ new.buf = nIn + 1
      /\ new.first = (IsEmpty(front, rear) /\ cpc = "poll")
  BY <1>1 DEF Filled, Node
<1>4. node'[r] = new /\ \A i \in Slot : i # r => node'[i] = node[i]
  BY <1>1, <1>2
<1>5. \A i \in Slot : Pos(front, i) \in 1 .. N
  BY <1>1, PosBasics
<1>6. \A i \in Slot : i # r => Pos(front, i) # Pos(front, r)
  BY <1>1, PosBasics
<1>7. \A i \in Slot : (Live(i))' <=> Pos(front, i) <= Waiting'
  BY <1>2 DEF Live
\* A slot live after the put is the written one, or was live and is older.
<1>8. \A i \in Slot : (i # r /\ (Live(i))') =>
        (Live(i) /\ Pos(front, i) < Pos(front, r))
  BY <1>1, <1>5, <1>6, <1>7, PutPositions, NAssumption DEF Live
<1>9. TypeOK'
  <2>1. node' \in [Slot -> Node]
    BY <1>1, <1>2, <1>3
  <2>2. QED
    BY <1>1, <1>2, <2>1 DEF IInv, TypeOK, InPut
<1>10. data.len <= nIn /\ data.len \in Nat /\ \A i \in Slot : node[i].len \in Nat
  BY <1>1 DEF IInv, Node
<1>11. LiveSlotsWhole'
  <2> SUFFICES ASSUME NEW i \in Slot, (Live(i))'
               PROVE  /\ node'[i].done
                      /\ node'[i].len > data.len
                      /\ node'[i].len <= nIn + 1
                      /\ node'[i].addr = node'[i].len
                      /\ node'[i].fd = node'[i].len
                      /\ node'[i].buf \in {node'[i].len, 0}
    BY <1>2 DEF LiveSlotsWhole
  <2>1. CASE i = r
    BY <1>1, <1>3, <1>4, <1>10, <2>1
  <2>2. CASE i # r
    BY <1>1, <1>4, <1>8, <1>10, <2>2 DEF IInv, LiveSlotsWhole
  <2>3. QED
    BY <2>1, <2>2
<1>12. LiveSlotsOrdered'
  <2> SUFFICES ASSUME NEW i \in Slot, NEW j \in Slot, (Live(j))',
                      Pos(front, i) < Pos(front, j)
               PROVE  node'[i].len < node'[j].len
    BY <1>2 DEF LiveSlotsOrdered
  <2>1. (Live(i))' /\ i # j
    BY <1>1, <1>5, <1>7, PutPositions, NAssumption
  <2>2. i # r
    BY <1>8, <1>5, <2>1
  <2>3. Live(i) /\ node'[i] = node[i] /\ node[i].len <= nIn
    BY <1>4, <1>8, <2>1, <2>2 DEF IInv, LiveSlotsWhole
  <2>4. CASE j = r
    BY <1>1, <1>3, <1>4, <1>10, <2>3, <2>4
  <2>5. CASE j # r
    BY <1>4, <1>8, <2>3, <2>5 DEF IInv, LiveSlotsOrdered
  <2>6. QED
    BY <2>4, <2>5
<1>13. Unlapped'
  <2> SUFFICES ASSUME ~lapped, ~IsFull(front, rear)
               PROVE  /\ cpc = "out" => r # front
                      /\ nIn + 1 = data.len + Waiting'
                      /\ \A i \in Slot : (Live(i))' =>
                           /\ node'[i].len = data.len + Pos(front, i)
                           /\ node'[i].first =>
                                (Pos(front, i) = 1 /\ node'[i].buf = node'[i].len)
    BY <1>1, <1>2 DEF Unlapped, IInv, TypeOK
  <2>1. /\ Waiting' = Waiting + 1
        /\ Pos(front, r) = Waiting + 1
        /\ nIn = data.len + Waiting
    BY PutPositions DEF IInv, Unlapped
  <2>2. ASSUME NEW i \in Slot, (Live(i))'
        PROVE  /\ node'[i].len = data.len + Pos(front, i)
               /\ node'[i].first =>
                    (Pos(front, i) = 1 /\ node'[i].buf = node'[i].len)
    <3>1. CASE i = r
      <4>1. IsEmpty(front, rear) /\ cpc = "poll" => Waiting = 0
        BY DEF IsEmpty, Waiting
      <4>2. new.first => Waiting = 0
        BY <1>3, <4>1
      <4>3. new.first => Pos(front, i) = 1
        BY <1>1, <2>1, <3>1, <4>2
      <4>4. new.len = data.len + Pos(front, i) /\ new.buf = new.len
        BY <1>1, <1>3, <1>10, <2>1, <3>1
      <4>5. QED
        BY <1>4, <3>1, <4>3, <4>4
    <3>2. CASE i # r
      BY <1>4, <1>8, <2>2, <3>2 DEF IInv, Unlapped
    <3>3. QED
      BY <3>1, <3>2
  <2>3. QED
    BY <1>1, <1>10, <2>1, <2>2 DEF IsFull
<1>14. LapNeedsRace'
  <2> SUFFICES ASSUME NEW q \in Producers,
                      pc'[q] = "put", ~raced'[q], ~lapped'
               PROVE  ~IsFull(front, r)
    BY <1>2 DEF LapNeedsRace
  <2>1. pc'[q] = pc[q] /\ q # p
    BY DEF InPut, IInv, TypeOK
  <2>2. raced'[q] = (q # p /\ (raced[q] \/ pc[q] = "put"))
    BY DEF InPut
  <2>3. QED
    BY <2>1, <2>2
<1>15. FirstOfBurstIntact'
  BY <1>1, <1>2 DEF IInv, FirstOfBurstIntact, TypeOK
<1>16. (data.len <= nIn)'
  BY <1>1, <1>2, <1>10
<1>17. QED
  BY <1>9, <1>11, <1>12, <1>13, <1>14, <1>15, <1>16 DEF IInv

-----------------------------------------------------------------------------
(* Taking a packet. *)

\* The second critical section of Out preserves the invariant.
LEMMA OutTakeInv ==
  ASSUME IInv, OutTake
  PROVE  IInv'
<1> DEFINE f == Succ(front)
<1>1. /\ front \in Slot /\ rear \in Slot /\ f \in Slot
      /\ node \in [Slot -> Node] /\ nIn \in Nat /\ data \in Node
      /\ lapped \in BOOLEAN
  BY SuccValue DEF IInv, TypeOK
<1>2. /\ UNCHANGED <<rear, pc, nIn, lapped, raced>>
      /\ front' = f /\ data' = node[f] /\ cpc' = "poll" /\ cpc = "out"
  BY DEF OutTake
<1> DEFINE mid == [node EXCEPT ![f] = Emptied(node[f])]
<1>3. /\ mid \in [Slot -> Node]
      /\ node' = [mid EXCEPT ![rear] = Wiped(mid[rear])]
  <2>1. Emptied(node[f]) \in Node
    BY <1>1 DEF Emptied, Node
  <2>2. mid \in [Slot -> Node]
    BY <1>1, <2>1
  <2>3. node' = [mid EXCEPT ![rear] = Wiped(mid[rear])]
    BY <1>1 DEF OutTake
  <2>4. QED
    BY <2>2, <2>3
<1>4. \A i \in Slot : i # f =>
        /\ node'[i].done = node[i].done
        /\ node'[i].first = node[i].first
        /\ node'[i].len = node[i].len
        /\ node'[i].addr = node[i].addr
        /\ node'[i].fd = node[i].fd
        /\ node'[i].buf = IF i = rear THEN 0 ELSE node[i].buf
  <2> SUFFICES ASSUME NEW i \in Slot, i # f
               PROVE  node'[i] = IF i = rear THEN Wiped(node[i]) ELSE node[i]
    BY <1>1 DEF Wiped, Node
  <2>1. mid[i] = node[i]
    BY <1>1
  <2>2. QED
    BY <1>1, <1>3, <2>1
<1>5. node' \in [Slot -> Node]
  <2>1. Wiped(mid[rear]) \in Node
    BY <1>1, <1>3 DEF Wiped, Node
  <2>2. QED
    BY <1>1, <1>3, <2>1
<1>6. /\ Waiting \in 1 .. N
      /\ Waiting' = Waiting - 1
      /\ Pos(front, rear) = Waiting
      /\ Pos(front, f) = 1
  <2>1. Waiting = IF rear # front THEN Dist(front, rear) ELSE N
    BY <1>2 DEF Waiting
  <2>2. Waiting' = IF rear # f THEN Dist(f, rear) ELSE 0
    BY <1>2 DEF Waiting
  <2>3. f = IF front = N - 1 THEN 0 ELSE front + 1
    BY <1>1, SuccValue
  <2>4. QED
    BY <1>1, <2>1, <2>2, <2>3, NAssumption DEF Pos, Dist, Slot
\* The slots live after the take were live, one position further away.
<1>7. \A i \in Slot : /\ Pos(front, i) \in 1 .. N
                      /\ (Live(i))' <=> Pos(f, i) <= Waiting'
                      /\ Pos(f, i) = IF i = f THEN N ELSE Pos(front, i) - 1
  BY <1>1, <1>2, PosBasics, PosAfterTake DEF Live
<1>8. \A i \in Slot : (Live(i))' => (i # f /\ Live(i) /\ Pos(front, i) > 1)
  <2> SUFFICES ASSUME NEW i \in Slot, (Live(i))'
               PROVE  i # f /\ Live(i) /\ Pos(front, i) > 1
    OBVIOUS
  <2>1. i # f
    BY <1>6, <1>7, NAssumption
  <2>2. Pos(front, i) # 1
    BY <1>1, <1>6, <2>1, PosBasics
  <2>3. QED
    BY <1>6, <1>7, <2>1, <2>2 DEF Live
<1>9. /\ Live(f)
      /\ node[f].len \in Nat /\ node[f].len > data.len /\ node[f].len <= nIn
      /\ node[f].buf \in {node[f].len, 0}
      /\ data.len \in Nat
  BY <1>1, <1>6 DEF Live, IInv, LiveSlotsWhole, Node
<1>10. TypeOK'
  BY <1>1, <1>2, <1>5 DEF IInv, TypeOK
<1>11. LiveSlotsWhole'
  <2> SUFFICES ASSUME NEW i \in Slot, (Live(i))'
               PROVE  /\ node'[i].done
                      /\ node'[i].len > node[f].len
                      /\ node'[i].len <= nIn
                      /\ node'[i].addr = node'[i].len
                      /\ node'[i].fd = node'[i].len
                      /\ node'[i].buf \in {node'[i].len, 0}
    BY <1>2 DEF LiveSlotsWhole
  <2>1. Live(i) /\ i # f /\ Pos(front, f) < Pos(front, i)
    BY <1>6, <1>7, <1>8
  <2>2. node[f].len < node[i].len
    BY <1>1, <2>1 DEF IInv, LiveSlotsOrdered
  <2>3. node'[i].buf \in {node[i].buf, 0}
    BY <1>4, <2>1
  <2>4. QED
    BY <1>1, <1>4, <1>9, <2>1, <2>2, <2>3 DEF IInv, LiveSlotsWhole, Node
<1>12. LiveSlotsOrdered'
  <2> SUFFICES ASSUME NEW i \in Slot, NEW j \in Slot, (Live(j))',
                      Pos(f, i) < Pos(f, j)
               PROVE  node'[i].len < node'[j].len
    BY <1>2 DEF LiveSlotsOrdered
  <2>1. (Live(i))'
    <3>1. Pos(f, i) \in 1 .. N /\ Pos(f, j) \in 1 .. N
      BY <1>1, PosBasics
    <3>2. Pos(f, j) <= Waiting' /\ Waiting' \in 0 .. N
      BY <1>6, <1>7, NAssumption
    <3>3. Pos(f, i) <= Waiting'
      BY <3>1, <3>2, NAssumption
    <3>4. QED
      BY <1>7, <3>3
  <2>2. i # f /\ j # f /\ Live(j) /\ Pos(front, i) < Pos(front, j)
    BY <1>7, <1>8, <2>1
  <2>3. QED
    BY <1>4, <2>2 DEF IInv, LiveSlotsOrdered
<1>13. ~lapped =>
         /\ node[f].len = data.len + 1
         /\ node[f].first => node[f].buf = node[f].len
         /\ rear # front
         /\ nIn = data.len + Waiting
  BY <1>1, <1>2, <1>6, <1>9 DEF IInv, Unlapped
<1>14. Unlapped'
  <2> SUFFICES ASSUME ~lapped
               PROVE  /\ nIn = node[f].len + (Waiting - 1)
                      /\ \A i \in Slot : (Live(i))' =>
                           /\ node'[i].len = node[f].len + Pos(f, i)
                           /\ ~node'[i].first
    BY <1>2, <1>6 DEF Unlapped
  <2>1. nIn = node[f].len + (Waiting - 1)
    BY <1>1, <1>6, <1>9, <1>13
  <2>2. ASSUME NEW i \in Slot, (Live(i))'
        PROVE  /\ node'[i].len = node[f].len + Pos(f, i)
               /\ ~node'[i].first
    <3>1. i # f /\ Live(i) /\ Pos(front, i) > 1
      BY <1>8, <2>2
    <3>2. node[i].len = data.len + Pos(front, i) /\ ~node[i].first
      BY <1>7, <3>1 DEF IInv, Unlapped
    <3>3. node'[i].len = node[f].len + Pos(f, i)
      BY <1>4, <1>7, <1>9, <1>13, <3>1, <3>2
    <3>4. ~node'[i].first
      BY <1>4, <3>1, <3>2
    <3>5. QED
      BY <3>3, <3>4
  <2>3. QED
    BY <2>1, <2>2
<1>15. LapNeedsRace'
  <2> SUFFICES ASSUME ~lapped, NEW p \in Producers, pc[p] = "put"
               PROVE  ~IsFull(f, rear)
    BY <1>2 DEF LapNeedsRace
  <2>1. rear # front
    BY <1>13
  <2>2. QED
    BY <1>1, <2>1, SuccInjective DEF IsFull
<1>16. FirstOfBurstIntact' /\ (data.len <= nIn)'
  <2>1. node[f].buf \in {node[f].len, 0} /\ node[f].len <= nIn
    BY <1>9
  <2>2. (node[f].first /\ ~lapped) => node[f].buf = node[f].len
    BY <1>13
  <2>3. QED
    BY <1>2, <2>1, <2>2 DEF FirstOfBurstIntact
<1>17. QED
  BY <1>10, <1>11, <1>12, <1>14, <1>15, <1>16 DEF IInv

-----------------------------------------------------------------------------
(* The theorems. *)

\* Every step preserves the invariant.
LEMMA StepInv == IInv /\ [Next]_vars => IInv'
<1> SUFFICES ASSUME IInv, [Next]_vars PROVE IInv'
  OBVIOUS
<1>1. CASE \E p \in Producers : Recv(p) \/ InRefused(p) \/ InPass(p)
  BY <1>1, RecvInv
<1>2. CASE \E p \in Producers : InPut(p)
  BY <1>2, InPutInv
<1>3. CASE OutPass
  BY <1>3, OutPassInv
<1>4. CASE OutTake
  BY <1>4, OutTakeInv
<1>5. CASE OutEmpty \/ UNCHANGED vars
  <2>1. UNCHANGED vars
    BY <1>5 DEF OutEmpty
  <2>2. QED
    BY <2>1 DEF vars, IInv, TypeOK, LiveSlotsWhole, LiveSlotsOrdered,
                Unlapped, LapNeedsRace, FirstOfBurstIntact, Live, Waiting
<1>6. QED
  BY <1>1, <1>2, <1>3, <1>4, <1>5 DEF Next

\* The strengthening every theorem below rests on.
THEOREM Invariance == Spec => []IInv
BY InitInv, StepInv, PTL DEF Spec

\* The indices stay inside NodeArray, and every field inside its type.
THEOREM TypeCorrect == Spec => []TypeOK
<1>1. IInv => TypeOK
  BY DEF IInv
<1>2. QED
  BY Invariance, <1>1, PTL

\* Out never copies an empty or a torn slot, overrun or not.
THEOREM TakesWhole == Spec => []TakesAWholePacket
<1>1. IInv => TakesAWholePacket
  <2> SUFFICES ASSUME IInv, cpc = "out"
               PROVE  LET d == node[Succ(front)]
                      IN  d.done /\ d.len > 0 /\ d.addr = d.len /\ d.fd = d.len
    BY DEF TakesAWholePacket
  <2>1. front \in Slot /\ rear \in Slot /\ Succ(front) \in Slot
    BY SuccValue DEF IInv, TypeOK
  <2>2. Pos(front, Succ(front)) = 1 /\ Waiting \in 1 .. N
    BY <2>1, PosBasics, NAssumption DEF Waiting, Dist, Slot
  <2>3. Live(Succ(front))
    BY <2>2 DEF Live
  <2>4. data.len \in Nat /\ node[Succ(front)].len \in Nat
    BY <2>1 DEF IInv, TypeOK, Node
  <2>5. QED
    BY <2>1, <2>3, <2>4 DEF IInv, LiveSlotsWhole
<1>2. QED
  BY Invariance, <1>1, PTL

\* A lap takes two producers between their test and their put.
THEOREM LapsAreRaces == Spec => []LapNeedsRace
<1>1. IInv => LapNeedsRace
  BY DEF IInv
<1>2. QED
  BY Invariance, <1>1, PTL

\* A ring that was never lapped holds exactly the accepted, untaken packets.
THEOREM NoLoss == Spec => []NoLossUnlessLapped
<1>1. IInv => NoLossUnlessLapped
  <2> SUFFICES ASSUME IInv, ~lapped PROVE nIn - data.len = Waiting
    BY DEF NoLossUnlessLapped
  <2>1. nIn = data.len + Waiting /\ nIn \in Nat /\ data.len \in Nat
    BY DEF IInv, Unlapped, TypeOK, Node
  <2>2. Waiting \in Nat
    BY NAssumption DEF IInv, TypeOK, Waiting, Dist, Slot
  <2>3. QED
    BY <2>1, <2>2
<1>2. QED
  BY Invariance, <1>1, PTL

\* A packet accepted into an empty ring reaches the server unharmed.
THEOREM FirstIntact == Spec => []FirstOfBurstIntact
<1>1. IInv => FirstOfBurstIntact
  BY DEF IInv
<1>2. QED
  BY Invariance, <1>1, PTL

\* The ring implements the at-most-once, in-order channel.
THEOREM Refinement == Spec => ChannelSpec
<1>1. Init => Channel!Init
  BY DEF Init, Channel!Init, EmptyNode
<1>2. IInv /\ [Next]_vars => [Channel!Next]_(Channel!chan)
  <2> SUFFICES ASSUME IInv, [Next]_vars
               PROVE  [Channel!Next]_(Channel!chan)
    OBVIOUS
  <2> USE DEF Channel!chan
  <2>1. ASSUME NEW p \in Producers, Recv(p) \/ InRefused(p) \/ InPass(p)
        PROVE  UNCHANGED Channel!chan
    BY <2>1 DEF Recv, InRefused, InPass
  <2>2. ASSUME NEW p \in Producers, InPut(p)
        PROVE  Channel!Put
    BY <2>2 DEF InPut, Channel!Put, IInv, TypeOK
  <2>3. CASE OutTake
    <3>1. front \in Slot /\ rear \in Slot /\ Succ(front) \in Slot /\ cpc = "out"
      BY <2>3, SuccValue DEF IInv, TypeOK, OutTake
    <3>2. Pos(front, Succ(front)) = 1 /\ Waiting \in 1 .. N
      BY <3>1, PosBasics, NAssumption DEF Waiting, Dist, Slot
    <3>3. Live(Succ(front))
      BY <3>2 DEF Live
    <3>4. /\ node[Succ(front)].len \in Nat /\ data.len \in Nat /\ nIn \in Nat
          /\ node[Succ(front)].len > data.len
          /\ node[Succ(front)].len <= nIn
      BY <3>1, <3>3 DEF IInv, LiveSlotsWhole, TypeOK, Node
    <3>5. ~lapped => node[Succ(front)].len = data.len + 1
      BY <3>1, <3>2, <3>3 DEF IInv, Unlapped
    <3>6. data' = node[Succ(front)] /\ UNCHANGED <<nIn, lapped>>
      BY <2>3 DEF OutTake
    <3>7. Channel!Get
      BY <3>4, <3>5, <3>6 DEF Channel!Get
    <3>8. QED
      BY <3>7 DEF Channel!Next
  <2>4. CASE OutPass \/ OutEmpty \/ UNCHANGED vars
    BY <2>4 DEF OutPass, OutEmpty, vars
  <2>5. QED
    BY <2>1, <2>2, <2>3, <2>4 DEF Next, Channel!Next
<1>3. QED
  BY Invariance, <1>1, <1>2, PTL DEF Spec, ChannelSpec, Channel!Spec
=============================================================================
