----------------------------- MODULE RelayProofs ----------------------------
(***************************************************************************)
(* Proofs about Relay, for every size of the rings, every set of datagrams *)
(* and tokens, and every frequency plan: what the relay sends to a         *)
(* forwarder leaves through that forwarder's socket, and acknowledgements  *)
(* go to those who asked for them only.                                    *)
(*                                                                         *)
(* The origin of a datagram is kept by the item that carries it (OwnItem): *)
(* in the buffers, in the slots of the uplink ring that are waiting, and   *)
(* in the entries of the list of packets to be answered.  At each of these *)
(* places, and in the answers relayed, a datagram received counts once     *)
(* (Balanced).                                                             *)
(***************************************************************************)
EXTENDS Relay, Integers, SequenceTheorems, FiniteSetTheorems,
        WellFoundedInduction, TLAPS

\* Items and entries whose socket is that of the forwarder with their address.
OwnItem == {d \in Item : d.addr \in Addr /\ d.addr[1] = d.fd}
Entry == [token : Tokens, fd : Conc, addr : Addr]
OwnEntry == {e \in Entry : e.addr[1] = e.fd}

\* How many packets wait in edq: as many as it has slots, if it has been lapped
\* between the test of IsEmpty and the taking.
Waiting == IF edq.rear # edq.front THEN Dist(edq.front, edq.rear)
           ELSE IF spc = "out" THEN N ELSE 0

RecvTypes ==
  /\ toSend \subseteq UpMsgs
  /\ upc \in [Conc -> {"recv", "check", "put", "done"}]
  /\ ubuf \in [Conc -> Item]
  /\ \A c \in Conc : upc[c] \in {"check", "put"} => ubuf[c] \in OwnItem

EdqTypes ==
  /\ edq \in RingOf(Item)
  /\ \A i \in Slot : Pos(edq.front, i) <= Waiting => edq.node[i] \in OwnItem

SendTypes ==
  /\ spc \in {"poll", "out", "send", "mark"} /\ sbuf \in Item
  /\ spc \in {"send", "mark"} => sbuf \in OwnItem

ListTypes == idList \in Seq(OwnEntry)

ServerTypes == atServer \subseteq Payload /\ nDown \in 0 .. MaxDown

SerqTypes ==
  /\ rpc \in [Sock -> {"recv", "check", "put"}]
  /\ rbuf \in [Sock -> Payload]
  /\ serq \in RingOf(Item)
  /\ ppc \in {"poll", "out", "route"} /\ pbuf \in Payload

\* clientAddr_<c> is set by a PULL_DATA that has been received for SX1301_<c>.
ClientTypes ==
  /\ clientAddr \in [Conc -> Addr \cup {NoAddr}]
  /\ \A c \in Conc : clientAddr[c] \in {NoAddr, <<c, "pull">>}

DestTypes ==
  /\ dest \in Dest /\ last \in Conc \cup {-1}
  /\ dest.addr # NoAddr => dest.addr[1] = dest.fd

OutTypes ==
  /\ out \in {<<>>} \cup (Dest \X Payload)
  /\ out # <<>> => out[1].addr[1] = out[1].fd

HistTypes == sent \in [Tokens -> Nat] /\ relayed \in [Addr \X Tokens -> Nat]

IInv ==
  /\ RecvTypes /\ EdqTypes /\ SendTypes /\ ListTypes /\ ServerTypes
  /\ SerqTypes /\ ClientTypes /\ DestTypes /\ OutTypes /\ HistTypes

-----------------------------------------------------------------------------
\* The index arithmetic of the ring, for every size.

\* The successor modulo N of a slot, without the modulus: the increment the
\* two index updates of In and Out perform.
LEMMA SuccValue ==
  ASSUME NEW i \in Slot
  PROVE  /\ Succ(i) \in Slot
         /\ Succ(i) = IF i = N - 1 THEN 0 ELSE i + 1
<1>1. CASE i = N - 1
  <2>1. N % N = 0
    BY NAssumption
  <2>2. QED
    BY <1>1, <2>1, NAssumption DEF Succ, Slot
<1>2. CASE i # N - 1
  <2>1. i + 1 \in 0 .. N - 1
    BY <1>2, NAssumption DEF Slot
  <2>2. (i + 1) % N = i + 1
    BY <2>1, NAssumption
  <2>3. QED
    BY <1>2, <2>1, <2>2, NAssumption DEF Succ, Slot
<1>3. QED
  BY <1>1, <1>2

\* The positions counted from a slot are 1 .. N, each of one slot only, and
\* the slot after it is at position 1: the layout both indices walk along.
LEMMA PosBasics ==
  ASSUME NEW f \in Slot, NEW i \in Slot, NEW j \in Slot
  PROVE  /\ Pos(f, i) \in 1 .. N
         /\ Pos(f, i) = Pos(f, j) => i = j
         /\ Pos(f, Succ(f)) = 1
         /\ (i # f /\ Succ(i) # f) => Pos(f, Succ(i)) = Pos(f, i) + 1
         /\ Succ(i) = f => (Pos(f, i) = N - 1 /\ i # f)
BY SuccValue, NAssumption DEF Pos, Dist, Slot

\* Taking the packet at position 1 moves every other slot one position closer.
LEMMA PosAfterTake ==
  ASSUME NEW f \in Slot, NEW i \in Slot
  PROVE  Pos(Succ(f), i) = IF i = Succ(f) THEN N ELSE Pos(f, i) - 1
BY SuccValue, NAssumption DEF Pos, Dist, Slot

-----------------------------------------------------------------------------
(* The data *)

\* Every payload has a token, and zeros are one.
LEMMA PayloadFacts ==
  /\ Zeros \in Payload
  /\ \A p \in Payload : p.token \in Tokens
BY TokensAssumption, UpMsgsAssumption
DEF Payload, Zeros, Ack, PullResp, UpMsg

\* What the receivers put into their buffers is an item.
LEMMA ItemFacts ==
  /\ NoSlot \in Item
  /\ \A p \in Payload : [NoSlot EXCEPT !.buf = p] \in Item
  /\ \A d \in Item : [d EXCEPT !.buf = Zeros] \in Item
  /\ \A d \in OwnItem : [d EXCEPT !.buf = Zeros] \in OwnItem
BY PayloadFacts DEF Item, NoSlot, NoAddr, OwnItem

-----------------------------------------------------------------------------
(* Initially *)

\* Nothing waits, and nobody's address is known.
LEMMA InitInv == Init => IInv
<1> SUFFICES ASSUME Init PROVE IInv
  OBVIOUS
<1>1. EmptyRing \in RingOf(Item) /\ Waiting = 0
  BY ItemFacts, NAssumption DEF Init, EmptyRing, RingOf, Slot, FirstIndex, Waiting
<1>2. RecvTypes /\ SendTypes
  BY ItemFacts DEF Init, RecvTypes, SendTypes
<1>3. EdqTypes
  BY <1>1, PosBasics DEF Init, EdqTypes, RingOf
<1>4. ListTypes
  BY EmptySeq DEF Init, ListTypes
<1>5. ServerTypes
  BY BoundAssumption DEF Init, ServerTypes
<1>6. SerqTypes
  BY <1>1, PayloadFacts DEF Init, SerqTypes
<1>7. ClientTypes
  BY DEF Init, ClientTypes
<1>8. DestTypes /\ OutTypes
  BY DEF Init, DestTypes, OutTypes, Dest, Unset
<1>9. HistTypes
  BY DEF Init, HistTypes
<1>10. QED
  BY <1>2, <1>3, <1>4, <1>5, <1>6, <1>7, <1>8, <1>9 DEF IInv

-----------------------------------------------------------------------------
(* The uplink *)

\* A received datagram is an item of the forwarder it comes from.
LEMMA RecvStep ==
  ASSUME IInv, [Next]_vars
  PROVE  RecvTypes'
<1>1. ASSUME NEW c \in Conc, RecvUp(c)
      PROVE  RecvTypes'
  <2>1. PICK m \in toSend :
          /\ m.from[1] = c /\ toSend' = toSend \ {m}
          /\ \/ /\ upc' = [upc EXCEPT ![c] = "done"] /\ ubuf' = ubuf
             \/ /\ upc' = [upc EXCEPT ![c] = "check"]
                /\ ubuf' = [ubuf EXCEPT ![c] =
                     [fd |-> c, addr |-> m.from,
                      buf |-> [type |-> m.type, token |-> m.token,
                               freq |-> NoFreq]]]
    BY <1>1 DEF RecvUp
  <2> DEFINE d == [fd |-> c, addr |-> m.from,
                   buf |-> [type |-> m.type, token |-> m.token, freq |-> NoFreq]]
  <2>2. m \in UpMsgs /\ m.from \in Addr
    BY UpMsgsAssumption DEF IInv, RecvTypes, UpMsg
  <2>3. Ack(m.type, m.token) \in Payload
    BY <2>2 DEF Payload
  <2>4. d \in OwnItem
    BY <2>1, <2>2, <2>3 DEF OwnItem, Item, Ack
  <2>5. d \in Item
    BY <2>4 DEF OwnItem
  <2> HIDE DEF d
  <2>6. CASE upc' = [upc EXCEPT ![c] = "done"] /\ ubuf' = ubuf
    BY <2>1, <2>6 DEF IInv, RecvTypes
  <2>7. CASE upc' = [upc EXCEPT ![c] = "check"] /\ ubuf' = [ubuf EXCEPT ![c] = d]
    BY <2>1, <2>4, <2>5, <2>7 DEF IInv, RecvTypes
  <2>8. QED
    BY <2>1, <2>6, <2>7 DEF d
<1>2. ASSUME NEW c \in Conc, CheckUp(c)
      PROVE  RecvTypes'
  <2>1. CASE RingFull(edq)
    BY <1>2, <2>1, ItemFacts DEF CheckUp, IInv, RecvTypes
  <2>2. CASE ~RingFull(edq)
    BY <1>2, <2>2 DEF CheckUp, IInv, RecvTypes
  <2>3. QED
    BY <2>1, <2>2
<1>3. ASSUME NEW c \in Conc, PutUp(c)
      PROVE  RecvTypes'
  BY <1>3, ItemFacts DEF PutUp, IInv, RecvTypes
<1>4. CASE UNCHANGED <<toSend, upc, ubuf>>
  BY <1>4 DEF IInv, RecvTypes
<1>5. QED
  BY <1>1, <1>2, <1>3, <1>4
  DEF Next, PollUp, TakeUp, SendToServer, MarkIdInfo, RecvDown, CheckDown, PutDown,
      PollDown, TakeDown, RoutePullResp, DropPullResp, RouteAck, DropAck, RouteOther,
      Idle, uplink, vars

\* A packet put into edq waits in the slot after rear, and no other slot begins
\* to wait, also when the ring is lapped.
LEMMA PutPositions ==
  ASSUME IInv, NEW c \in Conc, PutUp(c)
  PROVE  LET r == Succ(edq.rear)
         IN  /\ r \in Slot /\ spc' = spc
             /\ edq' = [front |-> edq.front, rear |-> r,
                        node |-> [edq.node EXCEPT ![r] = ubuf[c]]]
             /\ \A i \in Slot : (Pos(edq.front, i) <= Waiting' /\ i # r)
                                  => Pos(edq.front, i) <= Waiting
<1> DEFINE r == Succ(edq.rear)
           f == edq.front
<1>1. /\ edq.front \in Slot /\ edq.rear \in Slot /\ r \in Slot
  BY SuccValue DEF IInv, EdqTypes, RingOf
<1>2. edq' = [front |-> f, rear |-> r, node |-> [edq.node EXCEPT ![r] = ubuf[c]]]
  BY DEF PutUp, RingPut, IInv, EdqTypes, RingOf
<1>3. spc' = spc
  BY DEF PutUp
<1>4. \A i \in Slot : Pos(f, i) <= Waiting' /\ i # r => Pos(f, i) <= Waiting
  <2> SUFFICES ASSUME NEW i \in Slot, Pos(f, i) <= Waiting', i # r
               PROVE  Pos(f, i) <= Waiting
    OBVIOUS
  <2>1. /\ Pos(f, i) \in 1 .. N /\ Pos(f, r) \in 1 .. N /\ Pos(f, i) # Pos(f, r)
    BY <1>1, PosBasics
  <2>2. Waiting' = IF r # f THEN Dist(f, r) ELSE IF spc = "out" THEN N ELSE 0
    BY <1>2, <1>3 DEF Waiting
  <2>3. r = IF edq.rear = N - 1 THEN 0 ELSE edq.rear + 1
    BY <1>1, SuccValue
  <2>4. /\ f \in 0 .. N - 1 /\ edq.rear \in 0 .. N - 1 /\ i \in 0 .. N - 1
        /\ N \in Nat
    BY <1>1, NAssumption DEF Slot
  <2>5. Waiting = IF edq.rear # f THEN Dist(f, edq.rear)
                  ELSE IF spc = "out" THEN N ELSE 0
    BY DEF Waiting
  <2> HIDE DEF f, r
  <2>6. CASE r = f
    BY <2>1, <2>3, <2>4, <2>5, <2>6 DEF Pos, Dist
  <2>7. CASE r # f
    BY <2>1, <2>2, <2>3, <2>4, <2>5, <2>7 DEF Pos, Dist
  <2>8. QED
    BY <2>6, <2>7
<1>5. QED
  BY <1>1, <1>2, <1>3, <1>4

\* Putting a packet into edq leaves every slot that waits with an item of its
\* forwarder.
LEMMA PutOwn ==
  ASSUME IInv, NEW c \in Conc, PutUp(c)
  PROVE  EdqTypes'
<1> DEFINE r == Succ(edq.rear)
           f == edq.front
<1>1. /\ r \in Slot /\ spc' = spc
      /\ edq' = [front |-> f, rear |-> r, node |-> [edq.node EXCEPT ![r] = ubuf[c]]]
      /\ \A i \in Slot : (Pos(f, i) <= Waiting' /\ i # r) => Pos(f, i) <= Waiting
  BY PutPositions
<1>2. f \in Slot /\ edq.node \in [Slot -> Item]
  BY DEF IInv, EdqTypes, RingOf
<1>3. ubuf[c] \in OwnItem /\ ubuf[c] \in Item
  BY DEF PutUp, IInv, RecvTypes
<1>4. edq' \in RingOf(Item)
  BY <1>1, <1>2, <1>3 DEF RingOf
<1>5. \A i \in Slot : edq'.node[i] = IF i = r THEN ubuf[c] ELSE edq.node[i]
  BY <1>1, <1>2
<1>6. edq'.front = f
  BY <1>1
<1>7. QED
  BY <1>1, <1>3, <1>4, <1>5, <1>6 DEF IInv, EdqTypes

\* Taking a packet moves the slots that wait one position closer, and wipes at
\* most their payloads; what is taken has waited.
LEMMA TakePositions ==
  ASSUME IInv, TakeUp
  PROVE  LET f == Succ(edq.front)
             g == edq.front
             wiped == IF edq.rear = f THEN NoSlot
                      ELSE [edq.node[edq.rear] EXCEPT !.buf = Zeros]
         IN  /\ f \in Slot /\ edq.rear \in Slot
             /\ spc = "out" /\ spc' = "send" /\ sbuf' = edq.node[f]
             /\ edq' = [front |-> f, rear |-> edq.rear,
                        node |-> [i \in Slot |-> IF i = edq.rear THEN wiped
                                    ELSE IF i = f THEN NoSlot ELSE edq.node[i]]]
             /\ Waiting' = Waiting - 1 /\ Waiting \in 1 .. N
             /\ Pos(g, f) = 1
             /\ \A i \in Slot : /\ Pos(g, i) \in 1 .. N
                                /\ Pos(f, i) = IF i = f THEN N ELSE Pos(g, i) - 1
<1> DEFINE f == Succ(edq.front)
           g == edq.front
           wiped == IF edq.rear = f THEN NoSlot
                    ELSE [edq.node[edq.rear] EXCEPT !.buf = Zeros]
<1>1. /\ g \in Slot /\ edq.rear \in Slot /\ f \in Slot
      /\ edq.node \in [Slot -> Item] /\ spc = "out" /\ spc' = "send"
      /\ sbuf' = edq.node[f]
  BY SuccValue DEF IInv, EdqTypes, RingOf, TakeUp, RingHead
<1>2. edq' = [front |-> f, rear |-> edq.rear, node |-> edq'.node]
  BY DEF TakeUp, RingTake, IInv, EdqTypes, RingOf
<1>3. edq'.node = [i \in Slot |-> IF i = edq.rear THEN wiped
                                  ELSE IF i = f THEN NoSlot ELSE edq.node[i]]
  BY <1>1 DEF TakeUp, RingTake, IInv, EdqTypes, RingOf
<1>4. Waiting = IF edq.rear # g THEN Dist(g, edq.rear) ELSE N
  BY <1>1 DEF Waiting
<1>5. Waiting' = IF edq.rear # f THEN Dist(f, edq.rear) ELSE 0
  BY <1>1, <1>2 DEF Waiting
<1>6. f = IF g = N - 1 THEN 0 ELSE g + 1
  BY <1>1, SuccValue
<1>7. Waiting' = Waiting - 1 /\ Waiting \in 1 .. N
  <2>1. g \in 0 .. N - 1 /\ edq.rear \in 0 .. N - 1 /\ N \in Nat
    BY <1>1, NAssumption DEF Slot
  <2> HIDE DEF f, g
  <2>2. QED
    BY <1>4, <1>5, <1>6, <2>1 DEF Dist
<1>8. /\ Pos(g, f) = 1
      /\ \A i \in Slot : /\ Pos(g, i) \in 1 .. N
                         /\ Pos(f, i) = IF i = f THEN N ELSE Pos(g, i) - 1
  BY <1>1, PosBasics, PosAfterTake
<1> HIDE DEF wiped
<1>9. edq' = [front |-> f, rear |-> edq.rear,
              node |-> [i \in Slot |-> IF i = edq.rear THEN wiped
                          ELSE IF i = f THEN NoSlot ELSE edq.node[i]]]
  BY <1>2, <1>3
<1>10. QED
  BY <1>1, <1>7, <1>8, <1>9 DEF wiped

\* The slots that wait after a packet has been taken hold items of their
\* forwarders, and so does the sender.
LEMMA TakeOwn ==
  ASSUME IInv, TakeUp
  PROVE  EdqTypes' /\ SendTypes'
<1> DEFINE f == Succ(edq.front)
           g == edq.front
           wiped == IF edq.rear = f THEN NoSlot
                    ELSE [edq.node[edq.rear] EXCEPT !.buf = Zeros]
           node == [i \in Slot |-> IF i = edq.rear THEN wiped
                                   ELSE IF i = f THEN NoSlot ELSE edq.node[i]]
<1>1. /\ f \in Slot /\ edq.rear \in Slot
      /\ spc = "out" /\ spc' = "send" /\ sbuf' = edq.node[f]
      /\ edq' = [front |-> f, rear |-> edq.rear, node |-> node]
      /\ Waiting' = Waiting - 1 /\ Waiting \in 1 .. N
      /\ Pos(g, f) = 1
      /\ \A i \in Slot : /\ Pos(g, i) \in 1 .. N
                         /\ Pos(f, i) = IF i = f THEN N ELSE Pos(g, i) - 1
  BY TakePositions
<1>2. edq.node \in [Slot -> Item]
  BY DEF IInv, EdqTypes, RingOf
<1>3. wiped \in Item
  BY <1>1, <1>2, ItemFacts
<1>4. node \in [Slot -> Item]
  <2> HIDE DEF wiped
  <2>1. QED
    BY <1>2, <1>3, ItemFacts
<1>5. edq' \in RingOf(Item) /\ edq'.front = f /\ edq'.node = node
  BY <1>1, <1>4 DEF RingOf
<1>6. edq.node[f] \in OwnItem
  BY <1>1 DEF IInv, EdqTypes
<1>7. \A i \in Slot : Pos(f, i) <= Waiting' => edq'.node[i] \in OwnItem
  <2> SUFFICES ASSUME NEW i \in Slot, Pos(f, i) <= Waiting'
               PROVE  edq'.node[i] \in OwnItem
    OBVIOUS
  <2>1. i # f /\ Pos(g, i) <= Waiting
    BY <1>1, NAssumption
  <2>2. edq.node[i] \in OwnItem
    BY <2>1 DEF IInv, EdqTypes
  <2>3. edq'.node[i] \in {edq.node[i], [edq.node[i] EXCEPT !.buf = Zeros]}
    BY <1>2, <1>5, <2>1
  <2>4. QED
    BY <2>2, <2>3, ItemFacts
<1>8. SendTypes'
  BY <1>1, <1>6 DEF SendTypes, OwnItem
<1>9. QED
  BY <1>5, <1>7, <1>8 DEF EdqTypes

\* edq and the packet being sent, in every step.
LEMMA EdqStep ==
  ASSUME IInv, [Next]_vars
  PROVE  EdqTypes' /\ SendTypes'
<1>1. ASSUME NEW c \in Conc, PutUp(c)
      PROVE  EdqTypes' /\ SendTypes'
  <2>1. UNCHANGED <<spc, sbuf>>
    BY <1>1 DEF PutUp
  <2>2. QED
    BY <1>1, <2>1, PutOwn DEF IInv, SendTypes
<1>2. CASE TakeUp
  BY <1>2, TakeOwn
<1>3. CASE PollUp
  <2>1. /\ edq.front # edq.rear /\ spc = "poll" /\ spc' = "out"
        /\ UNCHANGED <<edq, sbuf>>
    BY <1>3 DEF PollUp, RingEmpty, IsEmpty
  <2>2. Waiting' = Waiting
    BY <2>1 DEF Waiting
  <2>3. QED
    BY <2>1, <2>2 DEF IInv, EdqTypes, SendTypes
<1>4. CASE SendToServer \/ MarkIdInfo
  <2>1. /\ spc # "out" /\ spc' \in {"mark", "poll"} /\ edq' = edq
        /\ \/ spc = "send" /\ spc' = "mark" /\ sbuf' = sbuf
           \/ spc' = "poll" /\ sbuf' = NoSlot
    BY <1>4 DEF SendToServer, MarkIdInfo
  <2>2. Waiting' = Waiting
    BY <2>1 DEF Waiting
  <2>3. QED
    BY <2>1, <2>2, ItemFacts DEF IInv, EdqTypes, SendTypes
<1>5. CASE UNCHANGED <<edq, spc, sbuf>>
  BY <1>5 DEF IInv, EdqTypes, SendTypes, Waiting
<1>6. QED
  BY <1>1, <1>2, <1>3, <1>4, <1>5
  DEF Next, RecvUp, CheckUp, RecvDown, CheckDown, PutDown, PollDown, TakeDown,
      RoutePullResp, DropPullResp, RouteAck, DropAck, RouteOther, Idle, uplink, vars

-----------------------------------------------------------------------------
(* The list of packets to be answered *)

\* A set of natural numbers has a least one.
LEMMA LeastOne ==
  ASSUME NEW T \in SUBSET Nat, T # {}
  PROVE  \E x \in T : \A y \in T : x <= y
<1>1. \E x \in T : \A y \in T : <<y, x>> \notin OpToRel(<, Nat)
  BY WFMin, NatLessThanWellFounded, Zenon
<1>2. PICK x \in T : \A y \in T : ~(y < x)
  BY <1>1 DEF OpToRel
<1>3. QED
  BY <1>2

\* The entry found is one of the list, and has the token looked for.
LEMMA FindInList ==
  ASSUME ListTypes, NEW t, Find(t) # 0
  PROVE  /\ Find(t) \in 1 .. Len(idList) /\ idList[Find(t)] \in OwnEntry
         /\ idList[Find(t)].token = t
<1> DEFINE I == {i \in 1 .. Len(idList) : idList[i].token = t}
<1>1. idList \in Seq(OwnEntry) /\ Len(idList) \in Nat
  BY DEF ListTypes
<1>2. Find(t) = IF I # {} THEN Min(I) ELSE 0
  BY DEF Find, SelectInSeq
<1>3. I # {} /\ Find(t) = CHOOSE x \in I : \A y \in I : x <= y
  BY <1>2 DEF Min
<1>4. \E x \in I : \A y \in I : x <= y
  <2>1. I \in SUBSET Nat /\ I # {}
    BY <1>3
  <2> HIDE DEF I
  <2>2. QED
    BY <2>1, LeastOne
<1>5. Find(t) \in I
  BY <1>3, <1>4
<1>6. QED
  BY <1>1, <1>5, ElementOfSeq

\* A search that finds nothing has looked at every entry.
LEMMA FindNothing ==
  ASSUME ListTypes, NEW t, Find(t) = 0
  PROVE  \A k \in 1 .. Len(idList) : idList[k].token # t
<1> DEFINE I == {i \in 1 .. Len(idList) : idList[i].token = t}
<1> SUFFICES ASSUME I # {} PROVE FALSE
  OBVIOUS
<1>1. I \in SUBSET Nat /\ 0 \notin I
  OBVIOUS
<1>2. Find(t) = CHOOSE x \in I : \A y \in I : x <= y
  BY DEF Find, SelectInSeq, Min
<1>3. \E x \in I : \A y \in I : x <= y
  <2> HIDE DEF I
  <2>1. QED
    BY <1>1, LeastOne
<1>4. Find(t) \in I
  BY <1>2, <1>3
<1>5. QED
  BY <1>1, <1>4

\* What has been sent is put at the head of the list.
LEMMA MarkedEntry ==
  ASSUME IInv, MarkIdInfo
  PROVE  LET e == [token |-> sbuf.buf.token, fd |-> sbuf.fd, addr |-> sbuf.addr]
         IN  e \in OwnEntry /\ idList' = <<e>> \o idList
<1>1. sbuf \in OwnItem /\ sbuf.buf.token \in Tokens
  BY PayloadFacts DEF MarkIdInfo, IInv, SendTypes, OwnItem, Item
<1>2. sbuf.fd \in Conc
  BY <1>1 DEF OwnItem, Item, Addr
<1>3. QED
  BY <1>1, <1>2 DEF OwnEntry, Entry, OwnItem, MarkIdInfo, Cons

\* Entries of the list tell the socket of the forwarder they are for.
LEMMA ListStep ==
  ASSUME IInv, [Next]_vars
  PROVE  ListTypes'
<1>1. CASE MarkIdInfo
  <2> DEFINE e == [token |-> sbuf.buf.token, fd |-> sbuf.fd, addr |-> sbuf.addr]
  <2>1. e \in OwnEntry /\ idList' = <<e>> \o idList /\ idList \in Seq(OwnEntry)
    BY <1>1, MarkedEntry DEF IInv, ListTypes
  <2> HIDE DEF e
  <2>2. <<e>> \in Seq(OwnEntry)
    BY <2>1
  <2>3. QED
    BY <2>1, <2>2, ConcatProperties DEF ListTypes
<1>2. CASE RouteAck
  <2> DEFINE k == Find(pbuf.token)
  <2>1. k \in 1 .. Len(idList) /\ idList \in Seq(OwnEntry) /\ Len(idList) \in Nat
    BY <1>2, FindInList DEF RouteAck, IInv, ListTypes
  <2>2. idList' = SubSeq(idList, 1, k - 1) \o SubSeq(idList, k + 1, Len(idList))
    BY <1>2 DEF RouteAck, RemoveAt
  <2> HIDE DEF k
  <2>3. \A i \in 1 .. Len(idList) : idList[i] \in OwnEntry
    BY <2>1, ElementOfSeq
  <2>4. SubSeq(idList, 1, k - 1) \in Seq(OwnEntry)
    <3>1. \A i \in 1 .. k - 1 : idList[i] \in OwnEntry
      BY <2>1, <2>3
    <3>2. 1 \in Int /\ k - 1 \in Int
      BY <2>1
    <3>3. QED
      BY <3>1, <3>2, SubSeqProperties
  <2>5. SubSeq(idList, k + 1, Len(idList)) \in Seq(OwnEntry)
    <3>1. \A i \in k + 1 .. Len(idList) : idList[i] \in OwnEntry
      BY <2>1, <2>3
    <3>2. k + 1 \in Int /\ Len(idList) \in Int
      BY <2>1
    <3>3. QED
      BY <3>1, <3>2, SubSeqProperties
  <2>6. QED
    BY <2>2, <2>4, <2>5, ConcatProperties DEF ListTypes
<1>3. CASE UNCHANGED idList
  BY <1>3 DEF IInv, ListTypes
<1>4. QED
  BY <1>1, <1>2, <1>3
  DEF Next, RecvUp, CheckUp, PutUp, PollUp, TakeUp, SendToServer, RecvDown,
      CheckDown, PutDown, PollDown, TakeDown, RoutePullResp, DropPullResp, DropAck,
      RouteOther, Idle, vars

-----------------------------------------------------------------------------
(* The server and the downlink ring *)

\* The rings hold items only, and hand items out.
LEMMA RingTypes ==
  ASSUME NEW q, q \in RingOf(Item)
  PROVE  /\ \A d \in Item : RingPut(q, d) \in RingOf(Item)
         /\ RingHead(q) \in Item
         /\ RingTake(q) \in RingOf(Item)
<1> DEFINE f == Succ(q.front)
           r == Succ(q.rear)
<1>1. /\ q.front \in Slot /\ q.rear \in Slot /\ f \in Slot /\ r \in Slot
      /\ q.node \in [Slot -> Item]
  BY SuccValue DEF RingOf
<1>2. ASSUME NEW d \in Item
      PROVE  RingPut(q, d) \in RingOf(Item)
  <2>1. PICK p : p = RingPut(q, d)
    OBVIOUS
  <2>2. p = [front |-> q.front, rear |-> r, node |-> [q.node EXCEPT ![r] = d]]
    BY <2>1 DEF RingPut, RingOf
  <2>3. QED
    BY <1>1, <2>1, <2>2 DEF RingOf
<1>3. RingTake(q) \in RingOf(Item)
  <2> DEFINE wiped == IF q.rear = f THEN NoSlot ELSE [q.node[q.rear] EXCEPT !.buf = Zeros]
             nodes == [i \in Slot |-> IF i = q.rear THEN wiped
                                      ELSE IF i = f THEN NoSlot ELSE q.node[i]]
  <2> PICK p : p = RingTake(q)
    OBVIOUS
  <2>1. p = [front |-> f, rear |-> q.rear, node |-> p.node]
    BY DEF RingTake, RingOf
  <2>2. p.node = nodes
    BY <1>1 DEF RingTake
  <2>3. wiped \in Item
    BY <1>1, ItemFacts
  <2>4. nodes \in [Slot -> Item]
    <3> HIDE DEF wiped
    <3>1. QED
      BY <1>1, <2>3, ItemFacts
  <2>5. QED
    BY <1>1, <2>1, <2>2, <2>4 DEF RingOf
<1>4. QED
  BY <1>1, <1>2, <1>3 DEF RingHead

\* The server has received payloads of the relay, and the bound holds.
LEMMA ServerStep ==
  ASSUME IInv, [Next]_vars
  PROVE  ServerTypes'
<1>1. CASE SendToServer
  <2>1. sbuf.buf \in Payload
    BY DEF IInv, SendTypes, Item
  <2>2. QED
    BY <1>1, <2>1 DEF SendToServer, IInv, ServerTypes
<1>2. ASSUME NEW s \in Sock, RecvDown(s)
      PROVE  ServerTypes'
  BY <1>2, BoundAssumption DEF RecvDown, IInv, ServerTypes
<1>3. CASE UNCHANGED server
  BY <1>3 DEF server, IInv, ServerTypes
<1>4. QED
  BY <1>1, <1>2, <1>3
  DEF Next, RecvUp, CheckUp, PutUp, PollUp, TakeUp, MarkIdInfo, CheckDown, PutDown,
      PollDown, TakeDown, RoutePullResp, DropPullResp, RouteAck, DropAck, RouteOther,
      Idle, vars, server

\* What arrives from the server is a payload, because it answers with tokens
\* it has received.
LEMMA ArrivalsArePayloads ==
  ASSUME IInv, NEW s \in Sock
  PROVE  Arrivals(s) \subseteq Payload
<1>1. \A x \in atServer : x.token \in Tokens
  BY PayloadFacts DEF IInv, ServerTypes
<1>2. QED
  BY <1>1 DEF Arrivals, Payload

\* The downlink ring and the buffers around it.
LEMMA SerqStep ==
  ASSUME IInv, [Next]_vars
  PROVE  SerqTypes'
<1> USE DEF IInv, SerqTypes
<1>1. ASSUME NEW s \in Sock, RecvDown(s)
      PROVE  SerqTypes'
  <2>1. PICK d \in Arrivals(s) : rbuf' = [rbuf EXCEPT ![s] = d]
    BY <1>1 DEF RecvDown
  <2>2. d \in Payload
    BY ArrivalsArePayloads
  <2>3. QED
    BY <1>1, <2>1, <2>2 DEF RecvDown
<1>2. ASSUME NEW s \in Sock, CheckDown(s)
      PROVE  SerqTypes'
  <2>1. CASE RingFull(serq)
    BY <1>2, <2>1, PayloadFacts DEF CheckDown
  <2>2. CASE ~RingFull(serq)
    BY <1>2, <2>2 DEF CheckDown
  <2>3. QED
    BY <2>1, <2>2
<1>3. ASSUME NEW s \in Sock, PutDown(s)
      PROVE  SerqTypes'
  <2>1. [NoSlot EXCEPT !.buf = rbuf[s]] \in Item
    BY ItemFacts
  <2>2. serq' \in RingOf(Item)
    BY <1>3, <2>1, RingTypes DEF PutDown
  <2>3. rbuf' \in [Sock -> Payload] /\ rpc' \in [Sock -> {"recv", "check", "put"}]
    BY <1>3, PayloadFacts DEF PutDown
  <2>4. QED
    BY <1>3, <2>2, <2>3 DEF PutDown
<1>4. CASE PollDown
  BY <1>4 DEF PollDown
<1>5. CASE TakeDown
  <2>1. RingHead(serq).buf \in Payload /\ RingTake(serq) \in RingOf(Item)
    BY RingTypes DEF Item
  <2>2. QED
    BY <1>5, <2>1 DEF TakeDown
<1>6. CASE RoutePullResp \/ DropPullResp \/ RouteAck \/ DropAck \/ RouteOther
  <2>1. ppc' = "poll" /\ pbuf' = Zeros /\ UNCHANGED <<rpc, rbuf, serq>>
    BY <1>6 DEF RoutePullResp, DropPullResp, RouteAck, DropAck, RouteOther
  <2>2. QED
    BY <2>1, PayloadFacts
<1>7. CASE UNCHANGED <<rpc, rbuf, serq, ppc, pbuf>>
  BY <1>7
<1>8. QED
  BY <1>1, <1>2, <1>3, <1>4, <1>5, <1>6, <1>7
  DEF Next, RecvUp, CheckUp, PutUp, PollUp, TakeUp, SendToServer, MarkIdInfo,
      Idle, vars, downlink

-----------------------------------------------------------------------------
(* The routing *)

\* clientAddr_<c> becomes the socket of SX1301_<c> that sends PULL_DATA.
LEMMA ClientStep ==
  ASSUME IInv, [Next]_vars
  PROVE  ClientTypes'
<1>1. ASSUME NEW c \in Conc, RecvUp(c)
      PROVE  ClientTypes'
  <2>1. PICK m \in toSend :
          /\ m.from[1] = c
          /\ \/ clientAddr' = clientAddr
             \/ m.type = "PULL_DATA" /\ clientAddr' = [clientAddr EXCEPT ![c] = m.from]
    BY <1>1 DEF RecvUp
  <2>2. m.from \in Addr /\ (m.type = "PULL_DATA" => m.from[2] = "pull")
    BY UpMsgsAssumption DEF IInv, RecvTypes, UpMsg
  <2>3. CASE clientAddr' = clientAddr
    BY <2>3 DEF IInv, ClientTypes
  <2>4. CASE m.type = "PULL_DATA" /\ clientAddr' = [clientAddr EXCEPT ![c] = m.from]
    <3>1. m.from = <<c, "pull">>
      BY <2>1, <2>2, <2>4 DEF Addr
    <3>2. QED
      BY <2>2, <2>4, <3>1 DEF IInv, ClientTypes
  <2>5. QED
    BY <2>1, <2>3, <2>4
<1>2. CASE UNCHANGED clientAddr
  BY <1>2 DEF IInv, ClientTypes
<1>3. QED
  BY <1>1, <1>2
  DEF Next, CheckUp, PutUp, PollUp, TakeUp, SendToServer, MarkIdInfo, RecvDown,
      CheckDown, PutDown, PollDown, TakeDown, RoutePullResp, DropPullResp, RouteAck,
      DropAck, RouteOther, Idle, vars

\* A frequency belongs to one concentrator at most, and if it matches the plan
\* of one of them only, to that one.
LEMMA OwnerFacts ==
  ASSUME NEW f
  PROVE  /\ Owner(f) \subseteq Conc
         /\ \A c \in Conc :
              /\ \E i \in DOMAIN Plan[c] : Near(30000 + Plan[c][i], f)
              /\ ~\E i \in DOMAIN Plan[1 - c] : Near(30000 + Plan[1 - c][i], f)
              => Owner(f) = {c}
BY DEF Owner, Conc

\* What is sent to a forwarder through its socket is one.
LEMMA ToForwarderFacts ==
  ASSUME IInv, NEW c \in Conc
  PROVE  /\ ToForwarder(c) \in Dest
         /\ ToForwarder(c).addr # NoAddr => ToForwarder(c) = [fd |-> c, addr |-> <<c, "pull">>]
BY DEF ToForwarder, IInv, ClientTypes, Dest

\* A destination is of the sort the addresses and sockets allow.
LEMMA DestStep ==
  ASSUME IInv, [Next]_vars
  PROVE  DestTypes'
<1>1. CASE RoutePullResp
  <2>1. \/ \E c \in Conc : dest' = ToForwarder(c) /\ last' \in {c, last}
        \/ UNCHANGED <<dest, last>>
    <3>1. last \in Conc => 1 - last \in Conc
      BY DEF Conc
    <3>2. QED
      BY <1>1, <3>1, OwnerFacts DEF RoutePullResp
  <2>2. CASE UNCHANGED <<dest, last>>
    BY <2>2 DEF IInv, DestTypes
  <2>3. ASSUME NEW c \in Conc, dest' = ToForwarder(c), last' \in {c, last}
        PROVE  DestTypes'
    BY <2>3, ToForwarderFacts DEF IInv, DestTypes
  <2>4. QED
    BY <2>1, <2>2, <2>3
<1>2. CASE RouteAck
  <2> DEFINE e == idList[Find(pbuf.token)]
  <2>1. e \in OwnEntry /\ dest' = [fd |-> e.fd, addr |-> e.addr] /\ last' = last
    BY <1>2, FindInList DEF RouteAck, IInv
  <2> HIDE DEF e
  <2>2. QED
    BY <2>1 DEF OwnEntry, Entry, Dest, IInv, DestTypes
<1>3. CASE UNCHANGED <<dest, last>>
  BY <1>3 DEF IInv, DestTypes
<1>4. QED
  BY <1>1, <1>2, <1>3
  DEF Next, RecvUp, CheckUp, PutUp, PollUp, TakeUp, SendToServer, MarkIdInfo,
      RecvDown, CheckDown, PutDown, PollDown, TakeDown, DropPullResp, DropAck,
      RouteOther, Idle, vars, downlink

\* The last sendto was to a destination, and the counters count.
LEMMA OutStep ==
  ASSUME IInv, [Next]_vars
  PROVE  OutTypes' /\ HistTypes'
<1>1. CASE RoutePullResp \/ RouteAck \/ RouteOther
  <2>1. SendTo(dest') /\ sent' = sent
    BY <1>1 DEF RoutePullResp, RouteAck, RouteOther, SendTo
  <2>2. DestTypes' /\ pbuf \in Payload /\ pbuf.token \in Tokens
    BY DestStep, PayloadFacts DEF IInv, SerqTypes
  <2>3. CASE dest'.addr = NoAddr
    BY <2>1, <2>3 DEF SendTo, IInv, OutTypes, HistTypes
  <2>4. CASE dest'.addr # NoAddr
    <3>1. out' = <<dest', pbuf>>
      BY <2>1, <2>4 DEF SendTo
    <3>2. OutTypes'
      BY <2>2, <2>4, <3>1 DEF DestTypes, OutTypes
    <3>3. relayed' \in [Addr \X Tokens -> Nat]
      BY <2>1, <2>4 DEF SendTo, IInv, HistTypes
    <3>4. QED
      BY <2>1, <3>2, <3>3 DEF IInv, HistTypes
  <2>5. QED
    BY <2>3, <2>4
<1>2. CASE SendToServer
  <2>1. /\ UNCHANGED <<out, relayed>>
        /\ sent' = [sent EXCEPT ![sbuf.buf.token] = @ + 1]
    BY <1>2 DEF SendToServer
  <2> DEFINE t == sbuf.buf.token
  <2>2. sent' \in [Tokens -> Nat]
    <3>1. sent \in [Tokens -> Nat] /\ sent' = [sent EXCEPT ![t] = sent[t] + 1]
      BY <2>1 DEF IInv, HistTypes
    <3>2. t \in Tokens
      BY PayloadFacts DEF IInv, SendTypes, Item
    <3> HIDE DEF t
    <3>3. sent[t] \in Nat
      BY <3>1, <3>2
    <3>4. QED
      BY <3>1, <3>2, <3>3
  <2>3. QED
    BY <2>1, <2>2 DEF IInv, OutTypes, HistTypes
<1>3. CASE UNCHANGED history
  BY <1>3 DEF history, IInv, OutTypes, HistTypes
<1>4. QED
  BY <1>1, <1>2, <1>3
  DEF Next, RecvUp, CheckUp, PutUp, PollUp, TakeUp, MarkIdInfo, RecvDown, CheckDown,
      PutDown, PollDown, TakeDown, DropPullResp, DropAck, Idle, vars

-----------------------------------------------------------------------------
(* The theorems *)

\* The parts of the invariant hold in every step.
LEMMA StepInv == IInv /\ [Next]_vars => IInv'
BY RecvStep, EdqStep, ListStep, ServerStep, SerqStep, ClientStep, DestStep, OutStep
DEF IInv

\* The invariant is one of the relay.
THEOREM Invariant == Spec => []IInv
<1>1. QED
  BY InitInv, StepInv, PTL DEF Spec

\* Every variable of the relay keeps its type, above all the slots of the two
\* rings: datagrams of the forwarders or of the server, or zeros.
THEOREM TypeCorrect == Spec => []TypeOK
<1>1. IInv => TypeOK
  <2> SUFFICES ASSUME IInv PROVE TypeOK
    OBVIOUS
  <2>1. idList \in Seq([token : Tokens, fd : Conc, addr : Addr])
    <3>1. OwnEntry \subseteq [token : Tokens, fd : Conc, addr : Addr]
      BY DEF OwnEntry, Entry
    <3>2. QED
      BY <3>1, SeqMonotonic DEF IInv, ListTypes
  <2>2. QED
    BY <2>1
    DEF IInv, TypeOK, RecvTypes, EdqTypes, SendTypes, ServerTypes, SerqTypes,
        ClientTypes, DestTypes, OutTypes, HistTypes
<1>2. QED
  BY <1>1, Invariant, PTL

\* What the relay sends to a forwarder leaves through that forwarder's socket.
THEOREM SocketMatches == Spec => []SocketMatchesAddress
<1>1. IInv => SocketMatchesAddress
  <2> SUFFICES ASSUME IInv PROVE SocketMatchesAddress
    OBVIOUS
  <2>1. ASSUME NEW e \in ToSet(idList)
        PROVE  e.addr[1] = e.fd
    <3>1. PICK i \in 1 .. Len(idList) : e = idList[i]
      BY LenProperties DEF ToSet, IInv, ListTypes
    <3>2. e \in OwnEntry
      BY <3>1, ElementOfSeq DEF IInv, ListTypes
    <3>3. QED
      BY <3>2 DEF OwnEntry
  <2>2. QED
    BY <2>1 DEF SocketMatchesAddress, IInv, OutTypes
<1>2. QED
  BY <1>1, Invariant, PTL

\* The routing of PULL_RESPs by their channel is preserved by every step.
LEMMA RoutedStep ==
  ASSUME IInv, PullRespReachesItsConcentrator, [Next]_vars
  PROVE  PullRespReachesItsConcentrator'
<1>1. CASE UNCHANGED out
  BY <1>1 DEF PullRespReachesItsConcentrator
<1>2. CASE RouteAck \/ RouteOther
  <2>1. out' = out \/ (out' = <<dest', pbuf>> /\ pbuf.type # "PULL_RESP")
    BY <1>2 DEF RouteAck, RouteOther, SendTo
  <2>2. QED
    BY <1>1, <2>1 DEF PullRespReachesItsConcentrator
<1>3. CASE RoutePullResp
  <2> SUFFICES ASSUME out' = <<dest', pbuf>>, dest'.addr # NoAddr
               PROVE  PullRespReachesItsConcentrator'
    BY <1>1, <1>3 DEF RoutePullResp, SendTo
  <2>1. ASSUME NEW c \in Conc, ~Near(Rx2Freq, pbuf.freq),
               \E i \in DOMAIN Plan[c] : Near(30000 + Plan[c][i], pbuf.freq),
               ~\E i \in DOMAIN Plan[1 - c] : Near(30000 + Plan[1 - c][i], pbuf.freq)
        PROVE  dest' = [fd |-> c, addr |-> <<c, "pull">>]
    <3>1. Owner(pbuf.freq) = {c}
      BY <2>1, OwnerFacts
    <3>2. dest' = ToForwarder(c)
      BY <1>3, <2>1, <3>1 DEF RoutePullResp
    <3>3. QED
      BY <3>2, ToForwarderFacts
  <2>2. QED
    BY <2>1 DEF PullRespReachesItsConcentrator
<1>4. QED
  BY <1>1, <1>2, <1>3
  DEF Next, RecvUp, CheckUp, PutUp, PollUp, TakeUp, SendToServer, MarkIdInfo,
      RecvDown, CheckDown, PutDown, PollDown, TakeDown, DropPullResp, DropAck,
      Idle, vars, history

\* A PULL_RESP in a channel of one concentrator goes to its forwarder, for
\* every frequency plan and however the threads interleave.
THEOREM PullRespRouted == Spec => []PullRespReachesItsConcentrator
<1>1. Init => PullRespReachesItsConcentrator
  BY DEF Init, PullRespReachesItsConcentrator
<1>2. QED
  BY <1>1, Invariant, RoutedStep, PTL DEF Spec

-----------------------------------------------------------------------------
(* Acknowledgements and those who wait for them *)

\* Where a datagram with token t from address a is, until its acknowledgement
\* is relayed: with a receiver, in edq, with the sender, or in the list.
Of(d, a, t) == d.addr = a /\ d.buf.token = t
Buffers(a, t) == {c \in Conc : upc[c] \in {"check", "put"} /\ Of(ubuf[c], a, t)}
Slots(a, t) ==
  {i \in Slot : Pos(edq.front, i) <= Waiting /\ Of(edq.node[i], a, t)}
Sending(a, t) == IF spc \in {"send", "mark"} /\ Of(sbuf, a, t) THEN 1 ELSE 0
Matching(s, a, t) == {k \in 1 .. Len(s) : s[k].addr = a /\ s[k].token = t}

InBuffers(a, t) == Cardinality(Buffers(a, t))
InRing(a, t) == Cardinality(Slots(a, t))
InList(a, t) == Cardinality(Matching(idList, a, t))
Relayed(a, t) == relayed[a, t]

\* Each datagram received is at one place at most, and at none when it has been
\* answered.
Balanced(a, t) ==
  Relayed(a, t) + InBuffers(a, t) + InRing(a, t) + Sending(a, t) + InList(a, t)
    <= Received(a, t)

Accounted ==
  /\ IsFiniteSet(UpMsgs \ toSend)
  /\ \A a \in Addr, t \in Tokens \ {0} : Balanced(a, t)

\* A set that gains or loses an element.
LEMMA CountOneMore ==
  ASSUME NEW S, IsFiniteSet(S), NEW x, NEW T, T \subseteq S \cup {x}
  PROVE  /\ Cardinality(T) \in Nat /\ Cardinality(S) \in Nat
         /\ Cardinality(T) <= Cardinality(S) + 1
<1>1. /\ IsFiniteSet(S \cup {x})
      /\ Cardinality(S \cup {x}) <= Cardinality(S) + 1
  <2>1. Cardinality(S) \in Nat
    BY FS_CardinalityType
  <2>2. /\ IsFiniteSet(S \cup {x})
        /\ Cardinality(S \cup {x}) =
             IF x \in S THEN Cardinality(S) ELSE Cardinality(S) + 1
    BY FS_AddElement
  <2>3. QED
    BY <2>1, <2>2
<1>2. IsFiniteSet(T) /\ Cardinality(T) <= Cardinality(S \cup {x})
  BY <1>1, FS_Subset
<1>3. /\ Cardinality(T) \in Nat /\ Cardinality(S) \in Nat
      /\ Cardinality(S \cup {x}) \in Nat
  BY <1>1, <1>2, FS_CardinalityType
<1>4. QED
  BY <1>1, <1>2, <1>3

\* A set that loses an element.
LEMMA CountOneLess ==
  ASSUME NEW S, IsFiniteSet(S), NEW x \in S, NEW T, T \subseteq S \ {x}
  PROVE  /\ Cardinality(T) \in Nat /\ Cardinality(S) \in Nat
         /\ Cardinality(T) + 1 <= Cardinality(S)
<1>1. /\ IsFiniteSet(S \ {x})
      /\ Cardinality(S \ {x}) = Cardinality(S) - 1
  BY FS_RemoveElement
<1>2. IsFiniteSet(T) /\ Cardinality(T) <= Cardinality(S \ {x})
  BY <1>1, FS_Subset
<1>3. Cardinality(T) \in Nat /\ Cardinality(S) \in Nat
  BY <1>2, FS_CardinalityType
<1>4. QED
  BY <1>1, <1>2, <1>3

\* A set that gains nothing.
LEMMA CountNoMore ==
  ASSUME NEW S, IsFiniteSet(S), NEW T, T \subseteq S
  PROVE  /\ Cardinality(T) \in Nat /\ Cardinality(S) \in Nat
         /\ Cardinality(T) <= Cardinality(S)
<1>1. IsFiniteSet(T) /\ Cardinality(T) <= Cardinality(S)
  BY FS_Subset
<1>2. QED
  BY <1>1, FS_CardinalityType

\* The entries of a list that match are finitely many.
LEMMA MatchingFinite ==
  ASSUME NEW s \in Seq(OwnEntry), NEW a, NEW t
  PROVE  /\ IsFiniteSet(Matching(s, a, t))
         /\ Cardinality(Matching(s, a, t)) \in Nat
<1>1. 1 \in Int /\ Len(s) \in Int
  OBVIOUS
<1>2. IsFiniteSet(1 .. Len(s))
  BY <1>1, FS_Interval
<1>3. Matching(s, a, t) \in SUBSET (1 .. Len(s))
  BY DEF Matching
<1>4. QED
  BY <1>2, <1>3, FS_Subset, FS_CardinalityType

\* All the sets counted are finite.
LEMMA FiniteCounts ==
  ASSUME IInv, IsFiniteSet(UpMsgs \ toSend), NEW a \in Addr, NEW t \in Tokens
  PROVE  /\ IsFiniteSet(Buffers(a, t)) /\ InBuffers(a, t) \in Nat
         /\ IsFiniteSet(Slots(a, t)) /\ InRing(a, t) \in Nat
         /\ InList(a, t) \in Nat
         /\ Received(a, t) \in Nat /\ Relayed(a, t) \in Nat
         /\ Sending(a, t) \in {0, 1}
<1>1. Conc = 0 .. 1 /\ 0 \in Int /\ 1 \in Int /\ N - 1 \in Int
  BY NAssumption DEF Conc
<1>2. IsFiniteSet(Conc) /\ IsFiniteSet(Slot)
  BY <1>1, FS_Interval DEF Slot
<1>3. /\ Buffers(a, t) \in SUBSET Conc /\ Slots(a, t) \in SUBSET Slot
      /\ idList \in Seq(OwnEntry)
  BY DEF Buffers, Slots, IInv, ListTypes
<1>4. Received(a, t) \in Nat
  <2> DEFINE R == {m \in UpMsgs \ toSend :
                     m.from = a /\ m.token = t /\ m.type # "OTHER"}
  <2>1. R \in SUBSET (UpMsgs \ toSend)
    OBVIOUS
  <2> HIDE DEF R
  <2>2. QED
    BY <2>1, FS_Subset, FS_CardinalityType DEF Received, R
<1>5. relayed[a, t] \in Nat
  BY DEF IInv, HistTypes
<1>6. /\ IsFiniteSet(Buffers(a, t)) /\ IsFiniteSet(Slots(a, t))
      /\ IsFiniteSet(Matching(idList, a, t))
      /\ Cardinality(Matching(idList, a, t)) \in Nat
  BY <1>2, <1>3, FS_Subset, MatchingFinite
<1>7. Sending(a, t) \in {0, 1}
  BY DEF Sending
<1>8. QED
  BY <1>4, <1>5, <1>6, <1>7, FS_CardinalityType
  DEF InBuffers, InRing, InList, Relayed

\* One entry more at the head of the list.
LEMMA MatchingCons ==
  ASSUME NEW s \in Seq(OwnEntry), NEW e \in OwnEntry, NEW a, NEW t
  PROVE  /\ Cardinality(Matching(<<e>> \o s, a, t))
              <= Cardinality(Matching(s, a, t)) + 1
         /\ ~(e.addr = a /\ e.token = t) =>
              Cardinality(Matching(<<e>> \o s, a, t)) <= Cardinality(Matching(s, a, t))
<1> DEFINE u == <<e>> \o s
           M == Matching(s, a, t)
           U == Matching(u, a, t)
<1>1. /\ u \in Seq(OwnEntry) /\ Len(u) = Len(s) + 1 /\ Len(s) \in Nat
      /\ u[1] = e /\ \A k \in 2 .. Len(u) : u[k] = s[k - 1]
  BY ConcatProperties
<1> HIDE DEF u
<1>2. IsFiniteSet(M)
  BY MatchingFinite
<1> DEFINE f == [k \in U \ {1} |-> k - 1]
<1>3. \A k \in U \ {1} : k \in 2 .. Len(u) /\ k - 1 \in M
  BY <1>1 DEF Matching
<1>4. f \in Injection(U \ {1}, M)
  BY <1>3 DEF Injection, IsInjective
<1>5. IsFiniteSet(U \ {1}) /\ Cardinality(U \ {1}) <= Cardinality(M)
  BY <1>2, <1>4, FS_Injection
<1>6. Cardinality(M) \in Nat /\ Cardinality(U \ {1}) \in Nat
  BY <1>2, <1>5, FS_CardinalityType
<1>7. /\ Cardinality(U) \in Nat
      /\ Cardinality(U) <= Cardinality(U \ {1}) + 1
  <2>1. U \subseteq (U \ {1}) \cup {1}
    OBVIOUS
  <2>2. QED
    BY <1>5, <2>1, CountOneMore
<1>8. ~(e.addr = a /\ e.token = t) => U \ {1} = U
  BY <1>1 DEF Matching
<1> HIDE DEF U, M
<1>9. Cardinality(U) <= Cardinality(M) + 1
  <2> DEFINE n == Cardinality(U \ {1})
  <2>1. n <= Cardinality(M) /\ Cardinality(U) <= n + 1 /\ n \in Nat
    BY <1>5, <1>6, <1>7
  <2> HIDE DEF n
  <2>2. QED
    BY <1>6, <1>7, <2>1
<1>10. ~(e.addr = a /\ e.token = t) => Cardinality(U) <= Cardinality(M)
  BY <1>5, <1>8
<1>11. QED
  BY <1>9, <1>10 DEF u, U, M

\* s is u with another entry in the j-th place.
IsInserted(u, s, j) ==
  /\ j \in 1 .. Len(s) /\ Len(s) = Len(u) + 1
  /\ \A k \in 1 .. Len(u) : u[k] = IF k < j THEN s[k] ELSE s[k + 1]

LEMMA RemoveAtFacts ==
  ASSUME NEW s \in Seq(OwnEntry), NEW j \in 1 .. Len(s)
  PROVE  RemoveAt(s, j) \in Seq(OwnEntry) /\ IsInserted(RemoveAt(s, j), s, j)
<1> DEFINE b == SubSeq(s, 1, j - 1)
           c == SubSeq(s, j + 1, Len(s))
           u == RemoveAt(s, j)
<1>1. Len(s) \in Nat /\ u = b \o c
  BY DEF RemoveAt
<1>2. \A k \in 1 .. Len(s) : s[k] \in OwnEntry
  BY ElementOfSeq
<1>3. /\ b \in Seq(OwnEntry) /\ Len(b) = j - 1
      /\ \A k \in 1 .. j - 1 : b[k] = s[k]
  <2>1. \A k \in 1 .. j - 1 : s[k] \in OwnEntry
    BY <1>1, <1>2
  <2>2. 1 \in Int /\ j - 1 \in Int /\ j - 1 <= Len(s)
    BY <1>1
  <2>3. QED
    BY <1>1, <2>1, <2>2, SubSeqProperties
<1>4. /\ c \in Seq(OwnEntry) /\ Len(c) = Len(s) - j
      /\ \A k \in 1 .. Len(s) - j : c[k] = s[j + k]
  <2>1. \A k \in j + 1 .. Len(s) : s[k] \in OwnEntry
    BY <1>1, <1>2
  <2>2. j + 1 \in Int /\ Len(s) \in Int
    BY <1>1
  <2>3. QED
    BY <1>1, <2>1, <2>2, SubSeqProperties
<1>5. /\ u \in Seq(OwnEntry) /\ Len(u) = Len(s) - 1
      /\ \A k \in 1 .. Len(u) : u[k] = IF k < j THEN s[k] ELSE s[k + 1]
  <2> HIDE DEF b, c, u
  <2> DEFINE v == b \o c
  <2>1. /\ v \in Seq(OwnEntry) /\ Len(v) = Len(b) + Len(c)
        /\ \A k \in 1 .. Len(b) + Len(c) :
             v[k] = IF k <= Len(b) THEN b[k] ELSE c[k - Len(b)]
    BY <1>3, <1>4, ConcatProperties
  <2>2. u = v
    BY <1>1
  <2> HIDE DEF v
  <2>3. u \in Seq(OwnEntry) /\ Len(u) = Len(s) - 1
    <3>1. u \in Seq(OwnEntry) /\ Len(u) = Len(b) + Len(c)
      BY <2>1, <2>2
    <3>2. Len(b) + Len(c) = Len(s) - 1
      BY <1>1, <1>3, <1>4
    <3>3. QED
      BY <3>1, <3>2
  <2>4. ASSUME NEW k \in 1 .. Len(u)
        PROVE  u[k] = IF k < j THEN s[k] ELSE s[k + 1]
    <3>1. k \in 1 .. Len(b) + Len(c) /\ Len(b) = j - 1 /\ k \in Int /\ j \in Int
      BY <1>1, <1>3, <1>4, <2>3
    <3>2. CASE k < j
      BY <1>3, <2>1, <2>2, <3>1, <3>2
    <3>3. CASE ~(k < j)
      <4>1. k - (j - 1) \in 1 .. Len(s) - j /\ j + (k - (j - 1)) = k + 1
        BY <1>1, <2>3, <3>1, <3>3
      <4>2. u[k] = c[k - (j - 1)]
        BY <2>1, <2>2, <3>1, <3>3
      <4>3. QED
        BY <1>4, <3>3, <4>1, <4>2
    <3>4. QED
      BY <3>2, <3>3
  <2>5. QED
    BY <2>3, <2>4
<1> HIDE DEF u
<1>6. Len(s) = Len(u) + 1
  BY <1>1, <1>5
<1>7. QED
  BY <1>5, <1>6 DEF IsInserted, u

\* One entry less anywhere in the list.
LEMMA MatchingRemove ==
  ASSUME NEW s \in Seq(OwnEntry), NEW j \in 1 .. Len(s), NEW a, NEW t
  PROVE  /\ Cardinality(Matching(RemoveAt(s, j), a, t)) <= Cardinality(Matching(s, a, t))
         /\ (s[j].addr = a /\ s[j].token = t) =>
              Cardinality(Matching(RemoveAt(s, j), a, t)) + 1
                <= Cardinality(Matching(s, a, t))
<1> DEFINE u == RemoveAt(s, j)
           M == Matching(s, a, t)
           U == Matching(u, a, t)
<1>1. Len(s) \in Nat
  OBVIOUS
<1>5. /\ u \in Seq(OwnEntry) /\ Len(s) = Len(u) + 1 /\ Len(u) \in Nat
      /\ \A k \in 1 .. Len(u) : u[k] = IF k < j THEN s[k] ELSE s[k + 1]
  BY RemoveAtFacts, LenProperties DEF IsInserted
<1> HIDE DEF u
<1>6. IsFiniteSet(M)
  BY MatchingFinite
<1> DEFINE f == [k \in U |-> IF k < j THEN k ELSE k + 1]
<1>7. \A k \in U : k \in Int /\ (IF k < j THEN k ELSE k + 1) \in M \ {j}
  BY <1>1, <1>5 DEF Matching
<1>8. f \in Injection(U, M \ {j})
  BY <1>7 DEF Injection, IsInjective
<1>9. IsFiniteSet(M \ {j}) /\ Cardinality(M \ {j}) \in Nat
  BY <1>6, FS_RemoveElement, FS_CardinalityType
<1>10. IsFiniteSet(U) /\ Cardinality(U) <= Cardinality(M \ {j})
  BY <1>8, <1>9, FS_Injection
<1>11. /\ Cardinality(U) \in Nat /\ Cardinality(M) \in Nat
  BY <1>6, <1>10, FS_CardinalityType
<1>12. Cardinality(M \ {j}) = IF j \in M THEN Cardinality(M) - 1 ELSE Cardinality(M)
  BY <1>6, FS_RemoveElement
<1>13. (s[j].addr = a /\ s[j].token = t) => j \in M
  BY DEF Matching
<1>14. QED
  BY <1>9, <1>10, <1>11, <1>12, <1>13 DEF u

\* What each count depends on.
LEMMA Frames ==
  ASSUME NEW a, NEW t
  PROVE  /\ UNCHANGED <<upc, ubuf>> => InBuffers(a, t)' = InBuffers(a, t)
         /\ UNCHANGED <<edq, spc>> => InRing(a, t)' = InRing(a, t)
         /\ UNCHANGED <<spc, sbuf>> => Sending(a, t)' = Sending(a, t)
         /\ UNCHANGED idList => InList(a, t)' = InList(a, t)
         /\ UNCHANGED relayed => Relayed(a, t)' = Relayed(a, t)
         /\ UNCHANGED toSend => Received(a, t)' = Received(a, t)
BY DEF Buffers, Slots, Sending, Matching, Received, Waiting, InBuffers, InRing,
       InList, Relayed

\* The receivers hold one datagram more, no more, or one less.
LEMMA BuffersChange ==
  ASSUME IInv, Accounted, NEW a \in Addr, NEW t \in Tokens, NEW c
  PROVE  /\ Buffers(a, t)' \subseteq Buffers(a, t) \cup {c} =>
              InBuffers(a, t)' \in Nat /\ InBuffers(a, t)' <= InBuffers(a, t) + 1
         /\ Buffers(a, t)' \subseteq Buffers(a, t) =>
              InBuffers(a, t)' \in Nat /\ InBuffers(a, t)' <= InBuffers(a, t)
         /\ (Buffers(a, t)' \subseteq Buffers(a, t) \ {c} /\ c \in Buffers(a, t)) =>
              InBuffers(a, t)' \in Nat /\ InBuffers(a, t)' + 1 <= InBuffers(a, t)
<1>1. IsFiniteSet(Buffers(a, t))
  BY FiniteCounts DEF Accounted
<1>2. QED
  BY <1>1, CountOneMore, CountNoMore, CountOneLess DEF InBuffers

\* The ring holds one datagram more, no more, or one less.
LEMMA SlotsChange ==
  ASSUME IInv, Accounted, NEW a \in Addr, NEW t \in Tokens, NEW i
  PROVE  /\ Slots(a, t)' \subseteq Slots(a, t) \cup {i} =>
              InRing(a, t)' \in Nat /\ InRing(a, t)' <= InRing(a, t) + 1
         /\ Slots(a, t)' \subseteq Slots(a, t) =>
              InRing(a, t)' \in Nat /\ InRing(a, t)' <= InRing(a, t)
         /\ (Slots(a, t)' \subseteq Slots(a, t) \ {i} /\ i \in Slots(a, t)) =>
              InRing(a, t)' \in Nat /\ InRing(a, t)' + 1 <= InRing(a, t)
<1>1. IsFiniteSet(Slots(a, t))
  BY FiniteCounts DEF Accounted
<1>2. QED
  BY <1>1, CountOneMore, CountNoMore, CountOneLess DEF InRing

\* A datagram received is with the receiver, unless it ends it.
LEMMA RecvBalanced ==
  ASSUME IInv, Accounted, NEW c \in Conc, RecvUp(c)
  PROVE  Accounted'
<1>1. PICK m \in toSend :
        /\ m.from[1] = c /\ toSend' = toSend \ {m}
        /\ \/ /\ m.type = "OTHER"
              /\ upc' = [upc EXCEPT ![c] = "done"] /\ ubuf' = ubuf
           \/ /\ m.type # "OTHER"
              /\ upc' = [upc EXCEPT ![c] = "check"]
              /\ ubuf' = [ubuf EXCEPT ![c] =
                   [fd |-> c, addr |-> m.from,
                    buf |-> [type |-> m.type, token |-> m.token,
                             freq |-> NoFreq]]]
  BY DEF RecvUp
<1>2. /\ UNCHANGED <<edq, spc, sbuf, idList, relayed>>
      /\ upc \in [Conc -> {"recv", "check", "put", "done"}]
      /\ ubuf \in [Conc -> Item] /\ toSend \subseteq UpMsgs
      /\ upc[c] = "recv"
  BY DEF RecvUp, history, IInv, RecvTypes
<1>3. UpMsgs \ toSend' = (UpMsgs \ toSend) \cup {m}
  BY <1>1, <1>2
<1>4. IsFiniteSet(UpMsgs \ toSend')
  BY <1>3, FS_AddElement DEF Accounted
<1>5. ASSUME NEW a \in Addr, NEW t \in Tokens \ {0}
      PROVE  Balanced(a, t)'
  <2> DEFINE R == {x \in UpMsgs \ toSend :
                     x.from = a /\ x.token = t /\ x.type # "OTHER"}
             S == {x \in UpMsgs \ toSend' :
                     x.from = a /\ x.token = t /\ x.type # "OTHER"}
  <2>1. IsFiniteSet(R) /\ Cardinality(R) \in Nat
    <3>1. R \in SUBSET (UpMsgs \ toSend)
      OBVIOUS
    <3> HIDE DEF R
    <3>2. QED
      BY <3>1, FS_Subset, FS_CardinalityType DEF Accounted
  <2>2. Received(a, t) = Cardinality(R) /\ Received(a, t)' = Cardinality(S)
    BY DEF Received
  <2>3. /\ Balanced(a, t) /\ InBuffers(a, t) \in Nat /\ InRing(a, t) \in Nat
        /\ Relayed(a, t) \in Nat /\ InList(a, t) \in Nat
        /\ Received(a, t) \in Nat /\ Sending(a, t) \in {0, 1}
    BY FiniteCounts DEF Accounted
  <2>4. /\ InRing(a, t)' = InRing(a, t) /\ Sending(a, t)' = Sending(a, t)
        /\ InList(a, t)' = InList(a, t) /\ Relayed(a, t)' = Relayed(a, t)
    BY <1>2, Frames
  <2>5. CASE m.from = a /\ m.token = t /\ m.type # "OTHER"
    <3>1. S = R \cup {m} /\ m \notin R
      BY <1>1, <1>3, <2>5
    <3> HIDE DEF R, S
    <3>2. Received(a, t)' = Received(a, t) + 1
      BY <2>1, <2>2, <3>1, FS_AddElement
    <3>3. Buffers(a, t)' \subseteq Buffers(a, t) \cup {c}
      BY <1>1, <1>2 DEF Buffers
    <3>4. InBuffers(a, t)' \in Nat /\ InBuffers(a, t)' <= InBuffers(a, t) + 1
      BY <3>3, BuffersChange
    <3>5. QED
      BY <2>3, <2>4, <3>2, <3>4 DEF Balanced
  <2>6. CASE ~(m.from = a /\ m.token = t /\ m.type # "OTHER")
    <3>1. S = R
      BY <1>1, <1>3, <2>6
    <3>2. Received(a, t)' = Received(a, t)
      BY <2>2, <3>1
    <3>3. Buffers(a, t)' \subseteq Buffers(a, t)
      BY <1>1, <1>2, <2>6 DEF Buffers, Of
    <3>4. InBuffers(a, t)' \in Nat /\ InBuffers(a, t)' <= InBuffers(a, t)
      BY <3>3, BuffersChange
    <3>5. QED
      BY <2>3, <2>4, <3>2, <3>4 DEF Balanced
  <2>7. QED
    BY <2>5, <2>6
<1>6. QED
  BY <1>4, <1>5 DEF Accounted

\* A datagram refused is nowhere any more.
LEMMA CheckBalanced ==
  ASSUME IInv, Accounted, NEW c \in Conc, CheckUp(c)
  PROVE  Accounted'
<1>1. /\ UNCHANGED <<toSend, edq, spc, sbuf, idList, relayed>>
      /\ upc[c] = "check" /\ upc \in [Conc -> {"recv", "check", "put", "done"}]
      /\ ubuf \in [Conc -> Item]
      /\ \/ upc' = [upc EXCEPT ![c] = "recv"] /\ ubuf' = [ubuf EXCEPT ![c] = NoSlot]
         \/ upc' = [upc EXCEPT ![c] = "put"] /\ ubuf' = [ubuf EXCEPT ![c] = @]
  BY DEF CheckUp, history, IInv, RecvTypes
<1>2. ASSUME NEW a \in Addr, NEW t \in Tokens \ {0}
      PROVE  Balanced(a, t)'
  <2>1. Buffers(a, t)' \subseteq Buffers(a, t)
    BY <1>1 DEF Buffers
  <2>2. /\ Balanced(a, t) /\ InBuffers(a, t) \in Nat /\ InRing(a, t) \in Nat
        /\ Relayed(a, t) \in Nat /\ InList(a, t) \in Nat
        /\ Received(a, t) \in Nat /\ Sending(a, t) \in {0, 1}
    BY FiniteCounts DEF Accounted
  <2>3. InBuffers(a, t)' \in Nat /\ InBuffers(a, t)' <= InBuffers(a, t)
    BY <2>1, BuffersChange
  <2>4. /\ InRing(a, t)' = InRing(a, t) /\ Sending(a, t)' = Sending(a, t)
        /\ InList(a, t)' = InList(a, t) /\ Relayed(a, t)' = Relayed(a, t)
        /\ Received(a, t)' = Received(a, t)
    BY <1>1, Frames
  <2>5. QED
    BY <2>2, <2>3, <2>4 DEF Balanced
<1>3. QED
  BY <1>1, <1>2 DEF Accounted

\* A datagram moves from the receiver to the ring, where it may lap others.
LEMMA PutBalanced ==
  ASSUME IInv, Accounted, NEW c \in Conc, PutUp(c)
  PROVE  Accounted'
<1> DEFINE r == Succ(edq.rear)
           f == edq.front
<1>1. /\ r \in Slot
      /\ edq' = [front |-> f, rear |-> r, node |-> [edq.node EXCEPT ![r] = ubuf[c]]]
      /\ \A i \in Slot : (Pos(f, i) <= Waiting' /\ i # r) => Pos(f, i) <= Waiting
  BY PutPositions
<1>2. /\ UNCHANGED <<toSend, spc, sbuf, idList, relayed>>
      /\ upc[c] = "put" /\ upc \in [Conc -> {"recv", "check", "put", "done"}]
      /\ ubuf \in [Conc -> Item] /\ edq.node \in [Slot -> Item]
      /\ upc' = [upc EXCEPT ![c] = "recv"] /\ ubuf' = [ubuf EXCEPT ![c] = NoSlot]
  BY DEF PutUp, history, IInv, RecvTypes, EdqTypes, RingOf
<1>3. /\ edq'.front = f
      /\ \A i \in Slot : edq'.node[i] = IF i = r THEN ubuf[c] ELSE edq.node[i]
  BY <1>1, <1>2
<1> HIDE DEF r, f
<1>4. ASSUME NEW a \in Addr, NEW t \in Tokens \ {0}
      PROVE  Balanced(a, t)'
  <2>1. ASSUME NEW i \in Slots(a, t)', i # r
        PROVE  i \in Slots(a, t)
    <3>1. i \in Slot /\ Pos(edq'.front, i) <= Waiting' /\ Of(edq'.node[i], a, t)
      BY DEF Slots
    <3>2. QED
      BY <1>1, <1>3, <2>1, <3>1 DEF Slots, f
  <2>2. r \in Slots(a, t)' => Of(ubuf[c], a, t)
    BY <1>1, <1>3 DEF Slots
  <2>3. /\ Balanced(a, t) /\ InBuffers(a, t) \in Nat /\ InRing(a, t) \in Nat
        /\ Relayed(a, t) \in Nat /\ InList(a, t) \in Nat
        /\ Received(a, t) \in Nat /\ Sending(a, t) \in {0, 1}
    BY FiniteCounts DEF Accounted
  <2>4. /\ Sending(a, t)' = Sending(a, t) /\ Received(a, t)' = Received(a, t)
        /\ InList(a, t)' = InList(a, t) /\ Relayed(a, t)' = Relayed(a, t)
    BY <1>2, Frames
  <2>5. Buffers(a, t)' \subseteq Buffers(a, t) \ {c}
    BY <1>2 DEF Buffers
  <2>6. CASE Of(ubuf[c], a, t)
    <3>1. c \in Buffers(a, t)
      BY <1>2, <2>6 DEF Buffers
    <3>2. InBuffers(a, t)' \in Nat /\ InBuffers(a, t)' + 1 <= InBuffers(a, t)
      BY <2>5, <3>1, BuffersChange
    <3>3. Slots(a, t)' \subseteq Slots(a, t) \cup {r}
      BY <2>1
    <3>4. InRing(a, t)' \in Nat /\ InRing(a, t)' <= InRing(a, t) + 1
      BY <3>3, SlotsChange
    <3>5. QED
      BY <2>3, <2>4, <3>2, <3>4 DEF Balanced
  <2>7. CASE ~Of(ubuf[c], a, t)
    <3>1. Buffers(a, t)' \subseteq Buffers(a, t)
      BY <2>5
    <3>2. InBuffers(a, t)' \in Nat /\ InBuffers(a, t)' <= InBuffers(a, t)
      BY <3>1, BuffersChange
    <3>3. Slots(a, t)' \subseteq Slots(a, t)
      BY <2>1, <2>2, <2>7
    <3>4. InRing(a, t)' \in Nat /\ InRing(a, t)' <= InRing(a, t)
      BY <3>3, SlotsChange
    <3>5. QED
      BY <2>3, <2>4, <3>2, <3>4 DEF Balanced
  <2>8. QED
    BY <2>6, <2>7
<1>5. QED
  BY <1>2, <1>4 DEF Accounted

\* A datagram moves from the ring to the sender; the payload that is wiped
\* belongs to nobody any more.
LEMMA TakeBalanced ==
  ASSUME IInv, Accounted, TakeUp
  PROVE  Accounted'
<1> DEFINE f == Succ(edq.front)
           g == edq.front
           wiped == IF edq.rear = f THEN NoSlot
                    ELSE [edq.node[edq.rear] EXCEPT !.buf = Zeros]
           node == [i \in Slot |-> IF i = edq.rear THEN wiped
                                   ELSE IF i = f THEN NoSlot ELSE edq.node[i]]
<1>1. /\ f \in Slot /\ edq.rear \in Slot
      /\ spc = "out" /\ spc' = "send" /\ sbuf' = edq.node[f]
      /\ edq' = [front |-> f, rear |-> edq.rear, node |-> node]
      /\ Waiting' = Waiting - 1 /\ Waiting \in 1 .. N
      /\ Pos(g, f) = 1
      /\ \A i \in Slot : /\ Pos(g, i) \in 1 .. N
                         /\ Pos(f, i) = IF i = f THEN N ELSE Pos(g, i) - 1
  BY TakePositions
<1>2. UNCHANGED <<toSend, upc, ubuf, idList, relayed>>
  BY DEF TakeUp, history
<1>3. edq'.front = f /\ edq'.node = node
  BY <1>1
<1>4. edq.node[edq.rear] \in Item
  BY <1>1 DEF IInv, EdqTypes, RingOf
<1>5. wiped.buf.token = 0
  BY <1>4 DEF NoSlot, Zeros, Item
<1> HIDE DEF f, wiped, g
<1>6. ASSUME NEW a \in Addr, NEW t \in Tokens \ {0}
      PROVE  Balanced(a, t)'
  <2>1. ASSUME NEW i \in Slots(a, t)'
        PROVE  i \in Slots(a, t) \ {f}
    <3>1. i \in Slot /\ Pos(f, i) <= Waiting' /\ Of(node[i], a, t)
      BY <1>3 DEF Slots
    <3>2. i # f /\ Pos(g, i) <= Waiting
      BY <1>1, <3>1, NAssumption
    <3>3. node[i] = edq.node[i]
      BY <1>5, <3>1, <3>2 DEF Of
    <3>4. QED
      BY <3>1, <3>2, <3>3 DEF Slots, g
  <2>2. Slots(a, t)' \subseteq Slots(a, t) \ {f}
    BY <2>1
  <2>3. /\ Balanced(a, t) /\ InBuffers(a, t) \in Nat /\ InRing(a, t) \in Nat
        /\ Relayed(a, t) \in Nat /\ InList(a, t) \in Nat
        /\ Received(a, t) \in Nat
    BY FiniteCounts DEF Accounted
  <2>4. /\ InBuffers(a, t)' = InBuffers(a, t) /\ Received(a, t)' = Received(a, t)
        /\ InList(a, t)' = InList(a, t) /\ Relayed(a, t)' = Relayed(a, t)
    BY <1>2, Frames
  <2>5. Sending(a, t) = 0
    BY <1>1 DEF Sending
  <2>6. CASE Of(edq.node[f], a, t)
    <3>1. f \in Slots(a, t)
      BY <1>1, <2>6 DEF Slots, g
    <3>2. InRing(a, t)' \in Nat /\ InRing(a, t)' + 1 <= InRing(a, t)
      BY <2>2, <3>1, SlotsChange
    <3>3. Sending(a, t)' = 1
      BY <1>1, <2>6 DEF Sending, Of
    <3>4. QED
      BY <2>3, <2>4, <2>5, <3>2, <3>3 DEF Balanced
  <2>7. CASE ~Of(edq.node[f], a, t)
    <3>1. Slots(a, t)' \subseteq Slots(a, t)
      BY <2>2
    <3>2. InRing(a, t)' \in Nat /\ InRing(a, t)' <= InRing(a, t)
      BY <3>1, SlotsChange
    <3>3. Sending(a, t)' = 0
      BY <1>1, <2>7 DEF Sending, Of
    <3>4. QED
      BY <2>3, <2>4, <2>5, <3>2, <3>3 DEF Balanced
  <2>8. QED
    BY <2>6, <2>7
<1>7. QED
  BY <1>2, <1>6 DEF Accounted

\* Testing the ring and sending leave a datagram where it is.
LEMMA SendBalanced ==
  ASSUME IInv, Accounted, PollUp \/ SendToServer
  PROVE  Accounted'
<1>1. /\ UNCHANGED <<toSend, upc, ubuf, edq, sbuf, idList, relayed>>
      /\ \/ spc = "poll" /\ spc' = "out" /\ edq.front # edq.rear
         \/ spc = "send" /\ spc' = "mark"
  BY DEF PollUp, SendToServer, RingEmpty, IsEmpty, history
<1>2. Waiting' = Waiting
  BY <1>1 DEF Waiting
<1>3. ASSUME NEW a \in Addr, NEW t \in Tokens \ {0}
      PROVE  Balanced(a, t)'
  <2>1. InRing(a, t)' = InRing(a, t) /\ Sending(a, t)' = Sending(a, t)
    BY <1>1, <1>2 DEF InRing, Slots, Sending
  <2>2. /\ InBuffers(a, t)' = InBuffers(a, t) /\ Received(a, t)' = Received(a, t)
        /\ InList(a, t)' = InList(a, t) /\ Relayed(a, t)' = Relayed(a, t)
    BY <1>1, Frames
  <2>3. QED
    BY <2>1, <2>2 DEF Balanced, Accounted
<1>4. QED
  BY <1>1, <1>3 DEF Accounted

\* A datagram that has been sent moves to the list.
LEMMA MarkBalanced ==
  ASSUME IInv, Accounted, MarkIdInfo
  PROVE  Accounted'
<1> DEFINE e == [token |-> sbuf.buf.token, fd |-> sbuf.fd, addr |-> sbuf.addr]
<1>1. e \in OwnEntry /\ idList' = <<e>> \o idList /\ idList \in Seq(OwnEntry)
  BY MarkedEntry DEF IInv, ListTypes
<1>2. /\ UNCHANGED <<toSend, upc, ubuf, edq, relayed>>
      /\ spc = "mark" /\ spc' = "poll"
  BY DEF MarkIdInfo, history
<1>3. Waiting' = Waiting
  BY <1>2 DEF Waiting
<1>4. ASSUME NEW a \in Addr, NEW t \in Tokens \ {0}
      PROVE  Balanced(a, t)'
  <2>1. InRing(a, t)' = InRing(a, t)
    BY <1>2, <1>3 DEF InRing, Slots
  <2>2. /\ InBuffers(a, t)' = InBuffers(a, t) /\ Received(a, t)' = Received(a, t)
        /\ Relayed(a, t)' = Relayed(a, t)
    BY <1>2, Frames
  <2>3. /\ Balanced(a, t) /\ InBuffers(a, t) \in Nat /\ InRing(a, t) \in Nat
        /\ Relayed(a, t) \in Nat /\ InList(a, t) \in Nat
        /\ Received(a, t) \in Nat
    BY FiniteCounts DEF Accounted
  <2>4. Sending(a, t)' = 0
    BY <1>2 DEF Sending
  <2>5. InList(a, t)' = Cardinality(Matching(<<e>> \o idList, a, t))
    BY <1>1 DEF InList
  <2>6. InList(a, t)' \in Nat
    <3>1. idList' \in Seq(OwnEntry)
      BY ListStep DEF Next, ListTypes
    <3>2. QED
      BY <1>1, <2>5, <3>1, MatchingFinite
  <2>7. CASE Of(sbuf, a, t)
    <3>1. Sending(a, t) = 1
      BY <1>2, <2>7 DEF Sending
    <3>2. InList(a, t)' <= InList(a, t) + 1
      BY <1>1, <2>5, MatchingCons DEF InList
    <3>3. QED
      BY <2>1, <2>2, <2>3, <2>4, <2>6, <3>1, <3>2 DEF Balanced
  <2>8. CASE ~Of(sbuf, a, t)
    <3>1. Sending(a, t) = 0
      BY <2>8 DEF Sending
    <3>2. ~(e.addr = a /\ e.token = t)
      BY <2>8 DEF Of
    <3> HIDE DEF e
    <3>3. InList(a, t)' <= InList(a, t)
      BY <1>1, <2>5, <3>2, MatchingCons DEF InList
    <3>4. QED
      BY <2>1, <2>2, <2>3, <2>4, <2>6, <3>1, <3>3 DEF Balanced
  <2>9. QED
    BY <2>7, <2>8
<1>5. QED
  BY <1>2, <1>4 DEF Accounted

\* An acknowledgement goes to the entry it takes from the list.
LEMMA RouteBalanced ==
  ASSUME IInv, Accounted, RouteAck
  PROVE  Accounted'
<1> DEFINE k == Find(pbuf.token)
           b == idList[k].addr
           p == pbuf.token
<1>1. /\ k \in 1 .. Len(idList) /\ idList \in Seq(OwnEntry)
      /\ idList[k] \in OwnEntry /\ idList[k].token = p
      /\ idList' = RemoveAt(idList, k)
  BY FindInList DEF RouteAck, IInv, ListTypes
<1>2. /\ UNCHANGED <<toSend, upc, ubuf, edq, spc, sbuf>>
      /\ \/ relayed' = relayed
         \/ relayed' = [relayed EXCEPT ![<<b, p>>] = @ + 1]
  BY DEF RouteAck, uplink, SendTo
<1>3. relayed \in [Addr \X Tokens -> Nat]
  BY DEF IInv, HistTypes
<1> HIDE DEF k
<1>4. ASSUME NEW a \in Addr, NEW t \in Tokens \ {0}
      PROVE  Balanced(a, t)'
  <2>1. /\ InBuffers(a, t)' = InBuffers(a, t) /\ Received(a, t)' = Received(a, t)
        /\ InRing(a, t)' = InRing(a, t) /\ Sending(a, t)' = Sending(a, t)
    BY <1>2, Frames
  <2>2. /\ Balanced(a, t) /\ InBuffers(a, t) \in Nat /\ InRing(a, t) \in Nat
        /\ Relayed(a, t) \in Nat /\ InList(a, t) \in Nat
        /\ Received(a, t) \in Nat /\ Sending(a, t) \in {0, 1}
    BY FiniteCounts DEF Accounted
  <2>3. InList(a, t)' = Cardinality(Matching(RemoveAt(idList, k), a, t))
    BY <1>1 DEF InList
  <2>4. InList(a, t)' \in Nat /\ InList(a, t)' <= InList(a, t)
    <3>1. RemoveAt(idList, k) \in Seq(OwnEntry)
      BY <1>1, ListStep DEF Next, ListTypes
    <3>2. InList(a, t)' \in Nat
      BY <2>3, <3>1, MatchingFinite
    <3>3. InList(a, t)' <= InList(a, t)
      BY <1>1, <2>3, MatchingRemove DEF InList
    <3>4. QED
      BY <3>2, <3>3
  <2>5. CASE b = a /\ p = t
    <3>1. InList(a, t)' + 1 <= InList(a, t)
      BY <1>1, <2>3, <2>5, MatchingRemove DEF InList
    <3>2. Relayed(a, t)' \in {Relayed(a, t), Relayed(a, t) + 1}
      BY <1>2, <1>3, <2>5 DEF Relayed
    <3>3. QED
      BY <2>1, <2>2, <2>4, <3>1, <3>2 DEF Balanced
  <2>6. CASE ~(b = a /\ p = t)
    <3>1. <<a, t>> # <<b, p>>
      BY <2>6
    <3>2. Relayed(a, t)' = Relayed(a, t)
      BY <1>2, <1>3, <3>1 DEF Relayed
    <3>3. QED
      BY <2>1, <2>2, <2>4, <3>2 DEF Balanced
  <2>7. QED
    BY <2>5, <2>6
<1>5. QED
  BY <1>2, <1>4 DEF Accounted

\* Every step keeps the accounts.
LEMMA AccountedStep ==
  ASSUME IInv, Accounted, [Next]_vars
  PROVE  Accounted'
<1>1. CASE UNCHANGED <<uplink, idList, relayed>>
  <2>1. UNCHANGED <<toSend, upc, ubuf, edq, spc, sbuf, idList, relayed>>
    BY <1>1 DEF uplink
  <2>2. ASSUME NEW a \in Addr, NEW t \in Tokens \ {0}
        PROVE  Balanced(a, t)'
    BY <2>1, Frames DEF Balanced, Accounted
  <2>3. QED
    BY <2>1, <2>2 DEF Accounted
<1>2. CASE RoutePullResp \/ RouteOther
  <2>1. UNCHANGED <<uplink, idList, relayed>>
    BY <1>2 DEF RoutePullResp, RouteOther, SendTo
  <2>2. QED
    BY <1>1, <2>1
<1>3. QED
  BY <1>1, <1>2, RecvBalanced, CheckBalanced, PutBalanced, TakeBalanced, SendBalanced,
     MarkBalanced, RouteBalanced
  DEF Next, RecvDown, CheckDown, PutDown, PollDown, TakeDown, DropPullResp, DropAck,
      Idle, vars, history

\* At first nothing has been received.
LEMMA AccountedInit == Init => Accounted
<1> SUFFICES ASSUME Init PROVE Accounted
  OBVIOUS
<1>1. UpMsgs \ toSend = {}
  BY DEF Init
<1>2. IInv
  BY InitInv
<1>3. ASSUME NEW a \in Addr, NEW t \in Tokens \ {0}
      PROVE  Balanced(a, t)
  <2>1. Received(a, t) = 0
    <3>1. Received(a, t) = Cardinality({})
      BY <1>1 DEF Received
    <3>2. QED
      BY <3>1, FS_EmptySet
  <2>2. Buffers(a, t) = {} /\ Slots(a, t) = {} /\ Matching(idList, a, t) = {}
    <3>1. Waiting = 0
      BY DEF Init, EmptyRing, Waiting
    <3>2. \A i \in Slot : Pos(edq.front, i) \in 1 .. N
      BY <1>2, PosBasics DEF IInv, EdqTypes, RingOf
    <3>3. Slots(a, t) = {}
      BY <3>1, <3>2, NAssumption DEF Slots
    <3>4. QED
      BY <3>3 DEF Init, Buffers, Matching
  <2>3. InBuffers(a, t) = 0 /\ InRing(a, t) = 0 /\ InList(a, t) = 0
    BY <2>2, FS_EmptySet DEF InBuffers, InRing, InList
  <2>4. Sending(a, t) = 0 /\ Relayed(a, t) = 0
    BY DEF Init, Sending, Relayed
  <2>5. QED
    BY <2>1, <2>3, <2>4 DEF Balanced
<1>4. QED
  BY <1>1, <1>3, FS_EmptySet DEF Accounted

\* Acknowledgements reach only those who have sent a datagram with the token,
\* once for each, whatever the server answers and whatever the rings lose.
THEOREM AcksReachSenders == Spec => []AckReachesASender
<1>1. ASSUME IInv, Accounted
      PROVE  AckReachesASender
  <2>1. ASSUME NEW a \in Addr, NEW t \in Tokens \ {0}
        PROVE  relayed[a, t] <= Received(a, t)
    <3>1. /\ Balanced(a, t) /\ InBuffers(a, t) \in Nat /\ InRing(a, t) \in Nat
          /\ Relayed(a, t) \in Nat /\ InList(a, t) \in Nat
          /\ Received(a, t) \in Nat /\ Sending(a, t) \in {0, 1}
      BY <1>1, FiniteCounts DEF Accounted
    <3>2. Relayed(a, t) <= Received(a, t)
      BY <3>1 DEF Balanced
    <3>3. QED
      BY <3>2 DEF Relayed
  <2>2. QED
    BY <2>1 DEF AckReachesASender
<1>2. QED
  BY <1>1, Invariant, AccountedInit, AccountedStep, PTL DEF Spec
-----------------------------------------------------------------------------
(* Why acknowledgements are dropped *)

\* The entries that wait for an acknowledgement of t, and the packet with that
\* token that has been sent and is not yet remembered.
Waits(s, t) == {k \in 1 .. Len(s) : s[k].token = t}
Listed(t) == Cardinality(Waits(idList, t))
Marking(t) == IF spc = "mark" /\ sbuf.buf.token = t THEN 1 ELSE 0

\* Every packet sent is in one of three places: answered, in the list, or with
\* the thread that is about to put it there.
Settled == \A t \in Tokens : sent[t] = Answered(t) + Listed(t) + Marking(t)

\* The entries that wait are finitely many.
LEMMA WaitsFinite ==
  ASSUME NEW s \in Seq(OwnEntry), NEW t
  PROVE  IsFiniteSet(Waits(s, t)) /\ Cardinality(Waits(s, t)) \in Nat
<1>1. 1 \in Int /\ Len(s) \in Int
  OBVIOUS
<1>2. IsFiniteSet(1 .. Len(s)) /\ Waits(s, t) \in SUBSET (1 .. Len(s))
  BY <1>1, FS_Interval DEF Waits
<1>3. QED
  BY <1>2, FS_Subset, FS_CardinalityType

\* An entry put into the list, at any place, is counted for its token only.
LEMMA WaitsInserted ==
  ASSUME NEW u \in Seq(OwnEntry), NEW s \in Seq(OwnEntry), NEW j,
         IsInserted(u, s, j), NEW t
  PROVE  Cardinality(Waits(s, t)) =
           Cardinality(Waits(u, t)) + (IF s[j].token = t THEN 1 ELSE 0)
<1> DEFINE A == Waits(u, t)
           B == Waits(s, t)
           f == [i \in A |-> IF i < j THEN i ELSE i + 1]
<1>1. /\ Len(u) \in Nat /\ j \in 1 .. Len(s) /\ Len(s) = Len(u) + 1
      /\ \A i \in 1 .. Len(u) : u[i] = s[IF i < j THEN i ELSE i + 1]
  BY LenProperties DEF IsInserted
<1>2. IsFiniteSet(A) /\ Cardinality(A) \in Nat
  BY WaitsFinite
<1>3. ASSUME NEW i \in A
      PROVE  f[i] \in B \ {j}
  <2>1. i \in 1 .. Len(u) /\ u[i].token = t
    BY DEF Waits
  <2>2. f[i] = IF i < j THEN i ELSE i + 1
    OBVIOUS
  <2> HIDE DEF f
  <2>3. f[i] \in 1 .. Len(s) /\ f[i] # j /\ s[f[i]] = u[i]
    BY <1>1, <2>1, <2>2
  <2>4. QED
    BY <2>1, <2>3 DEF Waits
<1>4. \A i, k \in A : f[i] = f[k] => i = k
  BY <1>1 DEF Waits
<1>5. \A b \in B \ {j} : \E i \in A : f[i] = b
  <2> SUFFICES ASSUME NEW b \in B \ {j}
               PROVE  \E i \in A : f[i] = b
    OBVIOUS
  <2> DEFINE i == IF b < j THEN b ELSE b - 1
  <2>1. i \in 1 .. Len(u) /\ (IF i < j THEN i ELSE i + 1) = b
    BY <1>1 DEF Waits
  <2>2. u[i] = s[b]
    BY <1>1, <2>1
  <2>3. i \in A
    BY <2>1, <2>2 DEF Waits
  <2> HIDE DEF i
  <2>4. f[i] = b
    BY <2>1, <2>3
  <2>5. QED
    BY <2>3, <2>4
<1>6. f \in [A -> B \ {j}]
  BY <1>3
<1>7. s[j].token = t => j \in B
  BY <1>1 DEF Waits
<1>8. s[j].token # t => j \notin B
  BY DEF Waits
<1>9. Cardinality(Waits(u, t)) = Cardinality(A) /\ Cardinality(Waits(s, t)) = Cardinality(B)
  OBVIOUS
<1> HIDE DEF f, A, B
<1>10. f \in Bijection(A, B \ {j})
  BY <1>4, <1>5, <1>6 DEF Bijection, Injection, Surjection, IsInjective
<1>11. IsFiniteSet(B \ {j}) /\ Cardinality(B \ {j}) = Cardinality(A)
  BY <1>2, <1>10, FS_Bijection DEF ExistsBijection
<1>12. CASE s[j].token = t
  <2>1. B = (B \ {j}) \cup {j} /\ j \notin B \ {j}
    BY <1>7, <1>12
  <2>2. Cardinality(B) = Cardinality(B \ {j}) + 1
    BY <1>11, <2>1, FS_AddElement
  <2>3. QED
    BY <1>9, <1>2, <1>11, <1>12, <2>2
<1>13. CASE s[j].token # t
  <2>1. B \ {j} = B
    BY <1>8, <1>13
  <2>2. Cardinality(B) = Cardinality(A)
    BY <1>11, <2>1
  <2>3. (IF s[j].token = t THEN 1 ELSE 0) = 0
    BY <1>13
  <2>4. QED
    BY <1>9, <1>2, <2>2, <2>3
<1>14. QED
  BY <1>12, <1>13

\* A list with one entry more at its head.
LEMMA ConsInserted ==
  ASSUME NEW s \in Seq(OwnEntry), NEW e \in OwnEntry
  PROVE  /\ <<e>> \o s \in Seq(OwnEntry) /\ IsInserted(s, <<e>> \o s, 1)
         /\ (<<e>> \o s)[1] = e
<1> DEFINE u == <<e>> \o s
<1>1. /\ u \in Seq(OwnEntry) /\ Len(u) = Len(s) + 1 /\ Len(s) \in Nat
      /\ u[1] = e /\ \A k \in 2 .. Len(u) : u[k] = s[k - 1]
  BY ConcatProperties
<1> HIDE DEF u
<1>2. ASSUME NEW k \in 1 .. Len(s)
      PROVE  s[k] = IF k < 1 THEN u[k] ELSE u[k + 1]
  <2>1. k + 1 \in 2 .. Len(u) /\ (k + 1) - 1 = k /\ ~(k < 1)
    BY <1>1
  <2>2. u[k + 1] = s[(k + 1) - 1]
    BY <1>1, <2>1
  <2>3. QED
    BY <2>1, <2>2
<1>3. IsInserted(s, u, 1)
  BY <1>1, <1>2 DEF IsInserted
<1>4. QED
  BY <1>1, <1>3 DEF u

\* The four addresses of forwarders.
LEMMA AddrFacts ==
  /\ Addr = {<<0, "push">>, <<0, "pull">>, <<1, "push">>, <<1, "pull">>}
  /\ <<0, "push">> # <<0, "pull">> /\ <<1, "push">> # <<1, "pull">>
  /\ \A n, m \in {"push", "pull"} : <<0, n>> # <<1, m>>
BY DEF Addr, Conc

\* Each count is a number.
LEMMA SettledTypes ==
  ASSUME IInv, NEW t \in Tokens
  PROVE  /\ Answered(t) \in Nat /\ Listed(t) \in Nat /\ Marking(t) \in {0, 1}
         /\ sent[t] \in Nat
<1>1. relayed \in [Addr \X Tokens -> Nat] /\ sent \in [Tokens -> Nat]
  BY DEF IInv, HistTypes
<1>2. Answered(t) \in Nat
  <2> DEFINE r(b) == relayed[<<b, t>>]
  <2>1. Answered(t) = r(<<0, "push">>) + r(<<0, "pull">>)
                      + r(<<1, "push">>) + r(<<1, "pull">>)
    BY DEF Answered
  <2>2. \A b \in Addr : r(b) \in Nat
    BY <1>1
  <2> HIDE DEF r
  <2>3. QED
    BY <2>1, <2>2, AddrFacts
<1>3. Listed(t) \in Nat
  BY WaitsFinite DEF Listed, IInv, ListTypes
<1>4. QED
  BY <1>1, <1>2, <1>3 DEF Marking

\* An acknowledgement relayed is one answer more to its token only.
LEMMA AnsweredMore ==
  ASSUME HistTypes, NEW a \in Addr, NEW p \in Tokens, NEW t \in Tokens,
         relayed' = [relayed EXCEPT ![<<a, p>>] = @ + 1]
  PROVE  Answered(t)' = Answered(t) + (IF t = p THEN 1 ELSE 0)
<1> DEFINE r(b) == relayed[<<b, t>>]
           n(b) == IF b = a /\ t = p THEN 1 ELSE 0
<1>1. ASSUME NEW b \in Addr
      PROVE  r(b) \in Nat /\ r(b)' = r(b) + n(b)
  <2>1. <<b, t>> \in Addr \X Tokens /\ <<a, p>> \in Addr \X Tokens
    OBVIOUS
  <2>2. relayed[<<b, t>>] \in Nat /\ relayed[<<a, p>>] \in Nat
    BY <2>1 DEF HistTypes
  <2>3. relayed'[<<b, t>>] = IF <<b, t>> = <<a, p>> THEN relayed[<<b, t>>] + 1
                             ELSE relayed[<<b, t>>]
    BY <2>1 DEF HistTypes
  <2>4. QED
    BY <2>2, <2>3
<1>2. /\ Answered(t) = r(<<0, "push">>) + r(<<0, "pull">>)
                       + r(<<1, "push">>) + r(<<1, "pull">>)
      /\ Answered(t)' = r(<<0, "push">>)' + r(<<0, "pull">>)'
                        + r(<<1, "push">>)' + r(<<1, "pull">>)'
  BY DEF Answered
<1>3. n(<<0, "push">>) + n(<<0, "pull">>) + n(<<1, "push">>) + n(<<1, "pull">>)
        = IF t = p THEN 1 ELSE 0
  BY AddrFacts
<1> HIDE DEF r
<1>4. \A b \in Addr : n(b) \in {0, 1}
  OBVIOUS
<1> HIDE DEF n
<1>5. QED
  BY <1>1, <1>2, <1>3, <1>4, AddrFacts

\* A packet is sent, then remembered.
LEMMA SendSettled ==
  ASSUME IInv, Settled, SendToServer \/ MarkIdInfo
  PROVE  Settled'
<1> SUFFICES ASSUME NEW t \in Tokens
             PROVE  sent'[t] = Answered(t)' + Listed(t)' + Marking(t)'
  BY DEF Settled
<1>1. /\ sent[t] = Answered(t) + Listed(t) + Marking(t)
      /\ Answered(t) \in Nat /\ Listed(t) \in Nat /\ sent[t] \in Nat
  BY SettledTypes DEF Settled
<1>2. relayed' = relayed /\ Answered(t)' = Answered(t)
  BY DEF SendToServer, MarkIdInfo, history, Answered
<1>3. CASE SendToServer
  <2>1. /\ spc = "send" /\ spc' = "mark" /\ sbuf' = sbuf /\ idList' = idList
        /\ sent' = [sent EXCEPT ![sbuf.buf.token] = @ + 1]
        /\ sent \in [Tokens -> Nat]
    BY <1>3 DEF SendToServer, downlink, IInv, HistTypes
  <2>2. Listed(t)' = Listed(t) /\ Marking(t) = 0
    BY <2>1 DEF Listed, Marking
  <2>3. Marking(t)' = IF sbuf.buf.token = t THEN 1 ELSE 0
    BY <2>1 DEF Marking
  <2>4. sent'[t] = sent[t] + (IF sbuf.buf.token = t THEN 1 ELSE 0)
    BY <2>1
  <2>5. QED
    BY <1>1, <1>2, <2>2, <2>3, <2>4
<1>4. CASE MarkIdInfo
  <2> DEFINE e == [token |-> sbuf.buf.token, fd |-> sbuf.fd, addr |-> sbuf.addr]
  <2>1. e \in OwnEntry /\ idList' = <<e>> \o idList /\ idList \in Seq(OwnEntry)
    BY <1>4, MarkedEntry DEF IInv, ListTypes
  <2>2. e.token = sbuf.buf.token
    OBVIOUS
  <2>3. spc = "mark" /\ spc' = "poll" /\ sent' = sent
    BY <1>4 DEF MarkIdInfo, history
  <2> HIDE DEF e
  <2>4. Listed(t)' = Listed(t) + (IF e.token = t THEN 1 ELSE 0)
    <3> DEFINE u == <<e>> \o idList
    <3>1. u \in Seq(OwnEntry) /\ IsInserted(idList, u, 1) /\ u[1] = e
      BY <2>1, ConsInserted
    <3>2. Listed(t)' = Cardinality(Waits(u, t))
      BY <2>1 DEF Listed
    <3> HIDE DEF u
    <3>3. QED
      BY <2>1, <3>1, <3>2, WaitsInserted DEF Listed
  <2>5. Marking(t) = (IF e.token = t THEN 1 ELSE 0) /\ Marking(t)' = 0
    BY <2>2, <2>3 DEF Marking
  <2>6. QED
    BY <1>1, <1>2, <2>3, <2>4, <2>5
<1>5. QED
  BY <1>3, <1>4

\* An entry leaves the list when its acknowledgement is relayed.
LEMMA RouteSettled ==
  ASSUME IInv, Settled, RouteAck
  PROVE  Settled'
<1> SUFFICES ASSUME NEW t \in Tokens
             PROVE  sent'[t] = Answered(t)' + Listed(t)' + Marking(t)'
  BY DEF Settled
<1> DEFINE k == Find(pbuf.token)
           p == pbuf.token
<1>1. /\ sent[t] = Answered(t) + Listed(t) + Marking(t)
      /\ Answered(t) \in Nat /\ Listed(t) \in Nat /\ sent[t] \in Nat
      /\ Marking(t) \in {0, 1}
  BY SettledTypes DEF Settled
<1>2. /\ k \in 1 .. Len(idList) /\ idList \in Seq(OwnEntry)
      /\ idList[k] \in OwnEntry /\ idList[k].token = p
      /\ idList' = RemoveAt(idList, k)
  BY FindInList DEF RouteAck, IInv, ListTypes
<1>3. idList[k].addr \in Addr /\ p \in Tokens
  BY <1>2, PayloadFacts DEF OwnEntry, Entry, IInv, SerqTypes
<1>4. dest'.addr = idList[k].addr /\ dest'.addr # NoAddr
  BY <1>3 DEF RouteAck, NoAddr, Addr
<1>5. relayed' = [relayed EXCEPT ![<<idList[k].addr, p>>] = @ + 1]
  BY <1>4 DEF RouteAck, SendTo
<1>6. sent' = sent /\ Marking(t)' = Marking(t)
  BY DEF RouteAck, uplink, Marking
<1> HIDE DEF k
<1>7. Answered(t)' = Answered(t) + (IF t = p THEN 1 ELSE 0)
  BY <1>3, <1>5, AnsweredMore DEF IInv
<1>8. Listed(t) = Listed(t)' + (IF p = t THEN 1 ELSE 0) /\ Listed(t)' \in Nat
  <2>1. /\ RemoveAt(idList, k) \in Seq(OwnEntry)
        /\ IsInserted(RemoveAt(idList, k), idList, k)
    BY <1>2, RemoveAtFacts
  <2>2. Cardinality(Waits(idList, t)) =
          Cardinality(Waits(RemoveAt(idList, k), t)) + (IF p = t THEN 1 ELSE 0)
    BY <1>2, <2>1, WaitsInserted
  <2>3. QED
    BY <1>2, <2>1, <2>2, WaitsFinite DEF Listed
<1>9. QED
  BY <1>1, <1>6, <1>7, <1>8

\* Every step keeps the packets sent in these three places.
LEMMA SettledStep ==
  ASSUME IInv, Settled, [Next]_vars
  PROVE  Settled'
<1>1. CASE /\ UNCHANGED <<sent, relayed, idList>>
           /\ \/ UNCHANGED <<spc, sbuf>>
              \/ spc # "mark" /\ spc' # "mark"
  <2>1. ASSUME NEW t \in Tokens
        PROVE  /\ Answered(t)' = Answered(t) /\ Listed(t)' = Listed(t)
               /\ Marking(t)' = Marking(t)
    BY <1>1 DEF Answered, Listed, Marking
  <2>2. QED
    BY <1>1, <2>1 DEF Settled
<1>2. CASE PollUp \/ TakeUp
  BY <1>1, <1>2 DEF PollUp, TakeUp, history
<1>3. CASE RoutePullResp \/ RouteOther
  BY <1>1, <1>3 DEF RoutePullResp, RouteOther, SendTo, uplink
<1>4. CASE UNCHANGED <<spc, sbuf, idList, history>>
  BY <1>1, <1>4 DEF history
<1>5. QED
  BY <1>2, <1>3, <1>4, SendSettled, RouteSettled
  DEF Next, RecvUp, CheckUp, PutUp, RecvDown, CheckDown, PutDown, PollDown, TakeDown,
      DropPullResp, DropAck, Idle, uplink, vars

\* An acknowledgement for which no entry is found answers a packet that is about
\* to be remembered, or every packet with its token has been answered before:
\* the list never loses an entry, however many packets share a token.
THEOREM AckDropsExplained == Spec => AckDropExplained
<1> DEFINE Explained ==
             \A t \in Tokens : (DropAck /\ pbuf.token = t) =>
               \/ Answered(t) = sent[t]
               \/ spc = "mark" /\ sbuf.buf.token = t
<1>1. Init => Settled
  <2> SUFFICES ASSUME Init, NEW t \in Tokens
               PROVE  sent[t] = Answered(t) + Listed(t) + Marking(t)
    BY DEF Settled
  <2>1. Waits(idList, t) = {}
    BY DEF Init, Waits
  <2>2. sent[t] = 0 /\ Marking(t) = 0 /\ \A b \in Addr : relayed[<<b, t>>] = 0
    BY DEF Init, Marking
  <2>3. Answered(t) = 0
    <3> DEFINE r(b) == relayed[<<b, t>>]
    <3>1. Answered(t) = r(<<0, "push">>) + r(<<0, "pull">>)
                        + r(<<1, "push">>) + r(<<1, "pull">>)
      BY DEF Answered
    <3>2. \A b \in Addr : r(b) = 0
      BY <2>2
    <3> HIDE DEF r
    <3>3. QED
      BY <3>1, <3>2, AddrFacts
  <2>4. QED
    BY <2>1, <2>2, <2>3, FS_EmptySet DEF Listed
<1>2. IInv /\ Settled => Explained
  <2> SUFFICES ASSUME IInv, Settled, NEW t \in Tokens, DropAck, pbuf.token = t
               PROVE  \/ Answered(t) = sent[t]
                      \/ spc = "mark" /\ sbuf.buf.token = t
    OBVIOUS
  <2>1. Waits(idList, t) = {}
    BY FindNothing DEF DropAck, IInv, Waits
  <2>2. Listed(t) = 0
    BY <2>1, FS_EmptySet DEF Listed
  <2>3. /\ sent[t] = Answered(t) + Listed(t) + Marking(t)
        /\ Answered(t) \in Nat
    BY SettledTypes DEF Settled
  <2>4. QED
    BY <2>2, <2>3 DEF Marking
<1>3. IInv /\ Settled => [Explained]_vars
  BY <1>2
<1>4. QED
  BY <1>1, <1>3, Invariant, SettledStep, PTL DEF Spec, AckDropExplained
=============================================================================
