-------------------------------- MODULE Relay --------------------------------
(***************************************************************************)
(* The shipment relay as a whole: the two threads that receive from the    *)
(* packet forwarders of the concentrators SX1301_0 and SX1301_1, the       *)
(* uplink ring, the thread that sends to the LoRaWAN server and remembers  *)
(* who is to get the answer, the two threads that receive from the server, *)
(* the downlink ring, and the thread that routes server datagrams back.    *)
(* The main thread of the process is the receiver of SX1301_1.             *)
(*                                                                         *)
(* The rings are those of module PktQue.  Slots that are not waiting are   *)
(* reset to NoSlot here: PktQue shows that their fields are never read     *)
(* (TakesAWholePacket).                                                    *)
(*                                                                         *)
(* External: the forwarders, which send each of the datagrams UpMsgs once  *)
(* in any order, and the server, which may answer what it has received,    *)
(* with any delay, several times or never.                                 *)
(*                                                                         *)
(* Every loop of the relay clears its packet buffer before it reads the    *)
(* next datagram into it; here it is cleared when it has been used.        *)
(***************************************************************************)
EXTENDS Ring, Integers, Sequences, SequencesExt, FiniteSets

CONSTANTS
  UpMsgs,      \* what the forwarders send: records of UpMsg
  Tokens,      \* packet tokens; 0 is the token of a zeroed payload
  RespFreqs,   \* frequencies (kHz) of the server's PULL_RESPs, or NoFreq
  Plan,        \* Plan[c]: sx1301_freq_<c>, uplink channels (kHz) of SX1301_c
  Rx2Freq,     \* CN470_RX_WND_2_FREQ (kHz)
  MaxDown      \* bound of the model: datagrams read from the server

Conc == {0, 1}                      \* SX1301_0 and SX1301_1

\* A forwarder sends PUSH_DATA from one socket, PULL_DATA and TX_ACK from
\* another; its address is the concentrator with the name of the socket.
Addr == Conc \X {"push", "pull"}

UpMsg == [from : Addr, type : {"PUSH_DATA", "PULL_DATA", "TX_ACK", "OTHER"},
          token : Tokens]

\* A PULL_RESP the relay cannot parse, or without "txpk" or "freq".
NoFreq == -1

ASSUME UpMsgsAssumption ==
  /\ UpMsgs \subseteq UpMsg
  /\ \A m \in UpMsgs : m.type = "PUSH_DATA" => m.from[2] = "push"
  /\ \A m \in UpMsgs : m.type # "PUSH_DATA" => m.from[2] = "pull"
ASSUME TokensAssumption == Tokens \subseteq Nat /\ 0 \in Tokens
ASSUME FreqsAssumption ==
  /\ RespFreqs \subseteq Nat \cup {NoFreq}
  /\ Plan \in [Conc -> Seq(Nat)]
  /\ Rx2Freq \in Nat
ASSUME BoundAssumption == MaxDown \in Nat

\* The payload of a datagram: its type and token, or the zeros left by Out.
Zeros == [type |-> "ZEROS", token |-> 0, freq |-> NoFreq]

Ack(type, t) == [type |-> type, token |-> t, freq |-> NoFreq]
PullResp(f) == [type |-> "PULL_RESP", token |-> 0, freq |-> f]

NoAddr == <<0, "none">>             \* a zeroed sockaddr_in
Unset == [fd |-> -1, addr |-> NoAddr]   \* uninitialised l_fd and clientAddr
NoSlot == [fd |-> -1, addr |-> NoAddr, buf |-> Zeros]

VARIABLES
  toSend,      \* the datagrams of UpMsgs not sent yet
  upc, ubuf,   \* upc[c], ubuf[c]: place and datagram of the receiver of SX1301_c
  edq,         \* edUdpPkt_Que
  spc, sbuf,   \* place and packet of ShipM_sendtoLoRaWANSer_thread
  atServer,    \* the payloads the server has received
  idList,      \* the list behind pPktId_que_header, newest first
  rpc, rbuf,   \* rpc[s], rbuf[s]: the receiver of the server's socket s
  nDown,       \* the number of datagrams read from the server
  serq,        \* serJsonPkt_Que
  ppc, pbuf,   \* ShipM_LoRaWANSerpktprocess_thread
  dest, last,  \* its l_fd and clientAddr, and its last_send_sx1301
  clientAddr,  \* clientAddr[c]: clientAddr_0, clientAddr_1
  out,         \* history: what the last sendto to a forwarder sent, and where
  sent,        \* history: sent[t], packets with token t sent to the server
  relayed      \* history: relayed[a, t], acknowledgements of t sent to a

uplink == <<toSend, upc, ubuf, edq, spc, sbuf>>
server == <<atServer, nDown>>
downlink == <<rpc, rbuf, serq, ppc, pbuf, dest, last>>
history == <<out, sent, relayed>>
vars == <<uplink, server, downlink, idList, clientAddr, history>>

-----------------------------------------------------------------------------
(* The rings.  A ring is a record of its indices and its slots. *)

EmptyRing == [front |-> FirstIndex, rear |-> FirstIndex,
              node |-> [i \in Slot |-> NoSlot]]

RingFull(q) == IsFull(q.front, q.rear)
RingEmpty(q) == IsEmpty(q.front, q.rear)

\* The second critical section of In.
RingPut(q, d) ==
  [q EXCEPT !.rear = Succ(q.rear), !.node[Succ(q.rear)] = d]

\* The second critical section of Out hands out this slot ...
RingHead(q) == q.node[Succ(q.front)]

\* ... and wipes the payload of the rear slot.
RingTake(q) ==
  LET f == Succ(q.front)
  IN  [q EXCEPT !.front = f,
                !.node[f] = NoSlot,
                !.node[q.rear] = IF q.rear = f THEN NoSlot
                                 ELSE [@ EXCEPT !.buf = Zeros]]

-----------------------------------------------------------------------------
(* Uplink: ShipM_multiSx1301UdpSer_thread (c = 0) and main (c = 1). *)

\* A datagram of an unknown type ends the receiving function: the thread of
\* SX1301_0, or main and with it the process.
Running == upc[1] # "done"

RecvUp(c) ==
  /\ Running
  /\ upc[c] = "recv"
  /\ \E m \in toSend :
       /\ m.from[1] = c
       /\ toSend' = toSend \ {m}
       /\ IF m.type = "OTHER"
          THEN /\ upc' = [upc EXCEPT ![c] = "done"]
               /\ UNCHANGED <<ubuf, clientAddr>>
          ELSE /\ upc' = [upc EXCEPT ![c] = "check"]
               /\ ubuf' = [ubuf EXCEPT ![c] =
                    [fd |-> c, addr |-> m.from,
                     buf |-> [type |-> m.type, token |-> m.token,
                              freq |-> NoFreq]]]
               /\ clientAddr' = IF m.type = "PULL_DATA"
                                THEN [clientAddr EXCEPT ![c] = m.from]
                                ELSE clientAddr
  /\ UNCHANGED <<edq, spc, sbuf, server, downlink, idList, history>>

\* The IsFull test of Ship_EDUdpPkt_Que_In: a refused datagram is dropped.
CheckUp(c) ==
  /\ Running
  /\ upc[c] = "check"
  /\ upc' = [upc EXCEPT ![c] = IF RingFull(edq) THEN "recv" ELSE "put"]
  /\ ubuf' = [ubuf EXCEPT ![c] = IF RingFull(edq) THEN NoSlot ELSE @]
  /\ UNCHANGED <<toSend, edq, spc, sbuf, server, downlink, idList,
                 clientAddr, history>>

PutUp(c) ==
  /\ Running
  /\ upc[c] = "put"
  /\ edq' = RingPut(edq, ubuf[c])
  /\ ubuf' = [ubuf EXCEPT ![c] = NoSlot]
  /\ upc' = [upc EXCEPT ![c] = "recv"]
  /\ UNCHANGED <<toSend, spc, sbuf, server, downlink, idList,
                 clientAddr, history>>

-----------------------------------------------------------------------------
(* ShipM_sendtoLoRaWANSer_thread: take, send, then mark. *)

PollUp ==
  /\ Running
  /\ spc = "poll"
  /\ ~RingEmpty(edq)
  /\ spc' = "out"
  /\ UNCHANGED <<toSend, upc, ubuf, edq, sbuf, server, downlink, idList,
                 clientAddr, history>>

TakeUp ==
  /\ Running
  /\ spc = "out"
  /\ sbuf' = RingHead(edq)
  /\ edq' = RingTake(edq)
  /\ spc' = "send"
  /\ UNCHANGED <<toSend, upc, ubuf, server, downlink, idList, clientAddr,
                 history>>

\* ShipM_sentto_LoRaWANServer; the server ignores a payload of zeros, whose
\* protocol version is not its own.
SendToServer ==
  /\ Running
  /\ spc = "send"
  /\ atServer' = atServer \cup ({sbuf.buf} \ {Zeros})
  /\ sent' = [sent EXCEPT ![sbuf.buf.token] = @ + 1]
  /\ spc' = "mark"
  /\ UNCHANGED <<toSend, upc, ubuf, edq, sbuf, nDown, downlink, idList,
                 clientAddr, out, relayed>>

\* ShipM_mark_IdInfo and Ship_PktID_Que_In: whatever was sent is remembered,
\* TX_ACKs, which nobody answers, included.
\* Defect: a token that is in the list already is not marked again.
MarkIdInfoOnce ==
  /\ Running
  /\ spc = "mark"
  /\ idList' = IF \E i \in DOMAIN idList : idList[i].token = sbuf.buf.token
               THEN idList
               ELSE Cons([token |-> sbuf.buf.token, fd |-> sbuf.fd,
                          addr |-> sbuf.addr], idList)
  /\ spc' = "poll"
  /\ sbuf' = NoSlot
  /\ UNCHANGED <<toSend, upc, ubuf, edq, server, downlink, clientAddr, history>>

MarkIdInfo ==
  /\ Running
  /\ spc = "mark"
  /\ idList' = Cons([token |-> sbuf.buf.token, fd |-> sbuf.fd,
                     addr |-> sbuf.addr], idList)
  /\ spc' = "poll"
  /\ sbuf' = NoSlot
  /\ UNCHANGED <<toSend, upc, ubuf, edq, server, downlink, clientAddr, history>>

-----------------------------------------------------------------------------
(* Downlink: the receivers of ser_up_fd and ser_down_fd. *)

Sock == {"up", "down"}

\* External: what may arrive on a socket.  Acknowledgements answer what the
\* server has received; it sends PULL_RESPs to whoever has sent a PULL_DATA.
Arrivals(s) ==
  IF s = "up"
  THEN {Ack("PUSH_ACK", m.token) : m \in {x \in atServer : x.type = "PUSH_DATA"}}
  ELSE {Ack("PULL_ACK", m.token) : m \in {x \in atServer : x.type = "PULL_DATA"}}
       \cup {PullResp(f) :
               f \in {g \in RespFreqs :
                        \E x \in atServer : x.type = "PULL_DATA"}}

RecvDown(s) ==
  /\ Running
  /\ rpc[s] = "recv"
  /\ nDown < MaxDown
  /\ \E d \in Arrivals(s) : rbuf' = [rbuf EXCEPT ![s] = d]
  /\ nDown' = nDown + 1
  /\ rpc' = [rpc EXCEPT ![s] = "check"]
  /\ UNCHANGED <<uplink, atServer, serq, ppc, pbuf, dest, last, idList,
                 clientAddr, history>>

CheckDown(s) ==
  /\ Running
  /\ rpc[s] = "check"
  /\ rpc' = [rpc EXCEPT ![s] = IF RingFull(serq) THEN "recv" ELSE "put"]
  /\ rbuf' = [rbuf EXCEPT ![s] = IF RingFull(serq) THEN Zeros ELSE @]
  /\ UNCHANGED <<uplink, server, serq, ppc, pbuf, dest, last, idList,
                 clientAddr, history>>

PutDown(s) ==
  /\ Running
  /\ rpc[s] = "put"
  /\ serq' = RingPut(serq, [NoSlot EXCEPT !.buf = rbuf[s]])
  /\ rbuf' = [rbuf EXCEPT ![s] = Zeros]
  /\ rpc' = [rpc EXCEPT ![s] = "recv"]
  /\ UNCHANGED <<uplink, server, ppc, pbuf, dest, last, idList,
                 clientAddr, history>>

-----------------------------------------------------------------------------
(* ShipM_LoRaWANSerpktprocess_thread. *)

PollDown ==
  /\ Running
  /\ ppc = "poll"
  /\ ~RingEmpty(serq)
  /\ ppc' = "out"
  /\ UNCHANGED <<uplink, server, rpc, rbuf, serq, pbuf, dest, last, idList,
                 clientAddr, history>>

TakeDown ==
  /\ Running
  /\ ppc = "out"
  /\ pbuf' = RingHead(serq).buf
  /\ serq' = RingTake(serq)
  /\ ppc' = "route"
  /\ UNCHANGED <<uplink, server, rpc, rbuf, dest, last, idList, clientAddr,
                 history>>

\* fabs(...) < 0.11 MHz
Near(f, g) == f - g < 110 /\ g - f < 110

\* Defect: only the channels of SX1301_0 are searched.
OwnerOnlyZero(f) ==
  {c \in {0} : \E i \in DOMAIN Plan[c] : Near(30000 + Plan[c][i], f)}

\* get_sx1301_from_floatfreq: the downlink channels lie 30 MHz above the
\* uplink channels.  The first index with a match decides, and SX1301_0
\* before SX1301_1; {} stands for SX1301_BUTT.
Owner(f) ==
  LET Matches(c) == {i \in DOMAIN Plan[c] : Near(30000 + Plan[c][i], f)}
      First(c) == CHOOSE i \in Matches(c) : \A j \in Matches(c) : i <= j
  IN  IF Matches(0) # {} /\ (Matches(1) = {} \/ First(0) <= First(1))
      THEN {0}
      ELSE {c \in {1} : Matches(c) # {}}

\* Defect: the descriptors of the two sockets are swapped.
ToForwarderSwapped(c) == [fd |-> 1 - c, addr |-> clientAddr[c]]

ToForwarder(c) == [fd |-> c, addr |-> clientAddr[c]]

\* The final sendto.  A destination with a zeroed address makes it fail, and
\* so does nothing; descriptor and address garbage reach no forwarder.
SendTo(d) ==
  IF d.addr = NoAddr THEN UNCHANGED <<out, relayed>>
  ELSE /\ out' = <<d, pbuf>>
       /\ relayed' = IF pbuf.type \in {"PUSH_ACK", "PULL_ACK"}
                     THEN [relayed EXCEPT ![<<d.addr, pbuf.token>>] = @ + 1]
                     ELSE relayed

\* A PULL_RESP in the second receive window goes to the concentrator that did
\* NOT get the last one routed by its channel; with no such last one, or with
\* a channel of neither concentrator, to wherever the datagram before went.
RoutePullResp ==
  /\ Running
  /\ ppc = "route"
  /\ pbuf.type = "PULL_RESP"
  /\ pbuf.freq # NoFreq
  /\ IF Near(Rx2Freq, pbuf.freq)
     THEN /\ dest' = IF last \in Conc THEN ToForwarder(1 - last) ELSE dest
          /\ UNCHANGED last
     ELSE IF Owner(pbuf.freq) # {}
          THEN \E c \in Owner(pbuf.freq) : dest' = ToForwarder(c) /\ last' = c
          ELSE UNCHANGED <<dest, last>>
  /\ SendTo(dest')
  /\ ppc' = "poll"
  /\ pbuf' = Zeros
  /\ UNCHANGED <<uplink, server, rpc, rbuf, serq, idList, clientAddr, sent>>

\* A PULL_RESP without a frequency is dropped.
DropPullResp ==
  /\ Running
  /\ ppc = "route"
  /\ pbuf.type = "PULL_RESP"
  /\ pbuf.freq = NoFreq
  /\ ppc' = "poll"
  /\ pbuf' = Zeros
  /\ UNCHANGED <<uplink, server, rpc, rbuf, serq, dest, last, idList,
                 clientAddr, history>>

\* Ship_PktID_Que_Find: the index of the node marked last with the token, or 0.
Find(t) == SelectInSeq(idList, LAMBDA e : e.token = t)

\* Defect: the node found stays in the list.
RouteAckKeepsNode ==
  /\ Running
  /\ ppc = "route"
  /\ pbuf.type \in {"PUSH_ACK", "PULL_ACK"}
  /\ Find(pbuf.token) # 0
  /\ dest' = [fd |-> idList[Find(pbuf.token)].fd,
              addr |-> idList[Find(pbuf.token)].addr]
  /\ SendTo(dest')
  /\ ppc' = "poll"
  /\ pbuf' = Zeros
  /\ UNCHANGED <<uplink, server, rpc, rbuf, serq, last, idList, clientAddr, sent>>

RouteAck ==
  /\ Running
  /\ ppc = "route"
  /\ pbuf.type \in {"PUSH_ACK", "PULL_ACK"}
  /\ Find(pbuf.token) # 0
  /\ dest' = [fd |-> idList[Find(pbuf.token)].fd,
              addr |-> idList[Find(pbuf.token)].addr]
  /\ idList' = RemoveAt(idList, Find(pbuf.token))
  /\ SendTo(dest')
  /\ ppc' = "poll"
  /\ pbuf' = Zeros
  /\ UNCHANGED <<uplink, server, rpc, rbuf, serq, last, clientAddr, sent>>

DropAck ==
  /\ Running
  /\ ppc = "route"
  /\ pbuf.type \in {"PUSH_ACK", "PULL_ACK"}
  /\ Find(pbuf.token) = 0
  /\ ppc' = "poll"
  /\ pbuf' = Zeros
  /\ UNCHANGED <<uplink, server, rpc, rbuf, serq, dest, last, idList,
                 clientAddr, history>>

\* Any other type, a zeroed payload above all: sent to the previous destination.
RouteOther ==
  /\ Running
  /\ ppc = "route"
  /\ pbuf.type = "ZEROS"
  /\ SendTo(dest)
  /\ ppc' = "poll"
  /\ pbuf' = Zeros
  /\ UNCHANGED <<uplink, server, rpc, rbuf, serq, dest, last, idList,
                 clientAddr, sent>>

-----------------------------------------------------------------------------
Init ==
  /\ toSend = UpMsgs
  /\ upc = [c \in Conc |-> "recv"]
  /\ ubuf = [c \in Conc |-> NoSlot]
  /\ edq = EmptyRing
  /\ spc = "poll"
  /\ sbuf = NoSlot
  /\ atServer = {}
  /\ idList = <<>>
  /\ rpc = [s \in Sock |-> "recv"]
  /\ rbuf = [s \in Sock |-> Zeros]
  /\ nDown = 0
  /\ serq = EmptyRing
  /\ ppc = "poll"
  /\ pbuf = Zeros
  /\ dest = Unset
  /\ last = -1
  /\ clientAddr = [c \in Conc |-> NoAddr]
  /\ out = <<>>
  /\ sent = [t \in Tokens |-> 0]
  /\ relayed = [x \in Addr \X Tokens |-> 0]

\* The polling threads find nothing and sleep, or the process has ended.
Idle ==
  /\ ~Running \/ (spc = "poll" /\ RingEmpty(edq)) \/ (ppc = "poll" /\ RingEmpty(serq))
  /\ UNCHANGED vars

Next ==
  \/ \E c \in Conc : RecvUp(c) \/ CheckUp(c) \/ PutUp(c)
  \/ PollUp \/ TakeUp \/ SendToServer \/ MarkIdInfo
  \/ \E s \in Sock : RecvDown(s) \/ CheckDown(s) \/ PutDown(s)
  \/ PollDown \/ TakeDown
  \/ RoutePullResp \/ DropPullResp \/ RouteAck \/ DropAck \/ RouteOther
  \/ Idle

Spec == Init /\ [][Next]_vars

-----------------------------------------------------------------------------
Payload == {Zeros}
           \cup {Ack(m.type, m.token) : m \in UpMsgs}
           \cup {Ack(type, t) : type \in {"PUSH_ACK", "PULL_ACK"}, t \in Tokens}
           \cup {PullResp(f) : f \in RespFreqs}

Dest == [fd : Conc, addr : Addr \cup {NoAddr}] \cup {Unset}

Item == [fd : Conc \cup {-1}, addr : Addr \cup {NoAddr}, buf : Payload]

RingOf(S) == [front : Slot, rear : Slot, node : [Slot -> S]]

TypeOK ==
  /\ toSend \subseteq UpMsgs
  /\ upc \in [Conc -> {"recv", "check", "put", "done"}]
  /\ ubuf \in [Conc -> Item]
  /\ edq \in RingOf(Item) /\ serq \in RingOf(Item)
  /\ spc \in {"poll", "out", "send", "mark"} /\ sbuf \in Item
  /\ atServer \subseteq Payload
  /\ idList \in Seq([token : Tokens, fd : Conc, addr : Addr])
  /\ rpc \in [Sock -> {"recv", "check", "put"}]
  /\ rbuf \in [Sock -> Payload]
  /\ nDown \in 0 .. MaxDown
  /\ ppc \in {"poll", "out", "route"} /\ pbuf \in Payload
  /\ dest \in Dest /\ last \in Conc \cup {-1}
  /\ clientAddr \in [Conc -> Addr \cup {NoAddr}]
  /\ out \in {<<>>} \cup (Dest \X Payload)
  /\ sent \in [Tokens -> Nat] /\ relayed \in [Addr \X Tokens -> Nat]

\* How often the relay has received a datagram with token t from address a.
Received(a, t) ==
  Cardinality({m \in UpMsgs \ toSend :
                 m.from = a /\ m.token = t /\ m.type # "OTHER"})

\* An acknowledgement is relayed only to an address that has sent a datagram
\* with its token, and no more often than it has sent one: not when the server
\* answers twice, nor when the answer overtakes the marking, nor when two
\* forwarders chose the same token, nor after a lap.  Token 0 is excepted: a
\* payload wiped in the ring is remembered under it.
AckReachesASender ==
  \A a \in Addr, t \in Tokens \ {0} : relayed[a, t] <= Received(a, t)

\* Whatever is sent to a forwarder leaves through the socket that this
\* forwarder talks to, even if its destination was chosen by a datagram before.
SocketMatchesAddress ==
  /\ \A e \in ToSet(idList) : e.addr[1] = e.fd
  /\ out # <<>> => out[1].addr[1] = out[1].fd

\* A PULL_RESP in a channel of one concentrator only, and not in the second
\* window, is sent to that concentrator's forwarder, at the socket it sends its
\* PULL_DATA from and never at the one that reads PUSH_ACKs.
PullRespReachesItsConcentrator ==
  \A c \in Conc :
    (/\ out # <<>> /\ out[2].type = "PULL_RESP"
     /\ ~Near(Rx2Freq, out[2].freq)
     /\ \E i \in DOMAIN Plan[c] : Near(30000 + Plan[c][i], out[2].freq)
     /\ ~\E i \in DOMAIN Plan[1 - c] : Near(30000 + Plan[1 - c][i], out[2].freq))
    => out[1] = [fd |-> c, addr |-> <<c, "pull">>]

\* How many acknowledgements of t forwarders have been sent.
Answered(t) ==
  LET To(c, name) == relayed[<<c, name>>, t]
  IN  To(0, "push") + To(0, "pull") + To(1, "push") + To(1, "pull")

\* An acknowledgement is dropped for want of a node only if every packet sent
\* with its token has been answered before, or if it has arrived between the
\* sending of that packet and its marking.
AckDropExplained ==
  [][\A t \in Tokens : (DropAck /\ pbuf.token = t) =>
       \/ Answered(t) = sent[t]
       \/ spc = "mark" /\ sbuf.buf.token = t]_vars
=============================================================================
