------------------------------ MODULE JitSched ------------------------------
(***************************************************************************)
(* Downlink scheduling in the packet forwarder: thread_down puts downlinks *)
(* and beacons into the just-in-time queue, thread_jit takes them out when *)
(* they are due and programs the concentrator, which sends them.           *)
(*                                                                         *)
(* Each thread reads the clock first and enters the queue's critical       *)
(* section afterwards; thread_jit uses the index it has peeked in a second *)
(* critical section and the status it has read in a third.  Between those  *)
(* steps the other thread may run and time may pass, as much as the bounds *)
(* PollMax, JitLag and DownLag allow.                                      *)
(*                                                                         *)
(* External: the server's requests, the clock, and the concentrator, which *)
(* starts to send a programmed packet StartDelay before its departure time *)
(* and never if it is programmed later than that.                          *)
(***************************************************************************)
EXTENDS JitQueue

CONSTANTS
  Requests,     \* what may be requested: type, airtime, and how far ahead
                \* of the counter (ignored for class C)
  MaxReq,       \* bound of the model: the number of requests
  StartTime,    \* the counter when the model starts
  AskTicks,     \* bound: requests are made within so many ticks
  EndTicks,     \* bound: time stops after so many ticks, a quarter of a turn
  Outcomes,     \* what lgw_send may do: "programmed", "blocked", "failed"
  NumBeacon,    \* JIT_NUM_BEACON_IN_QUEUE
  PollMax,      \* bound: ticks between two readings of the clock by thread_jit
  JitLag,       \* bound: ticks thread_jit takes from there to lgw_send
  DownLag       \* bound: ticks thread_down takes from its reading to jit_enqueue

ASSUME SchedAssumption ==
  /\ \A r \in Requests : r.type \in PktType /\ r.off \in Int /\ r.airtime \in Nat
  /\ StartTime \in Time
  /\ Outcomes \subseteq {"programmed", "blocked", "failed"}
  /\ {MaxReq, AskTicks, EndTicks, NumBeacon, PollMax, JitLag, DownLag} \subseteq Nat
  /\ EndTicks <= W \div 4

\* The threads are fast enough: thread_jit looks twice before a packet it may
\* take has to be programmed, and once more if a beacon follows close behind
\* another packet; thread_down has enqueued a packet before it becomes due.
ASSUME LagsAssumption ==
  /\ JitLag <= PollMax
  /\ PollMax + JitLag <= JitDelay - StartDelay
  /\ 2 * PollMax <= JitDelay + StartDelay + MarginDelay + 1
  /\ DownLag <= StartDelay + MarginDelay

VARIABLES
  clock,        \* the concentrator's counter
  queue, numBeacon,   \* jit_queue
  dpc, dtime, dreq,   \* thread_down: its place, current_concentrator_time, txpkt
  nReq,         \* the number of requests made
  jpc, jtime,   \* thread_jit: its place, current_concentrator_time
  jidx, jpkt,   \* its pkt_index and pkt
  radio,        \* the concentrator: its state and the packet programmed last
  txOk,         \* meas_nb_tx_ok
  fate,         \* history: fate[k], what has become of request k
  log,          \* history: log[k], the node request k was queued as, and when
  peeked,       \* history: the packet jidx was peeked for
  verdict       \* history: what jit_enqueue returned last, and for what

down == <<dpc, dtime, dreq, nReq, verdict, log>>
jit == <<jpc, jtime, jidx, jpkt, peeked, txOk>>
vars == <<clock, queue, numBeacon, down, jit, radio, fate>>

Req == 1 .. MaxReq

\* No packet, in dreq, jpkt, radio and log.
NoReq == [id |-> 0, type |-> "A", count |-> 0, airtime |-> 0, saturating |-> FALSE]
NoPkt == [id |-> 0, type |-> "A", pre |-> 0, post |-> 0, count |-> 0]
NoLog == [node |-> NoPkt, at |-> 0]

Beacons(q) == Cardinality({i \in DOMAIN q : q[i].type = "BEACON"})

Ids(q) == {q[i].id : i \in DOMAIN q}

-----------------------------------------------------------------------------
(* thread_down *)

\* A PULL_RESP has been parsed, or a beacon is to be allocated because fewer
\* than NumBeacon are queued; the time is read.  Only for an immediate downlink
\* does it matter how the build casts a double to uint32_t.
DownSample ==
  /\ dpc = "recv"
  /\ nReq < MaxReq /\ Ahead(clock, StartTime) <= AskTicks
  /\ \E r \in Requests, saturating \in BOOLEAN :
       /\ saturating => r.type = "C"
       /\ r.type = "BEACON" => numBeacon < NumBeacon
       /\ dreq' = [id |-> nReq + 1, type |-> r.type, airtime |-> r.airtime,
                   count |-> (clock + r.off) % W, saturating |-> saturating]
  /\ nReq' = nReq + 1
  /\ dtime' = clock
  /\ dpc' = "timed"
  /\ UNCHANGED <<clock, queue, numBeacon, verdict, log, jit, radio, fate>>

\* jit_enqueue; what it returns goes into the TX_ACK.
DownEnqueue ==
  /\ dpc = "timed"
  /\ LET n == Candidate(queue, dtime, dreq)
         v == Verdict(queue, dtime, n)
     IN  /\ verdict' = [error |-> v, type |-> n.type, count |-> n.count,
                        at |-> dtime]
         /\ IF v = "OK"
            THEN /\ queue' = Enqueued(queue, n)
                 /\ numBeacon' = numBeacon + (IF n.type = "BEACON" THEN 1 ELSE 0)
                 /\ fate' = [fate EXCEPT ![n.id] = "queued"]
                 /\ log' = [log EXCEPT ![n.id] = [node |-> n, at |-> dtime]]
            ELSE UNCHANGED <<queue, numBeacon, fate, log>>
  /\ dpc' = "recv"
  /\ dreq' = NoReq
  /\ UNCHANGED <<clock, dtime, nReq, jit, radio>>

-----------------------------------------------------------------------------
(* thread_jit *)

\* 10 ms have been slept; the time is read.
JitSample ==
  /\ jpc = "wait"
  /\ jtime # clock
  /\ jtime' = clock
  /\ jpc' = "timed"
  /\ UNCHANGED <<clock, queue, numBeacon, down, jidx, jpkt, peeked, txOk,
                 radio, fate>>

\* jit_peek, with its purge.
JitPeek ==
  /\ jpc = "timed"
  /\ LET q == Purged(queue, jtime)
         i == PeekIndex(queue, jtime)
     IN  /\ queue' = q
         /\ numBeacon' = numBeacon - (Beacons(queue) - Beacons(q))
         /\ fate' = [k \in Req |-> IF k \in Ids(queue) \ Ids(q) THEN "purged"
                                   ELSE fate[k]]
         /\ jidx' = i
         /\ peeked' = IF i = 0 THEN 0 ELSE q[i].id
         /\ jpc' = IF i = 0 THEN "wait" ELSE "peeked"
  /\ UNCHANGED <<clock, down, jtime, jpkt, txOk, radio>>

\* jit_dequeue, with the index peeked.
JitDequeue ==
  /\ jpc = "peeked"
  /\ jpkt' = queue[jidx]
  /\ queue' = Dequeued(queue, jidx)
  /\ numBeacon' = numBeacon - (IF queue[jidx].type = "BEACON" THEN 1 ELSE 0)
  /\ fate' = [fate EXCEPT ![queue[jidx].id] = "taken"]
  /\ jidx' = 0
  /\ jpc' = "status"
  /\ UNCHANGED <<clock, down, jtime, peeked, txOk, radio>>

\* lgw_status; while the concentrator is sending, the packet is dropped.
JitStatus ==
  /\ jpc = "status"
  /\ IF radio.state = "emitting"
     THEN /\ fate' = [fate EXCEPT ![jpkt.id] = "busy"]
          /\ jpc' = "wait"
          /\ jpkt' = NoPkt
          /\ peeked' = 0
     ELSE /\ jpc' = "send"
          /\ UNCHANGED <<fate, jpkt, peeked>>
  /\ UNCHANGED <<clock, queue, numBeacon, down, jtime, jidx, txOk, radio>>

\* What lgw_abort_tx, called by lgw_send, does to the packet programmed before.
Aborted(f) ==
  IF radio.state = "free" THEN f
  ELSE [f EXCEPT ![radio.pkt.id] =
          IF radio.state = "emitting" THEN "cut" ELSE "overwritten"]

\* lgw_send: the packet is programmed, or listen-before-talk finds the channel
\* busy.  LGW_LBT_ISSUE is not LGW_HAL_ERROR: thread_jit counts a success.
JitSend ==
  /\ jpc = "send"
  /\ \E outcome \in Outcomes \ {"failed"} :
       /\ radio' = IF outcome = "blocked" THEN [state |-> "free", pkt |-> NoPkt]
                   ELSE [state |-> "scheduled", pkt |-> jpkt]
       /\ fate' = Aborted([fate EXCEPT ![jpkt.id] = outcome])
  /\ txOk' = txOk + 1
  /\ jpkt' = NoPkt
  /\ peeked' = 0
  /\ jpc' = "wait"
  /\ UNCHANGED <<clock, queue, numBeacon, down, jtime, jidx>>

\* lgw_send refuses the packet's parameters before it touches the radio, or
\* fails to check the channel after it has aborted what was programmed.
JitSendFails ==
  /\ jpc = "send"
  /\ "failed" \in Outcomes
  /\ \/ /\ fate' = [fate EXCEPT ![jpkt.id] = "failed"]
        /\ UNCHANGED radio
     \/ /\ fate' = Aborted([fate EXCEPT ![jpkt.id] = "failed"])
        /\ radio' = [state |-> "free", pkt |-> NoPkt]
  /\ jpkt' = NoPkt
  /\ peeked' = 0
  /\ jpc' = "wait"
  /\ UNCHANGED <<clock, queue, numBeacon, down, jtime, jidx, txOk>>

-----------------------------------------------------------------------------
(* External: time and the concentrator. *)

\* The concentrator leaves the tick in which its packet was to start, or to end.
RadioTick ==
  \/ /\ radio.state = "scheduled"
     /\ Ahead(radio.pkt.count, clock) = StartDelay
     /\ radio' = [radio EXCEPT !.state = "emitting"]
     /\ fate' = [fate EXCEPT ![radio.pkt.id] = "onair"]
  \/ /\ radio.state = "emitting"
     /\ Ahead(clock, radio.pkt.count) = radio.pkt.post
     /\ radio' = [state |-> "free", pkt |-> NoPkt]
     /\ UNCHANGED fate
  \/ /\ ~(radio.state = "scheduled" /\ Ahead(radio.pkt.count, clock) = StartDelay)
     /\ ~(radio.state = "emitting" /\ Ahead(clock, radio.pkt.count) = radio.pkt.post)
     /\ UNCHANGED <<radio, fate>>

Tick ==
  /\ Ahead(clock, StartTime) < EndTicks
  /\ Ahead(clock, jtime) < (IF jpc = "wait" THEN PollMax ELSE JitLag)
  /\ dpc = "timed" => Ahead(clock, dtime) < DownLag
  /\ clock' = (clock + 1) % W
  /\ RadioTick
  /\ UNCHANGED <<queue, numBeacon, down, jit>>

\* The bound EndTicks is reached and the threads are waiting for it to be later.
Ended ==
  /\ Ahead(clock, StartTime) = EndTicks
  /\ dpc = "recv" /\ jpc = "wait" /\ jtime = clock
  /\ UNCHANGED vars

Init ==
  /\ clock = StartTime
  /\ queue = <<>> /\ numBeacon = 0
  /\ dpc = "recv" /\ dtime = StartTime /\ dreq = NoReq /\ nReq = 0
  /\ jpc = "wait" /\ jtime = StartTime /\ jidx = 0 /\ jpkt = NoPkt
  /\ radio = [state |-> "free", pkt |-> NoPkt]
  /\ txOk = 0
  /\ fate = [k \in Req |-> "none"]
  /\ log = [k \in Req |-> NoLog]
  /\ peeked = 0
  /\ verdict = [error |-> "none", type |-> "A", count |-> 0, at |-> 0]

Next ==
  \/ DownSample \/ DownEnqueue
  \/ JitSample \/ JitPeek \/ JitDequeue \/ JitStatus \/ JitSend \/ JitSendFails
  \/ Tick \/ Ended

Spec == Init /\ [][Next]_vars

-----------------------------------------------------------------------------
Node == [id : 0 .. MaxReq, type : PktType, pre : Nat, post : Nat, count : Time]

TypeOK ==
  /\ clock \in Time /\ dtime \in Time /\ jtime \in Time
  /\ queue \in Seq(Node) /\ Len(queue) <= QueueMax
  /\ numBeacon = Beacons(queue)
  /\ dpc \in {"recv", "timed"}
  /\ dreq \in [id : 0 .. MaxReq, type : PktType, count : Time, airtime : Nat,
              saturating : BOOLEAN]
  /\ nReq \in 0 .. MaxReq
  /\ jpc \in {"wait", "timed", "peeked", "status", "send"}
  /\ jidx \in 0 .. QueueMax /\ jpkt \in Node
  /\ radio \in [state : {"free", "scheduled", "emitting"}, pkt : Node]
  /\ txOk \in 0 .. MaxReq /\ peeked \in 0 .. MaxReq
  /\ fate \in [Req -> {"none", "queued", "purged", "taken", "busy", "programmed",
                       "blocked", "failed", "overwritten", "cut", "onair"}]
  /\ log \in [Req -> [node : Node, at : Time]]

\* The transmissions promised by the queue do not overlap on the air: neither the
\* order of arrival, nor the choice of a departure time for immediate downlinks,
\* nor the exception for the guard of a beacon, nor a turn of the counter brings
\* two of them closer than the time the concentrator needs to start the second,
\* whichever of the two it is.
AirtimesDisjoint ==
  \A i, j \in DOMAIN queue :
    i # j => Ahead(queue[j].count, queue[i].count) > queue[i].post + StartDelay

\* Request k was accepted for a time more than Lead, and less than a quarter of a
\* turn, ahead.  Near the wrap of the counter criterion 1 also accepts one that it
\* should reject as too late: it lies in the past, and the sort puts it in front
\* of all others until thread_jit purges it, or is due in less than Lead.
Regular(k) ==
  Ahead(log[k].node.count, log[k].at) \in Lead + 1 .. W \div 4 - 1

AllRegular == \A k \in Req : log[k].node.id # 0 => Regular(k)

\* thread_jit dequeues the packet it has peeked: the queue is sorted by departure
\* time, and no packet is enqueued before the one peeked between the two critical
\* sections, unless one has been accepted that should have been rejected as too
\* late, as long as thread_down is not delayed longer than DownLag after reading
\* the clock.
DequeuesWhatItPeeked ==
  AllRegular =>
    /\ \A i, j \in DOMAIN queue :
         i < j => Ahead(queue[j].count, queue[i].count) < W \div 2
    /\ jpc = "peeked" => jidx \in DOMAIN queue /\ queue[jidx].id = peeked

\* What the checks of jit_enqueue are to ensure of an accepted packet.  The
\* upper limit is JitLag short of TX_MAX_ADVANCE_DELAY: thread_jit may purge
\* with a time it read before thread_down read its own.
Timely(k) ==
  Ahead(log[k].node.count, log[k].at) \in Lead + 1 .. MaxAdvance - 1 - JitLag

\* Requests j and k were both accepted, for departure times closer to each
\* other than two ordinary packets may be.
Conflict(j, k) ==
  LET x == log[j].node
      y == log[k].node
  IN  /\ j # k /\ x.id # 0 /\ y.id # 0
      /\ CollisionTest(x.count, PreDelay("A"), x.post, y.count, PreDelay("A"), y.post)

\* Every way in which the forwarder itself loses a packet it has acknowledged
\* is one of three: it was not timely when it was accepted, which the
\* comparisons that do not wrap allow; or it was in conflict with another,
\* either because the exception for the guard of a beacon let one of the two
\* in, or because the first had left the queue when the second was checked; or
\* a packet was accepted that should have been rejected as too late, and shifted
\* the queue.
LossExplained ==
  \A k \in Req :
    fate[k] \in {"purged", "busy", "overwritten", "cut"} =>
      ~Timely(k) \/ (\E j \in Req : Conflict(j, k)) \/ ~AllRegular

\* A timely packet that is in conflict with no other is programmed while there
\* is still time to start it: none that is due is left in the queue, or in the
\* concentrator without having been sent, unless a packet was accepted that
\* should have been rejected as too late.
SentInTime ==
  \A k \in Req :
    (/\ fate[k] \in {"queued", "taken", "programmed"}
     /\ Timely(k) /\ (~\E j \in Req : Conflict(j, k)) /\ AllRegular)
    => Ahead(log[k].node.count, clock) \in StartDelay .. MaxAdvance

\* As long as no time that TX_MAX_ADVANCE_DELAY admits lies behind the wrap of
\* the counter, the comparisons of jit_enqueue, none of which is modular, accept
\* a class A or B downlink, or reject it for its time, exactly as they should.
VerdictRightBeforeWrap ==
  (verdict.type \in {"A", "B"} /\ verdict.at + MaxAdvance < W) =>
    LET ahead == Ahead(verdict.count, verdict.at)
    IN  /\ verdict.error \in {"TOO_LATE", "TOO_EARLY"}
             => ahead \notin Lead + 1 .. MaxAdvance
        /\ verdict.error \in {"OK", "COLLISION_PACKET", "COLLISION_BEACON"}
             => ahead \in Lead + 1 .. MaxAdvance

-----------------------------------------------------------------------------
(* What the comments say, and the code does not keep. *)

\* jitqueue.h: "Once the packet is queued, it has to be sent over the air."
QueuedIsSent ==
  \A k \in Req : fate[k] \notin {"purged", "busy", "overwritten", "cut"}

=============================================================================
