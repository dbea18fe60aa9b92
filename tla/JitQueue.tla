------------------------------ MODULE JitQueue ------------------------------
(***************************************************************************)
(* The just-in-time queue of the packet forwarder, lora_pkt_fwd's          *)
(* jitqueue.c, as operators: what jit_enqueue decides and returns, what    *)
(* jit_peek purges and finds, what jit_dequeue leaves.  Each of the three  *)
(* does its work in one critical section of mx_jit_queue.                  *)
(*                                                                         *)
(* Times are values of the concentrator's free-running counter, a uint32_t *)
(* of microseconds in the code and a number below W here.  The queue is a  *)
(* sequence sorted by departure time: the code appends, or moves the last  *)
(* node into the hole, and sorts again, by the signed difference of the    *)
(* two counters (compare), which is the order on the circle used here as   *)
(* long as all nodes lie within half a turn.                               *)
(***************************************************************************)
EXTENDS Integers, Sequences, SequencesExt, FiniteSets

CONSTANTS
  W,               \* 2^32
  StartDelay,      \* TX_START_DELAY
  MarginDelay,     \* TX_MARGIN_DELAY
  JitDelay,        \* TX_JIT_DELAY
  MaxAdvance,      \* TX_MAX_ADVANCE_DELAY
  BeaconGuard,     \* BEACON_GUARD
  BeaconReserved,  \* BEACON_RESERVED
  AsapDelay,       \* the second jit_enqueue adds for an immediate downlink
  QueueMax         \* JIT_QUEUE_MAX

Lead == StartDelay + MarginDelay + JitDelay

\* The relations between the delays that the code relies on.
ASSUME DelaysAssumption ==
  /\ \A d \in {W, StartDelay, MarginDelay, JitDelay, MaxAdvance, BeaconGuard,
               BeaconReserved, AsapDelay, QueueMax} : d \in Nat \ {0}
  /\ Lead < AsapDelay /\ AsapDelay < MaxAdvance
  /\ 4 * MaxAdvance < W

Time == 0 .. W - 1

\* JIT_PKT_TYPE_DOWNLINK_CLASS_A, _B, _C and JIT_PKT_TYPE_BEACON
PktType == {"A", "B", "C", "BEACON"}

\* Unsigned subtraction: how far time c lies ahead of time t.
Ahead(c, t) == (c - t) % W

\* The cast of a double to uint32_t, undefined out of its range: ARM saturates,
\* x86-64 keeps the low bits.
ToUint(d, saturating) ==
  IF ~saturating THEN d % W
  ELSE IF d < 0 THEN 0
  ELSE IF d >= W THEN W - 1
  ELSE d

\* The sign of compare: p_count - q_count as an int.
Before(c, d) == Ahead(d, c) \in 1 .. W \div 2

\* Defect: signed distances, which break at the wrap of the counter.
CollisionTestSigned(c1, pre1, post1, c2, pre2, post2) ==
  IF c1 >= c2 THEN c1 - c2 <= pre1 + post2 + MarginDelay
  ELSE c2 - c1 <= pre2 + post1 + MarginDelay

CollisionTest(c1, pre1, post1, c2, pre2, post2) ==
  \/ Ahead(c1, c2) <= pre1 + post2 + MarginDelay
  \/ Ahead(c2, c1) <= pre2 + post1 + MarginDelay

PreDelay(type) ==
  StartDelay + JitDelay + (IF type = "BEACON" THEN BeaconGuard ELSE 0)

PostDelay(type, airtime) == IF type = "BEACON" THEN BeaconReserved ELSE airtime

-----------------------------------------------------------------------------
(* jit_enqueue *)

\* Does a packet with departure time c collide with node x?
Hits(c, pre, post, x) == CollisionTest(c, pre, post, x.count, x.pre, x.post)

\* The departure time given to an immediate (class C) downlink: in AsapDelay
\* from now, 1E6 being a double, or else after the first node that leaves room
\* before the next one, or else after the last.
Asap(q, t, pre, post, saturating) ==
  LET now == ToUint(t + AsapDelay, saturating)
      After(i) == (q[i].count + q[i].post + pre + JitDelay + MarginDelay) % W
      Room == {i \in DOMAIN q : i = Len(q) \/ ~Hits(After(i), pre, post, q[i + 1])}
  IN  IF \E i \in DOMAIN q : Hits(now, pre, post, q[i])
      THEN After(CHOOSE i \in Room : \A j \in Room : i <= j)
      ELSE now

\* The node jit_enqueue makes of a request, made at time t with type, count,
\* airtime, a number to tell packets apart, and what the cast to uint32_t does.
Candidate(q, t, r) ==
  LET pre == PreDelay(r.type)
      post == PostDelay(r.type, r.airtime)
  IN  [id |-> r.id, type |-> r.type, pre |-> pre, post |-> post,
       count |-> IF r.type = "C" THEN Asap(q, t, pre, post, r.saturating)
                 ELSE r.count]

\* jit_queue_is_full, and the defect of testing it one packet late.
FullLate(q) == Len(q) > QueueMax

Full(q) == Len(q) = QueueMax

\* Defect: the time to program the concentrator is forgotten.
TooLateShort(c, t) == c <= (StartDelay + t) % W

\* Criterion 1; the sum on the right wraps, the comparison does not.
TooLate(c, t) == c <= (Lead + t) % W

\* Criterion 2; TX_MAX_ADVANCE_DELAY is a double, the sum does not wrap.
TooEarly(type, c, t) == type \in {"A", "B"} /\ c > MaxAdvance + t

\* Criterion 3: class A and C downlinks may enter the guard of a beacon.
Collides(n, x) ==
  CollisionTest(n.count, n.pre, n.post, x.count,
                IF n.type \in {"A", "C"} /\ x.type = "BEACON"
                THEN StartDelay ELSE x.pre,
                x.post)

Verdict(q, t, n) ==
  LET Hit == {i \in DOMAIN q : Collides(n, q[i])}
      FirstHit == CHOOSE i \in Hit : \A j \in Hit : i <= j
  IN  IF Full(q) THEN "FULL"
      ELSE IF TooLate(n.count, t) THEN "TOO_LATE"
      ELSE IF TooEarly(n.type, n.count, t) THEN "TOO_EARLY"
      ELSE IF Hit = {} THEN "OK"
      ELSE IF q[FirstHit].type = "BEACON" THEN "COLLISION_BEACON"
      ELSE "COLLISION_PACKET"

\* Defect: the order of the sort is inverted.
EnqueuedDescending(q, n) ==
  LET earlier == {i \in DOMAIN q : Before(q[i].count, n.count)}
  IN  InsertAt(q, IF earlier = {} THEN Len(q) + 1
                  ELSE CHOOSE i \in earlier : \A j \in earlier : i <= j, n)

\* Append and sort.
Enqueued(q, n) ==
  LET later == {i \in DOMAIN q : Before(n.count, q[i].count)}
  IN  InsertAt(q, IF later = {} THEN Len(q) + 1
                  ELSE CHOOSE i \in later : \A j \in later : i <= j, n)

-----------------------------------------------------------------------------
(* jit_peek and jit_dequeue *)

\* Defect: a limit much shorter than the advance that is accepted.
OutdatedSoon(x, t) == Ahead(x.count, t) >= AsapDelay + JitDelay

\* Missed, or accepted too early.
Outdated(x, t) == Ahead(x.count, t) >= MaxAdvance

\* A purge moves the scan to index 1: what becomes the first node by it is
\* neither purged nor peeked in this call.
HeadPurged(q, t) == q # <<>> /\ Outdated(Head(q), t)

Purged(q, t) ==
  LET r == IF HeadPurged(q, t) THEN Tail(q) ELSE q
      kept[i \in 1 .. Len(r)] ==
        IF i = 1 THEN <<r[1]>>
        ELSE IF Outdated(r[i], t) THEN kept[i - 1]
        ELSE Append(kept[i - 1], r[i])
  IN  IF r = <<>> THEN r ELSE kept[Len(r)]

\* Defect: looked for in the last moment.
DueLate(x, t) == Ahead(x.count, t) <= StartDelay

Due(x, t) == Ahead(x.count, t) < JitDelay

\* The index peeked in the purged queue, or 0 (the code's -1).  A scan that
\* has kept nothing reads the node in front of the array, whatever it holds;
\* the index is -1 either way.
PeekIndex(q, t) ==
  LET r == Purged(q, t)
      Seen == IF HeadPurged(q, t) THEN 2 .. Len(r) ELSE 1 .. Len(r)
      Best == {i \in Seen : \A j \in Seen :
                 Ahead(r[i].count, t) <= Ahead(r[j].count, t)}
      i == CHOOSE k \in Best : \A j \in Best : k <= j
  IN  IF Best # {} /\ Due(r[i], t) THEN i ELSE 0

\* jit_dequeue returns q[i] and leaves this.
Dequeued(q, i) == RemoveAt(q, i)
=============================================================================
