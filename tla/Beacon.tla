------------------------------- MODULE Beacon -------------------------------
(***************************************************************************)
(* Class B beacons of the packet forwarder.  thread_down fills the         *)
(* just-in-time queue with the next beacons each time its recv returns:    *)
(* it takes the GPS time of the next beacon, converts it to a value of the *)
(* concentrator's counter and tries to enqueue it, one period later after  *)
(* each refusal, until the wanted number is queued or the GPS is lost.     *)
(* thread_jit takes the beacons out when they are due.  Both threads' full *)
(* interleaving is the subject of JitSched; here thread_jit polls at least *)
(* once in each tick, since a tick is much longer than its 10 ms.          *)
(*                                                                         *)
(* GPS time is now, in ticks (now = 1 is the first second modelled), and   *)
(* the counter shows (now + Phase) % W.  Conversions between the two are   *)
(* exact but for the cast of the difference to uint32_t.                   *)
(***************************************************************************)
EXTENDS JitQueue

CONSTANTS
  P,          \* beacon_period
  NumBeacon,  \* JIT_NUM_BEACON_IN_QUEUE
  MaxAge,     \* GPS_REF_MAX_AGE
  Phase,      \* the counter when GPS time is 0
  Moments,    \* when the GPS is lost or found and downlinks are asked for
  Offsets,    \* how far ahead the server asks for a class A downlink
  MaxReq,     \* bound on the number of downlinks
  MaxLoss,    \* bound on the number of losses of the GPS
  MaxRetry,   \* bound on retry
  MaxLast,    \* bound on last_beacon_gps_time
  Stalls,     \* when time may pass although thread_down has something to do
  Pauses,     \* values of retry at which it may
  End         \* bound on time

ASSUME BeaconAssumption ==
  /\ P \in Nat \ {0} /\ NumBeacon \in Nat \ {0} /\ Phase \in Time
  /\ MaxAdvance = (NumBeacon + 1) * P
  /\ {MaxAge, MaxReq, MaxLoss, MaxRetry, MaxLast, End} \subseteq Nat
  /\ Stalls \subseteq Nat /\ Pauses \subseteq 0 .. MaxRetry
  /\ MaxAge + MaxAdvance < W

VARIABLES
  now,         \* the GPS time
  valid,       \* gps_ref_valid and xtal_correct_ok
  q,           \* jit_queue
  pc,          \* thread_down: "recv", "beacon" or "handle"
  beaconLoop,  \* beacon_loop: beacons still to be queued
  retry,       \* retry
  last,        \* last_beacon_gps_time, 0 if none has been queued
  saturating,  \* what the build makes of a double out of uint32_t's range
  reqs,        \* downlinks asked for so far
  losses,      \* losses of the GPS so far
  sent,        \* history: beacons handed to the concentrator
  first,       \* history: the first beacon queued, 0 if none
  excused      \* history: slots up to End that cannot be served any more

vars == <<now, valid, q, pc, beaconLoop, retry, last, saturating, reqs, losses,
          sent, first, excused>>

Count(g) == (g + Phase) % W

\* The turn of the counter GPS time g lies in.
Turn(g) == (g + Phase) \div W

\* num_beacon: jit_enqueue, jit_dequeue and jit_peek keep it equal to this.
Beacons == Cardinality({i \in DOMAIN q : q[i].type = "BEACON"})

\* lgw_gps2cnt
Gps2Cnt(ref, g) == (Count(ref) + ToUint(g - ref, saturating)) % W

\* Defect: the retries are counted from one.
NextBeaconFromOne(ref) ==
  (IF last = 0 THEN ref + (P - (ref % P)) ELSE last + P) + (retry + 1) * P

\* The GPS time of the next beacon, from the last one or from the reference.
NextBeacon(ref) ==
  (IF last = 0 THEN ref + (P - (ref % P)) ELSE last + P) + retry * P

\* A reference that thread_valid lets pass.
Refs == {r \in now - MaxAge .. now : r >= 1}

-----------------------------------------------------------------------------
(* The environment: time, the GPS receiver, thread_jit *)

\* thread_jit has nothing to do now.
JitIdle == /\ Purged(q, Count(now)) = q
           /\ PeekIndex(q, Count(now)) = 0

\* thread_down has queued all it can, or has reached a bound of the model.
DownIdle ==
  \/ pc = "recv" /\ (Beacons = NumBeacon \/ ~valid)
  \/ pc = "beacon" /\ (retry = MaxRetry \/ \E ref \in Refs : NextBeacon(ref) > MaxLast)

Tick ==
  /\ now < End
  /\ JitIdle
  /\ \/ DownIdle
     \/ now \in Stalls /\ (pc = "beacon" => retry \in Pauses)
  /\ now' = now + 1
  /\ UNCHANGED <<valid, q, pc, beaconLoop, retry, last, saturating, reqs,
                 losses, sent, first, excused>>

\* thread_valid finds the reference too old, or fresh again.
LoseGps ==
  /\ valid /\ losses < MaxLoss /\ now \in Moments
  /\ valid' = FALSE
  /\ losses' = losses + 1
  /\ UNCHANGED <<now, q, pc, beaconLoop, retry, last, saturating, reqs, sent,
                 first, excused>>

RegainGps ==
  /\ ~valid /\ now \in Moments
  /\ valid' = TRUE
  /\ UNCHANGED <<now, q, pc, beaconLoop, retry, last, saturating, reqs, losses,
                 sent, first, excused>>

\* One turn of thread_jit's loop: purge, and dequeue what is due.
JitPoll ==
  LET t == Count(now)
      r == Purged(q, t)
      i == PeekIndex(q, t)
  IN  /\ ~JitIdle
      /\ q' = IF i = 0 THEN r ELSE Dequeued(r, i)
      /\ sent' = IF i # 0 /\ r[i].type = "BEACON"
                 THEN sent \cup {[id |-> r[i].id, at |-> now + Ahead(r[i].count, t)]}
                 ELSE sent
      /\ UNCHANGED <<now, valid, pc, beaconLoop, retry, last, saturating, reqs,
                     losses, first, excused>>

-----------------------------------------------------------------------------
(* thread_down *)

\* Defect: the beacons in the queue are not subtracted.
RecvRefills ==
  /\ pc = "recv"
  /\ pc' = "beacon"
  /\ beaconLoop' = NumBeacon
  /\ retry' = 0
  /\ UNCHANGED <<now, valid, q, last, saturating, reqs, losses, sent, first, excused>>

\* recv returns, with a datagram or without one; num_beacon is read without
\* the lock of the queue.
Recv ==
  /\ pc = "recv"
  /\ pc' = "beacon"
  /\ beaconLoop' = NumBeacon - Beacons
  /\ retry' = 0
  /\ UNCHANGED <<now, valid, q, last, saturating, reqs, losses, sent, first, excused>>

\* Defect: the payload is filled in before the retries are added.
BeaconNodeBeforeRetry(ref, g) ==
  Candidate(q, Count(now),
            [id |-> [gps |-> g - retry * P, queued |-> now],
             type |-> "BEACON", airtime |-> 0, count |-> Gps2Cnt(ref, g),
             saturating |-> saturating])

\* The beacon for GPS time g as a request to jit_enqueue.  Its payload, the time
\* g, serves as its number, with the time at which it is queued.
BeaconNode(ref, g) ==
  Candidate(q, Count(now),
            [id |-> [gps |-> g, queued |-> now],
             type |-> "BEACON", airtime |-> 0, count |-> Gps2Cnt(ref, g),
             saturating |-> saturating])

\* A beacon accepted for a slot that is over, or so far ahead that thread_jit will
\* purge it as outdated.
QueuedInVain(g) == g < now \/ g - now >= MaxAdvance

BeaconQueued ==
  /\ pc = "beacon" /\ beaconLoop > 0 /\ valid
  /\ \E ref \in Refs :
       LET g == NextBeacon(ref)
           n == BeaconNode(ref, g)
       IN  /\ g <= MaxLast
           /\ Verdict(q, Count(now), n) = "OK"
           /\ q' = Enqueued(q, n)
           /\ last' = g
           /\ first' = IF first = 0 THEN g ELSE first
           /\ excused' = IF g <= End /\ QueuedInVain(g) THEN excused \cup {g}
                         ELSE excused
  /\ beaconLoop' = beaconLoop - 1
  /\ retry' = 0
  /\ UNCHANGED <<now, valid, pc, saturating, reqs, losses, sent>>

\* A beacon that will not leave at the GPS time in its payload.
Misplaced(x) == x.type = "BEACON" /\ x.id.gps # now + Ahead(x.count, Count(now))

\* Is the slot g really lost, or else behind the wrap of the counter?  Beacons
\* do not collide with each other, unless one is misplaced.
RefusedForCause(g, why) ==
  \/ Turn(g) # Turn(now)
  \/ why = "TOO_LATE" /\ g - now <= Lead
  \/ why \in {"FULL", "COLLISION_PACKET"}
  \/ why = "COLLISION_BEACON" /\ \E i \in DOMAIN q : Misplaced(q[i])

BeaconRefused ==
  /\ pc = "beacon" /\ beaconLoop > 0 /\ valid
  /\ retry < MaxRetry
  /\ \E ref \in Refs :
       LET g == NextBeacon(ref)
           why == Verdict(q, Count(now), BeaconNode(ref, g))
       IN  /\ why # "OK"
           /\ excused' = IF g <= End /\ RefusedForCause(g, why)
                         THEN excused \cup {g} ELSE excused
  /\ retry' = retry + 1
  /\ UNCHANGED <<now, valid, q, pc, beaconLoop, last, saturating, reqs, losses,
                 sent, first>>

\* Enough beacons, or no GPS.
BeaconLoopEnds ==
  /\ pc = "beacon"
  /\ beaconLoop = 0 \/ ~valid
  /\ pc' = "handle"
  /\ UNCHANGED <<now, valid, q, beaconLoop, retry, last, saturating, reqs,
                 losses, sent, first, excused>>

NoBeacon == [gps |-> 0, queued |-> 0]

\* The datagram received is a PULL_RESP for a class A downlink.
Downlink ==
  /\ pc = "handle" /\ reqs < MaxReq /\ now \in Moments
  /\ \E off \in Offsets :
       LET n == Candidate(q, Count(now),
                  [id |-> NoBeacon, type |-> "A", airtime |-> 1,
                   count |-> Count(now + off), saturating |-> saturating])
       IN  q' = IF Verdict(q, Count(now), n) = "OK" THEN Enqueued(q, n) ELSE q
  /\ reqs' = reqs + 1
  /\ pc' = "recv"
  /\ UNCHANGED <<now, valid, beaconLoop, retry, last, saturating, losses, sent,
                 first, excused>>

NoDownlink ==
  /\ pc = "handle"
  /\ pc' = "recv"
  /\ UNCHANGED <<now, valid, q, beaconLoop, retry, last, saturating, reqs,
                 losses, sent, first, excused>>

-----------------------------------------------------------------------------
Init ==
  /\ now = 1 /\ valid = FALSE /\ q = <<>>
  /\ pc = "recv" /\ beaconLoop = 0 /\ retry = 0 /\ last = 0
  /\ saturating \in BOOLEAN
  /\ reqs = 0 /\ losses = 0 /\ sent = {} /\ first = 0 /\ excused = {}

Down == \/ Recv \/ BeaconQueued \/ BeaconRefused \/ BeaconLoopEnds
        \/ Downlink \/ NoDownlink

\* The end of the time that is modelled.
Ended == now = End /\ UNCHANGED vars

Next == Tick \/ LoseGps \/ RegainGps \/ JitPoll \/ Down \/ Ended

Spec == Init /\ [][Next]_vars
-----------------------------------------------------------------------------
TypeOK ==
  /\ now \in 1 .. End /\ valid \in BOOLEAN
  /\ pc \in {"recv", "beacon", "handle"}
  /\ beaconLoop \in 0 .. NumBeacon /\ retry \in 0 .. MaxRetry /\ last \in Nat
  /\ Len(q) <= QueueMax

\* The queue never holds more beacons than are wanted, although their number
\* is read without a lock while thread_jit takes beacons out.
NoExcessBeacon ==
  Beacons + (IF pc = "beacon" THEN beaconLoop ELSE 0) <= NumBeacon

\* Is there a reason for the beacon id to leave at time at?
MayLeaveAt(id, at) ==
  \/ at = id.gps
  \/ id.gps - id.queued < MaxAdvance - W
  \/ id.gps - id.queued >= W
  \/ id.gps < id.queued /\ Count(id.queued) + Lead >= W

\* A beacon that is sent is sent at the GPS time in its payload, as the comment on
\* the computation of that time says, except in three cases: the time was almost
\* a turn of the counter in the past, after a long loss of the GPS; the retries
\* went a turn or more ahead; or the time was past, the sum in criterion 1 wrapped,
\* and the cast to uint32_t made "now" of it.
BeaconOffExplained ==
  \A b \in sent : MayLeaveAt(b.id, b.at)

\* From the first beacon queued on, a beacon time passes without a beacon only if
\* jit_enqueue has refused that very beacon, because it was too late, in conflict
\* with a packet or with a misplaced beacon, or behind the wrap of the counter; or
\* has accepted it in vain.
MissExplained ==
  \A g \in 1 .. now : g % P = 0 /\ first # 0 /\ first <= g /\ g < last =>
      \/ \E b \in sent : b.id.gps = g
      \/ \E i \in DOMAIN q : q[i].id.gps = g
      \/ g \in excused
=============================================================================
