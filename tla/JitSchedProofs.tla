--------------------------- MODULE JitSchedProofs ---------------------------
(***************************************************************************)
(* Proofs about JitSched and, in the last section, about Beacon, which use *)
(* the same queue, for every modulus of the counter, all delays and all    *)
(* requests:                                                               *)
(*                                                                         *)
(*   - away from the wrap of the counter, jit_enqueue judges the departure *)
(*     time of a class A or B downlink exactly, whatever is in the queue   *)
(*     and however long thread_down has waited for it;                     *)
(*   - the transmissions the queue promises do not overlap;                *)
(*   - types, with the capacity of the queue and num_beacon;               *)
(*   - thread_jit dequeues the packet it has peeked;                       *)
(*   - a packet accepted in time and in conflict with no other is neither  *)
(*     purged nor aborted nor dropped, and is programmed in time (both     *)
(*     from an invariant on where each packet is and how late it can be);  *)
(*   - no more beacons are queued than are wanted.                         *)
(*                                                                         *)
(* In between are the lemmas about the operators of JitQueue: a purge      *)
(* selects nodes of the queue, jit_enqueue inserts one, jit_dequeue is the *)
(* inverse of an insertion.  The recursion of the purge is followed by     *)
(* Induction, over the set of the indices for which a fact holds.          *)
(***************************************************************************)
EXTENDS JitSched, SequenceTheorems, FiniteSetTheorems, WellFoundedInduction, TLAPS

\* The times thread_down works with are values of the counter.
DownTimes ==
  /\ clock \in Time /\ dtime \in Time
  /\ dreq.count \in Time /\ dreq.type \in PktType

IInv == DownTimes /\ VerdictRightBeforeWrap

-----------------------------------------------------------------------------
\* The delays are positive, and the smaller below the larger.
LEMMA Delays ==
  /\ W \in Nat \ {0} /\ Lead \in Nat \ {0} /\ MaxAdvance \in Nat \ {0}
  /\ Lead < MaxAdvance /\ 4 * MaxAdvance < W
BY DelaysAssumption DEF Lead

\* Times are reduced modulo W.
LEMMA TimeType ==
  ASSUME NEW t \in Int
  PROVE  t % W \in Time
BY Delays DEF Time

\* Division with remainder by W.
LEMMA ModParts ==
  ASSUME NEW x \in Int
  PROVE  /\ x = W * (x \div W) + (x % W)
         /\ x \div W \in Int /\ x % W \in 0 .. W - 1
BY Delays

LEMMA ModUnique ==
  ASSUME NEW m \in Int, NEW s \in 0 .. W - 1
  PROVE  (W * m + s) % W = s
BY Delays

\* Terms may be reduced before they are added or subtracted.
LEMMA ModAdd ==
  ASSUME NEW a \in Int, NEW b \in Int
  PROVE  ((a % W) + b) % W = (a + b) % W
<1> DEFINE r == a % W
           s == (r + b) % W
           p == a \div W
           q == (r + b) \div W
<1>1. a = W * p + r /\ p \in Int /\ r \in Int
  BY ModParts
<1>2. r + b = W * q + s /\ q \in Int /\ s \in 0 .. W - 1
  <2>1. r + b \in Int
    BY <1>1
  <2> HIDE DEF r
  <2>2. QED
    BY <2>1, ModParts
<1>3. a + b = W * (p + q) + s
  <2> HIDE DEF r, s, p, q
  <2>1. W * (p + q) = W * p + W * q
    BY <1>1, <1>2, Delays
  <2>2. QED
    BY <1>1, <1>2, <2>1, Delays
<1>4. (a + b) % W = s
  <2> HIDE DEF r, s, p, q
  <2>1. p + q \in Int
    BY <1>1, <1>2
  <2>2. QED
    BY <1>2, <1>3, <2>1, ModUnique
<1>5. QED
  BY <1>4

LEMMA ModSub ==
  ASSUME NEW a \in Int, NEW b \in Int
  PROVE  ((a % W) - (b % W)) % W = (a - b) % W
<1> DEFINE s == b % W
           q == b \div W
           c == (a % W) - s
<1>1. b = W * q + s /\ q \in Int /\ s \in 0 .. W - 1 /\ s \in Int
  BY ModParts, Delays
<1> HIDE DEF s, q
<1>2. c % W = (a - s) % W
  <2>1. ((a % W) + (-s)) % W = (a + (-s)) % W
    BY <1>1, ModAdd
  <2>2. (a % W) + (-s) = c /\ a + (-s) = a - s
    BY <1>1, ModParts
  <2>3. QED
    BY <2>1, <2>2
<1>3. (a - s) % W = (a - b) % W
  <2> DEFINE d == (a - b) % W
             e == (a - b) \div W
  <2>1. a - b = W * e + d /\ e \in Int /\ d \in 0 .. W - 1
    <3>1. a - b \in Int
      OBVIOUS
    <3>2. QED
      BY <3>1, ModParts
  <2> HIDE DEF d, e
  <2>2. W * (e + q) = W * e + W * q
    BY <1>1, <2>1, Delays
  <2>3. a - s = W * (e + q) + d /\ e + q \in Int
    BY <1>1, <2>1, <2>2, Delays
  <2>4. (a - s) % W = d
    BY <2>1, <2>3, ModUnique
  <2>5. QED
    BY <2>4 DEF d
<1>4. QED
  BY <1>2, <1>3 DEF s

\* How far a time lies ahead of another, without the modulus.
LEMMA AheadValue ==
  ASSUME NEW c \in Time, NEW t \in Time
  PROVE  Ahead(c, t) = IF t <= c THEN c - t ELSE c - t + W
<1>1. W \in Nat \ {0} /\ c \in 0 .. W - 1 /\ t \in 0 .. W - 1
  BY Delays DEF Time
<1>2. CASE t <= c
  <2>1. c - t \in 0 .. W - 1
    BY <1>1, <1>2
  <2>2. QED
    BY <1>1, <1>2, <2>1 DEF Ahead
<1>3. CASE ~(t <= c)
  <2>1. c - t + W \in 0 .. W - 1
    BY <1>1, <1>3
  <2>2. (c - t) % W = c - t + W
    BY <1>1, <2>1
  <2>3. QED
    BY <1>3, <2>2 DEF Ahead
<1>4. QED
  BY <1>2, <1>3

\* If no admissible time lies behind the wrap, the two comparisons that are not
\* modular say what the modular ones would.
LEMMA CriteriaExact ==
  ASSUME NEW c \in Time, NEW t \in Time, t + MaxAdvance < W,
         NEW type \in {"A", "B"}
  PROVE  /\ TooLate(c, t) => Ahead(c, t) \notin Lead + 1 .. MaxAdvance
         /\ TooEarly(type, c, t) => Ahead(c, t) \notin Lead + 1 .. MaxAdvance
         /\ ~TooLate(c, t) /\ ~TooEarly(type, c, t)
              => Ahead(c, t) \in Lead + 1 .. MaxAdvance
<1>1. /\ W \in Nat \ {0} /\ c \in 0 .. W - 1 /\ t \in 0 .. W - 1
      /\ Lead \in Nat /\ MaxAdvance \in Nat /\ Lead < MaxAdvance
  BY Delays DEF Time
<1>2. Lead + t \in 0 .. W - 1
  BY <1>1
<1>3. (Lead + t) % W = Lead + t
  BY <1>1, <1>2
<1>4. TooLate(c, t) <=> c <= Lead + t
  BY <1>3 DEF TooLate
<1>5. TooEarly(type, c, t) <=> c > MaxAdvance + t
  BY DEF TooEarly
<1>6. Ahead(c, t) = IF t <= c THEN c - t ELSE c - t + W
  BY AheadValue
<1>7. QED
  BY <1>1, <1>4, <1>5, <1>6

\* What jit_enqueue returns says which of the two comparisons have been passed.
LEMMA VerdictMeaning ==
  ASSUME NEW q, NEW t, NEW n
  PROVE  LET v == Verdict(q, t, n)
         IN  /\ v = "TOO_LATE" => TooLate(n.count, t)
             /\ v = "TOO_EARLY" => TooEarly(n.type, n.count, t)
             /\ v \in {"OK", "COLLISION_PACKET", "COLLISION_BEACON"} =>
                  ~TooLate(n.count, t) /\ ~TooEarly(n.type, n.count, t)
BY DEF Verdict

-----------------------------------------------------------------------------
\* The counter starts below W, and nothing has been judged.
LEMMA InitInv == Init => IInv
BY SchedAssumption, Delays
DEF Init, IInv, DownTimes, NoReq, PktType, Time, VerdictRightBeforeWrap

\* thread_down reads the counter, and requests are reduced to it.
LEMMA DownTimesStep ==
  ASSUME DownTimes, [Next]_vars
  PROVE  DownTimes'
<1>1. CASE DownSample
  <2>1. PICK r \in Requests, saturating \in BOOLEAN :
          dreq' = [id |-> nReq + 1, type |-> r.type, airtime |-> r.airtime,
                   count |-> (clock + r.off) % W, saturating |-> saturating]
    BY <1>1 DEF DownSample
  <2>2. r.type \in PktType /\ clock + r.off \in Int
    BY SchedAssumption, Delays DEF DownTimes, Time
  <2>3. (clock + r.off) % W \in Time
    BY <2>2, TimeType
  <2>4. UNCHANGED clock /\ dtime' = clock
    BY <1>1 DEF DownSample
  <2>5. QED
    BY <2>1, <2>2, <2>3, <2>4 DEF DownTimes
<1>2. CASE DownEnqueue
  <2>1. UNCHANGED <<clock, dtime>> /\ dreq' = NoReq
    BY <1>2 DEF DownEnqueue
  <2>2. NoReq.count \in Time /\ NoReq.type \in PktType
    BY Delays DEF NoReq, Time, PktType
  <2>3. QED
    BY <2>1, <2>2 DEF DownTimes
<1>3. CASE Tick
  <2>1. clock' = (clock + 1) % W /\ UNCHANGED <<dtime, dreq>>
    BY <1>3 DEF Tick, down
  <2>2. clock + 1 \in Int
    BY Delays DEF DownTimes, Time
  <2>3. QED
    BY <2>1, <2>2, TimeType DEF DownTimes
<1>4. CASE UNCHANGED <<clock, dtime, dreq>>
  BY <1>4 DEF DownTimes
<1>5. QED
  BY <1>1, <1>2, <1>3, <1>4
  DEF Next, JitSample, JitPeek, JitDequeue, JitStatus, JitSend, JitSendFails, Ended,
      down, vars

\* A new verdict is right, and the last one stays so.
LEMMA VerdictStep ==
  ASSUME IInv, [Next]_vars
  PROVE  VerdictRightBeforeWrap'
<1>1. CASE DownEnqueue
  <2> DEFINE n == Candidate(queue, dtime, dreq)
             v == Verdict(queue, dtime, n)
  <2>1. verdict' = [error |-> v, type |-> n.type, count |-> n.count, at |-> dtime]
    BY <1>1 DEF DownEnqueue
  <2>2. /\ n.type = dreq.type
        /\ n.type \in {"A", "B"} => n.count = dreq.count
    BY DEF Candidate
  <2>3. /\ v = "TOO_LATE" => TooLate(n.count, dtime)
        /\ v = "TOO_EARLY" => TooEarly(n.type, n.count, dtime)
        /\ v \in {"OK", "COLLISION_PACKET", "COLLISION_BEACON"} =>
             ~TooLate(n.count, dtime) /\ ~TooEarly(n.type, n.count, dtime)
    BY VerdictMeaning
  <2>4. dtime \in Time /\ dreq.count \in Time
    BY DEF IInv, DownTimes
  <2> HIDE DEF n, v
  <2> SUFFICES ASSUME n.type \in {"A", "B"}, dtime + MaxAdvance < W
               PROVE  LET ahead == Ahead(n.count, dtime)
                      IN  /\ v \in {"TOO_LATE", "TOO_EARLY"}
                               => ahead \notin Lead + 1 .. MaxAdvance
                          /\ v \in {"OK", "COLLISION_PACKET", "COLLISION_BEACON"}
                               => ahead \in Lead + 1 .. MaxAdvance
    BY <2>1 DEF VerdictRightBeforeWrap
  <2>5. n.count \in Time
    BY <2>2, <2>4
  <2>6. QED
    BY <2>3, <2>4, <2>5, CriteriaExact
<1>2. CASE UNCHANGED verdict
  BY <1>2 DEF IInv, VerdictRightBeforeWrap
<1>3. QED
  BY <1>1, <1>2
  DEF Next, DownSample, JitSample, JitPeek, JitDequeue, JitStatus, JitSend,
      JitSendFails, Tick, Ended, down, vars

\* Away from the wrap, jit_enqueue accepts or rejects the time of a downlink
\* exactly as it should, for all delays and every modulus.
THEOREM VerdictsRight == Spec => []VerdictRightBeforeWrap
<1>1. IInv /\ [Next]_vars => IInv'
  BY DownTimesStep, VerdictStep DEF IInv
<1>2. IInv => VerdictRightBeforeWrap
  BY DEF IInv
<1>3. QED
  BY InitInv, <1>1, <1>2, PTL DEF Spec

-----------------------------------------------------------------------------
(* Induction, and what is selected from a sequence or inserted in it *)

\* Induction up to n, for a set.
LEMMA Induction ==
  ASSUME NEW n \in Nat, NEW T, 0 \in T,
         \A k \in 0 .. n - 1 : k \in T => k + 1 \in T
  PROVE  0 .. n \subseteq T
<1> DEFINE R == {k \in 0 .. n : k \notin T}
<1> SUFFICES ASSUME R # {} PROVE FALSE
  OBVIOUS
<1>1. R \subseteq Nat
  OBVIOUS
<1> HIDE DEF R
<1>2. \E x \in R : \A y \in R : <<y, x>> \notin OpToRel(<, Nat)
  BY <1>1, WFMin, NatLessThanWellFounded, Zenon
<1>3. PICK x \in R : \A y \in R : ~(y < x)
  BY <1>1, <1>2 DEF OpToRel
<1>4. x \in 1 .. n /\ x \notin T
  BY <1>3 DEF R
<1>5. x - 1 \notin R
  BY <1>3, <1>4
<1>6. x - 1 \in 0 .. n - 1 /\ x - 1 \in T
  BY <1>4, <1>5 DEF R
<1>7. QED
  BY <1>4, <1>6

\* A set of natural numbers has a least one.
LEMMA LeastOne ==
  ASSUME NEW T \in SUBSET Nat, T # {}
  PROVE  \E i \in T : \A j \in T : i <= j
<1>1. \E x \in T : \A y \in T : <<y, x>> \notin OpToRel(<, Nat)
  BY WFMin, NatLessThanWellFounded, Zenon
<1>2. PICK x \in T : \A y \in T : ~(y < x)
  BY <1>1 DEF OpToRel
<1>3. QED
  BY <1>2

\* p has some of the nodes of q, in their order.
Selects(p, q) ==
  /\ Len(p) <= Len(q)
  /\ \E e \in [1 .. Len(p) -> 1 .. Len(q)] :
       /\ \A j, k \in 1 .. Len(p) : j < k => e[j] < e[k]
       /\ \A k \in 1 .. Len(p) : p[k] = q[e[k]]

\* p is q with another node in the k-th place.
IsInserted(q, p, k) ==
  /\ k \in 1 .. Len(p) /\ Len(p) = Len(q) + 1
  /\ \A i \in 1 .. Len(q) : q[i] = p[IF i < k THEN i ELSE i + 1]

\* e tells which node of q each node of p is.
Picks(e, p, q) ==
  /\ e \in [1 .. Len(p) -> 1 .. Len(q)]
  /\ \A j, k \in 1 .. Len(p) : j < k => e[j] < e[k]
  /\ \A j, k \in 1 .. Len(p) : e[j] = e[k] => j = k
  /\ \A k \in 1 .. Len(p) : p[k] = q[e[k]]

\* No node of q is selected twice.
LEMMA SelectsFacts ==
  ASSUME NEW S, NEW p \in Seq(S), NEW q \in Seq(S), Selects(p, q)
  PROVE  \E e : Picks(e, p, q)
<1>1. PICK e \in [1 .. Len(p) -> 1 .. Len(q)] :
        /\ \A j, k \in 1 .. Len(p) : j < k => e[j] < e[k]
        /\ \A k \in 1 .. Len(p) : p[k] = q[e[k]]
  BY DEF Selects
<1>2. ASSUME NEW j \in 1 .. Len(p), NEW k \in 1 .. Len(p), e[j] = e[k]
      PROVE  j = k
  <2>1. j \in Int /\ k \in Int /\ e[j] \in Int /\ e[k] \in Int
    BY <1>1, LenProperties
  <2>2. ~(j < k) /\ ~(k < j)
    BY <1>1, <1>2, <2>1
  <2>3. QED
    BY <2>1, <2>2
<1>3. Picks(e, p, q)
  BY <1>1, <1>2 DEF Picks
<1>4. QED
  BY <1>3

LEMMA SelectsItself ==
  ASSUME NEW S, NEW s \in Seq(S)
  PROVE  Selects(s, s)
<1> DEFINE e == [k \in 1 .. Len(s) |-> k]
<1>1. e \in [1 .. Len(s) -> 1 .. Len(s)] /\ Len(s) \in Nat
  BY LenProperties
<1>2. \A i \in 1 .. Len(s) : e[i] = i
  OBVIOUS
<1> HIDE DEF e
<1>3. Len(s) <= Len(s)
  BY <1>1
<1>4. QED
  BY <1>1, <1>2, <1>3 DEF Selects

LEMMA SelectsTransitive ==
  ASSUME NEW S, NEW a \in Seq(S), NEW b \in Seq(S), NEW c \in Seq(S),
         Selects(a, b), Selects(b, c)
  PROVE  Selects(a, c)
<1>1. Len(a) \in Nat /\ Len(b) \in Nat /\ Len(c) \in Nat
  BY LenProperties
<1>2. PICK e \in [1 .. Len(a) -> 1 .. Len(b)] :
        /\ \A j, k \in 1 .. Len(a) : j < k => e[j] < e[k]
        /\ \A k \in 1 .. Len(a) : a[k] = b[e[k]]
  BY DEF Selects
<1>3. PICK f \in [1 .. Len(b) -> 1 .. Len(c)] :
        /\ \A j, k \in 1 .. Len(b) : j < k => f[j] < f[k]
        /\ \A k \in 1 .. Len(b) : b[k] = c[f[k]]
  BY DEF Selects
<1> DEFINE g == [k \in 1 .. Len(a) |-> f[e[k]]]
<1>4. g \in [1 .. Len(a) -> 1 .. Len(c)]
  BY <1>2, <1>3
<1>5. ASSUME NEW j \in 1 .. Len(a), NEW k \in 1 .. Len(a), j < k
      PROVE  g[j] < g[k]
  <2>1. e[j] \in 1 .. Len(b) /\ e[k] \in 1 .. Len(b) /\ e[j] < e[k]
    BY <1>2, <1>5
  <2>2. f[e[j]] < f[e[k]]
    BY <1>3, <2>1
  <2>3. QED
    BY <2>2
<1>6. \A k \in 1 .. Len(a) : a[k] = c[g[k]]
  BY <1>2, <1>3
<1> HIDE DEF g
<1>7. Len(a) <= Len(c)
  BY <1>1 DEF Selects
<1>8. QED
  BY <1>4, <1>5, <1>6, <1>7 DEF Selects

\* What a node is inserted into, and what remains when it is removed, is part of
\* the whole.
LEMMA SelectsInserted ==
  ASSUME NEW S, NEW s \in Seq(S), NEW p \in Seq(S), NEW k, IsInserted(s, p, k)
  PROVE  Selects(s, p)
<1> DEFINE e == [i \in 1 .. Len(s) |-> IF i < k THEN i ELSE i + 1]
<1>1. Len(s) \in Nat /\ Len(p) = Len(s) + 1 /\ k \in 1 .. Len(s) + 1
  BY LenProperties DEF IsInserted
<1>2. e \in [1 .. Len(s) -> 1 .. Len(p)]
  BY <1>1
<1>3. \A i, j \in 1 .. Len(s) : i < j => e[i] < e[j]
  BY <1>1
<1>4. \A i \in 1 .. Len(s) : s[i] = p[e[i]]
  BY DEF IsInserted
<1> HIDE DEF e
<1>5. Len(s) <= Len(p)
  BY <1>1
<1>6. QED
  BY <1>2, <1>3, <1>4, <1>5 DEF Selects

LEMMA SelectsTail ==
  ASSUME NEW S, NEW s \in Seq(S), s # <<>>
  PROVE  Tail(s) \in Seq(S) /\ Selects(Tail(s), s)
<1>1. /\ Tail(s) \in Seq(S) /\ Len(s) = Len(Tail(s)) + 1 /\ Len(s) \in Nat
      /\ Len(Tail(s)) \in Nat
      /\ \A i \in 1 .. Len(Tail(s)) : Tail(s)[i] = s[i + 1]
  BY HeadTailProperties, LenProperties, EmptySeq
<1>2. IsInserted(Tail(s), s, 1)
  BY <1>1 DEF IsInserted
<1>3. QED
  BY <1>1, <1>2, SelectsInserted

LEMMA InsertAtFacts ==
  ASSUME NEW S, NEW s \in Seq(S), NEW k \in 1 .. Len(s) + 1, NEW x \in S
  PROVE  /\ InsertAt(s, k, x) \in Seq(S)
         /\ IsInserted(s, InsertAt(s, k, x), k)
         /\ InsertAt(s, k, x)[k] = x
<1> DEFINE n == Len(s)
           a == SubSeq(s, 1, k - 1)
           b == SubSeq(s, k, n)
<1>1. n \in Nat /\ k \in Nat /\ 1 <= k /\ k <= n + 1 /\ \A i \in 1 .. n : s[i] \in S
  BY LenProperties, ElementOfSeq
<1>2. /\ a \in Seq(S) /\ Len(a) = k - 1
      /\ \A i \in 1 .. k - 1 : a[i] = s[i]
  <2>1. /\ a \in Seq(S) /\ Len(a) = IF 1 <= k - 1 THEN k - 1 - 1 + 1 ELSE 0
        /\ \A i \in 1 .. k - 1 - 1 + 1 : a[i] = s[1 + i - 1]
    <3>1. 1 \in Int /\ k - 1 \in Int /\ \A i \in 1 .. k - 1 : s[i] \in S
      BY <1>1
    <3> HIDE DEF n
    <3>2. QED
      BY <3>1, SubSeqProperties
  <2> HIDE DEF a
  <2>2. QED
    BY <1>1, <2>1
<1>3. /\ b \in Seq(S) /\ Len(b) = n - k + 1
      /\ \A i \in 1 .. n - k + 1 : b[i] = s[k + i - 1]
  <2>1. /\ b \in Seq(S) /\ Len(b) = IF k <= n THEN n - k + 1 ELSE 0
        /\ \A i \in 1 .. n - k + 1 : b[i] = s[k + i - 1]
    <3>1. n \in Int /\ k \in Int /\ \A i \in k .. n : s[i] \in S
      BY <1>1
    <3> HIDE DEF n
    <3>2. QED
      BY <3>1, SubSeqProperties
  <2> HIDE DEF b
  <2>2. QED
    BY <1>1, <2>1
<1> DEFINE c == a \o <<x>>
           p == c \o b
<1>4. InsertAt(s, k, x) = p
  BY DEF InsertAt
<1> HIDE DEF a, b
<1>5. c \in Seq(S) /\ Len(c) = k /\ \A i \in 1 .. k : c[i] = IF i < k THEN s[i] ELSE x
  <2>1. <<x>> \in Seq(S) /\ Len(<<x>>) = 1 /\ <<x>>[1] = x
    OBVIOUS
  <2>2. /\ c \in Seq(S) /\ Len(c) = Len(a) + Len(<<x>>)
        /\ \A i \in 1 .. Len(a) + Len(<<x>>) :
             c[i] = IF i <= Len(a) THEN a[i] ELSE <<x>>[i - Len(a)]
    BY <1>2, <2>1, ConcatProperties
  <2> HIDE DEF c
  <2>3. ASSUME NEW i \in 1 .. k
        PROVE  c[i] = IF i < k THEN s[i] ELSE x
    <3>1. c[i] = IF i <= k - 1 THEN a[i] ELSE <<x>>[i - (k - 1)]
      BY <1>1, <1>2, <2>1, <2>2
    <3>2. CASE i < k
      BY <1>1, <1>2, <3>1, <3>2
    <3>3. CASE i = k
      <4>1. c[i] = <<x>>[1]
        BY <1>1, <3>1, <3>3
      <4>2. QED
        BY <1>1, <2>1, <3>3, <4>1
    <3>4. QED
      BY <1>1, <3>2, <3>3
  <2>4. QED
    BY <1>1, <1>2, <2>1, <2>2, <2>3
<1> HIDE DEF c
<1>6. /\ p \in Seq(S) /\ Len(p) = Len(c) + Len(b)
      /\ \A i \in 1 .. Len(c) + Len(b) :
           p[i] = IF i <= Len(c) THEN c[i] ELSE b[i - Len(c)]
  BY <1>3, <1>5, ConcatProperties
<1> HIDE DEF p, n
<1>7. Len(p) = n + 1 /\ k \in 1 .. n + 1
  BY <1>1, <1>3, <1>5, <1>6
<1>8. p[k] = x
  BY <1>1, <1>3, <1>5, <1>6
<1>9. ASSUME NEW i \in 1 .. n
      PROVE  s[i] = p[IF i < k THEN i ELSE i + 1]
  <2>1. CASE i < k
    BY <1>1, <1>3, <1>5, <1>6, <2>1
  <2>2. CASE ~(i < k)
    <3>1. /\ i + 1 \in 1 .. k + (n - k + 1) /\ ~(i + 1 <= k)
          /\ i + 1 - k \in 1 .. n - k + 1 /\ k + (i + 1 - k) - 1 = i
      BY <1>1, <2>2
    <3>2. p[i + 1] = b[i + 1 - k] /\ b[i + 1 - k] = s[i]
      BY <1>3, <1>5, <1>6, <3>1
    <3>3. QED
      BY <2>2, <3>2
  <2>3. QED
    BY <2>1, <2>2
<1>10. QED
  BY <1>4, <1>6, <1>7, <1>8, <1>9 DEF IsInserted, n

LEMMA RemoveAtFacts ==
  ASSUME NEW S, NEW s \in Seq(S), NEW k \in 1 .. Len(s)
  PROVE  /\ RemoveAt(s, k) \in Seq(S)
         /\ IsInserted(RemoveAt(s, k), s, k)
<1> DEFINE n == Len(s)
           a == SubSeq(s, 1, k - 1)
           b == SubSeq(s, k + 1, n)
<1>1. n \in Nat /\ k \in Nat /\ 1 <= k /\ k <= n /\ \A i \in 1 .. n : s[i] \in S
  BY LenProperties, ElementOfSeq
<1>2. /\ a \in Seq(S) /\ Len(a) = k - 1
      /\ \A i \in 1 .. k - 1 : a[i] = s[i]
  <2>1. /\ a \in Seq(S) /\ Len(a) = IF 1 <= k - 1 THEN k - 1 - 1 + 1 ELSE 0
        /\ \A i \in 1 .. k - 1 - 1 + 1 : a[i] = s[1 + i - 1]
    <3>1. 1 \in Int /\ k - 1 \in Int /\ \A i \in 1 .. k - 1 : s[i] \in S
      BY <1>1
    <3> HIDE DEF n
    <3>2. QED
      BY <3>1, SubSeqProperties
  <2> HIDE DEF a
  <2>2. QED
    BY <1>1, <2>1
<1>3. /\ b \in Seq(S) /\ Len(b) = n - k
      /\ \A i \in 1 .. n - k : b[i] = s[k + i]
  <2>1. /\ b \in Seq(S) /\ Len(b) = IF k + 1 <= n THEN n - (k + 1) + 1 ELSE 0
        /\ \A i \in 1 .. n - (k + 1) + 1 : b[i] = s[(k + 1) + i - 1]
    <3>1. n \in Int /\ k + 1 \in Int /\ \A i \in k + 1 .. n : s[i] \in S
      BY <1>1
    <3> HIDE DEF n
    <3>2. QED
      BY <3>1, SubSeqProperties
  <2> HIDE DEF b
  <2>2. ASSUME NEW i \in 1 .. n - k
        PROVE  b[i] = s[k + i]
    <3>1. i \in 1 .. n - (k + 1) + 1 /\ (k + 1) + i - 1 = k + i
      BY <1>1
    <3>2. QED
      BY <2>1, <3>1
  <2>3. QED
    BY <1>1, <2>1, <2>2
<1> DEFINE p == a \o b
<1>4. RemoveAt(s, k) = p
  BY DEF RemoveAt
<1> HIDE DEF a, b
<1>5. /\ p \in Seq(S) /\ Len(p) = Len(a) + Len(b)
      /\ \A i \in 1 .. Len(a) + Len(b) :
           p[i] = IF i <= Len(a) THEN a[i] ELSE b[i - Len(a)]
  BY <1>2, <1>3, ConcatProperties
<1> HIDE DEF p, n
<1>6. Len(p) = n - 1
  BY <1>1, <1>2, <1>3, <1>5
<1>7. ASSUME NEW i \in 1 .. n - 1
      PROVE  p[i] = s[IF i < k THEN i ELSE i + 1]
  <2>1. CASE i < k
    BY <1>1, <1>2, <1>3, <1>5, <2>1
  <2>2. CASE ~(i < k)
    <3>1. /\ i \in 1 .. (k - 1) + (n - k) /\ ~(i <= k - 1)
          /\ i - (k - 1) \in 1 .. n - k /\ k + (i - (k - 1)) = i + 1
      BY <1>1, <2>2
    <3>2. p[i] = b[i - (k - 1)] /\ b[i - (k - 1)] = s[i + 1]
      BY <1>2, <1>3, <1>5, <3>1
    <3>3. QED
      BY <2>2, <3>2
  <2>3. QED
    BY <2>1, <2>2
<1>8. k \in 1 .. n /\ n = (n - 1) + 1
  BY <1>1
<1>9. QED
  BY <1>4, <1>5, <1>6, <1>7, <1>8 DEF IsInserted, n

-----------------------------------------------------------------------------
(* The operations of the queue *)

\* The recursion of the purge over the nodes of r.
IsKept(f, r, t) ==
  f = [i \in 1 .. Len(r) |->
         IF i = 1 THEN <<r[1]>>
         ELSE IF Outdated(r[i], t) THEN f[i - 1]
         ELSE Append(f[i - 1], r[i])]

\* There is such a function.
LEMMA KeptExists ==
  ASSUME NEW S, NEW r \in Seq(S), NEW t
  PROVE  \E f : IsKept(f, r, t)
<1> DEFINE n == Len(r)
           Upto(f, m) == f = [i \in 1 .. m |->
                                IF i = 1 THEN <<r[1]>>
                                ELSE IF Outdated(r[i], t) THEN f[i - 1]
                                ELSE Append(f[i - 1], r[i])]
           T == {m \in 0 .. n : \E f : Upto(f, m)}
<1>1. n \in Nat
  BY LenProperties
<1> HIDE DEF n
<1>2. 0 \in T
  <2> DEFINE f == [i \in 1 .. 0 |-> 0]
  <2>1. Upto(f, 0)
    OBVIOUS
  <2> HIDE DEF f, Upto
  <2>2. QED
    BY <1>1, <2>1
<1>3. ASSUME NEW m \in 0 .. n - 1, m \in T
      PROVE  m + 1 \in T
  <2>1. PICK f : Upto(f, m)
    BY <1>3
  <2> DEFINE last == IF m + 1 = 1 THEN <<r[1]>>
                     ELSE IF Outdated(r[m + 1], t) THEN f[m]
                     ELSE Append(f[m], r[m + 1])
             g == [i \in 1 .. m + 1 |-> IF i = m + 1 THEN last ELSE f[i]]
  <2>2. m \in Nat
    BY <1>1
  <2>3. \A i \in 1 .. m : g[i] = f[i]
    BY <2>2
  <2>4. g[m + 1] = last
    BY <2>2
  <2> DEFINE body(h, i) == IF i = 1 THEN <<r[1]>>
                           ELSE IF Outdated(r[i], t) THEN h[i - 1]
                           ELSE Append(h[i - 1], r[i])
  <2>5. ASSUME NEW i \in 1 .. m + 1
        PROVE  g[i] = body(g, i)
    <3>1. CASE i = 1
      <4>1. CASE m = 0
        BY <2>4, <3>1, <4>1
      <4>2. CASE m # 0
        <5>1. 1 \in 1 .. m
          BY <2>2, <4>2
        <5>2. f[1] = <<r[1]>>
          BY <2>1, <5>1
        <5>3. QED
          BY <2>3, <3>1, <5>1, <5>2
      <4>3. QED
        BY <4>1, <4>2
    <3>2. CASE i # 1 /\ i \in 1 .. m
      <4>1. i - 1 \in 1 .. m
        BY <2>2, <3>2
      <4>2. f[i] = body(f, i)
        BY <2>1, <3>2
      <4>3. g[i] = f[i] /\ g[i - 1] = f[i - 1]
        BY <2>3, <3>2, <4>1
      <4> HIDE DEF g
      <4>4. QED
        BY <4>2, <4>3
    <3>3. CASE i # 1 /\ i = m + 1
      <4>1. m \in 1 .. m /\ i - 1 = m
        BY <2>2, <3>3
      <4>2. g[m] = f[m]
        BY <2>3, <4>1
      <4>3. g[i] = last
        BY <2>4, <3>3
      <4> HIDE DEF g
      <4>4. QED
        BY <3>3, <4>1, <4>2, <4>3
    <3>4. QED
      BY <2>2, <3>1, <3>2, <3>3
  <2>6. g = [i \in 1 .. m + 1 |-> body(g, i)]
    <3>1. g = [i \in 1 .. m + 1 |-> g[i]]
      OBVIOUS
    <3> HIDE DEF g, body
    <3>2. QED
      BY <2>5, <3>1
  <2>7. Upto(g, m + 1)
    BY <2>6
  <2> HIDE DEF g, Upto
  <2>8. m + 1 \in 0 .. n
    BY <1>1
  <2>9. QED
    BY <2>7, <2>8
<1> HIDE DEF T
<1>4. 0 .. n \subseteq T
  BY <1>1, <1>2, <1>3, Induction
<1>5. n \in T
  BY <1>1, <1>4
<1>6. QED
  BY <1>5 DEF T, IsKept, n

\* p has the first node of r, and all of its first i that are not outdated.
Keeps(p, r, i, t) ==
  /\ 1 \in 1 .. Len(p) /\ p[1] = r[1]
  /\ \A j \in 1 .. i : Outdated(r[j], t) \/ \E k \in 1 .. Len(p) : p[k] = r[j]

\* What is kept of r has some of its nodes, and those that are not outdated.
LEMMA KeptSelects ==
  ASSUME NEW S, NEW r \in Seq(S), r # <<>>, NEW t, NEW f, IsKept(f, r, t)
  PROVE  /\ f[Len(r)] \in Seq(S) /\ Selects(f[Len(r)], r)
         /\ Keeps(f[Len(r)], r, Len(r), t)
<1> DEFINE n == Len(r)
           Part(p, i) ==
             /\ p \in Seq(S) /\ Len(p) <= i /\ Keeps(p, r, i, t)
             /\ \E e \in [1 .. Len(p) -> 1 .. i] :
                  /\ \A j, k \in 1 .. Len(p) : j < k => e[j] < e[k]
                  /\ \A k \in 1 .. Len(p) : p[k] = r[e[k]]
           T == {i \in 0 .. n : i = 0 \/ Part(f[i], i)}
<1>1. n \in Nat /\ n # 0 /\ \A i \in 1 .. n : r[i] \in S
  BY LenProperties, EmptySeq, ElementOfSeq
<1>2. f[1] = <<r[1]>>
  BY <1>1 DEF IsKept
<1>3. \A i \in 2 .. n : f[i] = IF Outdated(r[i], t) THEN f[i - 1]
                               ELSE Append(f[i - 1], r[i])
  <2>1. ASSUME NEW i \in 2 .. n
        PROVE  f[i] = IF Outdated(r[i], t) THEN f[i - 1] ELSE Append(f[i - 1], r[i])
    <3>1. i \in 1 .. n /\ i # 1
      BY <1>1
    <3>2. f[i] = IF i = 1 THEN <<r[1]>>
                 ELSE IF Outdated(r[i], t) THEN f[i - 1]
                 ELSE Append(f[i - 1], r[i])
      BY <3>1 DEF IsKept
    <3>3. QED
      BY <3>1, <3>2
  <2>2. QED
    BY <2>1
<1> HIDE DEF n
<1>4. 0 \in T
  BY <1>1
<1>5. ASSUME NEW i \in 0 .. n - 1, i \in T
      PROVE  i + 1 \in T
  <2>1. i \in Nat /\ i + 1 \in 1 .. n /\ r[i + 1] \in S
    BY <1>1
  <2>2. CASE i = 0
    <3> DEFINE p == f[1]
               e == [k \in 1 .. 1 |-> 1]
    <3>1. p \in Seq(S) /\ Len(p) = 1 /\ p[1] = r[1]
      <4>1. <<r[1]>> \in Seq(S) /\ Len(<<r[1]>>) = 1 /\ <<r[1]>>[1] = r[1]
        BY <2>1, <2>2
      <4>2. QED
        BY <1>2, <4>1
    <3>2. e \in [1 .. 1 -> 1 .. 1] /\ \A k \in 1 .. 1 : e[k] = 1 /\ k = 1
      OBVIOUS
    <3> HIDE DEF p, e
    <3>3. Part(p, 1)
      <4>1. Keeps(p, r, 1, t)
        BY <3>1 DEF Keeps
      <4>2. \A j, k \in 1 .. Len(p) : ~(j < k)
        BY <3>1
      <4>3. QED
        BY <3>1, <3>2, <4>1, <4>2
    <3> HIDE DEF Part
    <3>4. Part(f[i + 1], i + 1)
      BY <2>2, <3>3 DEF p
    <3>5. QED
      BY <1>1, <2>1, <3>4
  <2>3. CASE i # 0
    <3> DEFINE p == f[i]
    <3>1. Part(p, i)
      BY <1>5, <2>3
    <3>2. PICK e \in [1 .. Len(p) -> 1 .. i] :
            /\ \A j, k \in 1 .. Len(p) : j < k => e[j] < e[k]
            /\ \A k \in 1 .. Len(p) : p[k] = r[e[k]]
      BY <3>1
    <3>3. p \in Seq(S) /\ Len(p) \in Nat /\ Len(p) <= i /\ Keeps(p, r, i, t)
      BY <3>1, LenProperties
    <3>4. f[i + 1] = IF Outdated(r[i + 1], t) THEN p ELSE Append(p, r[i + 1])
      <4>1. i + 1 \in 2 .. n /\ (i + 1) - 1 = i
        BY <2>1, <2>3
      <4>2. QED
        BY <1>3, <4>1
    <3> HIDE DEF p
    <3>5. CASE Outdated(r[i + 1], t)
      <4>1. e \in [1 .. Len(p) -> 1 .. i + 1] /\ Len(p) <= i + 1
        BY <2>1, <3>2, <3>3
      <4>2. Keeps(p, r, i + 1, t)
        <5>1. \A j \in 1 .. i + 1 : j \in 1 .. i \/ j = i + 1
          BY <2>1
        <5>2. QED
          BY <3>3, <3>5, <5>1 DEF Keeps
      <4>3. Part(p, i + 1)
        BY <3>2, <3>3, <4>1, <4>2
      <4> HIDE DEF Part
      <4>4. QED
        BY <1>1, <2>1, <3>4, <3>5, <4>3
    <3>6. CASE ~Outdated(r[i + 1], t)
      <4> DEFINE z == Append(p, r[i + 1])
                 g == [k \in 1 .. Len(p) + 1 |-> IF k = Len(p) + 1 THEN i + 1 ELSE e[k]]
      <4>1. /\ z \in Seq(S) /\ Len(z) = Len(p) + 1
            /\ \A k \in 1 .. Len(p) : z[k] = p[k]
            /\ z[Len(p) + 1] = r[i + 1]
        BY <2>1, <3>3, AppendProperties
      <4>2. g \in [1 .. Len(p) + 1 -> 1 .. i + 1]
        BY <2>1, <3>2, <3>3
      <4>3. /\ \A k \in 1 .. Len(p) : g[k] = e[k] /\ g[k] \in 1 .. i
            /\ g[Len(p) + 1] = i + 1
        <5>1. \A k \in 1 .. Len(p) : k \in 1 .. Len(p) + 1 /\ k # Len(p) + 1
          BY <3>3
        <5>2. Len(p) + 1 \in 1 .. Len(p) + 1
          BY <3>3
        <5>3. \A k \in 1 .. Len(p) : g[k] = e[k]
          BY <5>1
        <5>4. g[Len(p) + 1] = i + 1
          BY <5>2
        <5> HIDE DEF g
        <5>5. QED
          BY <3>2, <5>3, <5>4
      <4> HIDE DEF z, g
      <4>4. ASSUME NEW j \in 1 .. Len(p) + 1, NEW k \in 1 .. Len(p) + 1, j < k
            PROVE  g[j] < g[k]
        <5>1. j \in 1 .. Len(p) /\ (k \in 1 .. Len(p) \/ k = Len(p) + 1)
          BY <3>3, <4>4
        <5>2. g[j] = e[j] /\ g[j] \in 1 .. i
          BY <4>3, <5>1
        <5>3. CASE k \in 1 .. Len(p)
          BY <3>2, <4>3, <4>4, <5>1, <5>2, <5>3
        <5>4. CASE k = Len(p) + 1
          BY <2>1, <4>3, <5>2, <5>4
        <5>5. QED
          BY <5>1, <5>3, <5>4
      <4>5. \A k \in 1 .. Len(p) + 1 : z[k] = r[g[k]]
        <5>1. \A j \in 1 .. Len(p) + 1 : j \in 1 .. Len(p) \/ j = Len(p) + 1
          BY <3>3
        <5>2. QED
          BY <3>2, <4>1, <4>3, <5>1
      <4>6. Len(z) <= i + 1
        BY <2>1, <3>3, <4>1
      <4>7. /\ g \in [1 .. Len(z) -> 1 .. i + 1]
            /\ \A j, k \in 1 .. Len(z) : j < k => g[j] < g[k]
            /\ \A k \in 1 .. Len(z) : z[k] = r[g[k]]
        BY <4>1, <4>2, <4>4, <4>5
      <4>8. Keeps(z, r, i + 1, t)
        <5>1. \A k \in 1 .. Len(p) : k \in 1 .. Len(z) /\ z[k] = p[k]
          BY <3>3, <4>1
        <5>2. Len(p) + 1 \in 1 .. Len(z)
          BY <3>3, <4>1
        <5>3. \A j \in 1 .. i + 1 : j \in 1 .. i \/ j = i + 1
          BY <2>1
        <5>4. 1 \in 1 .. Len(z) /\ z[1] = r[1]
          BY <3>3, <5>1 DEF Keeps
        <5>5. z[Len(p) + 1] = r[i + 1]
          BY <4>1
        <5>6. ASSUME NEW j \in 1 .. i + 1
              PROVE  Outdated(r[j], t) \/ \E k \in 1 .. Len(z) : z[k] = r[j]
          <6>1. CASE j = i + 1
            BY <5>2, <5>5, <6>1
          <6>2. CASE j \in 1 .. i
            <7>1. Outdated(r[j], t) \/ \E k \in 1 .. Len(p) : p[k] = r[j]
              BY <3>3, <6>2 DEF Keeps
            <7>2. QED
              BY <5>1, <7>1
          <6>3. QED
            BY <5>3, <6>1, <6>2
        <5>7. QED
          BY <5>4, <5>6 DEF Keeps
      <4>9. Part(z, i + 1)
        BY <4>1, <4>6, <4>7, <4>8
      <4> HIDE DEF Part
      <4>10. f[i + 1] = z
        BY <3>4, <3>6 DEF z
      <4>11. Part(f[i + 1], i + 1)
        BY <4>9, <4>10
      <4>12. QED
        BY <1>1, <2>1, <4>11
    <3>7. QED
      BY <3>5, <3>6
  <2>4. QED
    BY <2>2, <2>3
<1> HIDE DEF T
<1>6. 0 .. n \subseteq T
  BY <1>1, <1>4, <1>5, Induction
<1>7. n \in T
  BY <1>1, <1>6
<1>8. Part(f[n], n)
  BY <1>1, <1>7 DEF T
<1>9. QED
  BY <1>8 DEF Selects, n

\* Behind the first, what is kept is not outdated.
LEMMA KeptTimely ==
  ASSUME NEW S, NEW r \in Seq(S), r # <<>>, NEW t, NEW f, IsKept(f, r, t)
  PROVE  \A k \in 2 .. Len(f[Len(r)]) : ~Outdated(f[Len(r)][k], t)
<1> DEFINE n == Len(r)
           Fresh(p) == /\ p \in Seq(S) /\ Len(p) # 0
                       /\ \A k \in 2 .. Len(p) : ~Outdated(p[k], t)
           T == {i \in 0 .. n : i = 0 \/ Fresh(f[i])}
<1>1. n \in Nat /\ n # 0 /\ \A i \in 1 .. n : r[i] \in S
  BY LenProperties, EmptySeq, ElementOfSeq
<1>2. \A i \in 1 .. n : f[i] = IF i = 1 THEN <<r[1]>>
                               ELSE IF Outdated(r[i], t) THEN f[i - 1]
                               ELSE Append(f[i - 1], r[i])
  BY DEF IsKept
<1> HIDE DEF n
<1>3. 0 \in T
  BY <1>1
<1>4. ASSUME NEW i \in 0 .. n - 1, i \in T
      PROVE  i + 1 \in T
  <2>1. i \in Nat /\ i + 1 \in 1 .. n /\ i + 1 \in 0 .. n /\ (i + 1) - 1 = i
    BY <1>1
  <2>2. CASE i = 0
    <3>1. f[i + 1] = <<r[1]>> /\ r[1] \in S
      BY <1>1, <1>2, <2>1, <2>2
    <3>2. Fresh(<<r[1]>>)
      BY <3>1
    <3>3. QED
      BY <2>1, <3>1, <3>2
  <2>3. CASE i # 0
    <3> DEFINE p == f[i]
    <3>1. Fresh(p)
      BY <1>4, <2>3
    <3>2. f[i + 1] = IF Outdated(r[i + 1], t) THEN p ELSE Append(p, r[i + 1])
      BY <1>2, <2>1, <2>3
    <3> HIDE DEF p
    <3>3. CASE Outdated(r[i + 1], t)
      BY <2>1, <3>1, <3>2, <3>3
    <3>4. CASE ~Outdated(r[i + 1], t)
      <4> DEFINE z == Append(p, r[i + 1])
      <4>1. /\ z \in Seq(S) /\ Len(z) = Len(p) + 1 /\ Len(p) \in Nat
            /\ \A k \in 1 .. Len(p) : z[k] = p[k]
            /\ z[Len(p) + 1] = r[i + 1]
        BY <1>1, <2>1, <3>1, AppendProperties, LenProperties
      <4> HIDE DEF z
      <4>2. \A k \in 2 .. Len(z) : (k \in 2 .. Len(p) /\ k \in 1 .. Len(p)) \/ k = Len(p) + 1
        BY <4>1
      <4>3. Fresh(z)
        BY <3>1, <3>4, <4>1, <4>2
      <4>4. QED
        BY <2>1, <3>2, <3>4, <4>3 DEF z
    <3>5. QED
      BY <3>3, <3>4
  <2>4. QED
    BY <2>2, <2>3
<1> HIDE DEF T
<1>5. 0 .. n \subseteq T
  BY <1>1, <1>3, <1>4, Induction
<1>6. n \in T
  BY <1>1, <1>5
<1>7. QED
  BY <1>1, <1>6 DEF T, n

\* The purge leaves some of the nodes: the first if it is not outdated, and all
\* others that are not.
LEMMA PurgedFacts ==
  ASSUME NEW S, NEW s \in Seq(S), NEW t
  PROVE  /\ Purged(s, t) \in Seq(S) /\ Selects(Purged(s, t), s)
         /\ HeadPurged(s, t) \/ s = <<>> \/ Keeps(Purged(s, t), s, Len(s), t)
         /\ \A j \in 1 .. Len(s) :
              Outdated(s[j], t) \/ \E k \in 1 .. Len(Purged(s, t)) : Purged(s, t)[k] = s[j]
<1> DEFINE r == IF HeadPurged(s, t) THEN Tail(s) ELSE s
<1>1. r \in Seq(S) /\ Selects(r, s)
  BY SelectsTail, SelectsItself DEF HeadPurged
<1> HIDE DEF r
<1> DEFINE g == CHOOSE f : IsKept(f, r, t)
<1>2. Purged(s, t) = IF r = <<>> THEN r ELSE g[Len(r)]
  BY DEF Purged, IsKept, r
<1>3. /\ HeadPurged(s, t) => /\ Len(s) = Len(r) + 1 /\ Len(r) \in Nat
                             /\ \A i \in 1 .. Len(r) : r[i] = s[i + 1]
                             /\ Outdated(s[1], t)
      /\ ~HeadPurged(s, t) => r = s
  <2>1. HeadPurged(s, t) => s # <<>> /\ Head(s) = s[1] /\ Outdated(Head(s), t)
    BY HeadTailProperties DEF HeadPurged
  <2>2. HeadPurged(s, t) => /\ r = Tail(s) /\ Len(s) = Len(Tail(s)) + 1
                            /\ \A i \in 1 .. Len(Tail(s)) : Tail(s)[i] = s[i + 1]
    <3>1. s # <<>> => /\ Len(s) = Len(Tail(s)) + 1
                      /\ \A i \in 1 .. Len(Tail(s)) : Tail(s)[i] = s[i + 1]
      BY HeadTailProperties, LenProperties, EmptySeq
    <3>2. QED
      BY <2>1, <3>1 DEF r
  <2>3. ~HeadPurged(s, t) => r = s
    BY DEF r
  <2>4. Len(r) \in Nat
    BY <1>1, LenProperties
  <2>5. QED
    BY <2>1, <2>2, <2>3, <2>4
<1> DEFINE z == Purged(s, t)
<1>4. CASE r = <<>>
  <2>1. z = r /\ Len(r) = 0
    BY <1>1, <1>2, <1>4, EmptySeq
  <2>2. \A j \in 1 .. Len(s) : HeadPurged(s, t) /\ j = 1
    <3>1. IF HeadPurged(s, t) THEN Len(s) = 1 ELSE Len(s) = 0
      <4> HIDE DEF r
      <4>1. QED
        BY <1>3, <2>1
    <3>2. CASE HeadPurged(s, t)
      <4>1. \A j \in 1 .. 1 : j = 1
        OBVIOUS
      <4>2. QED
        BY <3>1, <3>2, <4>1
    <3>3. CASE ~HeadPurged(s, t)
      <4>1. 1 .. 0 = {}
        OBVIOUS
      <4>2. QED
        BY <3>1, <3>3, <4>1
    <3>4. QED
      BY <3>2, <3>3
  <2>3. QED
    BY <1>1, <1>3, <1>4, <2>1, <2>2
<1>5. CASE r # <<>>
  <2>1. IsKept(g, r, t)
    BY <1>1, KeptExists
  <2> HIDE DEF g
  <2>2. /\ g[Len(r)] \in Seq(S) /\ Selects(g[Len(r)], r)
        /\ Keeps(g[Len(r)], r, Len(r), t)
    BY <1>1, <1>5, <2>1, KeptSelects
  <2>3. Selects(g[Len(r)], s)
    BY <1>1, <2>2, SelectsTransitive
  <2>4. z = g[Len(r)]
    BY <1>2, <1>5
  <2> HIDE DEF z
  <2>5. Keeps(z, r, Len(r), t)
    BY <2>2, <2>4
  <2>6. ASSUME NEW j \in 1 .. Len(s), ~Outdated(s[j], t)
        PROVE  \E k \in 1 .. Len(z) : z[k] = s[j]
    <3>1. CASE HeadPurged(s, t)
      <4>1. j # 1
        BY <1>3, <2>6, <3>1
      <4>2. j - 1 \in 1 .. Len(r) /\ r[j - 1] = s[j]
        BY <1>3, <3>1, <4>1
      <4>3. QED
        BY <2>5, <2>6, <4>2 DEF Keeps
    <3>2. CASE ~HeadPurged(s, t)
      BY <1>3, <2>5, <2>6, <3>2 DEF Keeps
    <3>3. QED
      BY <3>1, <3>2
  <2>7. z \in Seq(S) /\ Selects(z, s) /\ (HeadPurged(s, t) \/ Keeps(z, s, Len(s), t))
    BY <1>3, <2>2, <2>3, <2>4, <2>5
  <2>8. QED
    BY <2>6, <2>7 DEF z
<1>6. QED
  BY <1>4, <1>5

\* When there is nothing to purge, nothing is outdated.
LEMMA NothingOutdated ==
  ASSUME NEW S, NEW s \in Seq(S), NEW t, Purged(s, t) = s
  PROVE  \A i \in 1 .. Len(s) : ~Outdated(s[i], t)
<1> DEFINE r == IF HeadPurged(s, t) THEN Tail(s) ELSE s
           g == CHOOSE f : IsKept(f, r, t)
<1>1. s = IF r = <<>> THEN r ELSE g[Len(r)]
  BY DEF Purged, IsKept
<1>2. r \in Seq(S)
  BY SelectsTail DEF HeadPurged
<1>3. /\ HeadPurged(s, t) => r = Tail(s)
      /\ ~HeadPurged(s, t) => r = s
  OBVIOUS
<1> HIDE DEF r
<1>4. r # <<>> => IsKept(g, r, t)
  BY <1>2, KeptExists
<1> HIDE DEF g
<1>5. r # <<>> => /\ Len(s) <= Len(r)
                  /\ \A k \in 2 .. Len(s) : ~Outdated(s[k], t)
  <2> SUFFICES ASSUME r # <<>>
               PROVE  Len(s) <= Len(r) /\ \A k \in 2 .. Len(s) : ~Outdated(s[k], t)
    OBVIOUS
  <2>1. s = g[Len(r)] /\ IsKept(g, r, t)
    BY <1>1, <1>4
  <2>2. Selects(s, r)
    BY <1>2, <2>1, KeptSelects
  <2>3. \A k \in 2 .. Len(s) : ~Outdated(s[k], t)
    BY <1>2, <2>1, KeptTimely
  <2>4. QED
    BY <2>2, <2>3 DEF Selects
<1>6. ~HeadPurged(s, t)
  <2> SUFFICES ASSUME HeadPurged(s, t) PROVE FALSE
    OBVIOUS
  <2>1. s # <<>> /\ Len(s) = Len(Tail(s)) + 1 /\ Len(Tail(s)) \in Nat
    BY HeadTailProperties, LenProperties, EmptySeq DEF HeadPurged
  <2>2. r # <<>>
    BY <1>1, <2>1
  <2>3. QED
    BY <1>3, <1>5, <2>1, <2>2
<1>7. CASE s = <<>>
  <2>1. Len(s) = 0
    BY <1>7, EmptySeq
  <2>2. QED
    BY <2>1
<1>8. CASE s # <<>>
  <2>1. ~Outdated(s[1], t)
    BY <1>6, <1>8, HeadTailProperties DEF HeadPurged
  <2>2. \A i \in 1 .. Len(s) : i = 1 \/ i \in 2 .. Len(s)
    BY LenProperties
  <2>3. QED
    BY <1>3, <1>5, <1>6, <1>8, <2>1, <2>2
<1>9. QED
  BY <1>7, <1>8

\* What is peeked is due.
LEMMA PeekedIsDue ==
  ASSUME NEW s, NEW t, PeekIndex(s, t) # 0
  PROVE  Due(Purged(s, t)[PeekIndex(s, t)], t)
BY DEF PeekIndex

\* The index peeked is one of a node that has been kept, or 0.
LEMMA PeekIndexType ==
  ASSUME NEW S, NEW s \in Seq(S), NEW t
  PROVE  PeekIndex(s, t) \in 0 .. Len(Purged(s, t))
<1> DEFINE r == Purged(s, t)
           Seen == IF HeadPurged(s, t) THEN 2 .. Len(r) ELSE 1 .. Len(r)
           Best == {i \in Seen : \A j \in Seen :
                      Ahead(r[i].count, t) <= Ahead(r[j].count, t)}
           i == CHOOSE k \in Best : \A j \in Best : k <= j
<1>1. Len(r) \in Nat
  BY PurgedFacts, LenProperties
<1>2. PeekIndex(s, t) = IF Best # {} /\ Due(r[i], t) THEN i ELSE 0
  BY DEF PeekIndex
<1> HIDE DEF r
<1>3. Best \subseteq Seen /\ Seen \subseteq 1 .. Len(r) /\ Seen \subseteq Nat
  BY <1>1
<1> HIDE DEF Best, Seen
<1>4. Best # {} => i \in Best
  BY <1>3, LeastOne
<1> HIDE DEF i
<1>5. Best # {} => i \in 1 .. Len(r)
  BY <1>3, <1>4
<1>6. PeekIndex(s, t) \in 0 .. Len(r)
  BY <1>1, <1>2, <1>5
<1>7. QED
  BY <1>6 DEF r

\* jit_enqueue puts the node in, in front of the first that is later.
LEMMA EnqueuedPlace ==
  ASSUME NEW S, NEW s \in Seq(S), NEW x \in S
  PROVE  /\ Enqueued(s, x) \in Seq(S)
         /\ \E k : /\ IsInserted(s, Enqueued(s, x), k) /\ Enqueued(s, x)[k] = x
                   /\ \A i \in 1 .. Len(s) : i < k => ~Before(x.count, s[i].count)
                   /\ k \in 1 .. Len(s) => Before(x.count, s[k].count)
<1> DEFINE later == {i \in DOMAIN s : Before(x.count, s[i].count)}
           k == IF later = {} THEN Len(s) + 1
                ELSE CHOOSE i \in later : \A j \in later : i <= j
<1>1. Enqueued(s, x) = InsertAt(s, k, x)
  BY DEF Enqueued
<1>2. Len(s) \in Nat /\ DOMAIN s = 1 .. Len(s)
  BY LenProperties
<1>3. /\ k \in 1 .. Len(s) + 1
      /\ k \in 1 .. Len(s) => k \in later
      /\ \A i \in later : k <= i
  <2>1. later \subseteq 1 .. Len(s) /\ later \subseteq Nat
    BY <1>2
  <2> HIDE DEF later
  <2>2. CASE later # {}
    <3>1. k \in later /\ \A i \in later : k <= i
      BY <2>1, <2>2, LeastOne
    <3> HIDE DEF k
    <3>2. QED
      BY <1>2, <2>1, <3>1
  <2>3. CASE later = {}
    BY <1>2, <2>3
  <2>4. QED
    BY <2>2, <2>3
<1> HIDE DEF k, later
<1>4. ASSUME NEW i \in 1 .. Len(s), i < k
      PROVE  ~Before(x.count, s[i].count)
  <2>1. i \notin later
    BY <1>2, <1>3, <1>4
  <2>2. QED
    BY <1>2, <2>1 DEF later
<1>5. k \in 1 .. Len(s) => Before(x.count, s[k].count)
  BY <1>3 DEF later
<1>6. /\ InsertAt(s, k, x) \in Seq(S) /\ IsInserted(s, InsertAt(s, k, x), k)
      /\ InsertAt(s, k, x)[k] = x
  BY <1>3, InsertAtFacts
<1>7. QED
  BY <1>1, <1>4, <1>5, <1>6

\* jit_enqueue puts the node in somewhere.
LEMMA EnqueuedFacts ==
  ASSUME NEW S, NEW s \in Seq(S), NEW x \in S
  PROVE  /\ Enqueued(s, x) \in Seq(S)
         /\ \E k : IsInserted(s, Enqueued(s, x), k) /\ Enqueued(s, x)[k] = x
<1>1. PICK k : IsInserted(s, Enqueued(s, x), k) /\ Enqueued(s, x)[k] = x
  BY EnqueuedPlace
<1>2. QED
  BY <1>1, EnqueuedPlace

\* The number of beacons grows with a beacon put in.
LEMMA BeaconsInserted ==
  ASSUME NEW S, NEW s \in Seq(S), NEW p \in Seq(S), NEW k, IsInserted(s, p, k)
  PROVE  /\ Beacons(s) \in Nat
         /\ Beacons(p) = Beacons(s) + (IF p[k].type = "BEACON" THEN 1 ELSE 0)
<1> DEFINE A == {i \in 1 .. Len(s) : s[i].type = "BEACON"}
           B == {i \in 1 .. Len(p) : p[i].type = "BEACON"}
           f == [i \in A |-> IF i < k THEN i ELSE i + 1]
<1>1. /\ Len(s) \in Nat /\ DOMAIN s = 1 .. Len(s) /\ DOMAIN p = 1 .. Len(p)
      /\ k \in 1 .. Len(s) + 1 /\ Len(p) = Len(s) + 1
      /\ \A i \in 1 .. Len(s) : s[i] = p[IF i < k THEN i ELSE i + 1]
  BY LenProperties DEF IsInserted
<1>2. IsFiniteSet(A) /\ Cardinality(A) \in Nat
  <2>1. IsFiniteSet(1 .. Len(s)) /\ A \subseteq 1 .. Len(s)
    BY <1>1, FS_Interval
  <2>2. QED
    BY <2>1, FS_Subset, FS_CardinalityType
<1>3. \A i \in A : f[i] \in B \ {k}
  BY <1>1
<1>4. \A i, j \in A : f[i] = f[j] => i = j
  BY <1>1
<1>5. \A b \in B \ {k} : \E i \in A : f[i] = b
  <2> SUFFICES ASSUME NEW b \in B \ {k}
               PROVE  \E i \in A : f[i] = b
    OBVIOUS
  <2> DEFINE i == IF b < k THEN b ELSE b - 1
  <2>1. i \in 1 .. Len(s) /\ (IF i < k THEN i ELSE i + 1) = b
    BY <1>1
  <2>2. s[i] = p[b]
    BY <1>1, <2>1
  <2>3. i \in A
    BY <2>1, <2>2
  <2> HIDE DEF i
  <2>4. f[i] = b
    BY <2>1, <2>3
  <2>5. QED
    BY <2>3, <2>4
<1>6. f \in [A -> B \ {k}]
  BY <1>3
<1> HIDE DEF f, A, B
<1>7. f \in Bijection(A, B \ {k})
  BY <1>4, <1>5, <1>6 DEF Bijection, Injection, Surjection, IsInjective
<1>8. IsFiniteSet(B \ {k}) /\ Cardinality(B \ {k}) = Cardinality(A)
  BY <1>2, <1>7, FS_Bijection DEF ExistsBijection
<1>9. Beacons(s) = Cardinality(A) /\ Beacons(p) = Cardinality(B)
  BY <1>1 DEF Beacons, A, B
<1>10. CASE p[k].type = "BEACON"
  <2>1. B = (B \ {k}) \cup {k} /\ k \notin B \ {k}
    BY <1>1, <1>10 DEF B
  <2>2. Cardinality(B) = Cardinality(B \ {k}) + 1
    BY <1>8, <2>1, FS_AddElement
  <2>3. QED
    BY <1>2, <1>8, <1>9, <1>10, <2>2
<1>11. CASE p[k].type # "BEACON"
  <2>1. B \ {k} = B
    BY <1>11 DEF B
  <2>2. Cardinality(B) = Cardinality(A)
    BY <1>8, <2>1
  <2>3. QED
    BY <1>2, <1>9, <1>11, <2>2
<1>12. QED
  BY <1>10, <1>11

\* A part has no more beacons than the whole.
LEMMA BeaconsSelected ==
  ASSUME NEW S, NEW p \in Seq(S), NEW s \in Seq(S), Selects(p, s)
  PROVE  Beacons(p) \in Nat /\ Beacons(s) \in Nat /\ Beacons(p) <= Beacons(s)
<1> DEFINE A == {i \in 1 .. Len(p) : p[i].type = "BEACON"}
           B == {i \in 1 .. Len(s) : s[i].type = "BEACON"}
<1>1. /\ Len(s) \in Nat /\ DOMAIN s = 1 .. Len(s) /\ DOMAIN p = 1 .. Len(p)
      /\ Len(p) \in Nat
  BY LenProperties
<1>2. PICK e : Picks(e, p, s)
  BY SelectsFacts
<1> DEFINE f == [i \in A |-> e[i]]
<1>3. f \in [A -> B] /\ \A i, j \in A : f[i] = f[j] => i = j
  BY <1>2 DEF Picks
<1>4. IsFiniteSet(B) /\ IsFiniteSet(A)
  <2>1. IsFiniteSet(1 .. Len(s)) /\ B \subseteq 1 .. Len(s)
    BY <1>1, FS_Interval
  <2>2. IsFiniteSet(1 .. Len(p)) /\ A \subseteq 1 .. Len(p)
    BY <1>1, FS_Interval
  <2> HIDE DEF A, B
  <2>3. QED
    BY <2>1, <2>2, FS_Subset
<1> HIDE DEF f, A, B
<1>5. f \in Injection(A, B)
  BY <1>3 DEF Injection, IsInjective
<1>6. Cardinality(A) <= Cardinality(B)
  BY <1>4, <1>5, FS_Injection
<1>7. Beacons(p) = Cardinality(A) /\ Beacons(s) = Cardinality(B)
  BY <1>1 DEF Beacons, A, B
<1>8. QED
  BY <1>4, <1>6, <1>7, FS_CardinalityType

-----------------------------------------------------------------------------
(* Transmissions that do not overlap *)

\* What AirtimesDisjoint says of a queue.
Disjoint(s) ==
  \A i, j \in 1 .. Len(s) :
    i # j => Ahead(s[j].count, s[i].count) > s[i].post + StartDelay

LEMMA DisjointSelected ==
  ASSUME NEW S, NEW p \in Seq(S), NEW s \in Seq(S), Selects(p, s), Disjoint(s)
  PROVE  Disjoint(p)
<1>1. PICK f : Picks(f, p, s)
  BY SelectsFacts
<1>2. ASSUME NEW i \in 1 .. Len(p), NEW j \in 1 .. Len(p), i # j
      PROVE  Ahead(p[j].count, p[i].count) > p[i].post + StartDelay
  <2>1. f[i] \in 1 .. Len(s) /\ f[j] \in 1 .. Len(s) /\ f[i] # f[j]
    BY <1>1, <1>2 DEF Picks
  <2>2. p[i] = s[f[i]] /\ p[j] = s[f[j]]
    BY <1>1 DEF Picks
  <2>3. Ahead(s[f[j]].count, s[f[i]].count) > s[f[i]].post + StartDelay
    BY <2>1 DEF Disjoint
  <2>4. QED
    BY <2>2, <2>3
<1>3. QED
  BY <1>2 DEF Disjoint

LEMMA DisjointInserted ==
  ASSUME NEW S, NEW s \in Seq(S), NEW p \in Seq(S), NEW k, IsInserted(s, p, k),
         Disjoint(s),
         \A i \in 1 .. Len(s) :
           /\ Ahead(p[k].count, s[i].count) > s[i].post + StartDelay
           /\ Ahead(s[i].count, p[k].count) > p[k].post + StartDelay
  PROVE  Disjoint(p)
<1>1. Len(s) \in Nat /\ k \in 1 .. Len(s) + 1 /\ Len(p) = Len(s) + 1
  BY LenProperties DEF IsInserted
<1>2. ASSUME NEW i \in 1 .. Len(p), i # k
      PROVE  \E j \in 1 .. Len(s) : /\ p[i] = s[j]
                                    /\ i = IF j < k THEN j ELSE j + 1
  <2> DEFINE j == IF i < k THEN i ELSE i - 1
  <2>1. j \in 1 .. Len(s) /\ i = IF j < k THEN j ELSE j + 1
    BY <1>1, <1>2
  <2> HIDE DEF j
  <2>2. s[j] = p[i]
    BY <2>1 DEF IsInserted
  <2>3. QED
    BY <2>1, <2>2
<1>3. ASSUME NEW i \in 1 .. Len(p), NEW j \in 1 .. Len(p), i # j
      PROVE  Ahead(p[j].count, p[i].count) > p[i].post + StartDelay
  <2>1. CASE i # k /\ j # k
    <3>1. PICK a \in 1 .. Len(s) : p[i] = s[a] /\ i = IF a < k THEN a ELSE a + 1
      BY <1>2, <2>1
    <3>2. PICK b \in 1 .. Len(s) : p[j] = s[b] /\ j = IF b < k THEN b ELSE b + 1
      BY <1>2, <2>1
    <3>3. a # b
      BY <1>3, <3>1, <3>2
    <3>4. QED
      BY <3>1, <3>2, <3>3 DEF Disjoint
  <2>2. CASE i # k /\ j = k
    BY <1>2, <2>2
  <2>3. CASE i = k /\ j # k
    BY <1>2, <2>3
  <2>4. QED
    BY <1>3, <2>1, <2>2, <2>3
<1>4. QED
  BY <1>3 DEF Disjoint

\* The nodes of the queue: the concentrator has the time it needs before each.
Queued == {x \in Node : x.pre >= StartDelay}

\* The collision test is symmetric, and strict enough on both sides, even where
\* the guard of a beacon may be entered.
LEMMA CollidesMeaning ==
  ASSUME NEW n \in Queued, NEW x \in Queued, ~Collides(n, x)
  PROVE  /\ Ahead(n.count, x.count) > x.post + StartDelay
         /\ Ahead(x.count, n.count) > n.post + StartDelay
<1>1. /\ n.pre \in Nat /\ n.post \in Nat /\ n.count \in Time /\ n.pre >= StartDelay
      /\ x.pre \in Nat /\ x.post \in Nat /\ x.count \in Time /\ x.pre >= StartDelay
      /\ StartDelay \in Nat /\ MarginDelay \in Nat
  BY DelaysAssumption DEF Queued, Node
<1>2. Ahead(n.count, x.count) \in Int /\ Ahead(x.count, n.count) \in Int
  <2>1. n.count - x.count \in Int /\ x.count - n.count \in Int
    BY <1>1, Delays DEF Time
  <2>2. QED
    BY <2>1, TimeType, Delays DEF Ahead, Time
<1> DEFINE pre == IF n.type \in {"A", "C"} /\ x.type = "BEACON" THEN StartDelay ELSE x.pre
<1>3. pre \in Nat /\ pre >= StartDelay
  BY <1>1
<1>4. /\ ~(Ahead(n.count, x.count) <= n.pre + x.post + MarginDelay)
      /\ ~(Ahead(x.count, n.count) <= pre + n.post + MarginDelay)
  BY DEF Collides, CollisionTest
<1> HIDE DEF pre
<1>5. QED
  BY <1>1, <1>2, <1>3, <1>4

\* What is accepted does not collide, and finds room.
LEMMA AcceptedMeaning ==
  ASSUME NEW s, NEW t, NEW n, Verdict(s, t, n) = "OK"
  PROVE  /\ Len(s) # QueueMax
         /\ \A i \in DOMAIN s : ~Collides(n, s[i])
BY DEF Verdict, Full

\* Whatever the build makes of a double out of range, it is a value of the counter.
LEMMA ToUintType ==
  ASSUME NEW d \in Int, NEW saturating
  PROVE  ToUint(d, saturating) \in Time
<1>1. d % W \in Time
  BY TimeType
<1>2. W - 1 \in Time /\ 0 \in Time
  BY Delays DEF Time
<1>3. d >= 0 /\ d < W => d \in Time
  BY Delays DEF Time
<1>4. QED
  BY <1>1, <1>2, <1>3, Delays DEF ToUint

\* The node made of a request is one for the queue.
LEMMA CandidateType ==
  ASSUME NEW s \in Seq(Queued), NEW t \in Time, NEW r,
         r.id \in 0 .. MaxReq, r.type \in PktType, r.count \in Time, r.airtime \in Nat
  PROVE  Candidate(s, t, r) \in Queued
<1> DEFINE pre == PreDelay(r.type)
           post == PostDelay(r.type, r.airtime)
<1>1. pre \in Nat /\ pre >= StartDelay /\ post \in Nat
  <2>1. pre \in Nat /\ pre >= StartDelay
    BY DelaysAssumption DEF PreDelay
  <2>2. post \in Nat
    BY DelaysAssumption DEF PostDelay
  <2>3. QED
    BY <2>1, <2>2
<1> HIDE DEF pre, post
<1>2. Asap(s, t, pre, post, r.saturating) \in Time
  <2> DEFINE now == ToUint(t + AsapDelay, r.saturating)
             After(i) == (s[i].count + s[i].post + pre + JitDelay + MarginDelay) % W
             Room == {i \in DOMAIN s : i = Len(s) \/ ~Hits(After(i), pre, post, s[i + 1])}
             Hit == \E i \in DOMAIN s : Hits(now, pre, post, s[i])
             j == CHOOSE i \in Room : \A k \in Room : i <= k
  <2>1. Asap(s, t, pre, post, r.saturating) = IF Hit THEN After(j) ELSE now
    BY DEF Asap
  <2>2. now \in Time
    <3>1. t + AsapDelay \in Int
      BY Delays, DelaysAssumption DEF Time
    <3>2. QED
      BY <3>1, ToUintType
  <2>3. \A i \in DOMAIN s : After(i) \in Time
    <3> SUFFICES ASSUME NEW i \in DOMAIN s PROVE After(i) \in Time
      OBVIOUS
    <3>1. s[i] \in Queued
      BY ElementOfSeq
    <3>2. s[i].count + s[i].post + pre + JitDelay + MarginDelay \in Int
      <4>1. s[i].count \in Int /\ s[i].post \in Nat
        BY <3>1, Delays DEF Queued, Node, Time
      <4>2. JitDelay \in Nat /\ MarginDelay \in Nat
        BY DelaysAssumption
      <4>3. QED
        BY <1>1, <4>1, <4>2
    <3>3. QED
      BY <3>2, TimeType
  <2>4. Len(s) \in Nat /\ DOMAIN s = 1 .. Len(s)
    BY LenProperties
  <2>5. Hit => j \in DOMAIN s
    <3>1. Room \subseteq DOMAIN s /\ Room \in SUBSET Nat
      BY <2>4
    <3>2. Hit => Room # {}
      BY <2>4
    <3> HIDE DEF Room
    <3>3. Room # {} => j \in Room
      BY <3>1, LeastOne
    <3> HIDE DEF j, Hit
    <3>4. QED
      BY <3>1, <3>2, <3>3
  <2> HIDE DEF j, Hit, After, now
  <2>6. QED
    BY <2>1, <2>2, <2>3, <2>5
<1> DEFINE c == IF r.type = "C" THEN Asap(s, t, pre, post, r.saturating) ELSE r.count
<1>3. c \in Time
  BY <1>2
<1>4. Candidate(s, t, r) = [id |-> r.id, type |-> r.type, pre |-> pre, post |-> post,
                            count |-> c]
  BY DEF Candidate, pre, post
<1> HIDE DEF c
<1>5. QED
  BY <1>1, <1>3, <1>4 DEF Queued, Node

-----------------------------------------------------------------------------
(* The queue and the packets *)

DownReq == [id : 0 .. MaxReq, type : PktType, count : Time, airtime : Nat,
            saturating : BOOLEAN]

\* thread_down: a request is on its way to the queue, or none is.
DownTypes ==
  /\ DownTimes
  /\ dpc \in {"recv", "timed"}
  /\ dreq \in DownReq
  /\ nReq \in 0 .. MaxReq
  /\ log \in [Req -> [node : Node, at : Time]]

\* The queue counts its beacons, and what it promises does not overlap.
QueueTypes ==
  /\ queue \in Seq(Queued) /\ Len(queue) <= QueueMax
  /\ numBeacon = Beacons(queue)
  /\ Disjoint(queue)

\* thread_jit: an index peeked stays one of the queue.
JitTypes ==
  /\ jpc \in {"wait", "timed", "peeked", "status", "send"}
  /\ jtime \in Time /\ jpkt \in Node /\ peeked \in 0 .. MaxReq
  /\ jidx \in 0 .. QueueMax
  /\ jpc = "peeked" => jidx \in 1 .. Len(queue)

RadioTypes ==
  /\ radio \in [state : {"free", "scheduled", "emitting"}, pkt : Node]
  /\ fate \in [Req -> {"none", "queued", "purged", "taken", "busy", "programmed",
                       "blocked", "failed", "overwritten", "cut", "onair"}]

\* Each packet programmed, queued or on its way stands for a request of its own.
OnTheWay == (IF dpc = "timed" THEN 1 ELSE 0) + Len(queue)
            + (IF jpc \in {"status", "send"} THEN 1 ELSE 0)

Requested == txOk \in Nat /\ txOk + OnTheWay <= nReq

QInv == DownTypes /\ QueueTypes /\ JitTypes /\ RadioTypes /\ Requested

LEMMA QueueFacts ==
  ASSUME QInv
  PROVE  /\ queue \in Seq(Queued) /\ queue \in Seq(Node)
         /\ Len(queue) \in Nat /\ DOMAIN queue = 1 .. Len(queue)
         /\ \A i \in 1 .. Len(queue) : queue[i] \in Queued /\ queue[i] \in Node
         /\ QueueMax \in Nat /\ MaxReq \in Nat
<1>1. Queued \subseteq Node
  BY DEF Queued
<1>2. queue \in Seq(Queued) /\ queue \in Seq(Node)
  BY <1>1, SeqMonotonic DEF QInv, QueueTypes
<1>3. QED
  BY <1>1, <1>2, LenProperties, ElementOfSeq, DelaysAssumption, SchedAssumption

LEMMA NoPktType == NoPkt \in Node
BY SchedAssumption, Delays DEF NoPkt, Node, PktType, Time

\* The queue is empty and nothing has been requested.
LEMMA QInit == Init => QInv
<1> SUFFICES ASSUME Init PROVE QInv
  OBVIOUS
<1>1. /\ MaxReq \in Nat /\ QueueMax \in Nat /\ StartTime \in Time /\ 0 \in Time
  <2>1. MaxReq \in Nat /\ StartTime \in Time
    BY SchedAssumption
  <2>2. QueueMax \in Nat /\ W \in Nat \ {0}
    BY DelaysAssumption
  <2>3. QED
    BY <2>1, <2>2 DEF Time
<1>2. DownTypes
  <2>1. DownTimes
    BY InitInv DEF IInv
  <2>2. NoReq \in DownReq
    BY <1>1 DEF NoReq, PktType, DownReq
  <2>3. NoLog \in [node : Node, at : Time]
    BY <1>1, NoPktType DEF NoLog
  <2>4. QED
    BY <1>1, <2>1, <2>2, <2>3 DEF Init, DownTypes
<1>3. queue = <<>> /\ Len(queue) = 0 /\ queue \in Seq(Queued) /\ numBeacon = 0
  BY EmptySeq DEF Init
<1>4. QueueTypes
  <2>1. Beacons(queue) = 0
    <3>1. {i \in DOMAIN queue : queue[i].type = "BEACON"} = {}
      BY <1>3
    <3>2. QED
      BY <3>1, FS_EmptySet DEF Beacons
  <2>2. QED
    BY <1>1, <1>3, <2>1 DEF QueueTypes, Disjoint
<1>5. JitTypes
  BY <1>1, NoPktType DEF Init, JitTypes
<1>6. RadioTypes
  BY NoPktType DEF Init, RadioTypes
<1>7. Requested
  BY <1>3 DEF Init, Requested, OnTheWay
<1>8. QED
  BY <1>2, <1>4, <1>5, <1>6, <1>7 DEF QInv

\* thread_down makes requests of the right type and logs nodes.
LEMMA DownTypesStep ==
  ASSUME QInv, [Next]_vars
  PROVE  DownTypes'
<1> USE DEF QInv, DownTypes
<1>1. DownTimes'
  BY DownTimesStep
<1>2. MaxReq \in Nat
  BY SchedAssumption
<1>3. CASE DownSample
  <2>1. PICK r \in Requests, saturating \in BOOLEAN :
          dreq' = [id |-> nReq + 1, type |-> r.type, airtime |-> r.airtime,
                   count |-> (clock + r.off) % W, saturating |-> saturating]
    BY <1>3 DEF DownSample
  <2>2. r.type \in PktType /\ r.airtime \in Nat
    BY SchedAssumption
  <2>3. (clock + r.off) % W \in Time
    BY <1>1, <2>1 DEF DownTimes
  <2>4. /\ nReq < MaxReq /\ nReq' = nReq + 1 /\ dpc' = "timed" /\ log' = log
    BY <1>3 DEF DownSample
  <2>5. nReq + 1 \in 0 .. MaxReq
    BY <1>2, <2>4
  <2>6. QED
    BY <1>1, <2>1, <2>2, <2>3, <2>4, <2>5 DEF DownReq
<1>4. CASE DownEnqueue
  <2> DEFINE n == Candidate(queue, dtime, dreq)
  <2>1. n \in Node
    BY QueueFacts, CandidateType DEF DownTimes, DownReq, Queued
  <2>2. /\ dpc' = "recv" /\ dreq' = NoReq /\ nReq' = nReq
        /\ \/ log' = log
           \/ log' = [log EXCEPT ![n.id] = [node |-> n, at |-> dtime]]
    BY <1>4 DEF DownEnqueue
  <2> HIDE DEF n
  <2>3. NoReq \in DownReq
    BY <1>2, Delays DEF NoReq, PktType, Time, DownReq
  <2>4. [node |-> n, at |-> dtime] \in [node : Node, at : Time]
    BY <2>1 DEF DownTimes
  <2>5. log' \in [Req -> [node : Node, at : Time]]
    BY <2>2, <2>4
  <2>6. QED
    BY <1>1, <2>2, <2>3, <2>5
<1>5. CASE UNCHANGED <<dpc, dreq, nReq, log>>
  BY <1>1, <1>5
<1>6. QED
  BY <1>3, <1>4, <1>5
  DEF Next, JitSample, JitPeek, JitDequeue, JitStatus, JitSend, JitSendFails, Tick,
      Ended, down, vars

\* What jit_enqueue, jit_peek and jit_dequeue do to the queue.
LEMMA EnqueueQueue ==
  ASSUME QInv, DownEnqueue
  PROVE  /\ QueueTypes'
         /\ Len(queue') \in {Len(queue), Len(queue) + 1}
<1> DEFINE n == Candidate(queue, dtime, dreq)
<1>1. CASE UNCHANGED <<queue, numBeacon>>
  BY <1>1 DEF QInv, QueueTypes
<1>2. CASE Verdict(queue, dtime, n) = "OK"
  <2>1. /\ queue' = Enqueued(queue, n)
        /\ numBeacon' = numBeacon + (IF n.type = "BEACON" THEN 1 ELSE 0)
    BY <1>2 DEF DownEnqueue
  <2>2. n \in Queued
    BY QueueFacts, CandidateType DEF QInv, DownTypes, DownTimes, DownReq
  <2>3. Len(queue) # QueueMax /\ \A i \in DOMAIN queue : ~Collides(n, queue[i])
    BY <1>2, AcceptedMeaning
  <2> HIDE DEF n
  <2>4. queue' \in Seq(Queued)
    BY <2>1, <2>2, QueueFacts, EnqueuedFacts
  <2>5. PICK k : IsInserted(queue, queue', k) /\ queue'[k] = n
    <3>1. queue \in Seq(Queued)
      BY QueueFacts
    <3>2. QED
      BY <2>1, <2>2, <3>1, EnqueuedFacts
  <2>6. Len(queue') = Len(queue) + 1 /\ Len(queue') <= QueueMax
    BY <2>3, <2>5, QueueFacts DEF IsInserted, QInv, QueueTypes
  <2>7. numBeacon' = Beacons(queue')
    <3>1. Beacons(queue') = Beacons(queue) + (IF n.type = "BEACON" THEN 1 ELSE 0)
      BY <2>4, <2>5, QueueFacts, BeaconsInserted
    <3>2. QED
      BY <2>1, <3>1 DEF QInv, QueueTypes
  <2>8. Disjoint(queue')
    <3>1. \A i \in 1 .. Len(queue) :
            /\ Ahead(n.count, queue[i].count) > queue[i].post + StartDelay
            /\ Ahead(queue[i].count, n.count) > n.post + StartDelay
      BY <2>2, <2>3, QueueFacts, CollidesMeaning
    <3>2. Disjoint(queue)
      BY DEF QInv, QueueTypes
    <3>3. QED
      BY <2>4, <2>5, <3>1, <3>2, QueueFacts, DisjointInserted
  <2>9. QED
    BY <2>4, <2>6, <2>7, <2>8 DEF QueueTypes
<1>3. QED
  BY <1>1, <1>2 DEF DownEnqueue

LEMMA PeekQueue ==
  ASSUME QInv, JitPeek
  PROVE  /\ QueueTypes' /\ Len(queue') <= Len(queue)
         /\ jidx' \in 0 .. Len(queue') /\ (jpc' = "peeked" => jidx' # 0)
         /\ peeked' \in 0 .. MaxReq
<1>1. /\ queue' = Purged(queue, jtime)
      /\ numBeacon' = numBeacon - (Beacons(queue) - Beacons(Purged(queue, jtime)))
      /\ jidx' = PeekIndex(queue, jtime)
      /\ peeked' = IF jidx' = 0 THEN 0 ELSE queue'[jidx'].id
      /\ jpc' = IF jidx' = 0 THEN "wait" ELSE "peeked"
  BY DEF JitPeek
<1>2. queue' \in Seq(Queued) /\ Selects(queue', queue)
  BY <1>1, QueueFacts, PurgedFacts
<1>3. Len(queue') <= Len(queue) /\ Len(queue') \in Nat
  BY <1>2, LenProperties DEF Selects
<1>4. Beacons(queue') \in Nat /\ Beacons(queue) \in Nat
  BY <1>2, QueueFacts, BeaconsSelected
<1>5. numBeacon' = Beacons(queue')
  BY <1>1, <1>4 DEF QInv, QueueTypes
<1>6. Disjoint(queue')
  BY <1>2, QueueFacts, DisjointSelected DEF QInv, QueueTypes
<1>7. Len(queue') <= QueueMax
  BY <1>3, QueueFacts DEF QInv, QueueTypes
<1>8. jidx' \in 0 .. Len(queue')
  BY <1>1, QueueFacts, PeekIndexType
<1>9. peeked' \in 0 .. MaxReq
  <2>1. jidx' # 0 => queue'[jidx'] \in Queued
    BY <1>2, <1>3, <1>8, ElementOfSeq
  <2>2. QED
    BY <1>1, <2>1, QueueFacts DEF Queued, Node
<1>10. QED
  BY <1>1, <1>2, <1>3, <1>5, <1>6, <1>7, <1>8, <1>9 DEF QueueTypes

LEMMA DequeueQueue ==
  ASSUME QInv, JitDequeue
  PROVE  QueueTypes' /\ Len(queue) = Len(queue') + 1 /\ jpkt' \in Node
<1>1. /\ jpc = "peeked" /\ jpkt' = queue[jidx]
      /\ queue' = RemoveAt(queue, jidx)
      /\ numBeacon' = numBeacon - (IF queue[jidx].type = "BEACON" THEN 1 ELSE 0)
  BY DEF JitDequeue, Dequeued
<1>2. jidx \in 1 .. Len(queue)
  BY <1>1 DEF QInv, JitTypes
<1>3. queue' \in Seq(Queued) /\ IsInserted(queue', queue, jidx)
  BY <1>1, <1>2, QueueFacts, RemoveAtFacts
<1>4. Selects(queue', queue)
  BY <1>3, QueueFacts, SelectsInserted
<1>5. Len(queue) = Len(queue') + 1 /\ Len(queue') \in Nat
  BY <1>3, LenProperties DEF IsInserted
<1>6. numBeacon' = Beacons(queue')
  <2>1. /\ Beacons(queue') \in Nat
        /\ Beacons(queue) = Beacons(queue') + (IF queue[jidx].type = "BEACON" THEN 1 ELSE 0)
    BY <1>3, QueueFacts, BeaconsInserted
  <2>2. QED
    BY <1>1, <2>1 DEF QInv, QueueTypes
<1>7. Disjoint(queue')
  BY <1>3, <1>4, QueueFacts, DisjointSelected DEF QInv, QueueTypes
<1>8. Len(queue') <= QueueMax
  BY <1>5, QueueFacts DEF QInv, QueueTypes
<1>9. QED
  BY <1>1, <1>2, <1>3, <1>5, <1>6, <1>7, <1>8, QueueFacts DEF QueueTypes

\* The other steps leave the queue alone.
LEMMA QueueStep ==
  ASSUME QInv, [Next]_vars
  PROVE  QueueTypes'
<1>1. CASE UNCHANGED <<queue, numBeacon>>
  BY <1>1 DEF QInv, QueueTypes
<1>2. QED
  BY <1>1, EnqueueQueue, PeekQueue, DequeueQueue
  DEF Next, DownSample, JitSample, JitStatus, JitSend, JitSendFails, Tick, Ended, vars

\* thread_down only lengthens the queue, so the index peeked stays valid.
LEMMA JitTypesStep ==
  ASSUME QInv, [Next]_vars
  PROVE  JitTypes'
<1> USE DEF QInv, JitTypes
<1>1. CASE DownEnqueue
  <2>1. UNCHANGED <<jpc, jtime, jpkt, peeked, jidx>>
    BY <1>1 DEF DownEnqueue, jit
  <2>2. 1 .. Len(queue) \subseteq 1 .. Len(queue')
    BY <1>1, EnqueueQueue, QueueFacts
  <2>3. QED
    BY <2>1, <2>2
<1>2. CASE JitSample
  BY <1>2 DEF JitSample, DownTypes, DownTimes
<1>3. CASE JitPeek
  <2>1. jtime' = jtime /\ jpkt' = jpkt /\ jpc' \in {"wait", "peeked"}
    BY <1>3 DEF JitPeek
  <2>2. /\ jidx' \in 0 .. Len(queue') /\ (jpc' = "peeked" => jidx' # 0)
        /\ peeked' \in 0 .. MaxReq /\ QueueTypes'
    BY <1>3, PeekQueue
  <2>3. Len(queue') \in Nat /\ Len(queue') <= QueueMax
    BY <2>2, LenProperties DEF QueueTypes
  <2>4. QED
    BY <2>1, <2>2, <2>3, QueueFacts
<1>4. CASE JitDequeue
  <2>1. jidx' = 0 /\ jpc' = "status" /\ UNCHANGED <<jtime, peeked>>
    BY <1>4 DEF JitDequeue
  <2>2. QED
    BY <1>4, <2>1, DequeueQueue, QueueFacts
<1>5. CASE JitStatus \/ JitSend \/ JitSendFails
  <2>1. /\ UNCHANGED <<jtime, jidx>> /\ jpc' \in {"wait", "send"}
        /\ jpkt' \in {jpkt, NoPkt} /\ peeked' \in {peeked, 0}
    BY <1>5 DEF JitStatus, JitSend, JitSendFails
  <2>2. QED
    BY <2>1, NoPktType, QueueFacts
<1>6. CASE UNCHANGED <<jpc, jtime, jpkt, peeked, jidx, queue>>
  BY <1>6
<1>7. QED
  BY <1>1, <1>2, <1>3, <1>4, <1>5, <1>6 DEF Next, DownSample, Tick, Ended, jit, vars

LEMMA RadioTypesStep ==
  ASSUME QInv, [Next]_vars
  PROVE  RadioTypes'
<1> DEFINE F == [Req -> {"none", "queued", "purged", "taken", "busy", "programmed",
                         "blocked", "failed", "overwritten", "cut", "onair"}]
           R == [state : {"free", "scheduled", "emitting"}, pkt : Node]
<1>1. fate \in F /\ radio \in R /\ jpkt \in Node /\ NoPkt \in Node
  BY NoPktType DEF QInv, RadioTypes, JitTypes
<1>2. [state |-> "free", pkt |-> NoPkt] \in R
  BY <1>1
<1>3. \A f \in F : Aborted(f) \in F
  BY DEF Aborted
<1>4. CASE DownEnqueue
  BY <1>1, <1>4 DEF DownEnqueue, RadioTypes
<1>5. CASE JitPeek
  BY <1>1, <1>5 DEF JitPeek, RadioTypes
<1>6. CASE JitDequeue
  BY <1>1, <1>6 DEF JitDequeue, RadioTypes
<1>7. CASE JitStatus
  BY <1>1, <1>7 DEF JitStatus, RadioTypes
<1>8. CASE JitSend
  <2>1. PICK outcome \in Outcomes \ {"failed"} :
          /\ radio' = IF outcome = "blocked" THEN [state |-> "free", pkt |-> NoPkt]
                      ELSE [state |-> "scheduled", pkt |-> jpkt]
          /\ fate' = Aborted([fate EXCEPT ![jpkt.id] = outcome])
    BY <1>8 DEF JitSend
  <2>2. outcome \in {"programmed", "blocked"}
    BY SchedAssumption
  <2>3. [fate EXCEPT ![jpkt.id] = outcome] \in F
    BY <1>1, <2>2
  <2>4. fate' \in F
    BY <1>3, <2>1, <2>3
  <2>5. radio' \in R
    BY <1>1, <1>2, <2>1
  <2>6. QED
    BY <2>4, <2>5 DEF RadioTypes
<1>9. CASE JitSendFails
  <2>1. [fate EXCEPT ![jpkt.id] = "failed"] \in F
    BY <1>1
  <2>2. /\ fate' \in {[fate EXCEPT ![jpkt.id] = "failed"],
                      Aborted([fate EXCEPT ![jpkt.id] = "failed"])}
        /\ radio' \in {radio, [state |-> "free", pkt |-> NoPkt]}
    BY <1>9 DEF JitSendFails
  <2>3. fate' \in F
    BY <1>3, <2>1, <2>2
  <2>4. radio' \in R
    BY <1>1, <1>2, <2>2
  <2>5. QED
    BY <2>3, <2>4 DEF RadioTypes
<1>10. CASE Tick
  <2>1. /\ radio' \in {radio, [radio EXCEPT !.state = "emitting"],
                       [state |-> "free", pkt |-> NoPkt]}
        /\ fate' \in {fate, [fate EXCEPT ![radio.pkt.id] = "onair"]}
    BY <1>10 DEF Tick, RadioTick
  <2>2. radio' \in R
    BY <1>1, <1>2, <2>1
  <2>3. fate' \in F
    BY <1>1, <2>1
  <2>4. QED
    BY <2>2, <2>3 DEF RadioTypes
<1>11. CASE UNCHANGED <<radio, fate>>
  BY <1>1, <1>11 DEF RadioTypes
<1>12. QED
  BY <1>4, <1>5, <1>6, <1>7, <1>8, <1>9, <1>10, <1>11
  DEF Next, DownSample, JitSample, Ended, vars

\* No packet is counted as sent that has not been requested.
LEMMA RequestedStep ==
  ASSUME QInv, [Next]_vars
  PROVE  Requested'
<1>1. Len(queue) \in Nat /\ txOk \in Nat /\ nReq \in Nat /\ txOk + OnTheWay <= nReq
  BY QueueFacts DEF QInv, Requested, DownTypes
<1> DEFINE a == IF dpc = "timed" THEN 1 ELSE 0
           c == IF jpc \in {"status", "send"} THEN 1 ELSE 0
<1>0. OnTheWay = a + Len(queue) + c /\ OnTheWay' = a' + Len(queue)' + c'
  BY DEF OnTheWay
<1> USE DEF Requested
<1>2. CASE DownSample
  <2>1. /\ UNCHANGED <<queue, txOk, jpc>>
        /\ dpc = "recv" /\ dpc' = "timed" /\ nReq' = nReq + 1
    BY <1>2 DEF DownSample, jit
  <2>2. QED
    BY <1>0, <1>1, <2>1
<1>3. CASE DownEnqueue
  <2>1. UNCHANGED <<txOk, jpc, nReq>> /\ dpc = "timed" /\ dpc' = "recv"
    BY <1>3 DEF DownEnqueue, jit
  <2>2. QED
    BY <1>0, <1>1, <1>3, <2>1, EnqueueQueue
<1>4. CASE JitPeek
  <2>1. UNCHANGED <<txOk, dpc, nReq>> /\ jpc = "timed" /\ jpc' \in {"wait", "peeked"}
    BY <1>4 DEF JitPeek, down
  <2>2. Len(queue') <= Len(queue) /\ Len(queue') \in Nat
    BY <1>4, PeekQueue, LenProperties DEF QueueTypes
  <2>3. a' = a /\ c = 0 /\ c' = 0
    BY <2>1
  <2>4. a \in {0, 1}
    OBVIOUS
  <2> HIDE DEF a, c
  <2>5. QED
    BY <1>0, <1>1, <2>1, <2>2, <2>3, <2>4
<1>5. CASE JitDequeue
  <2>1. UNCHANGED <<txOk, dpc, nReq>> /\ jpc = "peeked" /\ jpc' = "status"
    BY <1>5 DEF JitDequeue, down
  <2>2. Len(queue) = Len(queue') + 1 /\ Len(queue') \in Nat
    BY <1>5, DequeueQueue, LenProperties DEF QueueTypes
  <2>3. a' = a /\ c = 0 /\ c' = 1
    BY <2>1
  <2>4. a \in {0, 1}
    OBVIOUS
  <2> HIDE DEF a, c
  <2>5. QED
    BY <1>0, <1>1, <2>1, <2>2, <2>3, <2>4
<1>6. CASE JitStatus \/ JitSendFails
  <2>1. /\ UNCHANGED <<queue, txOk, dpc, nReq>>
        /\ jpc \in {"status", "send"} /\ jpc' \in {"wait", "send"}
    BY <1>6 DEF JitStatus, JitSendFails, down
  <2>2. a' = a /\ c = 1 /\ c' \in {0, 1} /\ Len(queue)' = Len(queue)
    BY <2>1
  <2>3. a \in {0, 1}
    OBVIOUS
  <2> HIDE DEF a, c
  <2>4. QED
    BY <1>0, <1>1, <2>1, <2>2, <2>3
<1>7. CASE JitSend
  <2>1. /\ UNCHANGED <<queue, dpc, nReq>> /\ txOk' = txOk + 1
        /\ jpc = "send" /\ jpc' = "wait"
    BY <1>7 DEF JitSend, down
  <2>2. a' = a /\ c = 1 /\ c' = 0 /\ Len(queue)' = Len(queue)
    BY <2>1
  <2>3. a \in {0, 1}
    OBVIOUS
  <2> HIDE DEF a, c
  <2>4. QED
    BY <1>0, <1>1, <2>1, <2>2, <2>3
<1>8. CASE JitSample
  <2>1. /\ UNCHANGED <<queue, txOk, dpc, nReq>> /\ jpc = "wait" /\ jpc' = "timed"
    BY <1>8 DEF JitSample, down
  <2>2. QED
    BY <1>0, <1>1, <2>1
<1>9. CASE UNCHANGED <<queue, txOk, dpc, nReq, jpc>>
  BY <1>0, <1>1, <1>9
<1>10. QED
  BY <1>2, <1>3, <1>4, <1>5, <1>6, <1>7, <1>8, <1>9
  DEF Next, Tick, Ended, down, jit, vars

\* The invariant is one of the scheduling.
THEOREM QueueInvariant == Spec => []QInv
<1>1. QInv /\ [Next]_vars => QInv'
  BY DownTypesStep, QueueStep, JitTypesStep, RadioTypesStep, RequestedStep DEF QInv
<1>2. QED
  BY <1>1, QInit, PTL DEF Spec

\* Every variable keeps its type: no more packets are queued than there is room
\* for, num_beacon counts the beacons among them, and no more are counted as sent
\* than have been requested.
THEOREM TypeCorrect == Spec => []TypeOK
<1>1. QInv => TypeOK
  <2> SUFFICES ASSUME QInv PROVE TypeOK
    OBVIOUS
  <2>1. queue \in Seq(Node) /\ Len(queue) \in Nat /\ MaxReq \in Nat
    BY QueueFacts
  <2>2. txOk \in 0 .. MaxReq
    <3>1. txOk \in Nat /\ nReq \in 0 .. MaxReq /\ txOk + OnTheWay <= nReq
      BY DEF QInv, Requested, DownTypes
    <3>2. OnTheWay \in Nat
      <4> DEFINE a == IF dpc = "timed" THEN 1 ELSE 0
                 c == IF jpc \in {"status", "send"} THEN 1 ELSE 0
      <4>1. a \in Nat /\ c \in Nat /\ OnTheWay = a + Len(queue) + c
        BY DEF OnTheWay
      <4> HIDE DEF a, c
      <4>2. QED
        BY <2>1, <4>1
    <3>3. QED
      BY <2>1, <3>1, <3>2
  <2>3. QED
    BY <2>1, <2>2
    DEF QInv, DownTypes, DownTimes, DownReq, QueueTypes, JitTypes, RadioTypes, TypeOK
<1>2. QED
  BY <1>1, QueueInvariant, PTL

\* The transmissions promised by the queue do not overlap on the air, for all
\* delays, all requests and every modulus of the counter.
THEOREM PromisesDisjoint == Spec => []AirtimesDisjoint
<1>1. QInv => AirtimesDisjoint
  <2> SUFFICES ASSUME QInv PROVE AirtimesDisjoint
    OBVIOUS
  <2>1. QED
    BY QueueFacts DEF QInv, QueueTypes, Disjoint, AirtimesDisjoint
<1>2. QED
  BY <1>1, QueueInvariant, PTL

-----------------------------------------------------------------------------
(* Time *)

\* The ticks from the start of the model to time t.
Since(t) == Ahead(t, StartTime)

\* A quarter and a half of a turn.
LEMMA Turn ==
  /\ W \in Nat /\ W > 4 /\ W \div 2 \in Nat /\ W \div 4 \in Nat
  /\ 2 * (W \div 2) <= W /\ 2 * (W \div 4) <= W \div 2 /\ 4 * (W \div 4) <= W
  /\ EndTicks \in Nat /\ EndTicks <= W \div 4
  /\ MaxAdvance \in Nat /\ MaxAdvance <= W \div 4
<1>1. W \in Nat \ {0} /\ MaxAdvance \in Nat \ {0} /\ 4 * MaxAdvance < W
  BY Delays
<1>2. EndTicks \in Nat /\ EndTicks <= W \div 4
  BY SchedAssumption
<1>3. W \div 2 \in Nat /\ 2 * (W \div 2) <= W /\ W \div 4 \in Nat /\ 4 * (W \div 4) <= W
  BY <1>1
<1>4. 2 * (W \div 4) <= W \div 2
  BY <1>1
<1>5. MaxAdvance <= W \div 4
  BY <1>1
<1>6. W > 4
  BY <1>1
<1>7. QED
  BY <1>1, <1>2, <1>3, <1>4, <1>5, <1>6

\* The delays and the lags of the threads, as the arithmetic needs them.
LEMMA Lags ==
  /\ {StartDelay, MarginDelay, JitDelay, Lead, BeaconGuard} \subseteq Nat \ {0}
  /\ {PollMax, JitLag, DownLag, MaxAdvance} \subseteq Nat
  /\ Lead = StartDelay + MarginDelay + JitDelay /\ Lead < MaxAdvance
  /\ JitLag <= PollMax
  /\ PollMax + JitLag <= JitDelay - StartDelay
  /\ 2 * PollMax <= JitDelay + StartDelay + MarginDelay + 1
  /\ DownLag <= StartDelay + MarginDelay
BY DelaysAssumption, SchedAssumption, LagsAssumption, Delays DEF Lead

\* A time is less than a turn from the start.
LEMMA SinceType ==
  ASSUME NEW t \in Time
  PROVE  Since(t) \in Nat /\ Since(t) < W
<1>1. StartTime \in Time /\ W \in Nat \ {0}
  BY SchedAssumption, Delays
<1>2. QED
  BY <1>1, AheadValue DEF Since, Time

\* How far one time lies ahead of another, counted from the start.
LEMMA AheadSince ==
  ASSUME NEW c \in Time, NEW t \in Time
  PROVE  Ahead(c, t) = IF Since(t) <= Since(c) THEN Since(c) - Since(t)
                       ELSE Since(c) - Since(t) + W
<1>1. StartTime \in Time /\ W \in Nat \ {0}
  BY SchedAssumption, Delays
<1>2. /\ Since(c) = IF StartTime <= c THEN c - StartTime ELSE c - StartTime + W
      /\ Since(t) = IF StartTime <= t THEN t - StartTime ELSE t - StartTime + W
      /\ Ahead(c, t) = IF t <= c THEN c - t ELSE c - t + W
  BY <1>1, AheadValue DEF Since
<1>3. c \in 0 .. W - 1 /\ t \in 0 .. W - 1 /\ StartTime \in 0 .. W - 1
  BY <1>1 DEF Time
<1>4. QED
  BY <1>1, <1>2, <1>3

\* A time less than the rest of the turn ahead of another.
LEMMA SinceAhead ==
  ASSUME NEW c \in Time, NEW t \in Time, Since(t) + Ahead(c, t) < W
  PROVE  Since(c) = Since(t) + Ahead(c, t)
BY AheadSince, SinceType, Delays

\* The next tick.
LEMMA SinceNext ==
  ASSUME NEW t \in Time, Since(t) < W - 1
  PROVE  Since((t + 1) % W) = Since(t) + 1
<1>1. StartTime \in Time /\ W \in Nat \ {0} /\ (t + 1) % W \in Time /\ t \in Nat
  <2>1. StartTime \in Time /\ W \in Nat \ {0}
    BY SchedAssumption, Delays
  <2>2. t \in Nat
    BY <2>1 DEF Time
  <2>3. (t + 1) % W \in Time
    BY <2>2, TimeType
  <2>4. QED
    BY <2>1, <2>2, <2>3
<1>2. (t + 1) % W = IF t = W - 1 THEN 0 ELSE t + 1
  BY <1>1 DEF Time
<1>3. /\ Since(t) = IF StartTime <= t THEN t - StartTime ELSE t - StartTime + W
      /\ \A c \in Time : Since(c) = IF StartTime <= c THEN c - StartTime ELSE c - StartTime + W
  BY <1>1, AheadValue DEF Since
<1>4. t \in 0 .. W - 1 /\ StartTime \in 0 .. W - 1
  BY <1>1 DEF Time
<1>5. QED
  BY <1>1, <1>2, <1>3, <1>4

\* How late the threads are with the times they have read, and the requests
\* with theirs.
TimesInv ==
  /\ Since(clock) <= EndTicks
  /\ Since(jtime) <= Since(clock)
  /\ Since(clock) - Since(jtime) <= (IF jpc = "wait" THEN PollMax ELSE JitLag)
  /\ Since(dtime) <= Since(clock)
  /\ dpc = "timed" => Since(clock) - Since(dtime) <= DownLag
  /\ \A k \in Req : log[k].node.id # 0 => Since(log[k].at) <= Since(clock)

\* Every time there is, as a number of ticks from the start.
LEMMA TimesFacts ==
  ASSUME QInv
  PROVE  /\ clock \in Time /\ jtime \in Time /\ dtime \in Time
         /\ Since(clock) \in Nat /\ Since(jtime) \in Nat /\ Since(dtime) \in Nat
         /\ \A k \in Req : log[k].at \in Time /\ Since(log[k].at) \in Nat
<1>1. clock \in Time /\ jtime \in Time /\ dtime \in Time
  BY DEF QInv, DownTypes, DownTimes, JitTypes
<1>2. \A k \in Req : log[k].at \in Time
  BY DEF QInv, DownTypes
<1>3. QED
  BY <1>1, <1>2, SinceType

\* No time has passed yet.
LEMMA TimesInit == Init => TimesInv
<1> SUFFICES ASSUME Init PROVE TimesInv
  OBVIOUS
<1>1. StartTime \in Time /\ Since(StartTime) = 0
  BY SchedAssumption, Delays, AheadValue DEF Since, Time
<1>2. clock = StartTime /\ jtime = StartTime /\ dtime = StartTime /\ jpc = "wait"
      /\ dpc = "recv" /\ \A k \in Req : log[k].node.id = 0
  BY DEF Init, NoLog, NoPkt
<1>3. 0 <= EndTicks /\ 0 <= PollMax
  BY Turn, Lags
<1>4. QED
  BY <1>1, <1>2, <1>3 DEF TimesInv

\* A tick is taken only if no thread becomes later than the bounds allow.
LEMMA TimesTick ==
  ASSUME QInv, TimesInv, Tick
  PROVE  TimesInv' /\ Since(clock)' = Since(clock) + 1
<1>1. /\ clock \in Time /\ jtime \in Time /\ dtime \in Time
      /\ Since(clock) \in Nat /\ Since(jtime) \in Nat /\ Since(dtime) \in Nat
      /\ \A k \in Req : Since(log[k].at) \in Nat
  BY TimesFacts
<1>2. /\ Ahead(clock, StartTime) < EndTicks
      /\ Ahead(clock, jtime) < (IF jpc = "wait" THEN PollMax ELSE JitLag)
      /\ dpc = "timed" => Ahead(clock, dtime) < DownLag
      /\ clock' = (clock + 1) % W
      /\ UNCHANGED <<jtime, dtime, jpc, dpc, log>>
  BY DEF Tick, down, jit
<1>3. Since(clock) < EndTicks /\ EndTicks < W - 1 /\ EndTicks \in Nat /\ W \in Nat
  BY <1>2, Turn DEF Since
<1>4. Since(clock') = Since(clock) + 1
  BY <1>1, <1>2, <1>3, SinceNext
<1>5. /\ Ahead(clock, jtime) = Since(clock) - Since(jtime)
      /\ Ahead(clock, dtime) = Since(clock) - Since(dtime)
  BY <1>1, AheadSince DEF TimesInv
<1>6. Since(jtime') = Since(jtime) /\ Since(dtime') = Since(dtime)
  BY <1>2
<1>7. PollMax \in Nat /\ JitLag \in Nat /\ DownLag \in Nat
  BY Lags
<1>8. Since(clock') <= EndTicks /\ Since(jtime') <= Since(clock') /\ Since(dtime') <= Since(clock')
  BY <1>1, <1>3, <1>4, <1>6 DEF TimesInv
<1>9. Since(clock') - Since(jtime') <= (IF jpc' = "wait" THEN PollMax ELSE JitLag)
  BY <1>1, <1>2, <1>4, <1>5, <1>6, <1>7
<1>10. dpc' = "timed" => Since(clock') - Since(dtime') <= DownLag
  BY <1>1, <1>2, <1>4, <1>5, <1>6, <1>7
<1>11. ASSUME NEW k \in Req, log'[k].node.id # 0
       PROVE  Since(log'[k].at) <= Since(clock')
  <2>1. log[k].node.id # 0 /\ log'[k].at = log[k].at
    BY <1>2, <1>11
  <2>2. Since(log[k].at) <= Since(clock)
    BY <2>1 DEF TimesInv
  <2>3. QED
    BY <1>1, <1>4, <2>1, <2>2
<1>12. QED
  BY <1>4, <1>8, <1>9, <1>10, <1>11 DEF TimesInv

\* What is read of the clock is the time; and other steps take none.
LEMMA TimesStep ==
  ASSUME QInv, TimesInv, [Next]_vars
  PROVE  TimesInv'
<1>1. /\ Since(clock) \in Nat /\ Since(jtime) \in Nat /\ Since(dtime) \in Nat
      /\ PollMax \in Nat /\ JitLag \in Nat /\ DownLag \in Nat /\ JitLag <= PollMax
  BY TimesFacts, Lags
<1>2. CASE Tick
  BY <1>2, TimesTick
<1>3. CASE DownSample
  <2>1. UNCHANGED <<clock, jtime, jpc, log>> /\ dtime' = clock
    BY <1>3 DEF DownSample, jit
  <2>2. Since(dtime') = Since(clock)
    BY <2>1
  <2>3. QED
    BY <1>1, <2>1, <2>2 DEF TimesInv
<1>4. CASE DownEnqueue
  <2> DEFINE n == Candidate(queue, dtime, dreq)
  <2>1. UNCHANGED <<clock, jtime, jpc, dtime>> /\ dpc' = "recv"
    BY <1>4 DEF DownEnqueue, jit
  <2>2. \/ log' = log
        \/ log' = [log EXCEPT ![n.id] = [node |-> n, at |-> dtime]]
    BY <1>4 DEF DownEnqueue
  <2> HIDE DEF n
  <2>3. ASSUME NEW k \in Req, log'[k].node.id # 0
        PROVE  Since(log'[k].at) <= Since(clock)
    <3>1. \/ log'[k] = log[k]
          \/ log'[k] = [node |-> n, at |-> dtime]
      BY <2>2 DEF QInv, DownTypes
    <3>2. QED
      BY <2>3, <3>1 DEF TimesInv
  <2>4. QED
    BY <1>1, <2>1, <2>3 DEF TimesInv
<1>5. CASE JitSample
  <2>1. UNCHANGED <<clock, dtime, dpc, log>> /\ jtime' = clock /\ jpc' = "timed"
    BY <1>5 DEF JitSample, down
  <2>2. Since(jtime') = Since(clock)
    BY <2>1
  <2>3. QED
    BY <1>1, <2>1, <2>2 DEF TimesInv
<1>6. CASE JitPeek \/ JitDequeue \/ JitStatus \/ JitSend \/ JitSendFails
  <2>1. UNCHANGED <<clock, dtime, dpc, log, jtime>> /\ jpc # "wait"
    BY <1>6 DEF JitPeek, JitDequeue, JitStatus, JitSend, JitSendFails, down
  <2>2. Since(clock) - Since(jtime) <= JitLag
    BY <2>1 DEF TimesInv
  <2>3. Since(clock) - Since(jtime) <= (IF jpc' = "wait" THEN PollMax ELSE JitLag)
    BY <1>1, <2>2
  <2>4. QED
    BY <2>1, <2>3 DEF TimesInv
<1>7. CASE UNCHANGED vars
  BY <1>7 DEF TimesInv, vars, down, jit
<1>8. QED
  BY <1>2, <1>3, <1>4, <1>5, <1>6, <1>7 DEF Next, Ended

-----------------------------------------------------------------------------
(* Where a request is *)

\* Request k has not been made yet, or thread_down has it.
Pending(k) == k > nReq \/ (dpc = "timed" /\ k = nReq)

\* Packet x is the one its request was queued as, and that is its fate so far.
InPlace(x, f) == x.id \in Req /\ log[x.id].node = x /\ fate[x.id] = f

RequestPlaces ==
  /\ dpc = "timed" => nReq \in Req /\ dreq.id = nReq
  /\ \A k \in Req : Pending(k) => log[k].node.id = 0 /\ fate[k] = "none"
  /\ \A k \in Req : log[k].node.id \in {0, k}
  /\ \A k \in Req : fate[k] # "none" => log[k].node.id = k

QueuePlaces ==
  /\ \A i \in 1 .. Len(queue) :
       InPlace(queue[i], "queued") /\ queue[i].pre = PreDelay(queue[i].type)
  /\ \A i, j \in 1 .. Len(queue) : queue[i].id = queue[j].id => i = j
  /\ \A k \in Req : fate[k] = "queued" => \E i \in 1 .. Len(queue) : queue[i].id = k

HandPlaces ==
  /\ jpc \in {"status", "send"} => InPlace(jpkt, "taken")
  /\ \A k \in Req : fate[k] = "taken" => jpc \in {"status", "send"} /\ jpkt.id = k

RadioPlaces ==
  /\ radio.state = "scheduled" => InPlace(radio.pkt, "programmed")
  /\ radio.state = "emitting" => InPlace(radio.pkt, "onair")
  /\ \A k \in Req : fate[k] = "programmed" => radio.state = "scheduled" /\ radio.pkt.id = k

\* A request is in one place at a time: its fate tells where.
PlacesInv == RequestPlaces /\ QueuePlaces /\ HandPlaces /\ RadioPlaces

\* No request has been made yet.
LEMMA PlacesInit == Init => PlacesInv
<1> SUFFICES ASSUME Init PROVE PlacesInv
  OBVIOUS
<1>1. /\ dpc = "recv" /\ nReq = 0 /\ queue = <<>> /\ jpc = "wait" /\ radio.state = "free"
      /\ \A k \in Req : fate[k] = "none" /\ log[k].node.id = 0
  BY DEF Init, NoLog, NoPkt
<1>2. 1 .. Len(queue) = {}
  BY <1>1
<1>3. QED
  BY <1>1, <1>2 DEF PlacesInv, RequestPlaces, QueuePlaces, HandPlaces, RadioPlaces

\* A request that is made is with thread_down.
LEMMA PlacesSample ==
  ASSUME QInv, PlacesInv, DownSample
  PROVE  PlacesInv'
<1>1. /\ dpc = "recv" /\ dpc' = "timed" /\ nReq < MaxReq /\ nReq' = nReq + 1
      /\ dreq'.id = nReq + 1
      /\ UNCHANGED <<queue, log, fate, jpc, jpkt, radio>>
  BY DEF DownSample, jit
<1>2. nReq \in Nat /\ MaxReq \in Nat
  BY SchedAssumption DEF QInv, DownTypes
<1>3. nReq' \in Req /\ \A k \in Req : Pending(k)' => Pending(k)
  BY <1>1, <1>2 DEF Req, Pending
<1>4. RequestPlaces'
  BY <1>1, <1>3 DEF PlacesInv, RequestPlaces
<1>5. QED
  BY <1>1, <1>4 DEF PlacesInv, QueuePlaces, HandPlaces, RadioPlaces, InPlace

\* What DownEnqueue does if it does not refuse.
LEMMA AcceptedStep ==
  ASSUME QInv, PlacesInv, DownEnqueue, NEW n, n = Candidate(queue, dtime, dreq),
         Verdict(queue, dtime, n) = "OK"
  PROVE  /\ n \in Queued /\ n.pre = PreDelay(n.type)
         /\ n.id = nReq /\ nReq \in Req /\ fate[nReq] = "none" /\ log[nReq].node.id = 0
         /\ fate' = [fate EXCEPT ![nReq] = "queued"]
         /\ log' = [log EXCEPT ![nReq] = [node |-> n, at |-> dtime]]
         /\ queue' = Enqueued(queue, n) /\ queue' \in Seq(Queued)
<1>1. n \in Queued
  BY QueueFacts, CandidateType DEF QInv, DownTypes, DownTimes, DownReq
<1>2. n.id = dreq.id /\ n.pre = PreDelay(n.type)
  BY DEF Candidate
<1>3. /\ dpc = "timed" /\ queue' = Enqueued(queue, n)
      /\ fate' = [fate EXCEPT ![n.id] = "queued"]
      /\ log' = [log EXCEPT ![n.id] = [node |-> n, at |-> dtime]]
  BY DEF DownEnqueue
<1>4. nReq \in Req /\ dreq.id = nReq /\ Pending(nReq)
  BY <1>3 DEF PlacesInv, RequestPlaces, Pending
<1>5. fate[nReq] = "none" /\ log[nReq].node.id = 0
  BY <1>4 DEF PlacesInv, RequestPlaces
<1>6. queue' \in Seq(Queued)
  BY <1>1, <1>3, QueueFacts, EnqueuedFacts
<1>7. QED
  BY <1>1, <1>2, <1>3, <1>4, <1>5, <1>6

\* jit_enqueue puts it into the queue, or nowhere.
LEMMA PlacesEnqueue ==
  ASSUME QInv, PlacesInv, DownEnqueue
  PROVE  PlacesInv'
<1> DEFINE n == Candidate(queue, dtime, dreq)
<1>1. /\ dpc = "timed" /\ dpc' = "recv"
      /\ UNCHANGED <<nReq, jpc, jpkt, radio>>
  BY DEF DownEnqueue, jit
<1>2. \A k \in Req : Pending(k)' => Pending(k) /\ k # nReq
  <2>1. nReq \in Nat
    BY DEF QInv, DownTypes
  <2>2. QED
    BY <1>1, <2>1 DEF Req, Pending
<1>3. CASE Verdict(queue, dtime, n) # "OK"
  <2>1. UNCHANGED <<queue, log, fate>>
    BY <1>3 DEF DownEnqueue
  <2>2. RequestPlaces'
    BY <1>1, <1>2, <2>1 DEF PlacesInv, RequestPlaces
  <2>3. QED
    BY <1>1, <2>1, <2>2 DEF PlacesInv, QueuePlaces, HandPlaces, RadioPlaces, InPlace
<1>4. CASE Verdict(queue, dtime, n) = "OK"
  <2>1. /\ n \in Queued /\ n.pre = PreDelay(n.type)
        /\ n.id = nReq /\ nReq \in Req /\ fate[nReq] = "none" /\ log[nReq].node.id = 0
        /\ fate' = [fate EXCEPT ![nReq] = "queued"]
        /\ log' = [log EXCEPT ![nReq] = [node |-> n, at |-> dtime]]
        /\ queue' = Enqueued(queue, n) /\ queue' \in Seq(Queued)
    BY <1>4, AcceptedStep
  <2> HIDE DEF n
  <2>2. /\ fate'[nReq] = "queued" /\ log'[nReq].node = n
        /\ \A k \in Req \ {nReq} : fate'[k] = fate[k] /\ log'[k] = log[k]
    BY <2>1 DEF QInv, DownTypes, RadioTypes
  <2>3. \A x, f : InPlace(x, f) /\ f # "none" => InPlace(x, f)'
    BY <2>1, <2>2 DEF InPlace
  <2>4. RequestPlaces'
    BY <1>1, <1>2, <2>1, <2>2 DEF PlacesInv, RequestPlaces
  <2>5. HandPlaces'
    BY <1>1, <2>2, <2>3 DEF PlacesInv, HandPlaces
  <2>6. RadioPlaces'
    BY <1>1, <2>2, <2>3 DEF PlacesInv, RadioPlaces
  <2>7. QueuePlaces'
    <3>1. PICK m : IsInserted(queue, queue', m) /\ queue'[m] = n
      <4>1. queue \in Seq(Queued)
        BY QueueFacts
      <4>2. QED
        BY <2>1, <4>1, EnqueuedFacts
    <3>2. Len(queue) \in Nat /\ m \in 1 .. Len(queue) + 1 /\ Len(queue') = Len(queue) + 1
      BY <3>1, QueueFacts DEF IsInserted
    <3>3. ASSUME NEW i \in 1 .. Len(queue'), i # m
          PROVE  \E j \in 1 .. Len(queue) : queue'[i] = queue[j] /\ i = IF j < m THEN j ELSE j + 1
      <4> DEFINE j == IF i < m THEN i ELSE i - 1
      <4>1. j \in 1 .. Len(queue) /\ i = IF j < m THEN j ELSE j + 1
        BY <3>2, <3>3
      <4> HIDE DEF j
      <4>2. QED
        BY <3>1, <4>1 DEF IsInserted
    <3>4. \A i \in 1 .. Len(queue) : InPlace(queue[i], "queued") /\ queue[i].id # nReq
      BY <2>1 DEF PlacesInv, QueuePlaces, InPlace
    <3>5. ASSUME NEW i \in 1 .. Len(queue')
          PROVE  /\ queue'[i].id \in Req /\ log'[queue'[i].id].node = queue'[i]
                 /\ fate'[queue'[i].id] = "queued"
                 /\ queue'[i].pre = PreDelay(queue'[i].type)
      <4>1. CASE i = m
        BY <2>1, <2>2, <3>1, <4>1
      <4>2. CASE i # m
        <5>1. PICK j \in 1 .. Len(queue) : queue'[i] = queue[j]
          BY <3>3, <4>2
        <5>2. /\ queue[j].id \in Req \ {nReq} /\ log[queue[j].id].node = queue[j]
              /\ fate[queue[j].id] = "queued" /\ queue[j].pre = PreDelay(queue[j].type)
          BY <3>4 DEF PlacesInv, QueuePlaces, InPlace
        <5>3. QED
          BY <2>2, <5>1, <5>2
      <4>3. QED
        BY <4>1, <4>2
    <3>6. ASSUME NEW i \in 1 .. Len(queue'), NEW j \in 1 .. Len(queue'),
                 queue'[i].id = queue'[j].id
          PROVE  i = j
      <4>1. CASE i # m /\ j # m
        BY <3>3, <3>6, <4>1 DEF PlacesInv, QueuePlaces
      <4>2. CASE i # m /\ j = m
        BY <2>1, <3>1, <3>3, <3>4, <3>6, <4>2
      <4>3. CASE i = m /\ j # m
        BY <2>1, <3>1, <3>3, <3>4, <3>6, <4>3
      <4>4. QED
        BY <4>1, <4>2, <4>3
    <3>7. ASSUME NEW k \in Req, fate'[k] = "queued"
          PROVE  \E i \in 1 .. Len(queue') : queue'[i].id = k
      <4>1. CASE k = nReq
        BY <2>1, <3>1, <3>2, <4>1
      <4>2. CASE k # nReq
        <5>1. PICK j \in 1 .. Len(queue) : queue[j].id = k
          BY <2>2, <3>7, <4>2 DEF PlacesInv, QueuePlaces
        <5>2. (IF j < m THEN j ELSE j + 1) \in 1 .. Len(queue')
          BY <3>2
        <5>3. QED
          BY <3>1, <5>1, <5>2 DEF IsInserted
      <4>3. QED
        BY <4>1, <4>2
    <3>8. QED
      BY <3>5, <3>6, <3>7 DEF QueuePlaces, InPlace
  <2>8. QED
    BY <2>4, <2>5, <2>6, <2>7 DEF PlacesInv
<1>5. QED
  BY <1>3, <1>4

\* What the purge in jit_peek does to the fates.
LEMMA PurgedFates ==
  ASSUME QInv, PlacesInv, JitPeek
  PROVE  /\ queue' = Purged(queue, jtime) /\ queue' \in Seq(Queued) /\ Selects(queue', queue)
         /\ \A k \in Req : \/ fate'[k] = fate[k]
                           \/ fate[k] = "queued" /\ fate'[k] = "purged"
         /\ \A i \in 1 .. Len(queue') : fate'[queue'[i].id] = fate[queue'[i].id]
         /\ \A k \in Req : fate'[k] = "queued" => \E i \in 1 .. Len(queue') : queue'[i].id = k
<1>1. /\ queue' = Purged(queue, jtime)
      /\ fate' = [k \in Req |-> IF k \in Ids(queue) \ Ids(queue') THEN "purged" ELSE fate[k]]
  BY DEF JitPeek
<1>2. queue' \in Seq(Queued) /\ Selects(queue', queue)
  BY <1>1, QueueFacts, PurgedFacts
<1>3. /\ Ids(queue) = {queue[i].id : i \in 1 .. Len(queue)}
      /\ Ids(queue') = {queue'[i].id : i \in 1 .. Len(queue')}
  BY <1>2, QueueFacts, LenProperties DEF Ids
<1>4. ASSUME NEW k \in Req
      PROVE  fate'[k] = fate[k] \/ (fate[k] = "queued" /\ fate'[k] = "purged")
  <2>1. k \in {queue[i].id : i \in 1 .. Len(queue)} => fate[k] = "queued"
    BY DEF PlacesInv, QueuePlaces, InPlace
  <2>2. QED
    BY <1>1, <1>3, <2>1
<1>5. ASSUME NEW i \in 1 .. Len(queue')
      PROVE  fate'[queue'[i].id] = fate[queue'[i].id]
  <2>1. PICK j \in 1 .. Len(queue) : queue'[i] = queue[j]
    BY <1>2 DEF Selects
  <2>2. queue'[i].id \in Req
    BY <2>1 DEF PlacesInv, QueuePlaces, InPlace
  <2>3. queue'[i].id \in Ids(queue')
    BY <1>3
  <2>4. QED
    BY <1>1, <2>2, <2>3
<1>6. ASSUME NEW k \in Req, fate'[k] = "queued"
      PROVE  \E i \in 1 .. Len(queue') : queue'[i].id = k
  <2>1. fate[k] = "queued" /\ k \notin Ids(queue) \ Ids(queue')
    BY <1>1, <1>6
  <2>2. k \in {queue[i].id : i \in 1 .. Len(queue)}
    BY <2>1 DEF PlacesInv, QueuePlaces
  <2>3. k \in {queue'[i].id : i \in 1 .. Len(queue')}
    BY <1>3, <2>1, <2>2
  <2>4. QED
    BY <2>3
<1>7. QED
  BY <1>1, <1>2, <1>4, <1>5, <1>6

\* What jit_peek purges was in the queue; the rest stays there.
LEMMA PlacesPeek ==
  ASSUME QInv, PlacesInv, JitPeek
  PROVE  PlacesInv'
<1>1. /\ UNCHANGED <<dpc, dreq, nReq, log, jpkt, radio>>
      /\ jpc = "timed" /\ jpc' \in {"wait", "peeked"}
  BY DEF JitPeek, down
<1>2. /\ queue' \in Seq(Queued) /\ Selects(queue', queue)
      /\ \A k \in Req : fate'[k] = fate[k] \/ (fate[k] = "queued" /\ fate'[k] = "purged")
      /\ \A i \in 1 .. Len(queue') : fate'[queue'[i].id] = fate[queue'[i].id]
      /\ \A k \in Req : fate'[k] = "queued" => \E i \in 1 .. Len(queue') : queue'[i].id = k
  BY PurgedFates
<1>3. RequestPlaces'
  BY <1>1, <1>2 DEF PlacesInv, RequestPlaces, Pending
<1>4. QueuePlaces'
  <2>1. PICK e \in [1 .. Len(queue') -> 1 .. Len(queue)] :
          /\ \A j, k \in 1 .. Len(queue') : j < k => e[j] < e[k]
          /\ \A j, k \in 1 .. Len(queue') : e[j] = e[k] => j = k
          /\ \A k \in 1 .. Len(queue') : queue'[k] = queue[e[k]]
    <3>1. queue \in Seq(Queued) /\ queue' \in Seq(Queued) /\ Selects(queue', queue)
      BY <1>2, QueueFacts
    <3>2. \E e : Picks(e, queue', queue)
      BY <3>1, SelectsFacts
    <3>3. QED
      BY <3>2 DEF Picks
  <2>2. \A i \in 1 .. Len(queue') :
          InPlace(queue[e[i]], "queued") /\ queue[e[i]].pre = PreDelay(queue[e[i]].type)
    BY <2>1 DEF PlacesInv, QueuePlaces
  <2>3. \A i, j \in 1 .. Len(queue') : queue'[i].id = queue'[j].id => i = j
    BY <2>1 DEF PlacesInv, QueuePlaces
  <2>4. QED
    BY <1>1, <1>2, <2>1, <2>2, <2>3 DEF QueuePlaces, InPlace
<1>5. HandPlaces'
  BY <1>1, <1>2 DEF PlacesInv, HandPlaces
<1>6. RadioPlaces'
  BY <1>1, <1>2 DEF PlacesInv, RadioPlaces, InPlace
<1>7. QED
  BY <1>3, <1>4, <1>5, <1>6 DEF PlacesInv

\* What jit_dequeue takes, thread_jit has in hand.
LEMMA PlacesDequeue ==
  ASSUME QInv, PlacesInv, JitDequeue
  PROVE  PlacesInv'
<1>1. /\ UNCHANGED <<dpc, dreq, nReq, log, radio>>
      /\ jpc = "peeked" /\ jpc' = "status" /\ jpkt' = queue[jidx]
      /\ fate' = [fate EXCEPT ![queue[jidx].id] = "taken"]
      /\ queue' = RemoveAt(queue, jidx)
  BY DEF JitDequeue, Dequeued, down
<1>2. jidx \in 1 .. Len(queue)
  BY <1>1 DEF QInv, JitTypes
<1>3. queue' \in Seq(Queued) /\ IsInserted(queue', queue, jidx)
  BY <1>1, <1>2, QueueFacts, RemoveAtFacts
<1>4. Len(queue) = Len(queue') + 1 /\ Len(queue') \in Nat
  BY <1>3, LenProperties DEF IsInserted
<1> DEFINE x == queue[jidx]
<1>5. InPlace(x, "queued")
  BY <1>2 DEF PlacesInv, QueuePlaces
<1>6. \A k \in Req : fate'[k] = IF k = x.id THEN "taken" ELSE fate[k]
  BY <1>1, <1>5 DEF QInv, RadioTypes, InPlace
<1>7. \A i \in 1 .. Len(queue) : queue[i].id = x.id => i = jidx
  BY <1>2 DEF PlacesInv, QueuePlaces
<1> HIDE DEF x
<1>8. RequestPlaces'
  BY <1>1, <1>5, <1>6 DEF PlacesInv, RequestPlaces, Pending, InPlace
<1>9. QueuePlaces'
  <2> DEFINE At(i) == IF i < jidx THEN i ELSE i + 1
  <2>1. \A i \in 1 .. Len(queue') : At(i) \in 1 .. Len(queue) /\ At(i) # jidx
                                  /\ queue'[i] = queue[At(i)]
    BY <1>2, <1>3, <1>4 DEF IsInserted
  <2>2. \A i, j \in 1 .. Len(queue') : At(i) = At(j) => i = j
    BY <1>2, <1>4
  <2>3. \A j \in 1 .. Len(queue) : j # jidx => \E i \in 1 .. Len(queue') : At(i) = j
    <3> SUFFICES ASSUME NEW j \in 1 .. Len(queue), j # jidx
                 PROVE  \E i \in 1 .. Len(queue') : At(i) = j
      OBVIOUS
    <3> DEFINE i == IF j < jidx THEN j ELSE j - 1
    <3>1. i \in 1 .. Len(queue') /\ At(i) = j
      BY <1>2, <1>4
    <3>2. QED
      BY <3>1
  <2> HIDE DEF At
  <2>4. ASSUME NEW i \in 1 .. Len(queue')
        PROVE  /\ InPlace(queue[At(i)], "queued") /\ queue[At(i)].id # x.id
               /\ queue[At(i)].pre = PreDelay(queue[At(i)].type)
    BY <1>7, <2>1 DEF PlacesInv, QueuePlaces
  <2>5. ASSUME NEW i \in 1 .. Len(queue')
        PROVE  /\ queue'[i].id \in Req /\ log'[queue'[i].id].node = queue'[i]
               /\ fate'[queue'[i].id] = "queued"
               /\ queue'[i].pre = PreDelay(queue'[i].type)
    BY <1>1, <1>6, <2>1, <2>4 DEF InPlace
  <2>6. \A i, j \in 1 .. Len(queue') : queue'[i].id = queue'[j].id => i = j
    BY <2>1, <2>2 DEF PlacesInv, QueuePlaces
  <2>7. ASSUME NEW k \in Req, fate'[k] = "queued"
        PROVE  \E i \in 1 .. Len(queue') : queue'[i].id = k
    <3>1. k # x.id /\ fate[k] = "queued"
      BY <1>6, <2>7
    <3>2. PICK j \in 1 .. Len(queue) : queue[j].id = k
      BY <3>1 DEF PlacesInv, QueuePlaces
    <3>3. j # jidx
      BY <3>1, <3>2 DEF x
    <3>4. QED
      BY <2>1, <2>3, <3>2, <3>3
  <2>8. QED
    BY <2>5, <2>6, <2>7 DEF QueuePlaces, InPlace
<1>10. HandPlaces'
  <2>1. jpkt' = x
    BY <1>1 DEF x
  <2>2. \A k \in Req : fate[k] # "taken"
    BY <1>1 DEF PlacesInv, HandPlaces
  <2>3. /\ x.id \in Req /\ log'[x.id].node = x /\ fate'[x.id] = "taken"
        /\ \A k \in Req : fate'[k] = "taken" => k = x.id
    BY <1>1, <1>5, <1>6, <2>2 DEF InPlace
  <2>4. QED
    BY <1>1, <2>1, <2>3 DEF HandPlaces, InPlace
<1>11. RadioPlaces'
  BY <1>1, <1>5, <1>6 DEF PlacesInv, RadioPlaces, InPlace
<1>12. QED
  BY <1>8, <1>9, <1>10, <1>11 DEF PlacesInv

\* A step of thread_jit that ends with the packet it has in hand: no other
\* request than this one, and perhaps the one programmed, is affected.
LEMMA PlacesDone ==
  ASSUME QInv, PlacesInv, jpc \in {"status", "send"}, jpc' = "wait",
         UNCHANGED <<dpc, dreq, nReq, log, queue>>,
         NEW S, NEW f \in [Req -> S], fate' \in {f, Aborted(f)}, \A k \in Req : k # jpkt.id => f[k] = fate[k],
         f[jpkt.id] \in {"busy", "programmed", "blocked", "failed"},
         \/ radio' = radio /\ fate' = f /\ f[jpkt.id] # "programmed"
         \/ /\ radio'.state = "free" /\ fate' = Aborted(f)
            /\ f[jpkt.id] # "programmed"
         \/ /\ radio' = [state |-> "scheduled", pkt |-> jpkt] /\ fate' = Aborted(f)
            /\ f[jpkt.id] = "programmed"
  PROVE  PlacesInv'
<1>1. jpkt.id \in Req /\ log[jpkt.id].node = jpkt /\ fate[jpkt.id] = "taken"
  BY DEF PlacesInv, HandPlaces, InPlace
<1>2. radio.state \in {"free", "scheduled", "emitting"}
  BY DEF QInv, RadioTypes
<1>3. radio.state # "free" =>
        /\ radio.pkt.id \in Req /\ radio.pkt.id # jpkt.id
        /\ fate[radio.pkt.id] \in {"programmed", "onair"}
  BY <1>1, <1>2 DEF PlacesInv, RadioPlaces, InPlace
<1> DEFINE Gone(k) == fate' = Aborted(f) /\ radio.state # "free" /\ k = radio.pkt.id
<1>4. ASSUME NEW k \in Req
      PROVE  /\ ~Gone(k) => fate'[k] = f[k]
             /\ Gone(k) => fate'[k] \in {"cut", "overwritten"} /\ k # jpkt.id
  BY <1>1, <1>2, <1>3 DEF Aborted
<1> HIDE DEF Gone
<1>5. ASSUME NEW k \in Req
      PROVE  \/ fate'[k] = fate[k] /\ k # jpkt.id
             \/ /\ k # jpkt.id /\ Gone(k)
                /\ fate'[k] \in {"cut", "overwritten"}
                /\ fate[k] \in {"programmed", "onair"}
             \/ k = jpkt.id /\ fate'[k] = f[k]
  BY <1>1, <1>3, <1>4 DEF Gone
<1>6. RequestPlaces'
  BY <1>1, <1>5 DEF PlacesInv, RequestPlaces, Pending
<1>7. QueuePlaces'
  <2>1. ASSUME NEW i \in 1 .. Len(queue)
        PROVE  fate'[queue[i].id] = "queued"
    <3>1. queue[i].id \in Req /\ fate[queue[i].id] = "queued"
      BY DEF PlacesInv, QueuePlaces, InPlace
    <3>2. QED
      BY <1>1, <1>5, <3>1
  <2>2. \A k \in Req : fate'[k] = "queued" => fate[k] = "queued"
    BY <1>5
  <2>3. QED
    BY <2>1, <2>2 DEF PlacesInv, QueuePlaces, InPlace
<1>8. HandPlaces'
  <2>1. \A k \in Req : fate[k] = "taken" => k = jpkt.id
    BY DEF PlacesInv, HandPlaces
  <2>2. \A k \in Req : fate'[k] # "taken"
    BY <1>1, <1>5, <2>1
  <2>3. QED
    BY <2>2 DEF HandPlaces
<1>9. RadioPlaces'
  <2>1. CASE radio' = radio /\ fate' = f /\ f[jpkt.id] # "programmed"
    <3>1. \A k \in Req : k # jpkt.id => fate'[k] = fate[k]
      BY <2>1
    <3>2. fate'[jpkt.id] # "programmed"
      BY <2>1
    <3>3. QED
      BY <1>1, <1>3, <2>1, <3>1, <3>2 DEF PlacesInv, RadioPlaces, InPlace
  <2>2. CASE radio'.state = "free" /\ fate' = Aborted(f) /\ f[jpkt.id] # "programmed"
    <3>1. ASSUME NEW k \in Req, fate'[k] = "programmed"
          PROVE  FALSE
      <4>1. fate[k] = "programmed" /\ k # jpkt.id
        BY <1>5, <2>2, <3>1
      <4>2. radio.state = "scheduled" /\ radio.pkt.id = k
        BY <4>1 DEF PlacesInv, RadioPlaces
      <4>3. Gone(k)
        BY <2>2, <4>2 DEF Gone
      <4>4. QED
        BY <1>4, <3>1, <4>3
    <3>2. QED
      BY <2>2, <3>1 DEF RadioPlaces
  <2>3. CASE /\ radio' = [state |-> "scheduled", pkt |-> jpkt] /\ fate' = Aborted(f)
             /\ f[jpkt.id] = "programmed"
    <3>1. ASSUME NEW k \in Req, fate'[k] = "programmed", k # jpkt.id
          PROVE  FALSE
      <4>1. fate[k] = "programmed"
        BY <1>5, <3>1
      <4>2. radio.state = "scheduled" /\ radio.pkt.id = k
        BY <4>1 DEF PlacesInv, RadioPlaces
      <4>3. Gone(k)
        BY <2>3, <4>2 DEF Gone
      <4>4. QED
        BY <1>4, <3>1, <4>3
    <3>2. fate'[jpkt.id] = "programmed"
      BY <1>1, <1>5, <2>3
    <3>3. /\ radio'.state = "scheduled" /\ radio'.pkt = jpkt
          /\ log'[jpkt.id].node = jpkt
      BY <1>1, <2>3
    <3>4. QED
      BY <1>1, <3>1, <3>2, <3>3 DEF RadioPlaces, InPlace
  <2>4. QED
    BY <2>1, <2>2, <2>3
<1>10. QED
  BY <1>6, <1>7, <1>8, <1>9 DEF PlacesInv

\* It goes from there to the concentrator, or is dropped.
LEMMA PlacesHand ==
  ASSUME QInv, PlacesInv, JitStatus \/ JitSend \/ JitSendFails
  PROVE  PlacesInv'
<1> DEFINE F(x) == [fate EXCEPT ![jpkt.id] = x]
           S == {"none", "queued", "purged", "taken", "busy", "programmed",
                 "blocked", "failed", "overwritten", "cut", "onair"}
<1>1. /\ jpc \in {"status", "send"}
      /\ UNCHANGED <<dpc, dreq, nReq, log, queue>>
  BY DEF JitStatus, JitSend, JitSendFails, down
<1>2. jpkt.id \in Req
  BY <1>1 DEF PlacesInv, HandPlaces, InPlace
<1>3. \A x \in S : /\ F(x) \in [Req -> S] /\ F(x)[jpkt.id] = x
                   /\ \A k \in Req : k # jpkt.id => F(x)[k] = fate[k]
  BY <1>2 DEF QInv, RadioTypes
<1> HIDE DEF F
<1>4. CASE JitStatus /\ radio.state = "emitting"
  <2>1. fate' = F("busy") /\ jpc' = "wait" /\ radio' = radio
    BY <1>4 DEF JitStatus, F
  <2>2. F("busy")[jpkt.id] = "busy"
    BY <1>3
  <2>3. QED
    BY <1>1, <1>3, <2>1, <2>2, PlacesDone
<1>5. CASE JitStatus /\ radio.state # "emitting"
  <2>1. UNCHANGED <<fate, jpkt, radio>> /\ jpc' = "send" /\ jpc = "status"
    BY <1>5 DEF JitStatus
  <2>2. QED
    BY <1>1, <2>1
    DEF PlacesInv, RequestPlaces, QueuePlaces, HandPlaces, RadioPlaces, InPlace, Pending
<1>6. CASE JitSend
  <2>1. PICK outcome \in Outcomes \ {"failed"} :
          /\ radio' = IF outcome = "blocked" THEN [state |-> "free", pkt |-> NoPkt]
                      ELSE [state |-> "scheduled", pkt |-> jpkt]
          /\ fate' = Aborted(F(outcome))
    BY <1>6 DEF JitSend, F
  <2>2. outcome \in {"programmed", "blocked"} /\ jpc' = "wait"
    BY <1>6, SchedAssumption DEF JitSend
  <2>3. F(outcome) \in [Req -> S] /\ F(outcome)[jpkt.id] = outcome
    BY <1>3, <2>2
  <2>4. CASE outcome = "blocked"
    <3>1. radio'.state = "free" /\ F(outcome)[jpkt.id] = "blocked"
      BY <2>1, <2>3, <2>4
    <3>2. QED
      BY <1>1, <1>3, <2>1, <2>2, <2>3, <3>1, PlacesDone
  <2>5. CASE outcome = "programmed"
    <3>1. /\ radio' = [state |-> "scheduled", pkt |-> jpkt]
          /\ F(outcome)[jpkt.id] = "programmed"
      BY <2>1, <2>3, <2>5
    <3>2. QED
      BY <1>1, <1>3, <2>1, <2>2, <2>3, <3>1, PlacesDone
  <2>6. QED
    BY <2>2, <2>4, <2>5
<1>7. CASE JitSendFails
  <2>1. /\ jpc' = "wait"
        /\ \/ fate' = F("failed") /\ radio' = radio
           \/ fate' = Aborted(F("failed")) /\ radio'.state = "free"
    BY <1>7 DEF JitSendFails, F
  <2>2. F("failed") \in [Req -> S] /\ F("failed")[jpkt.id] = "failed"
    BY <1>3
  <2>3. QED
    BY <1>1, <1>3, <2>1, <2>2, PlacesDone
<1>8. QED
  BY <1>4, <1>5, <1>6, <1>7

\* The concentrator sends what is programmed.
LEMMA PlacesTick ==
  ASSUME QInv, PlacesInv, Tick
  PROVE  PlacesInv'
<1>1. UNCHANGED <<dpc, dreq, nReq, log, queue, jpc, jpkt>>
  BY DEF Tick, down, jit
<1>2. CASE UNCHANGED <<radio, fate>>
  BY <1>1, <1>2
  DEF PlacesInv, RequestPlaces, QueuePlaces, HandPlaces, RadioPlaces, InPlace, Pending
<1>3. CASE /\ radio.state = "scheduled" /\ radio' = [radio EXCEPT !.state = "emitting"]
           /\ fate' = [fate EXCEPT ![radio.pkt.id] = "onair"]
  <2> DEFINE x == radio.pkt
  <2>1. x.id \in Req /\ log[x.id].node = x /\ fate[x.id] = "programmed"
    BY <1>3 DEF PlacesInv, RadioPlaces, InPlace
  <2>2. \A k \in Req : fate'[k] = IF k = x.id THEN "onair" ELSE fate[k]
    BY <1>3 DEF QInv, RadioTypes
  <2>3. radio'.state = "emitting" /\ radio'.pkt = x
    BY <1>3 DEF QInv, RadioTypes
  <2>4. \A k \in Req : fate[k] = "programmed" => k = x.id
    BY DEF PlacesInv, RadioPlaces
  <2> HIDE DEF x
  <2>5. RequestPlaces'
    BY <1>1, <2>1, <2>2 DEF PlacesInv, RequestPlaces, Pending
  <2>6. QueuePlaces'
    BY <1>1, <2>1, <2>2 DEF PlacesInv, QueuePlaces, InPlace
  <2>7. HandPlaces'
    BY <1>1, <2>1, <2>2 DEF PlacesInv, HandPlaces, InPlace
  <2>8. RadioPlaces'
    BY <1>1, <2>1, <2>2, <2>3, <2>4 DEF PlacesInv, RadioPlaces, InPlace
  <2>9. QED
    BY <2>5, <2>6, <2>7, <2>8 DEF PlacesInv
<1>4. CASE radio.state = "emitting" /\ radio'.state = "free" /\ fate' = fate
  <2>1. \A k \in Req : fate[k] # "programmed"
    BY <1>4 DEF PlacesInv, RadioPlaces
  <2>2. RadioPlaces'
    BY <1>4, <2>1 DEF RadioPlaces
  <2>3. QED
    BY <1>1, <1>4, <2>2
    DEF PlacesInv, RequestPlaces, QueuePlaces, HandPlaces, InPlace, Pending
<1>5. QED
  BY <1>2, <1>3, <1>4 DEF Tick, RadioTick

\* Each step leaves each request in one place.
LEMMA PlacesStep ==
  ASSUME QInv, PlacesInv, [Next]_vars
  PROVE  PlacesInv'
<1>1. CASE UNCHANGED <<dpc, dreq, nReq, log, queue, jpkt, radio, fate>>
           /\ (jpc' = jpc \/ (jpc = "wait" /\ jpc' = "timed"))
  BY <1>1
  DEF PlacesInv, RequestPlaces, QueuePlaces, HandPlaces, RadioPlaces, InPlace, Pending
<1>2. JitSample \/ UNCHANGED vars =>
        /\ UNCHANGED <<dpc, dreq, nReq, log, queue, jpkt, radio, fate>>
        /\ jpc' = jpc \/ (jpc = "wait" /\ jpc' = "timed")
  BY DEF JitSample, vars, down, jit
<1>3. QED
  BY <1>1, <1>2, PlacesSample, PlacesEnqueue, PlacesPeek, PlacesDequeue, PlacesHand, PlacesTick
  DEF Next, Ended

-----------------------------------------------------------------------------
(* The order of the queue, while every packet accepted is regular *)

\* Request k is in conflict with another.
Contested(k) == \E j \in Req : Conflict(j, k)

\* a departs first, and leaves b the time that criterion 3 asks for.
Spaced(a, b) ==
  Since(b.count) - Since(a.count) >
    a.post + MarginDelay
    + (IF a.type \in {"A", "C"} /\ b.type = "BEACON" THEN StartDelay ELSE b.pre)

\* x departs at time t or later; or else it is a beacon close behind a downlink.
Safe(x, t) ==
  \/ Since(x.count) >= t
  \/ /\ x.type = "BEACON" /\ Contested(x.id)
     /\ Since(x.count) >= t - PollMax + StartDelay + MarginDelay + 1

\* x is due, and thread_jit did not look too late for it to be programmed in
\* time, unless it is in conflict with another.
InHand(x) ==
  /\ Since(x.count) \in Since(jtime) .. Since(jtime) + JitDelay - 1
  /\ Since(x.count) >= Since(jtime) + JitDelay - PollMax \/ Contested(x.id)

\* What thread_jit has looked for last was due before this time.
Looked == Since(jtime) + JitDelay - (IF jpc = "timed" THEN PollMax ELSE 0)

Sorted ==
  /\ \A i \in 1 .. Len(queue) : Since(queue[i].count) < W \div 2
  /\ \A i, j \in 1 .. Len(queue) : i < j => Spaced(queue[i], queue[j])

\* The queue is in order, what is due in it is the packet peeked, and this is in
\* front.
Ordered ==
  /\ Sorted
  /\ \A i \in 1 .. Len(queue) : (jpc = "peeked" /\ i = 1) \/ Safe(queue[i], Looked)
  /\ jpc = "peeked" => /\ jidx = 1 /\ 1 \in 1 .. Len(queue)
                       /\ queue[1].id = peeked /\ InHand(queue[1])

OrderInv == AllRegular => Ordered

\* What is in the log stays there.
LEMMA LogGrows ==
  ASSUME QInv, PlacesInv, [Next]_vars
  PROVE  /\ \A k \in Req : log[k].node.id # 0 => log'[k] = log[k]
         /\ AllRegular' => AllRegular
         /\ \A k \in Req : Contested(k) => Contested(k)'
<1>1. ASSUME NEW k \in Req, log[k].node.id # 0
      PROVE  log'[k] = log[k]
  <2>1. CASE DownEnqueue
    <3> DEFINE n == Candidate(queue, dtime, dreq)
    <3>1. CASE Verdict(queue, dtime, n) = "OK"
      <4>1. /\ log[nReq].node.id = 0
            /\ log' = [log EXCEPT ![nReq] = [node |-> n, at |-> dtime]]
        BY <2>1, <3>1, AcceptedStep
      <4>2. QED
        BY <1>1, <4>1
    <3>2. CASE Verdict(queue, dtime, n) # "OK"
      BY <2>1, <3>2 DEF DownEnqueue
    <3>3. QED
      BY <3>1, <3>2
  <2>2. CASE log' = log
    BY <2>2
  <2>3. QED
    BY <2>1, <2>2
    DEF Next, DownSample, JitSample, JitPeek, JitDequeue, JitStatus, JitSend,
        JitSendFails, Tick, Ended, down, vars
<1>2. AllRegular' => AllRegular
  BY <1>1 DEF AllRegular, Regular
<1>3. \A k \in Req : Contested(k) => Contested(k)'
  BY <1>1 DEF Contested, Conflict
<1>4. QED
  BY <1>1, <1>2, <1>3

\* The times of the nodes of the queue.
LEMMA NodeTimes ==
  /\ \A x \in Node :
       /\ x.count \in Time /\ Since(x.count) \in Nat /\ Since(x.count) < W
       /\ x.pre \in Nat /\ x.post \in Nat /\ x.type \in PktType
  /\ \A x \in Queued :
       /\ x.count \in Time /\ Since(x.count) \in Nat /\ Since(x.count) < W
       /\ x.pre \in Nat /\ x.post \in Nat /\ x.type \in PktType
BY SinceType DEF Queued, Node

\* The sort compares departure times, as long as they lie within half a turn.
LEMMA BeforeMeaning ==
  ASSUME NEW c \in Time, NEW d \in Time, Since(c) < W \div 2, Since(d) < W \div 2
  PROVE  Before(c, d) <=> Since(c) < Since(d)
<1>1. Since(c) \in Nat /\ Since(d) \in Nat
  BY SinceType
<1>2. Ahead(d, c) = IF Since(c) <= Since(d) THEN Since(d) - Since(c)
                    ELSE Since(d) - Since(c) + W
  BY AheadSince
<1>3. W \in Nat /\ W \div 2 \in Nat /\ 2 * (W \div 2) <= W
  BY Turn
<1> HIDE DEF Since
<1>4. CASE Since(c) <= Since(d)
  <2>1. Ahead(d, c) = Since(d) - Since(c)
    BY <1>2, <1>4
  <2>2. QED
    BY <1>1, <1>3, <1>4, <2>1 DEF Before
<1>5. CASE ~(Since(c) <= Since(d))
  <2>1. Ahead(d, c) = Since(d) - Since(c) + W
    BY <1>2, <1>5
  <2>2. QED
    BY <1>1, <1>3, <1>5, <2>1 DEF Before
<1>6. QED
  BY <1>4, <1>5

\* What does not collide is spaced, whichever of the two departs first.
LEMMA ApartMeaning ==
  ASSUME NEW n \in Queued, NEW x \in Queued, ~Collides(n, x),
         n.pre = PreDelay(n.type), x.pre = PreDelay(x.type)
  PROVE  /\ Since(x.count) <= Since(n.count) => Spaced(x, n)
         /\ Since(n.count) <= Since(x.count) => Spaced(n, x)
<1>1. /\ n.count \in Time /\ Since(n.count) \in Nat /\ n.pre \in Nat /\ n.post \in Nat
      /\ x.count \in Time /\ Since(x.count) \in Nat /\ x.pre \in Nat /\ x.post \in Nat
  BY NodeTimes
<1>2. StartDelay \in Nat /\ MarginDelay \in Nat /\ n.pre >= StartDelay
  BY Lags DEF Queued
<1> DEFINE pre == IF n.type \in {"A", "C"} /\ x.type = "BEACON" THEN StartDelay ELSE x.pre
<1>3. /\ ~(Ahead(n.count, x.count) <= n.pre + x.post + MarginDelay)
      /\ ~(Ahead(x.count, n.count) <= pre + n.post + MarginDelay)
  BY DEF Collides, CollisionTest
<1>4. pre \in Nat
  BY <1>1, <1>2
<1>5. ASSUME Since(x.count) <= Since(n.count)
      PROVE  Spaced(x, n)
  <2>1. Ahead(n.count, x.count) = Since(n.count) - Since(x.count)
    BY <1>1, <1>5, AheadSince
  <2>2. Since(n.count) - Since(x.count) > n.pre + x.post + MarginDelay
    BY <1>1, <1>2, <1>3, <2>1
  <2>3. QED
    BY <1>1, <1>2, <2>2 DEF Spaced
<1>6. ASSUME Since(n.count) <= Since(x.count)
      PROVE  Spaced(n, x)
  <2>1. Ahead(x.count, n.count) = Since(x.count) - Since(n.count)
    BY <1>1, <1>6, AheadSince
  <2>2. Since(x.count) - Since(n.count) > pre + n.post + MarginDelay
    BY <1>1, <1>2, <1>3, <1>4, <2>1
  <2>3. QED
    BY <1>1, <1>2, <2>2 DEF Spaced
<1>7. QED
  BY <1>5, <1>6

\* What is spaced is in order.
LEMMA SpacedLater ==
  ASSUME NEW a \in Queued, NEW b \in Queued, Spaced(a, b)
  PROVE  Since(a.count) < Since(b.count)
<1>1. /\ Since(a.count) \in Nat /\ Since(b.count) \in Nat /\ a.post \in Nat /\ b.pre \in Nat
      /\ StartDelay \in Nat /\ MarginDelay \in Nat
  BY NodeTimes, Lags
<1>2. QED
  BY <1>1 DEF Spaced

\* When a regular packet is accepted, it is to depart when thread_jit has long
\* looked again.
LEMMA RegularNode ==
  ASSUME QInv, TimesInv, PlacesInv, DownEnqueue, AllRegular',
         NEW n, n = Candidate(queue, dtime, dreq), Verdict(queue, dtime, n) = "OK"
  PROVE  /\ Since(n.count) = Since(dtime) + Ahead(n.count, dtime)
         /\ Since(n.count) < W \div 2
         /\ Since(n.count) > Since(jtime) + JitDelay
<1>1. /\ n \in Queued /\ n.id = nReq /\ nReq \in Req
      /\ log' = [log EXCEPT ![nReq] = [node |-> n, at |-> dtime]]
  BY AcceptedStep
<1>2. log'[nReq].node = n /\ log'[nReq].at = dtime /\ n.id # 0
  BY <1>1 DEF QInv, DownTypes, Req
<1>3. Ahead(n.count, dtime) \in Lead + 1 .. W \div 4 - 1
  <2>1. PICK k \in Req : k = nReq
    BY <1>1
  <2>2. Regular(k)'
    BY <1>2, <2>1 DEF AllRegular
  <2>3. QED
    BY <1>2, <2>1, <2>2 DEF Regular
<1>4. /\ Since(clock) \in Nat /\ Since(jtime) \in Nat /\ Since(dtime) \in Nat
      /\ dtime \in Time /\ n.count \in Time
  BY <1>1, TimesFacts, NodeTimes
<1>5. /\ Since(dtime) <= Since(clock) /\ Since(clock) <= EndTicks
      /\ Since(jtime) <= Since(clock) /\ Since(clock) - Since(dtime) <= DownLag
  BY DEF DownEnqueue, TimesInv
<1>6. /\ W \in Nat /\ W \div 2 \in Nat /\ W \div 4 \in Nat
      /\ 2 * (W \div 4) <= W \div 2 /\ 2 * (W \div 2) <= W /\ EndTicks \in Nat
      /\ EndTicks <= W \div 4
  BY Turn
<1>7. /\ Lead \in Nat /\ Lead = StartDelay + MarginDelay + JitDelay
      /\ StartDelay \in Nat /\ MarginDelay \in Nat /\ JitDelay \in Nat /\ DownLag \in Nat
      /\ DownLag <= StartDelay + MarginDelay
  BY Lags
<1>8. Ahead(n.count, dtime) \in Nat /\ Since(dtime) + Ahead(n.count, dtime) < W \div 2
  BY <1>3, <1>4, <1>5, <1>6, <1>7
<1>9. Since(n.count) = Since(dtime) + Ahead(n.count, dtime)
  BY <1>4, <1>6, <1>8, SinceAhead
<1>10. Since(n.count) > Since(jtime) + JitDelay
  BY <1>3, <1>4, <1>5, <1>7, <1>9
<1>11. QED
  BY <1>8, <1>9, <1>10

\* A packet is inserted in its place.
LEMMA SortedInserted ==
  ASSUME NEW s \in Seq(Queued), NEW n \in Queued, n.pre = PreDelay(n.type),
         \A i \in 1 .. Len(s) : s[i].pre = PreDelay(s[i].type) /\ ~Collides(n, s[i]),
         Since(n.count) < W \div 2,
         \A i \in 1 .. Len(s) : Since(s[i].count) < W \div 2,
         \A i, j \in 1 .. Len(s) : i < j => Spaced(s[i], s[j])
  PROVE  \E m \in 1 .. Len(s) + 1 :
           /\ IsInserted(s, Enqueued(s, n), m) /\ Enqueued(s, n)[m] = n
           /\ \A i \in 1 .. Len(s) : /\ i < m => Spaced(s[i], n)
                                     /\ m <= i => Spaced(n, s[i])
<1>1. PICK m : /\ IsInserted(s, Enqueued(s, n), m) /\ Enqueued(s, n)[m] = n
               /\ \A i \in 1 .. Len(s) : i < m => ~Before(n.count, s[i].count)
               /\ m \in 1 .. Len(s) => Before(n.count, s[m].count)
  BY EnqueuedPlace
<1>2. Len(s) \in Nat /\ m \in 1 .. Len(s) + 1 /\ \A i \in 1 .. Len(s) : s[i] \in Queued
  BY <1>1, LenProperties, ElementOfSeq DEF IsInserted
<1>3. \A i \in 1 .. Len(s) : Before(n.count, s[i].count) <=> Since(n.count) < Since(s[i].count)
  BY <1>2, NodeTimes, BeforeMeaning
<1>4. \A i \in 1 .. Len(s) : /\ Since(s[i].count) <= Since(n.count) => Spaced(s[i], n)
                             /\ Since(n.count) <= Since(s[i].count) => Spaced(n, s[i])
  BY <1>2, ApartMeaning
<1>5. Since(n.count) \in Nat /\ \A i \in 1 .. Len(s) : Since(s[i].count) \in Nat
  BY <1>2, NodeTimes
<1>6. ASSUME NEW i \in 1 .. Len(s), i < m
      PROVE  Spaced(s[i], n)
  <2>1. ~(Since(n.count) < Since(s[i].count))
    BY <1>1, <1>3, <1>6
  <2>2. Since(s[i].count) <= Since(n.count)
    BY <1>5, <2>1
  <2>3. QED
    BY <1>4, <2>2
<1>7. ASSUME NEW i \in 1 .. Len(s), m <= i
      PROVE  Spaced(n, s[i])
  <2>1. m \in 1 .. Len(s)
    BY <1>2, <1>7
  <2>2. Since(n.count) < Since(s[m].count)
    BY <1>1, <1>3, <2>1
  <2>3. Since(s[m].count) <= Since(s[i].count)
    <3>1. CASE i = m
      BY <1>5, <3>1
    <3>2. CASE i # m
      <4>1. m < i
        BY <1>2, <1>7, <3>2
      <4>2. Since(s[m].count) < Since(s[i].count)
        BY <1>2, <2>1, <4>1, SpacedLater
      <4>3. QED
        BY <1>5, <2>1, <4>2
    <3>3. QED
      BY <3>1, <3>2
  <2>4. QED
    BY <1>4, <1>5, <2>1, <2>2, <2>3
<1>8. QED
  BY <1>1, <1>2, <1>6, <1>7

\* jit_enqueue inserts behind what thread_jit may be looking at.
LEMMA OrderEnqueue ==
  ASSUME QInv, TimesInv, PlacesInv, OrderInv, DownEnqueue
  PROVE  OrderInv'
<1> SUFFICES ASSUME AllRegular' PROVE Ordered'
  BY DEF OrderInv
<1> DEFINE n == Candidate(queue, dtime, dreq)
<1>1. /\ UNCHANGED <<clock, jtime, jidx, peeked, jpc>>
      /\ Looked' = Looked
  BY DEF DownEnqueue, jit, Looked
<1>2. Ordered /\ \A k \in Req : Contested(k) => Contested(k)'
  BY LogGrows DEF OrderInv, Next
<1>3. CASE Verdict(queue, dtime, n) # "OK"
  <2>1. UNCHANGED <<queue, log>>
    BY <1>3 DEF DownEnqueue
  <2>2. QED
    BY <1>1, <1>2, <2>1
    DEF Ordered, Sorted, Safe, InHand, Contested, Conflict
<1>4. CASE Verdict(queue, dtime, n) = "OK"
  <2>1. /\ n \in Queued /\ n.pre = PreDelay(n.type)
        /\ queue' = Enqueued(queue, n) /\ queue' \in Seq(Queued)
    BY <1>4, AcceptedStep
  <2>2. /\ Since(n.count) < W \div 2
        /\ Since(n.count) > Since(jtime) + JitDelay
    BY <1>4, RegularNode
  <2>3. \A i \in DOMAIN queue : ~Collides(n, queue[i])
    BY <1>4, AcceptedMeaning
  <2> HIDE DEF n
  <2>4. \A i \in 1 .. Len(queue) :
          /\ queue[i] \in Queued /\ InPlace(queue[i], "queued")
          /\ queue[i].pre = PreDelay(queue[i].type) /\ ~Collides(n, queue[i])
    BY <2>3, QueueFacts DEF PlacesInv, QueuePlaces
  <2>5. PICK m \in 1 .. Len(queue) + 1 :
          /\ IsInserted(queue, queue', m) /\ queue'[m] = n
          /\ \A i \in 1 .. Len(queue) : /\ i < m => Spaced(queue[i], n)
                                        /\ m <= i => Spaced(n, queue[i])
    <3>1. queue \in Seq(Queued)
      BY QueueFacts
    <3>2. QED
      BY <1>2, <2>1, <2>2, <2>4, <3>1, SortedInserted DEF Ordered, Sorted
  <2>6. Len(queue) \in Nat /\ Len(queue') = Len(queue) + 1
    BY <2>5, QueueFacts DEF IsInserted
  <2>7. ASSUME NEW i \in 1 .. Len(queue'), i # m
        PROVE  \E j \in 1 .. Len(queue) : queue'[i] = queue[j] /\ i = IF j < m THEN j ELSE j + 1
    <3> DEFINE j == IF i < m THEN i ELSE i - 1
    <3>1. j \in 1 .. Len(queue) /\ i = IF j < m THEN j ELSE j + 1
      BY <2>5, <2>6, <2>7
    <3> HIDE DEF j
    <3>2. QED
      BY <2>5, <3>1 DEF IsInserted
  <2>8. Since(n.count) >= Looked
    <3>1. /\ Since(n.count) \in Nat /\ Since(jtime) \in Nat /\ JitDelay \in Nat
          /\ PollMax \in Nat
      BY <2>1, TimesFacts, NodeTimes, Lags
    <3>2. QED
      BY <2>2, <3>1 DEF Looked
  <2>9. Sorted'
    <3>1. \A i \in 1 .. Len(queue') : Since(queue'[i].count) < W \div 2
      BY <1>2, <2>2, <2>5, <2>7 DEF Ordered, Sorted
    <3>2. ASSUME NEW i \in 1 .. Len(queue'), NEW j \in 1 .. Len(queue'), i < j
          PROVE  Spaced(queue'[i], queue'[j])
      <4>1. CASE i # m /\ j # m
        <5>1. PICK a \in 1 .. Len(queue) : queue'[i] = queue[a] /\ i = IF a < m THEN a ELSE a + 1
          BY <2>7, <4>1
        <5>2. PICK b \in 1 .. Len(queue) : queue'[j] = queue[b] /\ j = IF b < m THEN b ELSE b + 1
          BY <2>7, <4>1
        <5>3. a < b
          BY <2>5, <2>6, <3>2, <5>1, <5>2
        <5>4. QED
          BY <1>2, <5>1, <5>2, <5>3 DEF Ordered, Sorted
      <4>2. CASE i # m /\ j = m
        <5>1. PICK a \in 1 .. Len(queue) : queue'[i] = queue[a] /\ i = IF a < m THEN a ELSE a + 1
          BY <2>7, <4>2
        <5>2. a < m
          BY <2>5, <2>6, <3>2, <4>2, <5>1
        <5>3. QED
          BY <2>5, <4>2, <5>1, <5>2
      <4>3. CASE i = m
        <5>1. j # m
          BY <2>6, <3>2, <4>3
        <5>2. PICK b \in 1 .. Len(queue) : queue'[j] = queue[b] /\ j = IF b < m THEN b ELSE b + 1
          BY <2>7, <5>1
        <5>3. m <= b
          BY <2>5, <2>6, <3>2, <4>3, <5>2
        <5>4. QED
          BY <2>5, <4>3, <5>2, <5>3
      <4>4. QED
        BY <4>1, <4>2, <4>3
    <3>3. QED
      BY <3>1, <3>2 DEF Sorted, Spaced, Since, Ahead
  <2>10. jpc = "peeked" => 1 \in 1 .. Len(queue) /\ m # 1 /\ queue'[1] = queue[1]
    <3> SUFFICES ASSUME jpc = "peeked"
                 PROVE  1 \in 1 .. Len(queue) /\ m # 1 /\ queue'[1] = queue[1]
      OBVIOUS
    <3>1. /\ 1 \in 1 .. Len(queue)
          /\ Since(queue[1].count) <= Since(jtime) + JitDelay - 1
      BY <1>2 DEF Ordered, InHand
    <3>2. Since(queue[1].count) \in Nat /\ Since(n.count) \in Nat
      BY <2>1, <2>4, <3>1, NodeTimes
    <3>3. Since(queue[1].count) < Since(n.count)
      <4>1. Since(jtime) \in Nat /\ JitDelay \in Nat
        BY TimesFacts, Lags
      <4>2. QED
        BY <2>2, <3>1, <3>2, <4>1
    <3>4. m # 1
      <4>1. m = 1 => Spaced(n, queue[1])
        BY <2>5, <3>1
      <4>2. ~Spaced(n, queue[1])
        BY <2>1, <2>4, <3>1, <3>2, <3>3, SpacedLater
      <4>3. QED
        BY <4>1, <4>2
    <3>5. queue'[1] = queue[1]
      BY <2>5, <2>6, <3>1, <3>4 DEF IsInserted
    <3>6. QED
      BY <3>1, <3>4, <3>5
  <2>11. ASSUME NEW i \in 1 .. Len(queue'), ~(jpc = "peeked" /\ i = 1)
         PROVE  \/ Since(queue'[i].count) >= Looked
                \/ /\ queue'[i].type = "BEACON" /\ queue'[i].id \in Req
                   /\ Contested(queue'[i].id)
                   /\ Since(queue'[i].count) >= Looked - PollMax + StartDelay + MarginDelay + 1
    <3>1. CASE i = m
      BY <2>5, <2>8, <3>1
    <3>2. CASE i # m
      <4>1. PICK j \in 1 .. Len(queue) : queue'[i] = queue[j] /\ i = IF j < m THEN j ELSE j + 1
        BY <2>7, <3>2
      <4>2. ~(jpc = "peeked" /\ j = 1)
        BY <2>5, <2>6, <2>10, <2>11, <4>1
      <4>3. Safe(queue[j], Looked) /\ queue[j].id \in Req
        BY <1>2, <2>4, <4>2 DEF Ordered, InPlace
      <4>4. QED
        BY <4>1, <4>3 DEF Safe
    <3>3. QED
      BY <3>1, <3>2
  <2>12. ASSUME NEW i \in 1 .. Len(queue'), ~(jpc' = "peeked" /\ i = 1)
         PROVE  Safe(queue[i], Looked)'
    <3>1. CASE Since(queue'[i].count) >= Looked
      BY <1>1, <3>1 DEF Safe
    <3>2. CASE /\ queue'[i].type = "BEACON" /\ queue'[i].id \in Req
               /\ Contested(queue'[i].id)
               /\ Since(queue'[i].count) >= Looked - PollMax + StartDelay + MarginDelay + 1
      <4>1. PICK k \in Req : k = queue'[i].id /\ Contested(k)
        BY <3>2
      <4>2. Contested(k)'
        BY <1>2, <4>1
      <4>3. Contested(queue[i].id)'
        BY <4>1, <4>2 DEF Contested
      <4>4. QED
        BY <1>1, <3>2, <4>3 DEF Safe
    <3>3. QED
      BY <1>1, <2>11, <2>12, <3>1, <3>2
  <2>13. jpc = "peeked" => InHand(queue[1])'
    BY <1>1, <1>2, <2>4, <2>10 DEF Ordered, InHand, InPlace
  <2>14. jpc' = "peeked" => /\ jidx' = 1 /\ 1 \in 1 .. Len(queue')
                            /\ queue'[1].id = peeked' /\ InHand(queue[1])'
    BY <1>1, <1>2, <2>6, <2>10, <2>13 DEF Ordered
  <2>15. QED
    BY <2>9, <2>12, <2>14 DEF Ordered
<1>5. QED
  BY <1>3, <1>4

\* What jit_peek finds in a queue in which nothing is overdue: the first node, if
\* it is due.  If it purges the first, all others are far away.
LEMMA PeekSorted ==
  ASSUME NEW s \in Seq(Queued), NEW t \in Time,
         \A i \in 1 .. Len(s) : Since(t) <= Since(s[i].count),
         \A i, j \in 1 .. Len(s) : i < j => Since(s[i].count) < Since(s[j].count)
  PROVE  /\ PeekIndex(s, t) \in {0, 1}
         /\ PeekIndex(s, t) = 1 =>
              /\ 1 \in 1 .. Len(Purged(s, t))
              /\ Since(Purged(s, t)[1].count) < Since(t) + JitDelay
         /\ PeekIndex(s, t) = 0 =>
              \A i \in 1 .. Len(Purged(s, t)) : Since(Purged(s, t)[i].count) >= Since(t) + JitDelay
<1> DEFINE r == Purged(s, t)
<1>1. r \in Seq(Queued) /\ Selects(r, s)
  BY PurgedFacts
<1>2. PICK e \in [1 .. Len(r) -> 1 .. Len(s)] :
        /\ \A j, k \in 1 .. Len(r) : j < k => e[j] < e[k]
        /\ \A k \in 1 .. Len(r) : r[k] = s[e[k]]
  <2>1. \E e : Picks(e, r, s)
    BY <1>1, SelectsFacts
  <2>2. QED
    BY <2>1 DEF Picks
<1> DEFINE K(i) == Since(r[i].count)
<1>3. /\ Len(r) \in Nat /\ \A i \in 1 .. Len(r) : r[i] \in Queued
      /\ Since(t) \in Nat /\ JitDelay \in Nat /\ MaxAdvance \in Nat /\ JitDelay < MaxAdvance
  <2>1. Len(r) \in Nat /\ \A i \in 1 .. Len(r) : r[i] \in Queued
    BY <1>1, LenProperties, ElementOfSeq
  <2>2. JitDelay \in Nat /\ MaxAdvance \in Nat /\ JitDelay < MaxAdvance
    <3>1. /\ StartDelay \in Nat /\ MarginDelay \in Nat /\ JitDelay \in Nat
          /\ MaxAdvance \in Nat /\ StartDelay + MarginDelay + JitDelay < MaxAdvance
      BY Lags
    <3>2. QED
      BY <3>1
  <2>3. QED
    BY <2>1, <2>2, SinceType
<1>4. \A i \in 1 .. Len(r) : K(i) \in Nat /\ r[i].count \in Time /\ Since(t) <= K(i)
  BY <1>2, <1>3, NodeTimes
<1>5. \A i, j \in 1 .. Len(r) : i < j => K(i) < K(j)
  BY <1>2
<1>6. \A i \in 1 .. Len(r) : Ahead(r[i].count, t) = K(i) - Since(t)
  BY <1>4, AheadSince
<1> DEFINE Seen == IF HeadPurged(s, t) THEN 2 .. Len(r) ELSE 1 .. Len(r)
           Best == {i \in Seen : \A j \in Seen :
                      Ahead(r[i].count, t) <= Ahead(r[j].count, t)}
           b == CHOOSE k \in Best : \A j \in Best : k <= j
<1>7. PeekIndex(s, t) = IF Best # {} /\ Due(r[b], t) THEN b ELSE 0
  BY DEF PeekIndex
<1>8. Best \subseteq Seen /\ Seen \subseteq 1 .. Len(r) /\ Best \in SUBSET Nat
  BY <1>3
<1>9. Best # {} => b \in Best
  <2> HIDE DEF Best
  <2>1. QED
    BY <1>8, LeastOne
<1>10. \A i \in 1 .. Len(r) : Due(r[i], t) <=> K(i) < Since(t) + JitDelay
  BY <1>3, <1>4, <1>6 DEF Due
<1>11. CASE HeadPurged(s, t)
  <2>1. \A i \in 1 .. Len(r) : K(i) >= Since(t) + JitDelay
    <3>1. s # <<>> /\ Outdated(s[1], t)
      BY <1>11, HeadTailProperties DEF HeadPurged
    <3>2. 1 \in 1 .. Len(s) /\ s[1] \in Queued
      BY <3>1, LenProperties, EmptySeq, ElementOfSeq
    <3>3. /\ Since(s[1].count) \in Nat /\ s[1].count \in Time
          /\ Since(t) <= Since(s[1].count)
      BY <3>2, NodeTimes
    <3>4. Since(s[1].count) - Since(t) >= MaxAdvance
      BY <3>1, <3>3, AheadSince DEF Outdated
    <3>5. ASSUME NEW i \in 1 .. Len(r)
          PROVE  K(i) >= Since(s[1].count)
      <4>1. e[i] \in 1 .. Len(s) /\ r[i] = s[e[i]] /\ Len(s) \in Nat
        BY <1>2, LenProperties
      <4>2. CASE e[i] = 1
        BY <3>3, <4>1, <4>2
      <4>3. CASE e[i] # 1
        <5>1. 1 < e[i]
          BY <4>1, <4>3
        <5>2. Since(s[1].count) < K(i)
          BY <3>2, <4>1, <5>1
        <5>3. QED
          BY <1>4, <3>3, <5>2
      <4>4. QED
        BY <4>2, <4>3
    <3> HIDE DEF K
    <3>6. QED
      BY <1>3, <1>4, <3>3, <3>4, <3>5
  <2> HIDE DEF Best, Seen, b, K
  <2>2. ~(Best # {} /\ Due(r[b], t))
    <3>1. Best # {} => b \in 1 .. Len(r)
      BY <1>8, <1>9
    <3>2. QED
      BY <1>3, <1>4, <1>10, <2>1, <3>1
  <2>3. PeekIndex(s, t) = 0
    BY <1>7, <2>2
  <2>4. QED
    BY <2>1, <2>3 DEF K
<1>12. CASE ~HeadPurged(s, t) /\ Len(r) = 0
  <2>1. Seen = {}
    BY <1>12
  <2>2. Best = {}
    BY <1>8, <2>1
  <2>3. PeekIndex(s, t) = 0
    BY <1>7, <2>2
  <2>4. QED
    BY <1>12, <2>3
<1>13. CASE ~HeadPurged(s, t) /\ Len(r) # 0
  <2>1. Seen = 1 .. Len(r) /\ 1 \in 1 .. Len(r)
    BY <1>3, <1>13
  <2> HIDE DEF K
  <2>2. \A i \in 1 .. Len(r) : K(1) <= K(i) /\ (i # 1 => K(1) < K(i))
    <3>1. \A i \in 1 .. Len(r) : i # 1 => 1 < i
      OBVIOUS
    <3>2. QED
      BY <1>4, <1>5, <2>1, <3>1
  <2>3. Best = {1}
    <3> HIDE DEF Seen
    <3>1. 1 \in Best
      BY <1>3, <1>4, <1>6, <2>1, <2>2
    <3>2. ASSUME NEW i \in Best PROVE i = 1
      <4>1. i \in 1 .. Len(r) /\ Ahead(r[i].count, t) <= Ahead(r[1].count, t)
        BY <2>1, <3>2
      <4>2. K(i) <= K(1)
        BY <1>3, <1>4, <1>6, <2>1, <4>1
      <4>3. QED
        BY <1>4, <2>1, <2>2, <4>1, <4>2
    <3>3. QED
      BY <3>1, <3>2
  <2> HIDE DEF Best, Seen, b
  <2>4. b = 1
    BY <1>9, <2>3
  <2>5. PeekIndex(s, t) = IF K(1) < Since(t) + JitDelay THEN 1 ELSE 0
    BY <1>7, <1>10, <2>1, <2>3, <2>4
  <2>6. CASE K(1) < Since(t) + JitDelay
    BY <2>1, <2>5, <2>6 DEF K
  <2>7. CASE ~(K(1) < Since(t) + JitDelay)
    <3>1. \A i \in 1 .. Len(r) : K(i) >= Since(t) + JitDelay
      BY <1>3, <1>4, <2>1, <2>2, <2>7
    <3>2. QED
      BY <2>5, <2>7, <3>1 DEF K
  <2>8. QED
    BY <2>6, <2>7
<1>14. QED
  BY <1>11, <1>12, <1>13

\* Two packets that depart within the time an ordinary one asks for are in
\* conflict.
LEMMA NearConflict ==
  ASSUME NEW x \in Node, NEW y \in Node, x.id \in Req, y.id \in Req, x.id # y.id,
         log[x.id].node = x, log[y.id].node = y,
         Since(x.count) <= Since(y.count),
         Since(y.count) - Since(x.count) <= StartDelay + JitDelay + x.post + MarginDelay
  PROVE  Contested(x.id) /\ Contested(y.id)
<1>1. /\ x.count \in Time /\ Since(x.count) \in Nat
      /\ y.count \in Time /\ Since(y.count) \in Nat
  BY NodeTimes
<1>2. Ahead(y.count, x.count) = Since(y.count) - Since(x.count)
  BY <1>1, AheadSince
<1>3. PreDelay("A") = StartDelay + JitDelay
  BY Lags DEF PreDelay
<1>4. Ahead(y.count, x.count) <= PreDelay("A") + x.post + MarginDelay
  BY <1>2, <1>3
<1>5. x.id # 0 /\ y.id # 0
  BY DEF Req
<1>6. Conflict(x.id, y.id) /\ Conflict(y.id, x.id)
  BY <1>4, <1>5 DEF Conflict, CollisionTest
<1>7. QED
  BY <1>6 DEF Contested

\* jit_peek finds the first packet if it is due, and one that is due with it only
\* if it is a beacon that a downlink was let into the guard of.
LEMMA OrderPeek ==
  ASSUME QInv, TimesInv, PlacesInv, OrderInv, JitPeek
  PROVE  OrderInv'
<1> SUFFICES ASSUME AllRegular' PROVE Ordered'
  BY DEF OrderInv
<1>1. /\ UNCHANGED <<jtime, log>> /\ jpc = "timed" /\ queue' = Purged(queue, jtime)
      /\ jidx' = PeekIndex(queue, jtime)
      /\ peeked' = IF jidx' = 0 THEN 0 ELSE queue'[jidx'].id
      /\ jpc' = IF jidx' = 0 THEN "wait" ELSE "peeked"
  BY DEF JitPeek, down
<1>2. Ordered /\ \A k \in Req : Contested(k) => Contested(k)'
  BY LogGrows DEF OrderInv, Next
<1>3. /\ queue \in Seq(Queued) /\ queue' \in Seq(Queued) /\ Selects(queue', queue)
      /\ \A i \in 1 .. Len(queue) : queue[i] \in Queued
      /\ \A i \in 1 .. Len(queue') : queue'[i] \in Queued
  BY QueueFacts, PurgedFates, ElementOfSeq
<1>4. PICK e \in [1 .. Len(queue') -> 1 .. Len(queue)] :
        /\ \A j, k \in 1 .. Len(queue') : j < k => e[j] < e[k]
        /\ \A k \in 1 .. Len(queue') : queue'[k] = queue[e[k]]
  <2>1. \E e : Picks(e, queue', queue)
    BY <1>3, SelectsFacts
  <2>2. QED
    BY <2>1 DEF Picks
<1>5. /\ JitDelay \in Nat /\ PollMax \in Nat /\ StartDelay \in Nat /\ MarginDelay \in Nat
      /\ JitLag \in Nat /\ PollMax + JitLag <= JitDelay - StartDelay
      /\ 2 * PollMax <= JitDelay + StartDelay + MarginDelay + 1
      /\ jtime \in Time /\ Since(jtime) \in Nat
  BY Lags, TimesFacts
<1> DEFINE L == Since(jtime) + JitDelay - PollMax
<1>6. \A i \in 1 .. Len(queue) : Safe(queue[i], L)
  BY <1>1, <1>2 DEF Ordered, Looked
<1>7. ASSUME NEW i \in 1 .. Len(queue)
      PROVE  Since(jtime) <= Since(queue[i].count)
  <2>1. Since(queue[i].count) \in Nat
    BY <1>3, NodeTimes
  <2>2. QED
    BY <1>5, <1>6, <2>1 DEF Safe
<1>8. \A i, j \in 1 .. Len(queue) : i < j => Since(queue[i].count) < Since(queue[j].count)
  BY <1>2, <1>3, SpacedLater DEF Ordered, Sorted
<1>9. /\ jidx' \in {0, 1}
      /\ jidx' = 1 => /\ 1 \in 1 .. Len(queue')
                      /\ Since(queue'[1].count) < Since(jtime) + JitDelay
      /\ jidx' = 0 => \A i \in 1 .. Len(queue') :
                        Since(queue'[i].count) >= Since(jtime) + JitDelay
  BY <1>1, <1>3, <1>5, <1>7, <1>8, PeekSorted
<1>10. \A i \in 1 .. Len(queue') :
         /\ Safe(queue'[i], L) /\ Since(jtime) <= Since(queue'[i].count)
         /\ Since(queue'[i].count) < W \div 2
         /\ queue'[i].id \in Req /\ log[queue'[i].id].node = queue'[i]
         /\ queue'[i].pre = PreDelay(queue'[i].type)
  BY <1>2, <1>4, <1>6, <1>7 DEF Ordered, Sorted, PlacesInv, QueuePlaces, InPlace
<1>11. \A i, j \in 1 .. Len(queue') : i < j => Spaced(queue'[i], queue'[j])
  BY <1>2, <1>4 DEF Ordered, Sorted
<1>12. Sorted'
  BY <1>10, <1>11 DEF Sorted, Spaced, Since, Ahead
<1>13. Looked' = Since(jtime) + JitDelay
  BY <1>1, <1>5 DEF Looked
<1>14. ASSUME NEW j \in 1 .. Len(queue'), jidx' = 0 \/ j # 1
       PROVE  \/ Since(queue'[j].count) >= Since(jtime) + JitDelay
              \/ /\ queue'[j].type = "BEACON" /\ Contested(queue'[j].id)
                 /\ Since(queue'[j].count)
                      >= Since(jtime) + JitDelay - PollMax + StartDelay + MarginDelay + 1
  <2>1. CASE jidx' = 0
    BY <1>9, <2>1
  <2>2. CASE jidx' = 1 /\ Since(queue'[j].count) < Since(jtime) + JitDelay
    <3> DEFINE a == queue'[1]
               b == queue'[j]
    <3>1. /\ 1 \in 1 .. Len(queue') /\ 1 < j
          /\ a \in Queued /\ b \in Queued /\ Spaced(a, b)
      BY <1>3, <1>9, <1>11, <1>14, <2>2
    <3>2. /\ Since(a.count) \in Nat /\ Since(b.count) \in Nat /\ a.post \in Nat /\ b.pre \in Nat
          /\ Since(jtime) <= Since(a.count) /\ Since(b.count) < Since(jtime) + JitDelay
          /\ Since(a.count) < Since(b.count)
      BY <1>10, <2>2, <3>1, NodeTimes, SpacedLater
    <3>3. Safe(a, L) /\ b.pre = PreDelay(b.type)
      BY <1>10, <3>1
    <3> HIDE DEF a, b
    <3>4. b.pre >= JitDelay + StartDelay
      BY <1>5, <3>3, Lags DEF PreDelay
    <3>5. a.type \in {"A", "C"} /\ b.type = "BEACON"
      BY <1>5, <3>1, <3>2, <3>4 DEF Spaced
    <3>6. Since(a.count) >= L
      BY <3>3, <3>5 DEF Safe
    <3>7. Since(b.count) >= L + StartDelay + MarginDelay + 1
      <4>1. Since(b.count) - Since(a.count) > a.post + MarginDelay + StartDelay
        BY <3>1, <3>5 DEF Spaced
      <4>2. L \in Int
        BY <1>5
      <4>3. Since(a.count) \in Nat /\ Since(b.count) \in Nat /\ a.post \in Nat
        BY <3>2
      <4> HIDE DEF L
      <4>4. Since(b.count) > L + a.post + MarginDelay + StartDelay
        BY <1>5, <3>6, <4>1, <4>2, <4>3
      <4>5. MarginDelay \in Nat /\ StartDelay \in Nat
        BY <1>5
      <4> HIDE DEF Since
      <4>6. L + a.post + MarginDelay + StartDelay >= L + StartDelay + MarginDelay
        BY <4>2, <4>3, <4>5
      <4>7. QED
        BY <4>2, <4>3, <4>4, <4>5, <4>6
    <3>8. Contested(b.id)
      <4>1. a.id # b.id
        <5>1. \A i, k \in 1 .. Len(queue) : queue[i].id = queue[k].id => i = k
          BY DEF PlacesInv, QueuePlaces
        <5>2. e[1] < e[j] /\ a = queue[e[1]] /\ b = queue[e[j]]
          BY <1>4, <3>1 DEF a, b
        <5>3. e[1] \in 1 .. Len(queue) /\ e[j] \in 1 .. Len(queue) /\ e[1] # e[j]
          BY <1>4, <3>1, <5>2
        <5>4. QED
          BY <5>1, <5>2, <5>3
      <4>2. a.id \in Req /\ b.id \in Req /\ log[a.id].node = a /\ log[b.id].node = b
        BY <1>10, <3>1 DEF a, b
      <4>3. Since(b.count) - Since(a.count) <= StartDelay + JitDelay + a.post + MarginDelay
        BY <1>5, <3>2
      <4>4. a \in Node /\ b \in Node
        BY <3>1 DEF Queued
      <4>5. QED
        BY <3>2, <4>1, <4>2, <4>3, <4>4, NearConflict
    <3>9. QED
      BY <3>5, <3>7, <3>8 DEF b
  <2>3. QED
    <3>1. Since(queue'[j].count) \in Nat
      BY <1>3, NodeTimes
    <3>2. QED
      BY <1>5, <1>9, <2>1, <2>2, <3>1
<1>15. \A k \in Req : Contested(k)' <=> Contested(k)
  BY <1>1 DEF Contested, Conflict
<1>16. ASSUME NEW j \in 1 .. Len(queue'), ~(jpc' = "peeked" /\ j = 1)
       PROVE  Safe(queue[j], Looked)'
  <2>1. jidx' = 0 \/ j # 1
    BY <1>1, <1>9, <1>16
  <2>2. PICK k \in Req : k = queue'[j].id
    BY <1>10
  <2>3. Contested(k) => Contested(queue[j].id)'
    BY <1>1, <2>2 DEF Contested, Conflict
  <2>4. CASE Since(queue'[j].count) >= Since(jtime) + JitDelay
    BY <1>1, <1>13, <2>4 DEF Safe
  <2>5. CASE /\ queue'[j].type = "BEACON" /\ Contested(queue'[j].id)
             /\ Since(queue'[j].count)
                  >= Since(jtime) + JitDelay - PollMax + StartDelay + MarginDelay + 1
    <3>1. Contested(queue[j].id)'
      BY <2>2, <2>3, <2>5
    <3>2. QED
      BY <1>1, <1>5, <1>13, <2>5, <3>1 DEF Safe
  <2>6. QED
    BY <1>14, <2>1, <2>4, <2>5
<1>17. ASSUME jpc' = "peeked"
       PROVE  /\ jidx' = 1 /\ 1 \in 1 .. Len(queue')
              /\ queue'[1].id = peeked' /\ InHand(queue[1])'
  <2>1. jidx' = 1
    BY <1>1, <1>9, <1>17
  <2>2. /\ 1 \in 1 .. Len(queue') /\ queue'[1].id = peeked'
        /\ Since(queue'[1].count) < Since(jtime) + JitDelay
        /\ Since(jtime) <= Since(queue'[1].count)
        /\ Safe(queue'[1], L) /\ Since(queue'[1].count) \in Nat
    BY <1>1, <1>3, <1>9, <1>10, <2>1, NodeTimes
  <2>3. Since(queue'[1].count) \in Since(jtime) .. Since(jtime) + JitDelay - 1
    BY <1>5, <2>2
  <2>4. Since(queue'[1].count) >= L \/ Contested(queue'[1].id)
    BY <2>2 DEF Safe
  <2>5. Contested(queue'[1].id) => Contested(queue[1].id)'
    BY <1>1 DEF Contested, Conflict
  <2>6. QED
    BY <1>1, <2>1, <2>2, <2>3, <2>4, <2>5 DEF InHand
<1>18. QED
  BY <1>12, <1>16, <1>17 DEF Ordered

\* jit_dequeue takes the packet in front; none of the others was due.
LEMMA OrderDequeue ==
  ASSUME QInv, TimesInv, PlacesInv, OrderInv, JitDequeue
  PROVE  OrderInv'
<1> SUFFICES ASSUME AllRegular' PROVE Ordered'
  BY DEF OrderInv
<1>1. /\ UNCHANGED <<jtime, log>> /\ jpc = "peeked" /\ jpc' = "status"
      /\ queue' = RemoveAt(queue, jidx)
  BY DEF JitDequeue, Dequeued, down
<1>2. Ordered
  BY LogGrows DEF OrderInv, Next
<1>3. jidx = 1 /\ 1 \in 1 .. Len(queue)
  BY <1>1, <1>2 DEF Ordered
<1>4. queue' \in Seq(Queued) /\ IsInserted(queue', queue, 1)
  BY <1>1, <1>3, QueueFacts, RemoveAtFacts
<1>5. Len(queue') \in Nat /\ Len(queue) = Len(queue') + 1
  BY <1>4, LenProperties DEF IsInserted
<1>6. \A i \in 1 .. Len(queue') : i + 1 \in 1 .. Len(queue) /\ queue'[i] = queue[i + 1]
  BY <1>4, <1>5 DEF IsInserted
<1>7. Sorted'
  <2>1. \A i \in 1 .. Len(queue') : Since(queue'[i].count) < W \div 2
    BY <1>2, <1>6 DEF Ordered, Sorted
  <2>2. ASSUME NEW i \in 1 .. Len(queue'), NEW j \in 1 .. Len(queue'), i < j
        PROVE  Spaced(queue'[i], queue'[j])
    <3>1. i + 1 \in 1 .. Len(queue) /\ j + 1 \in 1 .. Len(queue) /\ i + 1 < j + 1
      BY <1>6, <2>2
    <3>2. Spaced(queue[i + 1], queue[j + 1])
      BY <1>2, <3>1 DEF Ordered, Sorted
    <3>3. QED
      BY <1>6, <3>2
  <2>3. QED
    BY <2>1, <2>2 DEF Sorted, Spaced, Since, Ahead
<1>8. Looked' = Looked
  BY <1>1 DEF Looked
<1>9. ASSUME NEW i \in 1 .. Len(queue')
      PROVE  Safe(queue[i], Looked)'
  <2>1. i + 1 \in 1 .. Len(queue) /\ i + 1 # 1 /\ queue'[i] = queue[i + 1]
    BY <1>6
  <2> DEFINE x == queue[i + 1]
  <2>2. Safe(x, Looked)
    BY <1>2, <2>1 DEF Ordered
  <2>3. CASE Since(x.count) >= Looked
    BY <1>1, <1>8, <2>1, <2>3 DEF Safe
  <2>4. CASE /\ x.type = "BEACON" /\ Contested(x.id)
             /\ Since(x.count) >= Looked - PollMax + StartDelay + MarginDelay + 1
    <3>1. Contested(queue[i].id)'
      BY <1>1, <2>1, <2>4 DEF Contested, Conflict
    <3>2. QED
      BY <1>1, <1>8, <2>1, <2>4, <3>1 DEF Safe
  <2>5. QED
    BY <2>2, <2>3, <2>4 DEF Safe
<1>10. QED
  BY <1>1, <1>7, <1>9 DEF Ordered

\* A step that leaves the queue alone, and after which thread_jit will look for
\* the same packets, or for earlier ones.
LEMMA OrderSame ==
  ASSUME QInv, PlacesInv, Ordered, UNCHANGED <<queue, log>>,
         \/ UNCHANGED <<jtime, jpc, jidx, peeked>>
         \/ jpc # "peeked" /\ jpc' # "peeked",
         Looked' \in Int, Looked \in Int, Looked' <= Looked
  PROVE  Ordered'
<1>1. Sorted'
  BY DEF Ordered, Sorted, Spaced, Since, Ahead
<1>2. ASSUME NEW i \in 1 .. Len(queue'), ~(jpc' = "peeked" /\ i = 1)
      PROVE  Safe(queue[i], Looked)'
  <2>1. i \in 1 .. Len(queue) /\ ~(jpc = "peeked" /\ i = 1) /\ queue'[i] = queue[i]
    BY <1>2
  <2>2. Safe(queue[i], Looked) /\ Since(queue[i].count) \in Nat
    BY <2>1, QueueFacts, NodeTimes DEF Ordered
  <2>3. PollMax \in Nat /\ StartDelay \in Nat /\ MarginDelay \in Nat
    BY Lags
  <2>4. CASE Since(queue[i].count) >= Looked
    <3>1. Since(queue[i].count) >= Looked'
      BY <2>2, <2>4
    <3>2. QED
      BY <2>1, <3>1 DEF Safe
  <2>5. CASE /\ queue[i].type = "BEACON" /\ Contested(queue[i].id)
             /\ Since(queue[i].count) >= Looked - PollMax + StartDelay + MarginDelay + 1
    <3>1. Since(queue[i].count) >= Looked' - PollMax + StartDelay + MarginDelay + 1
      BY <2>2, <2>3, <2>5
    <3>2. Contested(queue[i].id)'
      BY <2>5 DEF Contested, Conflict
    <3>3. QED
      BY <2>1, <2>5, <3>1, <3>2 DEF Safe
  <2>6. QED
    BY <2>2, <2>4, <2>5 DEF Safe
<1>3. ASSUME jpc' = "peeked"
      PROVE  /\ jidx' = 1 /\ 1 \in 1 .. Len(queue')
             /\ queue'[1].id = peeked' /\ InHand(queue[1])'
  <2>1. jpc = "peeked" /\ UNCHANGED <<jtime, jpc, jidx, peeked, queue, log>>
    BY <1>3
  <2>2. /\ jidx = 1 /\ 1 \in 1 .. Len(queue) /\ queue[1].id = peeked
        /\ InHand(queue[1])
    BY <2>1 DEF Ordered
  <2>3. Contested(queue[1].id) => Contested(queue[1].id)'
    BY <2>1 DEF Contested, Conflict
  <2>4. InHand(queue[1])'
    BY <2>1, <2>2, <2>3 DEF InHand
  <2>5. QED
    BY <2>1, <2>2, <2>4
<1>4. QED
  BY <1>1, <1>2, <1>3 DEF Ordered

\* The queue is empty.
LEMMA OrderInit == Init => OrderInv
<1> SUFFICES ASSUME Init PROVE Ordered
  BY DEF OrderInv
<1>1. queue = <<>> /\ jpc = "wait"
  BY DEF Init
<1>2. 1 .. Len(queue) = {}
  BY <1>1
<1>3. QED
  BY <1>1, <1>2 DEF Ordered, Sorted

\* Each step leaves the queue in order.
LEMMA OrderStep ==
  ASSUME QInv, TimesInv, PlacesInv, OrderInv, [Next]_vars
  PROVE  OrderInv'
<1>1. CASE DownEnqueue
  BY <1>1, OrderEnqueue
<1>2. CASE JitPeek
  BY <1>2, OrderPeek
<1>3. CASE JitDequeue
  BY <1>3, OrderDequeue
<1>4. CASE \/ DownSample \/ JitSample \/ JitStatus \/ JitSend \/ JitSendFails
           \/ Tick \/ UNCHANGED vars
  <2> SUFFICES ASSUME AllRegular' PROVE Ordered'
    BY DEF OrderInv
  <2>1. UNCHANGED <<queue, log>>
    BY <1>4
    DEF DownSample, JitSample, JitStatus, JitSend, JitSendFails, Tick, down, vars
  <2>2. Ordered
    BY LogGrows DEF OrderInv
  <2>3. /\ Since(jtime) \in Nat /\ Since(clock) \in Nat /\ JitDelay \in Nat /\ PollMax \in Nat
        /\ JitLag <= PollMax /\ JitLag \in Nat
    BY TimesFacts, Lags
  <2>4. Looked \in Int
    BY <2>3 DEF Looked
  <2>5. CASE JitSample
    <3>1. jtime' = clock /\ jpc = "wait" /\ jpc' = "timed"
      BY <2>5 DEF JitSample
    <3>2. Since(clock) - Since(jtime) <= PollMax
      BY <3>1 DEF TimesInv
    <3>3. Looked = Since(jtime) + JitDelay /\ Looked' = Since(clock) + JitDelay - PollMax
      BY <2>3, <3>1 DEF Looked
    <3>4. Looked' \in Int /\ Looked' <= Looked
      BY <2>3, <3>2, <3>3
    <3>5. QED
      BY <2>1, <2>2, <2>4, <3>1, <3>4, OrderSame
  <2>6. CASE \/ DownSample \/ JitStatus \/ JitSend \/ JitSendFails \/ Tick \/ UNCHANGED vars
    <3>1. /\ jtime' = jtime
          /\ \/ UNCHANGED <<jpc, jidx, peeked>>
             \/ jpc \in {"status", "send"} /\ jpc' \in {"wait", "send"}
      BY <2>6
      DEF DownSample, JitStatus, JitSend, JitSendFails, Tick, jit, vars
    <3>2. Looked' = Looked
      BY <3>1 DEF Looked
    <3>3. QED
      BY <2>1, <2>2, <2>4, <3>1, <3>2, OrderSame
  <2>7. QED
    BY <1>4, <2>5, <2>6
<1>5. QED
  BY <1>1, <1>2, <1>3, <1>4 DEF Next, Ended

-----------------------------------------------------------------------------
(* What is lost, and what is sent *)

Lost(k) == fate[k] \in {"purged", "busy", "overwritten", "cut"}

Excused(k) == Contested(k) \/ ~Timely(k)

HandInv == jpc \in {"status", "send"} => InHand(jpkt)

\* What is programmed was due when thread_jit looked last; until it has to be
\* started there is time left, unless it is in conflict with another; and it is
\* on the air from there to its end.
RadioInv ==
  /\ radio.state # "free" => Since(radio.pkt.count) < Since(jtime) + JitDelay
  /\ radio.state = "scheduled" =>
       Since(clock) + StartDelay <= Since(radio.pkt.count) \/ Contested(radio.pkt.id)
  /\ radio.state = "emitting" =>
       /\ Since(radio.pkt.count) - StartDelay < Since(clock)
       /\ Since(clock) <= Since(radio.pkt.count) + radio.pkt.post

LostInv == \A k \in Req : Lost(k) => Excused(k)

SentInv == AllRegular => HandInv /\ RadioInv /\ LostInv

\* The packet in hand and the one programmed, as the arithmetic needs them.
LEMMA HandTimes ==
  ASSUME QInv, TimesInv, PlacesInv
  PROVE  /\ Since(clock) \in Nat /\ Since(jtime) \in Nat /\ Since(jtime) <= Since(clock)
         /\ clock \in Time /\ jtime \in Time
         /\ jpc \in {"status", "send"} =>
              /\ jpkt \in Node /\ jpkt.id \in Req /\ log[jpkt.id].node = jpkt
              /\ Since(jpkt.count) \in Nat /\ jpkt.count \in Time
         /\ radio.state # "free" =>
              /\ radio.pkt \in Node /\ radio.pkt.id \in Req
              /\ log[radio.pkt.id].node = radio.pkt
              /\ fate[radio.pkt.id] \in {"programmed", "onair"}
              /\ Since(radio.pkt.count) \in Nat /\ radio.pkt.count \in Time
              /\ radio.pkt.post \in Nat
<1>1. Since(clock) \in Nat /\ Since(jtime) \in Nat /\ clock \in Time /\ jtime \in Time
  BY TimesFacts
<1>2. Since(jtime) <= Since(clock)
  BY DEF TimesInv
<1>3. radio.state \in {"free", "scheduled", "emitting"}
  BY DEF QInv, RadioTypes
<1>4. ASSUME NEW k \in Req, NEW x, log[k].node = x, x.id = k
      PROVE  x \in Node
  BY <1>4 DEF QInv, DownTypes
<1>5. jpc \in {"status", "send"} =>
        jpkt \in Node /\ jpkt.id \in Req /\ log[jpkt.id].node = jpkt
  BY <1>4 DEF PlacesInv, HandPlaces, InPlace
<1>6. radio.state # "free" =>
        /\ radio.pkt \in Node /\ radio.pkt.id \in Req
        /\ log[radio.pkt.id].node = radio.pkt
        /\ fate[radio.pkt.id] \in {"programmed", "onair"}
  BY <1>3, <1>4 DEF PlacesInv, RadioPlaces, InPlace
<1>7. QED
  BY <1>1, <1>2, <1>5, <1>6, NodeTimes

\* The packet in hand finds the concentrator occupied only by one it is in
\* conflict with, or by one that is in conflict with another.
LEMMA HandConflict ==
  ASSUME QInv, TimesInv, PlacesInv, HandInv, RadioInv,
         jpc \in {"status", "send"}, radio.state # "free"
  PROVE  /\ Contested(radio.pkt.id)
         /\ radio.state = "emitting" => Contested(jpkt.id)
<1> DEFINE x == jpkt
           p == radio.pkt
           J == Since(jtime)
           T == Since(clock)
<1>1. /\ T \in Nat /\ J \in Nat /\ J <= T
      /\ x \in Node /\ x.id \in Req /\ log[x.id].node = x /\ Since(x.count) \in Nat
      /\ p \in Node /\ p.id \in Req /\ log[p.id].node = p /\ Since(p.count) \in Nat
      /\ x.post \in Nat /\ p.post \in Nat
  BY HandTimes, NodeTimes
<1>2. x.id # p.id
  <2>1. fate[x.id] = "taken" /\ fate[p.id] \in {"programmed", "onair"}
    BY HandTimes DEF PlacesInv, HandPlaces, InPlace
  <2>2. QED
    BY <2>1
<1>3. /\ StartDelay \in Nat /\ MarginDelay \in Nat /\ JitDelay \in Nat /\ PollMax \in Nat
      /\ JitLag \in Nat /\ PollMax + JitLag <= JitDelay - StartDelay
  BY Lags
<1>4. J <= Since(x.count) /\ Since(x.count) < J + JitDelay
  BY <1>1, <1>3 DEF HandInv, InHand
<1>5. Since(p.count) < J + JitDelay
  BY DEF RadioInv
<1>6. T - J <= JitLag
  <2>1. jpc # "wait"
    OBVIOUS
  <2>2. QED
    BY <2>1 DEF TimesInv
<1>7. radio.state \in {"scheduled", "emitting"}
  BY DEF QInv, RadioTypes
<1>8. CASE radio.state = "emitting"
  <2>1. Since(p.count) - StartDelay < T /\ T <= Since(p.count) + p.post
    BY <1>8 DEF RadioInv
  <2> HIDE DEF x, p, J, T
  <2>2. CASE Since(p.count) <= Since(x.count)
    <3>1. Since(x.count) - Since(p.count) <= StartDelay + JitDelay + p.post + MarginDelay
      BY <1>1, <1>3, <1>4, <2>1
    <3>2. Contested(p.id) /\ Contested(x.id)
      BY <1>1, <1>2, <2>2, <3>1, NearConflict
    <3>3. QED
      BY <3>2 DEF x, p
  <2>3. CASE Since(x.count) <= Since(p.count)
    <3>1. Since(p.count) - Since(x.count) <= StartDelay + JitDelay + x.post + MarginDelay
      BY <1>1, <1>3, <1>4, <1>6, <2>1
    <3>2. Contested(p.id) /\ Contested(x.id)
      BY <1>1, <1>2, <2>3, <3>1, NearConflict
    <3>3. QED
      BY <3>2 DEF x, p
  <2>4. QED
    BY <1>1, <2>2, <2>3
<1>9. CASE radio.state = "scheduled" /\ ~Contested(p.id)
  <2>1. T + StartDelay <= Since(p.count)
    BY <1>9 DEF RadioInv
  <2> HIDE DEF x, p, J, T
  <2>2. CASE Since(p.count) <= Since(x.count)
    <3>1. Since(x.count) - Since(p.count) <= StartDelay + JitDelay + p.post + MarginDelay
      BY <1>1, <1>3, <1>4, <2>1
    <3>2. QED
      BY <1>1, <1>2, <1>9, <2>2, <3>1, NearConflict
  <2>3. CASE Since(x.count) <= Since(p.count)
    <3>1. Since(p.count) - Since(x.count) <= StartDelay + JitDelay + x.post + MarginDelay
      BY <1>1, <1>3, <1>4, <1>5
    <3>2. QED
      BY <1>1, <1>2, <1>9, <2>3, <3>1, NearConflict
  <2>4. QED
    BY <1>1, <2>2, <2>3
<1>10. CASE radio.state = "scheduled" /\ Contested(p.id)
  BY <1>10
<1>11. QED
  BY <1>7, <1>8, <1>9, <1>10

\* A step after which thread_jit has the packet in hand that it had.
LEMMA HandSame ==
  ASSUME PlacesInv, HandInv, \A k \in Req : Contested(k) => Contested(k)',
         jpc' \in {"status", "send"} =>
           jpc \in {"status", "send"} /\ UNCHANGED <<jtime, jpkt>>
  PROVE  HandInv'
<1> SUFFICES ASSUME jpc' \in {"status", "send"} PROVE InHand(jpkt)'
  BY DEF HandInv
<1>1. jpc \in {"status", "send"} /\ UNCHANGED <<jtime, jpkt>> /\ InHand(jpkt)
  BY DEF HandInv
<1>2. jpkt.id \in Req
  BY <1>1 DEF PlacesInv, HandPlaces, InPlace
<1>3. Contested(jpkt.id) => Contested(jpkt.id)'
  <2>1. PICK k \in Req : k = jpkt.id
    BY <1>2
  <2>2. QED
    BY <1>1, <2>1 DEF Contested
<1>4. QED
  BY <1>1, <1>3 DEF InHand

\* A step that leaves time and the concentrator alone.
LEMMA RadioSame ==
  ASSUME QInv, TimesInv, PlacesInv, RadioInv, \A k \in Req : Contested(k) => Contested(k)',
         UNCHANGED <<clock, radio>>, jtime' \in {jtime, clock}
  PROVE  RadioInv'
<1>1. /\ Since(jtime) <= Since(jtime') /\ Since(jtime) \in Nat /\ Since(jtime') \in Nat
      /\ JitDelay \in Nat
      /\ radio.state # "free" => radio.pkt.id \in Req /\ Since(radio.pkt.count) \in Nat
  BY HandTimes, Lags
<1>2. radio.state # "free" => Since(radio.pkt.count) < Since(jtime') + JitDelay
  BY <1>1 DEF RadioInv
<1>3. radio.state # "free" /\ Contested(radio.pkt.id) => Contested(radio.pkt.id)'
  <2> SUFFICES ASSUME radio.state # "free", Contested(radio.pkt.id)
               PROVE  Contested(radio.pkt.id)'
    OBVIOUS
  <2>1. PICK k \in Req : k = radio.pkt.id
    BY <1>1
  <2>2. Contested(k)'
    BY <2>1
  <2>3. QED
    BY <2>1, <2>2 DEF Contested
<1>4. radio.state = "scheduled" =>
        Since(clock') + StartDelay <= Since(radio'.pkt.count) \/ Contested(radio.pkt.id)'
  BY <1>3 DEF RadioInv
<1>5. QED
  BY <1>2, <1>4 DEF RadioInv

\* A step that loses no other request than such as may be lost.
LEMMA LostSame ==
  ASSUME QInv, PlacesInv, LostInv, [Next]_vars,
         \A k \in Req : Lost(k)' => Lost(k) \/ (fate[k] # "none" /\ Excused(k))
  PROVE  LostInv'
<1> SUFFICES ASSUME NEW k \in Req, Lost(k)'
             PROVE  Excused(k)'
  BY DEF LostInv
<1>1. fate[k] # "none" /\ Excused(k)
  BY DEF LostInv, Lost
<1>2. log[k].node.id = k /\ k # 0
  BY <1>1 DEF PlacesInv, RequestPlaces, Req
<1>3. log'[k] = log[k] /\ (Contested(k) => Contested(k)')
  BY <1>2, LogGrows
<1>4. Timely(k)' <=> Timely(k)
  BY <1>3 DEF Timely
<1>5. QED
  BY <1>1, <1>3, <1>4 DEF Excused

\* A packet accepted departs at the time it was accepted for.
LEMMA LogTimes ==
  ASSUME QInv, TimesInv, AllRegular, NEW k \in Req, log[k].node.id # 0
  PROVE  /\ Since(log[k].node.count) = Since(log[k].at) + Ahead(log[k].node.count, log[k].at)
         /\ Since(log[k].node.count) \in Nat /\ log[k].node.count \in Time
         /\ Timely(k) => Since(log[k].node.count) < Since(clock) + MaxAdvance - JitLag
<1> DEFINE a == Ahead(log[k].node.count, log[k].at)
<1>1. a \in Lead + 1 .. W \div 4 - 1
  BY DEF AllRegular, Regular
<1>2. log[k].node \in Node
  BY DEF QInv, DownTypes
<1>3. /\ log[k].at \in Time /\ Since(log[k].at) \in Nat
      /\ log[k].node.count \in Time /\ Since(log[k].node.count) \in Nat
      /\ Since(clock) \in Nat
  BY <1>2, NodeTimes, TimesFacts
<1>4. Since(log[k].at) <= Since(clock) /\ Since(clock) <= EndTicks
  BY DEF TimesInv
<1>5. /\ W \in Nat /\ W \div 2 \in Nat /\ W \div 4 \in Nat
      /\ 2 * (W \div 4) <= W \div 2 /\ 2 * (W \div 2) <= W /\ EndTicks \in Nat
      /\ EndTicks <= W \div 4 /\ Lead \in Nat /\ MaxAdvance \in Nat /\ JitLag \in Nat
  BY Turn, Lags
<1>6. a \in Nat /\ Since(log[k].at) + a < W
  BY <1>1, <1>3, <1>4, <1>5
<1>7. Since(log[k].node.count) = Since(log[k].at) + a
  BY <1>3, <1>6, SinceAhead
<1>8. ASSUME Timely(k)
      PROVE  Since(log[k].node.count) < Since(clock) + MaxAdvance - JitLag
  <2>1. a \in Lead + 1 .. MaxAdvance - 1 - JitLag
    BY <1>8 DEF Timely
  <2> HIDE DEF a
  <2>2. QED
    BY <1>3, <1>4, <1>5, <1>6, <1>7, <2>1
<1>9. QED
  BY <1>3, <1>7, <1>8

\* The purge throws away what was not accepted in time.
LEMMA SentPeek ==
  ASSUME QInv, TimesInv, PlacesInv, Ordered, AllRegular, LostInv, JitPeek
  PROVE  LostInv'
<1>1. /\ jpc = "timed" /\ queue' = Purged(queue, jtime)
      /\ fate' = [k \in Req |-> IF k \in Ids(queue) \ Ids(queue') THEN "purged" ELSE fate[k]]
  BY DEF JitPeek
<1>2. /\ Ids(queue) = {queue[i].id : i \in 1 .. Len(queue)}
      /\ Ids(queue') = {queue'[i].id : i \in 1 .. Len(queue')}
  BY PurgedFates, QueueFacts, LenProperties DEF Ids
<1>3. ASSUME NEW k \in Req, Lost(k)', ~Lost(k)
      PROVE  fate[k] # "none" /\ Excused(k)
  <2>1. k \in Ids(queue) /\ k \notin Ids(queue')
    BY <1>1, <1>3 DEF Lost
  <2>2. PICK i \in 1 .. Len(queue) : queue[i].id = k
    BY <1>2, <2>1
  <2>3. /\ queue[i] \in Queued /\ log[k].node = queue[i] /\ fate[k] = "queued" /\ k # 0
        /\ queue[i].count \in Time /\ Since(queue[i].count) \in Nat
        /\ jtime \in Time /\ Since(jtime) \in Nat /\ Since(clock) \in Nat
    BY <2>2, QueueFacts, NodeTimes, TimesFacts DEF PlacesInv, QueuePlaces, InPlace, Req
  <2>4. Outdated(queue[i], jtime)
    <3>1. Outdated(queue[i], jtime) \/ \E j \in 1 .. Len(queue') : queue'[j] = queue[i]
      BY <1>1, <2>2, QueueFacts, PurgedFacts
    <3>2. ~\E j \in 1 .. Len(queue') : queue'[j] = queue[i]
      BY <1>2, <2>1, <2>2
    <3>3. QED
      BY <3>1, <3>2
  <2>5. /\ JitDelay \in Nat /\ PollMax \in Nat /\ StartDelay \in Nat /\ MarginDelay \in Nat
        /\ JitLag \in Nat /\ MaxAdvance \in Nat
        /\ PollMax + JitLag <= JitDelay - StartDelay
        /\ 2 * PollMax <= JitDelay + StartDelay + MarginDelay + 1
    BY Lags
  <2>6. Since(jtime) <= Since(queue[i].count)
    <3>1. Safe(queue[i], Since(jtime) + JitDelay - PollMax)
      BY <1>1 DEF Ordered, Looked
    <3>2. QED
      BY <2>3, <2>5, <3>1 DEF Safe
  <2>7. Since(queue[i].count) - Since(jtime) >= MaxAdvance
    BY <2>3, <2>4, <2>6, AheadSince DEF Outdated
  <2>8. Since(clock) - Since(jtime) <= JitLag
    BY <1>1 DEF TimesInv
  <2>9. ~Timely(k)
    <3>1. Timely(k) => Since(queue[i].count) < Since(clock) + MaxAdvance - JitLag
      BY <2>2, <2>3, LogTimes
    <3>2. QED
      BY <2>3, <2>5, <2>7, <2>8, <3>1
  <2>10. QED
    BY <2>3, <2>9 DEF Excused
<1>4. QED
  BY <1>3, LostSame DEF Next

\* lgw_send loses the packet programmed before, which is then in conflict.
LEMMA SentSend ==
  ASSUME QInv, TimesInv, PlacesInv, HandInv, RadioInv, LostInv, JitSend \/ JitSendFails
  PROVE  HandInv' /\ RadioInv' /\ LostInv'
<1>1. /\ jpc = "send" /\ jpc' = "wait" /\ UNCHANGED <<clock, jtime, log>>
  BY DEF JitSend, JitSendFails, down
<1>2. HandInv'
  BY <1>1 DEF HandInv
<1>3. /\ jpkt.id \in Req /\ jpkt \in Node /\ fate[jpkt.id] = "taken"
      /\ Since(jpkt.count) \in Nat
  BY <1>1, HandTimes DEF PlacesInv, HandPlaces, InPlace
<1>4. PICK o \in {"programmed", "blocked", "failed"} :
        LET f == [fate EXCEPT ![jpkt.id] = o]
        IN  \/ /\ fate' = Aborted(f)
               /\ \/ radio' = [state |-> "free", pkt |-> NoPkt]
                  \/ radio' = [state |-> "scheduled", pkt |-> jpkt]
            \/ fate' = f /\ radio' = radio
  <2>1. CASE JitSend
    <3>1. PICK o \in Outcomes \ {"failed"} :
            /\ radio' = IF o = "blocked" THEN [state |-> "free", pkt |-> NoPkt]
                        ELSE [state |-> "scheduled", pkt |-> jpkt]
            /\ fate' = Aborted([fate EXCEPT ![jpkt.id] = o])
      BY <2>1 DEF JitSend
    <3>2. o \in {"programmed", "blocked"}
      BY SchedAssumption
    <3>3. QED
      BY <3>1, <3>2
  <2>2. CASE JitSendFails
    BY <2>2 DEF JitSendFails
  <2>3. QED
    BY <2>1, <2>2
<1> DEFINE f == [fate EXCEPT ![jpkt.id] = o]
<1>5. \A k \in Req : f[k] = IF k = jpkt.id THEN o ELSE fate[k]
  BY DEF QInv, RadioTypes
<1>6. DOMAIN f = Req
  BY DEF QInv, RadioTypes
<1>7. /\ fate' = f \/ fate' = Aborted(f)
      /\ \/ radio'.state = "free"
         \/ radio' = [state |-> "scheduled", pkt |-> jpkt]
         \/ radio' = radio
  BY <1>4
<1> HIDE DEF f
<1>8. ASSUME NEW k \in Req, Lost(k)', ~Lost(k)
      PROVE  radio.state # "free" /\ k = radio.pkt.id
  <2>1. ~(f[k] \in {"purged", "busy", "overwritten", "cut"})
    BY <1>3, <1>5, <1>8 DEF Lost
  <2>2. fate'[k] # f[k]
    BY <1>8, <2>1 DEF Lost
  <2>3. fate' = Aborted(f)
    BY <1>7, <2>2
  <2>4. QED
    BY <1>6, <2>2, <2>3 DEF Aborted
<1>9. LostInv'
  <2>1. ASSUME NEW k \in Req, Lost(k)', ~Lost(k)
        PROVE  fate[k] # "none" /\ Excused(k)
    <3>1. radio.state # "free" /\ k = radio.pkt.id
      BY <1>8, <2>1
    <3>2. Contested(k) /\ fate[k] # "none"
      BY <1>1, <3>1, HandConflict, HandTimes
    <3>3. QED
      BY <3>2 DEF Excused
  <2>2. QED
    BY <2>1, LostSame DEF Next
<1>10. RadioInv'
  <2>1. CASE radio' = radio
    BY <1>1, <2>1 DEF RadioInv, Contested, Conflict
  <2>2. CASE radio'.state = "free"
    BY <2>2 DEF RadioInv
  <2>3. CASE radio' = [state |-> "scheduled", pkt |-> jpkt]
    <3>1. /\ Since(jtime) \in Nat /\ Since(clock) \in Nat
          /\ StartDelay \in Nat /\ JitDelay \in Nat /\ PollMax \in Nat /\ JitLag \in Nat
          /\ PollMax + JitLag <= JitDelay - StartDelay
      BY HandTimes, Lags
    <3>2. InHand(jpkt)
      BY <1>1 DEF HandInv
    <3>3. Since(clock) - Since(jtime) <= JitLag
      BY <1>1 DEF TimesInv
    <3>4. Since(jpkt.count) < Since(jtime) + JitDelay
      BY <1>3, <3>1, <3>2 DEF InHand
    <3>5. Since(clock) + StartDelay <= Since(jpkt.count) \/ Contested(jpkt.id)
      BY <1>3, <3>1, <3>2, <3>3 DEF InHand
    <3>6. radio'.state = "scheduled" /\ radio'.pkt = jpkt
      BY <2>3
    <3>7. Contested(jpkt.id) => Contested(radio.pkt.id)'
      BY <1>1, <3>6 DEF Contested, Conflict
    <3>8. QED
      BY <1>1, <3>4, <3>5, <3>6, <3>7 DEF RadioInv
  <2>4. QED
    BY <1>7, <2>1, <2>2, <2>3
<1>11. QED
  BY <1>2, <1>9, <1>10

\* The concentrator starts a packet when its time has come, not before and not
\* a turn later, and ends it.
LEMMA SentTick ==
  ASSUME QInv, TimesInv, PlacesInv, HandInv, RadioInv, LostInv, Tick
  PROVE  HandInv' /\ RadioInv' /\ LostInv'
<1>1. UNCHANGED <<jpc, jpkt, jtime, log>>
  BY DEF Tick, down, jit
<1>2. HandInv'
  BY <1>1, HandSame DEF Contested, Conflict
<1>3. /\ Since(clock') = Since(clock) + 1 /\ Since(clock) \in Nat /\ clock \in Time
      /\ Since(clock) <= EndTicks /\ EndTicks \in Nat
      /\ StartDelay \in Nat \ {0} /\ JitDelay \in Nat
  BY TimesTick, HandTimes, Turn, Lags DEF TimesInv
<1>4. radio.state # "free" =>
        /\ radio.pkt \in Node /\ Since(radio.pkt.count) \in Nat /\ radio.pkt.count \in Time
        /\ radio.pkt.post \in Nat /\ radio.pkt.id \in Req
        /\ fate[radio.pkt.id] \in {"programmed", "onair"}
        /\ Since(radio.pkt.count) < W
  BY HandTimes, NodeTimes
<1>5. RadioTick /\ radio.state \in {"free", "scheduled", "emitting"}
  BY DEF Tick, QInv, RadioTypes
<1>6. LostInv'
  <2>1. \A k \in Req : Lost(k)' => Lost(k)
    BY <1>5 DEF RadioTick, Lost, QInv, RadioTypes
  <2>2. QED
    BY <2>1, LostSame DEF Next
<1>7. RadioInv'
  <2>1. CASE /\ radio.state = "scheduled" /\ Ahead(radio.pkt.count, clock) = StartDelay
             /\ radio' = [radio EXCEPT !.state = "emitting"]
    <3>1. radio'.state = "emitting" /\ radio'.pkt = radio.pkt
      BY <2>1 DEF QInv, RadioTypes
    <3>2. Since(radio.pkt.count) = Since(clock) + StartDelay
      <4>1. StartDelay = IF Since(clock) <= Since(radio.pkt.count)
                         THEN Since(radio.pkt.count) - Since(clock)
                         ELSE Since(radio.pkt.count) - Since(clock) + W
        BY <1>3, <1>4, <2>1, AheadSince
      <4>2. /\ W \in Nat /\ W \div 4 \in Nat /\ 4 * (W \div 4) <= W /\ W > 4
            /\ EndTicks <= W \div 4
        BY Turn
      <4>3. StartDelay < W \div 4
        <5>1. StartDelay < MaxAdvance /\ MaxAdvance \in Nat /\ MaxAdvance <= W \div 4
          BY Lags, Turn
        <5>2. QED
          BY <1>3, <4>2, <5>1
      <4>4. CASE Since(clock) <= Since(radio.pkt.count)
        BY <1>3, <1>4, <2>1, <4>1, <4>4
      <4>5. CASE ~(Since(clock) <= Since(radio.pkt.count))
        <5>1. StartDelay = Since(radio.pkt.count) - Since(clock) + W
          BY <4>1, <4>5
        <5>2. Since(radio.pkt.count) \in Nat
          BY <1>4, <2>1
        <5>3. FALSE
          BY <1>3, <4>2, <4>3, <5>1, <5>2
        <5>4. QED
          BY <5>3
      <4>6. QED
        BY <4>4, <4>5
    <3>3. Since(radio.pkt.count) < Since(jtime) + JitDelay
      BY <2>1 DEF RadioInv
    <3>4. /\ Since(radio.pkt.count) - StartDelay < Since(clock')
          /\ Since(clock') <= Since(radio.pkt.count) + radio.pkt.post
      BY <1>3, <1>4, <2>1, <3>2
    <3>5. QED
      BY <1>1, <3>1, <3>3, <3>4 DEF RadioInv
  <2>2. CASE radio'.state = "free"
    BY <2>2 DEF RadioInv
  <2>3. CASE /\ ~(radio.state = "scheduled" /\ Ahead(radio.pkt.count, clock) = StartDelay)
             /\ ~(/\ radio.state = "emitting"
                  /\ Ahead(clock, radio.pkt.count) = radio.pkt.post)
             /\ radio' = radio
    <3>1. ASSUME radio.state = "scheduled", ~Contested(radio.pkt.id)
          PROVE  Since(clock') + StartDelay <= Since(radio.pkt.count)
      <4>1. Since(clock) + StartDelay <= Since(radio.pkt.count)
        BY <3>1 DEF RadioInv
      <4>2. Since(radio.pkt.count) \in Nat /\ radio.pkt.count \in Time
        BY <1>4, <3>1
      <4>3. Ahead(radio.pkt.count, clock) = Since(radio.pkt.count) - Since(clock)
        BY <1>3, <4>1, <4>2, AheadSince
      <4>4. Since(radio.pkt.count) - Since(clock) # StartDelay
        BY <2>3, <3>1, <4>3
      <4>5. QED
        BY <1>3, <4>1, <4>2, <4>4
    <3>2. ASSUME radio.state = "emitting"
          PROVE  /\ Since(radio.pkt.count) - StartDelay < Since(clock')
                 /\ Since(clock') <= Since(radio.pkt.count) + radio.pkt.post
      <4>1. /\ Since(radio.pkt.count) - StartDelay < Since(clock)
            /\ Since(clock) <= Since(radio.pkt.count) + radio.pkt.post
        BY <3>2 DEF RadioInv
      <4>2. /\ Since(radio.pkt.count) \in Nat /\ radio.pkt.count \in Time
            /\ radio.pkt.post \in Nat
        BY <1>4, <3>2
      <4>3. Since(radio.pkt.count) <= Since(clock) =>
              Since(clock) - Since(radio.pkt.count) # radio.pkt.post
        <5>1. Since(radio.pkt.count) <= Since(clock) =>
                Ahead(clock, radio.pkt.count) = Since(clock) - Since(radio.pkt.count)
          BY <1>3, <4>2, AheadSince
        <5>2. QED
          BY <2>3, <3>2, <5>1
      <4>4. QED
        BY <1>3, <4>1, <4>2, <4>3
    <3>3. Contested(radio.pkt.id) => Contested(radio.pkt.id)'
      BY <1>1, <2>3 DEF Contested, Conflict
    <3>4. QED
      BY <1>1, <2>3, <3>1, <3>2, <3>3 DEF RadioInv
  <2>4. QED
    BY <1>5, <2>1, <2>2, <2>3 DEF RadioTick
<1>8. QED
  BY <1>2, <1>6, <1>7

\* Nothing is programmed, or lost.
LEMMA SentInit == Init => SentInv
<1> SUFFICES ASSUME Init PROVE HandInv /\ RadioInv /\ LostInv
  BY DEF SentInv
<1>1. jpc = "wait" /\ radio.state = "free" /\ \A k \in Req : fate[k] = "none"
  BY DEF Init
<1>2. QED
  BY <1>1 DEF HandInv, RadioInv, LostInv, Lost

\* Each step loses only such packets as were not in time or are in conflict.
LEMMA SentStep ==
  ASSUME QInv, TimesInv, PlacesInv, OrderInv, SentInv, [Next]_vars
  PROVE  SentInv'
<1> SUFFICES ASSUME AllRegular' PROVE HandInv' /\ RadioInv' /\ LostInv'
  BY DEF SentInv
<1>1. /\ AllRegular /\ Ordered /\ HandInv /\ RadioInv /\ LostInv
      /\ \A k \in Req : Contested(k) => Contested(k)'
  BY LogGrows DEF OrderInv, SentInv
<1>2. CASE JitSend \/ JitSendFails
  BY <1>1, <1>2, SentSend
<1>3. CASE Tick
  BY <1>1, <1>3, SentTick
<1>4. CASE JitStatus
  <2>1. /\ jpc = "status" /\ UNCHANGED <<clock, radio, jtime>>
        /\ jpc' \in {"status", "send"} => UNCHANGED <<jtime, jpkt>>
    BY <1>4 DEF JitStatus
  <2>2. HandInv' /\ RadioInv'
    BY <1>1, <2>1, HandSame, RadioSame
  <2>3. ASSUME NEW k \in Req, Lost(k)', ~Lost(k)
        PROVE  fate[k] # "none" /\ Excused(k)
    <3>1. radio.state = "emitting" /\ fate' = [fate EXCEPT ![jpkt.id] = "busy"]
      BY <1>4, <2>3 DEF JitStatus, Lost
    <3>2. k = jpkt.id
      BY <2>3, <3>1 DEF Lost, QInv, RadioTypes
    <3>3. fate[k] = "taken"
      BY <2>1, <3>2 DEF PlacesInv, HandPlaces, InPlace
    <3>4. Contested(k)
      BY <1>1, <2>1, <3>1, <3>2, HandConflict
    <3>5. QED
      BY <3>3, <3>4 DEF Excused
  <2>4. LostInv'
    BY <1>1, <2>3, LostSame
  <2>5. QED
    BY <2>2, <2>4
<1>5. CASE JitPeek
  <2>1. jpc' \in {"wait", "peeked"} /\ UNCHANGED <<clock, radio, jtime>>
    BY <1>5 DEF JitPeek
  <2>2. HandInv' /\ RadioInv'
    BY <1>1, <2>1, RadioSame DEF HandInv
  <2>3. QED
    BY <1>1, <1>5, <2>2, SentPeek
<1>6. CASE JitDequeue
  <2>1. /\ jpc = "peeked" /\ UNCHANGED <<clock, radio, jtime, log>>
        /\ jpkt' = queue[jidx] /\ fate' = [fate EXCEPT ![queue[jidx].id] = "taken"]
    BY <1>6 DEF JitDequeue, down
  <2>2. InHand(queue[1]) /\ jidx = 1
    BY <1>1, <2>1 DEF Ordered
  <2>3. HandInv'
    BY <2>1, <2>2 DEF HandInv, InHand, Contested, Conflict
  <2>4. RadioInv'
    BY <1>1, <2>1, RadioSame
  <2>5. \A k \in Req : Lost(k)' => Lost(k)
    BY <2>1 DEF Lost, QInv, RadioTypes
  <2>6. LostInv'
    BY <1>1, <2>5, LostSame
  <2>7. QED
    BY <2>3, <2>4, <2>6
<1>7. CASE DownSample \/ DownEnqueue \/ JitSample \/ UNCHANGED vars
  <2>1. /\ UNCHANGED <<clock, radio>> /\ jtime' \in {jtime, clock}
        /\ jpc' \in {"status", "send"} =>
             jpc \in {"status", "send"} /\ UNCHANGED <<jtime, jpkt>>
    BY <1>7 DEF DownSample, DownEnqueue, JitSample, vars, jit
  <2>2. HandInv' /\ RadioInv'
    BY <1>1, <2>1, HandSame, RadioSame
  <2>3. \A k \in Req : Lost(k)' => Lost(k)
    <3>1. CASE DownEnqueue
      <4>1. fate' = fate \/ \E y : fate' = [fate EXCEPT ![y] = "queued"]
        BY <3>1 DEF DownEnqueue
      <4>2. QED
        BY <4>1 DEF Lost, QInv, RadioTypes
    <3>2. CASE DownSample \/ JitSample \/ UNCHANGED vars
      BY <3>2 DEF DownSample, JitSample, vars, Lost
    <3>3. QED
      BY <1>7, <3>1, <3>2
  <2>4. LostInv'
    BY <1>1, <2>3, LostSame
  <2>5. QED
    BY <2>2, <2>4
<1>8. QED
  BY <1>2, <1>3, <1>4, <1>5, <1>6, <1>7 DEF Next, Ended

\* The inductive invariant, with the types.
SchedInv == QInv /\ TimesInv /\ PlacesInv /\ OrderInv /\ SentInv

\* It holds in every reachable state.
THEOREM SchedInvariant == Spec => []SchedInv
<1>1. Init => TimesInv /\ PlacesInv /\ OrderInv /\ SentInv
  BY TimesInit, PlacesInit, OrderInit, SentInit
<1>2. SchedInv /\ [Next]_vars => (TimesInv /\ PlacesInv /\ OrderInv /\ SentInv)'
  BY TimesStep, PlacesStep, OrderStep, SentStep DEF SchedInv
<1>3. QED
  BY <1>1, <1>2, QueueInvariant, PTL DEF Spec, SchedInv

\* thread_jit dequeues the packet it has peeked and the queue is in order of
\* departure, for all delays, lags and requests, as long as no packet has been
\* accepted that should have been rejected as too late.
THEOREM DequeuesPeeked == Spec => []DequeuesWhatItPeeked
<1>1. ASSUME QInv, PlacesInv, OrderInv
      PROVE  DequeuesWhatItPeeked
  <2> SUFFICES ASSUME AllRegular, Ordered
               PROVE  /\ \A i, j \in DOMAIN queue :
                           i < j => Ahead(queue[j].count, queue[i].count) < W \div 2
                      /\ jpc = "peeked" => jidx \in DOMAIN queue /\ queue[jidx].id = peeked
    BY <1>1 DEF DequeuesWhatItPeeked, OrderInv
  <2>1. DOMAIN queue = 1 .. Len(queue) /\ \A i \in 1 .. Len(queue) : queue[i] \in Queued
    BY <1>1, QueueFacts, LenProperties
  <2>2. ASSUME NEW i \in 1 .. Len(queue), NEW j \in 1 .. Len(queue), i < j
        PROVE  Ahead(queue[j].count, queue[i].count) < W \div 2
    <3>1. /\ queue[i].count \in Time /\ Since(queue[i].count) \in Nat
          /\ queue[j].count \in Time /\ Since(queue[j].count) \in Nat
      BY <2>1, NodeTimes
    <3>2. Spaced(queue[i], queue[j]) /\ Since(queue[j].count) < W \div 2
      BY <2>2 DEF Ordered, Sorted
    <3>3. Since(queue[i].count) < Since(queue[j].count)
      BY <2>1, <3>2, SpacedLater
    <3>4. Ahead(queue[j].count, queue[i].count) = Since(queue[j].count) - Since(queue[i].count)
      BY <3>1, <3>3, AheadSince
    <3>5. W \div 2 \in Nat
      BY Turn
    <3>6. QED
      BY <3>1, <3>2, <3>4, <3>5
  <2>3. jpc = "peeked" => jidx \in 1 .. Len(queue) /\ queue[jidx].id = peeked
    BY DEF Ordered
  <2>4. QED
    BY <2>1, <2>2, <2>3
<1>2. SchedInv => DequeuesWhatItPeeked
  BY <1>1 DEF SchedInv
<1>3. QED
  BY <1>2, SchedInvariant, PTL

\* A packet that was accepted in time, and in conflict with no other, is neither
\* purged, nor dropped because the concentrator is sending, nor aborted.
THEOREM LossesExplained == Spec => []LossExplained
<1>1. SchedInv => LossExplained
  BY DEF SchedInv, SentInv, LostInv, Lost, Excused, Contested, LossExplained
<1>2. QED
  BY <1>1, SchedInvariant, PTL

\* And it is dequeued and programmed while there is still time to start it.
THEOREM SentWhileTimely == Spec => []SentInTime
<1>1. ASSUME SchedInv, NEW k \in Req, fate[k] \in {"queued", "taken", "programmed"},
             Timely(k), ~Contested(k), AllRegular
      PROVE  Ahead(log[k].node.count, clock) \in StartDelay .. MaxAdvance
  <2> DEFINE x == log[k].node
             T == Since(clock)
             J == Since(jtime)
  <2>1. /\ QInv /\ TimesInv /\ PlacesInv /\ Ordered /\ HandInv /\ RadioInv
        /\ x.id = k /\ k # 0
    BY <1>1 DEF SchedInv, OrderInv, SentInv, PlacesInv, RequestPlaces, Req
  <2>2. /\ T \in Nat /\ J \in Nat /\ J <= T /\ clock \in Time
        /\ Since(x.count) \in Nat /\ x.count \in Time
        /\ Since(x.count) < T + MaxAdvance - JitLag
    BY <1>1, <2>1, HandTimes, LogTimes
  <2>3. /\ StartDelay \in Nat /\ JitDelay \in Nat /\ PollMax \in Nat /\ JitLag \in Nat
        /\ MaxAdvance \in Nat /\ JitLag <= PollMax
        /\ PollMax + JitLag <= JitDelay - StartDelay
    BY Lags
  <2>4. T - J <= (IF jpc = "wait" THEN PollMax ELSE JitLag)
    BY <2>1 DEF TimesInv
  <2>5. CASE fate[k] = "programmed"
    <3>1. radio.state = "scheduled" /\ radio.pkt.id = k /\ radio.pkt = x
      BY <2>1, <2>5 DEF PlacesInv, RadioPlaces, InPlace
    <3>2. T + StartDelay <= Since(x.count)
      BY <1>1, <2>1, <3>1 DEF RadioInv
    <3>3. QED
      BY <2>2, <2>3, <3>2, AheadSince
  <2>6. CASE fate[k] = "taken"
    <3>1. jpc \in {"status", "send"} /\ jpkt.id = k /\ jpkt = x
      BY <2>1, <2>6 DEF PlacesInv, HandPlaces, InPlace
    <3>2. Since(x.count) >= J + JitDelay - PollMax
      BY <1>1, <2>1, <3>1 DEF HandInv, InHand
    <3>3. T + StartDelay <= Since(x.count)
      BY <2>2, <2>3, <2>4, <3>1, <3>2
    <3>4. QED
      BY <2>2, <2>3, <3>3, AheadSince
  <2>7. CASE fate[k] = "queued"
    <3>1. PICK i \in 1 .. Len(queue) : queue[i].id = k
      BY <2>1, <2>7 DEF PlacesInv, QueuePlaces
    <3>2. queue[i] = x
      BY <2>1, <3>1 DEF PlacesInv, QueuePlaces, InPlace
    <3>3. Since(x.count) >= J + JitDelay - (IF jpc = "wait" THEN 0 ELSE PollMax)
      <4>1. CASE jpc = "peeked" /\ i = 1
        BY <1>1, <2>1, <2>3, <3>1, <3>2, <4>1 DEF Ordered, InHand
      <4>2. CASE ~(jpc = "peeked" /\ i = 1)
        <5>1. Safe(queue[i], Looked)
          BY <2>1, <4>2 DEF Ordered
        <5>2. Since(x.count) >= Looked
          BY <1>1, <3>1, <3>2, <5>1 DEF Safe
        <5>3. QED
          BY <2>2, <2>3, <5>2 DEF Looked
      <4>3. QED
        BY <4>1, <4>2
    <3>4. T + StartDelay <= Since(x.count)
      BY <2>2, <2>3, <2>4, <3>3
    <3>5. QED
      BY <2>2, <2>3, <3>4, AheadSince
  <2>8. QED
    BY <1>1, <2>5, <2>6, <2>7
<1>2. SchedInv => SentInTime
  BY <1>1 DEF SentInTime, Contested
<1>3. QED
  BY <1>2, SchedInvariant, PTL

-----------------------------------------------------------------------------
(* The beacons of thread_down, in the same queue: module Beacon, whose names *)
(* that are taken here are changed.                                          *)

CONSTANTS P, MaxAge, Phase, Moments, Offsets, MaxLoss, MaxRetry, MaxLast, Stalls, Pauses,
          End

VARIABLES now, valid, beaconQueue, downPc, beaconLoop, retry, last, saturating,
          reqs, losses, sent, firstBeacon, excused

Alloc == INSTANCE Beacon WITH q <- beaconQueue, pc <- downPc, first <- firstBeacon

\* The operators of the queue are the same.
LEMMA SameQueue ==
  ASSUME NEW s, NEW t, NEW i, NEW n
  PROVE  /\ Alloc!Purged(s, t) = Purged(s, t)
         /\ Alloc!PeekIndex(s, t) = PeekIndex(s, t)
         /\ Alloc!Dequeued(s, i) = RemoveAt(s, i)
         /\ Alloc!Enqueued(s, n) = Enqueued(s, n)
<1>1. Alloc!Purged(s, t) = Purged(s, t)
  BY DEF Alloc!Purged, Purged, Alloc!HeadPurged, HeadPurged, Alloc!Outdated, Outdated,
         Alloc!Ahead, Ahead
<1>2. Alloc!PeekIndex(s, t) = PeekIndex(s, t)
  BY <1>1
  DEF Alloc!PeekIndex, PeekIndex, Alloc!HeadPurged, HeadPurged,
      Alloc!Outdated, Outdated, Alloc!Due, Due, Alloc!Ahead, Ahead
<1>3. Alloc!Dequeued(s, i) = RemoveAt(s, i)
  BY DEF Alloc!Dequeued, Alloc!RemoveAt, RemoveAt
<1>4. Alloc!Enqueued(s, n) = Enqueued(s, n)
  BY DEF Alloc!Enqueued, Enqueued, Alloc!Before, Before, Alloc!Ahead, Ahead,
         Alloc!InsertAt, InsertAt
<1>5. QED
  BY <1>1, <1>2, <1>3, <1>4

LEMMA SameBeacons ==
  /\ Alloc!Beacons = Beacons(beaconQueue)
  /\ (Alloc!Beacons)' = Beacons(beaconQueue')
<1>1. ASSUME NEW T PROVE Alloc!Cardinality(T) = Cardinality(T)
  BY DEF Alloc!Cardinality, Cardinality, Alloc!IsFiniteSet, IsFiniteSet
<1>2. Alloc!Beacons = Beacons(beaconQueue)
  BY <1>1 DEF Alloc!Beacons, Beacons
<1>3. (Alloc!Beacons)' = Beacons(beaconQueue')
  BY <1>1 DEF Alloc!Beacons, Beacons
<1>4. QED
  BY <1>2, <1>3

\* The beacons still to be queued, while thread_down is about it, are no more than
\* there is room for; their number was right when it was read, and only thread_down
\* adds to the queue since.
BeaconInv ==
  /\ \E S : beaconQueue \in Seq(S)
  /\ downPc = "beacon" => beaconLoop \in Nat
  /\ Alloc!NoExcessBeacon

LEMMA BeaconFacts ==
  ASSUME BeaconInv
  PROVE  /\ NumBeacon \in Nat
         /\ Beacons(beaconQueue) \in Nat /\ Beacons(beaconQueue) <= NumBeacon
         /\ downPc = "beacon" =>
              beaconLoop \in Nat /\ Beacons(beaconQueue) + beaconLoop <= NumBeacon
<1>1. PICK S : beaconQueue \in Seq(S)
  BY DEF BeaconInv
<1>2. Selects(beaconQueue, beaconQueue)
  BY <1>1, SelectsItself
<1>3. Beacons(beaconQueue) \in Nat
  BY <1>1, <1>2, BeaconsSelected
<1>4. NumBeacon \in Nat
  BY SchedAssumption
<1>5. QED
  BY <1>3, <1>4, SameBeacons DEF BeaconInv, Alloc!NoExcessBeacon

\* A step that leaves thread_down where it is and adds no beacon.
LEMMA FewerBeacons ==
  ASSUME BeaconInv, UNCHANGED <<downPc, beaconLoop>>,
         NEW S, beaconQueue' \in Seq(S),
         Beacons(beaconQueue') \in Nat, Beacons(beaconQueue') <= Beacons(beaconQueue)
  PROVE  BeaconInv'
<1>1. (Alloc!Beacons)' = Beacons(beaconQueue')
  BY SameBeacons
<1>2. QED
  BY <1>1, BeaconFacts DEF BeaconInv, Alloc!NoExcessBeacon

LEMMA BeaconInit == Alloc!Init => BeaconInv
<1> SUFFICES ASSUME Alloc!Init PROVE BeaconInv
  OBVIOUS
<1>1. beaconQueue = <<>> /\ downPc = "recv"
  BY DEF Alloc!Init
<1>2. beaconQueue \in Seq({})
  BY <1>1, EmptySeq
<1>3. Beacons(beaconQueue) = 0
  <2>1. {i \in DOMAIN beaconQueue : beaconQueue[i].type = "BEACON"} = {}
    BY <1>1
  <2>2. QED
    BY <2>1, FS_EmptySet DEF Beacons
<1>4. QED
  BY <1>1, <1>2, <1>3, SameBeacons, SchedAssumption
  DEF BeaconInv, Alloc!NoExcessBeacon

\* thread_jit takes packets out: whatever it purges, and the one that is due.
LEMMA PollBeacons ==
  ASSUME BeaconInv, Alloc!JitPoll
  PROVE  BeaconInv'
<1> DEFINE t == Alloc!Count(now)
           r == Purged(beaconQueue, t)
           i == PeekIndex(beaconQueue, t)
<1>1. /\ beaconQueue' = IF i = 0 THEN r ELSE RemoveAt(r, i)
      /\ UNCHANGED <<downPc, beaconLoop>>
  BY SameQueue DEF Alloc!JitPoll
<1>2. PICK S : beaconQueue \in Seq(S)
  BY DEF BeaconInv
<1>3. r \in Seq(S) /\ Selects(r, beaconQueue)
  BY <1>2, PurgedFacts
<1>4. i \in 0 .. Len(r) /\ Len(r) \in Nat
  BY <1>2, <1>3, PeekIndexType, LenProperties
<1> HIDE DEF r, i, t
<1>5. beaconQueue' \in Seq(S) /\ Selects(beaconQueue', beaconQueue)
  <2>1. CASE i = 0
    BY <1>1, <1>3, <2>1
  <2>2. CASE i # 0
    <3>1. i \in 1 .. Len(r) /\ beaconQueue' = RemoveAt(r, i)
      BY <1>1, <1>4, <2>2
    <3>2. beaconQueue' \in Seq(S) /\ IsInserted(beaconQueue', r, i)
      BY <1>3, <3>1, RemoveAtFacts
    <3>3. Selects(beaconQueue', r)
      BY <1>3, <3>2, SelectsInserted
    <3>4. QED
      BY <1>2, <1>3, <3>2, <3>3, SelectsTransitive
  <2>3. QED
    BY <2>1, <2>2
<1>6. Beacons(beaconQueue') \in Nat /\ Beacons(beaconQueue') <= Beacons(beaconQueue)
  BY <1>2, <1>5, BeaconsSelected
<1>7. QED
  BY <1>1, <1>5, <1>6, FewerBeacons

\* A packet put into the queue is one beacon more, if it is one.
LEMMA EnqueuedBeacons ==
  ASSUME BeaconInv, NEW n, beaconQueue' = Enqueued(beaconQueue, n)
  PROVE  /\ \E S : beaconQueue' \in Seq(S)
         /\ Beacons(beaconQueue') = Beacons(beaconQueue)
                                    + (IF n.type = "BEACON" THEN 1 ELSE 0)
<1>1. PICK S : beaconQueue \in Seq(S)
  BY DEF BeaconInv
<1> DEFINE N == S \cup {n}
<1>2. beaconQueue \in Seq(N) /\ n \in N
  BY <1>1, SeqMonotonic
<1> HIDE DEF N
<1>3. /\ beaconQueue' \in Seq(N)
      /\ \E k : IsInserted(beaconQueue, beaconQueue', k) /\ beaconQueue'[k] = n
  BY <1>2, EnqueuedFacts
<1>4. QED
  BY <1>2, <1>3, BeaconsInserted

\* thread_down queues one of the beacons it is to queue, or a downlink.
LEMMA BeaconQueuedStep ==
  ASSUME BeaconInv, Alloc!BeaconQueued
  PROVE  BeaconInv'
<1>1. PICK ref \in Alloc!Refs :
        beaconQueue' =
          Alloc!Enqueued(beaconQueue, Alloc!BeaconNode(ref, Alloc!NextBeacon(ref)))
  BY DEF Alloc!BeaconQueued
<1> DEFINE n == Alloc!BeaconNode(ref, Alloc!NextBeacon(ref))
<1>2. n.type = "BEACON"
  BY DEF Alloc!BeaconNode, Alloc!Candidate
<1> HIDE DEF n
<1>3. beaconQueue' = Enqueued(beaconQueue, n)
  BY <1>1, SameQueue DEF n
<1>4. /\ \E S : beaconQueue' \in Seq(S)
      /\ Beacons(beaconQueue') = Beacons(beaconQueue) + 1
  BY <1>2, <1>3, EnqueuedBeacons
<1>5. /\ downPc = "beacon" /\ downPc' = downPc
      /\ beaconLoop > 0 /\ beaconLoop' = beaconLoop - 1
  BY DEF Alloc!BeaconQueued
<1>6. (Alloc!Beacons)' = Beacons(beaconQueue')
  BY SameBeacons
<1>7. QED
  BY <1>4, <1>5, <1>6, BeaconFacts DEF BeaconInv, Alloc!NoExcessBeacon

LEMMA DownlinkStep ==
  ASSUME BeaconInv, Alloc!Downlink
  PROVE  BeaconInv'
<1>1. PICK off \in Offsets :
        LET n == Alloc!Candidate(beaconQueue, Alloc!Count(now),
                   [id |-> Alloc!NoBeacon, type |-> "A", airtime |-> 1,
                    count |-> Alloc!Count(now + off), saturating |-> saturating])
        IN  beaconQueue' \in {Alloc!Enqueued(beaconQueue, n), beaconQueue}
  BY DEF Alloc!Downlink
<1> DEFINE n == Alloc!Candidate(beaconQueue, Alloc!Count(now),
                  [id |-> Alloc!NoBeacon, type |-> "A", airtime |-> 1,
                   count |-> Alloc!Count(now + off), saturating |-> saturating])
<1>2. n.type = "A"
  BY DEF Alloc!Candidate
<1>3. beaconQueue' \in {Enqueued(beaconQueue, n), beaconQueue}
  BY <1>1, SameQueue
<1> HIDE DEF n
<1>4. /\ \E S : beaconQueue' \in Seq(S)
      /\ Beacons(beaconQueue') = Beacons(beaconQueue)
  <2>1. CASE beaconQueue' = Enqueued(beaconQueue, n)
    BY <1>2, <2>1, EnqueuedBeacons, BeaconFacts
  <2>2. CASE beaconQueue' = beaconQueue
    BY <2>2 DEF BeaconInv
  <2>3. QED
    BY <1>3, <2>1, <2>2
<1>5. downPc = "handle" /\ downPc' = "recv"
  BY DEF Alloc!Downlink
<1>6. (Alloc!Beacons)' = Beacons(beaconQueue')
  BY SameBeacons
<1>7. QED
  BY <1>4, <1>5, <1>6, BeaconFacts DEF BeaconInv, Alloc!NoExcessBeacon

\* recv returns: thread_down reads how many beacons there are.  The other steps
\* leave the queue and the count alone.
LEMMA BeaconStep == BeaconInv /\ [Alloc!Next]_(Alloc!vars) => BeaconInv'
<1> SUFFICES ASSUME BeaconInv, [Alloc!Next]_(Alloc!vars) PROVE BeaconInv'
  OBVIOUS
<1>1. CASE Alloc!Recv
  <2>1. /\ downPc' = "beacon" /\ beaconQueue' = beaconQueue
        /\ beaconLoop' = NumBeacon - Beacons(beaconQueue)
    BY <1>1, SameBeacons DEF Alloc!Recv
  <2>2. (Alloc!Beacons)' = Beacons(beaconQueue)
    BY <2>1, SameBeacons
  <2>3. QED
    BY <2>1, <2>2, BeaconFacts DEF BeaconInv, Alloc!NoExcessBeacon
<1>2. CASE Alloc!BeaconLoopEnds \/ Alloc!NoDownlink
  <2>1. /\ downPc' \in {"handle", "recv"} /\ beaconQueue' = beaconQueue
    BY <1>2 DEF Alloc!BeaconLoopEnds, Alloc!NoDownlink
  <2>2. (Alloc!Beacons)' = Beacons(beaconQueue)
    BY <2>1, SameBeacons
  <2>3. QED
    BY <2>1, <2>2, BeaconFacts DEF BeaconInv, Alloc!NoExcessBeacon
<1>3. CASE UNCHANGED <<beaconQueue, downPc, beaconLoop>>
  BY <1>3, BeaconFacts, FewerBeacons DEF BeaconInv
<1>4. QED
  BY <1>1, <1>2, <1>3, PollBeacons, BeaconQueuedStep, DownlinkStep
  DEF Alloc!Next, Alloc!Tick, Alloc!LoseGps, Alloc!RegainGps, Alloc!Down,
      Alloc!BeaconRefused, Alloc!Ended, Alloc!vars

\* The queue never holds more beacons than are wanted, whatever the GPS does and
\* however long the two threads take.
THEOREM BeaconsBounded == Alloc!Spec => []Alloc!NoExcessBeacon
<1>1. BeaconInv => Alloc!NoExcessBeacon
  BY DEF BeaconInv
<1>2. QED
  BY BeaconInit, BeaconStep, <1>1, PTL DEF Alloc!Spec

\* What Beacon assumes of its constants, as far as it matters when a beacon leaves.
BeaconBounds ==
  /\ P \in Nat \ {0} /\ MaxAge \in Nat /\ MaxAge + MaxAdvance < W /\ Phase \in Time

\* A node is an ordinary packet, or outdated, or a beacon with a reason to leave when
\* it does.
MayLeave(x) ==
  LET a == Ahead(x.count, Alloc!Count(now))
  IN  x.type = "BEACON" => /\ x.count \in Time
                           /\ a < MaxAdvance => Alloc!MayLeaveAt(x.id, now + a)

OffInv ==
  /\ now \in Nat /\ retry \in Nat /\ last \in Int
  /\ \E S : beaconQueue \in Seq(S)
  /\ \A i \in 1 .. Len(beaconQueue) : MayLeave(beaconQueue[i])
  /\ Alloc!BeaconOffExplained

\* The counter as the GPS time shows it.
LEMMA CountType ==
  ASSUME BeaconBounds, NEW g \in Int
  PROVE  Alloc!Count(g) \in Time
BY TimeType, Delays DEF BeaconBounds, Alloc!Count, Time

LEMMA CountAhead ==
  ASSUME BeaconBounds, NEW g \in Int, NEW h \in Int
  PROVE  Ahead(Alloc!Count(g), Alloc!Count(h)) = (g - h) % W
<1>1. Phase \in Int
  BY Delays DEF BeaconBounds, Time
<1>2. Ahead(Alloc!Count(g), Alloc!Count(h)) = ((g + Phase) - (h + Phase)) % W
  BY <1>1, ModSub DEF Ahead, Alloc!Count
<1>3. (g + Phase) - (h + Phase) = g - h
  BY <1>1
<1>4. QED
  BY <1>2, <1>3

LEMMA CountPlus ==
  ASSUME BeaconBounds, NEW g \in Int, NEW d \in Int
  PROVE  (Alloc!Count(g) + d) % W = Alloc!Count(g + d)
<1>1. Phase \in Int
  BY Delays DEF BeaconBounds, Time
<1>2. (Alloc!Count(g) + d) % W = ((g + Phase) + d) % W
  BY <1>1, ModAdd DEF Alloc!Count
<1>3. (g + Phase) + d = (g + d) + Phase
  BY <1>1
<1>4. QED
  BY <1>2, <1>3 DEF Alloc!Count

\* The counter value computed for GPS time g from a reference that is not too old,
\* if criterion 1 lets it pass: with an exact difference, it comes round whole turns
\* from g; with one that has been saturated, it is outdated or now.
LEMMA CountMayLeave ==
  ASSUME BeaconBounds, NEW h \in Nat, NEW ref \in Int, h - MaxAge <= ref, ref <= h,
         NEW g \in Int, NEW sat,
         NEW c, c = (Alloc!Count(ref) + Alloc!ToUint(g - ref, sat)) % W,
         ~Alloc!TooLate(c, Alloc!Count(h)),
         Ahead(c, Alloc!Count(h)) < MaxAdvance
  PROVE  Alloc!MayLeaveAt([gps |-> g, queued |-> h], h + Ahead(c, Alloc!Count(h)))
<1> DEFINE a == Ahead(c, Alloc!Count(h))
<1>1. /\ W \in Nat \ {0} /\ MaxAge \in Nat /\ MaxAge + MaxAdvance < W
      /\ MaxAdvance \in Nat /\ Lead \in Nat /\ h \in Int
  BY Delays DEF BeaconBounds
<1>2. CASE c = Alloc!Count(g)
  <2> DEFINE m == (g - h) \div W
  <2>1. a = (g - h) % W
    BY <1>1, <1>2, CountAhead
  <2>2. g - h = W * m + a /\ m \in Int /\ a \in 0 .. W - 1
    <3>1. g - h \in Int
      BY <1>1
    <3>2. QED
      BY <2>1, <3>1, ModParts
  <2>3. a < MaxAdvance
    OBVIOUS
  <2> HIDE DEF a, m
  <2>4. CASE m = 0
    <3>1. h + a = g
      BY <1>1, <2>2, <2>4
    <3>2. QED
      BY <3>1 DEF Alloc!MayLeaveAt, a
  <2>5. CASE m >= 1
    <3>1. W * m >= W
      BY <1>1, <2>2, <2>5
    <3>2. g - h >= W
      BY <1>1, <2>2, <3>1
    <3>3. QED
      BY <3>2 DEF Alloc!MayLeaveAt
  <2>6. CASE m <= -1
    <3>1. W * m <= -W
      BY <1>1, <2>2, <2>6
    <3>2. g - h < MaxAdvance - W
      BY <1>1, <2>2, <2>3, <3>1
    <3>3. QED
      BY <3>2 DEF Alloc!MayLeaveAt
  <2>7. QED
    BY <2>2, <2>4, <2>5, <2>6
<1>3. CASE Alloc!ToUint(g - ref, sat) = (g - ref) % W
  <2> DEFINE d == g - ref
  <2>1. c = (Alloc!Count(ref) + (d % W)) % W /\ d \in Int
    BY <1>3
  <2>2. Alloc!Count(ref) \in Int
    BY <1>1, CountType DEF Time
  <2>3. c = (d + Alloc!Count(ref)) % W
    <3>1. ((d % W) + Alloc!Count(ref)) % W = (d + Alloc!Count(ref)) % W
      BY <2>1, <2>2, ModAdd
    <3>2. (d % W) + Alloc!Count(ref) = Alloc!Count(ref) + (d % W)
      BY <2>1, <2>2, ModParts
    <3>3. QED
      BY <2>1, <3>1, <3>2
  <2>4. c = Alloc!Count(ref + d)
    <3>1. d + Alloc!Count(ref) = Alloc!Count(ref) + d
      BY <2>1, <2>2
    <3>2. QED
      BY <2>1, <2>3, <3>1, CountPlus
  <2>5. ref + d = g
    OBVIOUS
  <2>6. QED
    BY <1>2, <2>4, <2>5
<1>4. CASE g < ref /\ Alloc!ToUint(g - ref, sat) = 0
  <2>1. c = Alloc!Count(ref)
    <3>1. (Alloc!Count(ref) + 0) % W = Alloc!Count(ref + 0) /\ ref + 0 = ref
      BY CountPlus
    <3>2. QED
      BY <1>4, <3>1
  <2>2. a = (ref - h) % W
    BY <1>1, <2>1, CountAhead
  <2>3. ref = h
    <3> SUFFICES ASSUME ref < h PROVE FALSE
      BY <1>1
    <3>1. ref - h + W \in 0 .. W - 1 /\ ref - h + W >= MaxAdvance
      BY <1>1
    <3>2. W * (-1) + (ref - h + W) = ref - h
      BY <1>1
    <3>3. (ref - h) % W = ref - h + W
      BY <3>1, <3>2, ModUnique
    <3>4. QED
      BY <1>1, <2>2, <3>1, <3>3
  <2>4. Alloc!Count(h) + Lead >= W
    <3> DEFINE t == Alloc!Count(h)
    <3>1. t \in 0 .. W - 1 /\ c = t
      BY <1>1, <2>1, <2>3, CountType DEF Time
    <3>2. ~(t <= (Lead + t) % W)
      BY <3>1 DEF Alloc!TooLate, Alloc!Lead, Lead
    <3> HIDE DEF t
    <3>3. Lead + t < W => (Lead + t) % W = Lead + t
      BY <1>1, <3>1
    <3>4. t + Lead >= W
      BY <1>1, <3>1, <3>2, <3>3
    <3>5. QED
      BY <3>4 DEF t
  <2>5. QED
    BY <1>4, <2>3, <2>4 DEF Alloc!MayLeaveAt, Alloc!Lead, Lead
<1>5. CASE Alloc!ToUint(g - ref, sat) = W - 1
  <2>1. c = Alloc!Count(ref + (W - 1))
    BY <1>1, <1>5, CountPlus
  <2>2. a = (ref + (W - 1) - h) % W
    BY <1>1, <2>1, CountAhead
  <2>3. CASE ref = h - MaxAge \/ ref # h - MaxAge
    <3>1. ref + (W - 1) - h \in 0 .. W - 1 /\ ref + (W - 1) - h >= MaxAdvance
      BY <1>1
    <3>2. (ref + (W - 1) - h) % W = ref + (W - 1) - h
      BY <1>1, <3>1
    <3>3. QED
      BY <1>1, <2>2, <3>1, <3>2
  <2>4. QED
    BY <2>3
<1>6. QED
  BY <1>1, <1>3, <1>4, <1>5 DEF Alloc!ToUint

\* A beacon that jit_enqueue accepts.
LEMMA BeaconMayLeave ==
  ASSUME BeaconBounds, OffInv, NEW ref \in Alloc!Refs, NEW g \in Int,
         NEW n, n = Alloc!BeaconNode(ref, g),
         Alloc!Verdict(beaconQueue, Alloc!Count(now), n) = "OK"
  PROVE  MayLeave(n)
<1>1. /\ n.id = [gps |-> g, queued |-> now]
      /\ n.count = (Alloc!Count(ref) + Alloc!ToUint(g - ref, saturating)) % W
  BY DEF Alloc!BeaconNode, Alloc!Candidate, Alloc!Gps2Cnt
<1>2. ref \in Int /\ now - MaxAge <= ref /\ ref <= now /\ now \in Nat
  BY DEF Alloc!Refs, OffInv, BeaconBounds
<1>3. ~Alloc!TooLate(n.count, Alloc!Count(now))
  BY DEF Alloc!Verdict
<1>4. n.count \in Time
  <2>1. Alloc!Count(ref) \in Int /\ g - ref \in Int
    BY <1>2, CountType, Delays DEF Time
  <2>2. Alloc!ToUint(g - ref, saturating) \in Int
    <3>1. (g - ref) % W \in Int
      BY <2>1, ModParts, Delays
    <3>2. QED
      BY <2>1, <3>1, Delays DEF Alloc!ToUint
  <2>3. QED
    BY <1>1, <2>1, <2>2, TimeType
<1>5. ASSUME Ahead(n.count, Alloc!Count(now)) < MaxAdvance
      PROVE  Alloc!MayLeaveAt(n.id, now + Ahead(n.count, Alloc!Count(now)))
  BY <1>1, <1>2, <1>3, <1>5, CountMayLeave
<1>6. QED
  BY <1>4, <1>5 DEF MayLeave

\* A step during which time stands still and no beacon is sent.
LEMMA OffStill ==
  ASSUME OffInv, UNCHANGED <<now, sent>>, retry' \in Nat, last' \in Int,
         NEW S, beaconQueue' \in Seq(S),
         \A i \in 1 .. Len(beaconQueue') :
           MayLeave(beaconQueue'[i]) \/ \E j \in 1 .. Len(beaconQueue) :
                                          beaconQueue'[i] = beaconQueue[j]
  PROVE  OffInv'
<1>1. ASSUME NEW i \in 1 .. Len(beaconQueue')
      PROVE  MayLeave(beaconQueue[i])'
  <2>1. MayLeave(beaconQueue'[i])
    BY DEF OffInv
  <2>2. QED
    BY <2>1 DEF MayLeave, Alloc!Count, Alloc!MayLeaveAt
<1>2. (Alloc!BeaconOffExplained)'
  BY DEF OffInv, Alloc!BeaconOffExplained, Alloc!MayLeaveAt, Alloc!Count
<1>3. QED
  BY <1>1, <1>2 DEF OffInv

\* A packet put into the queue, if it may leave.
LEMMA OffEnqueued ==
  ASSUME OffInv, UNCHANGED <<now, sent>>, retry' \in Nat, last' \in Int,
         NEW n, MayLeave(n), beaconQueue' = Enqueued(beaconQueue, n)
  PROVE  OffInv'
<1>1. PICK S : beaconQueue \in Seq(S)
  BY DEF OffInv
<1> DEFINE N == S \cup {n}
<1>2. beaconQueue \in Seq(N) /\ n \in N
  BY <1>1, SeqMonotonic
<1> HIDE DEF N
<1>3. beaconQueue' \in Seq(N)
  BY <1>2, EnqueuedFacts
<1>4. PICK k : IsInserted(beaconQueue, beaconQueue', k) /\ beaconQueue'[k] = n
  BY <1>2, EnqueuedFacts
<1>5. ASSUME NEW i \in 1 .. Len(beaconQueue'), i # k
      PROVE  \E j \in 1 .. Len(beaconQueue) : beaconQueue'[i] = beaconQueue[j]
  <2>1. /\ Len(beaconQueue) \in Nat /\ Len(beaconQueue') = Len(beaconQueue) + 1
        /\ k \in 1 .. Len(beaconQueue')
    BY <1>2, <1>4, LenProperties DEF IsInserted
  <2> DEFINE j == IF i < k THEN i ELSE i - 1
  <2>2. j \in 1 .. Len(beaconQueue) /\ i = IF j < k THEN j ELSE j + 1
    BY <1>5, <2>1
  <2>3. beaconQueue[j] = beaconQueue'[i]
    BY <1>4, <2>2 DEF IsInserted
  <2>4. QED
    BY <2>2, <2>3
<1>6. QED
  BY <1>3, <1>4, <1>5, OffStill

\* Time passes only when nothing in the queue is outdated: what has come to its
\* time is outdated after the tick, all else keeps the time at which it leaves.
LEMMA OffTick ==
  ASSUME BeaconBounds, OffInv, Alloc!Tick
  PROVE  OffInv'
<1>1. /\ now' = now + 1 /\ UNCHANGED <<beaconQueue, retry, last, sent>>
      /\ Purged(beaconQueue, Alloc!Count(now)) = beaconQueue
  BY SameQueue DEF Alloc!Tick, Alloc!JitIdle
<1>2. \A i \in 1 .. Len(beaconQueue) : ~Outdated(beaconQueue[i], Alloc!Count(now))
  BY <1>1, NothingOutdated DEF OffInv
<1>3. /\ now \in Nat /\ Alloc!Count(now) \in Time
      /\ (Alloc!Count(now))' = (Alloc!Count(now) + 1) % W
  <2>1. now \in Nat /\ Alloc!Count(now) \in Time
    BY CountType DEF OffInv
  <2>2. (Alloc!Count(now) + 1) % W = Alloc!Count(now + 1)
    BY <2>1, CountPlus
  <2>3. (Alloc!Count(now))' = Alloc!Count(now + 1)
    BY <1>1 DEF Alloc!Count
  <2>4. QED
    BY <2>1, <2>2, <2>3
<1>4. ASSUME NEW i \in 1 .. Len(beaconQueue)
      PROVE  MayLeave(beaconQueue[i])'
  <2> DEFINE x == beaconQueue[i]
             t == Alloc!Count(now)
             u == (t + 1) % W
  <2> SUFFICES ASSUME x.type = "BEACON"
               PROVE  /\ x.count \in Time
                      /\ Ahead(x.count, u) < MaxAdvance
                           => Alloc!MayLeaveAt(x.id, now + 1 + Ahead(x.count, u))
    BY <1>1, <1>3 DEF MayLeave, Ahead, Alloc!MayLeaveAt, Alloc!Count
  <2>1. x.count \in Time /\ ~Outdated(x, t)
    BY <1>2 DEF OffInv, MayLeave
  <2>2. Alloc!MayLeaveAt(x.id, now + Ahead(x.count, t)) /\ Ahead(x.count, t) < MaxAdvance
    <3>1. Ahead(x.count, t) < MaxAdvance
      BY <1>3, <2>1, AheadValue, Delays DEF Outdated, Time
    <3>2. QED
      BY <3>1 DEF OffInv, MayLeave
  <2>3. /\ t \in 0 .. W - 1 /\ x.count \in 0 .. W - 1 /\ W \in Nat \ {0}
        /\ MaxAdvance \in Nat /\ MaxAdvance < W
    BY <1>3, <2>1, Delays DEF Time
  <2> HIDE DEF t
  <2>4. u = (IF t = W - 1 THEN 0 ELSE t + 1) /\ u \in Time
    BY <2>3 DEF Time
  <2>5. /\ Ahead(x.count, t) = IF t <= x.count THEN x.count - t ELSE x.count - t + W
        /\ Ahead(x.count, u) = IF u <= x.count THEN x.count - u ELSE x.count - u + W
    <3>1. t \in Time
      BY <2>3 DEF Time
    <3> HIDE DEF u
    <3>2. QED
      BY <2>1, <2>4, <3>1, AheadValue
  <2> HIDE DEF u
  <2>6. CASE Ahead(x.count, t) = 0
    <3>1. Ahead(x.count, u) = W - 1
      BY <2>3, <2>4, <2>5, <2>6
    <3>2. ~(Ahead(x.count, u) < MaxAdvance)
      BY <2>3, <3>1
    <3>3. QED
      BY <2>1, <3>2
  <2>7. CASE Ahead(x.count, t) # 0
    <3>1. now + 1 + Ahead(x.count, u) = now + Ahead(x.count, t)
      <4>1. Ahead(x.count, u) = Ahead(x.count, t) - 1
        <5>1. CASE t = W - 1
          <6>1. u = 0 /\ u <= x.count
            BY <5>1, <2>3, <2>4
          <6>2. t > x.count
            BY <5>1, <2>3, <2>5, <2>7
          <6>3. QED
            BY <5>1, <6>1, <6>2, <2>3, <2>5
        <5>2. CASE t # W - 1
          <6>1. u = t + 1
            BY <5>2, <2>4
          <6>2. t <= x.count <=> u <= x.count
            BY <6>1, <2>3, <2>5, <2>7
          <6>3. CASE t <= x.count
            BY <6>1, <6>2, <6>3, <2>3, <2>5
          <6>4. CASE ~(t <= x.count)
            <7>1. /\ Ahead(x.count, t) = x.count - t + W
                  /\ Ahead(x.count, u) = x.count - u + W
              BY <6>2, <6>4, <2>5
            <7>2. /\ x.count \in Int /\ t \in Int /\ W \in Int
              BY <2>3
            <7>3. x.count - u = x.count - t - 1
              BY <7>2, <6>1
            <7>4. x.count - t \in Int
              BY <7>2
            <7>5. QED
              BY <7>1, <7>2, <7>3, <7>4
          <6>5. QED
            BY <6>3, <6>4
        <5>3. QED
          BY <5>1, <5>2
      <4>2. Ahead(x.count, t) \in Int
        BY <2>3, <2>5
      <4>3. QED
        BY <4>1, <4>2, <1>3
    <3>2. QED
      BY <2>1, <2>2, <3>1
  <2>8. QED
    BY <2>6, <2>7
<1>5. (Alloc!BeaconOffExplained)'
  BY <1>1 DEF OffInv, Alloc!BeaconOffExplained, Alloc!MayLeaveAt, Alloc!Count
<1>6. QED
  BY <1>1, <1>3, <1>4, <1>5 DEF OffInv

\* What thread_jit sends is due, so it is not outdated.
LEMMA OffPoll ==
  ASSUME BeaconBounds, OffInv, Alloc!JitPoll
  PROVE  OffInv'
<1> DEFINE t == Alloc!Count(now)
           r == Purged(beaconQueue, t)
           i == PeekIndex(beaconQueue, t)
<1>1. /\ beaconQueue' = IF i = 0 THEN r ELSE RemoveAt(r, i)
      /\ sent' = IF i # 0 /\ r[i].type = "BEACON"
                 THEN sent \cup {[id |-> r[i].id, at |-> now + Ahead(r[i].count, t)]}
                 ELSE sent
      /\ UNCHANGED <<now, retry, last>>
  BY SameQueue DEF Alloc!JitPoll, Alloc!Ahead, Ahead
<1>2. PICK S : beaconQueue \in Seq(S)
  BY DEF OffInv
<1>3. r \in Seq(S) /\ Selects(r, beaconQueue)
  BY <1>2, PurgedFacts
<1>4. i \in 0 .. Len(r) /\ Len(r) \in Nat
  BY <1>2, <1>3, PeekIndexType, LenProperties
<1>5. i # 0 => Due(r[i], t)
  BY PeekedIsDue
<1>6. t \in Time /\ now \in Nat
  BY CountType DEF OffInv
<1> HIDE DEF r, i, t
<1>7. \A k \in 1 .. Len(r) : MayLeave(r[k])
  <2>1. PICK e : Picks(e, r, beaconQueue)
    BY <1>2, <1>3, SelectsFacts
  <2>2. QED
    BY <2>1 DEF Picks, OffInv
<1>8. beaconQueue' \in Seq(S) /\ Selects(beaconQueue', r)
  <2>1. CASE i = 0
    BY <1>1, <1>3, <2>1, SelectsItself
  <2>2. CASE i # 0
    <3>1. i \in 1 .. Len(r) /\ beaconQueue' = RemoveAt(r, i)
      BY <1>1, <1>4, <2>2
    <3>2. beaconQueue' \in Seq(S) /\ IsInserted(beaconQueue', r, i)
      BY <1>3, <3>1, RemoveAtFacts
    <3>3. QED
      BY <1>3, <3>2, SelectsInserted
  <2>3. QED
    BY <2>1, <2>2
<1>9. \A k \in 1 .. Len(beaconQueue') : MayLeave(beaconQueue'[k])
  <2>1. PICK e : Picks(e, beaconQueue', r)
    BY <1>3, <1>8, SelectsFacts
  <2>2. QED
    BY <1>7, <2>1 DEF Picks
<1>10. \A k \in 1 .. Len(beaconQueue') : MayLeave(beaconQueue[k])'
  BY <1>1, <1>9 DEF MayLeave, Alloc!Count, Alloc!MayLeaveAt
<1>11. ASSUME i # 0, r[i].type = "BEACON"
       PROVE  Alloc!MayLeaveAt(r[i].id, now + Ahead(r[i].count, t))
  <2>1. MayLeave(r[i]) /\ r[i].count \in Time
    BY <1>4, <1>7, <1>11 DEF MayLeave
  <2>2. Ahead(r[i].count, t) < MaxAdvance
    <3>1. JitDelay \in Nat /\ JitDelay < MaxAdvance /\ MaxAdvance \in Nat
      <4>1. /\ StartDelay \in Nat /\ MarginDelay \in Nat /\ JitDelay \in Nat
            /\ MaxAdvance \in Nat
        BY DelaysAssumption
      <4>2. StartDelay + MarginDelay + JitDelay < MaxAdvance
        BY Delays DEF Lead
      <4>3. QED
        BY <4>1, <4>2
    <3>2. Ahead(r[i].count, t) \in Int
      BY <1>6, <2>1, AheadValue, Delays DEF Time
    <3>3. Ahead(r[i].count, t) < JitDelay
      BY <1>5, <1>11 DEF Due
    <3>4. QED
      BY <3>1, <3>2, <3>3
  <2>3. QED
    BY <1>11, <2>1, <2>2 DEF MayLeave, t
<1>12. (Alloc!BeaconOffExplained)'
  <2>1. ASSUME NEW b \in sent' PROVE Alloc!MayLeaveAt(b.id, b.at)
    <3>1. CASE b \in sent
      BY <3>1 DEF OffInv, Alloc!BeaconOffExplained
    <3>2. CASE b \notin sent
      <4>1. /\ i # 0 /\ r[i].type = "BEACON"
            /\ b = [id |-> r[i].id, at |-> now + Ahead(r[i].count, t)]
        BY <1>1, <3>2
      <4>2. QED
        BY <1>11, <4>1
    <3>3. QED
      BY <3>1, <3>2
  <2>2. QED
    BY <2>1 DEF Alloc!BeaconOffExplained, Alloc!MayLeaveAt, Alloc!Count
<1>13. QED
  BY <1>1, <1>8, <1>10, <1>12 DEF OffInv

LEMMA OffInit == Alloc!Init => OffInv
<1> SUFFICES ASSUME Alloc!Init PROVE OffInv
  OBVIOUS
<1>1. now = 1 /\ retry = 0 /\ last = 0 /\ beaconQueue = <<>> /\ sent = {}
  BY DEF Alloc!Init
<1>2. beaconQueue \in Seq({}) /\ Len(beaconQueue) = 0
  BY <1>1, EmptySeq
<1>3. QED
  BY <1>1, <1>2 DEF OffInv, Alloc!BeaconOffExplained

\* The GPS time of the next beacon is one.
LEMMA NextBeaconType ==
  ASSUME BeaconBounds, OffInv, NEW ref \in Alloc!Refs
  PROVE  Alloc!NextBeacon(ref) \in Int
<1>1. P \in Nat \ {0} /\ ref \in Int /\ retry \in Nat /\ last \in Int
  BY DEF BeaconBounds, OffInv, Alloc!Refs
<1>2. ref % P \in Int /\ retry * P \in Int
  BY <1>1
<1>3. QED
  BY <1>1, <1>2 DEF Alloc!NextBeacon

\* Only what thread_down puts into the queue, and what thread_jit takes out of it,
\* matters.
LEMMA OffStep ==
  ASSUME BeaconBounds, OffInv, [Alloc!Next]_(Alloc!vars)
  PROVE  OffInv'
<1>1. CASE Alloc!BeaconQueued
  <2>1. PICK ref \in Alloc!Refs :
          LET g == Alloc!NextBeacon(ref)
              n == Alloc!BeaconNode(ref, g)
          IN  /\ Alloc!Verdict(beaconQueue, Alloc!Count(now), n) = "OK"
              /\ beaconQueue' = Alloc!Enqueued(beaconQueue, n)
              /\ last' = g
    BY <1>1 DEF Alloc!BeaconQueued
  <2> DEFINE g == Alloc!NextBeacon(ref)
             n == Alloc!BeaconNode(ref, g)
  <2>2. g \in Int /\ last' \in Int
    BY <2>1, NextBeaconType
  <2>3. MayLeave(n)
    BY <2>1, <2>2, BeaconMayLeave
  <2>4. beaconQueue' = Enqueued(beaconQueue, n)
    BY <2>1, SameQueue
  <2>5. UNCHANGED <<now, sent>> /\ retry' \in Nat
    BY <1>1 DEF Alloc!BeaconQueued
  <2> HIDE DEF n
  <2>6. QED
    BY <2>2, <2>3, <2>4, <2>5, OffEnqueued
<1>2. CASE Alloc!Downlink
  <2>1. PICK off \in Offsets :
          LET n == Alloc!Candidate(beaconQueue, Alloc!Count(now),
                     [id |-> Alloc!NoBeacon, type |-> "A", airtime |-> 1,
                      count |-> Alloc!Count(now + off), saturating |-> saturating])
          IN  beaconQueue' \in {Alloc!Enqueued(beaconQueue, n), beaconQueue}
    BY <1>2 DEF Alloc!Downlink
  <2> DEFINE n == Alloc!Candidate(beaconQueue, Alloc!Count(now),
                    [id |-> Alloc!NoBeacon, type |-> "A", airtime |-> 1,
                     count |-> Alloc!Count(now + off), saturating |-> saturating])
  <2>2. n.type = "A"
    BY DEF Alloc!Candidate
  <2>3. beaconQueue' \in {Enqueued(beaconQueue, n), beaconQueue}
    BY <2>1, SameQueue
  <2> HIDE DEF n
  <2>4. UNCHANGED <<now, sent, retry, last>>
    BY <1>2 DEF Alloc!Downlink
  <2>5. MayLeave(n)
    BY <2>2 DEF MayLeave
  <2>6. CASE beaconQueue' = Enqueued(beaconQueue, n)
    BY <2>4, <2>5, <2>6, OffEnqueued DEF OffInv
  <2>7. CASE beaconQueue' = beaconQueue
    <3>1. PICK S : beaconQueue \in Seq(S)
      BY DEF OffInv
    <3>2. QED
      BY <2>4, <2>7, <3>1, OffStill DEF OffInv
  <2>8. QED
    BY <2>3, <2>6, <2>7
<1>3. CASE UNCHANGED <<now, sent, beaconQueue, last>> /\ retry' \in Nat
  <2>1. PICK S : beaconQueue \in Seq(S)
    BY DEF OffInv
  <2>2. QED
    BY <1>3, <2>1, OffStill DEF OffInv
<1>4. retry \in Nat /\ retry + 1 \in Nat
  BY DEF OffInv
<1>5. QED
  BY <1>1, <1>2, <1>3, <1>4, OffTick, OffPoll
  DEF Alloc!Next, Alloc!LoseGps, Alloc!RegainGps, Alloc!Down, Alloc!Recv,
      Alloc!BeaconRefused, Alloc!BeaconLoopEnds, Alloc!NoDownlink, Alloc!Ended,
      Alloc!vars

\* A beacon leaves at another time than the one in its payload only for one of the
\* three reasons: it was almost a turn in the past or a turn ahead when it was
\* queued, or past, with a sum that wrapped and a difference that was saturated.
THEOREM BeaconsOffExplained ==
  ASSUME BeaconBounds
  PROVE  Alloc!Spec => []Alloc!BeaconOffExplained
<1>1. OffInv => Alloc!BeaconOffExplained
  BY DEF OffInv
<1>2. OffInv /\ [Alloc!Next]_(Alloc!vars) => OffInv'
  BY OffStep
<1>3. QED
  BY OffInit, <1>1, <1>2, PTL DEF Alloc!Spec
=============================================================================
