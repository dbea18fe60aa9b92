--------------------------- MODULE DownlinkProofs ---------------------------
(***************************************************************************)
(* Proofs about Downlink, for every threshold, every set of tokens, every  *)
(* size of the queue and every bound.                                      *)
(*                                                                         *)
(* The invariants build on the types: when thread_down quits (Unanswered), *)
(* what it counts (AcksNested, RequestsNested), and what it owes the       *)
(* server while it handles a PULL_RESP (AnswersDue).                       *)
(***************************************************************************)
EXTENDS Downlink, FiniteSetTheorems, TLAPS

Counts == [pull : Nat, ack : Nat, dgram : Nat, requested : Nat,
           rejected : [Rejections -> Nat]]

\* The places of thread_down while it handles a PULL_RESP.
Handling == {"enqueue", "request", "reject", "answer"}

PullTypes ==
  /\ Pulls \in 0 .. MaxPull /\ tokens \in [1 .. Pulls -> Tokens]
  /\ cnt \in Nat /\ cnt <= Pulls /\ (pc = "sent" => cnt < Pulls)

RespTypes ==
  /\ pc \in {"top", "sent", "recv", "end"} \cup Handling
  /\ resps \in 0 .. MaxResp
  /\ pc \in Handling => resps > 0
  /\ err \in JitErrors \cup EarlyErrors \cup {"NONE", "OK", "GPS_UNLOCKED"}
  /\ pc = "request" => err \in JitErrors \cup {"OK"}
  /\ pc = "reject" => err \in JitErrors

QueueTypes ==
  /\ queue \subseteq 1 .. resps /\ Cardinality(queue) <= Places
  /\ pc = "enqueue" => resps \notin queue

CountTypes ==
  /\ meas \in Counts /\ cp \in Counts
  /\ sum \in [pull : Nat, ack : Nat, dgram : Nat]

FlagTypes ==
  /\ reqAck \in BOOLEAN
  /\ main \in {"wait", "test", "join", "exit"}

Types == PullTypes /\ RespTypes /\ QueueTypes /\ CountTypes /\ FlagTypes

-----------------------------------------------------------------------------
(* Types *)

\* PULL_DATA are numbered from one.
LEMMA PullsOfInterval ==
  ASSUME NEW n \in Nat, DOMAIN tokens = 1 .. n
  PROVE  Pulls = n
BY FS_Interval DEF Pulls

\* One PULL_DATA more has its token, and the tokens before keep theirs.
LEMMA PullsAfter ==
  ASSUME Types, PullData
  PROVE  /\ Pulls' = Pulls + 1
         /\ tokens' \in [1 .. Pulls + 1 -> Tokens]
         /\ \A p \in 1 .. Pulls : tokens'[p] = tokens[p]
<1>1. Pulls \in Nat /\ tokens \in [1 .. Pulls -> Tokens]
  BY DownlinkAssumption DEF Types, PullTypes
<1>2. PICK t \in Tokens : tokens' = [p \in 1 .. Pulls + 1 |->
                                       IF p <= Pulls THEN tokens[p] ELSE t]
  BY DEF PullData
<1>3. \A p \in 1 .. Pulls + 1 : p <= Pulls => p \in 1 .. Pulls
  BY <1>1
<1>4. tokens' \in [1 .. Pulls + 1 -> Tokens]
  BY <1>1, <1>2, <1>3
<1>5. DOMAIN tokens' = 1 .. Pulls + 1 /\ Pulls + 1 \in Nat
  BY <1>1, <1>2
<1>6. Cardinality(1 .. Pulls + 1) = Pulls + 1
  BY <1>1, FS_Interval
<1>7. Pulls' = Pulls + 1
  BY <1>5, <1>6 DEF Pulls
<1>8. QED
  BY <1>1, <1>2, <1>4, <1>7

\* Nothing has been sent, received or counted.
LEMMA TypesInit == Init => Types
<1> SUFFICES ASSUME Init PROVE Types
  OBVIOUS
<1>1. DOMAIN tokens = 1 .. 0
  BY DEF Init
<1>2. Pulls = 0
  BY <1>1, FS_EmptySet DEF Pulls, Init
<1>3. tokens \in [1 .. 0 -> Tokens]
  BY <1>1 DEF Init
<1>4. NoCounts \in Counts
  BY DEF NoCounts, Counts
<1>5. Cardinality(queue) = 0
  BY FS_EmptySet DEF Init
<1>6. PullTypes
  BY <1>2, <1>3, DownlinkAssumption DEF Init, PullTypes
<1>7. RespTypes
  BY DownlinkAssumption DEF Init, RespTypes, Handling
<1>8. QueueTypes
  BY <1>5, DownlinkAssumption DEF Init, QueueTypes
<1>9. CountTypes
  BY <1>4 DEF Init, CountTypes
<1>10. FlagTypes
  BY DEF Init, FlagTypes
<1>11. QED
  BY <1>6, <1>7, <1>8, <1>9, <1>10 DEF Types

\* Each step keeps each part of the types.
LEMMA PullTypesStep ==
  ASSUME Types, [Next]_vars
  PROVE  PullTypes'
<1>1. CASE UNCHANGED <<tokens, cnt>> /\ pc' # "sent"
  BY <1>1 DEF Types, PullTypes, Pulls
<1>2. CASE PullData
  <2>1. Pulls' = Pulls + 1 /\ tokens' \in [1 .. Pulls + 1 -> Tokens]
    BY <1>2, PullsAfter
  <2>2. Pulls < MaxPull /\ cnt' = cnt
    BY <1>2 DEF PullData
  <2>3. QED
    BY <2>1, <2>2, DownlinkAssumption DEF Types, PullTypes
<1>3. CASE CountPull
  BY <1>3 DEF CountPull, Types, PullTypes, Pulls
<1>4. ASSUME NEW p \in DOMAIN tokens, PullAck(p)
      PROVE  PullTypes'
  BY <1>4 DEF PullAck, Types, PullTypes, Pulls
<1>5. CASE UNCHANGED <<pc, tokens, cnt>>
  BY <1>5 DEF Types, PullTypes, Pulls
<1>6. QED
  BY <1>1, <1>2, <1>3, <1>4, <1>5
  DEF Next, Down, Answering, Main, DownEnds, AutoQuit, NextPull, Receive,
      RespMalformed, RespUnlocked, RespUnfit, RespFit, Enqueue, CountRequest,
      CountReject, Answer, Emit, Signal, UpEnds, MainCopy, MainTest, MainExit,
      Ended, downVars, vars

\* The PULL_RESP in thread_down and what has become of it.
LEMMA RespTypesStep ==
  ASSUME Types, [Next]_vars
  PROVE  RespTypes'
<1> USE DEF Handling
<1>1. CASE UNCHANGED <<resps, err>> /\ pc' \in {"top", "sent", "recv", "end"}
  BY <1>1 DEF Types, RespTypes
<1>2. CASE RespMalformed \/ RespUnlocked \/ RespUnfit \/ RespFit
  <2>1. pc = "recv" /\ resps' \in 0 .. MaxResp /\ resps' > 0
    BY <1>2, DownlinkAssumption
    DEF Types, RespTypes, RespMalformed, RespUnlocked, RespUnfit, RespFit, Receive
  <2>2. /\ pc' \in {"recv", "answer", "enqueue"}
        /\ err' \in EarlyErrors \cup {"NONE", "GPS_UNLOCKED"}
    BY <1>2, <2>1 DEF RespMalformed, RespUnlocked, RespUnfit, RespFit
  <2>3. QED
    BY <2>1, <2>2 DEF RespTypes
<1>3. CASE Enqueue
  BY <1>3 DEF Types, RespTypes, Enqueue, Rejections, JitErrors
<1>4. CASE CountRequest \/ CountReject \/ Answer
  BY <1>4 DEF Types, RespTypes, CountRequest, CountReject, Answer
<1>5. CASE UNCHANGED <<pc, resps, err>>
  BY <1>5 DEF Types, RespTypes
<1>6. QED
  BY <1>1, <1>2, <1>3, <1>4, <1>5
  DEF Next, Down, Answering, Main, DownEnds, AutoQuit, PullData, CountPull,
      NextPull, PullAck, Emit, Signal, UpEnds, MainCopy, MainTest, MainExit,
      Ended, downVars, vars

\* The just-in-time queue holds PULL_RESPs that have been received.
LEMMA QueueTypesStep ==
  ASSUME Types, [Next]_vars
  PROVE  QueueTypes'
<1>1. resps \in Nat /\ queue \subseteq 1 .. resps /\ IsFiniteSet(queue)
      /\ Cardinality(queue) \in Nat
  <2>1. resps \in Nat /\ queue \subseteq 1 .. resps
    BY DownlinkAssumption DEF Types, RespTypes, QueueTypes
  <2>2. IsFiniteSet(1 .. resps)
    BY <2>1, FS_Interval
  <2>3. QED
    BY <2>1, <2>2, FS_Subset, FS_CardinalityType
<1>2. CASE UNCHANGED <<queue, resps>> /\ pc' # "enqueue"
  BY <1>2 DEF Types, QueueTypes
<1>3. CASE RespMalformed \/ RespUnlocked \/ RespUnfit \/ RespFit
  BY <1>1, <1>3
  DEF Types, QueueTypes, RespMalformed, RespUnlocked, RespUnfit, RespFit, Receive
<1>4. CASE Enqueue
  <2>1. CASE queue' = queue
    BY <1>4, <2>1 DEF Types, QueueTypes, Enqueue
  <2>2. CASE queue' # queue
    <3>1. queue' = queue \cup {resps} /\ Cardinality(queue) # Places
      BY <1>4, <2>2 DEF Enqueue
    <3>2. Cardinality(queue') <= Cardinality(queue) + 1
      BY <1>1, <3>1, FS_AddElement
    <3>3. Cardinality(queue') \in Nat
      BY <1>1, <3>1, FS_AddElement, FS_CardinalityType
    <3>4. resps > 0
      BY <1>4 DEF Types, RespTypes, Enqueue, Handling
    <3>5. QED
      BY <1>1, <1>4, <3>1, <3>2, <3>3, <3>4, DownlinkAssumption
      DEF Types, QueueTypes, Enqueue
  <2>3. QED
    BY <2>1, <2>2
<1>5. CASE Emit
  <2>1. PICK i \in queue : queue' = queue \ {i}
    BY <1>5 DEF Emit
  <2>2. Cardinality(queue') = Cardinality(queue) - 1
    BY <1>1, <2>1, FS_RemoveElement
  <2>3. QED
    BY <1>1, <1>5, <2>1, <2>2, DownlinkAssumption
    DEF Types, QueueTypes, Emit, downVars
<1>6. CASE UNCHANGED <<pc, queue, resps>>
  BY <1>6 DEF Types, QueueTypes
<1>7. QED
  BY <1>2, <1>3, <1>4, <1>5, <1>6
  DEF Next, Down, Answering, Main, DownEnds, AutoQuit, PullData, CountPull,
      NextPull, PullAck, CountRequest, CountReject, Answer, Signal, UpEnds,
      MainCopy, MainTest, MainExit, Ended, downVars, vars

\* The counter of a rejection exists.
LEMMA TextOfRejection ==
  \A e \in JitErrors : Text(e) \in Rejections
BY DEF JitErrors, Rejections, Text

\* The counters, their copy and their sums.
LEMMA CountTypesStep ==
  ASSUME Types, [Next]_vars
  PROVE  CountTypes'
<1> USE DEF Counts
<1>1. CASE CountPull \/ RespUnfit \/ RespFit \/ CountRequest
  BY <1>1 DEF Types, CountTypes, CountPull, RespUnfit, RespFit, CountRequest, mainVars
<1>2. ASSUME NEW p \in DOMAIN tokens, PullAck(p)
      PROVE  CountTypes'
  BY <1>2 DEF Types, CountTypes, PullAck, mainVars
<1>3. CASE CountReject
  <2>1. Text(err) \in Rejections
    BY <1>3, TextOfRejection DEF CountReject, Types, RespTypes
  <2>2. QED
    BY <1>3, <2>1 DEF Types, CountTypes, CountReject, mainVars
<1>4. CASE MainCopy
  BY <1>4 DEF Types, CountTypes, MainCopy, NoCounts
<1>5. CASE UNCHANGED <<meas, cp, sum>>
  BY <1>5 DEF Types, CountTypes
<1>6. QED
  BY <1>1, <1>2, <1>3, <1>4, <1>5
  DEF Next, Down, Answering, Main, DownEnds, AutoQuit, PullData, NextPull,
      RespMalformed, RespUnlocked, Receive, Enqueue, Answer, Emit, Signal,
      UpEnds, MainTest, MainExit, Ended, mainVars, vars

\* req_ack, and the place of main.
LEMMA FlagTypesStep ==
  ASSUME Types, [Next]_vars
  PROVE  FlagTypes'
BY DEF Types, FlagTypes, Next, Down, Answering, Main, DownEnds, AutoQuit, PullData,
       CountPull, NextPull, PullAck, RespMalformed, RespUnlocked, RespUnfit, RespFit,
       Receive, Enqueue, CountRequest, CountReject, Answer, Emit, Signal, UpEnds,
       MainCopy, MainTest, MainExit, Ended, mainVars, downVars, vars

\* The types are invariant: what thread_down sends, receives and counts.
THEOREM TypesInvariant == Spec => []Types
<1>1. Types /\ [Next]_vars => Types'
  BY PullTypesStep, RespTypesStep, QueueTypesStep, CountTypesStep, FlagTypesStep
  DEF Types
<1>2. QED
  BY TypesInit, <1>1, PTL DEF Spec

\* thread_down, its counter, the queue's bound and main are of their types.
THEOREM TypeCorrect == Spec => []TypeOK
<1>1. Types => TypeOK
  BY DownlinkAssumption
  DEF Types, TypeOK, PullTypes, RespTypes, QueueTypes, FlagTypes, Handling
<1>2. QED
  BY TypesInvariant, <1>1, PTL

-----------------------------------------------------------------------------
(* Auto-quit *)

\* None of the last n PULL_DATA has been acknowledged in time.
LastUnanswered(n) == n <= Pulls /\ \A p \in Pulls - n + 1 .. Pulls : p \notin inTime

\* autoquit_cnt counts PULL_DATA not acknowledged, and one more is on its way
\* before it is counted; an acknowledgement resets it until the next PULL_DATA.
Unanswered ==
  /\ LastUnanswered(IF pc = "sent" THEN cnt + 1 ELSE cnt)
  /\ reqAck => cnt = 0
  /\ inTime \subseteq 1 .. Pulls
  /\ autoquit => LastUnanswered(Threshold) /\ pc = "end"

\* autoquit_cnt counts the PULL_DATA since the last one that was answered.
LEMMA UnansweredStep ==
  ASSUME Types, Unanswered, [Next]_vars
  PROVE  Unanswered'
<1>1. Pulls \in Nat /\ cnt \in Nat /\ Threshold \in Nat
      /\ tokens \in [1 .. Pulls -> Tokens]
  BY DownlinkAssumption DEF Types, PullTypes
<1>2. CASE PullData
  <2>1. Pulls' = Pulls + 1
    BY <1>2, PullsAfter
  <2>2. pc = "top" /\ pc' = "sent" /\ UNCHANGED <<cnt, reqAck, inTime, autoquit>>
    BY <1>2 DEF PullData
  <2>3. QED
    BY <1>1, <2>1, <2>2 DEF Unanswered, LastUnanswered
<1>3. CASE CountPull
  BY <1>1, <1>3 DEF CountPull, Unanswered, LastUnanswered, Pulls
<1>4. ASSUME NEW p \in DOMAIN tokens, PullAck(p)
      PROVE  Unanswered'
  <2>1. Pulls' = Pulls /\ pc' = pc /\ pc = "recv" /\ autoquit' = autoquit
    BY <1>4 DEF PullAck, Pulls
  <2>2. p \in 1 .. Pulls
    BY <1>1, <1>4
  <2>3. CASE tokens[p] = tokens[Pulls] /\ ~reqAck
    <3>1. cnt' = 0 /\ inTime' \subseteq inTime \cup {p}
      BY <1>4, <2>3 DEF PullAck
    <3>2. QED
      BY <1>1, <2>1, <2>2, <3>1 DEF Unanswered, LastUnanswered
  <2>4. CASE ~(tokens[p] = tokens[Pulls] /\ ~reqAck)
    <3>1. UNCHANGED <<reqAck, cnt>>
      BY <1>4, <2>4 DEF PullAck
    <3>2. CASE p = Pulls
      <4>1. cnt = 0 /\ inTime' = inTime \cup {p}
        BY <1>4, <2>4, <3>2 DEF PullAck, Unanswered
      <4>2. QED
        BY <1>1, <2>1, <2>2, <3>1, <4>1 DEF Unanswered, LastUnanswered
    <3>3. CASE p # Pulls
      <4>1. inTime' = inTime
        BY <1>4, <3>3 DEF PullAck
      <4>2. QED
        BY <2>1, <3>1, <4>1 DEF Unanswered, LastUnanswered
    <3>4. QED
      BY <3>2, <3>3
  <2>5. QED
    BY <2>3, <2>4
<1>5. CASE AutoQuit
  BY <1>1, <1>5 DEF AutoQuit, Unanswered, LastUnanswered, Pulls
<1>6. CASE MainExit
  BY <1>1, <1>6 DEF MainExit, Unanswered, LastUnanswered, Pulls
<1>7. CASE /\ UNCHANGED <<tokens, cnt, reqAck, inTime, autoquit>>
           /\ pc' = pc \/ (pc # "sent" /\ pc' # "sent" /\ pc # "end")
  BY <1>1, <1>7 DEF Unanswered, LastUnanswered, Pulls
<1>8. QED
  BY <1>2, <1>3, <1>4, <1>5, <1>6, <1>7
  DEF Next, Down, Answering, Main, DownEnds, NextPull, Receive, RespMalformed,
      RespUnlocked, RespUnfit, RespFit, Enqueue, CountRequest, CountReject, Answer,
      Emit, Signal, UpEnds, MainCopy, MainTest, Ended, downVars, vars

\* The forwarder quits by itself only after Threshold PULL_DATA in a row that
\* were not acknowledged in time.
THEOREM QuitsOnlyUnanswered == Spec => []QuitOnlyWhenUnanswered
<1>1. Init => Unanswered
  <2> SUFFICES ASSUME Init PROVE Unanswered
    OBVIOUS
  <2>1. Pulls = 0
    BY FS_EmptySet DEF Pulls, Init
  <2>2. QED
    BY <2>1 DEF Init, Unanswered, LastUnanswered
<1>2. Types /\ Unanswered => QuitOnlyWhenUnanswered
  BY DownlinkAssumption
  DEF Types, PullTypes, Unanswered, LastUnanswered, QuitOnlyWhenUnanswered
<1>3. Types /\ Unanswered /\ [Next]_vars => Unanswered'
  BY UnansweredStep
<1>4. QED
  BY TypesInvariant, <1>1, <1>2, <1>3, PTL DEF Spec

-----------------------------------------------------------------------------
(* What is counted *)

\* Acknowledgements counted are fewer than PULL_DATA counted while the last
\* PULL_DATA is not acknowledged.
AcksNested ==
  LET acks == sum.ack + meas.ack
      pulls == sum.pull + meas.pull
  IN  /\ acks <= pulls
      /\ (~reqAck /\ pc \in {"recv"} \cup Handling) => acks < pulls

\* A PULL_ACK is counted for a PULL_DATA that has been counted.
LEMMA AcksNestedStep ==
  ASSUME Types, AcksNested, [Next]_vars
  PROVE  AcksNested'
<1> USE DEF Counts
<1>1. CASE CountPull
  BY <1>1 DEF CountPull, AcksNested, Types, CountTypes, mainVars
<1>2. ASSUME NEW p \in DOMAIN tokens, PullAck(p)
      PROVE  AcksNested'
  BY <1>2 DEF PullAck, AcksNested, Types, CountTypes, mainVars
<1>3. CASE RespUnfit \/ RespFit \/ CountRequest \/ CountReject
  <2>1. /\ UNCHANGED <<reqAck, sum>>
        /\ meas'.pull = meas.pull /\ meas'.ack = meas.ack
    BY <1>3 DEF RespUnfit, RespFit, Receive, CountRequest, CountReject, mainVars,
                Types, CountTypes
  <2>2. pc \in {"recv"} \cup Handling
    BY <1>3 DEF RespUnfit, RespFit, Receive, CountRequest, CountReject, Handling
  <2>3. QED
    BY <2>1, <2>2 DEF AcksNested
<1>4. CASE MainCopy
  <2>1. /\ sum'.pull = sum.pull + meas.pull /\ sum'.ack = sum.ack + meas.ack
        /\ meas'.pull = 0 /\ meas'.ack = 0
        /\ UNCHANGED <<pc, reqAck>>
    BY <1>4 DEF MainCopy, NoCounts, downVars
  <2>2. QED
    BY <2>1 DEF AcksNested, Types, CountTypes
<1>5. CASE /\ UNCHANGED <<reqAck, sum, meas>>
           /\ pc' = pc \/ pc' \notin {"recv"} \cup Handling
              \/ pc \in {"recv"} \cup Handling
  BY <1>5 DEF AcksNested
<1>6. QED
  BY <1>1, <1>2, <1>3, <1>4, <1>5
  DEF Next, Down, Answering, Main, DownEnds, AutoQuit, PullData, NextPull,
      RespMalformed, RespUnlocked, Receive, Enqueue, Answer, Emit, Signal,
      UpEnds, MainTest, MainExit, Ended, mainVars, downVars, vars, Handling

\* Over all reports, no more PULL_DATA are acknowledged than sent.
THEOREM AcksNotExcessive == Spec => []NoExcessAck
<1>1. Init => AcksNested
  BY DEF Init, AcksNested, NoCounts, Handling
<1>2. AcksNested => NoExcessAck
  BY DEF AcksNested, NoExcessAck
<1>3. Types /\ AcksNested /\ [Next]_vars => AcksNested'
  BY AcksNestedStep
<1>4. QED
  BY TypesInvariant, <1>1, <1>2, <1>3, PTL DEF Spec

\* A request counted is rejected or not before the next one, and received before.
RequestsNested ==
  LET rejected == TotalRejected(cp) + TotalRejected(meas)
      requested == cp.requested + meas.requested
      received == sum.dgram + meas.dgram
  IN  /\ rejected <= requested /\ (pc = "reject" => rejected < requested)
      /\ requested <= received
      /\ pc \in {"enqueue", "request"} => requested < received

\* Copying the counters of rejections moves their total, a rejection adds one.
LEMMA RejectionTotals ==
  ASSUME Types
  PROVE  /\ TotalRejected(cp) \in Nat /\ TotalRejected(meas) \in Nat
         /\ MainCopy => /\ TotalRejected(cp') = TotalRejected(cp) + TotalRejected(meas)
                        /\ TotalRejected(meas') = 0
         /\ CountReject => TotalRejected(meas') = TotalRejected(meas) + 1
<1> DEFINE names == {"COLLISION_PACKET", "COLLISION_BEACON", "TOO_LATE", "TOO_EARLY"}
<1>1. Rejections = names
  BY DEF Rejections, JitErrors
<1>2. /\ cp.rejected \in [names -> Nat] /\ meas.rejected \in [names -> Nat]
      /\ meas \in Counts
  BY <1>1 DEF Types, CountTypes, Counts
<1>3. TotalRejected(cp) \in Nat /\ TotalRejected(meas) \in Nat
  BY <1>2 DEF TotalRejected
<1>4. ASSUME MainCopy
      PROVE  /\ TotalRejected(cp') = TotalRejected(cp) + TotalRejected(meas)
             /\ TotalRejected(meas') = 0
  <2>1. /\ cp'.rejected = [e \in names |-> cp.rejected[e] + meas.rejected[e]]
        /\ meas'.rejected = [e \in names |-> 0]
    BY <1>1, <1>4 DEF MainCopy, NoCounts
  <2>2. QED
    BY <1>2, <2>1 DEF TotalRejected
<1>5. ASSUME CountReject
      PROVE  TotalRejected(meas') = TotalRejected(meas) + 1
  <2>1. Text(err) \in names
    BY <1>1, <1>5, TextOfRejection DEF CountReject, Types, RespTypes
  <2>2. meas'.rejected = [meas.rejected EXCEPT ![Text(err)] = @ + 1]
    BY <1>2, <1>5 DEF CountReject, Counts
  <2>3. QED
    BY <1>2, <2>1, <2>2 DEF TotalRejected
<1>6. QED
  BY <1>3, <1>4, <1>5

\* A rejection is counted for a request, and a request for a datagram.
LEMMA RequestsNestedStep ==
  ASSUME Types, RequestsNested, ReportNested, [Next]_vars
  PROVE  RequestsNested' /\ ReportNested'
<1>1. /\ TotalRejected(cp) \in Nat /\ TotalRejected(meas) \in Nat
      /\ cp.requested \in Nat /\ meas.requested \in Nat
      /\ sum.dgram \in Nat /\ meas.dgram \in Nat
  BY RejectionTotals DEF Types, CountTypes, Counts
<1>2. ASSUME UNCHANGED <<cp, sum>>
      PROVE  ReportNested'
  BY <1>2 DEF ReportNested, TotalRejected
<1>3. CASE RespUnfit \/ RespFit \/ CountRequest
  <2>1. /\ UNCHANGED <<cp, sum>> /\ TotalRejected(meas') = TotalRejected(meas)
        /\ pc # "reject"
    BY <1>3 DEF RespUnfit, RespFit, Receive, CountRequest, mainVars, TotalRejected,
                Types, CountTypes, Counts
  <2>2. CASE RespUnfit \/ RespFit
    <3>1. /\ meas'.dgram = meas.dgram + 1 /\ meas'.requested = meas.requested
          /\ pc' # "reject"
      BY <2>2 DEF RespUnfit, RespFit, Types, CountTypes, Counts
    <3>2. QED
      BY <1>1, <1>2, <2>1, <3>1 DEF RequestsNested, TotalRejected
  <2>3. CASE CountRequest
    <3>1. /\ meas'.dgram = meas.dgram /\ meas'.requested = meas.requested + 1
          /\ pc = "request" /\ pc' \notin {"enqueue", "request"}
      BY <2>3 DEF CountRequest, Types, CountTypes, Counts
    <3>2. QED
      BY <1>1, <1>2, <2>1, <3>1 DEF RequestsNested, TotalRejected
  <2>4. QED
    BY <1>3, <2>2, <2>3
<1>4. CASE CountReject
  <2>1. /\ UNCHANGED <<cp, sum>>
        /\ meas'.dgram = meas.dgram /\ meas'.requested = meas.requested
        /\ pc = "reject" /\ pc' = "answer"
    BY <1>4 DEF CountReject, mainVars, Types, CountTypes, Counts
  <2>2. TotalRejected(meas') = TotalRejected(meas) + 1
    BY <1>4, RejectionTotals
  <2>3. TotalRejected(cp') = TotalRejected(cp)
    BY <2>1
  <2>4. QED
    BY <1>1, <1>2, <2>1, <2>2, <2>3 DEF RequestsNested
<1>5. CASE CountPull \/ \E p \in DOMAIN tokens : PullAck(p)
  <2>1. /\ UNCHANGED <<cp, sum>> /\ TotalRejected(meas') = TotalRejected(meas)
        /\ meas'.dgram = meas.dgram /\ meas'.requested = meas.requested
        /\ pc' \notin Handling
    BY <1>5 DEF CountPull, PullAck, mainVars, TotalRejected, Handling, Types,
                CountTypes, Counts
  <2>2. QED
    BY <1>1, <1>2, <2>1 DEF RequestsNested, Handling, TotalRejected
<1>6. CASE MainCopy
  <2>1. /\ TotalRejected(cp') = TotalRejected(cp) + TotalRejected(meas)
        /\ TotalRejected(meas') = 0
    BY <1>6, RejectionTotals
  <2>2. /\ cp'.requested = cp.requested + meas.requested /\ meas'.requested = 0
        /\ sum'.dgram = sum.dgram + meas.dgram /\ meas'.dgram = 0 /\ pc' = pc
    BY <1>6 DEF MainCopy, NoCounts, downVars
  <2>3. QED
    BY <1>1, <2>1, <2>2 DEF RequestsNested, ReportNested
<1>7. CASE /\ UNCHANGED <<cp, sum, meas>>
           /\ pc' = pc \/ pc' \notin Handling \/ pc' = "answer"
              \/ (pc' = "request" /\ pc = "enqueue")
  BY <1>1, <1>2, <1>7 DEF RequestsNested, Handling, TotalRejected
<1>8. QED
  BY <1>3, <1>4, <1>5, <1>6, <1>7
  DEF Next, Down, Answering, Main, DownEnds, AutoQuit, PullData, NextPull,
      RespMalformed, RespUnlocked, Receive, Enqueue, Answer, Emit, Signal,
      UpEnds, MainTest, MainExit, Ended, mainVars, downVars, vars, Handling

\* In every report the rejected are among the requested, and these among the
\* PULL_RESPs received, wherever main copies the counters.
THEOREM ReportsNested == Spec => []ReportNested
<1>1. Init => RequestsNested /\ ReportNested
  BY DEF Init, RequestsNested, ReportNested, NoCounts, TotalRejected, Rejections,
         JitErrors
<1>2. Types /\ RequestsNested /\ ReportNested /\ [Next]_vars
        => RequestsNested' /\ ReportNested'
  BY RequestsNestedStep
<1>3. QED
  BY TypesInvariant, <1>1, <1>2, PTL DEF Spec

-----------------------------------------------------------------------------
(* What the server is told *)

\* Only the PULL_RESP being handled is decided and not answered.
AnswersDue ==
  /\ pc \in {"top", "sent", "recv", "enqueue"} => err = "NONE"
  /\ pc \in Handling \ {"enqueue"} => err # "NONE"
  /\ \A a \in out : a.resp \in 1 .. resps
  /\ pc \in Handling => \A a \in out : a.resp # resps

\* A PULL_RESP is answered once, after it has been decided.
LEMMA AnswersDueStep ==
  ASSUME Types, AnswersDue, [Next]_vars
  PROVE  AnswersDue'
<1>1. resps \in Nat
  BY DownlinkAssumption DEF Types, RespTypes
<1>2. CASE RespMalformed \/ RespUnlocked \/ RespUnfit \/ RespFit
  <2>1. /\ resps' = resps + 1 /\ out' = out
        /\ \/ pc' \in {"recv", "enqueue"} /\ err' = "NONE"
           \/ pc' = "answer" /\ err' # "NONE"
    BY <1>2 DEF RespMalformed, RespUnlocked, RespUnfit, RespFit, Receive, EarlyErrors
  <2>2. QED
    BY <1>1, <2>1 DEF AnswersDue, Handling
<1>3. CASE Enqueue
  <2>1. /\ resps' = resps /\ out' = out /\ pc = "enqueue" /\ pc' = "request"
        /\ err' # "NONE"
    BY <1>3 DEF Enqueue, Rejections, JitErrors
  <2>2. QED
    BY <2>1 DEF AnswersDue, Handling
<1>4. CASE CountRequest \/ CountReject
  BY <1>4 DEF CountRequest, CountReject, AnswersDue, Handling
<1>5. CASE Answer
  <2>1. /\ resps' = resps /\ pc' = "recv" /\ err' = "NONE"
        /\ \A a \in out' : a \in out \/ a.resp = resps
        /\ resps \in 1 .. resps
    BY <1>1, <1>5 DEF Answer, Types, RespTypes, Handling
  <2>2. QED
    BY <2>1 DEF AnswersDue, Handling
<1>6. CASE /\ UNCHANGED <<resps, err, out>>
           /\ \/ pc' = pc \/ pc' = "end"
              \/ pc \in {"top", "sent", "recv"} /\ pc' \in {"top", "sent", "recv"}
  BY <1>6 DEF AnswersDue, Handling
<1>7. QED
  BY <1>2, <1>3, <1>4, <1>5, <1>6
  DEF Next, Down, Answering, Main, DownEnds, AutoQuit, PullData, CountPull,
      NextPull, PullAck, Emit, Signal, UpEnds, MainCopy, MainTest, MainExit,
      Ended, downVars, vars

\* The values of Fate and Told.
LEMMA FateValues ==
  ASSUME NEW i \in 1 .. MaxResp
  PROVE  /\ Fate[i] = IF i > resps THEN "none"
                      ELSE IF \/ [resp |-> i, error |-> "OK"] \in out
                              \/ i = resps /\ err = "OK" THEN "queued"
                      ELSE IF \/ \E a \in out : a.resp = i
                              \/ i = resps /\ err # "NONE" THEN "refused"
                      ELSE "received"
         /\ Told[i] = IF [resp |-> i, error |-> "OK"] \in out THEN "OK"
                      ELSE IF \E a \in out : a.resp = i THEN "error"
                      ELSE "nothing"
BY DEF Fate, Told, Accepted

\* What has become of each PULL_RESP after a step, as the abstract service sees it.
LEMMA FateValuesNext ==
  ASSUME NEW i \in 1 .. MaxResp
  PROVE  /\ Fate'[i] = IF i > resps' THEN "none"
                       ELSE IF \/ [resp |-> i, error |-> "OK"] \in out'
                               \/ i = resps' /\ err' = "OK" THEN "queued"
                       ELSE IF \/ \E a \in out' : a.resp = i
                               \/ i = resps' /\ err' # "NONE" THEN "refused"
                       ELSE "received"
         /\ Told'[i] = IF [resp |-> i, error |-> "OK"] \in out' THEN "OK"
                       ELSE IF \E a \in out' : a.resp = i THEN "error"
                       ELSE "nothing"
BY DEF Fate, Told, Accepted

\* What decides the fate of PULL_RESP j does not change.
LEMMA FateKept ==
  ASSUME NEW j \in 1 .. MaxResp,
         j > resps' <=> j > resps,
         [resp |-> j, error |-> "OK"] \in out' <=> [resp |-> j, error |-> "OK"] \in out,
         (\E a \in out' : a.resp = j) <=> (\E a \in out : a.resp = j),
         (j = resps' /\ err' = "OK") <=> (j = resps /\ err = "OK"),
         (j = resps' /\ err' # "NONE") <=> (j = resps /\ err # "NONE")
  PROVE  Fate'[j] = Fate[j] /\ Told'[j] = Told[j]
<1>1. Fate'[j] = Fate[j]
  BY FateValues, FateValuesNext
<1>2. Told'[j] = Told[j]
  BY FateValues, FateValuesNext
<1>3. QED
  BY <1>1, <1>2

\* The two mapped variables are functions of the PULL_RESPs.
LEMMA FateFunctions ==
  /\ Fate = [i \in 1 .. MaxResp |-> Fate[i]] /\ Fate' = [i \in 1 .. MaxResp |-> Fate'[i]]
  /\ Told = [i \in 1 .. MaxResp |-> Told[i]] /\ Told' = [i \in 1 .. MaxResp |-> Told'[i]]
BY DEF Fate, Told

\* A PULL_RESP is received, and perhaps refused at once.
LEMMA RespStep ==
  ASSUME Types, AnswersDue, RespMalformed \/ RespUnlocked \/ RespUnfit \/ RespFit
  PROVE  Service!Next
<1> DEFINE i == resps + 1
<1>1. resps \in Nat /\ MaxResp \in Nat /\ i \in 1 .. MaxResp
  BY DownlinkAssumption DEF Types, RespTypes, RespMalformed, RespUnlocked,
                            RespUnfit, RespFit, Receive
<1>2. /\ resps' = i /\ out' = out /\ err' # "OK" /\ err = "NONE"
  BY DEF RespMalformed, RespUnlocked, RespUnfit, RespFit, Receive, EarlyErrors,
         AnswersDue
<1>3. \A a \in out : a.resp \in 1 .. resps
  BY DEF AnswersDue
<1>4. [resp |-> i, error |-> "OK"] \notin out /\ \A a \in out : a.resp # i
  <2>1. \A a \in out : a.resp # i
    BY <1>1, <1>3
  <2>2. [resp |-> i, error |-> "OK"].resp = i
    OBVIOUS
  <2>3. QED
    BY <2>1, <2>2
<1>5. Fate[i] = "none" /\ \A j \in 1 .. MaxResp : j < i => Fate[j] # "none"
  <2>1. i > resps /\ \A j \in 1 .. MaxResp : j < i => ~(j > resps)
    BY <1>1
  <2>2. QED
    BY <1>1, <2>1, FateValues
<1>6. \A j \in 1 .. MaxResp : Fate[j] \in {"queued", "refused"} => Told[j] # "nothing"
  BY <1>1, <1>2, FateValues
<1>7. \A j \in 1 .. MaxResp : /\ Told'[j] = Told[j]
                              /\ j # i => Fate'[j] = Fate[j]
  <2> TAKE j \in 1 .. MaxResp
  <2>1. Told'[j] = Told[j]
    BY <1>2 DEF Told
  <2>2. ASSUME j # i PROVE Fate'[j] = Fate[j]
    <3>1. j > resps' <=> j > resps
      BY <1>1, <1>2, <2>2
    <3>2. ~(j = resps /\ err = "OK") /\ ~(j = resps /\ err # "NONE") /\ j # resps'
      BY <1>2, <2>2
    <3>3. QED
      BY <1>2, <3>1, <3>2, FateKept
  <2>3. QED
    BY <2>1, <2>2
<1>8. Fate'[i] = IF err' = "NONE" THEN "received" ELSE "refused"
  BY <1>1, <1>2, <1>4, FateValuesNext
<1>9. UNCHANGED Told /\ Fate' = [Fate EXCEPT ![i] = Fate'[i]]
  BY <1>1, <1>7, FateFunctions
<1>10. Service!Receive(i) \/ Service!ReceiveRefused(i)
  BY <1>1, <1>5, <1>6, <1>8, <1>9
  DEF Service!Receive, Service!ReceiveRefused, Service!Resp
<1>11. QED
  BY <1>1, <1>10 DEF Service!Next, Service!Resp

\* jit_enqueue decides.
LEMMA EnqueueStep ==
  ASSUME Types, AnswersDue, Enqueue
  PROVE  Service!Next
<1>1. resps \in 1 .. MaxResp /\ MaxResp \in Nat
  BY DownlinkAssumption DEF Types, RespTypes, Enqueue, Handling
<1>2. /\ resps' = resps /\ out' = out /\ err' # "NONE" /\ err = "NONE"
      /\ \A a \in out : a.resp # resps
  BY DEF Enqueue, Rejections, JitErrors, AnswersDue, Handling
<1>3. [resp |-> resps, error |-> "OK"] \notin out
  BY <1>2
<1>4. Fate[resps] = "received" /\ Fate'[resps] \in {"queued", "refused"}
  BY <1>1, <1>2, <1>3, FateValues, FateValuesNext
<1>5. \A j \in 1 .. MaxResp : /\ Told'[j] = Told[j]
                              /\ j # resps => Fate'[j] = Fate[j]
                              /\ resps < j => Fate[j] = "none"
  <2> TAKE j \in 1 .. MaxResp
  <2>1. Told'[j] = Told[j]
    BY <1>2 DEF Told
  <2>2. j # resps => Fate'[j] = Fate[j]
    BY <1>2, FateKept
  <2>3. resps < j => Fate[j] = "none"
    BY <1>1, FateValues
  <2>4. QED
    BY <2>1, <2>2, <2>3
<1>6. UNCHANGED Told /\ Fate' = [Fate EXCEPT ![resps] = Fate'[resps]]
  BY <1>1, <1>5, FateFunctions
<1>7. Service!Decide(resps)
  BY <1>1, <1>4, <1>5, <1>6 DEF Service!Decide, Service!Resp
<1>8. QED
  BY <1>1, <1>7 DEF Service!Next, Service!Resp

\* The TX_ACK tells what was decided.
LEMMA AnswerStep ==
  ASSUME Types, AnswersDue, Answer
  PROVE  Service!Next
<1> DEFINE ack == [resp |-> resps, error |-> Text(err)]
<1>1. resps \in 1 .. MaxResp /\ MaxResp \in Nat
  BY DownlinkAssumption DEF Types, RespTypes, Answer, Handling
<1>2. /\ resps' = resps /\ out' = out \cup {ack} /\ err # "NONE" /\ err' = "NONE"
      /\ \A a \in out : a.resp # resps
  BY DEF Answer, AnswersDue, Handling
<1>3. Text(err) = "OK" <=> err = "OK"
  BY DEF Text
<1>4. /\ [resp |-> resps, error |-> "OK"] \notin out
      /\ [resp |-> resps, error |-> "OK"] \in out' <=> err = "OK"
  <2>1. [resp |-> resps, error |-> "OK"] \notin out
    BY <1>2
  <2>2. [resp |-> resps, error |-> "OK"] = ack <=> err = "OK"
    BY <1>3
  <2>3. QED
    BY <1>2, <2>1, <2>2
<1>5. ack \in out' /\ ack.resp = resps
  BY <1>2
<1>6. /\ Fate[resps] = IF err = "OK" THEN "queued" ELSE "refused"
      /\ Fate'[resps] = Fate[resps]
      /\ Told[resps] = "nothing"
      /\ Told'[resps] = IF err = "OK" THEN "OK" ELSE "error"
  BY <1>1, <1>2, <1>4, <1>5, FateValues, FateValuesNext
<1>7. \A j \in 1 .. MaxResp : j # resps => Told'[j] = Told[j] /\ Fate'[j] = Fate[j]
  <2> SUFFICES ASSUME NEW j \in 1 .. MaxResp, j # resps
               PROVE  Told'[j] = Told[j] /\ Fate'[j] = Fate[j]
    OBVIOUS
  <2>1. \A a \in out' : a.resp = j => a \in out
    BY <1>2
  <2>2. [resp |-> j, error |-> "OK"] \in out' <=> [resp |-> j, error |-> "OK"] \in out
    BY <1>2
  <2>3. QED
    BY <1>2, <2>1, <2>2, FateValues, FateValuesNext
<1>8. UNCHANGED Fate /\ Told' = [Told EXCEPT ![resps] = Told'[resps]]
  BY <1>1, <1>6, <1>7, FateFunctions
<1>9. Service!Tell(resps)
  BY <1>1, <1>6, <1>8 DEF Service!Tell, Service!Resp
<1>10. QED
  BY <1>1, <1>9 DEF Service!Next, Service!Resp

\* thread_down implements the service: PULL_RESPs are settled one by one, and
\* each is told at most once what became of it.
THEOREM Implements == Spec => ServiceSpec
<1>1. Init => AnswersDue
  BY DEF Init, AnswersDue, Handling
<1>2. Init => Service!Init
  BY DEF Init, Service!Init, Service!Resp, Fate, Told, Accepted
<1>3. Types /\ AnswersDue /\ [Next]_vars => AnswersDue'
  BY AnswersDueStep
<1>4. Types /\ AnswersDue /\ [Next]_vars => [Service!Next]_<<Fate, Told>>
  <2> SUFFICES ASSUME Types, AnswersDue, [Next]_vars
               PROVE  [Service!Next]_<<Fate, Told>>
    OBVIOUS
  <2>1. CASE RespMalformed \/ RespUnlocked \/ RespUnfit \/ RespFit
    BY <2>1, RespStep
  <2>2. CASE Enqueue
    BY <2>2, EnqueueStep
  <2>3. CASE Answer
    BY <2>3, AnswerStep
  <2>4. CASE UNCHANGED <<resps, err, out>>
    BY <2>4 DEF Fate, Told, Accepted
  <2>5. QED
    BY <2>1, <2>2, <2>3, <2>4
    DEF Next, Down, Answering, Main, DownEnds, AutoQuit, PullData, CountPull,
        NextPull, PullAck, CountRequest, CountReject, Emit, Signal, UpEnds,
        MainCopy, MainTest, MainExit, Ended, downVars, vars
<1>5. QED
  BY TypesInvariant, <1>1, <1>2, <1>3, <1>4, PTL DEF Spec, ServiceSpec, Service!Spec
=============================================================================
