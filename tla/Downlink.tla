------------------------------ MODULE Downlink ------------------------------
(***************************************************************************)
(* The downlink protocol of the packet forwarder: thread_down asks the     *)
(* server for downlinks with PULL_DATA, quits when too many of them are    *)
(* not acknowledged, queues the packets of PULL_RESPs and answers these    *)
(* with TX_ACK; main collects the counters and ends the process; the       *)
(* server and the network may lose, delay and repeat everything.  The      *)
(* just-in-time queue is the set of PULL_RESPs whose packets are in it:    *)
(* its criteria are the subject of JitQueue, and any of them may apply.    *)
(***************************************************************************)
EXTENDS Naturals, FiniteSets

CONSTANTS
  Threshold,  \* autoquit_threshold, 0 for none
  Tokens,     \* the tokens rand() may give
  Places,     \* JIT_QUEUE_MAX
  MaxPull,    \* bound on the number of PULL_DATA
  MaxAck,     \* bound on the number of PULL_ACKs received
  MaxResp     \* bound on the number of PULL_RESPs received

ASSUME DownlinkAssumption ==
  /\ {Threshold, MaxPull, MaxAck, MaxResp} \subseteq Nat
  /\ Places \in Nat \ {0} /\ Tokens # {}

VARIABLES
  pc,        \* thread_down
  tokens,    \* the token of each PULL_DATA; the last is token_h, token_l
  reqAck,    \* req_ack
  cnt,       \* autoquit_cnt
  acksIn,    \* PULL_ACKs received so far
  resps,     \* PULL_RESPs received so far; the last is in buff_down
  err,       \* jit_result
  queue,     \* PULL_RESPs whose packet is in jit_queue
  meas,      \* meas_dw_..., meas_nb_tx_requested and meas_nb_tx_rejected_...
  cp,        \* main's copies of them
  main,      \* main: "wait", "test", "join" or "exit"
  exitSig,   \* exit_sig or quit_sig
  upEnded,   \* thread_up has ended
  out,       \* the TX_ACKs sent
  sum,       \* history: what the reports add up to
  inTime,    \* history: PULL_DATA whose own PULL_ACK came while they were the last
  autoquit   \* history: thread_down has quit by itself

downVars == <<pc, tokens, reqAck, cnt, acksIn, resps, err, out, inTime, autoquit>>
mainVars == <<cp, main, sum>>
vars == <<downVars, mainVars, queue, meas, exitSig, upEnded>>

Pulls == Cardinality(DOMAIN tokens)

\* What jit_enqueue may answer, what is refused before, and the rejections
\* counted.
JitErrors == {"FULL", "COLLISION_PACKET", "COLLISION_BEACON", "TOO_LATE", "TOO_EARLY"}
EarlyErrors == {"TX_FREQ", "TX_POWER"}
Rejections == JitErrors \ {"FULL"}

\* The error in a TX_ACK, and the counter of a rejection.
Text(e) == IF e = "FULL" THEN "COLLISION_PACKET" ELSE e

NoCounts == [pull |-> 0, ack |-> 0, dgram |-> 0, requested |-> 0,
             rejected |-> [e \in Rejections |-> 0]]

TotalRejected(c) == c.rejected["COLLISION_PACKET"] + c.rejected["COLLISION_BEACON"]
                    + c.rejected["TOO_LATE"] + c.rejected["TOO_EARLY"]
-----------------------------------------------------------------------------
(* thread_down *)

\* exit_sig or quit_sig is seen only here: not while PULL_RESPs come in.
DownEnds ==
  /\ pc = "top" /\ exitSig
  /\ pc' = "end"
  /\ UNCHANGED <<tokens, reqAck, cnt, acksIn, resps, err, out, inTime, autoquit,
                 mainVars, queue, meas, exitSig, upEnded>>

\* Defect: the thread ends without setting exit_sig.
AutoQuitAlone ==
  /\ pc = "top" /\ ~exitSig
  /\ Threshold > 0 /\ cnt >= Threshold
  /\ autoquit' = TRUE
  /\ pc' = "end"
  /\ UNCHANGED <<tokens, reqAck, cnt, acksIn, resps, err, out, inTime, mainVars,
                 queue, meas, exitSig, upEnded>>

AutoQuit ==
  /\ pc = "top" /\ ~exitSig
  /\ Threshold > 0 /\ cnt >= Threshold
  /\ exitSig' = TRUE /\ autoquit' = TRUE
  /\ pc' = "end"
  /\ UNCHANGED <<tokens, reqAck, cnt, acksIn, resps, err, out, inTime, mainVars,
                 queue, meas, upEnded>>

\* PULL_DATA is sent...
PullData ==
  /\ pc = "top" /\ ~exitSig
  /\ Threshold = 0 \/ cnt < Threshold
  /\ Pulls < MaxPull
  /\ \E t \in Tokens : tokens' = [p \in 1 .. Pulls + 1 |->
                                    IF p <= Pulls THEN tokens[p] ELSE t]
  /\ pc' = "sent"
  /\ UNCHANGED <<reqAck, cnt, acksIn, resps, err, out, inTime, autoquit, mainVars,
                 queue, meas, exitSig, upEnded>>

\* ... and counted.
CountPull ==
  /\ pc = "sent"
  /\ meas' = [meas EXCEPT !.pull = @ + 1]
  /\ reqAck' = FALSE
  /\ cnt' = cnt + 1
  /\ pc' = "recv"
  /\ UNCHANGED <<tokens, acksIn, resps, err, out, inTime, autoquit, mainVars,
                 queue, exitSig, upEnded>>

\* keepalive_time is over.
NextPull ==
  /\ pc = "recv"
  /\ pc' = "top"
  /\ UNCHANGED <<tokens, reqAck, cnt, acksIn, resps, err, out, inTime, autoquit,
                 mainVars, queue, meas, exitSig, upEnded>>

\* Defect: duplicates are counted.
PullAckTwice(p) ==
  /\ pc = "recv" /\ acksIn < MaxAck
  /\ acksIn' = acksIn + 1
  /\ inTime' = IF p = Pulls THEN inTime \cup {p} ELSE inTime
  /\ IF tokens[p] = tokens[Pulls]
     THEN /\ reqAck' = TRUE
          /\ cnt' = 0
          /\ meas' = [meas EXCEPT !.ack = @ + 1]
     ELSE UNCHANGED <<reqAck, cnt, meas>>
  /\ UNCHANGED <<pc, tokens, resps, err, out, autoquit, mainVars, queue, exitSig,
                 upEnded>>

\* Defect: autoquit_cnt is not reset.
PullAckNoReset(p) ==
  /\ pc = "recv" /\ acksIn < MaxAck
  /\ acksIn' = acksIn + 1
  /\ inTime' = IF p = Pulls THEN inTime \cup {p} ELSE inTime
  /\ IF tokens[p] = tokens[Pulls] /\ ~reqAck
     THEN /\ reqAck' = TRUE
          /\ meas' = [meas EXCEPT !.ack = @ + 1]
     ELSE UNCHANGED <<reqAck, meas>>
  /\ UNCHANGED <<pc, tokens, cnt, resps, err, out, autoquit, mainVars, queue,
                 exitSig, upEnded>>

\* The PULL_ACK of PULL_DATA p: perhaps late, perhaps not for the first time.
PullAck(p) ==
  /\ pc = "recv" /\ acksIn < MaxAck
  /\ acksIn' = acksIn + 1
  /\ inTime' = IF p = Pulls THEN inTime \cup {p} ELSE inTime
  /\ IF tokens[p] = tokens[Pulls] /\ ~reqAck
     THEN /\ reqAck' = TRUE
          /\ cnt' = 0
          /\ meas' = [meas EXCEPT !.ack = @ + 1]
     ELSE UNCHANGED <<reqAck, cnt, meas>>
  /\ UNCHANGED <<pc, tokens, resps, err, out, autoquit, mainVars, queue, exitSig,
                 upEnded>>

Receive == pc = "recv" /\ resps < MaxResp /\ resps' = resps + 1

\* A PULL_RESP without all that a request must have: each continue that sends no
\* TX_ACK, wherever the parsing has got to.  What is missing is data, which is left
\* out; that the conversion of the GPS time fails, too, needs a reference that is
\* not set, and a valid one is.
RespMalformed ==
  /\ Receive
  /\ err' = "NONE"
  /\ UNCHANGED <<pc, tokens, reqAck, cnt, acksIn, out, inTime, autoquit, mainVars,
                 queue, meas, exitSig, upEnded>>

\* One for a GPS time, without a reference to convert it.
RespUnlocked ==
  /\ Receive
  /\ err' = "GPS_UNLOCKED"
  /\ pc' = "answer"
  /\ UNCHANGED <<tokens, reqAck, cnt, acksIn, out, inTime, autoquit, mainVars,
                 queue, meas, exitSig, upEnded>>

\* One with a frequency or a power the gateway has not.
RespUnfit ==
  /\ Receive
  /\ meas' = [meas EXCEPT !.dgram = @ + 1]
  /\ err' \in EarlyErrors
  /\ pc' = "answer"
  /\ UNCHANGED <<tokens, reqAck, cnt, acksIn, out, inTime, autoquit, mainVars,
                 queue, exitSig, upEnded>>

RespFit ==
  /\ Receive
  /\ meas' = [meas EXCEPT !.dgram = @ + 1]
  /\ err' = "NONE"
  /\ pc' = "enqueue"
  /\ UNCHANGED <<tokens, reqAck, cnt, acksIn, out, inTime, autoquit, mainVars,
                 queue, exitSig, upEnded>>

\* Defect: a full queue is waited for.
EnqueueWaits ==
  /\ pc = "enqueue"
  /\ Cardinality(queue) < Places
  /\ err' \in Rejections \cup {"OK"}
  /\ queue' = IF err' = "OK" THEN queue \cup {resps} ELSE queue
  /\ pc' = "request"
  /\ UNCHANGED <<tokens, reqAck, cnt, acksIn, resps, out, inTime, autoquit,
                 mainVars, meas, exitSig, upEnded>>

\* jit_enqueue
Enqueue ==
  /\ pc = "enqueue"
  /\ err' \in IF Cardinality(queue) = Places THEN {"FULL"}
              ELSE Rejections \cup {"OK"}
  /\ queue' = IF err' = "OK" THEN queue \cup {resps} ELSE queue
  /\ pc' = "request"
  /\ UNCHANGED <<tokens, reqAck, cnt, acksIn, resps, out, inTime, autoquit,
                 mainVars, meas, exitSig, upEnded>>

\* Defect: the request is counted when it was accepted only.
CountRequestAccepted ==
  /\ pc = "request"
  /\ meas' = [meas EXCEPT !.requested = IF err = "OK" THEN @ + 1 ELSE @]
  /\ pc' = IF err = "OK" THEN "answer" ELSE "reject"
  /\ UNCHANGED <<tokens, reqAck, cnt, acksIn, resps, err, out, inTime, autoquit,
                 mainVars, queue, exitSig, upEnded>>

CountRequest ==
  /\ pc = "request"
  /\ meas' = [meas EXCEPT !.requested = @ + 1]
  /\ pc' = IF err = "OK" THEN "answer" ELSE "reject"
  /\ UNCHANGED <<tokens, reqAck, cnt, acksIn, resps, err, out, inTime, autoquit,
                 mainVars, queue, exitSig, upEnded>>

CountReject ==
  /\ pc = "reject"
  /\ meas' = [meas EXCEPT !.rejected[Text(err)] = @ + 1]
  /\ pc' = "answer"
  /\ UNCHANGED <<tokens, reqAck, cnt, acksIn, resps, err, out, inTime, autoquit,
                 mainVars, queue, exitSig, upEnded>>

\* Defect: a full queue is no error.
AnswerFullAsOk ==
  /\ pc = "answer"
  /\ out' = out \cup {[resp |-> resps, error |-> IF err = "FULL" THEN "OK" ELSE Text(err)]}
  /\ pc' = "recv" /\ err' = "NONE"
  /\ UNCHANGED <<tokens, reqAck, cnt, acksIn, resps, inTime, autoquit,
                 mainVars, queue, meas, exitSig, upEnded>>

\* The TX_ACK is sent.
Answer ==
  /\ pc = "answer"
  /\ out' = out \cup {[resp |-> resps, error |-> Text(err)]}
  /\ pc' = "recv" /\ err' = "NONE"
  /\ UNCHANGED <<tokens, reqAck, cnt, acksIn, resps, inTime, autoquit,
                 mainVars, queue, meas, exitSig, upEnded>>

-----------------------------------------------------------------------------
(* The other threads *)

\* thread_jit takes a packet out.
Emit ==
  /\ main # "exit"
  /\ \E i \in queue : queue' = queue \ {i}
  /\ UNCHANGED <<downVars, mainVars, meas, exitSig, upEnded>>

Signal ==
  /\ ~exitSig
  /\ exitSig' = TRUE
  /\ UNCHANGED <<downVars, mainVars, queue, meas, upEnded>>

UpEnds ==
  /\ exitSig /\ ~upEnded
  /\ upEnded' = TRUE
  /\ UNCHANGED <<downVars, mainVars, queue, meas, exitSig>>

\* main copies and resets the counters: some per interval, some added up.
MainCopy ==
  /\ main = "wait"
  /\ cp' = [pull |-> meas.pull, ack |-> meas.ack, dgram |-> meas.dgram,
            requested |-> cp.requested + meas.requested,
            rejected |-> [e \in Rejections |-> cp.rejected[e] + meas.rejected[e]]]
  /\ meas' = NoCounts
  /\ sum' = [pull |-> sum.pull + meas.pull, ack |-> sum.ack + meas.ack,
             dgram |-> sum.dgram + meas.dgram]
  /\ main' = "test"
  /\ UNCHANGED <<downVars, queue, exitSig, upEnded>>

MainTest ==
  /\ main = "test"
  /\ main' = IF exitSig THEN "join" ELSE "wait"
  /\ UNCHANGED <<downVars, cp, sum, queue, meas, exitSig, upEnded>>

\* thread_up is joined, thread_down cancelled wherever it is, the process ends.
MainExit ==
  /\ main = "join" /\ upEnded
  /\ main' = "exit"
  /\ pc' = "end"
  /\ UNCHANGED <<tokens, reqAck, cnt, acksIn, resps, err, out, inTime, autoquit,
                 cp, sum, queue, meas, exitSig, upEnded>>
-----------------------------------------------------------------------------
Init ==
  /\ pc = "top" /\ tokens = [p \in {} |-> 0] /\ reqAck = FALSE /\ cnt = 0
  /\ acksIn = 0 /\ resps = 0 /\ err = "NONE" /\ queue = {}
  /\ meas = NoCounts /\ cp = NoCounts /\ main = "wait"
  /\ exitSig = FALSE /\ upEnded = FALSE /\ out = {}
  /\ sum = [pull |-> 0, ack |-> 0, dgram |-> 0]
  /\ inTime = {} /\ autoquit = FALSE

Answering == Enqueue \/ CountRequest \/ CountReject \/ Answer

Down == \/ DownEnds \/ AutoQuit \/ PullData \/ CountPull \/ NextPull
        \/ \E p \in DOMAIN tokens : PullAck(p)
        \/ RespMalformed \/ RespUnlocked \/ RespUnfit \/ RespFit
        \/ Answering

Main == MainCopy \/ MainTest \/ MainExit

\* The process has ended.
Ended == main = "exit" /\ UNCHANGED vars

Next == Down \/ Main \/ Emit \/ Signal \/ UpEnds \/ Ended

Spec == Init /\ [][Next]_vars

\* Every thread runs on, and each keepalive interval ends.
FairSpec == /\ Spec
            /\ WF_vars(DownEnds \/ AutoQuit \/ PullData \/ CountPull \/ Answering)
            /\ WF_vars(NextPull)
            /\ WF_vars(Main) /\ WF_vars(UpEnds)
-----------------------------------------------------------------------------
TypeOK ==
  /\ pc \in {"top", "sent", "recv", "enqueue", "request", "reject", "answer", "end"}
  /\ cnt \in 0 .. MaxPull /\ reqAck \in BOOLEAN
  /\ err \in JitErrors \cup EarlyErrors \cup {"NONE", "OK", "GPS_UNLOCKED"}
  /\ queue \subseteq 1 .. resps /\ Cardinality(queue) <= Places
  /\ main \in {"wait", "test", "join", "exit"}

\* Auto-quit (autoquit_cnt, thread_down): the forwarder quits by itself only
\* when the last Threshold PULL_DATA have not been acknowledged in time.
QuitOnlyWhenUnanswered ==
  autoquit => /\ Pulls >= Threshold
              /\ \A p \in Pulls - Threshold + 1 .. Pulls : p \notin inTime

\* In the reports added up, no more PULL_DATA are acknowledged than are sent:
\* what req_ack is for.
NoExcessAck == sum.ack + meas.ack <= sum.pull + meas.pull

\* In every report the requests rejected are among those requested, and these
\* among the PULL_RESPs received, though each is counted in a section of its own.
ReportNested ==
  /\ TotalRejected(cp) <= cp.requested
  /\ cp.requested <= sum.dgram

\* What the server sees of a PULL_RESP: whether its packet was queued, and the
\* TX_ACK for it.
Accepted(i) == \/ [resp |-> i, error |-> "OK"] \in out
               \/ i = resps /\ err = "OK"

Fate == [i \in 1 .. MaxResp |->
           IF i > resps THEN "none"
           ELSE IF Accepted(i) THEN "queued"
           ELSE IF \/ \E a \in out : a.resp = i
                   \/ i = resps /\ err # "NONE" THEN "refused"
           ELSE "received"]

Told == [i \in 1 .. MaxResp |->
           IF [resp |-> i, error |-> "OK"] \in out THEN "OK"
           ELSE IF \E a \in out : a.resp = i THEN "error"
           ELSE "nothing"]

Service == INSTANCE DownlinkService WITH fate <- Fate, told <- Told

\* thread_down implements what the forwarder promises: each PULL_RESP is handled
\* in its turn and its TX_ACK tells, once, what became of it.
ServiceSpec == Service!Spec

\* Every PULL_RESP that is to be queued or refused is answered, whatever its fate,
\* unless the process ends.
ResponseAnswered ==
  \A i \in 1 .. MaxResp :
    (resps = i /\ pc \in {"enqueue", "request", "reject", "answer"})
      ~> ((\E a \in out : a.resp = i) \/ main = "exit")

\* A forwarder whose server stops acknowledging PULL_DATA ends.
SilentServerQuits == Threshold > 0 => <>(main = "exit")
=============================================================================
