------------------------------- MODULE Uplink -------------------------------
(***************************************************************************)
(* Upstream traffic of the packet forwarder: thread_up fetches packets     *)
(* from the concentrator, counts and filters them, sends those it forwards *)
(* in one PUSH_DATA datagram with the status report, if one is ready, and  *)
(* waits for the PUSH_ACK; main copies and resets the counters after every *)
(* interval and writes the next report.                                    *)
(*                                                                         *)
(* The counters meas_* are protected by mx_meas_up, which thread_up holds  *)
(* while it waits for the acknowledgement; the report and report_ready by  *)
(* mx_stat_rep, except that thread_up reads report_ready without it.       *)
(*                                                                         *)
(* Packets are numbered in the order in which they are fetched, datagrams  *)
(* and reports in the order in which they are made.                        *)
(*                                                                         *)
(* External: the concentrator, the interval of main, which is longer than  *)
(* two turns of thread_up's loop, and the network, which may lose          *)
(* datagrams and deliver acknowledgements late or several times.           *)
(***************************************************************************)
EXTENDS Integers, Sequences, SequencesExt, FiniteSets

CONSTANTS
  Forwarded,   \* what the flags fwd_valid_pkt, fwd_error_pkt, fwd_nocrc_pkt let pass
  Statuses,    \* the statuses packets may have: "ok", "bad", "nocrc", "other"
  NbPktMax,    \* NB_PKT_MAX
  Tokens,      \* tokens of datagrams
  NoToken,     \* no datagram is being composed
  MaxPkt,      \* bound of the model: packets heard by the concentrator
  MaxDgram,    \* bound: thread_up stops fetching after so many datagrams
  MaxReport    \* bound: reports made by main

ASSUME UplinkAssumption ==
  /\ Forwarded \subseteq {"ok", "bad", "nocrc"}
  /\ Statuses \subseteq {"ok", "bad", "nocrc", "other"}
  /\ NoToken \notin Tokens
  /\ {NbPktMax, MaxPkt, MaxDgram, MaxReport} \subseteq Nat

VARIABLES
  upc,          \* place of thread_up
  status,       \* status[k]: the status of the k-th packet fetched
  todo,         \* the packets of rxpkt that have not been counted yet
  sendReport,   \* send_report
  dgram,        \* the datagram composed: its token, packets and report (0: none)
  tries,        \* attempts left to receive the acknowledgement
  meas,         \* the counters meas_nb_rx_* and meas_up_*
  reportReady, statusReport,   \* report_ready and the number of the report
  mpc, cp,      \* place of main, and its copies cp_* of the counters
  quit,         \* exit_sig or quit_sig
  cycles,       \* how often thread_up has begun a turn in this interval, up to 2
  dgrams,       \* history: the datagrams sent
  atServer,     \* history: which of them have reached the server
  reports       \* history: the counters in each report

thread_up == <<upc, status, todo, sendReport, dgram, tries, dgrams, atServer>>
main == <<mpc, cp, reports>>
vars == <<thread_up, main, meas, reportReady, statusReport, quit, cycles>>

Counters == {"rcv", "ok", "bad", "nocrc", "fwd", "dgram", "ack"}

Zero == [c \in Counters |-> 0]

NoDgram == [token |-> NoToken, rxpk |-> <<>>, stat |-> 0]

\* mx_meas_up is held by thread_up from the counting of a datagram until it
\* has stopped waiting for the acknowledgement.
Locked == upc = "ack"

Count(m, cs) == [c \in Counters |-> m[c] + (IF c \in cs THEN 1 ELSE 0)]

-----------------------------------------------------------------------------
(* thread_up *)

\* The loop's condition; then lgw_receive returns up to NbPktMax packets.
UpFetch ==
  /\ upc = "fetch"
  /\ ~quit
  /\ Len(dgrams) < MaxDgram
  /\ \E n \in 0 .. NbPktMax :
       /\ Len(status) + n <= MaxPkt
       /\ \E s \in [1 .. n -> Statuses] :
            /\ status' = status \o s
            /\ todo' = [i \in 1 .. n |-> Len(status) + i]
  /\ cycles' = IF cycles < 2 THEN cycles + 1 ELSE 2
  /\ upc' = "flag"
  /\ UNCHANGED <<sendReport, dgram, tries, dgrams, atServer, main, meas,
                 reportReady, statusReport, quit>>

\* Defect: a report waits for the next packet.
UpFlagPacketsOnly ==
  /\ upc = "flag"
  /\ sendReport' = reportReady
  /\ IF todo = <<>>
     THEN upc' = "fetch" /\ UNCHANGED dgram
     ELSE /\ upc' = "filter"
          /\ \E t \in Tokens : dgram' = [token |-> t, rxpk |-> <<>>, stat |-> 0]
  /\ UNCHANGED <<status, todo, tries, dgrams, atServer, main, meas,
                 reportReady, statusReport, quit, cycles>>

\* report_ready is read without the mutex.  With nothing to send the thread
\* sleeps and fetches again.
UpFlag ==
  /\ upc = "flag"
  /\ sendReport' = reportReady
  /\ IF todo = <<>> /\ ~reportReady
     THEN upc' = "fetch" /\ UNCHANGED dgram
     ELSE /\ upc' = "filter"
          /\ \E t \in Tokens : dgram' = [token |-> t, rxpk |-> <<>>, stat |-> 0]
  /\ UNCHANGED <<status, todo, tries, dgrams, atServer, main, meas,
                 reportReady, statusReport, quit, cycles>>

\* What is counted for a packet in its critical section.  A packet of unknown
\* status is counted as received, and skipped.
Counted(s) ==
  {"rcv"} \cup ({s} \cap Counters) \cup (IF s \in Forwarded THEN {"fwd"} ELSE {})

\* Defect: a packet that is filtered out ends the loop.
UpFilterBreaks ==
  /\ upc = "filter"
  /\ todo # <<>>
  /\ meas' = Count(meas, Counted(status[Head(todo)]))
  /\ dgram' = IF status[Head(todo)] \in Forwarded
              THEN [dgram EXCEPT !.rxpk = Append(@, Head(todo))]
              ELSE dgram
  /\ todo' = IF status[Head(todo)] \in Forwarded THEN Tail(todo) ELSE <<>>
  /\ UNCHANGED <<upc, status, sendReport, tries, dgrams, atServer, main,
                 reportReady, statusReport, quit, cycles>>

\* One packet is counted and, unless it is filtered out, serialised.
UpFilter ==
  /\ upc = "filter"
  /\ todo # <<>>
  /\ meas' = Count(meas, Counted(status[Head(todo)]))
  /\ dgram' = IF status[Head(todo)] \in Forwarded
              THEN [dgram EXCEPT !.rxpk = Append(@, Head(todo))]
              ELSE dgram
  /\ todo' = Tail(todo)
  /\ UNCHANGED <<upc, status, sendReport, tries, dgrams, atServer, main,
                 reportReady, statusReport, quit, cycles>>

\* Everything has been filtered out and there is no report: nothing is sent.
UpSkip ==
  /\ upc = "filter"
  /\ todo = <<>> /\ dgram.rxpk = <<>> /\ ~sendReport
  /\ upc' = "fetch" /\ dgram' = NoDgram
  /\ UNCHANGED <<status, todo, sendReport, tries, dgrams, atServer, main,
                 meas, reportReady, statusReport, quit, cycles>>

\* Defect: the report is left ready.
UpReportLeft ==
  /\ upc = "filter"
  /\ todo = <<>> /\ (dgram.rxpk # <<>> \/ sendReport)
  /\ dgram' = [dgram EXCEPT !.stat = IF sendReport THEN statusReport ELSE 0]
  /\ upc' = "send"
  /\ UNCHANGED <<status, todo, sendReport, tries, dgrams, atServer, main,
                 meas, reportReady, statusReport, quit, cycles>>

\* The report is copied into the datagram and the flag cleared, in one
\* critical section of mx_stat_rep.
UpReport ==
  /\ upc = "filter"
  /\ todo = <<>> /\ (dgram.rxpk # <<>> \/ sendReport)
  /\ IF sendReport
     THEN /\ dgram' = [dgram EXCEPT !.stat = statusReport]
          /\ reportReady' = FALSE
     ELSE UNCHANGED <<dgram, reportReady>>
  /\ upc' = "send"
  /\ UNCHANGED <<status, todo, sendReport, tries, dgrams, atServer, main,
                 meas, statusReport, quit, cycles>>

\* send; the datagram may be lost.
UpSend ==
  /\ upc = "send"
  /\ dgrams' = Append(dgrams, dgram)
  /\ atServer' \in {atServer, atServer \cup {Len(dgrams) + 1}}
  /\ upc' = "count"
  /\ UNCHANGED <<status, todo, sendReport, dgram, tries, main, meas,
                 reportReady, statusReport, quit, cycles>>

\* mx_meas_up is locked and the datagram counted.
UpCount ==
  /\ upc = "count"
  /\ meas' = Count(meas, {"dgram"})
  /\ tries' = 2
  /\ upc' = "ack"
  /\ UNCHANGED <<status, todo, sendReport, dgram, dgrams, atServer, main,
                 reportReady, statusReport, quit, cycles>>

\* Defect: the token of the acknowledgement is not looked at.
UpAckAnyToken ==
  /\ upc = "ack"
  /\ atServer # {}
  /\ meas' = Count(meas, {"ack"})
  /\ upc' = "fetch" /\ tries' = 0 /\ dgram' = NoDgram
  /\ UNCHANGED <<status, todo, sendReport, dgrams, atServer, main,
                 reportReady, statusReport, quit, cycles>>

\* A PUSH_ACK with the token of this datagram is received: of any datagram with
\* this token that has reached the server, at any time.  The mutex is unlocked.
UpAck ==
  /\ upc = "ack"
  /\ \E k \in atServer : dgrams[k].token = dgram.token
  /\ meas' = Count(meas, {"ack"})
  /\ upc' = "fetch" /\ tries' = 0 /\ dgram' = NoDgram
  /\ UNCHANGED <<status, todo, sendReport, dgrams, atServer, main,
                 reportReady, statusReport, quit, cycles>>

\* Nothing is received in time, or another datagram; the second time, or
\* after an error of the socket, the thread gives up.
UpNoAck ==
  /\ upc = "ack"
  /\ \E left \in {0, tries - 1} :
       IF left = 0
       THEN upc' = "fetch" /\ tries' = 0 /\ dgram' = NoDgram
       ELSE tries' = left /\ UNCHANGED <<upc, dgram>>
  /\ UNCHANGED <<status, todo, sendReport, dgrams, atServer, main, meas,
                 reportReady, statusReport, quit, cycles>>

\* The loop ends; so does the thread.
UpQuit ==
  /\ upc = "fetch"
  /\ quit
  /\ upc' = "done"
  /\ UNCHANGED <<status, todo, sendReport, dgram, tries, dgrams, atServer, main,
                 meas, reportReady, statusReport, quit, cycles>>

-----------------------------------------------------------------------------
(* main *)

\* Defect: the counters are copied while thread_up waits for a PUSH_ACK.
MainCopyUnlocked ==
  /\ mpc = "wait"
  /\ cycles = 2 \/ upc = "done"
  /\ Len(reports) < MaxReport
  /\ cp' = meas
  /\ meas' = Zero
  /\ mpc' = "report"
  /\ UNCHANGED <<thread_up, reports, reportReady, statusReport, quit, cycles>>

\* The interval is over; the counters are copied and reset under mx_meas_up.
MainCopy ==
  /\ mpc = "wait"
  /\ cycles = 2 \/ upc = "done"
  /\ Len(reports) < MaxReport
  /\ ~Locked
  /\ cp' = meas
  /\ meas' = Zero
  /\ mpc' = "report"
  /\ UNCHANGED <<thread_up, reports, reportReady, statusReport, quit, cycles>>

\* Defect: the counters are reset only when the report is written.
MainReportResets ==
  /\ mpc = "report"
  /\ reports' = Append(reports, cp)
  /\ meas' = Zero
  /\ statusReport' = Len(reports) + 1
  /\ reportReady' = TRUE
  /\ mpc' = IF quit THEN "join" ELSE "wait"
  /\ cycles' = 0
  /\ UNCHANGED <<thread_up, cp, quit>>

\* The report is written and report_ready set, under mx_stat_rep; then the
\* loop's condition is tested.
MainReport ==
  /\ mpc = "report"
  /\ reports' = Append(reports, cp)
  /\ statusReport' = Len(reports) + 1
  /\ reportReady' = TRUE
  /\ mpc' = IF quit THEN "join" ELSE "wait"
  /\ cycles' = 0
  /\ UNCHANGED <<thread_up, cp, meas, quit>>

\* main has joined thread_up and ends the process.
MainJoin ==
  /\ mpc = "join"
  /\ upc = "done"
  /\ mpc' = "done"
  /\ UNCHANGED <<thread_up, cp, reports, meas, reportReady, statusReport, quit,
                 cycles>>

\* A signal, or thread_down's autoquit.
Signal ==
  /\ ~quit
  /\ quit' = TRUE
  /\ UNCHANGED <<thread_up, main, meas, reportReady, statusReport, cycles>>

\* The process has ended.
Ended ==
  /\ mpc = "done" \/ (Len(reports) = MaxReport /\ upc = "done")
  /\ UNCHANGED vars

Init ==
  /\ upc = "fetch" /\ status = <<>> /\ todo = <<>>
  /\ sendReport = FALSE /\ dgram = NoDgram /\ tries = 0
  /\ dgrams = <<>> /\ atServer = {}
  /\ mpc = "wait" /\ cp = Zero /\ reports = <<>>
  /\ meas = Zero
  /\ reportReady = FALSE /\ statusReport = 0
  /\ quit = FALSE
  /\ cycles = 0

UpNext ==
  \/ UpFetch \/ UpFlag \/ UpFilter \/ UpSkip \/ UpReport \/ UpSend \/ UpCount
  \/ UpAck \/ UpNoAck \/ UpQuit

Next == UpNext \/ MainCopy \/ MainReport \/ MainJoin \/ Signal \/ Ended

Spec == Init /\ [][Next]_vars

\* thread_up never waits for anything but time-outs and mutexes held for a
\* moment.
FairSpec == Spec /\ WF_vars(UpNext)

-----------------------------------------------------------------------------
Dgram == [token : Tokens \cup {NoToken}, rxpk : Seq(1 .. MaxPkt),
          stat : 0 .. MaxReport]

TypeOK ==
  /\ upc \in {"fetch", "flag", "filter", "send", "count", "ack", "done"}
  /\ status \in Seq(Statuses)
  /\ todo \in Seq(1 .. MaxPkt) /\ Len(todo) <= NbPktMax
  /\ sendReport \in BOOLEAN /\ reportReady \in BOOLEAN /\ quit \in BOOLEAN
  /\ dgram \in Dgram
  /\ tries \in 0 .. 2 /\ cycles \in 0 .. 2
  /\ meas \in [Counters -> Nat] /\ cp \in [Counters -> Nat]
  /\ mpc \in {"wait", "report", "join", "done"}
  /\ statusReport \in 0 .. MaxReport
  /\ dgrams \in Seq(Dgram) /\ atServer \subseteq DOMAIN dgrams
  /\ reports \in Seq([Counters -> Nat])

\* The packets in the datagrams sent and in the one being composed.
Sent ==
  FoldLeft(LAMBDA s, d : s \o d.rxpk, <<>>, dgrams)
  \o (IF upc \in {"filter", "send"} THEN dgram.rxpk ELSE <<>>)

\* Every packet fetched and not filtered out goes into one datagram, in order:
\* none is dropped or sent again when the rest of its fetch is filtered out,
\* when a report goes with it, or when its datagram is not acknowledged.
ForwardedOnce ==
  /\ \A i, j \in DOMAIN Sent : i < j => Sent[i] < Sent[j]
  /\ Range(Sent) = {k \in 1 .. Len(status) - Len(todo) : status[k] \in Forwarded}

\* The sum of a counter over all reports, the interrupted and the current
\* interval.
Total(c) ==
  FoldLeft(LAMBDA n, r : n + r[c], 0, reports)
  + (IF mpc = "report" THEN cp[c] ELSE 0) + meas[c]

\* Copying and resetting the counters while thread_up counts neither loses an
\* event nor reports it twice.
NothingUncounted ==
  /\ Total("rcv") = Len(status) - Len(todo)
  /\ Total("fwd") = Len(Sent)
  /\ Total("dgram") = Len(dgrams) - (IF upc = "count" THEN 1 ELSE 0)

\* The figures of one report belong together, wherever between thread_up's
\* steps the counters are copied: no more packets with a status, or forwarded,
\* than received, and no more acknowledgements than datagrams.
ReportConsistent ==
  \A i \in DOMAIN reports :
    LET r == reports[i]
    IN  /\ r["ok"] + r["bad"] + r["nocrc"] <= r["rcv"]
        /\ r["fwd"] <= r["rcv"]
        /\ r["ack"] <= r["dgram"]

\* As long as no token is used twice, no more datagrams are counted as
\* acknowledged than have reached the server: an acknowledgement that comes too
\* late is not taken for the one of the next datagram.
AcksAreReal ==
  (\A j, k \in DOMAIN dgrams : j # k => dgrams[j].token # dgrams[k].token)
  => Total("ack") <= Cardinality(atServer)

\* The number of reports in the first k datagrams.
ReportsUpTo(k) == Cardinality({j \in 1 .. k : dgrams[j].stat # 0})

\* Although thread_up reads report_ready without the mutex, the reports arrive
\* in its datagrams one after the other, none twice and none left out.
ReportsInOrder ==
  \A k \in DOMAIN dgrams :
    dgrams[k].stat # 0 => dgrams[k].stat = ReportsUpTo(k)

\* A report that is ready is sent, unless the process quits.
ReportIsSent ==
  \A n \in 1 .. MaxReport :
    Len(reports) = n
      ~> (ReportsUpTo(Len(dgrams)) >= n \/ quit \/ Len(dgrams) = MaxDgram)
=============================================================================
