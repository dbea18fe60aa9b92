------------------------------ MODULE RelayStop ------------------------------
(***************************************************************************)
(* How the shipment relay stops.  A signal sets quit_sig or exit_sig and   *)
(* closes three of the four sockets; every thread tests the flags before   *)
(* it waits for the next datagram.  Only main ends the process; it waits   *)
(* on localSer_fd1, which is not closed and has no time-out, so it must be *)
(* interrupted, or get a datagram.                                         *)
(*                                                                         *)
(* External: the signals, which any thread may be chosen to handle, and    *)
(* the datagrams.                                                          *)
(***************************************************************************)
EXTENDS Naturals

CONSTANTS
  Threads,  \* the threads considered: main, and all or some of the others
  MaxSig    \* bound on the number of signals

\* main and ShipM_multiSx1301UdpSer_thread receive from the forwarders, "up" and
\* "down" from the server, "send" and "route" take from the rings.
Receivers == {"main", "udp0"}

ASSUME StopAssumption ==
  /\ "main" \in Threads
  /\ Threads \subseteq Receivers \cup {"send", "up", "down", "route"}
  /\ MaxSig \in Nat \ {0}

VARIABLES
  pc,       \* pc[t]: "test", "tested", "wait", "work" or "end"
  flags,    \* which of exit_sig and quit_sig are set
  nSig,     \* the number of signals
  handlers, \* <<t, sig>>: thread t is in sig_handler for sig, about to close the
            \* sockets
  open,     \* localSer_fd, ser_down_fd and ser_up_fd are open
  missed    \* history: a signal came when main had tested the flags for the last
            \* time before it waits, and did not interrupt it

vars == <<pc, flags, nSig, handlers, open, missed>>

Signals == {"INT", "TERM", "QUIT"}

Running(t) == pc["main"] # "end" /\ \A sig \in Signals : <<t, sig>> \notin handlers

Goto(t, from, to) == pc[t] = from /\ pc' = [pc EXCEPT ![t] = to]

-----------------------------------------------------------------------------
\* Defect: SIGQUIT is forgotten.
TestExitOnly(t) ==
  /\ Running(t)
  /\ Goto(t, "test", IF "exit" \in flags THEN "end" ELSE "tested")
  /\ UNCHANGED <<flags, nSig, handlers, open, missed>>

\* while (!exit_sig && !quit_sig)
Test(t) ==
  /\ Running(t)
  /\ Goto(t, "test", IF flags # {} THEN "end" ELSE "tested")
  /\ UNCHANGED <<flags, nSig, handlers, open, missed>>

\* The buffer is cleared; then recvfrom, recv or the function Out is called.  On a
\* closed socket the call fails at once; one that waits already is not woken.
Enter(t) ==
  /\ Running(t)
  /\ Goto(t, "tested", IF open \/ t \notin {"udp0", "up", "down"} THEN "wait" ELSE "test")
  /\ UNCHANGED <<flags, nSig, handlers, open, missed>>

\* Defect: localSer_fd has no time-out either.
TimeoutSleepers(t) ==
  /\ Running(t) /\ t \notin {"main", "udp0"}
  /\ Goto(t, "wait", "test")
  /\ UNCHANGED <<flags, nSig, handlers, open, missed>>

\* A time-out of the socket, or an empty ring: localSer_fd1 has no time-out.
Timeout(t) ==
  /\ Running(t) /\ t # "main"
  /\ Goto(t, "wait", "test")
  /\ UNCHANGED <<flags, nSig, handlers, open, missed>>

\* There is a datagram, or a packet in the ring.
Receive(t) ==
  /\ Running(t)
  /\ Goto(t, "wait", "work")
  /\ UNCHANGED <<flags, nSig, handlers, open, missed>>

\* Defect: the flags are tested at the end of a turn only when nothing came.
DoneUntested(t) ==
  /\ Running(t)
  /\ Goto(t, "work", "tested")
  /\ UNCHANGED <<flags, nSig, handlers, open, missed>>

Done(t) ==
  /\ Running(t)
  /\ Goto(t, "work", "test")
  /\ UNCHANGED <<flags, nSig, handlers, open, missed>>

\* A datagram of unknown type makes the function return: of main, too.
Fatal(t) ==
  /\ Running(t) /\ t \in Receivers
  /\ Goto(t, "work", "end")
  /\ UNCHANGED <<flags, nSig, handlers, open, missed>>

\* sig_handler runs on a thread, which may be in it for another signal, as others
\* may for the same: sa_mask is empty.  There is no SA_RESTART.
Signal(t, sig) ==
  /\ pc["main"] # "end" /\ pc[t] # "end" /\ <<t, sig>> \notin handlers
  /\ nSig < MaxSig /\ nSig' = nSig + 1
  /\ flags' = flags \cup {IF sig = "QUIT" THEN "quit" ELSE "exit"}
  /\ handlers' = handlers \cup {<<t, sig>>}
  /\ IF t = "main" /\ pc[t] = "wait" THEN pc' = [pc EXCEPT ![t] = "test"]
     ELSE UNCHANGED pc
  /\ missed' = (missed \/ pc["main"] = "tested" \/ (pc["main"] = "wait" /\ t # "main"))
  /\ UNCHANGED open

\* close_socket_fd, and the return of sig_handler.  Of two handlers on a thread the
\* later one ends first; they do the same, so either may be taken for it.
Close(t, sig) ==
  /\ pc["main"] # "end" /\ <<t, sig>> \in handlers
  /\ open' = FALSE
  /\ handlers' = handlers \ {<<t, sig>>}
  /\ UNCHANGED <<pc, flags, nSig, missed>>

Ended == pc["main"] = "end" /\ UNCHANGED vars

Init == /\ pc = [t \in Threads |-> "test"]
        /\ flags = {} /\ nSig = 0 /\ handlers = {} /\ open = TRUE
        /\ missed = FALSE

Step(t) == Test(t) \/ Enter(t) \/ Timeout(t) \/ Done(t) \/ Fatal(t)

Next == \/ \E t \in Threads : Step(t) \/ Receive(t)
        \/ \E t \in Threads, sig \in Signals : Signal(t, sig) \/ Close(t, sig)
        \/ Ended

Spec == Init /\ [][Next]_vars

\* Every thread runs on, in sig_handler too; no datagram may be counted on.
FairSpec == /\ Spec
            /\ \A t \in Threads : WF_vars(Step(t))
            /\ \A t \in Threads, sig \in Signals : WF_vars(Close(t, sig))
-----------------------------------------------------------------------------
TypeOK ==
  /\ pc \in [Threads -> {"test", "tested", "wait", "work", "end"}]
  /\ flags \subseteq {"exit", "quit"} /\ nSig \in 0 .. MaxSig
  /\ handlers \subseteq Threads \X Signals
  /\ open => flags = {} \/ handlers # {}

\* When the relay has been told to stop, main waits for a datagram only if it
\* missed the signal: it came between its test of the flags and recvfrom, or
\* another thread handled it.
HangNeedsMissedSignal ==
  (flags # {} /\ pc["main"] = "wait") => missed

\* A relay that is told to stop ends, if the forwarder of SX1301_1 goes on sending
\* (it sends PULL_DATA again and again).
SignalEnds == WF_vars(Receive("main")) => (flags # {} ~> pc["main"] = "end")

\* The other threads need no datagram: each ends, or the process does, whether or
\* not main hangs.
OthersEnd == \A t \in Threads \ {"main"} :
               flags # {} ~> (pc[t] = "end" \/ pc["main"] = "end")
=============================================================================
