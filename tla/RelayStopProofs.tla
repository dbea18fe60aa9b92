--------------------------- MODULE RelayStopProofs --------------------------
(***************************************************************************)
(* Proofs about RelayStop, for every set of threads and any number of      *)
(* signals: the reason for which main may hang is the only one.            *)
(***************************************************************************)
EXTENDS RelayStop, TLAPS

\* main goes on to wait, with a flag set, only if it has missed the signal.
NoWaitUnlessMissed ==
  (flags # {} /\ pc["main"] \in {"tested", "wait"}) => missed

IInv == TypeOK /\ NoWaitUnlessMissed

\* main is one of the threads that signals may interrupt.
LEMMA ThreadsKnown ==
  /\ "main" \in Threads
  /\ MaxSig \in Nat
BY StopAssumption

\* No signal has come yet.
LEMMA InitInv == Init => IInv
BY ThreadsKnown DEF Init, IInv, TypeOK, NoWaitUnlessMissed

\* The steps of a thread other than the test change no flag.
LEMMA ThreadInv ==
  ASSUME IInv, NEW t \in Threads, Step(t) \/ Receive(t)
  PROVE  IInv'
<1>1. /\ UNCHANGED <<flags, nSig, handlers, open, missed>>
      /\ \E from, to \in {"test", "tested", "wait", "work", "end"} : Goto(t, from, to)
  BY DEF Step, Receive, Test, Enter, Timeout, Done, Fatal
<1>2. TypeOK'
  BY <1>1 DEF IInv, TypeOK, Goto
<1>3. (flags # {} /\ pc'["main"] \in {"tested", "wait"})
        => pc["main"] \in {"tested", "wait"}
  <2>1. CASE t # "main"
    BY <1>1, <2>1 DEF Goto, IInv, TypeOK
  <2>2. CASE t = "main"
    BY <2>2, ThreadsKnown
    DEF Step, Receive, Test, Enter, Timeout, Done, Fatal, Goto, IInv, TypeOK
  <2>3. QED
    BY <2>1, <2>2
<1>4. QED
  BY <1>1, <1>2, <1>3 DEF IInv, NoWaitUnlessMissed

\* A signal sets a flag; if main goes on to wait all the same, it has missed it.
LEMMA SignalInv ==
  ASSUME IInv, NEW t \in Threads, NEW sig \in Signals, Signal(t, sig)
  PROVE  IInv'
<1>1. /\ \E f \in {"exit", "quit"} : flags' = flags \cup {f}
      /\ handlers' = handlers \cup {<<t, sig>>}
      /\ nSig < MaxSig /\ nSig' = nSig + 1 /\ open' = open
  BY DEF Signal
<1>2. pc' \in [Threads -> {"test", "tested", "wait", "work", "end"}]
  BY DEF Signal, IInv, TypeOK
<1>3. TypeOK'
  <2>1. flags' \subseteq {"exit", "quit"}
    BY <1>1 DEF IInv, TypeOK
  <2>2. nSig' \in 0 .. MaxSig
    BY <1>1, ThreadsKnown DEF IInv, TypeOK
  <2>3. handlers' \subseteq Threads \X Signals /\ handlers' # {}
    <3>1. handlers \subseteq Threads \X Signals /\ <<t, sig>> \in Threads \X Signals
      BY DEF IInv, TypeOK
    <3>2. QED
      BY <1>1, <3>1, Zenon
  <2>4. QED
    BY <1>2, <2>1, <2>2, <2>3, Zenon DEF TypeOK
<1>4. NoWaitUnlessMissed'
  <2>1. CASE t = "main" /\ pc[t] = "wait"
    <3>1. pc'["main"] = "test"
      BY <2>1, ThreadsKnown DEF Signal, IInv, TypeOK
    <3>2. QED
      BY <3>1 DEF NoWaitUnlessMissed
  <2>2. CASE ~(t = "main" /\ pc[t] = "wait")
    <3>1. /\ pc' = pc
          /\ missed' = (missed \/ pc["main"] = "tested" \/ (pc["main"] = "wait" /\ t # "main"))
      BY <2>2 DEF Signal
    <3>2. QED
      BY <2>2, <3>1, ZenonT(30) DEF NoWaitUnlessMissed
  <2>3. QED
    BY <2>1, <2>2
<1>5. QED
  BY <1>3, <1>4 DEF IInv

\* Threads, signals and the closing of the sockets preserve the invariant.
LEMMA StepInv == IInv /\ [Next]_vars => IInv'
<1> SUFFICES ASSUME IInv, [Next]_vars PROVE IInv'
  OBVIOUS
<1>1. CASE \E t \in Threads : Step(t) \/ Receive(t)
  BY <1>1, ThreadInv
<1>2. CASE \E t \in Threads, sig \in Signals : Signal(t, sig)
  BY <1>2, SignalInv
<1>3. CASE \E t \in Threads, sig \in Signals : Close(t, sig)
  BY <1>3 DEF Close, IInv, TypeOK, NoWaitUnlessMissed
<1>4. CASE UNCHANGED vars
  BY <1>4 DEF vars, IInv, TypeOK, NoWaitUnlessMissed
<1>5. QED
  BY <1>1, <1>2, <1>3, <1>4 DEF Next, Ended

\* Places and flags are of their types, and the sockets are open only before a
\* signal has been handled.
THEOREM TypeCorrect == Spec => []TypeOK
<1>1. IInv => TypeOK
  BY DEF IInv
<1>2. QED
  BY InitInv, StepInv, <1>1, PTL DEF Spec

\* The relay hangs after a signal only if main has missed it: sig_handler
\* interrupted another thread, or main after its last test of the flags.
THEOREM HangsOnlyWhenMissed == Spec => []HangNeedsMissedSignal
<1>1. IInv => HangNeedsMissedSignal
  BY DEF IInv, NoWaitUnlessMissed, HangNeedsMissedSignal
<1>2. QED
  BY InitInv, StepInv, <1>1, PTL DEF Spec
=============================================================================
