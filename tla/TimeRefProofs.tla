---------------------------- MODULE TimeRefProofs ---------------------------
(***************************************************************************)
(* Proofs about TimeRef, for every length of the second, every modulus of  *)
(* the counter, every period and delay, and every jump of the host's       *)
(* clock.                                                                  *)
(*                                                                         *)
(* What is computed from a clock that is read in one step and used in      *)
(* another is described by how far the clock can have gone on since:       *)
(* GpsTimely for the GPS sample, CheckTimely for the check of its age,     *)
(* SampleTimely and OffsetExact for the host's clock.  SampleInSecond does *)
(* the same for the counter read with the GPS mode off.                    *)
(***************************************************************************)
EXTENDS TimeRef, TLAPS

ClockTypes ==
  /\ now \in Start .. End /\ hostOff \in Jumps \cup {0}
  /\ en \in BOOLEAN /\ offset \in Int

GpsTypes ==
  /\ ref \in [count : 0 .. W - 1, utc : Nat, gps : Nat, sys : Int]
  /\ gps \in [pc : {"wait", "trig", "sync"}, sec : Nat, cnt : 0 .. W - 1]
  /\ utc \in 0 .. Seconds(now) /\ ref.utc \in 0 .. Seconds(now)
  /\ ref.gps \in 0 .. gps.sec /\ gps.sec \in 0 .. Seconds(now)
  /\ wrong \in Nat

CheckTypes ==
  /\ check \in [pc : {"wait", "xtal"}, next : Int, ok : BOOLEAN,
                cpt : 0 .. InitAvg + 1]
  /\ run \in Nat

SyncTypes ==
  sync \in [pc : {"sleep", "unix", "trig", "enable"}, next : Int, lag : 0 .. Lag,
            unix : Int, good : BOOLEAN]

AberTypes == aber \in BOOLEAN \X BOOLEAN

Types == ClockTypes /\ GpsTypes /\ AberTypes /\ CheckTypes /\ SyncTypes

-----------------------------------------------------------------------------
(* Arithmetic *)

\* Division rounds down.
LEMMA DivBounds ==
  ASSUME NEW n \in Nat \ {0}, NEW t \in Int
  PROVE  /\ t \div n \in Int
         /\ n * (t \div n) <= t /\ t < n * (t \div n) + n
OBVIOUS

\* Seconds come one after the other, and begin at multiples of S.
LEMMA SecondsStep ==
  ASSUME NEW t \in Nat
  PROVE  /\ Seconds(t) \in Nat /\ Seconds(t) <= Seconds(t + 1)
         /\ (t + 1) % S # 0 => Seconds(t + 1) = Seconds(t)
BY TimeRefAssumption DEF Seconds

\* What the counter shows is below W.
LEMMA CounterType ==
  ASSUME NEW t \in Int
  PROVE  Counter(t) \in 0 .. W - 1
BY TimeRefAssumption DEF Counter

\* The remainder is the only number below n that differs by a multiple of n.
LEMMA ModUnique ==
  ASSUME NEW n \in Nat \ {0}, NEW k \in Int, NEW r \in 0 .. n - 1
  PROVE  (n * k + r) % n = r
OBVIOUS

\* Multiples of n do not change the remainder.
LEMMA ModAddMultiple ==
  ASSUME NEW n \in Nat \ {0}, NEW k \in Int, NEW x \in Int
  PROVE  (n * k + x) % n = x % n
<1> DEFINE d == x \div n
           r == x % n
<1>1. d \in Int /\ r \in 0 .. n - 1 /\ x = n * d + r
  OBVIOUS
<1>2. n * k + x = n * (k + d) + r /\ k + d \in Int
  BY <1>1
<1>3. QED
  BY <1>1, <1>2, ModUnique

\* Shifted by a multiple of n, a time is as far from a multiple of n as before.
LEMMA DivShift ==
  ASSUME NEW n \in Nat \ {0}, NEW t \in Int, NEW o \in Int, o % n = 0
  PROVE  n * ((t + o) \div n) - o = n * (t \div n)
<1> DEFINE k == o \div n
           u == t + o
<1>1. k \in Int /\ u \in Int /\ o = n * k
  OBVIOUS
<1>2. u % n = t % n
  <2> HIDE DEF k
  <2>1. (n * k + t) % n = t % n
    BY <1>1, ModAddMultiple
  <2>2. u = n * k + t
    BY <1>1
  <2>3. QED
    BY <2>1, <2>2
<1>3. n * (u \div n) = u - (u % n) /\ n * (t \div n) = t - (t % n)
  BY <1>1
<1>4. QED
  BY <1>1, <1>2, <1>3

\* A remainder of a difference of remainders is that of the difference.
LEMMA ModDifference ==
  ASSUME NEW n \in Nat \ {0}, NEW a \in Int, NEW b \in Int
  PROVE  ((a % n) - (b % n)) % n = (a - b) % n
<1>1. /\ a % n = a - n * (a \div n) /\ b % n = b - n * (b \div n)
      /\ a \div n \in Int /\ b \div n \in Int
  OBVIOUS
<1> DEFINE k == (b \div n) - (a \div n)
<1> DEFINE d == a - b
<1>2. k \in Int /\ d \in Int /\ (a % n) - (b % n) = n * k + d
  BY <1>1
<1> HIDE DEF k, d
<1>3. (n * k + d) % n = d % n
  BY <1>2, ModAddMultiple
<1>4. QED
  BY <1>2, <1>3 DEF d

-----------------------------------------------------------------------------
(* Types *)

\* Nothing has been received or synchronised.
LEMMA TypesInit == Init => Types
<1> SUFFICES ASSUME Init PROVE Types
  OBVIOUS
<1>1. ClockTypes /\ CheckTypes /\ SyncTypes
  <2>1. Start + S \in Int /\ Start \in Int /\ 0 \in 0 .. Lag /\ 0 \in 0 .. InitAvg + 1
    BY TimeRefAssumption
  <2>2. CheckTypes /\ SyncTypes
    BY <2>1 DEF Init, CheckTypes, SyncTypes
  <2>3. ClockTypes
    BY TimeRefAssumption DEF Init, ClockTypes
  <2>4. QED
    BY <2>2, <2>3
<1>2. Seconds(now) \in Nat
  BY TimeRefAssumption DEF Init, Seconds
<1>3. GpsTypes
  BY <1>2, TimeRefAssumption DEF Init, GpsTypes
<1>4. AberTypes
  BY DEF Init, AberTypes
<1>5. QED
  BY <1>1, <1>3, <1>4 DEF Types

\* Every step keeps the times, the samples and the counts in their types.
LEMMA TypesStep ==
  ASSUME Types, [Next]_vars
  PROVE  Types'
<1>1. /\ now \in Nat /\ Host \in Int /\ Seconds(Host) \in Int /\ Seconds(now) \in Nat
      /\ Seconds(now) <= Seconds(now + 1)
      /\ TrigCnt \in 0 .. W - 1
  <2>1. now \in Nat /\ Host \in Int
    BY TimeRefAssumption DEF Types, ClockTypes, Host
  <2>2. Seconds(Host) \in Int
    BY <2>1, DivBounds, TimeRefAssumption DEF Seconds
  <2>3. now - (now % S) \in Int
    BY <2>1, TimeRefAssumption
  <2>4. TrigCnt \in 0 .. W - 1
    BY <2>1, <2>3, CounterType DEF TrigCnt
  <2>5. QED
    BY <2>1, <2>2, <2>4, SecondsStep
<1> SUFFICES ClockTypes' /\ GpsTypes' /\ CheckTypes' /\ SyncTypes'
  <2>1. AberTypes'
    <3>1. CASE GpsSync
      <4>1. Aberrant \in BOOLEAN /\ aber[1] \in BOOLEAN
        BY DEF Aberrant, Types, AberTypes
      <4>2. aber' = <<Aberrant, aber[1]>>
        BY <3>1 DEF GpsSync
      <4>3. QED
        BY <4>1, <4>2 DEF AberTypes
    <3>2. CASE UNCHANGED aber
      BY <3>2 DEF Types, AberTypes
    <3>3. QED
      BY <3>1, <3>2
      DEF Next, RmcSentence, GpsMessage, GpsTrig, CheckAge, CheckXtal, SyncDisable, SyncUnix,
          SyncTrig, SyncEnable, Tick, SetHost, Ended, vars, gpsVars
  <2>2. QED
    BY <2>1 DEF Types
<1>2. CASE GpsMessage
  <2>1. GpsTypes'
    <3>1. gps' = [pc |-> "trig", sec |-> Seconds(now), cnt |-> gps.cnt]
      BY <1>2 DEF GpsMessage, Types, GpsTypes
    <3>2. /\ UNCHANGED <<now, ref, wrong, utc>>
          /\ gps.sec <= Seconds(now) /\ gps.cnt \in 0 .. W - 1
      BY <1>1, <1>2 DEF GpsMessage, Types, GpsTypes
    <3>3. QED
      BY <1>1, <3>1, <3>2 DEF Types, GpsTypes
  <2>2. ClockTypes' /\ CheckTypes' /\ SyncTypes'
    BY <1>2 DEF Types, ClockTypes, CheckTypes, SyncTypes, GpsMessage, validVars, syncVars
  <2>3. QED
    BY <2>1, <2>2 DEF Types
<1>3. CASE GpsTrig
  <2>1. GpsTypes'
    BY <1>1, <1>3 DEF Types, GpsTypes, GpsTrig
  <2>2. ClockTypes' /\ CheckTypes' /\ SyncTypes'
    BY <1>3 DEF Types, ClockTypes, CheckTypes, SyncTypes, GpsTrig, validVars, syncVars
  <2>3. QED
    BY <2>1, <2>2 DEF Types
<1>4. CASE GpsSync
  <2>1. Aberrant \in BOOLEAN /\ Accepted \in BOOLEAN
    BY <1>1 DEF Types, GpsTypes, Aberrant, Accepted
  <2>2. GpsTypes'
    BY <1>1, <1>4, <2>1 DEF Types, GpsTypes, ClockTypes, GpsSync
  <2>3. ClockTypes' /\ CheckTypes' /\ SyncTypes'
    BY <1>4, <2>1 DEF Types, ClockTypes, CheckTypes, SyncTypes, GpsSync,
                      validVars, syncVars
  <2>4. QED
    BY <2>2, <2>3 DEF Types
<1>5. CASE CheckAge \/ CheckXtal
  <2>1. GpsTypes' /\ SyncTypes'
    BY <1>5 DEF Types, GpsTypes, SyncTypes, CheckAge, CheckXtal, gpsVars, syncVars
  <2>2. ClockTypes'
    <3>1. Fresh \in BOOLEAN
      BY DEF Fresh
    <3>2. CASE CheckAge
      BY <1>1, <3>1, <3>2 DEF Types, ClockTypes, CheckAge, gpsVars, syncVars
    <3>3. CASE CheckXtal
      BY <3>3 DEF Types, ClockTypes, CheckTypes, CheckXtal, gpsVars, syncVars
    <3>4. QED
      BY <1>5, <3>2, <3>3
  <2>3. CheckTypes'
    <3>1. CASE CheckAge
      <4>1. Fresh \in BOOLEAN
        BY DEF Fresh
      <4>2. /\ check' = [pc |-> "xtal", next |-> check.next, ok |-> Fresh,
                         cpt |-> check.cpt]
            /\ run' \in {run + 1, 0}
        BY <3>1 DEF CheckAge, Types, CheckTypes
      <4>3. QED
        BY <4>1, <4>2 DEF Types, CheckTypes
    <3>2. CASE CheckXtal
      BY <1>1, <3>2, TimeRefAssumption DEF Types, CheckTypes, CheckXtal, NextCpt
    <3>3. QED
      BY <1>5, <3>1, <3>2
  <2>4. QED
    BY <2>1, <2>2, <2>3 DEF Types
<1>6. CASE SyncDisable \/ SyncUnix \/ SyncTrig \/ SyncEnable
  <2>1. GpsTypes' /\ CheckTypes'
    BY <1>6 DEF Types, GpsTypes, CheckTypes, SyncDisable, SyncUnix, SyncTrig,
                SyncEnable, gpsVars, validVars
  <2>2. ClockTypes'
    <3>1. sync.good \in BOOLEAN /\ sync.unix - TrigCnt \in Int
      BY <1>1 DEF Types, SyncTypes
    <3>2. CASE SyncDisable \/ SyncUnix
      BY <3>2 DEF Types, ClockTypes, SyncDisable, SyncUnix, gpsVars, validVars
    <3>3. CASE SyncTrig
      BY <3>1, <3>3 DEF Types, ClockTypes, SyncTrig, gpsVars, validVars
    <3>4. CASE SyncEnable
      BY <3>4 DEF Types, ClockTypes, SyncEnable, gpsVars, validVars
    <3>5. QED
      BY <1>6, <3>2, <3>3, <3>4
  <2>3. SyncTypes'
    <3>1. CASE SyncDisable \/ SyncUnix
      BY <1>1, <3>1 DEF Types, SyncTypes, SyncDisable, SyncUnix
    <3>2. CASE SyncTrig
      BY <3>2 DEF Types, SyncTypes, SyncTrig
    <3>3. CASE SyncEnable
      <4>1. now + SyncPeriod \in Int /\ 0 \in 0 .. Lag
        BY <1>1, TimeRefAssumption
      <4>2. QED
        BY <3>3, <4>1 DEF SyncTypes, SyncEnable
    <3>4. QED
      BY <1>6, <3>1, <3>2, <3>3
  <2>4. QED
    BY <2>1, <2>2, <2>3 DEF Types
<1>7. CASE Tick
  <2>1. ClockTypes' /\ CheckTypes'
    BY <1>1, <1>7, TimeRefAssumption
    DEF Types, ClockTypes, CheckTypes, Tick, gpsVars, validVars
  <2>2. Seconds(now') \in Nat /\ Seconds(now) <= Seconds(now')
    BY <1>1, <1>7, <2>1, TimeRefAssumption DEF Tick, Seconds
  <2>3. GpsTypes'
    BY <1>1, <1>7, <2>2 DEF Types, GpsTypes, Tick, gpsVars
  <2>4. SyncTypes'
    BY <1>7, TimeRefAssumption DEF Types, SyncTypes, Tick
  <2>5. QED
    BY <2>1, <2>3, <2>4 DEF Types
<1>8. CASE SetHost
  BY <1>8 DEF Types, ClockTypes, GpsTypes, CheckTypes, SyncTypes, SetHost, validVars
<1>9. CASE UNCHANGED vars
  BY <1>9 DEF Types, ClockTypes, GpsTypes, CheckTypes, SyncTypes, vars, gpsVars,
              validVars, syncVars
<1>10. CASE RmcSentence
  <2>1. utc' \in 0 .. Seconds(now) /\ UNCHANGED <<now, ref, gps, wrong>>
    BY <1>1, <1>10 DEF RmcSentence
  <2>2. GpsTypes'
    BY <2>1 DEF Types, GpsTypes, Seconds
  <2>3. ClockTypes' /\ CheckTypes' /\ SyncTypes'
    BY <1>10 DEF Types, ClockTypes, CheckTypes, SyncTypes, RmcSentence, validVars,
                 syncVars
  <2>4. QED
    BY <2>2, <2>3
<1>11. QED
  BY <1>2, <1>3, <1>4, <1>5, <1>6, <1>7, <1>8, <1>9, <1>10 DEF Next, Ended

\* The types are invariant, for every host clock.
THEOREM TypesInvariant == Spec => []Types
BY TypesInit, TypesStep, PTL DEF Spec

\* The times, the counts and the samples are of their types.
THEOREM TypeCorrect == Spec => []TypeOK
<1>1. Types => TypeOK
  <2> SUFFICES ASSUME Types PROVE TypeOK
    OBVIOUS
  <2>1. Seconds(now) \in Nat
    BY SecondsStep, TimeRefAssumption DEF Types, ClockTypes
  <2>2. {utc, ref.utc, ref.gps, gps.sec} \subseteq 0 .. Seconds(now)
    BY <2>1 DEF Types, GpsTypes
  <2>3. QED
    BY <2>2 DEF Types, TypeOK, ClockTypes, GpsTypes, CheckTypes, SyncTypes
<1>2. QED
  BY TypesInvariant, <1>1, PTL

-----------------------------------------------------------------------------
(* The reference recovers *)

\* Each right sample that left a wrong reference was found aberrant.
RefusalsRemembered ==
  /\ wrong >= 1 => aber[1]
  /\ wrong >= 2 => aber[2]
  /\ wrong <= 2

\* A sample that is refused is remembered as aberrant, until one is accepted.
LEMMA RefusalsStep ==
  ASSUME Types, RefusalsRemembered, [Next]_vars
  PROVE  RefusalsRemembered'
<1>1. CASE GpsSync
  <2>1. CASE Accepted
    <3>1. ref'.count = gps.cnt /\ ref'.gps = gps.sec
      BY <1>1, <2>1 DEF GpsSync
    <3>2. Right(ref') \/ gps.cnt # Counter(gps.sec * S)
      BY <3>1 DEF Right
    <3>3. wrong' = 0
      BY <1>1, <3>2 DEF GpsSync
    <3>4. QED
      BY <3>3 DEF RefusalsRemembered
  <2>2. CASE ~Accepted
    <3>1. Aberrant /\ ~(aber[1] /\ aber[2])
      BY <2>2 DEF Accepted
    <3>2. wrong \in Nat /\ wrong <= 1
      BY <3>1 DEF RefusalsRemembered, Types, GpsTypes
    <3>3. wrong' \in {0, wrong + 1}
      BY <1>1 DEF GpsSync
    <3>4. aber'[1] /\ (aber'[2] <=> aber[1])
      BY <1>1, <3>1, Zenon DEF GpsSync
    <3>5. QED
      BY <3>2, <3>3, <3>4 DEF RefusalsRemembered
  <2>3. QED
    BY <2>1, <2>2
<1>2. CASE UNCHANGED <<aber, wrong>>
  BY <1>2 DEF RefusalsRemembered
<1>3. GpsSync \/ UNCHANGED <<aber, wrong>>
  BY Zenon
  DEF Next, RmcSentence, GpsMessage, GpsTrig, CheckAge, CheckXtal, SyncDisable, SyncUnix,
      SyncTrig, SyncEnable, Tick, SetHost, Ended, vars, gpsVars
<1>4. QED
  BY <1>1, <1>2, <1>3

\* Of three right samples in a row one replaces a wrong reference, whatever was
\* lost or refused before.
THEOREM WrongRefsEnd == Spec => []WrongRefIsReplaced
<1>1. Init => RefusalsRemembered
  BY DEF Init, RefusalsRemembered
<1>2. Types /\ RefusalsRemembered /\ [Next]_vars => RefusalsRemembered'
  BY RefusalsStep
<1>3. RefusalsRemembered => WrongRefIsReplaced
  BY DEF RefusalsRemembered, WrongRefIsReplaced
<1>4. QED
  BY TypesInvariant, <1>1, <1>2, <1>3, PTL DEF Spec

-----------------------------------------------------------------------------
(* The host's idea of the counter *)

\* thread_timersync reads the counter while it runs, and at most the ticks it
\* has spent after it has read the host's clock.
SampleTimely ==
  /\ en <=> sync.pc = "sleep"
  /\ sync.pc = "trig" /\ sync.good => Host - sync.unix \in 0 .. sync.lag

\* Up to whole turns, the offset is late by at most Lag.
OffsetExact == clockOk => (hostOff - offset - Phase) % W \in 0 .. Lag

\* The two clocks are read within Lag of each other.
LEMMA SampleStep ==
  ASSUME Types, SampleTimely, [Next]_vars
  PROVE  SampleTimely'
<1>1. now \in Int /\ hostOff \in Int /\ Host \in Int
  BY TimeRefAssumption DEF Types, ClockTypes, Host
<1>2. CASE SyncDisable
  BY <1>2 DEF SyncDisable, SampleTimely, Types, SyncTypes
<1>3. CASE SyncUnix
  <2>1. /\ sync'.unix = Host /\ sync'.lag = sync.lag /\ sync'.pc = "trig"
        /\ sync.pc = "unix" /\ en' = en /\ Host' = Host
    BY <1>3 DEF SyncUnix, Types, SyncTypes, Host
  <2>2. sync.lag \in Nat
    BY DEF Types, SyncTypes
  <2>3. QED
    BY <1>1, <2>1, <2>2 DEF SampleTimely
<1>4. CASE SyncTrig \/ SyncEnable
  BY <1>4 DEF SyncTrig, SyncEnable, SampleTimely, Types, SyncTypes
<1>5. CASE Tick
  <2>1. /\ now' = now + 1 /\ UNCHANGED <<hostOff, en>>
        /\ sync'.pc = sync.pc /\ sync'.good = sync.good /\ sync'.unix = sync.unix
        /\ sync.pc # "sleep" => sync'.lag = sync.lag + 1
    BY <1>5 DEF Tick, Types, SyncTypes
  <2>2. Host' = Host + 1
    BY <1>1, <2>1 DEF Host
  <2>3. sync.lag \in Nat /\ sync.unix \in Int
    BY DEF Types, SyncTypes
  <2>4. QED
    BY <1>1, <2>1, <2>2, <2>3 DEF SampleTimely
<1>6. CASE SetHost
  <2>1. sync'.pc = sync.pc /\ sync'.good = FALSE /\ en' = en
    BY <1>6 DEF SetHost, Types, SyncTypes
  <2>2. QED
    BY <2>1 DEF SampleTimely
<1>7. CASE UNCHANGED <<now, hostOff, en, sync>>
  BY <1>7 DEF SampleTimely, Host
<1>8. QED
  BY <1>2, <1>3, <1>4, <1>5, <1>6, <1>7
  DEF Next, RmcSentence, GpsMessage, GpsTrig, GpsSync, CheckAge, CheckXtal, Ended, vars,
      syncVars

\* An offset computed from such a sample is late by Lag at most.
LEMMA OffsetStep ==
  ASSUME Types, SampleTimely, OffsetExact, [Next]_vars
  PROVE  OffsetExact'
<1>1. CASE SyncTrig /\ sync.good
  <2> DEFINE d == Host - sync.unix
             k == -((now + Phase) \div W)
  <2>1. now \in Int /\ hostOff \in Int /\ sync.unix \in Int /\ Phase \in Int
        /\ W \in Nat \ {0}
    BY TimeRefAssumption DEF Types, ClockTypes, SyncTypes
  <2>2. d \in 0 .. Lag /\ ~en
    BY <1>1, <2>1, TimeRefAssumption DEF SyncTrig, SampleTimely, Types, SyncTypes, Host
  <2>3. offset' = sync.unix - ((now + Phase) % W) /\ hostOff' = hostOff
    BY <1>1, <2>2 DEF SyncTrig, TrigCnt, Counter
  <2>4. /\ (now + Phase) % W = (now + Phase) + W * k
        /\ k \in Int
    BY <2>1
  <2>5. (hostOff - offset - Phase)' = W * k + d
    BY <2>1, <2>3, <2>4 DEF Host
  <2>6. (W * k + d) % W = d % W
    <3>1. d \in Int /\ k \in Int /\ W \in Nat \ {0}
      BY <2>1, <2>2, <2>4
    <3> HIDE DEF k, d
    <3>2. QED
      BY <3>1, ModAddMultiple
  <2>7. d % W \in 0 .. Lag
    <3> HIDE DEF k, d
    <3>1. QED
      BY <2>1, <2>2, TimeRefAssumption
  <2>8. QED
    BY <2>5, <2>6, <2>7 DEF OffsetExact
<1>2. CASE SyncTrig /\ ~sync.good
  BY <1>2 DEF SyncTrig, OffsetExact
<1>3. CASE SetHost
  BY <1>3 DEF SetHost, OffsetExact
<1>4. CASE UNCHANGED <<hostOff, offset, clockOk>>
  BY <1>4 DEF OffsetExact
<1>5. QED
  BY <1>1, <1>2, <1>3, <1>4
  DEF Next, RmcSentence, GpsMessage, GpsTrig, GpsSync, CheckAge, CheckXtal, SyncDisable,
      SyncUnix, SyncEnable, Tick, Ended, vars, syncVars

\* get_concentrator_time is as exact as thread_timersync is quick, for every
\* modulus, across the wrap and whatever the host's clock says.
THEOREM ClockExact == Spec => []ClockIsExact
<1>1. Init => SampleTimely /\ OffsetExact
  BY DEF Init, SampleTimely, OffsetExact
<1>2. Types /\ OffsetExact => ClockIsExact
  <2> SUFFICES ASSUME Types, OffsetExact, clockOk
               PROVE  (ConcentratorTime - Counter(now)) % W \in 0 .. Lag
    BY DEF ClockIsExact
  <2> DEFINE a == Host - offset
             b == now + Phase
  <2>1. a \in Int /\ b \in Int /\ W \in Nat \ {0}
        /\ a - b = hostOff - offset - Phase
    BY TimeRefAssumption DEF Types, ClockTypes, Host
  <2>2. ConcentratorTime = a % W /\ Counter(now) = b % W
    BY DEF ConcentratorTime, Counter
  <2> HIDE DEF a, b
  <2>3. ((a % W) - (b % W)) % W = (a - b) % W
    BY <2>1, ModDifference
  <2>4. QED
    BY <2>1, <2>2, <2>3 DEF OffsetExact
<1>3. Types /\ SampleTimely /\ OffsetExact /\ [Next]_vars
        => SampleTimely' /\ OffsetExact'
  BY SampleStep, OffsetStep
<1>4. QED
  BY TypesInvariant, <1>1, <1>2, <1>3, PTL DEF Spec

-----------------------------------------------------------------------------
(* The validity flags *)

\* The part of a second that is lost when the host's seconds are not the GPS's.
Loss == IF hostOff % S = 0 THEN 0 ELSE S - 1

\* A sample is used within its second, so that the systime stored with it tells
\* the second up to the loss.
GpsTimely ==
  /\ gps.pc # "wait" => gps.sec = Seconds(now)
  /\ ageOk => S * ref.sys - hostOff <= S * ref.gps + Loss

\* thread_valid checks again a second later, or a little more; the reference
\* it found fresh was not older than that.
CheckTimely ==
  /\ check.next - S <= now
  /\ check.pc = "wait" => now <= check.next + Lag
  /\ (valid /\ ageOk) =>
       LET at == IF check.pc = "wait" THEN check.next - S ELSE now
       IN  at < S * ref.gps + S * (MaxAge + 1) + Loss

\* The host's second tells the time up to the loss.
LEMMA HostSecond ==
  ASSUME Types
  PROVE  /\ Seconds(Host) \in Int /\ Loss \in 0 .. S - 1
         /\ S * Seconds(now) <= now /\ now < S * Seconds(now) + S
         /\ S * Seconds(Host) <= Host /\ Host < S * Seconds(Host) + S
         /\ S * Seconds(Host) - hostOff <= S * Seconds(now) + Loss
<1>1. now \in Nat /\ hostOff \in Int /\ S \in Nat \ {0} /\ Host \in Int
      /\ Host = now + hostOff
  BY TimeRefAssumption DEF Types, ClockTypes, Host
<1>2. /\ Seconds(Host) \in Int /\ Seconds(now) \in Int
      /\ S * Seconds(now) <= now /\ now < S * Seconds(now) + S
      /\ S * Seconds(Host) <= Host /\ Host < S * Seconds(Host) + S
  BY <1>1, DivBounds DEF Seconds
<1>3. Loss \in 0 .. S - 1
  BY <1>1 DEF Loss
<1>4. CASE hostOff % S # 0
  BY <1>1, <1>2, <1>4 DEF Loss
<1>5. CASE hostOff % S = 0
  <2>1. S * Seconds(Host) - hostOff = S * Seconds(now)
    <3>1. S * ((now + hostOff) \div S) - hostOff = S * (now \div S)
      <4>1. now \in Int /\ hostOff \in Int /\ S \in Nat \ {0}
        BY <1>1
      <4>2. QED
        BY <1>5, <4>1, DivShift, Zenon
    <3>2. QED
      BY <3>1 DEF Seconds, Host
  <2>2. Loss = 0
    BY <1>5 DEF Loss
  <2>3. S * Seconds(Host) - hostOff <= S * Seconds(now) + Loss
    BY <1>1, <1>2, <2>1, <2>2
  <2>4. QED
    BY <1>2, <1>3, <2>3
<1>6. QED
  BY <1>2, <1>3, <1>4, <1>5

\* A sample is used within its second, and the system time stored with it is
\* ahead of it by the loss at most.
LEMMA GpsTimelyStep ==
  ASSUME Types, GpsTimely, [Next]_vars
  PROVE  GpsTimely'
<1>1. CASE GpsMessage
  BY <1>1 DEF GpsMessage, GpsTimely, Types, GpsTypes, Loss, Seconds, validVars
<1>2. CASE GpsTrig
  BY <1>2 DEF GpsTrig, GpsTimely, Types, GpsTypes, Loss, Seconds
<1>3. CASE GpsSync
  <2>1. gps'.pc = "wait" /\ UNCHANGED <<now, hostOff>> /\ gps.sec = Seconds(now)
    BY <1>3 DEF GpsSync, GpsTimely, Types, GpsTypes
  <2>2. Loss' = Loss
    BY <2>1 DEF Loss
  <2>3. CASE Accepted
    <3>1. ref'.sys = Seconds(Host) /\ ref'.gps = Seconds(now)
      BY <1>3, <2>1, <2>3 DEF GpsSync
    <3>2. S * ref'.sys - hostOff' <= S * ref'.gps + Loss'
      BY <2>1, <2>2, <3>1, HostSecond
    <3>3. QED
      BY <2>1, <3>2 DEF GpsTimely
  <2>4. CASE ~Accepted
    <3>1. ref' = ref /\ (ageOk' <=> ageOk)
      BY <1>3, <2>4 DEF GpsSync
    <3>2. QED
      BY <2>1, <2>2, <3>1 DEF GpsTimely
  <2>5. QED
    BY <2>3, <2>4
<1>4. CASE Tick
  <2>1. /\ now' = now + 1 /\ UNCHANGED <<hostOff, ref, gps, ageOk>>
        /\ gps.pc # "wait" => Seconds(now + 1) = Seconds(now)
    BY <1>4, SecondsStep, TimeRefAssumption DEF Tick, gpsVars, Types, ClockTypes
  <2>2. QED
    BY <2>1 DEF GpsTimely, Loss
<1>5. CASE SetHost
  BY <1>5 DEF SetHost, GpsTimely
<1>6. CASE UNCHANGED <<now, hostOff, ref, gps, ageOk>>
  BY <1>6 DEF GpsTimely, Loss
<1>7. QED
  BY <1>1, <1>2, <1>3, <1>4, <1>5, <1>6, Zenon
  DEF Next, RmcSentence, CheckAge, CheckXtal, SyncDisable, SyncUnix, SyncTrig, SyncEnable, Ended,
      vars, gpsVars

\* A reference that thread_valid has found fresh is not older than MaxAge and
\* the loss.
LEMMA CheckTimelyStep ==
  ASSUME Types, GpsTimely, CheckTimely, [Next]_vars
  PROVE  CheckTimely'
<1>1. /\ now \in Nat /\ hostOff \in Int /\ S \in Nat \ {0} /\ Lag \in Nat
      /\ MaxAge \in Nat /\ check.next \in Int /\ check.pc \in {"wait", "xtal"}
      /\ ref.gps \in Nat /\ ref.sys \in Int /\ gps.sec \in Nat
  BY TimeRefAssumption DEF Types, ClockTypes, GpsTypes, CheckTypes
<1>2. Loss \in 0 .. S - 1
  BY HostSecond
<1>3. S * ref.gps \in Int /\ S * (MaxAge + 1) = S * MaxAge + S /\ S * MaxAge \in Nat
  BY <1>1
<1>4. CASE GpsSync
  <2>1. UNCHANGED <<now, hostOff, check, valid>> /\ gps.sec = Seconds(now)
    BY <1>4 DEF GpsSync, validVars, GpsTimely
  <2>2. Loss' = Loss
    BY <2>1 DEF Loss
  <2>3. CASE Accepted
    <3>1. ref'.gps = Seconds(now) /\ now < S * Seconds(now) + S
      BY <1>4, <2>1, <2>3, HostSecond DEF GpsSync
    <3>2. check.next - S < S * ref'.gps + S * (MaxAge + 1) + Loss
      <4>1. check.next - S <= now
        BY DEF CheckTimely
      <4>2. ref'.gps \in Nat /\ S * ref'.gps \in Nat /\ now < S * ref'.gps + S
        BY <1>1, <2>1, <3>1
      <4>3. QED
        BY <1>1, <1>2, <1>3, <4>1, <4>2
    <3>3. now < S * ref'.gps + S * (MaxAge + 1) + Loss
      <4>1. ref'.gps \in Nat /\ S * ref'.gps \in Nat /\ now < S * ref'.gps + S
        BY <1>1, <2>1, <3>1
      <4>2. QED
        BY <1>1, <1>2, <1>3, <4>1
    <3>4. QED
      BY <2>1, <2>2, <3>2, <3>3 DEF CheckTimely
  <2>4. CASE ~Accepted
    <3>1. ref' = ref /\ (ageOk' <=> ageOk)
      BY <1>4, <2>4 DEF GpsSync
    <3>2. QED
      BY <2>1, <2>2, <3>1 DEF CheckTimely
  <2>5. QED
    BY <2>3, <2>4
<1>5. CASE CheckAge
  <2>1. /\ UNCHANGED <<now, hostOff, ref, ageOk>> /\ (valid' <=> Fresh)
        /\ check'.pc = "xtal" /\ check'.next = check.next
    BY <1>5 DEF CheckAge, gpsVars, Types, CheckTypes
  <2>2. ASSUME Fresh, ageOk
        PROVE  now < S * ref.gps + S * (MaxAge + 1) + Loss
    <3> DEFINE h == Seconds(Host)
    <3>1. h \in Int /\ h <= ref.sys + MaxAge /\ Host < S * h + S /\ Host = now + hostOff
      BY <1>1, <2>2, HostSecond DEF Fresh, Age, Host
    <3>2. S * ref.sys - hostOff <= S * ref.gps + Loss
      BY <2>2 DEF GpsTimely
    <3>3. S * h <= S * (ref.sys + MaxAge) /\ S * (ref.sys + MaxAge) = S * ref.sys + S * MaxAge
      <4> HIDE DEF h
      <4>1. QED
        BY <1>1, <3>1
    <3>4. S * h \in Int /\ S * ref.sys \in Int
      BY <1>1, <3>1
    <3>5. QED
      <4> HIDE DEF h
      <4>1. QED
        BY <1>1, <1>2, <1>3, <3>1, <3>2, <3>3, <3>4
  <2>3. Loss' = Loss
    BY <2>1 DEF Loss
  <2>4. QED
    BY <1>1, <2>1, <2>2, <2>3 DEF CheckTimely
<1>6. CASE CheckXtal
  <2>1. /\ UNCHANGED <<now, hostOff, ref, ageOk, valid>>
        /\ check.pc = "xtal" /\ check'.pc = "wait" /\ check'.next = now + S
    BY <1>6 DEF CheckXtal, gpsVars
  <2>2. Loss' = Loss
    BY <2>1 DEF Loss
  <2>3. QED
    BY <1>1, <2>1, <2>2 DEF CheckTimely
<1>7. CASE Tick
  <2>1. /\ now' = now + 1 /\ UNCHANGED <<hostOff, ref, ageOk, valid, check>>
        /\ check.pc = "wait" /\ now < check.next + Lag
    BY <1>7 DEF Tick, gpsVars, validVars
  <2>2. Loss' = Loss
    BY <2>1 DEF Loss
  <2>3. QED
    BY <1>1, <2>1, <2>2 DEF CheckTimely
<1>8. CASE SetHost
  BY <1>8 DEF SetHost, CheckTimely, validVars
<1>9. CASE UNCHANGED <<now, hostOff, ref, ageOk, valid, check>>
  BY <1>9 DEF CheckTimely, Loss
<1>10. QED
  BY <1>4, <1>5, <1>6, <1>7, <1>8, <1>9, Zenon
  DEF Next, RmcSentence, GpsMessage, GpsTrig, SyncDisable, SyncUnix, SyncTrig, SyncEnable, Ended,
      vars, gpsVars, validVars

\* The checks in a row that found the reference fresh are counted by init_cpt up
\* to InitAvg + 1, and the correction is allowed when they are more than InitAvg.
ChecksCounted ==
  /\ valid <=> check.ok
  /\ check.cpt <= run \/ (check.pc = "xtal" /\ ~valid)
  /\ check.pc = "xtal" /\ valid => check.cpt < run
  /\ check.pc = "wait" /\ xtalOk => valid
  /\ valid /\ xtalOk => run > InitAvg

\* init_cpt follows the checks in a row that found the reference fresh.
LEMMA ChecksStep ==
  ASSUME Types, ChecksCounted, [Next]_vars
  PROVE  ChecksCounted'
<1>1. /\ check.cpt \in Nat /\ run \in Nat /\ InitAvg \in Nat
      /\ check.pc \in {"wait", "xtal"}
  BY TimeRefAssumption DEF Types, CheckTypes
<1>2. CASE CheckAge
  <2>1. /\ check.pc = "wait" /\ check'.pc = "xtal" /\ check'.cpt = check.cpt
        /\ (check'.ok <=> Fresh) /\ (valid' <=> Fresh) /\ (xtalOk' <=> xtalOk)
        /\ run' = IF Fresh THEN run + 1 ELSE 0
    BY <1>2 DEF CheckAge, Types, CheckTypes
  <2>2. QED
    BY <1>1, <2>1 DEF ChecksCounted
<1>3. CASE CheckXtal
  <2>1. /\ check.pc = "xtal" /\ check'.pc = "wait" /\ check'.cpt = NextCpt
        /\ (check'.ok <=> check.ok) /\ (valid' <=> valid) /\ run' = run
        /\ (xtalOk' <=> (check.ok /\ (xtalOk \/ check.cpt = InitAvg)))
    BY <1>3 DEF CheckXtal
  <2>2. QED
    BY <1>1, <2>1 DEF ChecksCounted, NextCpt
<1>4. CASE UNCHANGED <<check, valid, xtalOk, run>>
  BY <1>4 DEF ChecksCounted
<1>5. QED
  BY <1>2, <1>3, <1>4, Zenon
  DEF Next, RmcSentence, GpsMessage, GpsTrig, GpsSync, SyncDisable, SyncUnix, SyncTrig,
      SyncEnable, Tick, SetHost, Ended, vars, validVars

\* A valid reference is not older than thread_valid's periods and lags allow, and
\* beacons are enabled only after InitAvg + 1 fresh checks in a row.
THEOREM FlagsEarned == Spec => []FlagsAreEarned
<1>1. Init => GpsTimely /\ CheckTimely /\ ChecksCounted
  BY TimeRefAssumption DEF Init, GpsTimely, CheckTimely, ChecksCounted
<1>2. /\ Types /\ GpsTimely /\ [Next]_vars => GpsTimely'
      /\ Types /\ GpsTimely /\ CheckTimely /\ [Next]_vars => CheckTimely'
      /\ Types /\ ChecksCounted /\ [Next]_vars => ChecksCounted'
  BY GpsTimelyStep, CheckTimelyStep, ChecksStep
<1>3. Types /\ CheckTimely /\ ChecksCounted => FlagsAreEarned
  <2> SUFFICES ASSUME Types, CheckTimely, ChecksCounted, valid
               PROVE  /\ ageOk => now - S * ref.gps <
                           S * (MaxAge + IF hostOff % S = 0 THEN 2 ELSE 3) + Lag
                      /\ xtalOk => run > InitAvg
    BY DEF FlagsAreEarned
  <2>1. xtalOk => run > InitAvg
    BY DEF ChecksCounted
  <2>2. /\ now \in Nat /\ S \in Nat \ {0} /\ Lag \in Nat /\ MaxAge \in Nat
        /\ check.next \in Int /\ check.pc \in {"wait", "xtal"} /\ ref.gps \in Nat
    BY TimeRefAssumption DEF Types, ClockTypes, GpsTypes, CheckTypes
  <2>3. /\ S * ref.gps \in Int /\ S * MaxAge \in Nat
        /\ S * (MaxAge + 1) = S * MaxAge + S
        /\ S * (MaxAge + 2) = S * MaxAge + 2 * S
        /\ S * (MaxAge + 3) = S * MaxAge + 3 * S
    BY <2>2
  <2>4. ageOk => now < S * ref.gps + S * (MaxAge + 1) + Loss + S + Lag
    BY <2>2, <2>3, HostSecond DEF CheckTimely
  <2>5. ASSUME ageOk
        PROVE  now - S * ref.gps <
                 S * (MaxAge + IF hostOff % S = 0 THEN 2 ELSE 3) + Lag
    <3>1. CASE hostOff % S = 0
      <4>1. Loss = 0
        BY <3>1 DEF Loss
      <4>2. now - S * ref.gps < S * (MaxAge + 2) + Lag
        BY <2>2, <2>3, <2>4, <2>5, <4>1
      <4>3. QED
        BY <3>1, <4>2
    <3>2. CASE hostOff % S # 0
      <4>1. Loss = S - 1
        BY <3>2 DEF Loss
      <4>2. now - S * ref.gps < S * (MaxAge + 3) + Lag
        BY <2>2, <2>3, <2>4, <2>5, <4>1
      <4>3. QED
        BY <3>2, <4>2
    <3>3. QED
      BY <3>1, <3>2
  <2>6. QED
    BY <2>1, <2>5
<1>4. QED
  BY TypesInvariant, <1>1, <1>2, <1>3, PTL DEF Spec

-----------------------------------------------------------------------------
(* The check of the slope *)

\* The value paired with a second was the counter's at some tick of it: the first,
\* but for the moments when the GPS mode is off.
SampleInSecond ==
  gps.pc = "sync" => \E x \in 0 .. S - 1 : gps.cnt = Counter(S * gps.sec + x)

LEMMA SampleInSecondStep ==
  ASSUME Types, GpsTimely, SampleInSecond, [Next]_vars
  PROVE  SampleInSecond'
<1>1. CASE GpsTrig
  <2>1. /\ gps' = [gps EXCEPT !.pc = "sync", !.cnt = TrigCnt]
        /\ gps.sec = now \div S /\ S \in Nat \ {0} /\ now \in Nat
    BY <1>1, TimeRefAssumption DEF GpsTrig, GpsTimely, Seconds, Types, ClockTypes
  <2>2. gps'.cnt = TrigCnt /\ gps'.sec = gps.sec
    BY <2>1 DEF Types, GpsTypes
  <2>3. /\ now % S \in 0 .. S - 1 /\ 0 \in 0 .. S - 1
        /\ now = S * gps.sec + (now % S) /\ now - (now % S) = S * gps.sec + 0
    <3> DEFINE k == now \div S
               r == now % S
    <3>1. k \in Int /\ r \in 0 .. S - 1 /\ now = S * k + r
      BY <2>1
    <3>2. gps.sec = k
      BY <2>1
    <3> HIDE DEF k
    <3>3. 0 \in 0 .. S - 1 /\ now - r = S * k + 0
      BY <2>1, <3>1
    <3>4. QED
      BY <3>1, <3>2, <3>3
  <2>4. \E x \in 0 .. S - 1 : TrigCnt = Counter(S * gps.sec + x)
    BY <2>3 DEF TrigCnt
  <2>5. QED
    BY <2>2, <2>4 DEF SampleInSecond, Counter
<1>2. CASE UNCHANGED gps
  BY <1>2 DEF SampleInSecond, Counter
<1>3. CASE GpsMessage \/ GpsSync
  BY <1>3 DEF GpsMessage, GpsSync, SampleInSecond, Types, GpsTypes
<1>4. QED
  BY <1>1, <1>2, <1>3
  DEF Next, RmcSentence, CheckAge, CheckXtal, SyncDisable, SyncUnix, SyncTrig,
      SyncEnable, Tick, SetHost, Ended, vars, gpsVars

\* The UTC time is that of a message no younger than the sample.
UtcTimely ==
  /\ gps.pc # "wait" => utc <= gps.sec
  /\ ref.utc <= ref.gps

LEMMA UtcTimelyStep ==
  ASSUME Types, UtcTimely, [Next]_vars
  PROVE  UtcTimely'
<1>1. CASE RmcSentence
  BY <1>1 DEF RmcSentence, UtcTimely
<1>2. CASE GpsMessage
  <2>1. gps'.sec = Seconds(now) /\ ref' = ref /\ utc' = utc
    BY <1>2 DEF GpsMessage, Types, GpsTypes
  <2>2. utc <= Seconds(now)
    BY DEF Types, GpsTypes
  <2>3. QED
    BY <2>1, <2>2 DEF UtcTimely
<1>3. CASE GpsTrig
  BY <1>3 DEF GpsTrig, UtcTimely, Types, GpsTypes
<1>4. CASE GpsSync
  <2>1. gps.pc = "sync" /\ gps'.pc = "wait"
    BY <1>4 DEF GpsSync, Types, GpsTypes
  <2>2. ref' = ref \/ (ref'.utc = utc /\ ref'.gps = gps.sec)
    BY <1>4 DEF GpsSync
  <2>3. QED
    BY <2>1, <2>2 DEF UtcTimely
<1>5. CASE UNCHANGED <<ref, utc, gps>>
  BY <1>5 DEF UtcTimely
<1>6. QED
  BY <1>1, <1>2, <1>3, <1>4, <1>5
  DEF Next, CheckAge, CheckXtal, SyncDisable, SyncUnix, SyncTrig, SyncEnable, Tick,
      SetHost, Ended, vars, gpsVars

\* In less than a turn, the difference of two values of the counter is the time
\* between them.
LEMMA CounterDifference ==
  ASSUME NEW g \in Nat, NEW s \in Nat, g <= s, S * (s - g + 1) <= W,
         NEW x \in 0 .. S - 1
  PROVE  (Counter(S * s + x) - Counter(S * g)) % W = S * (s - g) + x
<1>1. S \in Nat \ {0} /\ W \in Nat \ {0} /\ Phase \in Nat
  BY TimeRefAssumption
<1> DEFINE d == s - g
           a == S * s + x + Phase
           b == S * g + Phase
<1>2. d \in Nat /\ a \in Int /\ b \in Int /\ S * d \in Nat
  BY <1>1
<1>3. a - b = S * d + x
  <2>1. S * s = S * g + S * d
    BY <1>1, <1>2
  <2>2. QED
    BY <1>1, <2>1
<1>4. (Counter(S * s + x) - Counter(S * g)) % W = (a - b) % W
  BY <1>1, <1>2, ModDifference DEF Counter
<1>5. S * d + x \in 0 .. W - 1
  <2>1. S * (d + 1) = S * d + S /\ S * (d + 1) <= W
    BY <1>1, <1>2
  <2>2. QED
    BY <1>1, <1>2, <2>1
<1>6. (S * d + x) % W = S * d + x
  <2> HIDE DEF d
  <2>1. QED
    BY <1>1, <1>5
<1>7. QED
  BY <1>3, <1>4, <1>6

\* What a tolerance of one part in Parts makes of a sample that is x ticks late,
\* d seconds after the reference, if the UTC times say e seconds more: without a
\* second too much the sample is late by the tolerance at most, with one early by
\* it at most, and two are too many.
LEMMA ToleranceBounds ==
  ASSUME NEW d \in Nat, NEW e \in Int, NEW x \in 0 .. S - 1, S * (d + 1) <= W,
         Parts * (x - S * e) \in -(S * (d + e)) .. S * (d + e)
  PROVE  \/ Parts * x <= S * d
         \/ e = 1 /\ Parts * (S - x) <= S * (d + 1)
<1>1. S \in Nat \ {0} /\ Parts \in Nat \ {0} /\ W \in Nat \ {0} /\ W <= S * (Parts - 1)
  BY TimeRefAssumption
<1> DEFINE se == S * e
           sd == S * d
           px == Parts * x
           pse == Parts * se
<1>2. se \in Int /\ sd \in Nat /\ px \in Int /\ pse \in Int /\ x \in Int
  BY <1>1
<1>3. S * (d + e) = sd + se /\ S * (d + 1) = sd + S
  BY <1>1
<1>4. Parts * (x - S * e) = px - pse
  BY <1>1
<1>5. px - pse <= sd + se /\ -(sd + se) <= px - pse
  BY <1>2, <1>3, <1>4
<1>6. CASE e <= 0
  <2>1. se <= 0
    BY <1>1, <1>6
  <2>2. pse <= 0
    <3> HIDE DEF se
    <3>1. QED
      BY <1>1, <1>2, <2>1
  <2> HIDE DEF se, sd, px, pse
  <2>3. px <= sd
    BY <1>2, <1>5, <2>1, <2>2
  <2>4. QED
    BY <2>3 DEF px, sd
<1>7. CASE e = 1
  <2>1. se = S
    BY <1>1, <1>7
  <2>2. Parts * (S - x) = pse - px
    BY <1>1, <2>1
  <2>3. pse - px <= sd + S
    <3> HIDE DEF se, sd, px, pse
    <3>1. QED
      BY <1>1, <1>2, <1>5, <2>1
  <2>4. QED
    BY <1>3, <1>7, <2>2, <2>3
<1>8. CASE e >= 2
  <2> DEFINE f == e - 1
             y == S * (Parts - 1)
             yf == y * f
             sf == S * f
             pe == Parts * (se - x)
  <2>1. f \in Nat /\ f >= 1 /\ y \in Int /\ y >= 1
    BY <1>1, <1>8
  <2>2. yf >= y /\ yf \in Int
    <3> HIDE DEF f, y
    <3>1. QED
      BY <2>1
  <2>3. se = sf + S /\ sf \in Int
    BY <1>1, <2>1
  <2>4. pe = pse - px
    BY <1>1
  <2>5. pe >= yf + sf + Parts
    <3>1. se - x >= sf + 1 /\ se - x \in Int
      <4> HIDE DEF se, sf
      <4>1. QED
        BY <1>1, <1>2, <2>3
    <3>2. pe >= Parts * (sf + 1)
      <4> DEFINE m == se - x
                 n == sf + 1
      <4>1. m \in Int /\ n \in Int /\ m >= n
        BY <2>3, <3>1
      <4> HIDE DEF m, n
      <4>2. Parts * m >= Parts * n
        BY <1>1, <4>1
      <4>3. QED
        BY <4>2 DEF m, n
    <3>3. Parts * (sf + 1) = yf + sf + Parts
      <4>1. yf = Parts * sf - sf
        BY <1>1, <2>1
      <4>2. QED
        <5> HIDE DEF sf, yf
        <5>1. QED
          BY <1>1, <2>2, <2>3, <4>1
    <3>4. QED
      BY <3>2, <3>3
  <2>6. FALSE
    <3>1. sd + S <= y
      BY <1>1, <1>2, <1>3
    <3> HIDE DEF se, sd, px, pse, f, y, yf, sf, pe
    <3>2. pe \in Int
      BY <1>2, <2>4
    <3>3. QED
      BY <1>1, <1>2, <1>5, <2>1, <2>2, <2>3, <2>4, <2>5, <3>1, <3>2
  <2>7. QED
    BY <2>6
<1>9. QED
  BY <1>6, <1>7, <1>8

\* The check of the slope lets a right reference that is less than a turn old be
\* replaced only by one wrong by the tolerance, or by a second less the tolerance if
\* its UTC time was an old one: for every length of the second, every tolerance of
\* less than a second in a turn, and every modulus.
THEOREM SlopeHolds == Spec => SlopeCheckHolds
<1>1. Init => GpsTimely /\ SampleInSecond /\ UtcTimely
  BY TimeRefAssumption DEF Init, GpsTimely, SampleInSecond, UtcTimely
<1>2. /\ Types /\ GpsTimely /\ [Next]_vars => GpsTimely'
      /\ Types /\ GpsTimely /\ SampleInSecond /\ [Next]_vars => SampleInSecond'
      /\ Types /\ UtcTimely /\ [Next]_vars => UtcTimely'
  BY GpsTimelyStep, SampleInSecondStep, UtcTimelyStep
<1>3. Types /\ SampleInSecond /\ UtcTimely /\ [Next]_vars =>
        [LET age == ref'.gps - ref.gps
         IN  (RefSet /\ Right(ref) /\ ~Aberrant /\ S * (age + 1) <= W) =>
               \/ Parts * Late(ref') <= S * age
               \/ ref.utc < ref.gps /\ Parts * (S - Late(ref')) <= S * (age + 1)]_ref
  <2> DEFINE d == ref'.gps - ref.gps
             e == utc - ref.utc - d
  <2> SUFFICES ASSUME Types, SampleInSecond, UtcTimely, [Next]_vars, ref' # ref,
                      Right(ref), ~Aberrant, S * (d + 1) <= W
               PROVE  \/ Parts * Late(ref') <= S * d
                      \/ /\ ref.utc < ref.gps
                         /\ Parts * (S - Late(ref')) <= S * (d + 1)
    OBVIOUS
  <2>1. GpsSync
    BY DEF Next, RmcSentence, GpsMessage, GpsTrig, CheckAge, CheckXtal, SyncDisable,
           SyncUnix, SyncTrig, SyncEnable, Tick, SetHost, Ended, vars, gpsVars
  <2>2. /\ gps.pc = "sync"
        /\ ref' = [count |-> gps.cnt, utc |-> utc, gps |-> gps.sec, sys |-> Seconds(Host)]
    BY <2>1 DEF GpsSync
  <2>3. PICK x \in 0 .. S - 1 : gps.cnt = Counter(S * gps.sec + x)
    BY <2>2 DEF SampleInSecond
  <2>4. /\ gps.sec \in Nat /\ ref.gps \in Nat /\ ref.gps <= gps.sec
        /\ utc \in Nat /\ ref.utc \in Nat /\ utc <= gps.sec /\ ref.utc <= ref.gps
        /\ S \in Nat \ {0} /\ W \in Nat \ {0}
    <3>1. Seconds(now) \in Nat
      BY TimeRefAssumption DEF Types, ClockTypes, Seconds
    <3>2. QED
      BY <2>2, <3>1, TimeRefAssumption DEF Types, GpsTypes, UtcTimely
  <2>5. d = gps.sec - ref.gps /\ d \in Nat /\ e \in Int /\ utc - ref.utc = d + e
    BY <2>2, <2>4
  <2>6. S * ref.gps = ref.gps * S /\ S * gps.sec = gps.sec * S /\ S * gps.sec \in Int
    BY <2>4
  <2>7. (gps.cnt - ref.count) % W = S * d + x
    <3>1. S * (gps.sec - ref.gps + 1) <= W
      BY <2>5
    <3>2. /\ (Counter(S * gps.sec + x) - Counter(S * ref.gps)) % W
               = S * (gps.sec - ref.gps) + x
      <4> HIDE DEF d, e
      <4>1. QED
        BY <2>4, <3>1, CounterDifference
    <3>3. QED
      BY <2>3, <2>5, <2>6, <3>2 DEF Right
  <2>8. Late(ref') = x
    <3>1. S * (gps.sec - gps.sec + 1) <= W
      <4>1. S * (d + 1) = S * d + S /\ S * d \in Nat
        BY <2>4, <2>5
      <4>2. QED
        BY <2>4, <4>1
    <3>2. (Counter(S * gps.sec + x) - Counter(S * gps.sec)) % W
            = S * (gps.sec - gps.sec) + x
      <4> DEFINE s == gps.sec
      <4>1. s \in Nat /\ s <= s /\ S * (s - s + 1) <= W
        BY <2>4, <3>1
      <4> HIDE DEF s, d, e
      <4>2. (Counter(S * s + x) - Counter(S * s)) % W = S * (s - s) + x
        BY <4>1, CounterDifference
      <4>3. QED
        BY <4>2 DEF s
    <3>3. QED
      BY <2>2, <2>3, <2>4, <2>6, <3>2 DEF Late
  <2>9. Parts * (x - S * e) \in -(S * (d + e)) .. S * (d + e)
    <3> DEFINE u == utc - ref.utc
               c == (gps.cnt - ref.count) % W
    <3>1. Parts * (c - S * u) \in -S * u .. S * u
      BY DEF Aberrant
    <3>2. c - S * u = x - S * e
      <4>1. S * u = S * d + S * e
        BY <2>4, <2>5
      <4>2. QED
        <5> HIDE DEF c, u, d, e
        <5>1. S * d \in Int /\ S * e \in Int /\ c = S * d + x
          BY <2>4, <2>5, <2>7 DEF c
        <5>2. QED
          BY <4>1, <5>1
    <3>3. -S * u = -(S * u) /\ u = d + e
      BY <2>4, <2>5
    <3>4. QED
      BY <3>1, <3>2, <3>3
  <2>10. \/ Parts * x <= S * d
         \/ e = 1 /\ Parts * (S - x) <= S * (d + 1)
    <3> HIDE DEF d, e
    <3>1. QED
      BY <2>5, <2>9, ToleranceBounds
  <2>11. e = 1 => ref.utc < ref.gps
    BY <2>4, <2>5
  <2>12. QED
    BY <2>8, <2>10, <2>11
<1>4. QED
  BY TypesInvariant, <1>1, <1>2, <1>3, PTL DEF Spec, SlopeCheckHolds
=============================================================================
