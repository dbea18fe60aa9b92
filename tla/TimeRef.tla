------------------------------- MODULE TimeRef -------------------------------
(***************************************************************************)
(* The time references of the packet forwarder and the three threads that  *)
(* keep them:                                                              *)
(*   - thread_gps pairs the GPS time of each second with the value that    *)
(*     the concentrator's counter had at the pulse of that second          *)
(*     (gps_process_sync, lgw_gps_sync),                                   *)
(*   - thread_valid checks every second whether that pair is fresh, and    *)
(*     when the crystal correction may be used,                            *)
(*   - thread_timersync pairs the host's clock with the counter; to read   *)
(*     the running counter it turns off, for a moment, the GPS mode in     *)
(*     which the register shows the value captured at the last pulse.      *)
(* Time is in ticks, S of them to the second; a pulse comes at each        *)
(* multiple of S.  The crystal has no error, but a slope that is wrong by  *)
(* 10 ppm is taken for one.                                                *)
(***************************************************************************)
EXTENDS Integers

CONSTANTS
  S,           \* ticks in a second, and the period of thread_valid
  W,           \* 2^32: the counter's modulus
  Phase,       \* the counter at time 0
  Start, End,  \* bounds on time
  Parts,       \* a slope may be off by one part in so many: 10^5 (PLUS_10PPM)
  MaxAge,      \* GPS_REF_MAX_AGE
  InitAvg,     \* XERR_INIT_AVG
  SyncPeriod,  \* the sleep of thread_timersync
  Lag,         \* bound on the delays of thread_timersync and thread_valid
  SetTimes,    \* when the host's clock may be set, once
  Jumps        \* by how much

ASSUME TimeRefAssumption ==
  /\ {S, W, Parts, MaxAge, InitAvg, SyncPeriod} \subseteq Nat \ {0}
  /\ {Phase, Start, End, Lag} \subseteq Nat /\ Jumps \subseteq Int
  /\ Start % S = 0 /\ Start > W  \* 1970 is more than a turn ago
  /\ Start <= End
  /\ Lag < S /\ SyncPeriod > 2 * S
  /\ W <= S * (Parts - 1)        \* 10 ppm of a turn are less than a second

VARIABLES
  now,       \* the true time
  hostOff,   \* the host's clock minus the true time
  en,        \* LGW_GPS_EN
  ref,       \* time_reference_gps; sys is its systime, 0 at the start
  aber,      \* <<aber_min1, aber_min2>>
  utc,       \* the UTC second of the last RMC sentence
  gps,       \* thread_gps: [pc, sec, cnt]
  valid,     \* gps_ref_valid
  xtalOk,    \* xtal_correct_ok
  check,     \* thread_valid: [pc, next, ok, cpt]
  sync,      \* thread_timersync: [pc, next, lag, unix, good]
  offset,    \* offset_unix_concent
  clockOk,   \* history: offset is of a sample, and the host was not set since
  ageOk,     \* history: the host was not set since the last GPS sync
  wrong,     \* history: right samples in a row that left a wrong reference
  run        \* history: checks in a row that found the reference fresh

gpsVars == <<ref, aber, utc, gps, ageOk, wrong>>
validVars == <<valid, xtalOk, check, run>>
syncVars == <<en, sync, offset>>
vars == <<now, hostOff, clockOk, gpsVars, validVars, syncVars>>

Host == now + hostOff
Seconds(t) == t \div S

Counter(t) == (t + Phase) % W

\* lgw_get_trigcnt: the running counter, or its value at the last pulse.
TrigCnt == IF en THEN Counter(now - (now % S)) ELSE Counter(now)

RefSet == ref.sys # 0

\* The reference pairs a second with the counter at its pulse.
Right(r) == r.count = Counter(r.gps * S)

\* How long after the pulse the counter had the value of the reference.
Late(r) == (r.count - Counter(r.gps * S)) % W

-----------------------------------------------------------------------------
(* thread_gps *)

\* An RMC sentence gives the UTC time; it comes before or after the NAV-TIMEGPS
\* message of its second, or is lost.
RmcSentence ==
  /\ gps.pc = "wait" /\ utc < Seconds(now)
  /\ utc' = Seconds(now)
  /\ UNCHANGED <<now, hostOff, clockOk, ref, aber, gps, ageOk, wrong, validVars,
                 syncVars>>

\* A NAV-TIMEGPS message of this second; it may be lost too, or there is no fix.
GpsMessage ==
  /\ gps.pc = "wait" /\ gps.sec < Seconds(now)
  /\ gps' = [gps EXCEPT !.pc = "trig", !.sec = Seconds(now)]
  /\ UNCHANGED <<now, hostOff, clockOk, ref, aber, utc, ageOk, wrong, validVars,
                 syncVars>>

GpsTrig ==
  /\ gps.pc = "trig"
  /\ gps' = [gps EXCEPT !.pc = "sync", !.cnt = TrigCnt]
  /\ UNCHANGED <<now, hostOff, clockOk, ref, aber, utc, ageOk, wrong, validVars,
                 syncVars>>

\* Defect: twice the tolerance.
AberrantWide ==
  LET cntDiff == (gps.cnt - ref.count) % W
      utcDiff == utc - ref.utc
  IN  \/ utcDiff <= 0
      \/ Parts * (cntDiff - S * utcDiff) \notin -2 * S * utcDiff .. 2 * S * utcDiff

\* Is the slope from the reference to the sample off by more than 10 ppm?  Without
\* a later UTC time it is zero or less, or there is none.
Aberrant ==
  LET cntDiff == (gps.cnt - ref.count) % W
      utcDiff == utc - ref.utc
  IN  \/ utcDiff <= 0
      \/ Parts * (cntDiff - S * utcDiff) \notin -S * utcDiff .. S * utcDiff

\* Defect: aberrant samples are never accepted.
AcceptedNoReset == ~Aberrant

Accepted == ~Aberrant \/ (aber[1] /\ aber[2])

\* lgw_gps_sync
GpsSync ==
  /\ gps.pc = "sync"
  /\ ref' = IF Accepted THEN [count |-> gps.cnt, utc |-> utc, gps |-> gps.sec,
                              sys |-> Seconds(Host)]
                        ELSE ref
  /\ aber' = <<Aberrant, aber[1]>>
  /\ ageOk' = (ageOk \/ Accepted)
  /\ wrong' = IF Right(ref') \/ gps.cnt # Counter(gps.sec * S) THEN 0
              ELSE wrong + 1
  /\ gps' = [gps EXCEPT !.pc = "wait"]
  /\ UNCHANGED <<now, hostOff, clockOk, utc, validVars, syncVars>>

-----------------------------------------------------------------------------
(* thread_valid *)

Age == Seconds(Host) - ref.sys

\* Defect: once valid, the reference is never invalidated.
FreshForEver == valid \/ (0 <= Age /\ Age <= MaxAge)

Fresh == 0 <= Age /\ Age <= MaxAge

CheckAge ==
  /\ check.pc = "wait" /\ now >= check.next
  /\ valid' = Fresh
  /\ check' = [check EXCEPT !.pc = "xtal", !.ok = Fresh]
  /\ run' = IF Fresh THEN run + 1 ELSE 0
  /\ UNCHANGED <<now, hostOff, clockOk, xtalOk, gpsVars, syncVars>>

\* init_cpt
NextCpt == IF ~check.ok THEN 0
           ELSE IF check.cpt <= InitAvg THEN check.cpt + 1
           ELSE check.cpt

\* The crystal correction; the low-pass filter that tracks it is left out.
CheckXtal ==
  /\ check.pc = "xtal"
  /\ xtalOk' = (check.ok /\ (xtalOk \/ check.cpt = InitAvg))
  /\ check' = [pc |-> "wait", next |-> now + S, ok |-> check.ok,
               cpt |-> NextCpt]
  /\ UNCHANGED <<now, hostOff, clockOk, valid, run, gpsVars, syncVars>>

-----------------------------------------------------------------------------
(* thread_timersync *)

\* Defect: the GPS mode stays on.
SyncDisableNot ==
  /\ sync.pc = "sleep" /\ now >= sync.next
  /\ sync' = [sync EXCEPT !.pc = "unix"]
  /\ UNCHANGED <<now, hostOff, clockOk, en, offset, gpsVars, validVars>>

SyncDisable ==
  /\ sync.pc = "sleep" /\ now >= sync.next
  /\ en' = FALSE
  /\ sync' = [sync EXCEPT !.pc = "unix"]
  /\ UNCHANGED <<now, hostOff, clockOk, offset, gpsVars, validVars>>

SyncUnix ==
  /\ sync.pc = "unix"
  /\ sync' = [sync EXCEPT !.pc = "trig", !.unix = Host, !.good = TRUE]
  /\ UNCHANGED <<now, hostOff, clockOk, en, offset, gpsVars, validVars>>

SyncTrig ==
  /\ sync.pc = "trig"
  /\ offset' = sync.unix - TrigCnt
  /\ sync' = [sync EXCEPT !.pc = "enable"]
  /\ clockOk' = sync.good
  /\ UNCHANGED <<now, hostOff, en, gpsVars, validVars>>

SyncEnable ==
  /\ sync.pc = "enable"
  /\ en' = TRUE
  /\ sync' = [pc |-> "sleep", next |-> now + SyncPeriod, lag |-> 0, unix |-> 0,
           good |-> FALSE]
  /\ UNCHANGED <<now, hostOff, clockOk, offset, gpsVars, validVars>>

\* get_concentrator_time, as jit_enqueue and jit_peek reduce it.
ConcentratorTime == (Host - offset) % W

-----------------------------------------------------------------------------
(* Time and the host's clock *)

\* Each message is dealt with within its second, a check is at most Lag late,
\* and thread_timersync takes at most Lag from disabling to enabling.
Tick ==
  /\ now < End
  /\ gps.pc # "wait" => (now + 1) % S # 0
  /\ check.pc = "wait" /\ now < check.next + Lag
  /\ sync.pc # "sleep" => sync.lag < Lag
  /\ now' = now + 1
  /\ sync' = IF sync.pc = "sleep" THEN sync ELSE [sync EXCEPT !.lag = @ + 1]
  /\ UNCHANGED <<hostOff, clockOk, en, offset, gpsVars, validVars>>

SetHost ==
  /\ hostOff = 0 /\ now \in SetTimes
  /\ hostOff' \in Jumps
  /\ clockOk' = FALSE /\ ageOk' = FALSE
  /\ sync' = [sync EXCEPT !.good = FALSE]
  /\ UNCHANGED <<now, ref, aber, utc, gps, wrong, validVars, en, offset>>

\* The end of the time that is modelled.
Ended == now = End /\ UNCHANGED vars
-----------------------------------------------------------------------------
Init ==
  /\ now = Start /\ hostOff = 0 /\ en = TRUE
  /\ ref = [count |-> 0, utc |-> 0, gps |-> 0, sys |-> 0]
  /\ aber = <<FALSE, FALSE>> /\ utc = 0
  /\ gps = [pc |-> "wait", sec |-> 0, cnt |-> 0]
  /\ valid = FALSE /\ xtalOk = FALSE /\ run = 0
  /\ check = [pc |-> "wait", next |-> Start + S, ok |-> FALSE, cpt |-> 0]
  /\ sync = [pc |-> "sleep", next |-> Start, lag |-> 0, unix |-> 0,
           good |-> FALSE]
  /\ offset = 0 /\ clockOk = FALSE /\ ageOk = FALSE /\ wrong = 0

Next ==
  \/ RmcSentence \/ GpsMessage \/ GpsTrig \/ GpsSync
  \/ CheckAge \/ CheckXtal
  \/ SyncDisable \/ SyncUnix \/ SyncTrig \/ SyncEnable
  \/ Tick \/ SetHost \/ Ended

Spec == Init /\ [][Next]_vars
-----------------------------------------------------------------------------
TypeOK ==
  /\ now \in Start .. End /\ hostOff \in Jumps \cup {0} /\ en \in BOOLEAN
  /\ ref.count \in 0 .. W - 1 /\ gps.cnt \in 0 .. W - 1
  /\ {utc, ref.utc, ref.gps, gps.sec} \subseteq 0 .. Seconds(now)
  /\ check.cpt \in 0 .. InitAvg + 1 /\ sync.lag \in 0 .. Lag

\* What the slope check lets replace a right reference that is less than a turn of
\* the counter old, about 71 minutes: a pair that is wrong by no more than 10 us for
\* each second of its age, or one wrong by almost a second, if the reference has the
\* UTC time of an earlier second, its RMC sentence lost or not come yet.  Any other
\* wrong pair needs three aberrant samples in a row, or a reference a turn old.
SlopeCheckHolds ==
  [][LET age == ref'.gps - ref.gps
     IN  (RefSet /\ Right(ref) /\ ~Aberrant /\ S * (age + 1) <= W) =>
           \/ Parts * Late(ref') <= S * age
           \/ ref.utc < ref.gps /\ Parts * (S - Late(ref')) <= S * (age + 1)]_ref

\* A wrong reference (its sample fell into the moment when thread_timersync
\* has the GPS mode off) does not stay: of three right samples in a row one is
\* accepted, whatever the sentences lost and the samples refused before.
WrongRefIsReplaced == wrong <= 2

\* A flag that is set has been earned (thread_valid).  While gps_ref_valid, the
\* reference is at most MaxAge seconds old, but for the fractions of a second cut
\* off (one more if the host's seconds are not those of the GPS), the period of
\* thread_valid and its lag, unless the host's clock was set since it was taken.
\* Beacons, which need xtal_correct_ok too, are enabled only after InitAvg + 1
\* checks in a row that have found the reference fresh.
FlagsAreEarned ==
  valid => /\ ageOk => now - S * ref.gps <
                       S * (MaxAge + IF hostOff % S = 0 THEN 2 ELSE 3) + Lag
           /\ xtalOk => run > InitAvg

\* The host's idea of the counter is as exact as thread_timersync is quick,
\* from the first sample on, unless the host's clock was set since: across the
\* wrap, and whatever the register showed.
ClockIsExact ==
  clockOk => (ConcentratorTime - Counter(now)) % W \in 0 .. Lag
=============================================================================
