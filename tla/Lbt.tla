--------------------------------- MODULE Lbt ---------------------------------
(***************************************************************************)
(* Listen before talk: lbt_is_channel_free, which lgw_send calls before it *)
(* triggers a packet.  The FPGA scans the channels and stamps when each    *)
(* was free last; a packet may be sent if it ends soon enough after that.  *)
(* The stamps run modulo 2^24 us in steps of 256, the start and the end of *)
(* a packet modulo 2^23 in steps of 4096, and the two are compared.        *)
(*                                                                         *)
(* External: the FPGA, which is taken to stamp with the counter of the     *)
(* concentrator modulo the turn of its stamps, and the packets to be sent. *)
(***************************************************************************)
EXTENDS Integers, Sequences

CONSTANTS
  Turn,        \* the turn of LBT_TIMESTAMP_MASK, mask and step: 2^23 us
  Lsb,         \* step of LBT_TIMESTAMP_MASK: 4096 us
  FpgaLsb,     \* step of the FPGA's stamps: 256 us
  W,           \* 2^32
  Margin,      \* 2048 us
  MaxTime,     \* MaxTime[scan, bw]: tx_max_time
  Plan,        \* lbt_channel_cfg: frequency (100 kHz) and scan time
  Freqs,       \* frequencies of packets (100 kHz)
  Durations,   \* airtimes of packets
  Leads,       \* how far ahead of the counter a packet may be to start
  Second,      \* one second
  StartDelay,  \* tx_start_delay
  Start, End   \* the counter when the model starts, and when it ends

\* The turn of the stamps: 16 bits of 256 us, 2^24 us.
StampTurn == 2 * Turn

ASSUME LbtAssumption ==
  /\ {W, Turn, Lsb, FpgaLsb, Margin, Second, StartDelay, Start, End}
       \subseteq Nat \ {0}
  /\ Start <= End
  /\ Turn % Lsb = 0 /\ Lsb % FpgaLsb = 0
  /\ W % StampTurn = 0 /\ W >= 2 * StampTurn
  /\ \A d \in Durations : d \in 2 * Lsb .. Turn
  /\ Leads \subseteq Nat \ {0} /\ Freqs \subseteq Nat
  /\ Plan \in Seq([freq : Nat, scan : {"fast", "slow"}])
  /\ MaxTime \in [{"fast", "slow"} \X {125, 250} -> Margin .. Turn]

VARIABLES
  clock,    \* the concentrator's counter, which does not wrap here
  free,     \* free[c]: when the FPGA found channel c free last
  check     \* the packet checked in this tick, if any, and the answer

vars == <<clock, free, check>>

Chan == DOMAIN Plan

Nothing == [answer |-> "none", chans |-> {}, limit |-> 0, ends |-> 0]

Floor(t, step) == t - (t % step)

\* A time under LBT_TIMESTAMP_MASK, and the stamp of a channel.
Masked(t) == Floor(t, Lsb) % Turn
Stamp(c) == Floor(free[c], FpgaLsb) % StampTurn

-----------------------------------------------------------------------------
\* The channels a packet occupies: the one at its frequency, or two consecutive
\* ones 200 kHz apart with its frequency between them; the first that fits.
Fits(c, freq, bw) ==
  IF bw = 125 THEN Plan[c].freq = freq
  ELSE /\ c + 1 \in Chan
       /\ Plan[c + 1].freq = Plan[c].freq + 2
       /\ freq = Plan[c].freq + 1

Decoded(freq, bw) ==
  LET fit == {c \in Chan : Fits(c, freq, bw)}
  IN  IF fit = {} THEN {}
      ELSE LET c == CHOOSE x \in fit : \A y \in fit : x <= y
           IN  IF bw = 125 THEN {c} ELSE {c, c + 1}

First(cs) == CHOOSE c \in cs : \A d \in cs : c <= d

\* tx_max_time, of the first channel; 0 without one.
Limit(cs, bw) == IF cs = {} THEN 0 ELSE MaxTime[<<Plan[First(cs)].scan, bw>>]

\* Defect: the later of two stamps counts.
LastFreeLater(cs) ==
  IF cs = {} THEN 0
  ELSE CHOOSE t \in {Stamp(c) : c \in cs} : \A c \in cs : Stamp(c) <= t

\* lbt_time: the smaller of the stamps.
LastFree(cs) ==
  IF cs = {} THEN 0
  ELSE CHOOSE t \in {Stamp(c) : c \in cs} : \A c \in cs : t <= Stamp(c)

\* Defect: the stamps are not expected to wrap.
DeltaNoWrap(lbt, end) == (end - lbt) % W

\* delta_time; behind a wrap, a step of the mask is missing, and for a stamp in
\* the upper half of its turn the difference may be less than zero.
Delta(lbt, end) ==
  IF lbt < end THEN end - lbt ELSE ((Turn - Lsb - lbt) + end) % W

\* tx_allowed; without a channel the limit wraps, and the stamp is zero.
Allowed(lbt, end, limit) ==
  Delta(lbt, end) < (limit - Margin) % W /\ lbt # 0

\* The packet starts at the count it carries or, with ON_GPS, at the pulse of the
\* next second: the counter read is that of the last one.
LastPulse == Floor(clock, Second)
StartTime(mode, lead) ==
  IF mode = "TIMESTAMPED" THEN clock + lead ELSE LastPulse + StartDelay + Second

\* lbt_is_channel_free
IsChannelFree ==
  /\ check = Nothing
  /\ \E mode \in {"TIMESTAMPED", "ON_GPS"}, bw \in {125, 250},
        freq \in Freqs, dur \in Durations, lead \in Leads :
       LET start == StartTime(mode, lead)
           cs == Decoded(freq, bw)
           end == Masked(Masked(start) + dur)
       IN  check' = [answer |-> IF Allowed(LastFree(cs), end, Limit(cs, bw))
                                THEN "allowed" ELSE "refused",
                     chans |-> cs, limit |-> Limit(cs, bw), ends |-> start + dur]
  /\ UNCHANGED <<clock, free>>

\* Another modulation is refused, an immediate packet an error: no trigger.
NotSupported ==
  /\ check = Nothing
  /\ check' \in {[Nothing EXCEPT !.answer = a] : a \in {"refused", "error"}}
  /\ UNCHANGED <<clock, free>>

\* Time passes, and the FPGA finds some of the channels free.
Tick ==
  /\ clock < End
  /\ clock' = clock + 1
  /\ \E found \in SUBSET Chan :
       free' = [c \in Chan |-> IF c \in found THEN clock + 1 ELSE free[c]]
  /\ check' = Nothing

Ended == clock = End /\ check # Nothing /\ UNCHANGED vars

Init == clock = Start /\ free = [c \in Chan |-> Start] /\ check = Nothing

Next == IsChannelFree \/ NotSupported \/ Tick \/ Ended

Spec == Init /\ [][Next]_vars
-----------------------------------------------------------------------------
\* How long after the channel was free the packet ends, and whether that is so
\* within a turn of the mask: a channel that is busy for longer looks free again.
Since(c) == check.ends - free[c]
WithinATurn == \A c \in check.chans : Since(c) < Turn

TypeOK ==
  /\ clock \in Start .. End
  /\ \A c \in Chan : free[c] \in Start .. clock
  /\ check.answer \in {"none", "allowed", "refused", "error"}
  /\ check.chans \subseteq Chan
  /\ check.answer = "allowed" => check.chans # {}

\* A packet that may be sent ends less than three steps of the mask after the
\* limit less the margin, counted from when its channel was free: the start, the
\* end and the wrap lose one each.  Of a pair of channels that holds for both,
\* unless the stamps have wrapped between theirs.  Without a channel of
\* the plan nothing may be sent, though the limit wraps.
AllowedEndsInTime ==
  (check.answer = "allowed" /\ WithinATurn) =>
    LET OnTime(c) == Since(c) < check.limit - Margin + 3 * Lsb
    IN  /\ \E c \in check.chans : OnTime(c)
        /\ (\A c, d \in check.chans : free[c] \div StampTurn = free[d] \div StampTurn)
             => \A c \in check.chans : OnTime(c)

\* The stamps wrap between when a channel was free and the end of the packet.
StampsWrap(c) == free[c] \div StampTurn < check.ends \div StampTurn

\* A packet for channels of the plan is refused only if it would end later than
\* the limit less the margin and a step of the stamps, for a stamp of zero, or
\* because the stamps wrap before its end: it may then end as early as it likes.
RefusedForAReason ==
  (check.answer = "refused" /\ check.chans # {} /\ WithinATurn) =>
    \E c \in check.chans : \/ Since(c) > check.limit - Margin - FpgaLsb
                           \/ Stamp(c) = 0
                           \/ StampsWrap(c)
=============================================================================
