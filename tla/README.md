# Verification of udp-que-list

`udp-que-list` is the software of a LoRaWAN gateway with two SX1301
concentrators. Three processes run on it:

- `semtech0` and `semtech1`, two packet forwarders (two copies of Semtech's
  `lora_pkt_fwd` with its library `libloragw`), one for each concentrator;
- `shipment`, a relay between them and the LoRaWAN server. The forwarders
  believe that it is the server, the server believes that it is a gateway.

This directory holds TLA+ models of the parts that decide what happens to a
packet, TLC configurations that check them on small instances, and proofs for
every size of the instance where that is possible. In what follows `SHIP` is
`src/shipment/src/lora_pkt_shipment.c`, `MAIN` is `src/shipment/src/main.c`,
`FWD` is `src/semtech0/packet_forwarder/lora_pkt_fwd/src/lora_pkt_fwd0.c`,
`JIT` and `TS` are `jitqueue.c` and `timersync.c` beside it, and `HAL`, `GPS` and
`LBT` are `loragw_hal.c`, `loragw_gps.c` and `loragw_lbt.c` in
`src/semtech0/lora_gateway/libloragw/src`.

## 1. Inventory

| Component | State | Operations | Talks to | Correct when |
|---|---|---|---|---|
| Packet rings (`SHIP` 67-278) | `edUdpPkt_Que`, `serJsonPkt_Que`: 250 slots, `front`, `rear`, one mutex each | init, IsFull, IsEmpty, In, Out | two producer threads and one consumer each | what is accepted comes out whole, in order, once; losses only by a refusal or an explained overrun |
| Relay threads (`MAIN` 73-400, 536-582) | `pPktId_que_header` (token list), `clientAddr_0/1`, `last_send_sx1301`, buffers on the stacks | two receivers from the forwarders, one sender to the server, two receivers from the server, one router | UDP sockets, both rings | an acknowledgement goes to one who asked, a PULL_RESP to the concentrator that owns its channel |
| Relay start-up (`SHIP` configuration, `Socket_init`) | channel plans, sockets | run once | files, sockets | (sequential) |
| Relay shutdown (`MAIN` 402-425, 536) | `exit_sig`, `quit_sig`, the sockets | signal handler, test of the flags | every thread | the process ends when told to |
| Log macros (header of `SHIP`) | static buffers shared by all threads | `SHIPM_dbg`, `_inf`, `_err` | all threads | a line is not mixed from two |
| Just-in-time queue (`JIT`) | at most 32 packets sorted by departure time, `num_beacon` | init, is_full, enqueue, peek, dequeue, sort | `thread_down`, `thread_jit` | no two transmissions overlap, nothing early or late is accepted, what is due is found |
| Downlink scheduling (`FWD` 2577-2658) | index and packet between steps | peek, dequeue, status, send | queue, HAL, clock | what the server was promised is sent, in time |
| Downlink protocol (`FWD` 1889-2551) | tokens, `autoquit_cnt`, `last_beacon_gps_time` | PULL_DATA, PULL_ACK, PULL_RESP, TX_ACK, beacon allocation | relay, queue, GPS reference | one TX_ACK per PULL_RESP; a beacon at each beacon time; no quitting while the server answers |
| Uplink protocol (`FWD` 1448-1884) | token, `report_ready`, counters | fetch, filter, PUSH_DATA, PUSH_ACK | HAL, relay, statistics | each fetched packet that passes the filter is sent once |
| Statistics (`FWD` 977-1443) | counters `meas_*`, `status_report` | copy and reset every interval | all threads | an event is counted in one report |
| Clock synchronisation (`timersync.c`) | `offset_unix_concent` | sample every minute, convert | `thread_down`, `thread_jit` | error of the conversion is bounded |
| GPS reference (`FWD` 2663-2890, `loragw_gps.c`) | `time_reference_gps`, `gps_ref_valid`, `xtal_correct` | sync, validate, convert | uplink, beacons | an old reference is not used |
| HAL (`loragw_hal.c`) | registers of the concentrator | `lgw_send`, `lgw_status`, `lgw_abort_tx`, `lgw_receive` | SPI, LBT | a programmed packet starts when its count says |
| Listen before talk (`LBT` 218-360) | the time stamps of the FPGA | check before send | HAL, FPGA | a packet that may be sent ends soon after its channel was free |
| SPI, registers, radio, FPGA; log4cplus; parson, base64; test programs | - | - | - | hardware access, vendored code, pure encodings |

What is hard: receivers and consumers test a ring in one critical section and
move its index in a second one; the threads of the forwarder read the clock
before they lock the queue, and use an index and a status in later critical
sections; all times are 32-bit microseconds that wrap every 71 minutes; UDP
loses, duplicates and reorders; the relay routes an answer by a token that two
forwarders choose independently, or by what it did for the answer before.
`PROJECT.json` lists each of these under `hazards`, at the line where it bites.

## 2. Modules

    shipment:   Ring <- PktQue -- implements AtMostOnceChannel    RelayStop
                  \---- Relay

    semtech0/1: JitQueue <- JitSched                              Uplink
                    \---- Beacon                                  TimeRef
                Downlink -- implements DownlinkService            Lbt

    proofs:     XProofs extends X, for X = PktQue, Relay, RelayStop,
                JitSched, Downlink, Uplink, TimeRef, Lbt

| Module | Models |
|---|---|
| `Ring` | index arithmetic shared by both rings: `Succ`, `IsFull`, `IsEmpty` |
| `AtMostOnceChannel` | the abstract specification of a ring |
| `PktQue` | `edUdpPkt_Que` with In and Out as the two critical sections each of them is, any number of producers, one consumer |
| `Relay` | all seven threads of the relay with both rings, the token list, the addresses and the routing decision |
| `RelayStop` | signals, flags, sockets and waits of the relay's threads |
| `JitQueue` | the just-in-time queue as operators on a sequence: every criterion of `jit_enqueue`, the choice of a time for immediate downlinks, `jit_peek` with its purge, `jit_dequeue` |
| `JitSched` | `thread_down`'s enqueues, `thread_jit` step by step, the clock and the concentrator |
| `Beacon` | the allocation of beacons by `thread_down`, with the conversion of GPS time |
| `TimeRef` | `thread_gps`, `thread_valid` and `thread_timersync` with the references they keep |
| `Downlink` | PULL_DATA, PULL_ACK, auto-quit, PULL_RESP and TX_ACK in `thread_down`, against `main`'s reports and its end of the process |
| `DownlinkService` | the abstract specification of what the forwarder promises for a PULL_RESP |
| `Uplink` | `thread_up` with its counters and the status report, against `main`'s statistics loop and a network that loses and repeats |
| `Lbt` | `lbt_is_channel_free` with the time stamps it reads |
| `MC*` | instances for TLC |
| `*Proofs` | the theorems about a module (section 4) |

### Rings (`PktQue`)

A slot's fields hold the number of the packet their content comes from, 0 when
cleared: this tells a whole packet from a mixture and from a wiped one.
`Recv` is `recvfrom` in a receiver; `InRefused` and `InPass` are the call of
IsFull in In (`SHIP` 122), `InPut` the rest of In, `OutEmpty`/`OutPass` the call
of IsEmpty in Out (`SHIP` 150), `OutTake` the rest of Out including its
`memset` of the rear slot's payload (`SHIP` 171; the slot taken is the front
slot). `lapped` and `raced` are history: they name the overrun and its cause.

### Relay (`Relay`)

One action per blocking point or critical section of each thread: `RecvUp`,
`CheckUp`, `PutUp` for the receivers (SX1301_1's receiver is `main` itself: a
datagram of unknown type makes it return and ends the process); `PollUp`,
`TakeUp`, `SendToServer`, `MarkIdInfo` for the sender, which sends first and
marks the token afterwards; `RecvDown`, `CheckDown`, `PutDown`; `PollDown`,
`TakeDown` and the routing actions (`RoutePullResp`, `RouteAck`, ...), which use
the variables `l_fd` and `clientAddr` left over by the datagram before where the
code does. An address is the concentrator and the socket of its forwarder.
Slots that are not waiting are reset (their fields are never read, as
`TakesAWholePacket` shows for every ring). Frequencies are in kHz; `Owner` is
`get_sx1301_from_floatfreq` with its tolerance and its order of search.
The server is external: it may answer whatever it has received, late, twice or
never, and the network may lose its answers.

### Scheduling (`JitQueue`, `JitSched`)

Time is the concentrator's counter modulo `W`, in ticks. Comparisons that are
modular in the code are modular here (`Ahead`); comparisons that are not are
not: criterion 1 (`TooLate`) computes its sum modulo `W` and compares plain
numbers, criterion 2 (`TooEarly`) does not wrap its sum. The queue is the sorted
sequence of its nodes. `Verdict` is the sequence of checks of `jit_enqueue`;
`HeadPurged`, `Purged` and `PeekIndex` follow the loop of `jit_peek`, which
restarts at index 1 after each purge. `Asap` adds its second as a double and casts the
sum to `uint32_t` (`JIT` 178), which C leaves undefined out of range: `ToUint` has both
outcomes of usual builds, ARM's (it saturates) and x86-64's (the low bits). `JitSample`, `JitPeek`, `JitDequeue`,
`JitStatus` and `JitSend`/`JitSendFails` are the successive critical sections of
`thread_jit`; `DownSample` and `DownEnqueue` those of `thread_down`. `RadioTick`
is external: the concentrator starts a programmed packet `StartDelay` before its
count and is busy until its airtime is over; one programmed too late is not sent.

### Uplink (`Uplink`)

`UpFetch` is the loop's condition and `lgw_receive`, `UpFlag` the unlocked reading
of `report_ready`, `UpFilter` one packet's critical section of `mx_meas_up` and
its serialisation, `UpSkip` the early `continue`, `UpReport` the critical section of
`mx_stat_rep`, `UpSend` and `UpCount` the sending and counting of the datagram,
`UpAck`/`UpNoAck` the two attempts to receive, during which `mx_meas_up` stays
locked (`Locked`). `MainCopy` and `MainReport` are the two critical sections of
`main`'s loop that matter to the uplink, `Signal` sets `exit_sig` or `quit_sig`.
The acknowledgement of any datagram that has reached the server may arrive at any
later time, any number of times. The wait of `main` is longer than two turns of
`thread_up`'s loop (30 s by default, against 10 ms of sleep or twice half of
`PUSH_TIMEOUT_MS`): `cycles` counts them. Fatal errors that call `exit` are left out.

### The end of the relay (`RelayStop`)

Every thread is a loop of four places: it tests the flags (`Test`), enters its
call (`Enter`), waits, and works on what came (`Receive`, `Done`). `Timeout` is
the time-out of a socket or the sleep after an empty ring; `localSer_fd1`, which
`main` reads, has none. `Signal` is the first part of `sig_handler`, on any
thread: it interrupts the call of that thread only. `Close` is the rest of it; the
mask of the handler is empty, so `handlers` may hold several, for other signals on the
same thread and for any on others. A
receiver that already waits is not woken by the closing of its socket, one that
enters its call afterwards fails at once. A datagram of unknown type ends its
receiver (`Fatal`), and with `main` the process.

### Beacons (`Beacon`)

`Recv`, `BeaconQueued`, `BeaconRefused` and `BeaconLoopEnds` are `thread_down`
from one `recv` to the next (`FWD` 2094-2195), with `num_beacon` read once and
without a lock, and every refused beacon retried one period later. `Verdict` and
`Enqueued` are those of `JitQueue`. The cast of a difference to `uint32_t` in
`lgw_gps2cnt` (`GPS` 830) is `ToUint`. A beacon is identified by the time in its
payload and the time at which it was queued. `Tick` lets time pass when `thread_down` has
nothing to do (`DownIdle`), and at the moments in `Stalls` also while it has. GPS time
is true time; the errors of the reference are the subject of `TimeRef`.

### Time references (`TimeRef`)

`RmcSentence` takes the UTC time, before or after the NAV-TIMEGPS message of its second;
`GpsMessage`, `GpsTrig` and `GpsSync` are that message, `gps_process_sync` and
`lgw_gps_sync` with the test for aberrant samples; `CheckAge` and `CheckXtal` the two critical
sections of `thread_valid`; `SyncDisable` to `SyncEnable` the steps of
`thread_timersync`, between which the register of the counter shows something
else (`TrigCnt`). RMC and NAV-TIMEGPS messages may be lost, and the host's clock
may be set once. The crystal is exact, but the slope test tolerates an error of one
part in `Parts` (10 ppm in the code) of the age of the reference, so wrong samples can
pass it.

### Downlink protocol (`Downlink`, `DownlinkService`)

`thread_down` from `PullData` to `Answer`, one action for each critical section of
`mx_meas_dw` and each call of the queue. A PULL_RESP takes one of four ways:
`RespMalformed` is dropped without an answer, `RespUnlocked` is refused before
anything is counted, `RespUnfit` and `RespFit` are counted, and `RespFit` is
enqueued. Which way a PULL_RESP takes is the code's classification of its data, which are left
out. The queue is the set of PULL_RESPs in it, and any criterion may refuse.
`MainCopy`, `MainTest` and `MainExit` are `main`'s copy and reset of the counters,
its test of the flags and its end, which cancels `thread_down` wherever it is.
PULL_ACKs come for any PULL_DATA sent, at any later time, any number of times, and
`rand()` may draw a token again.

`DownlinkService` says what the server may rely on: PULL_RESPs are settled one by
one, in order, and each is told at most once what really happened to it.

### Listen before talk (`Lbt`)

`IsChannelFree` is the function for a LoRa packet with a count or with a GPS
pulse to start at, `NotSupported` its other ways out. `Stamp` and `Masked` cut the
two clocks to their different steps and turns: stamps have 16 bits of 256 us, a turn of
2^24 us (`StampTurn`), the times of packets are cut by `LBT_TIMESTAMP_MASK` to 4096 us
and a turn of 2^23 us (`Turn`). `Delta` is their difference, with one step missing behind
a wrap and less than zero (modulo `W`) for a stamp in the upper half of its turn whose
packet ends behind it; `Allowed` is the comparison, whose limit wraps when no channel
fits. The FPGA is external: it is taken to stamp with the concentrator's counter, each
channel whenever it finds it free.

## 3. What the checks show

Passing runs:

| Run | Shows |
|---|---|
| `ring` | Two producers and a consumer on a ring of 4 slots, 8 packets (two turns). What Out copies is one whole packet, even after an overrun (`TakesAWholePacket`). `rear` can reach `front` only when another producer has put a packet between a producer's test and its put (`LapNeedsRace`). Until then no packet is lost or taken twice (`NoLossUnlessLapped`), and only packets that were not alone in the ring can lose their payload to the `memset` of the wrong slot (`FirstOfBurstIntact`). The ring implements the channel (`ChannelSpec`), and every accepted packet is taken, unless the ring is overrun (`AcceptedIsTaken`). |
| `relay` | Acknowledgements reach only those who used their token, at most once for each use (`AckReachesASender`), and one is dropped only when all uses have been answered, or when it overtakes the marking of its token (`AckDropExplained`). Sockets and addresses are never mixed (`SocketMatchesAddress`), and a PULL_RESP in a channel of one concentrator reaches the PULL_DATA socket of its forwarder (`PullRespReachesItsConcentrator`), whatever came before it. The scenario has one token used by both forwarders, a TX_ACK, and the token 0 of wiped payloads. |
| `relay_stop` | A relay that was told to stop hangs only if `main` missed the signal: it came between its test of the flags and `recvfrom`, or another thread handled it (`HangNeedsMissedSignal`). It ends all the same if the forwarder of SX1301_1 goes on sending (`SignalEnds`); the other threads need no such help (`OthersEnd`). |
| `uplink` | Every packet that passes the filter is sent in one datagram and no other (`ForwardedOnce`); copying and resetting the counters while `thread_up` counts loses and repeats nothing (`NothingUncounted`); the figures of each report fit together (`ReportConsistent`), which is due to the lock held while waiting for the PUSH_ACK; a late acknowledgement is not taken for that of the next datagram (`AcksAreReal`); reports arrive in order, although the flag is read without its lock (`ReportsInOrder`), and are sent even when no packet arrives (`ReportIsSent`). |
| `downlink` | What `DownlinkService` promises (`ServiceSpec`); every PULL_RESP that is a request is answered in the end (`ResponseAnswered`); in every report the rejected are among the requested and these among the received (`ReportNested`); a forwarder whose server stops acknowledging ends (`SilentServerQuits`). |
| `downlink_pull` | Five PULL_DATA with two tokens: the forwarder quits by itself only if the last `Threshold` of them were not acknowledged in time (`QuitOnlyWhenUnanswered`), and no duplicate is counted (`NoExcessAck`). |
| `jit_busy` | Up to three requests for a queue of two: the queue holds no more than it has room for and counts its beacons (`TypeOK`), and each loss of an acknowledged packet has one of three causes: it was not timely, it was in conflict with another, or a packet that should have been rejected as too late was accepted and shifted the queue (`LossExplained`). |
| `jit_wrap` | Around the wrap of the counter and with every result of `lgw_send`: packets in the queue never overlap on the air (`AirtimesDisjoint`); unless a packet that should have been rejected as too late has been accepted, the packet dequeued is the one peeked (`DequeuesWhatItPeeked`), and a packet accepted within its limits and in conflict with no other is programmed in time (`SentInTime`). The requests include some in the past, so the exception occurs. Away from the wrap the verdicts of `jit_enqueue` are exact (`VerdictRightBeforeWrap`). |
| `beacon` | Never more beacons than wanted, although their number is read without a lock (`NoExcessBeacon`); a beacon time passes without a beacon only if `jit_enqueue` has refused that very beacon for a reason that is true, the wrap of the counter among them, or accepted it in vain (`MissExplained`); a beacon is sent at another time than the one in its payload only if that time was almost a turn of the counter past or a turn ahead when it was queued, or past while criterion 1's sum wraps (`BeaconOffExplained`). All three cases occur in the run. |
| `time_ref` | Against a right reference less than a turn of the counter old, the test of slopes passes no pair that is wrong by more than its tolerance, 10 us for each second of the reference's age, or, if the reference has the UTC time of an earlier second, by less than a second less that tolerance (`SlopeCheckHolds`); and a wrong reference gives way after three right samples (`WrongRefIsReplaced`); validity flags are not set on an old or unstable reference (`FlagsAreEarned`); the host's idea of the counter is as exact as `thread_timersync` is quick, across the wrap (`ClockIsExact`). |
| `lbt` | How late a packet that may be sent can end (`AllowedEndsInTime`) and why one is refused (`RefusedForAReason`), around the wrap of the stamps, where a packet may be refused however early it ends. |

One run finds a disagreement between the code and its own comments:

| Run | Finds |
|---|---|
| `jit_queued_is_sent` | "Once the packet is queued, it has to be sent" (`jitqueue.h` 114): a packet that conflicts with one just handed to the concentrator is accepted, then dropped because the concentrator is busy (`FWD` 2620). |

Further observations made while modelling, which no run of their own demonstrates:

- Criterion 1 "(handle roll-over)" (`JIT` 229) does not: a packet whose time lies
  behind the wrap is rejected as too late (`JIT` 232). `VerdictRightBeforeWrap`
  excludes exactly this case.
- Nor does it refuse every packet that is too late: when the sum it compares with has
  wrapped, a time before the wrap, just past or due in less than the sum of the delays,
  is larger. The sort puts it before the
  packet `thread_jit` has peeked, so that `jit_dequeue` may take the wrong one, and
  others are looked at late until the next poll purges it. `AllRegular` in
  `DequeuesWhatItPeeked`, `LossExplained` and `SentInTime` excludes exactly this case.
- For beacons this means that `thread_down` retries period after period until the
  time has gone round, and queues a beacon whose payload names a time whole turns
  away. After a loss of the GPS of almost a turn, or in the 32 ms before the wrap, a
  beacon for a time past may be accepted too. `BeaconOffExplained` says when.
- A sample read while the GPS mode is off passes the slope test against a reference
  that is old enough: 36 ms after the pulse, against one an hour old (10 us a second).
- "restart loop after purge to find packet to be sent" (`JIT` 412): the restart
  skips the new head. The next poll finds it, 10 ms later.
- `meas_nb_tx_ok`, "count packets emitted successfully" (`FWD` 193), also counts
  packets blocked by listen-before-talk (`FWD` 2644).
- A full queue is counted and answered as `COLLISION_PACKET` (`Text` in `Downlink`).
- A PULL_ACK may be counted in the report after that of its PULL_DATA, so one report
  can show more than 100 % acknowledged; `NoExcessAck` adds reports up.
- Of `AllowedEndsInTime`: three steps of 4096 us are lost to the mask, the margin is
  2048 us, so an allowed packet may end up to 10240 us later than `tx_max_time`, which
  `readme.md` 261 of `libloragw` gives as the limit.
- Of `RefusedForAReason`: the comment "It means LBT counter has wrapped" (`LBT` 329)
  is true of stamps, too, only every other time. Every 16.8 s, when a channel's stamp is just
  below 2^24 us and the packet ends just above, `LBT_TIMESTAMP_MASK - lbt_time` is
  less than zero, the difference huge, and a timely packet is refused.
- `main` of the relay hangs in `recvfrom` after a signal handled by another thread,
  until a datagram comes.

### Bounds

- Rings: the code has 250 slots. `N = 4` (3 in `Relay`) has positions that are
  neither first, second nor last; `MaxIn = 8` turns the ring twice. The theorems
  need neither bound.
- `Relay`: a few datagrams from the forwarders and `MaxDown` datagrams read from
  the server. Ring overrun, duplicate and early acknowledgements,
  the use of a stale destination and the end of a thread all occur.
- `RelayStop`: `main`, a receiver with a time-out on each side, and a consumer of a
  ring; the two threads left out have the same loops as these. With two
  signals the second can come while the first is handled, on the same thread or on
  another, or after it was missed.
- `Uplink`: two packets in one fetch or two, three datagrams with two tokens (so
  that one is used again), two reports. With this the report falls into every
  step of a turn of `thread_up`, before and after another report.
- `JitSched`: the code's 30 ms of `TX_JIT_DELAY`, 1.5 ms of start delay and 1 ms of
  margin become 4, 1 and 1 ticks; 10 ms of polling is `PollMax = 2`. `JitLag` and
  `DownLag` bound the time from the reading of the clock to the use of it.
  `LagsAssumption` is what makes the threads punctual: a poll and a lag fit between
  `TX_JIT_DELAY` and the start delay (10 ms against 28.5 ms), two polls within
  `TX_JIT_DELAY` and the start and margin delays together (20 ms against 32.5 ms), and
  `thread_down` has enqueued within start and margin delay (2.5 ms) of reading the
  clock. With larger lags, which an operating system without real time does not
  exclude, `SentInTime` and `DequeuesWhatItPeeked` are not promises of the code.
  A turn is 160 ticks (MaxAdvance 16) in the run that wraps, 200 (MaxAdvance
  40) in the other; as in the code (4295 s against 512 s) it is long compared to
  `MaxAdvance`. `AskTicks` and `EndTicks` stop the requests and time; `EndTicks`
  is at most a quarter of a turn, so that a difference of times is unambiguous, for the
  runs as for the theorems. `Ended` marks the end of time, so that deadlock is checked.
- `Downlink`: in `downlink_pull` five PULL_DATA with two tokens and a threshold of 2,
  so that a token is drawn again while its first PULL_ACK is still under way; in
  `downlink` two PULL_RESPs for a queue with one place, a threshold of 1, so that the
  liveness properties and the refinement fit one run.
- `Beacon`: a turn of 80 ticks with period 6 and 94 ticks of time, so that the counter wraps twice,
  once soon after the start and once as time ends, with up to 14 retries in a row, which go past
  a whole turn (`MaxRetry * P > W`). The GPS may be lost once, from tick 2, 9 or 13 on up to
  tick 76, almost a turn later. `Moments`, `Stalls` and `Pauses` limit when the
  environment acts and when time passes in the middle of `thread_down`'s work, to moments
  before, at and after a beacon, before and behind the wrap. The GPS reference is at
  most one tick old.
- `TimeRef`: two ticks to the second, 11 ticks of time, two periods of
  `thread_timersync`, and a turn of 9 ticks, which a second does not divide and
  which is shorter than the time modelled: a reference can be a turn old. The slope may
  be off by one part in 6: that is a tick after three seconds, as 10 ppm are up to
  43 ms, and always less than a second (`W <= S * (Parts - 1)`), as in the code. A
  reference is old after one second. The host's clock may be set 5 ticks back (2.5 s) or 6
  ahead (3 s). `Lag = 1` lets a GPS pulse fall between the steps of `thread_timersync`.
- `Lbt`: a turn of 40 ticks for packets and of 80 for stamps, with steps of 4 and 2 and a
  margin of 2, as in the code 2^23, 2^24, 4096, 256 and 2048 us in order of size; the
  counter runs from 67 to 92, past the wrap of both, with stamps in the upper half of
  their turn and zero among them. A packet lasts at least two steps of the mask: the
  shortest LoRa packet lasts about 10 ms. The longest airtime of a channel (200 ms to 4 s
  in the code) is assumed to be at least the margin, so that the limit does not wrap for
  a channel that fits.

### Fairness

`FairSpec` of `PktQue` assumes weak fairness of the consumer's two
critical sections. `ShipM_sendtoLoRaWANSer_thread` is a loop that sleeps and
calls Out again; a critical section of Out that is enabled stays enabled, since
producers only add packets (except by an overrun, which `AcceptedIsTaken` exempts).
Producers need not be fair. `FairSpec` of `Uplink` assumes weak fairness of
`thread_up` as a whole: each of its steps is enabled until it is taken, its sockets
have a time-out, and `main` holds the mutexes only for a copy.

`FairSpec` of `Downlink` assumes weak fairness of `thread_down`'s own steps, of the
end of a keepalive interval (`NextPull`: the loop compares the time after each
`recv`, which has a time-out), of `main` and of the end of `thread_up` once it
is told to stop. Nothing is assumed of the server, of `thread_jit` or of signals.
`FairSpec` of `RelayStop` assumes that every thread takes the steps it can take
without a datagram, and that a signal handler finishes. `SignalEnds` needs one
datagram more, and says so: its premise is weak fairness of `Receive("main")`.

## 4. What is proved

Each theorem has the form `Spec => ...` and holds for every value of the constants
that satisfies the assumption named; TLC evaluates the assumptions on every run.

| Module | Assumptions | Theorems |
|---|---|---|
| `PktQueProofs` | `NAssumption` (with one slot the ring would be full and empty at once), `ProducersAssumption`, `MaxInAssumption` | `TypeCorrect`, `TakesWhole` (`TakesAWholePacket`), `LapsAreRaces` (`LapNeedsRace`), `NoLoss` (`NoLossUnlessLapped`), `FirstIntact` (`FirstOfBurstIntact`), `Refinement` (`ChannelSpec`) |
| `RelayProofs` | `NAssumption`, `UpMsgsAssumption` (uplink data from the PUSH sockets, the rest from the PULL sockets), `TokensAssumption` (0 is a token), `FreqsAssumption`, `BoundAssumption` | `TypeCorrect`, `SocketMatches` (`SocketMatchesAddress`), `PullRespRouted` (`PullRespReachesItsConcentrator`), `AcksReachSenders` (`AckReachesASender`), `AckDropsExplained` (`AckDropExplained`) |
| `RelayStopProofs` | `StopAssumption` (`main` is one of the threads) | `TypeCorrect`, `HangsOnlyWhenMissed` (`HangNeedsMissedSignal`) |
| `JitSchedProofs` | `DelaysAssumption` (the delays are positive and the turn of the counter is long against them), `SchedAssumption` (a quarter of a turn is modelled), `LagsAssumption` (the threads are punctual); for `Beacon` that the number of beacons wanted is a natural number, and `BeaconBounds` (a reference and an advance are together shorter than a turn) | `TypeCorrect`, `VerdictsRight` (`VerdictRightBeforeWrap`), `PromisesDisjoint` (`AirtimesDisjoint`), `SchedInvariant`, `DequeuesPeeked` (`DequeuesWhatItPeeked`), `LossesExplained` (`LossExplained`), `SentWhileTimely` (`SentInTime`); of `Beacon`: `BeaconsBounded` (`NoExcessBeacon`), `BeaconsOffExplained` (`BeaconOffExplained`) |
| `DownlinkProofs` | `DownlinkAssumption` (the queue has a place, there is a token) | `TypeCorrect`, `QuitsOnlyUnanswered` (`QuitOnlyWhenUnanswered`), `AcksNotExcessive` (`NoExcessAck`), `ReportsNested` (`ReportNested`), `Implements` (`ServiceSpec`) |
| `UplinkProofs` | `UplinkAssumption` | `TypeCorrect`, `ReportsConsistent` (`ReportConsistent`), `PacketsForwardedOnce` (`ForwardedOnce`), `AllCounted` (`NothingUncounted`), `AcknowledgementsReal` (`AcksAreReal`), `ReportsOrdered` (`ReportsInOrder`) |
| `TimeRefProofs` | `TimeRefAssumption` (a lag is shorter than a second, a period longer than two, 1970 more than a turn ago, 10 ppm of a turn less than a second) | `TypeCorrect`, `WrongRefsEnd` (`WrongRefIsReplaced`), `SlopeHolds` (`SlopeCheckHolds`), `ClockExact` (`ClockIsExact`), `FlagsEarned` (`FlagsAreEarned`) |
| `LbtProofs` | `LbtAssumption` (the steps divide each other and the turn, stamps turn half as often as packets' times, a packet lasts two steps of the mask or more, a channel's airtime the margin or more) | `TypeCorrect`, `AllowedInTime` (`AllowedEndsInTime`), `RefusedWithReason` (`RefusedForAReason`) |

`PktQueProofs` and `RelayProofs` begin with the index arithmetic of the ring:
`SuccValue`, `SuccInjective`, and where a slot is counted from `front`, before and
after a packet is taken (`PosBasics`, `PosAfterTake`).

**Ring.** `TypeOK` and the properties are not inductive, because they do not
say what lies in the slots between `front` and `rear`. `IInv` adds it. A slot is
*live* when its position counted from `front` is at most `Waiting`. Live slots are
whole and newer than the packet taken last (`LiveSlotsWhole`) and get newer from
front to rear (`LiveSlotsOrdered`); without an overrun their numbers are even
consecutive (`Unlapped`). `Waiting` is `N` when the consumer has passed its test
and `rear` has come round to `front`: this is the case that makes
`TakesAWholePacket` true after an overrun. Each action has a lemma, `StepInv`
collects them and `Invariance` closes the induction. `Refinement` maps each step of
the ring to `Put`, `Get` or a stutter.

**Relay.** That a socket matches its address is a fact about items, and must be
carried wherever items go: the receivers' buffers, the slots of the uplink ring
that are waiting (lapped or not, by the `Waiting` of the ring), the sender's
buffer, the entries of the token list, and the destination the routing thread
keeps from one datagram to the next. `OwnItem` and `OwnEntry` say it,
`PutOwn` and `TakeOwn` carry it through the ring, `FindInList` through the search of
the list. `PullRespRouted` adds what `Owner` finds in the plan. For
`AcksReachSenders` the datagrams under one token from one address are counted
wherever they are: with the receivers, in the slots that wait, with the sender, in
the list, or answered. `Balanced` says that these sum up to no more than were
received; every action moves at most one from one place to the next, a lap or a
wiped payload only loses some. Token 0 is excepted, because a wiped payload is
remembered under it. `AckDropsExplained` needs more than a bound: `Settled` says that
the packets sent under a token are exactly those answered, those in the list and the
one about to be put there. `WaitsInserted` counts the list with an entry more, at its
head (marking) or anywhere (the inverse of a removal), and `FindNothing` says that a
search without a result leaves nobody waiting.

**End of the relay.** `HangNeedsMissedSignal` speaks of a hang that has happened;
`NoWaitUnlessMissed` says it of the step before: with a flag set, `main` is past its
test of the flags only if it missed the signal.

**Scheduling.** `CriteriaExact` is the heart: as long as no admissible time lies behind
the wrap, the two comparisons of `jit_enqueue` that are made without a modulus agree
with the modular distance. `VerdictMeaning` reads off the result of the call which of
them were passed, whatever is in the queue, and `DownTimes` says that the times
compared are values of the counter. The run `jit_wrap` crosses the wrap and checks what
still holds there.

For `PromisesDisjoint` the queue must be followed through every operation. Inserted
nodes come between the others (`IsInserted`, `EnqueuedFacts`), `jit_dequeue` is the inverse of an
insertion, and `jit_peek`'s purge selects nodes in their order (`Selects`,
`PurgedFacts`), whatever it restarts from. `Disjoint` is inductive then:
`CollidesMeaning` reads off criterion 3 that a node let in keeps its distance from each
of the others, both ways round the counter, and a selection of disjoint nodes is
disjoint. That the exception for the guard of a beacon never lets two airtimes overlap
is part of `CollidesMeaning`. `QueueTypes` adds that `num_beacon` is the number
of beacons in the queue, so that the count `thread_down` reads is true; `TypeCorrect`
gets the capacity from it.

The properties of real time need the life of each packet, and four invariants more;
`SchedInvariant` is their conjunction.

- `TimesInv` bounds by how much the times `thread_jit` and `thread_down` work with are
  behind the clock. Since a quarter of a turn is modelled, `Since` turns times into
  numbers that can be compared, across the wrap too.
- `PlacesInv` says that a request is in one place (with `thread_down`, in the queue, in
  the hands of `thread_jit`, in the concentrator), and that its fate tells in which.
- `OrderInv` says that the queue is sorted, and that each packet in it will be looked at
  before it is due (`Safe`). The packet peeked is in front, and in time (`InHand`):
  `EnqueuedPlace` shows that what is enqueued meanwhile comes behind it, and
  `PeekSorted` with `Keeps` that the purge, which skips an element when it restarts,
  neither takes away a timely packet nor goes past one that is due. A beacon close
  behind a downlink is the exception: the two are in conflict (`Contested`), as the
  exception for the beacon's guard allows.
- `SentInv` follows the packet from the queue on. What is in hand or programmed was in
  time, and one that is uncontested leaves the concentrator time to finish the one
  before; so a packet is found busy, aborted or overwritten only in a conflict, and
  purged only if it was not timely.

The last two hold while `AllRegular` does. A packet accepted near the wrap that should have
been rejected as too late stands in front of a sorted queue and breaks both; that it does is the code's
behaviour, not a gap of the proof (`jit_wrap` reaches it).

In the last section the same lemmas serve `Beacon`, taken
as an instance: its operators on queues are those of `JitQueue` (`SameQueue`).
`BeaconInv` says that the beacons queued and those still to be queued are no more
than wanted, because only `thread_down` adds any after it has read the number.
For `BeaconsOffExplained`, `CountMayLeave` follows a beacon's time through
`lgw_gps2cnt`, both outcomes of the cast, and the first two criteria: what
`jit_enqueue` lets in is as far ahead as its payload says, or will be purged, or has one of
the three excuses. `OffInv` says this of the queue (`MayLeave`) as time goes on; a
beacon cannot pass its time in the queue and wait a turn, because time does not pass while
`thread_jit` has something to do.

The purge is a recursive function of the queue's length, and sequences are found by
filters and counts. Facts about such definitions are proved without induction over
operators: by the least counterexample (`LeastOne`), by `Induction` over the *set* of
indices for which a fact holds, or by a bijection between the places counted before
and after a step.

**Downlink.** `Unanswered`: `autoquit_cnt` counts PULL_DATA that are the last ones
sent and have no answer in time, one more being on its way while `pc = "sent"`.
`AcksNested` and `RequestsNested` add reports, copy and counters up, so that `main`'s
copy and reset leave the sums as they are, and say by how much a sum is behind
while an event is counted in two critical sections. `AnswersDue` says what
`thread_down` has decided and not yet told, which maps its steps to `Receive`, `ReceiveRefused`,
`Decide`, `Tell` or a stutter of `DownlinkService`.

**Uplink.** A report is a copy, so the counters must be consistent at every moment
`main` may take the copy. `Counts` says that they are, and that while `thread_up` waits
for a PUSH_ACK one datagram more is counted than acknowledgements: `main` cannot
reset the counters in that time, because the mutex is held. `TodoNext` says
that the packets not yet looked at are the next ones in the order of the fetch, so
that `ForwardedOnce` grows by one packet with each filtering; `NothingUncounted` follows
`main`'s copy and reset through the sum over reports, copy and counters, and is
behind by the one packet or datagram being counted. `AckInv` names the datagram an
acknowledgement may be for: the last one, whose token `thread_up` still compares.
`ReportInv` relates `report_ready`, read without its mutex, to the number of reports
taken: `main`'s wait of two turns (`cycles`) has the flag cleared before it is set again.

**Time references.** Each invariant says by how much the clock can have gone on
between reading and use: `SampleTimely` and `OffsetExact` for `thread_timersync`,
`GpsTimely` and `CheckTimely` for the age of the reference, with the fraction
of a second that truncation loses (`Loss`). `ChecksCounted` relates `init_cpt` to the
checks that have been passed in a row, `RefusalsRemembered` the two flags of aberrant
samples to the right samples refused. `SampleInSecond` says that a pair is a value of
the counter in the second it is paired with, and `UtcTimely` that its UTC time is of that second or of an
earlier one. `CounterDifference` is the true distance of two values of the counter, and
`ToleranceBounds` what a slope within the tolerance says of it. The theorem needs a
reference less than a turn of the counter old: with an older one, and a second that does
not divide the turn, any wrong sample can be taken for a right one.

**Listen before talk.** `DeltaBounds` is the heart: for one channel, the difference
of the two truncated times is at most three steps of the mask short and one step
of the FPGA too long, wrapped or not, unless the stamps wrap in between.
Its cases are the turns in which the channel was free and the packet ends
(`StampValue`, `MaskedValue`). `SameTurn` is needed for two channels, of which the code
takes the one with the smaller stamp.

Model-checked only:

- all liveness (`AcceptedIsTaken`, `ReportIsSent`, `ResponseAnswered`,
  `SilentServerQuits`, `SignalEnds`, `OthersEnd`), which is out of the prover's reach;
- `MissExplained` of `Beacon`: it follows the reasons of all refusals since the beacon
  before, up to the bounds on time and on the beacon's number.

## 5. Not modelled

- Start-up and configuration of all three processes: sequential, run before the
  threads. What they read from files (plan, thresholds, filters) is a constant.
- The log macros of the relay, whose static buffers all threads share: their
  outcome is text in a log file. The hazard is listed.
- Registers, SPI, radio and FPGA access: hardware access without decisions of its own.
- The HAL but for `lgw_send`, `lgw_status` and `lgw_abort_tx`: `lgw_receive` reads a
  hardware buffer, and its time stamps are taken as given. What remains is
  configuration of registers. So is the set-up of listen-before-talk.
- log4cplus (a wrapper of a vendored library whose draining thread is never
  started), parson and base64 (vendored, pure), the test programs (manual,
  against a board).
- The parsing of NMEA and UBX frames, coordinates, and the low-pass filter of the
  crystal correction: computations on one message without state the threads
  share. `TimeRef` takes their results.
- `lgw_stop` at the end of the forwarder, which runs without `mx_concent` after
  `thread_jit` was cancelled: the code that it could meet is register access.
- `semtech1` is a copy of `semtech0` with other names (`jitqueue.c` is identical), so
  what is shown of one is not repeated for the other.
- `JitSched` takes `offset_unix_concent` as exact. `TimeRef` shows how exact it
  is after the first synchronisation; packets queued before it are left out.
- Acknowledgements lost between relay and forwarder: nothing in the relay waits for
  them. What their loss means for the forwarder is in `Uplink` and `Downlink`.

## 6. Plan

Done, in this order: the ring and its proofs; the relay; the queue and its
scheduling; the uplink; beacons; time references; the downlink protocol with its
service; listen-before-talk; the end of the relay; proofs about all of these.

Left, by what it would add:

1. The second ring's theorems, by instantiation of `PktQue` for `serJsonPkt_Que`.
2. `lgw_receive` and its time stamps, composed with `Uplink`.
3. The static buffers of the log macros.
4. The end of the forwarder, with the cancellation of threads that hold a mutex.
