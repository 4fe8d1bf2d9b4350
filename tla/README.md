# A verification project for scllrf

This directory models the control of the drivers in `src/` (EPICS IOCs for the
LCLS-II low-level RF controllers) in TLA+.  TLC checks the models on small
instances; for some of the properties TLAPS proves that they hold for every value
of the constants.  The code that carries the logic is
`gunbLlrfApp/src/leepDrv.cpp` (the UDP request/response engine, base class of all
drivers), `gunbLlrfApp/src/GUNBLlrfDev.cpp` (waveform readout and register
treatment of the gun/buncher controller) and the driver generated from
`srcCheetah/templateRegisterDriver.cpp.tmpl`.

## The system

An IOC process talks to one FPGA over UDP.  A request packet is an array of
registers (address and data); the first element is a *nonce*, which holds the
request's number; the FPGA answers every packet with the same array, with the
read registers filled in.  Several threads send requests, one thread receives:

    record processing ----writes----+--> _singleMsgQ --> singleMessageQueuer --+
    (EPICS scan and channel         |                                          |
     access threads, asyn port)     |                                          v
    regPoller ----------------------|------------------------------> sendRegRequest
    TraceDataRequester (2x) --------+------ (whole trace) ----------------> |  ^
          ^                         |                                       v  | throttle
          | reqTraceDataEvent,      | status request                    UDP, FPGA
          | rawWaveRead_            |                                       |
          +------------------- responseHandler -> processReadbackBuffer <---+
                                         (netWaitingRequests_)

### Components

| Component | State it keeps | Operations | What makes it correct |
|---|---|---|---|
| Request/response engine: `leepDrv::sendRegRequest`, `responseHandler`, `processReadbackBuffer` | `netSendCount_`, `netWaitingRequests_`, `lastResponseCount_`, `comCountersMutexId_`, `readEventId_`, `isShuttingDown_`, the parameter MAX_PARALLEL_REQUESTS | send (throttled), wake up, read, flush, give up, dispatch, shut down | the FPGA never has more requests than the limit; counters are not corrupted; nobody waits for ever for an answer that does not come; shutdown ends the threads |
| Single message queue: `singleMessageQueuer` and the producers | `_singleMsgQ`, packet buffer, byte count | put, receive, aggregate, pad, send | messages go out once, in order; packets fit buffer and FPGA; producers and consumer do not wait for each other in a ring |
| Waveform readout: `TraceData::TraceDataRequester`, `ReqTraceData`, `ProcessTraceDataReadback`, the status dispatch in `processRegReadback` | `newTraceDataAvailable/Read`, `reqTraceDataEvent`, `rawWaveRead_`, `pRawIQBuf_`, `traceDataAck`, `pollEnable`, `fastUpdate`, `nChan` | see flag, signal, request parts, acknowledge, wait, publish, poll again | no trace forgotten, none published twice or mixed from two traces, acknowledged in the end |
| Settings: `writeInt32`, `writeUInt32Digital`, `processRegReadback`, `processRegWriteResponse` | asyn parameters, `chanKeep`, FPGA registers | write, echo, readback, poll, start-up mirror | what is displayed is what the FPGA has, at least when everything has been answered |
| Register poller: `regPoller`, `startPoller` events | run/stop events, poll period | start, stop, poll | polls only while it runs; stops |
| Segmentation: `sendBigBuffer`, `DataBuffer::fillWaveRequestMsg`, `readInt32Array`, `writeInt32Array`, the generated poll list | message arrays with blanks at the nonce positions | cut and number packets | every register is asked for, no register is overwritten by a nonce, the sender survives |
| Channel map: `updateRelToAbsIdx`, `ProcessTraceDataReadback`, `PublishTraceData` | `chanKeep`, `relToAbsIdx`, `nChan` | make anew, store a point, publish | it is that of `chanKeep` in the end; waveforms go to their own PVs; no element is used that holds no channel |
| Waveform scale: `p_WaveSampPerW` | registers of period and shift, parameter, gain and time step | write, mirror | the gain is for the period the FPGA uses; the shift keeps its sums in range |
| Sequencers: `PVramp.stt`, `centerCwDetune.stt`, `amc78xxmon.stt` | PVs, counters, timers | go, abort, step; start a conversion, look, retry | abort works in every state, the final value is exact; a search does not run away, and makes nothing worse as long as its readings are right; a voltage is shown under its channel and is new |
| BMB7 monitor: `BMB7Sup.c` | link, start bit, polls left, hold-off | crank | records show values of the present acquisition or a fault; monitoring goes on after a failure |
| Record databases (`Db/*`), close-loop sequence | records | process | the loops close in the right order |
| Others: cavity decay fit, configuration ROM, code generator, `iocBoot`, screens | - | - | - |

### What is hard here

* One thread uses the counters without the mutex that protects them elsewhere.
* Answers are lost, late, out of order, short or carry an impossible length; a
  request that was given up may still be answered while the next one is waited for.
* Four threads hand work to each other through events and a bounded queue, and the
  receiving thread is a producer of the queue that drains only because it receives.
* A request for a waveform spans several packets and two threads, while the
  operator changes which channels there are.
* A setting is overwritten by four kinds of answers that were asked for at
  different times.
* Two threads make the channel map anew while two others use it, without a lock.
* Makers of long messages and their senders count blanks by different rules.
* The monitors of two boards must tell a new value from one left over, over a link
  that fails between any two of their steps.

`PROJECT.json` ("hazards") lists each of these at its line, with the property that
would catch it or the reason why none does yet.

## The modules

| Module | Models | State, actions |
|---|---|---|
| `StopAndWait` | what the engine promises at one request at a time (abstract) | `count`, `busy`; `Issue`, `Settle` |
| `LeepComm` | `sendRegRequest`, `responseHandler`, `processReadbackBuffer` | the C++ members under their names; every load and store of `netWaitingRequests_` outside the mutex is a step of its own (`LoadWaiting`, `StoreWaiting`, `WaitTimesOut`, `LoadShort`, `Settle`, `Store`), as each can interleave with the other threads; what happens under the mutex and cannot interleave with an unlocked access is one step |
| `SingleMsgQueue` | the queue, its producers and `singleMessageQueuer`, over `StopAndWait` | byte count and buffer as in the code; `Receive`, `Aggregate`, `StopAggregating`, `SendPacket`; the receiving thread as `Answer`, `NotReady`, `Requeue`, `Settled`, `GiveUp` |
| `TraceRequest` | waveform readout of one buffer | requester: `Sync`, `Signalled`, `NotSignalled`, `RequestPart`, `RequestFails`, `Acknowledge`, `DataRead`, `DataMissing`, `Publish`; receiving thread: `NewTrace`, `SignalRequester`, `PollAgain`, `IgnoreStatus`, `ReadEcho`, `ReadKept`, `ReadPart`; the FPGA and network around them |
| `Setpoints` | settings and their answers | a port-thread write in its steps (`WriteKeep`, `SetChanKeep`, `WriteInt32`, `QueueWrite`, `SetParam`), the answers (`EchoKeep`, `ReadKeep`, `ShowKeep`, `EchoChecked`, `ReadChecked`, `IgnorePlain`, `ReadMirror`) |
| `RegPoller` | `regPoller` and the writers of RUN_STOP and POLL_PERIOD | thread: `PollerCreated`, `PollerTop`, `PollerSignalled`, `PollerTimesOut`, `PollerWoken`, `SendPoll`; a write of RUN_STOP is two steps, `WriteRunStop` (signals) and `StoreRunStop` |
| `PVramp` | the sequencer program of that name | one action per transition of the program with the entry and exit blocks it runs; the program is not in safe mode, so in `ramp` the whens are tested in one step (`Decide`) and what they decide is done in another (`Step`, `Finish`); buttons, other clients and the connection around it |
| `CenterCw` | the sequencer program `centerCwDetune` | one action per transition (the program is in safe mode); the cavity is a function from frequency to reflected amplitude that may drift; `Capture` and `PublishMean` carry its amplitude through a waveform to the record `mean`, which `GetRev` reads and which may be older than the put before |
| `Segments` | long messages and the cuts `sendBigBuffer` and the array loops make in them, with the real sizes | one message of any kind and length; `SuspendCaller`, `SendSegment`, `SegmentFails`; a register is a number, the message a function of the position |
| `ChannelMap` | `updateRelToAbsIdx` in both threads, the points and waveforms placed with it | a step is one element: `Count`, `Loop`, `Seek`, `SeekTooFar`, `Fill`; `WriteChans`, `QueueChans`; `TakeAnswer`, `TakeReadback`, `StorePoint`; the publishing loop `StartPublishing`, `PublishChan`, `PublishUnused`, `EndPublishing` |
| `WaveScale` | the sample period, shift and gain | `WriteSamplePeriod` (and `WriteSamePeriod`, which sends nothing), `SetPeriodParam`, `QueuePeriod`, `ReadPeriodMirror` |
| `Bmb7Monitor` | `crankBMB7monitor` | a crank runs with the port locked and is one step: `ConnectFails`, `StartAcquisition`, `StartFails`, `PollNotDone`, `PollDone`, `PollFails`; `HoldOffEnds` |
| `AmcMonitor` | the sequencer program `amc78xxmon` and the board behind it | the program's transitions; `Convert`, `AnswerLook`, `StoreRdbk` carry a value from the board to the PV in order, late or not at all |
| `MC...` | instances for TLC; `MCActivities` puts the eight modules from `RegPoller` to `AmcMonitor` side by side, each moving while the others stand still, as they share nothing in these models | |
| `...Proofs` | theorems and their proofs, `MonitorProofs` of the last two modules, `ActivityProofs` of `RegPoller`, `PVramp`, `CenterCw`, `Segments`, `WaveScale` and of `MCActivities` as a whole | |
| `NatLemmas` | lemmas: induction over the natural numbers, powers of two | |

How they compose: `LeepComm` is shown to implement `StopAndWait` with the mapping
`count <- netSendCount`, `busy <- Busy`, where `Busy` is "a request is counted as
waited for, or a sender that holds the mutex is about to count it".
`SingleMsgQueue` is built on an INSTANCE of `StopAndWait`; `TraceRequest` has the
same discipline built in, together with the answers.  At a higher
MAX_PARALLEL_REQUESTS the engine does *not* implement `StopAndWait`, and the other
modules say nothing about that; the default is 1.

Decisions a reader of the models should know:

* A packet is its number and its condition (`ok`, `short`, `huge`).  The receive
  buffer is a byte stream in the driver: a short packet in front of another one
  eats into it, which `AfterRead` and `ReadMessage` describe.
* `netSendCount_` counts modulo `Wrap`; 2^32 in the code.
* `noDataCounter` is only compared with the limit and is not counted above it.
* In `SingleMsgQueue` a message is an identity and a size; sizes and the buffer are
  in registers, the byte count in bytes, because the code mixes the units.
* In `TraceRequest` `late` lasts from an answer that comes after it was given up to the
  next request that begins with nothing in flight and `rawWaveRead_` not set; it is a
  history.
* In `TraceRequest` a trace is a number, the buffer a function from packet to the
  trace it was read from.  `newTraceDataAvailable` and `newTraceDataRead` are
  counters only ever compared for equality: `behind` is their inequality.
* The values of settings are a set; the comparison and the assignment decide.
* `RegPoller` says what the two waits *do*, not what the variable `status` is called:
  the timed wait returns true for an event, that is compared with
  `epicsEventWaitOK`, which is 0, and so the branch for events is taken on a timeout.
* In `ChannelMap` what is shown of a waveform is a triple: raw, scaled or polar, the
  channel whose PV shows it, and the part of the buffer it is made from.
* In `AmcMonitor` a value is its channel and whether it is new, old (converted
  before that channel was last shown) or what the register held at the start; `age` in
  `Bmb7Monitor` counts the acquisitions begun since the one whose values are shown.
  Both are histories no guard reads.
* `exact` in `CenterCw` is a history: the amplitude at the center was that of the plant
  when the program became ready, the plant has not drifted since, and no reading was of
  a waveform taken before the last put.  Nothing in the code ensures it, so what needs
  it says so, and `MovesPay` is stated without it.
* `sinceAbort` in `PVramp` counts the puts since the abort button last changed.
* Frequencies in `CenterCw` and steps in `PVramp` are integers; `PVramp` lets the sum
  of the steps be off by `Rounding` per step, as doubles are.

## The runs

| Run | Question | Answer |
|---|---|---|
| `LeepComm` | At one request at a time: do sender and handler race on the counters, is anything acknowledged before it was sent, is the engine stop-and-wait? | no race (the handler's unlocked code runs only while a request is waited for, and then no sender passes the throttle), nothing unsent acknowledged, `StopAndWait` is implemented |
| `LeepCommLive` | With the limit changing between 0 and 2, answers lost or short, and the number rolling over: is a caller throttled for ever? does the wait end? does shutdown end the handler? | only one that has read a limit of 0, until shutdown; yes; yes |
| `LeepCommParallel` | Does the protection the comments on the mutex promise hold at a limit of 2? | violated |
| `SingleMsgQueue` | With a queue that gets full: once and in order unless a message did not fit, packets within bounds; does it drain? | holds; it drains unless receiving thread, full queue and queuer have come to wait for each other, which is the ring of `SingleMsgQueueFull` and the only one |
| `SingleMsgQueueMixed` | Does "sent out in the order queued" hold for messages of different sizes? | violated |
| `SingleMsgQueueFull` | And with a full queue: is the flag polled again? | violated: the threads wait for each other |
| `TraceRequest` | Slow network, losses, polls, changes of settings: is a signal lost? does a request that begins with nothing left over, and sees no answer come late, publish only after its own last part? in calm operation, is every trace whole and published once? is every trace acknowledged in the end, does the requester end? | holds |
| `TraceRequestLate` | Is a trace published only after its own last part was read back, whatever was left over? | violated by one last point that comes after its request was given up |
| `TraceRequestLoss` | Is a waveform published only when all of it was read back? | violated by one lost packet |
| `Setpoints` | Do display and FPGA agree when all is answered, and do the kept channels agree in the end after losses? | holds |
| `Activities` | Poller: how many polls follow a stop, does it keep polling, does it end? Ramp: is the PV on its line while it ramps, what does an abort stop, does the program come to rest? Centering: can the search run away, is the result ever worse than the start, is it a minimum? Long messages: which lengths are sent whole? BMB7, amc78xx: is what they show of its channel and new, and does it go on after troubles? Channel map: is it right after a race, are waveforms published under their own channels? Scale: does the gain fit the period? | At most two; yes, unless it missed that it is to run; yes. Yes; all but the one put already decided when it is pressed, if it stays pressed; yes. No, each move is paid for by the amplitude it goes by, whatever is read; never worse, and a minimum, while the plant stands still and every reading is of the frequency it is taken for. Exactly those of `Safe`. Yes. Yes, when no write or its answer was lost. Yes, once a write has been sent that was made after the mirror was processed |
| `ChannelMapRace` | Does the map hold a channel wherever one is looked up? | violated while another thread makes it anew |

The six runs that end in a violation are the project's findings; `PROJECT.json`
quotes the line each contradicts.

### Bounds

* `LeepComm`: two senders and the handler are all the pairs that can race; four
  calls let a request be given up, its successor be sent, the late answer arrive
  and a further request follow.  `NoDataLimit` 1 stands for 1000 empty reads: below,
  at and above the limit are all reached.  `Wrap` 16 does not roll over in four
  calls; `LeepCommLive` uses 2, so every second request rolls over,
  and limits 0 and 2: the one that closes the throttle for good, and one at which
  two senders race for it.
* `SingleMsgQueue`: `BufRegs` 6 with messages of one and two registers: a packet is
  filled exactly, to one register less, and past its end; `MinRegs` 3 is above the
  smallest packet (nonce and one register).  `QueueCap` is 3 with six messages, so the
  queue fills, also while the receiving thread has a request to put back; 2 with five
  in `SingleMsgQueueFull`, where the ring closes.
* `TraceRequest`: two packets have a first and a last one and something to lose in
  between; two traces are enough to mix; two answers may be in flight when one is given
  up as late (the late one and that of the next request); and two troubles, each a lost
  packet, a poll or a change of settings, so that a loss may follow the recovery from
  a loss or meet a change.  `TraceRequestLate` has no such trouble at all, lateness is
  enough; `TraceRequestLoss` has one, and nothing late.
* `Setpoints`: two values, two writes, two answers in flight, one loss: a write, an
  answer asked for before it, and a second write in either order.
* `Activities`: four writes of settings are start, stop and a change of the period
  twice; ramps of no, two and three steps, with `Rounding` 1, three presses or
  interferences; a cavity of three frequencies has every shape, with a minimum at
  either end or in the middle and with two minima, and waveforms are taken and
  published at any time; two touches switch it on and start, abort or let it drift.
  `MaxRegs` 560 is more than three packets of every kind, with the sizes of the code, so
  that each remainder occurs at the first, second and third cut.  `MaxPolls` 3 (10 in
  the code) and four troubles: a failure in a start, its repetition, and one in a poll.
  Three ADC channels (`LastChan` 2), one retry, two answers on their way and two
  messages lost: the answer of a former channel arrives while the next is looked for,
  and the conversion is started again.  Four waveform channels are two pairs; the FPGA
  starts with half of each (`{1, 2}`), the only such set, since the operator enables
  pairs; one write with two answers lets each of the threads be overtaken by the other.
  `PeriodBits` 3 (15 in the code) with periods of zero, one, between and at
  powers of two, and beyond the register; three writes set a value, another and the
  first again.
* `ChannelMapRace`: one pair, which is on or off at the start, and one write.

### What the models showed besides

These contradict no line of the documentation and are not counted as findings.

* A start whose signal the poller consumes before RUN_STOP is stored is missed: the
  poller waits without a timeout until somebody signals again.  A period changed
  from 0 signals nobody either.  The history variable `missed` marks both cases.
* An abort pressed while nothing ramps stays pressed and ends the next ramp before
  its first step.  One pressed between the tests and the put they decide on lets that
  put go out, the last one of a ramp too, and one that is taken back before the next
  test is not seen at all.
* `centerCwDetune` gets the amplitude 0.2 s after it has put a frequency, from a record
  made of the last published waveform.  When the waveforms come more slowly, or their
  publishing is late, the reading is of the frequency before: the search then takes the
  wrong direction, may stop beside the minimum, or leave the cavity worse than it was.
  The amplitude it starts from is the one of when it became ready; when the cavity has
  drifted since, it compares with an old value.  `exact` in two of its properties
  excludes both; the search does not run away even then (`MovesPay`).
* A caller that reads MAX_PARALLEL_REQUESTS as 0 is throttled until shutdown, even when
  the operator sets another limit a moment later: the parameter is read once, before
  the loop (`leepDrv.cpp:1037`).  A negative limit throttles nobody, since the
  comparison is one of unsigned numbers.  The record has no lower limit.
* After a late answer the flush of `responseHandler` drops the answer to the request
  that is under way, although the comment at `leepDrv.cpp:1220` finds it safe for one
  request; the request is then given up and nothing worse happens.
* Reading or writing one register of an array (`READ_ONE_REG`, `WRITE_ONE_REG`), an array
  whose length modulo 180 is 0 to 3, and waveforms whose length modulo 180 is 1 to 3
  suspend the port thread for ever.  A generated poll list is sent whole from 4 to
  174 registers.  The present register map is in all of these ranges safe (84 polled
  registers; arrays and waveforms are powers of two), so the lengths are latent.
  `Safe` in `Segments` states the ranges, and `SentIffSafe` that there are no others.
* The FwDesc parameter is taken from byte `index - fwDescSize`, which mixes words and
  bytes, and when the last ROM packet is lost `cfgRecordEnd` is not reset (read, not modelled).
* `amc78xxmon`'s first look may publish the register's initial 0 as the voltage of
  channel 0.  A channel that never answers starves those behind it.  With a single
  channel the number would tell nothing, and an old value could repeat.
* When the echo of a write of the channels is lost, the channel map a race left wrong
  stays wrong: a readback makes it anew only when `chanKeep` differs.
* The mirror sets the parameter of the sample period only.  After a restart the gain is
  1 and the time step unset until the operator writes another period; writing the value
  displayed is skipped.  A write before the mirror was processed may leave a parameter
  that says what the FPGA has not, and that value cannot be written then; the next
  other value that is sent puts parameter, gain and shift right (`ScaleFits`).
* The port thread's update that looks past the end of the bitset (`ChannelMap.SeekTooFar`)
  throws where nobody catches; on the receiving thread `responseHandlerC` catches, and
  that thread ends.
* The readback case of the period (`GUNBLlrfDev.cpp:1251-1278`) is dead: the register is
  write-only in the register map.

### Fairness

Each thread that can run does so in the end (EPICS threads are scheduled by
priority, and each blocks somewhere in its loop), and a timed wait ends: weak
fairness of the threads' actions.  In `TraceRequest` and `Setpoints`, where sending
needs the throttle to be open *and* the thread to get the mutex, it is strong
fairness of sending: the mutex is released on every round of the throttling loop
and of the reading loop, each of which sleeps.  `LeepComm` itself needs weak
fairness only, but the bound on calls means that competing senders do
not come back for ever.  Nothing is assumed of the operator, the FPGA or the
network; liveness that needs an answer is stated so that giving up counts.
In `Activities` it is weak fairness of each program and of the crank, which a record
scanned every ten seconds turns, of the constructors and of the second half of a
write, of the end of the hold-off, a timer; and of the amc78xx board's conversion, of
answering or losing what was asked, and of storing an answer, which the register
poller and the engine's give-up ensure.  Failures and losses are bounded, so that
"once they have ended" is a state every behaviour reaches.
`KeepHeals` in `Setpoints` rests on strong fairness of the poll, that is, on a register
poller that runs: with RUN_STOP at stop nothing is read back and nothing heals.
`FindsMinimum` assumes nothing of the waveform's record: it is about behaviours in which
the readings are exact from some time on.
In the runs CHECK_DEADLOCK is FALSE: the bounded operator and a completed
shutdown stop the system.

## The proofs

All are safety theorems, checked by `tlapm` to the last leaf.

| Theorem | Says | Argument |
|---|---|---|
| `LeepCommProofs!TypeCorrect` | `TypeOK` for any senders, limits, roll-over, damage | Types alone are not inductive: `netWaitingRequests_` is decremented outside the mutex, and stays in Nat only because it was seen positive and nobody but the handler lowers it.  The invariant adds that while the handler is committed, what it is about to store is not negative and the count is positive when it is about to lower it |
| `LeepCommProofs!RaceFreeAtOne`, `CountersProtectedAtOne` | with `MaxChoices = {1}`, for any number of senders, no update of the counters is lost | invariant: mutual exclusion through `mutex`; the handler in its unlocked code implies `netWaiting > 0`, which closes the throttle; a sender past the throttle implies `netWaiting = 0` |
| `LeepCommProofs!ImplementsStopAndWait` | `Spec => StopAndWaitSpec` at one request | every step maps to `Issue`, `Settle` or a stutter; uses the invariants above |
| `LeepCommProofs!NothingUnsentSettled` | `NeverAhead` for any senders, limits, damage, before the number rolls over (`MaxCalls < Wrap`) | the senders that have not yet taken a number, counted, and the calls made bound the numbers that are left (`NumbersLeft`), so no number was given out twice and whatever is on the wire is at most the last |
| `SingleMsgQueueProofs!PacketsFit` | buffer never overrun, packet sizes within bounds, for any sizes and capacities | invariant on `bytes` per control state |
| `SingleMsgQueueProofs!SentOnceInOrder` | `SentUnlessOverflowed` for any messages, sizes, capacities and packet limits | `QueueInv`: until one overflows, the buffer holds the registers of whole messages up to the byte count, none of them blank, and blanks from there to the minimum (`Packed`); so aggregating appends to what a packet carries, and sending hands over just that, padded or not.  Rests on lemmas on `FlattenSeq`: a part more at the end, a part at the head |
| `SingleMsgQueueProofs!QueueKeepsTypes` | `TypeOK`, likewise | needs that a receiving thread about to put a message back has one to put (`Requeue` against `MaxMsgs`), and that no message is larger than an empty packet |
| `TraceRequestProofs!SignalNeverLost` | `NoLostSignal` for any number of packets, traces, losses, polls, settings | inductive as it stands |
| `TraceRequestProofs!PublishedFresh` | `Fresh`, likewise: not that every publishing is of its own request, which `TraceRequestLate` refutes | invariant `FreshInv`: unless something late is left (`Orderly`), at most one answer is in flight, it is the awaited one and, when it is a part, it belongs to the present request; a set `rawWaveRead_` implies that the last part was answered and that the requester has not yet consumed it |
| `TraceRequestProofs!WaveformsWhole`, `WaveformsOnce` | `WholeWhenCalm`, `OnceWhenCalm` for any number of packets per trace, traces and polls | in calm operation one token goes round between status, signal, request, parts and acknowledgement (`OneToken`); the parts gathered so far are of the present trace (`PartsGathered`), which is newer than the published one (`NewerThanPublished`), and the FPGA keeps it until the acknowledgement arrives |
| `SetpointsProofs!SettingsAgree` | `AgreeWhenQuiet` for any values, writes, polls and answers in flight | the stream of writes and answers to come, in order: the last write of a register is the operator's, the last readback has what the FPGA has, and whoever was overwritten by an older answer is repaired by a later one |
| `ActivityProofs!SentForSafeLengths` | `SentIffSafe` for every kind and length of message, at the packet size of the code (181 elements of 8 bytes) | the packets sent so far asked for exactly the registers in the elements behind their nonces; lemmas on div and mod say when the blanks of each maker fall on the cuts, and how long the last segment is |
| `MonitorProofs!ValuesInTime` | `ShownInTime` for any number of polls and failures | inductive only with the start bit clear whenever the machine rests: left set, each poll would begin an acquisition |
| `MonitorProofs!VoltagesAreNew` | `ShownIsNew` for two channels or more, any retries and answers on their way | every place from board to program holds the present channel or the one before, behind a value of the present one only others of it follow; so when a channel is looked for again nothing of its last round is left |
| `ActivityProofs!RampsOnTheLine` | `OnTheWay` for any PVs, targets, steps, rounding, interferences | the program's own double is the PV as long as nobody else writes and it stays connected; it is off the line by at most `Rounding` a step |
| `ActivityProofs!AbortEndsRamps` | `AbortStops`, likewise: an abort that stays pressed lets at most one put through, that already decided | inductive as it stands: the tests lead to a put only while the button is not pressed, pressing it begins the count anew, and every put is followed by the tests or ends the ramp |
| `ActivityProofs!SearchEnds` | `MovesPay` for every cavity, drift, limits and however old the readings are | a move goes to the lower of the two readings, and only when that is below the amplitude the center goes by, which it replaces: distance gone and amplitude together never grow |
| `ActivityProofs!SearchNeverWorse` | `NeverWorse` for every cavity and limits, while the readings are exact | `startAmp` is the amplitude at the present center, which is no more than at the first; each reading is of where the frequency was put |
| `ChannelMapProofs!MapHeals` | `MapAgreesWhenQuiet` for any number of channels, writes and answers in flight | while a write or its echo is still to come the map may hold anything; the port thread queues a write only when its own update is through, so from the last echo on the receiving thread is alone (`Alone`), and the elements it has made are those of the reference (`InOrder`); what an update computes is followed by the rank of the next channel |
| `ChannelMapProofs!ShowsWhatIsKept` | `PublishesKept`, likewise | invariant `PubInv`: publishing that no update falls into leaves map and count alone, and `nChan` counts the channels unless an update has just begun; what has been shown up to an element is what the ranks say (`ShownUpTo`), since the channels of a pair have adjacent ranks |
| `TraceRequestProofs!TraceTypes`, `SetpointsProofs!TypesKept` | `TypeOK` of the two modules | answers in flight stay answers through `Forget`, `Disown`, `RemoveAt`; needs that the answer that is being processed is still the first (`Processing`) |
| `ActivityProofs!ScaleIsForPeriod` | `ScaleFits` for registers of any width, any number of writes, as long as no message is lost: of the period written last only if the last one sent was written after the mirror was processed, of gain and shift only once a write has set the parameter | `ScaleInv`: a shift, in the FPGA or queued, is that of the period it goes with (`ShiftsFit`); while the mirror is pending and nothing has been written, nothing is queued or wanted (`MirrorPending`); between writes the period to come is the one wanted, and the parameter, which decides whether a write is sent at all, says so unless the mirror was raced (`Settled`).  That `CalcWaveScale` finds the least shift holds since the powers of two grow beyond the register |
| `ActivityProofs!EachRunsAsIfAlone`, `ActivitiesKeepTypes` | a behaviour of `MCActivities` is one of each of the eight specifications; `TypeOK` of the whole | a step of one of them leaves the variables of the others alone, and the types of each are inductive with its own invariant |
| `ActivityProofs!StopStopsPolling` | at most two polls after a stop, for any number of changes | invariant `PollInv`: while RUN_STOP is stop, each control state leaves room for the polls that may still go out from it (`Room`), and until the constructors are through none has gone out |

Assumptions: only the ASSUMEs on constants in the modules, which TLC evaluates in
every run; `MaxChoices = {1}` where the theorem says so.

Induction.  The library's induction theorems take an operator as a parameter, which no
prover here can instantiate.  `NatLemmas` states induction about sets instead, from the
well-foundedness of `<` on Nat: a non-empty set of numbers has a least (`LeastNat`), a
set that holds 0 and is closed under successor up to n holds `0 .. n` (`UpTo`).  From that
follow that the recursive function inside `FlattenSeq` exists (`FlattenExists`), what it
returns, and the facts on powers of two, 2^n being the number of subsets of n elements.

Only model-checked: liveness, since fairness and ENABLED are outside the prover's reach
(`SenderProgress`, `WaitEnds`, `HandlerExits`, `Drains`, `Acknowledged`,
`RequesterExits`, `KeepsPolling`, `PollerExits`, `ComesToRest`, `FindsMinimum`,
`Bmb7KeepsShowing`, `AmcKeepsReading`, `KeepHeals`).  Every invariant and every action
property of a passing run is a theorem.

## Not modelled

* `p_CommErrorCount`, a statistic that several threads read and write back.
* Duplicated UDP packets; the driver treats a duplicate as a late answer does.
* The junk byte left when the buffer is flushed; a flush empties the model's buffer.
* Conversion to amplitude and phase, the scaling of values, the decay fit: data.
* Writable arrays beyond their segmentation; the assembly of the configuration ROM's
  records and its checksum, read once and only displayed.
* The race of the requester and a setting for the last register of `traceDataAck`
  (`GUNBLlrfDev.cpp:873` against 367): a word is stored at once, so the setting's message
  asks for the status once more or once less.  Status requests that are lost, or come
  more often, are in `TraceRequest`.
* The code generator, IOC boot scripts, operator screens.
* The exponential ramp and the displayed time left of `PVramp`, phases and printed
  statistics of `centerCwDetune`.
* The record chain that closes the feedback loops (`Db/GUNBLoopCalcs.db`) and
  `aliveChecker.template`: what they do is the processing order and the monitors of EPICS
  records, which is code outside this repository, applied to floating-point
  expressions; a model would be of EPICS, not of this code.

## Plan

Done, in this order, because everything in the system goes through the first three:
`StopAndWait`, `LeepComm`, `SingleMsgQueue`, `TraceRequest`, `Setpoints`; `RegPoller`,
`PVramp`, `CenterCw`; `Segments`, `ChannelMap`, `WaveScale`, `Bmb7Monitor`, `AmcMonitor`;
then the theorems about the safety properties of all of them, and of the eight activities
together.

Left:

1. Writable arrays as settings: a readback of the array against a write of a part of it.
