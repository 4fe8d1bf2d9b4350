----------------------------- MODULE TraceRequest -----------------------------
(***************************************************************************)
(* How one waveform buffer (TraceData) is read out and published           *)
(* (gunbLlrfApp/src/GUNBLlrfDev.cpp).                                      *)
(*                                                                         *)
(* The receiving thread sees the FPGA's "trace ready" flag in an answer    *)
(* and signals the requester thread.  That thread asks for the trace in    *)
(* several packets, queues the acknowledgement that lets the FPGA take the *)
(* next trace, waits until the receiving thread says the last point has    *)
(* been read, and publishes the buffer.  With fast updates the two threads *)
(* keep asking for the flag; otherwise only the register poller does.      *)
(*                                                                         *)
(* Below it lies the engine of LeepComm at one request at a time: busy     *)
(* until the answer has been processed or is given up.  The single message *)
(* queue is not bounded here; SingleMsgQueue studies the bound.            *)
(***************************************************************************)
EXTENDS Integers, Sequences, SequencesExt

CONSTANTS
  Parts,      \* packets needed to read the trace (maxRegPerMsg registers each)
  MaxTraces,  \* bounds of the model: traces taken by the FPGA,
  MaxLate,    \* answers in flight when one of them is given up as late,
  MaxStatus,  \* status requests outstanding,
  MaxTroubles \* and packets lost, polls and settings changed, taken together

ASSUME TraceAssumption ==
  /\ Parts \in Nat \ {0}
  /\ {MaxTraces, MaxLate, MaxStatus, MaxTroubles} \subseteq Nat

VARIABLES
  trace, ready,     \* the FPGA: the trace it holds, and its "ready" flag
  queue,            \* _singleMsgQ: "status", "ack", "ackStatus", "keep" or "keepNone"
  ackReads,         \* traceDataAck[4] is the status request, not a blank
  busy, wire,       \* the engine: request waited for; answers in flight, oldest first
  behind,           \* newTraceDataAvailable # newTraceDataRead
  reqEvent,         \* reqTraceDataEvent
  rawWaveRead,      \* rawWaveRead_
  rpc, at,          \* the requester: where it is, and at which part
  hpc,              \* the receiving thread: idle, or about to signal reqEvent
  buffer,           \* the trace each part of pRawIQBuf_ was read from
  published,        \* the trace each part of the waveform PV was read from
  active,           \* nChan > 0
  pollEnable, fast, \* pollEnable, fastUpdate
  shuttingDown,
  answered,         \* history: parts of the present request read back so far
  late,             \* history: an answer came after it was given up, and no request
                    \* has begun since with nothing of it left
  calm,             \* history: nothing was lost, late or asked for twice
  troubles          \* counter for the bound

fpga == <<trace, ready>>
engine == <<busy, wire>>
handshake == <<behind, reqEvent, rawWaveRead>>
requester == <<rpc, at>>
data == <<buffer, published, answered>>
settings == <<active, pollEnable, fast, shuttingDown>>
marks == <<late, calm>>
vars == <<fpga, queue, ackReads, engine, handshake, requester, hpc, data, settings, marks, troubles>>

Status(flag) == [kind |-> "status", ready |-> flag]
PartRead(p) == [kind |-> "part", part |-> p, trace |-> trace, mine |-> TRUE]
Echo == [kind |-> "echo"]
Kept(some) == [kind |-> "keep", some |-> some]
\* An answer in flight, with a mark on the one the engine still waits for.
Answer(body) == [body |-> body, awaited |-> TRUE]
Forget(w) == [i \in DOMAIN w |-> [w[i] EXCEPT !.awaited = FALSE]]
\* The parts of an earlier request are not the present one's.
Disown(w) ==
  [i \in DOMAIN w |-> IF w[i].body.kind = "part" THEN [w[i] EXCEPT !.body.mine = FALSE]
                                                 ELSE w[i]]

\* Status requests queued, and answered but not yet processed.
Outstanding ==
  Len(SelectSeq(queue, LAMBDA m : m \in {"status", "ackStatus"}))
  + Len(SelectSeq(wire, LAMBDA a : a.body.kind = "status"))
\* A status request issued now cannot see a flag that is already being dealt with.
Quiet ==
  /\ \A i \in DOMAIN queue : queue[i] \notin {"status", "ack", "ackStatus"}
  /\ \A i \in DOMAIN wire : wire[i].body.kind # "status"
  /\ ~behind /\ ~reqEvent /\ rpc \in {"sync", "wait"}

Bodies ==
  {Echo} \union [kind : {"keep"}, some : BOOLEAN] \union [kind : {"status"}, ready : BOOLEAN]
  \union [kind : {"part"}, part : 1 .. Parts, trace : 0 .. MaxTraces, mine : BOOLEAN]

TypeOK ==
  /\ trace \in 0 .. MaxTraces /\ ready \in BOOLEAN
  /\ queue \in Seq({"status", "ack", "ackStatus", "keep", "keepNone"}) /\ ackReads \in BOOLEAN
  /\ busy \in BOOLEAN
  /\ wire \in Seq([body : Bodies, awaited : BOOLEAN])
  /\ behind \in BOOLEAN /\ reqEvent \in BOOLEAN /\ rawWaveRead \in BOOLEAN
  /\ rpc \in {"sync", "wait", "request", "ack", "data", "publish", "exited"}
  /\ at \in 1 .. Parts
  /\ hpc \in {"idle", "signal"}
  /\ buffer \in [1 .. Parts -> 0 .. MaxTraces]
  /\ published \in [1 .. Parts -> 0 .. MaxTraces]
  /\ active \in BOOLEAN /\ pollEnable \in BOOLEAN /\ fast \in BOOLEAN
  /\ shuttingDown \in BOOLEAN
  /\ answered \subseteq 1 .. Parts
  /\ late \in BOOLEAN /\ calm \in BOOLEAN
  /\ troubles \in Nat

\* Channels are being kept and fast updates are on.
Init ==
  /\ trace = 0 /\ ready = FALSE
  /\ queue = <<>> /\ ackReads = FALSE /\ busy = FALSE /\ wire = <<>>
  /\ behind = FALSE /\ reqEvent = FALSE /\ rawWaveRead = FALSE
  /\ rpc = "sync" /\ at = 1 /\ hpc = "idle"
  /\ buffer = [p \in 1 .. Parts |-> 0] /\ published = [p \in 1 .. Parts |-> 0]
  /\ active = TRUE /\ pollEnable = TRUE /\ fast = TRUE /\ shuttingDown = FALSE
  /\ answered = {} /\ late = FALSE /\ calm = TRUE
  /\ troubles = 0

--------------------------------------------------------------------------------
(* The engine and the FPGA, as this code uses them *)

\* A request goes out when none is waited for: the FPGA carries it out and
\* answers, or the network loses it.  flag is the FPGA's ready flag afterwards.
Transmit(body, flag) ==
  /\ ~busy /\ busy' = TRUE
  /\ UNCHANGED trace
  /\ \/ /\ wire' = Append(Forget(wire), Answer(body))
        /\ ready' = flag
        /\ UNCHANGED <<troubles, calm>>
     \/ /\ troubles < MaxTroubles /\ troubles' = troubles + 1 /\ calm' = FALSE
        /\ wire' = Forget(wire)
        /\ UNCHANGED ready

\* The queuer sends what is queued.  The acknowledgement resets the ready flag,
\* and reads it back in the same packet when fast updates are on.
SendQueued ==
  /\ queue # <<>> /\ queue' = Tail(queue)
  /\ \/ Head(queue) = "status" /\ Transmit(Status(ready), ready)
     \/ Head(queue) = "ack" /\ Transmit(Echo, FALSE)
     \/ Head(queue) = "ackStatus" /\ Transmit(Status(FALSE), FALSE)
     \/ Head(queue) = "keep" /\ Transmit(Kept(TRUE), ready)
     \/ Head(queue) = "keepNone" /\ Transmit(Kept(FALSE), ready)
  /\ UNCHANGED <<ackReads, handshake, requester, hpc, data, settings, late>>

\* The register poller's list of readable registers has the flag in it.
Poll ==
  /\ troubles < MaxTroubles /\ troubles' = troubles + 1
  /\ ~busy /\ busy' = TRUE
  /\ wire' = Append(Forget(wire), Answer(Status(ready)))
  /\ calm' = (calm /\ Quiet)
  /\ UNCHANGED <<fpga, queue, ackReads, handshake, requester, hpc, data, settings, late>>

\* The awaited answer is given up: it was lost, or it is late.
GiveUp ==
  /\ busy /\ hpc = "idle"
  /\ LET coming == \E i \in DOMAIN wire : wire[i].awaited
     IN /\ coming => Len(wire) <= MaxLate
        /\ late' = (late \/ coming)
        /\ calm' = (calm /\ ~coming)
  /\ busy' = FALSE /\ wire' = Forget(wire)
  /\ UNCHANGED <<fpga, queue, ackReads, handshake, requester, hpc, data, settings, troubles>>

Lose ==
  /\ troubles < MaxTroubles /\ troubles' = troubles + 1
  /\ \E i \in DOMAIN wire :
       /\ hpc # "signal" \/ i > 1     \* the answer being processed has arrived
       /\ wire' = RemoveAt(wire, i)
  /\ calm' = FALSE
  /\ UNCHANGED <<fpga, queue, ackReads, busy, handshake, requester, hpc, data, settings, late>>

\* Once acknowledged, the FPGA takes the next trace and holds it.
Capture ==
  /\ ~ready /\ trace < MaxTraces
  /\ trace' = trace + 1 /\ ready' = TRUE
  /\ UNCHANGED <<queue, ackReads, engine, handshake, requester, hpc, data, settings, marks, troubles>>

--------------------------------------------------------------------------------
(* The receiving thread: processRegReadback *)

\* The next answer is taken up; when it has been processed its request is settled.
Ready == hpc = "idle" /\ wire # <<>> /\ ~shuttingDown
Take == Ready /\ wire' = Tail(wire)
Answering == Head(wire).body
Done == busy' = (busy /\ ~Head(wire).awaited)

CaughtUp == ~behind /\ active

\* The flag is set and the requester has caught up: newTraceDataAvailable gets
\* this answer's number, and then the requester is signalled.
NewTrace ==
  /\ Ready /\ Answering.kind = "status" /\ Answering.ready /\ CaughtUp
  /\ behind' = TRUE
  /\ hpc' = "signal"
  /\ UNCHANGED <<fpga, queue, ackReads, engine, reqEvent, rawWaveRead, requester, data, settings, marks, troubles>>

\* Mutant: the signal is dropped.
SignalNobody ==
  /\ hpc = "signal" /\ hpc' = "idle"
  /\ wire' = Tail(wire) /\ Done
  /\ UNCHANGED <<fpga, queue, ackReads, handshake, requester, data, settings, marks, troubles>>

SignalRequester ==
  /\ hpc = "signal" /\ hpc' = "idle"
  /\ reqEvent' = TRUE
  /\ wire' = Tail(wire) /\ Done
  /\ UNCHANGED <<fpga, queue, ackReads, behind, rawWaveRead, requester, data, settings, marks, troubles>>

\* The flag is not set: with fast updates ask again at once.
PollAgain ==
  /\ Take /\ Answering.kind = "status" /\ ~Answering.ready /\ CaughtUp
  /\ queue' = IF fast THEN Append(queue, "status") ELSE queue
  /\ Done
  /\ UNCHANGED <<fpga, ackReads, handshake, requester, hpc, data, settings, marks, troubles>>

\* The requester is still busy with an earlier trace, or no channel is kept.
IgnoreStatus ==
  /\ Take /\ Answering.kind = "status" /\ ~CaughtUp
  /\ Done
  /\ UNCHANGED <<fpga, queue, ackReads, handshake, requester, hpc, data, settings, marks, troubles>>

ReadEcho ==
  /\ Take /\ Answering.kind = "echo"
  /\ Done
  /\ UNCHANGED <<fpga, queue, ackReads, handshake, requester, hpc, data, settings, marks, troubles>>

\* The echo of the channels to keep sets nChan to what was asked for, which may not be
\* the latest.  (The channels the register poll reads back are left to Setpoints.)
ReadKept ==
  /\ Take /\ Answering.kind = "keep"
  /\ active' = Answering.some
  /\ Done
  /\ UNCHANGED <<fpga, queue, ackReads, handshake, requester, hpc, data, pollEnable, fast,
                 shuttingDown, marks, troubles>>

\* ProcessTraceDataReadback: the points go to the buffer, and the last point of the
\* trace signals the requester, whether or not the other ones came.
ReadPartEarly == \* mutant: any part signals it
  /\ Take /\ Answering.kind = "part"
  /\ buffer' = [buffer EXCEPT ![Answering.part] = Answering.trace]
  /\ answered' = IF Answering.mine THEN answered \union {Answering.part} ELSE answered
  /\ rawWaveRead' = TRUE
  /\ Done
  /\ UNCHANGED <<fpga, queue, ackReads, behind, reqEvent, requester, hpc, published, settings, marks, troubles>>

ReadPart ==
  /\ Take /\ Answering.kind = "part"
  /\ answered' = IF Answering.mine THEN answered \union {Answering.part} ELSE answered
  /\ IF active
     THEN /\ buffer' = [buffer EXCEPT ![Answering.part] = Answering.trace]
          /\ rawWaveRead' = (rawWaveRead \/ Answering.part = Parts)
     ELSE UNCHANGED <<buffer, rawWaveRead>>
  /\ Done
  /\ UNCHANGED <<fpga, queue, ackReads, behind, reqEvent, requester, hpc, published, settings, marks, troubles>>

Receiver ==
  \/ NewTrace \/ SignalRequester \/ PollAgain \/ IgnoreStatus \/ ReadEcho \/ ReadKept \/ ReadPart

--------------------------------------------------------------------------------
(* TraceDataRequester *)

\* Top of the loop: newTraceDataRead = newTraceDataAvailable.
Sync ==
  /\ rpc = "sync" /\ rpc' = "wait"
  /\ behind' = FALSE
  /\ UNCHANGED <<fpga, queue, ackReads, engine, reqEvent, rawWaveRead, at, hpc, data, settings, marks, troubles>>

\* Signalled: request the trace, if channels are kept and polling is enabled.
Signalled ==
  /\ rpc = "wait" /\ reqEvent /\ reqEvent' = FALSE
  /\ \/ /\ ~(active /\ pollEnable)
        /\ rpc' = "sync" /\ UNCHANGED <<wire, answered>>
     \/ /\ active /\ pollEnable /\ shuttingDown
        /\ rpc' = "exited" /\ UNCHANGED <<wire, answered>>
     \/ /\ active /\ pollEnable /\ ~shuttingDown
        /\ rpc' = "request" /\ answered' = {} /\ wire' = Disown(wire)
  /\ late' = (late /\ ~(rpc' = "request" /\ wire = <<>> /\ ~rawWaveRead))
  /\ UNCHANGED <<fpga, queue, ackReads, busy, behind, rawWaveRead, at, hpc, buffer, published, settings,
                 calm, troubles>>

\* Mutant: the thread goes on after a shutdown.
NotSignalledStays ==
  /\ rpc = "wait" /\ ~reqEvent /\ rpc' = "sync"
  /\ UNCHANGED <<fpga, queue, ackReads, engine, handshake, at, hpc, data, settings, marks, troubles>>

\* Mutant: the flag is not asked for after the timeout.
NotSignalledSilent ==
  /\ rpc = "wait" /\ ~reqEvent
  /\ rpc' = IF shuttingDown THEN "exited" ELSE "sync"
  /\ UNCHANGED <<fpga, queue, ackReads, engine, handshake, at, hpc, data, settings, marks, troubles>>

\* pollTimeout passes without a signal: with fast updates ask for the flag.
NotSignalled ==
  /\ rpc = "wait" /\ ~reqEvent
  /\ rpc' = IF shuttingDown THEN "exited" ELSE "sync"
  /\ \/ ~shuttingDown /\ fast /\ Outstanding < MaxStatus
        /\ queue' = Append(queue, "status") /\ calm' = (calm /\ Quiet)
     \/ (shuttingDown \/ ~fast) /\ UNCHANGED <<queue, calm>>
  /\ UNCHANGED <<fpga, ackReads, engine, handshake, at, hpc, data, settings, late, troubles>>

\* Mutant: one packet too many.
RequestPartTooFar ==
  /\ rpc = "request"
  /\ Transmit(PartRead(at), ready)
  /\ at' = at + 1
  /\ rpc' = IF at <= Parts THEN rpc ELSE "ack"
  /\ UNCHANGED <<queue, ackReads, handshake, hpc, data, settings, late>>

\* ReqTraceData: sendBigBuffer sends one packet after the other ...
RequestPart ==
  /\ rpc = "request"
  /\ Transmit(PartRead(at), ready)
  /\ IF at < Parts THEN at' = at + 1 /\ UNCHANGED rpc
                   ELSE rpc' = "ack" /\ at' = 1
  /\ UNCHANGED <<queue, ackReads, handshake, hpc, data, settings, late>>

\* ... and leaves out the rest when one cannot be sent; nobody looks at its status.
RequestFails ==
  /\ rpc = "request" /\ rpc' = "ack" /\ at' = 1
  /\ \/ busy /\ shuttingDown /\ UNCHANGED <<troubles, calm>>
     \/ ~busy /\ troubles < MaxTroubles /\ troubles' = troubles + 1 /\ calm' = FALSE
  /\ UNCHANGED <<fpga, queue, ackReads, engine, handshake, hpc, data, settings, late>>

\* Mutant: the acknowledgement is forgotten.
AcknowledgeNot ==
  /\ rpc = "ack" /\ rpc' = "data"
  /\ UNCHANGED <<fpga, queue, ackReads, engine, handshake, at, hpc, data, settings, marks, troubles>>

Acknowledge ==
  /\ rpc = "ack" /\ rpc' = "data"
  /\ ackReads' = fast
  /\ queue' = Append(queue, IF fast THEN "ackStatus" ELSE "ack")
  /\ UNCHANGED <<fpga, engine, handshake, at, hpc, data, settings, marks, troubles>>

\* Mutant: the event stays set.
DataReadKeeps ==
  /\ rpc = "data" /\ rawWaveRead
  /\ rpc' = IF shuttingDown THEN "exited" ELSE "publish"
  /\ UNCHANGED <<fpga, queue, ackReads, engine, handshake, at, hpc, data, settings, marks, troubles>>

\* rawWaveRead_.wait returns with the event.
DataRead ==
  /\ rpc = "data" /\ rawWaveRead /\ rawWaveRead' = FALSE
  /\ rpc' = IF shuttingDown THEN "exited" ELSE "publish"
  /\ UNCHANGED <<fpga, queue, ackReads, engine, behind, reqEvent, at, hpc, data, settings, marks, troubles>>

\* ... or after pollTimeout without it: nothing is published.
DataMissing ==
  /\ rpc = "data" /\ ~rawWaveRead /\ rpc' = "sync"
  /\ LET coming == \E i \in DOMAIN wire : wire[i].body.kind = "part"
     IN /\ coming => Len(wire) <= MaxLate \/ shuttingDown
        /\ late' = (late \/ coming)
        /\ calm' = (calm /\ ~coming)
  /\ UNCHANGED <<fpga, queue, ackReads, engine, handshake, at, hpc, data, settings, troubles>>

\* The waveforms are computed from the buffer while the receiving thread may write
\* to it, one piece after the other.
Publish ==
  /\ rpc = "publish"
  /\ published' = [published EXCEPT ![at] = buffer[at]]
  /\ IF at < Parts THEN at' = at + 1 /\ UNCHANGED rpc
                   ELSE rpc' = "sync" /\ at' = 1
  /\ UNCHANGED <<fpga, queue, ackReads, engine, handshake, hpc, buffer, answered, settings, marks, troubles>>

Requester ==
  \/ Sync \/ Signalled \/ NotSignalled \/ RequestPart \/ RequestFails
  \/ Acknowledge \/ DataRead \/ DataMissing \/ Publish

--------------------------------------------------------------------------------
(* The operator *)

Operate ==
  /\ troubles < MaxTroubles /\ troubles' = troubles + 1 /\ calm' = FALSE
  /\ UNCHANGED <<fpga, ackReads, engine, handshake, requester, hpc, data, shuttingDown, late>>

\* TraceDataChanEnable: no channel, or some (updateRelToAbsIdx sets nChan).
KeepChannels ==
  /\ Operate /\ active' = ~active
  /\ queue' = Append(queue, IF active' THEN "keep" ELSE "keepNone")
  /\ UNCHANGED <<pollEnable, fast>>

\* Enabling either of the other two also sends an acknowledgement.  Its last
\* register is what the requester last made of it, so it may read the flag.
AckNow == queue' = Append(queue, IF ackReads THEN "ackStatus" ELSE "ack")

EnablePolling ==
  /\ Operate /\ pollEnable' = ~pollEnable
  /\ IF pollEnable' THEN AckNow ELSE UNCHANGED queue
  /\ UNCHANGED <<active, fast>>

FastUpdate ==
  /\ Operate /\ fast' = ~fast
  /\ IF fast' THEN AckNow ELSE UNCHANGED queue
  /\ UNCHANGED <<active, pollEnable>>

\* shutdown() only sets the flag: it signals neither of the requester's events.
Shutdown ==
  /\ ~shuttingDown /\ shuttingDown' = TRUE
  /\ UNCHANGED <<fpga, queue, ackReads, engine, handshake, requester, hpc, data, active, pollEnable,
                 fast, marks, troubles>>

Engine == SendQueued \/ Poll \/ GiveUp
Environment == Lose \/ Capture \/ KeepChannels \/ EnablePolling \/ FastUpdate \/ Shutdown

Next == Engine \/ Receiver \/ Requester \/ Environment

Spec == Init /\ [][Next]_vars

\* The threads run, a timeout expires if nothing else happens, and the mutex of
\* the engine is not taken by others for ever.
FairSpec ==
  /\ Spec
  /\ WF_vars(Receiver) /\ WF_vars(GiveUp)
  /\ SF_vars(SendQueued)
  /\ SF_vars(RequestPart)
  /\ WF_vars(RequestFails /\ shuttingDown)
  /\ WF_vars(Sync \/ Signalled \/ NotSignalled \/ Acknowledge \/ DataRead \/ DataMissing \/ Publish)

--------------------------------------------------------------------------------
(* Properties *)

\* A trace the receiving thread has announced is never forgotten: while the
\* requester waits behind newTraceDataAvailable, its event is set or about to be.
NoLostSignal == (rpc = "wait" /\ behind) => (reqEvent \/ hpc = "signal")

\* A request that begins with nothing in flight and no event left over, and during
\* which no answer is late, publishes only after its own last part has been read back.
\* (What an earlier request left over is the subject of PublishesItsOwn.)
Fresh == (rpc = "publish" /\ ~late) => Parts \in answered

\* "Wait for date to be read back, then process I/Q to A/P and publish" (comment of
\* TraceDataRequester): what is published is at least the request's own last part.
PublishesItsOwn == rpc = "publish" => Parts \in answered

\* While nothing is lost, late or asked for twice, the waveform PV shows one whole
\* trace, never parts of two.
WholeWhenCalm ==
  (calm /\ rpc # "publish") => \A p \in 1 .. Parts : published[p] = published[1]

\* ... and every trace is published once.
OnceWhenCalm == (calm /\ rpc = "publish" /\ at = 1) => buffer[1] > published[1]

\* "Wait for date to be read back, then process I/Q to A/P and publish" and "wait
\* returns false if timeout, e.g. dropped reply" (comments of TraceDataRequester).
AllReadBack == rpc = "publish" => answered = 1 .. Parts

\* With fast updates a trace does not stay in the FPGA for ever, whatever is lost:
\* it is acknowledged and the next one can be taken.
Serving == active /\ pollEnable /\ fast /\ ~shuttingDown
Acknowledged == <>[]Serving => (ready ~> ~ready)

\* The requester thread ends after a shutdown.
RequesterExits == shuttingDown ~> rpc = "exited"
================================================================================
