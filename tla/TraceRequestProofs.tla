-------------------------- MODULE TraceRequestProofs --------------------------
(***************************************************************************)
(* For traces of any number of packets, and any number of traces, status   *)
(* requests, answers in flight, losses, polls and settings: the signal     *)
(* that a trace is ready is never lost; a request that begins with nothing *)
(* left over from earlier ones, and whose answers are not late, publishes  *)
(* only after its own last part; and in calm operation every waveform      *)
(* published is one whole trace, and newer than the one before.            *)
(***************************************************************************)
EXTENDS TraceRequest, TLAPS

--------------------------------------------------------------------------------
(* NoLostSignal is inductive as it stands. *)

LEMMA SignalInit == Init => NoLostSignal
  BY DEF Init, NoLostSignal

LEMMA SignalStep == NoLostSignal /\ [Next]_vars => NoLostSignal'
<1> SUFFICES ASSUME NoLostSignal, [Next]_vars
             PROVE  NoLostSignal'
  OBVIOUS
<1> USE DEF NoLostSignal
<1>1. CASE NewTrace
  BY <1>1 DEF NewTrace
<1>2. CASE SignalRequester
  BY <1>2 DEF SignalRequester
<1>3. CASE Sync
  BY <1>3 DEF Sync
<1>4. CASE Signalled
  BY <1>4 DEF Signalled
<1>5. CASE NotSignalled
  BY <1>5 DEF NotSignalled
<1>6. CASE UNCHANGED <<handshake, hpc, rpc>>
  BY <1>6 DEF handshake
<1>7. CASE ReadPart
  BY <1>7 DEF ReadPart, requester
<1>8. CASE RequestPart \/ RequestFails \/ Acknowledge \/ DataRead \/ DataMissing \/ Publish
  BY <1>8 DEF RequestPart, RequestFails, Acknowledge, DataRead, DataMissing, Publish, handshake
<1>9. CASE Engine \/ PollAgain \/ IgnoreStatus \/ ReadEcho \/ ReadKept \/ Environment \/ UNCHANGED vars
  BY <1>6, <1>9
     DEF Engine, SendQueued, Poll, GiveUp, PollAgain, IgnoreStatus, ReadEcho, ReadKept,
         Environment, Lose, Capture, KeepChannels, EnablePolling, FastUpdate, Operate, Shutdown, requester, vars
<1> QED
  BY <1>1, <1>2, <1>3, <1>4, <1>5, <1>7, <1>8, <1>9 DEF Next, Receiver, Requester

\* A requester waiting behind newTraceDataAvailable has been signalled or is about
\* to be, although the number and the event are set one after the other.
THEOREM SignalNeverLost == Spec => []NoLostSignal
  BY SignalInit, SignalStep, PTL DEF Spec

--------------------------------------------------------------------------------
(* Types *)

AnswerType == [body : Bodies, awaited : BOOLEAN]
Messages == {"status", "ack", "ackStatus", "keep", "keepNone"}

LEMMA BodyFacts ==
  /\ \A b \in Bodies : /\ b.kind = "keep" => b.some \in BOOLEAN
                       /\ b.kind = "part" => /\ b.part \in 1 .. Parts /\ b.trace \in 0 .. MaxTraces
                                             /\ [b EXCEPT !.mine = FALSE] \in Bodies
  /\ Echo \in Bodies
  /\ \A f \in BOOLEAN : Status(f) \in Bodies /\ Kept(f) \in Bodies
<1>1. ASSUME NEW b \in Bodies
      PROVE  b.kind = "keep" => b.some \in BOOLEAN
  BY DEF Bodies, Echo
<1>2. ASSUME NEW b \in Bodies, b.kind = "part"
      PROVE  /\ b.part \in 1 .. Parts /\ b.trace \in 0 .. MaxTraces
             /\ [b EXCEPT !.mine = FALSE] \in Bodies
  <2>1. b \in [kind : {"part"}, part : 1 .. Parts, trace : 0 .. MaxTraces, mine : BOOLEAN]
    BY <1>2 DEF Bodies, Echo
  <2> QED
    BY <2>1 DEF Bodies
<1>3. Echo \in Bodies /\ \A f \in BOOLEAN : Status(f) \in Bodies /\ Kept(f) \in Bodies
  BY DEF Bodies, Status, Kept
<1> QED
  BY <1>1, <1>2, <1>3

LEMMA AnswerTypes ==
  /\ \A b \in Bodies : Answer(b) \in AnswerType
  /\ \A a \in AnswerType : /\ a.body \in Bodies /\ a.awaited \in BOOLEAN
                           /\ [a EXCEPT !.awaited = FALSE] \in AnswerType
                           /\ a.body.kind = "part" => [a EXCEPT !.body.mine = FALSE] \in AnswerType
<1>1. \A b \in Bodies : Answer(b) \in AnswerType
  BY DEF Answer, AnswerType
<1>2. \A a \in AnswerType : /\ a.body \in Bodies /\ a.awaited \in BOOLEAN
                            /\ [a EXCEPT !.awaited = FALSE] \in AnswerType
  BY DEF AnswerType
<1>3. ASSUME NEW a \in AnswerType, a.body.kind = "part"
      PROVE  [a EXCEPT !.body.mine = FALSE] \in AnswerType
  <2> DEFINE c == [a.body EXCEPT !.mine = FALSE]
  <2>1. c \in Bodies
    BY <1>2, <1>3, BodyFacts
  <2>2. [a EXCEPT !.body.mine = FALSE] = [a EXCEPT !.body = c]
    OBVIOUS
  <2> HIDE DEF c
  <2>3. [a EXCEPT !.body = c] \in AnswerType
    BY <2>1 DEF AnswerType
  <2> QED
    BY <2>2, <2>3
<1> QED
  BY <1>1, <1>2, <1>3

\* What is done to the answers in flight.
LEMMA InFlightTypes ==
  ASSUME NEW w \in Seq(AnswerType)
  PROVE  /\ Forget(w) \in Seq(AnswerType) /\ Disown(w) \in Seq(AnswerType)
         /\ \A b : Append(Forget(w), Answer(b)) # <<>>
         /\ \A b \in Bodies : Append(Forget(w), Answer(b)) \in Seq(AnswerType)
         /\ \A i \in DOMAIN w : RemoveAt(w, i) \in Seq(AnswerType)
         /\ w # <<>> => /\ Forget(w) # <<>> /\ Disown(w) # <<>>
                        /\ \A i \in DOMAIN w : i > 1 => RemoveAt(w, i) # <<>>
         /\ w # <<>> => Tail(w) \in Seq(AnswerType) /\ Head(w) \in AnswerType
<1>0. DOMAIN w = 1 .. Len(w) /\ Len(w) \in Nat /\ \A i \in 1 .. Len(w) : w[i] \in AnswerType
  OBVIOUS
<1>1. Forget(w) \in Seq(AnswerType)
  <2>1. \A i \in 1 .. Len(w) : [w[i] EXCEPT !.awaited = FALSE] \in AnswerType
    BY <1>0, AnswerTypes
  <2>2. Forget(w) \in [1 .. Len(w) -> AnswerType]
    BY <1>0, <2>1 DEF Forget
  <2> QED
    BY <1>0, <2>2
<1>2. Disown(w) \in Seq(AnswerType)
  <2> DEFINE d(i) == IF w[i].body.kind = "part" THEN [w[i] EXCEPT !.body.mine = FALSE] ELSE w[i]
  <2>1. \A i \in 1 .. Len(w) : d(i) \in AnswerType
    BY <1>0, AnswerTypes
  <2>2. Disown(w) = [i \in 1 .. Len(w) |-> d(i)]
    BY <1>0 DEF Disown
  <2> HIDE DEF d
  <2>3. Disown(w) \in [1 .. Len(w) -> AnswerType]
    BY <2>1, <2>2
  <2> QED
    BY <1>0, <2>3
<1>3. ASSUME NEW b \in Bodies
      PROVE  Append(Forget(w), Answer(b)) \in Seq(AnswerType)
  <2>1. Answer(b) \in AnswerType
    BY AnswerTypes
  <2> QED
    BY <1>1, <2>1
<1>4. ASSUME NEW i \in DOMAIN w
      PROVE  /\ RemoveAt(w, i) \in Seq(AnswerType)
             /\ i > 1 => RemoveAt(w, i) # <<>>
  <2>1. i \in 1 .. Len(w)
    BY <1>0
  <2>2. SubSeq(w, 1, i - 1) \in Seq(AnswerType) /\ SubSeq(w, i + 1, Len(w)) \in Seq(AnswerType)
    BY <1>0, <2>1
  <2>3. i > 1 => SubSeq(w, 1, i - 1) # <<>>
    <3>1. i > 1 => Len(SubSeq(w, 1, i - 1)) = i - 1
      BY <1>0, <2>1
    <3> QED
      BY <2>1, <3>1
  <2>4. \A s, t \in Seq(AnswerType) : s \o t \in Seq(AnswerType) /\ (s # <<>> => s \o t # <<>>)
    OBVIOUS
  <2> QED
    BY <2>2, <2>3, <2>4 DEF RemoveAt
<1>5. \A b : Append(Forget(w), Answer(b)) # <<>>
  BY <1>1
<1>6. w # <<>> => Forget(w) # <<>> /\ Disown(w) # <<>>
  <2>1. w # <<>> => 1 \in DOMAIN w
    BY <1>0
  <2>2. DOMAIN Forget(w) = DOMAIN w /\ DOMAIN Disown(w) = DOMAIN w
    BY DEF Forget, Disown
  <2>3. 1 \notin DOMAIN <<>>
    OBVIOUS
  <2> QED
    BY <2>1, <2>2, <2>3
<1>7. w # <<>> => Tail(w) \in Seq(AnswerType) /\ Head(w) \in AnswerType
  OBVIOUS
<1> QED
  BY <1>1, <1>2, <1>3, <1>4, <1>5, <1>6, <1>7

\* The answer that is about to signal the requester is still the first.
Processing == hpc = "signal" => wire # <<>>

LEMMA WireTypes ==
  ASSUME TypeOK, Processing, [Next]_vars
  PROVE  wire' \in Seq(AnswerType)
<1>0. wire \in Seq(AnswerType) /\ ready \in BOOLEAN /\ at \in 1 .. Parts /\ trace \in 0 .. MaxTraces
  BY DEF TypeOK, AnswerType
<1>1. PartRead(at) \in Bodies
  BY <1>0 DEF PartRead, Bodies
<1>2. ASSUME NEW b \in Bodies, NEW flag, Transmit(b, flag)
      PROVE  wire' \in Seq(AnswerType)
  BY <1>0, <1>2, InFlightTypes DEF Transmit
<1>3. CASE SendQueued
  <2>1. \E b \in Bodies, flag \in BOOLEAN : Transmit(b, flag)
    BY <1>0, <1>3, BodyFacts DEF SendQueued
  <2> QED
    BY <1>2, <2>1
<1>4. CASE RequestPart
  BY <1>1, <1>2, <1>4 DEF RequestPart
<1>5. CASE Poll
  <2>1. wire' = Append(Forget(wire), Answer(Status(ready)))
    BY <1>5 DEF Poll
  <2> QED
    BY <1>0, <2>1, BodyFacts, InFlightTypes
<1>6. CASE GiveUp \/ Lose \/ Signalled
  <2>1. \/ wire' \in {wire, Forget(wire), Disown(wire)}
        \/ \E i \in DOMAIN wire : wire' = RemoveAt(wire, i)
    BY <1>6 DEF GiveUp, Lose, Signalled
  <2> QED
    BY <1>0, <2>1, InFlightTypes
<1>7. CASE PollAgain \/ IgnoreStatus \/ ReadEcho \/ ReadKept \/ ReadPart
  <2>1. wire # <<>> /\ wire' = Tail(wire)
    BY <1>7 DEF PollAgain, IgnoreStatus, ReadEcho, ReadKept, ReadPart, Take, Ready
  <2> QED
    BY <1>0, <2>1, InFlightTypes
<1>8. CASE SignalRequester
  <2>1. wire' = Tail(wire) /\ wire # <<>>
    BY <1>8 DEF SignalRequester, Processing
  <2> QED
    BY <1>0, <2>1, InFlightTypes
<1>9. \/ wire' = wire
      \/ SendQueued \/ RequestPart \/ Poll \/ GiveUp \/ Lose \/ Signalled
      \/ PollAgain \/ IgnoreStatus \/ ReadEcho \/ ReadKept \/ ReadPart \/ SignalRequester
  BY DEF Next, Engine, Receiver, Requester, Environment, Capture, NewTrace, Sync, NotSignalled,
         RequestFails, Acknowledge, DataRead, DataMissing, Publish, KeepChannels, EnablePolling,
         FastUpdate, Operate, Shutdown, engine, vars
<1> QED
  BY <1>0, <1>3, <1>4, <1>5, <1>6, <1>7, <1>8, <1>9

LEMMA QueueTypes ==
  ASSUME TypeOK, [Next]_vars
  PROVE  queue' \in Seq(Messages)
<1>0. queue \in Seq(Messages)
  BY DEF TypeOK, Messages
<1>1. \A m \in Messages : Append(queue, m) \in Seq(Messages)
  BY <1>0
<1>2. queue # <<>> => Tail(queue) \in Seq(Messages)
  BY <1>0
<1>3. CASE SendQueued
  BY <1>2, <1>3 DEF SendQueued
<1>4. CASE PollAgain \/ NotSignalled \/ Acknowledge \/ KeepChannels \/ EnablePolling \/ FastUpdate
  <2>1. queue' = queue \/ \E m \in Messages : queue' = Append(queue, m)
    BY <1>4 DEF PollAgain, NotSignalled, Acknowledge, KeepChannels, EnablePolling, FastUpdate,
                AckNow, Messages
  <2> QED
    BY <1>0, <1>1, <2>1
<1>5. \/ queue' = queue \/ SendQueued
      \/ PollAgain \/ NotSignalled \/ Acknowledge \/ KeepChannels \/ EnablePolling \/ FastUpdate
  BY DEF Next, Engine, Poll, GiveUp, Receiver, NewTrace, SignalRequester, IgnoreStatus, ReadEcho,
         ReadKept, ReadPart, Requester, Sync, Signalled, RequestPart, RequestFails, DataRead,
         DataMissing, Publish, Environment, Lose, Capture, Shutdown, vars
<1> QED
  BY <1>0, <1>3, <1>4, <1>5

\* The traces, and where the threads are.
Places ==
  /\ trace \in 0 .. MaxTraces /\ at \in 1 .. Parts /\ hpc \in {"idle", "signal"}
  /\ rpc \in {"sync", "wait", "request", "ack", "data", "publish", "exited"}
  /\ buffer \in [1 .. Parts -> 0 .. MaxTraces] /\ published \in [1 .. Parts -> 0 .. MaxTraces]
  /\ answered \in SUBSET (1 .. Parts)
  /\ troubles \in Nat

LEMMA PlacesStep ==
  ASSUME TypeOK, [Next]_vars
  PROVE  Places'
<1>0. Places /\ Parts \in Nat \ {0} /\ MaxTraces \in Nat
  BY TraceAssumption DEF TypeOK, Places
<1>1. ASSUME NEW body, NEW flag, Transmit(body, flag)
      PROVE  trace' = trace /\ troubles' \in Nat
  BY <1>0, <1>1 DEF Transmit, Places
<1>2. CASE Engine
  <2>1. trace' = trace /\ troubles' \in Nat
    <3>1. CASE SendQueued
      BY <1>0, <1>1, <3>1 DEF SendQueued, Places
    <3>2. CASE Poll \/ GiveUp
      <4>1. trace' = trace /\ troubles' \in {troubles, troubles + 1}
        BY <3>2 DEF Poll, GiveUp, fpga
      <4> QED
        BY <1>0, <4>1 DEF Places
    <3> QED
      BY <1>2, <3>1, <3>2 DEF Engine
  <2>2. UNCHANGED <<at, rpc, hpc, buffer, published, answered>>
    BY <1>2 DEF Engine, SendQueued, Poll, GiveUp, requester, data
  <2> QED
    BY <1>0, <2>1, <2>2 DEF Places
<1>3. CASE ReadPart
  <2>1. wire \in Seq(AnswerType) /\ wire # <<>>
    BY <1>3 DEF TypeOK, AnswerType, ReadPart, Take, Ready
  <2>2. Answering.part \in 1 .. Parts /\ Answering.trace \in 0 .. MaxTraces
    <3>1. Head(wire) \in AnswerType
      BY <2>1, InFlightTypes
    <3>2. Answering \in Bodies /\ Answering.kind = "part"
      BY <1>3, <3>1, AnswerTypes DEF ReadPart, Answering
    <3> QED
      BY <3>2, BodyFacts
  <2>3. /\ buffer' = buffer \/ buffer' = [buffer EXCEPT ![Answering.part] = Answering.trace]
        /\ answered' \in {answered, answered \union {Answering.part}}
        /\ UNCHANGED <<trace, at, rpc, hpc, published, troubles>>
    BY <1>3 DEF ReadPart, fpga, requester
  <2> HIDE DEF Answering
  <2>4. buffer' \in [1 .. Parts -> 0 .. MaxTraces] /\ answered' \in SUBSET (1 .. Parts)
    BY <1>0, <2>2, <2>3 DEF Places
  <2> QED
    BY <1>0, <2>3, <2>4 DEF Places
<1>4. CASE NewTrace \/ SignalRequester \/ PollAgain \/ IgnoreStatus \/ ReadEcho \/ ReadKept
  <2>1. /\ UNCHANGED <<trace, at, rpc, buffer, published, answered, troubles>>
        /\ hpc' = hpc \/ hpc' = "idle" \/ hpc' = "signal"
    BY <1>4 DEF NewTrace, SignalRequester, PollAgain, IgnoreStatus, ReadEcho, ReadKept,
                fpga, requester, data
  <2> QED
    BY <1>0, <2>1 DEF Places
<1>5. CASE Publish
  <2>1. buffer[at] \in 0 .. MaxTraces
    BY <1>0 DEF Places
  <2>2. published' \in [1 .. Parts -> 0 .. MaxTraces]
    BY <1>0, <1>5, <2>1 DEF Publish, Places
  <2>3. at' \in 1 .. Parts /\ rpc' \in {rpc, "sync"}
    BY <1>0, <1>5 DEF Publish, Places
  <2>4. UNCHANGED <<trace, hpc, buffer, answered, troubles>>
    BY <1>5 DEF Publish, fpga
  <2> QED
    BY <1>0, <2>2, <2>3, <2>4 DEF Places
<1>6. CASE RequestPart \/ RequestFails
  <2>1. trace' = trace /\ troubles' \in Nat
    BY <1>0, <1>1, <1>6 DEF RequestPart, RequestFails, Places, fpga
  <2>2. at' \in 1 .. Parts /\ rpc' \in {rpc, "ack"}
    BY <1>0, <1>6 DEF RequestPart, RequestFails, Places
  <2>3. UNCHANGED <<hpc, buffer, published, answered>>
    BY <1>6 DEF RequestPart, RequestFails, data
  <2> QED
    BY <1>0, <2>1, <2>2, <2>3 DEF Places
<1>7. CASE Sync \/ Signalled \/ NotSignalled \/ Acknowledge \/ DataRead \/ DataMissing
  <2>1. /\ UNCHANGED <<trace, at, hpc, buffer, published, troubles>>
        /\ answered' \in {answered, {}}
        /\ rpc' \in {"sync", "wait", "request", "data", "publish", "exited"}
    BY <1>7 DEF Sync, Signalled, NotSignalled, Acknowledge, DataRead, DataMissing,
                fpga, data
  <2> QED
    BY <1>0, <2>1 DEF Places
<1>8. CASE Environment \/ UNCHANGED vars
  <2>1. UNCHANGED <<at, rpc, hpc, buffer, published, answered>>
    BY <1>8 DEF Environment, Lose, Capture, KeepChannels, EnablePolling, FastUpdate, Operate,
                Shutdown, requester, data, vars
  <2>2. trace' = trace \/ (trace < MaxTraces /\ trace' = trace + 1)
    BY <1>8 DEF Environment, Lose, Capture, KeepChannels, EnablePolling, FastUpdate, Operate,
                Shutdown, fpga, vars
  <2>3. troubles' \in {troubles, troubles + 1}
    BY <1>8 DEF Environment, Lose, Capture, KeepChannels, EnablePolling, FastUpdate, Operate,
                Shutdown, vars
  <2>4. trace' \in 0 .. MaxTraces /\ troubles' \in Nat
    BY <1>0, <2>2, <2>3 DEF Places
  <2> QED
    BY <1>0, <2>1, <2>3, <2>4 DEF Places
<1> QED
  BY <1>2, <1>3, <1>4, <1>5, <1>6, <1>7, <1>8 DEF Next, Receiver, Requester

LEMMA ProcessingStep ==
  ASSUME TypeOK, Processing, [Next]_vars
  PROVE  Processing'
<1> SUFFICES ASSUME hpc' = "signal"
             PROVE  wire' # <<>>
  BY DEF Processing
<1>0. wire \in Seq(AnswerType)
  BY DEF TypeOK, AnswerType
<1>1. CASE NewTrace
  BY <1>1 DEF NewTrace, Ready, engine
<1>2. CASE SignalRequester \/ GiveUp \/ PollAgain \/ IgnoreStatus \/ ReadEcho \/ ReadKept \/ ReadPart
  BY <1>2 DEF SignalRequester, GiveUp, PollAgain, IgnoreStatus, ReadEcho, ReadKept, ReadPart,
              Take, Ready
<1>3. CASE SendQueued \/ RequestPart \/ Poll \/ Lose \/ Signalled
  <2>1. hpc = "signal" /\ wire # <<>>
    BY <1>3 DEF SendQueued, RequestPart, Poll, Lose, Signalled, Processing
  <2>2. \/ wire' \in {wire, Forget(wire), Disown(wire)}
        \/ \E b : wire' = Append(Forget(wire), Answer(b))
        \/ \E i \in DOMAIN wire : i > 1 /\ wire' = RemoveAt(wire, i)
    BY <1>3, <2>1 DEF SendQueued, RequestPart, Poll, Lose, Signalled, Transmit
  <2> QED
    BY <1>0, <2>1, <2>2, InFlightTypes
<1>4. \/ wire' = wire /\ hpc' = hpc
      \/ NewTrace \/ SignalRequester \/ GiveUp \/ PollAgain \/ IgnoreStatus \/ ReadEcho \/ ReadKept
      \/ ReadPart \/ SendQueued \/ RequestPart \/ Poll \/ Lose \/ Signalled
  BY DEF Next, Engine, Receiver, Requester, Environment, Capture, Sync, NotSignalled,
         RequestFails, Acknowledge, DataRead, DataMissing, Publish, KeepChannels, EnablePolling,
         FastUpdate, Operate, Shutdown, engine, vars
<1> QED
  BY <1>1, <1>2, <1>3, <1>4 DEF Processing

Flags ==
  /\ ready \in BOOLEAN /\ ackReads \in BOOLEAN /\ busy \in BOOLEAN
  /\ behind \in BOOLEAN /\ reqEvent \in BOOLEAN /\ rawWaveRead \in BOOLEAN
  /\ active \in BOOLEAN /\ pollEnable \in BOOLEAN /\ fast \in BOOLEAN
  /\ shuttingDown \in BOOLEAN /\ late \in BOOLEAN /\ calm \in BOOLEAN

LEMMA FlagsStep ==
  ASSUME TypeOK, Processing, [Next]_vars
  PROVE  Flags'
<1>0. Flags
  BY DEF TypeOK, Flags
<1>1. CASE Engine
  <2>1. ASSUME NEW body, NEW flag \in BOOLEAN, Transmit(body, flag)
        PROVE  busy' \in BOOLEAN /\ ready' \in BOOLEAN /\ calm' \in BOOLEAN
    BY <1>0, <2>1 DEF Transmit, Flags
  <2>2. UNCHANGED <<ackReads, handshake, settings>>
    BY <1>1 DEF Engine, SendQueued, Poll, GiveUp
  <2>3. busy' \in BOOLEAN /\ ready' \in BOOLEAN /\ calm' \in BOOLEAN /\ late' \in BOOLEAN
    <3>1. CASE SendQueued
      BY <1>0, <2>1, <3>1 DEF SendQueued, Flags
    <3>2. CASE Poll
      BY <1>0, <3>2 DEF Poll, Flags, fpga
    <3>3. CASE GiveUp
      BY <1>0, <3>3 DEF GiveUp, Flags, fpga
    <3> QED
      BY <1>1, <3>1, <3>2, <3>3 DEF Engine
  <2> QED
    BY <1>0, <2>2, <2>3 DEF Flags, handshake, settings
<1>2. CASE Receiver
  <2>1. CASE NewTrace
    BY <1>0, <2>1 DEF NewTrace, Flags, fpga, engine, settings, marks
  <2>2. CASE ~NewTrace
    <3>1. wire \in Seq(AnswerType) /\ wire # <<>>
      BY <1>2, <2>2 DEF TypeOK, AnswerType, Processing, Receiver, SignalRequester, PollAgain,
                        IgnoreStatus, ReadEcho, ReadKept, ReadPart, Take, Ready
    <3>2. Head(wire) \in AnswerType
      BY <3>1, InFlightTypes
    <3>3. Answering \in Bodies /\ Head(wire).awaited \in BOOLEAN
      BY <3>2, AnswerTypes DEF Answering
    <3>4. ReadKept => active' \in BOOLEAN
      BY <3>3, BodyFacts DEF ReadKept
    <3>5. busy' = (busy /\ ~Head(wire).awaited) /\ UNCHANGED <<fpga, ackReads, marks>>
      BY <1>2, <2>2 DEF Receiver, SignalRequester, PollAgain, IgnoreStatus, ReadEcho, ReadKept,
                        ReadPart, Done
    <3>6. UNCHANGED <<behind, pollEnable, fast, shuttingDown>> /\ (active' = active \/ ReadKept)
      BY <1>2, <2>2 DEF Receiver, SignalRequester, PollAgain, IgnoreStatus, ReadEcho, ReadKept,
                        ReadPart, handshake, settings
    <3>7. /\ reqEvent' \in {reqEvent, TRUE}
          /\ rawWaveRead' = rawWaveRead \/ rawWaveRead' = (rawWaveRead \/ Answering.part = Parts)
      BY <1>2, <2>2 DEF Receiver, SignalRequester, PollAgain, IgnoreStatus, ReadEcho, ReadKept,
                        ReadPart, handshake
    <3>8. busy' \in BOOLEAN /\ reqEvent' \in BOOLEAN /\ rawWaveRead' \in BOOLEAN
      BY <1>0, <3>5, <3>7 DEF Flags
    <3> QED
      BY <1>0, <3>4, <3>5, <3>6, <3>8 DEF Flags, fpga, marks
  <2> QED
    BY <2>1, <2>2
<1>3. CASE Requester
  <2>1. CASE RequestPart
    <3>1. busy' \in BOOLEAN /\ ready' \in BOOLEAN /\ calm' \in BOOLEAN
      BY <1>0, <2>1 DEF RequestPart, Transmit, Flags
    <3>2. UNCHANGED <<ackReads, handshake, settings, late>>
      BY <2>1 DEF RequestPart
    <3> QED
      BY <1>0, <3>1, <3>2 DEF Flags, handshake, settings
  <2>2. CASE NotSignalled \/ RequestFails \/ DataMissing
    <3>1. calm' \in BOOLEAN /\ late' \in BOOLEAN
      BY <1>0, <2>2 DEF NotSignalled, RequestFails, DataMissing, marks, Flags
    <3>2. UNCHANGED <<ready, busy, ackReads, handshake, settings>>
      BY <2>2 DEF NotSignalled, RequestFails, DataMissing, fpga, engine
    <3> QED
      BY <1>0, <3>1, <3>2 DEF Flags, handshake, settings
  <2>3. CASE Sync \/ Signalled \/ DataRead \/ Publish \/ Acknowledge
    <3>1. /\ behind' \in {behind, FALSE} /\ reqEvent' \in {reqEvent, FALSE}
          /\ rawWaveRead' \in {rawWaveRead, FALSE} /\ ackReads' \in {ackReads, fast}
      BY <2>3 DEF Sync, Signalled, DataRead, Publish, Acknowledge, handshake
    <3>2. UNCHANGED <<fpga, busy, settings, calm>>
      BY <2>3 DEF Sync, Signalled, DataRead, Publish, Acknowledge, engine, marks
    <3>5. late' \in BOOLEAN
      <4>1. late' = late \/ (Signalled /\ late' \in BOOLEAN)
        BY <2>3 DEF Sync, Signalled, DataRead, Publish, Acknowledge, marks
      <4> QED
        BY <1>0, <4>1 DEF Flags
    <3>3. FALSE \in BOOLEAN /\ \A f, g \in BOOLEAN : \A h : h \in {f, g} => h \in BOOLEAN
      OBVIOUS
    <3>4. /\ behind' \in BOOLEAN /\ reqEvent' \in BOOLEAN /\ rawWaveRead' \in BOOLEAN
          /\ ackReads' \in BOOLEAN
      BY <1>0, <3>1, <3>3, Zenon DEF Flags
    <3> QED
      BY <1>0, <3>2, <3>4, <3>5 DEF Flags, fpga, settings
  <2> QED
    BY <1>3, <2>1, <2>2, <2>3 DEF Requester
<1>4. CASE Environment \/ UNCHANGED vars
  <2>1. /\ ready' \in {ready, TRUE} /\ calm' \in {calm, FALSE}
        /\ UNCHANGED <<ackReads, busy, handshake, late>>
    BY <1>4 DEF Environment, Lose, Capture, KeepChannels, EnablePolling, FastUpdate, Operate,
                Shutdown, fpga, engine, marks, vars
  <2>2. /\ active' = active \/ active' = ~active
        /\ pollEnable' = pollEnable \/ pollEnable' = ~pollEnable
        /\ fast' = fast \/ fast' = ~fast
        /\ shuttingDown' \in {shuttingDown, TRUE}
    BY <1>4 DEF Environment, Lose, Capture, KeepChannels, EnablePolling, FastUpdate, Operate,
                Shutdown, settings, vars
  <2>3. TRUE \in BOOLEAN /\ FALSE \in BOOLEAN
    OBVIOUS
  <2>4. \A f, g \in BOOLEAN : \A h : (h \in {f, g} \/ h = ~f) => h \in BOOLEAN
    OBVIOUS
  <2>5. ready' \in BOOLEAN /\ calm' \in BOOLEAN /\ shuttingDown' \in BOOLEAN
    BY <1>0, <2>1, <2>2, <2>3, <2>4, Zenon DEF Flags
  <2>6. active' \in BOOLEAN /\ pollEnable' \in BOOLEAN /\ fast' \in BOOLEAN
    BY <1>0, <2>2, <2>3, <2>4, Zenon DEF Flags
  <2> QED
    BY <1>0, <2>1, <2>5, <2>6 DEF Flags, handshake
<1> QED
  BY <1>1, <1>2, <1>3, <1>4 DEF Next

LEMMA TypesInit == Init => TypeOK /\ Processing
<1> SUFFICES ASSUME Init PROVE TypeOK /\ Processing
  OBVIOUS
<1>1. Parts \in Nat \ {0} /\ MaxTraces \in Nat
  BY TraceAssumption
<1>2. Places
  BY <1>1 DEF Init, Places
<1>3. Flags
  BY DEF Init, Flags
<1>4. wire = <<>> /\ queue = <<>> /\ hpc = "idle"
  BY DEF Init
<1>5. wire \in Seq(AnswerType) /\ queue \in Seq(Messages)
  BY <1>4
<1> QED
  BY <1>2, <1>3, <1>4, <1>5 DEF TypeOK, Places, Flags, AnswerType, Messages, Processing

LEMMA TypesStep == TypeOK /\ Processing /\ [Next]_vars => (TypeOK /\ Processing)'
<1> SUFFICES ASSUME TypeOK, Processing, [Next]_vars PROVE (TypeOK /\ Processing)'
  OBVIOUS
<1>1. /\ Places' /\ Flags' /\ wire' \in Seq(AnswerType) /\ queue' \in Seq(Messages)
      /\ Processing'
  BY PlacesStep, FlagsStep, WireTypes, QueueTypes, ProcessingStep
<1> QED
  BY <1>1 DEF TypeOK, Places, Flags, AnswerType, Messages

\* Every answer in flight and every queued message is of a kind the driver knows, the
\* parts asked for and published are parts of the trace, and the buffer holds traces the
\* FPGA has taken.
THEOREM TraceTypes == Spec => []TypeOK
  BY TypesInit, TypesStep, PTL DEF Spec

--------------------------------------------------------------------------------
(* Fresh needs to know what can be in flight. *)

\* Unless an answer was late and something of it may be left (late), at most one answer
\* is in flight, and the engine waits
\* for it.  A part in flight belongs to the present request, and while the
\* requester still sends parts it is one that has been sent.  Nothing is left over
\* when rawWaveRead is set, so it is set for the present request.
Orderly ==
  /\ wire = <<>> \/ (wire = <<wire[1]>> /\ wire[1].awaited /\ busy)
  /\ (wire # <<>> /\ wire[1].body.kind = "part") =>
       /\ wire[1].body.mine
       /\ rpc \in {"request", "ack", "data"}
       /\ rpc = "request" => wire[1].body.part < at
       /\ ~rawWaveRead
  /\ rawWaveRead => rpc \in {"ack", "data"} /\ Parts \in answered
  /\ rpc = "publish" => Parts \in answered
  /\ hpc = "signal" => wire # <<>>

FreshInv ==
  /\ at \in 1 .. Parts
  /\ hpc \in {"idle", "signal"}
  /\ ~late => Orderly

--------------------------------------------------------------------------------
(* Sequences of at most one element *)

LEMMA NoneInFlight == Forget(<<>>) = <<>> /\ Disown(<<>>) = <<>>
  BY DEF Forget, Disown

LEMMA OneInFlight ==
  ASSUME NEW x
  PROVE  /\ Tail(<<x>>) = <<>> /\ RemoveAt(<<x>>, 1) = <<>> /\ Append(<<>>, x) = <<x>>
         /\ <<x>> # <<>> /\ DOMAIN <<x>> = {1} /\ <<x>>[1] = x /\ Head(<<x>>) = x
<1>1. Tail(<<x>>) = <<>> /\ Append(<<>>, x) = <<x>>
  OBVIOUS
<1>2. RemoveAt(<<x>>, 1) = <<>>
  BY DEF RemoveAt
<1>3. <<x>> # <<>> /\ DOMAIN <<x>> = {1} /\ <<x>>[1] = x /\ Head(<<x>>) = x
  OBVIOUS
<1> QED
  BY <1>1, <1>2, <1>3

LEMMA OthersDisown ==
  ASSUME NEW x, x.body.kind # "part"
  PROVE  Disown(<<x>>) = <<x>>
  BY DEF Disown

\* Requests are only sent when nothing is in flight, and then put one answer there.
LEMMA TransmitOne ==
  ASSUME Orderly, NEW body, NEW flag, Transmit(body, flag)
  PROVE  /\ wire = <<>>
         /\ wire' = <<>> \/ (wire' = <<wire'[1]>> /\ wire'[1] = Answer(body))
         /\ busy'
<1>1. ~busy /\ busy'
  BY DEF Transmit
<1>2. wire = <<>>
  BY <1>1 DEF Orderly
<1>3. wire' = <<>> \/ wire' = <<Answer(body)>>
  <2>1. wire' = Append(Forget(wire), Answer(body)) \/ wire' = Forget(wire)
    BY DEF Transmit
  <2> QED
    BY <1>2, <2>1, NoneInFlight, OneInFlight
<1> QED
  BY <1>1, <1>2, <1>3, OneInFlight

\* What is not a part leaves no part in flight.
LEMMA TransmitOther ==
  ASSUME Orderly, NEW body, body.kind # "part", NEW flag, Transmit(body, flag)
  PROVE  /\ wire = <<>> /\ busy'
         /\ wire' = <<>> \/ wire' = <<wire'[1]>>
         /\ wire' # <<>> => wire'[1].awaited /\ wire'[1].body.kind # "part"
<1>1. Answer(body).awaited /\ Answer(body).body = body
  BY DEF Answer
<1>2. wire = <<>> /\ busy'
  BY TransmitOne
<1>3. wire' = <<>> \/ (wire' = <<wire'[1]>> /\ wire'[1] = Answer(body))
  BY TransmitOne
<1>4. wire' # <<>> => wire'[1].awaited /\ wire'[1].body.kind # "part"
  BY <1>1, <1>3
<1> QED
  BY <1>2, <1>3, <1>4

\* The receiving thread takes up the only answer.
LEMMA TakeOne ==
  ASSUME Orderly, wire # <<>>
  PROVE  Tail(wire) = <<>> /\ Head(wire) = wire[1]
  BY OneInFlight DEF Orderly

LEMMA FreshInit == Init => FreshInv
  BY TraceAssumption DEF Init, FreshInv, Orderly

LEMMA FreshStep == FreshInv /\ Processing /\ [Next]_vars => FreshInv'
<1> SUFFICES ASSUME FreshInv, Processing, [Next]_vars
             PROVE  FreshInv'
  OBVIOUS
<1>0. Parts \in Nat \ {0} /\ at \in 1 .. Parts /\ hpc \in {"idle", "signal"}
  BY TraceAssumption DEF FreshInv
<1>b. ~late => Orderly
  BY DEF FreshInv
<1>1. CASE SendQueued
  <2>1. UNCHANGED <<rawWaveRead, rpc, at, hpc, answered, late>>
    BY <1>1 DEF SendQueued, handshake, requester, data
  <2>2. ASSUME ~late
        PROVE  Orderly'
    <3>1. Orderly
      BY <1>b, <2>2
    <3>2. /\ wire = <<>> /\ busy'
          /\ wire' = <<>> \/ wire' = <<wire'[1]>>
          /\ wire' # <<>> => wire'[1].awaited /\ wire'[1].body.kind # "part"
      <4>1. /\ Status(ready).kind # "part" /\ Status(FALSE).kind # "part" /\ Echo.kind # "part"
            /\ Kept(TRUE).kind # "part" /\ Kept(FALSE).kind # "part"
        BY DEF Status, Echo, Kept
      <4>2. CASE Transmit(Status(ready), ready)
        BY <3>1, <4>1, <4>2, TransmitOther
      <4>3. CASE Transmit(Echo, FALSE)
        BY <3>1, <4>1, <4>3, TransmitOther
      <4>4. CASE Transmit(Status(FALSE), FALSE)
        BY <3>1, <4>1, <4>4, TransmitOther
      <4>5. CASE Transmit(Kept(TRUE), ready)
        BY <3>1, <4>1, <4>5, TransmitOther
      <4>6. CASE Transmit(Kept(FALSE), ready)
        BY <3>1, <4>1, <4>6, TransmitOther
      <4> QED
        BY <1>1, <4>2, <4>3, <4>4, <4>5, <4>6 DEF SendQueued
    <3> QED
      BY <2>1, <3>1, <3>2 DEF Orderly
  <2> QED
    BY <1>0, <2>1, <2>2 DEF FreshInv
<1>2. CASE Poll
  <2>1. /\ UNCHANGED <<rawWaveRead, rpc, at, hpc, answered, late>>
        /\ ~busy /\ busy'
        /\ wire' = Append(Forget(wire), Answer(Status(ready)))
    BY <1>2 DEF Poll, handshake, requester, data
  <2>2. ASSUME ~late
        PROVE  Orderly'
    <3>1. wire = <<>>
      BY <1>b, <2>1, <2>2 DEF Orderly
    <3>2. wire' = <<Answer(Status(ready))>>
      BY <2>1, <3>1, NoneInFlight, OneInFlight
    <3>3. wire' = <<wire'[1]>> /\ wire'[1].awaited /\ wire'[1].body.kind # "part"
      BY <3>2, OneInFlight DEF Answer, Status
    <3> QED
      BY <1>b, <2>1, <2>2, <3>1, <3>3 DEF Orderly
  <2> QED
    BY <1>0, <2>1, <2>2 DEF FreshInv
<1>3. CASE GiveUp
  <2>1. /\ UNCHANGED <<rawWaveRead, rpc, at, hpc, answered>>
        /\ hpc = "idle"
        /\ late' = (late \/ \E i \in DOMAIN wire : wire[i].awaited)
        /\ wire' = Forget(wire)
    BY <1>3 DEF GiveUp, handshake, requester, data
  <2>2. ASSUME ~late'
        PROVE  Orderly'
    <3>1. ~late /\ ~ \E i \in DOMAIN wire : wire[i].awaited
      BY <2>1, <2>2
    <3>2. wire = <<>>
      BY <1>b, <3>1, OneInFlight DEF Orderly
    <3>3. wire' = <<>>
      BY <2>1, <3>2, NoneInFlight
    <3> QED
      BY <1>b, <2>1, <3>1, <3>3 DEF Orderly
  <2> QED
    BY <1>0, <2>1, <2>2 DEF FreshInv
<1>4. CASE Lose
  <2>1. UNCHANGED <<busy, rawWaveRead, rpc, at, hpc, answered, late>>
    BY <1>4 DEF Lose, handshake, requester, data
  <2>2. PICK i \in DOMAIN wire : (hpc # "signal" \/ i > 1) /\ wire' = RemoveAt(wire, i)
    BY <1>4 DEF Lose
  <2>3. ASSUME ~late
        PROVE  Orderly'
    <3>1. wire = <<wire[1]>>
      BY <1>b, <2>2, <2>3 DEF Orderly
    <3>2. i = 1
      BY <2>2, <3>1, OneInFlight
    <3>3. wire' = <<>> /\ hpc # "signal"
      BY <2>2, <3>1, <3>2, OneInFlight
    <3> QED
      BY <1>b, <2>1, <2>3, <3>3 DEF Orderly
  <2> QED
    BY <1>0, <2>1, <2>3 DEF FreshInv
<1>5. CASE NewTrace
  <2>1. /\ UNCHANGED <<busy, wire, rawWaveRead, rpc, at, answered, late>>
        /\ hpc' = "signal" /\ wire # <<>>
    BY <1>5 DEF NewTrace, Ready, engine, requester, data, marks
  <2> QED
    BY <1>0, <1>b, <2>1 DEF FreshInv, Orderly
<1>6. CASE SignalRequester
  <2>1. /\ UNCHANGED <<rawWaveRead, rpc, at, answered, late>>
        /\ hpc = "signal" /\ hpc' = "idle" /\ wire' = Tail(wire)
    BY <1>6 DEF SignalRequester, requester, data, marks
  <2>2. ASSUME ~late
        PROVE  Orderly'
    <3>1. wire' = <<>>
      BY <1>b, <2>1, <2>2, TakeOne DEF Orderly
    <3> QED
      BY <1>b, <2>1, <2>2, <3>1 DEF Orderly
  <2> QED
    BY <1>0, <2>1, <2>2 DEF FreshInv
<1>7. CASE PollAgain \/ IgnoreStatus \/ ReadEcho \/ ReadKept
  <2>1. /\ UNCHANGED <<rawWaveRead, rpc, at, hpc, answered, late>>
        /\ hpc = "idle" /\ wire # <<>> /\ wire' = Tail(wire)
    BY <1>7 DEF PollAgain, IgnoreStatus, ReadEcho, ReadKept, Take, Ready, handshake, requester,
                data, marks
  <2>2. ASSUME ~late
        PROVE  Orderly'
    <3>1. wire' = <<>>
      BY <1>b, <2>1, <2>2, TakeOne
    <3> QED
      BY <1>b, <2>1, <2>2, <3>1 DEF Orderly
  <2> QED
    BY <1>0, <2>1, <2>2 DEF FreshInv
<1>8. CASE ReadPart
  <2>1. /\ UNCHANGED <<rpc, at, hpc, late>>
        /\ hpc = "idle" /\ wire # <<>> /\ wire' = Tail(wire)
        /\ Answering.kind = "part"
        /\ answered' = IF Answering.mine THEN answered \union {Answering.part} ELSE answered
        /\ \/ rawWaveRead' = (rawWaveRead \/ Answering.part = Parts)
           \/ UNCHANGED rawWaveRead
    BY <1>8 DEF ReadPart, Take, Ready, requester, marks
  <2>2. ASSUME ~late
        PROVE  Orderly'
    <3>1. Orderly
      BY <1>b, <2>2
    <3>2. wire' = <<>> /\ Answering = wire[1].body
      BY <2>1, <3>1, TakeOne DEF Answering
    <3>3. /\ Answering.mine /\ ~rawWaveRead
          /\ rpc \in {"request", "ack", "data"}
          /\ rpc = "request" => Answering.part < at
      BY <2>1, <3>1, <3>2 DEF Orderly
    <3>4. answered' = answered \union {Answering.part}
      BY <2>1, <3>3
    <3>5. rawWaveRead' => Answering.part = Parts
      BY <2>1, <3>3
    <3>6. rawWaveRead' => rpc' \in {"ack", "data"} /\ Parts \in answered'
      BY <1>0, <2>1, <3>3, <3>4, <3>5
    <3> QED
      BY <2>1, <3>2, <3>3, <3>6 DEF Orderly
  <2> QED
    BY <1>0, <2>1, <2>2 DEF FreshInv
<1>9. CASE Sync
  <2>1. /\ UNCHANGED <<busy, wire, rawWaveRead, at, hpc, answered, late>>
        /\ rpc = "sync" /\ rpc' = "wait"
    BY <1>9 DEF Sync, engine, data, marks
  <2> QED
    BY <1>0, <1>b, <2>1 DEF FreshInv, Orderly
<1>10. CASE Signalled
  <2>1. /\ UNCHANGED <<busy, rawWaveRead, at, hpc>>
        /\ rpc = "wait" /\ rpc' \in {"sync", "exited", "request"}
        /\ \/ UNCHANGED <<wire, answered>> /\ rpc' # "request"
           \/ wire' = Disown(wire)
        /\ late' = (late /\ ~(rpc' = "request" /\ wire = <<>> /\ ~rawWaveRead))
    BY <1>10 DEF Signalled
  <2>2. ASSUME ~late
        PROVE  Orderly'
    <3>1. Orderly /\ ~rawWaveRead
      BY <1>b, <2>1, <2>2 DEF Orderly
    <3>2. wire # <<>> => wire[1].body.kind # "part"
      BY <2>1, <3>1 DEF Orderly
    <3>3. Disown(wire) = wire
      BY <3>1, <3>2, NoneInFlight, OthersDisown DEF Orderly
    <3>4. wire' = wire
      BY <2>1, <3>3
    <3> QED
      BY <2>1, <3>1, <3>2, <3>4 DEF Orderly
  <2>3. ASSUME late, ~late'
        PROVE  Orderly'
    <3>1. wire = <<>> /\ ~rawWaveRead /\ rpc' = "request"
      BY <2>1, <2>3
    <3>2. wire' = <<>> /\ hpc # "signal"
      BY <2>1, <3>1, NoneInFlight DEF Processing
    <3> QED
      BY <2>1, <3>1, <3>2 DEF Orderly
  <2> QED
    BY <1>0, <2>1, <2>2, <2>3 DEF FreshInv
<1>11. CASE NotSignalled
  <2>1. /\ UNCHANGED <<busy, wire, rawWaveRead, at, hpc, answered, late>>
        /\ rpc = "wait" /\ rpc' \in {"sync", "exited"}
    BY <1>11 DEF NotSignalled, engine, handshake, data
  <2> QED
    BY <1>0, <1>b, <2>1 DEF FreshInv, Orderly
<1>12. CASE RequestPart
  <2>1. /\ UNCHANGED <<rawWaveRead, hpc, answered, late>>
        /\ rpc = "request" /\ Transmit(PartRead(at), ready)
        /\ \/ at < Parts /\ at' = at + 1 /\ rpc' = "request"
           \/ at' = 1 /\ rpc' = "ack"
    BY <1>12 DEF RequestPart, handshake, data
  <2>2. at' \in 1 .. Parts
    BY <1>0, <2>1
  <2>3. ASSUME ~late
        PROVE  Orderly'
    <3>1. Orderly /\ ~rawWaveRead
      BY <1>b, <2>1, <2>3 DEF Orderly
    <3>2. /\ wire = <<>> /\ busy'
          /\ wire' = <<>> \/ (wire' = <<wire'[1]>> /\ wire'[1] = Answer(PartRead(at)))
      BY <2>1, <3>1, TransmitOne
    <3>3. wire' # <<>> => /\ wire'[1].awaited /\ wire'[1].body.mine
                          /\ wire'[1].body.part = at
      BY <3>2 DEF Answer, PartRead
    <3>4. rpc' = "request" => at < at'
      BY <1>0, <2>1
    <3>5. hpc' # "signal"
      BY <2>1, <3>1, <3>2 DEF Orderly
    <3> QED
      BY <2>1, <3>1, <3>2, <3>3, <3>4, <3>5 DEF Orderly
  <2> QED
    BY <1>0, <2>1, <2>2, <2>3 DEF FreshInv
<1>13. CASE RequestFails
  <2>1. /\ UNCHANGED <<busy, wire, rawWaveRead, hpc, answered, late>>
        /\ rpc = "request" /\ rpc' = "ack" /\ at' = 1
    BY <1>13 DEF RequestFails, engine, handshake, data
  <2>2. at' \in 1 .. Parts
    BY <1>0, <2>1
  <2> QED
    BY <1>0, <1>b, <2>1, <2>2 DEF FreshInv, Orderly
<1>14. CASE Acknowledge
  <2>1. /\ UNCHANGED <<busy, wire, rawWaveRead, at, hpc, answered, late>>
        /\ rpc = "ack" /\ rpc' = "data"
    BY <1>14 DEF Acknowledge, engine, handshake, data, marks
  <2> QED
    BY <1>0, <1>b, <2>1 DEF FreshInv, Orderly
<1>15. CASE DataRead
  <2>1. /\ UNCHANGED <<busy, wire, at, hpc, answered, late>>
        /\ rpc = "data" /\ rawWaveRead /\ ~rawWaveRead'
        /\ rpc' \in {"exited", "publish"}
    BY <1>15 DEF DataRead, engine, data, marks
  <2> QED
    BY <1>0, <1>b, <2>1 DEF FreshInv, Orderly
<1>16. CASE DataMissing
  <2>1. /\ UNCHANGED <<busy, wire, rawWaveRead, at, hpc, answered>>
        /\ rpc = "data" /\ ~rawWaveRead /\ rpc' = "sync"
        /\ late' = (late \/ \E i \in DOMAIN wire : wire[i].body.kind = "part")
    BY <1>16 DEF DataMissing, engine, handshake, data
  <2>2. ASSUME ~late'
        PROVE  Orderly'
    <3>1. Orderly /\ ~ \E i \in DOMAIN wire : wire[i].body.kind = "part"
      BY <1>b, <2>1, <2>2
    <3>2. wire # <<>> => wire[1].body.kind # "part"
      BY <3>1, OneInFlight DEF Orderly
    <3> QED
      BY <2>1, <3>1, <3>2 DEF Orderly
  <2> QED
    BY <1>0, <2>1, <2>2 DEF FreshInv
<1>17. CASE Publish
  <2>1. /\ UNCHANGED <<busy, wire, rawWaveRead, hpc, answered, late>>
        /\ rpc = "publish" /\ rpc' \in {"publish", "sync"}
        /\ \/ at < Parts /\ at' = at + 1
           \/ at' = 1
    BY <1>17 DEF Publish, engine, handshake, marks
  <2>2. at' \in 1 .. Parts
    BY <1>0, <2>1
  <2> QED
    BY <1>0, <1>b, <2>1, <2>2 DEF FreshInv, Orderly
<1>18. CASE Capture \/ KeepChannels \/ EnablePolling \/ FastUpdate \/ Shutdown \/ UNCHANGED vars
  <2>1. UNCHANGED <<busy, wire, rawWaveRead, rpc, at, hpc, answered, late>>
    BY <1>18 DEF Capture, KeepChannels, EnablePolling, FastUpdate, Operate, Shutdown, engine,
                 handshake, requester, data, marks, vars
  <2> QED
    BY <1>0, <1>b, <2>1 DEF FreshInv, Orderly
<1> QED
  BY <1>1, <1>2, <1>3, <1>4, <1>5, <1>6, <1>7, <1>8, <1>9, <1>10, <1>11, <1>12, <1>13, <1>14,
     <1>15, <1>16, <1>17, <1>18
     DEF Next, Engine, Receiver, Requester, Environment

\* A request that begins with nothing in flight and no event left over publishes only
\* after its own last part, whatever packets are lost and whatever came late before it,
\* as long as no answer to it comes late.
THEOREM PublishedFresh == Spec => []Fresh
<1>1. FreshInv => Fresh
  BY DEF FreshInv, Orderly, Fresh
<1>2. TypeOK /\ Processing /\ FreshInv /\ [Next]_vars => (TypeOK /\ Processing /\ FreshInv)'
  BY TypesStep, FreshStep
<1> QED
  BY <1>1, <1>2, TypesInit, FreshInit, PTL DEF Spec

--------------------------------------------------------------------------------
(* WholeWhenCalm and OnceWhenCalm need to know which trace everything is of. *)

InFlight(kind) == wire # <<>> /\ wire[1].body.kind = kind

\* The trace a part has been read from, or is about to be.
Held(p) == IF InFlight("part") /\ wire[1].body.part = p THEN wire[1].body.trace ELSE buffer[p]

CalmTypes ==
  /\ trace \in Nat
  /\ buffer \in [1 .. Parts -> Nat] /\ published \in [1 .. Parts -> Nat]
  /\ active /\ pollEnable /\ fast /\ ~late
  /\ rpc \notin {"request", "publish"} => at = 1

\* The flag is asked for by one message, looked at in one answer, signalled once, or
\* being dealt with, and no two of these at a time; it stays set meanwhile.
OneToken ==
  /\ queue \in {<<>>, <<"status">>, <<"ackStatus">>}
  /\ wire # <<>> => InFlight("status") \/ InFlight("part")
  /\ queue # <<>> => ~InFlight("status") /\ ~reqEvent /\ rpc \notin {"request", "ack"}
  /\ InFlight("status") => /\ ~reqEvent /\ rpc \notin {"request", "ack"}
                           /\ wire[1].body.ready => ready
  /\ reqEvent => rpc \notin {"request", "ack"} /\ ready
  /\ rpc \in {"request", "ack"} => ready
  /\ hpc = "signal" => InFlight("status") /\ wire[1].body.ready

\* The parts asked for so far are of one trace, and until it is acknowledged that is
\* the one the FPGA holds.
PartsGathered ==
  /\ InFlight("part") => wire[1].body.trace = trace /\ ready
  /\ rpc = "request" => \A p \in 1 .. Parts : p < at => Held(p) = trace
  /\ (rpc = "ack" /\ ~shuttingDown) => \A p \in 1 .. Parts : Held(p) = trace
  /\ (rpc = "data" /\ ~shuttingDown) => \A p, q \in 1 .. Parts : Held(p) = Held(q)

\* Publishing replaces one whole waveform by another.
PublishedWhole ==
  /\ rpc = "publish" => /\ \A p, q \in 1 .. Parts : buffer[p] = buffer[q]
                        /\ \A p \in 1 .. Parts : p < at => published[p] = buffer[p]
                        /\ \A p, q \in at .. Parts : published[p] = published[q]
  /\ rpc # "publish" => \A p, q \in 1 .. Parts : published[p] = published[q]

\* What is published is older than the trace the FPGA holds ready, unless that is
\* about to be acknowledged; so is what has been read before it was acknowledged.
NewerThanPublished ==
  /\ \A p \in 1 .. Parts : published[p] <= trace /\ buffer[p] <= trace
  /\ (ready /\ queue # <<"ackStatus">>) =>
       \A p \in 1 .. Parts : /\ published[p] < trace
                             /\ rpc \in {"data", "publish"} => Held(p) < trace
  /\ (rpc = "data" /\ ~shuttingDown) \/ (rpc = "publish" /\ at = 1) =>
       \A p \in 1 .. Parts : published[p] < Held(p)

Calm == CalmTypes /\ OneToken /\ PartsGathered /\ PublishedWhole /\ NewerThanPublished
CalmInv == TypeOK /\ Processing /\ FreshInv /\ (calm => Calm)

LEMMA CalmInit == Init => CalmInv
<1> SUFFICES ASSUME Init
             PROVE  CalmInv
  OBVIOUS
<1>1. FreshInv
  BY FreshInit
<1>2. 1 \in 1 .. Parts
  BY TraceAssumption
<1>3. CalmTypes /\ OneToken
  BY DEF Init, CalmTypes, OneToken, InFlight
<1>4. PartsGathered /\ PublishedWhole
  BY TraceAssumption DEF Init, PartsGathered, PublishedWhole, InFlight
<1>5. NewerThanPublished
  BY DEF Init, NewerThanPublished
<1>6. TypeOK /\ Processing
  BY TypesInit
<1> QED
  BY <1>1, <1>3, <1>4, <1>5, <1>6 DEF CalmInv, Calm

\* No part is in flight before or after, and the buffer stays.
LEMMA HeldSame ==
  ASSUME NEW p, UNCHANGED buffer, ~InFlight("part"), ~InFlight("part")'
  PROVE  Held(p)' = Held(p) /\ Held(p) = buffer[p]
  BY DEF Held

\* What a calm step leaves alone.
LEMMA CalmBefore ==
  ASSUME CalmInv, [Next]_vars, calm'
  PROVE  calm /\ Calm /\ Orderly /\ Orderly' /\ at \in 1 .. Parts /\ at' \in 1 .. Parts
<1>1. calm /\ (late' => late)
  <2>1. CASE GiveUp
    BY <2>1 DEF GiveUp
  <2>2. CASE DataMissing
    BY <2>2 DEF DataMissing
  <2>3. CASE Poll
    BY <2>3 DEF Poll
  <2>9. CASE NotSignalled
    <3>1. late' = late /\ (calm' = (calm /\ Quiet) \/ calm' = calm)
      BY <2>9 DEF NotSignalled
    <3> QED
      BY <3>1
  <2>4. CASE SendQueued \/ RequestPart \/ RequestFails
    <3>1. late' = late
      BY <2>4 DEF SendQueued, RequestPart, RequestFails
    <3>2. calm' = calm \/ calm' = FALSE
      BY <2>4 DEF SendQueued, RequestPart, RequestFails, Transmit
    <3> QED
      BY <3>1, <3>2
  <2>5. CASE Lose \/ KeepChannels \/ EnablePolling \/ FastUpdate
    BY <2>5 DEF Lose, KeepChannels, EnablePolling, FastUpdate, Operate
  <2>6. CASE Capture \/ Shutdown \/ UNCHANGED vars
    <3>1. UNCHANGED <<late, calm>>
      BY <2>6 DEF Capture, Shutdown, marks, vars
    <3> QED
      BY <3>1
  <2>7. CASE Receiver
    <3>1. UNCHANGED <<late, calm>>
      BY <2>7 DEF Receiver, NewTrace, SignalRequester, PollAgain, IgnoreStatus, ReadEcho,
             ReadKept, ReadPart, marks
    <3> QED
      BY <3>1
  <2>10. CASE Signalled
    BY <2>10 DEF Signalled
  <2>8. CASE Sync \/ Acknowledge \/ DataRead \/ Publish
    <3>1. UNCHANGED <<late, calm>>
      BY <2>8 DEF Sync, Acknowledge, DataRead, Publish, marks
    <3> QED
      BY <3>1
  <2> QED
    BY <2>1, <2>2, <2>3, <2>4, <2>5, <2>6, <2>7, <2>8, <2>9, <2>10
       DEF Next, Engine, Requester, Environment
<1>2. FreshInv'
  BY FreshStep, TypesStep DEF CalmInv
<1>3. ~late /\ Calm
  BY <1>1 DEF CalmInv, Calm, CalmTypes
<1> QED
  BY <1>1, <1>2, <1>3 DEF CalmInv, FreshInv

\* A request goes out and its answer comes.
LEMMA TransmitCalm ==
  ASSUME Orderly, NEW body, NEW flag, Transmit(body, flag), calm'
  PROVE  /\ wire = <<>> /\ wire' # <<>> /\ wire'[1] = Answer(body) /\ wire'[1].body = body
         /\ ready' = flag /\ trace' = trace
<1>1. wire = <<>>
  BY TransmitOne
<1>2. wire' = Append(Forget(wire), Answer(body)) /\ ready' = flag /\ trace' = trace
  BY DEF Transmit
<1>3. wire' = <<Answer(body)>>
  BY <1>1, <1>2, NoneInFlight, OneInFlight
<1>4. Answer(body).body = body
  BY DEF Answer
<1> QED
  BY <1>1, <1>2, <1>3, <1>4, OneInFlight

\* Nobody asks for the flag twice.
LEMMA QuietQueue ==
  ASSUME Quiet, OneToken
  PROVE  queue = <<>> /\ ~InFlight("status") /\ ~reqEvent /\ rpc \in {"sync", "wait"}
<1>1. ASSUME NEW x, queue = <<x>>
      PROVE  x \notin {"status", "ackStatus"}
  BY <1>1 DEF Quiet
<1>2. queue = <<>>
  BY <1>1 DEF OneToken
<1>3. ASSUME InFlight("status")
      PROVE  FALSE
  BY <1>3 DEF InFlight, Quiet
<1> QED
  BY <1>2, <1>3 DEF Quiet

\* The engine and the FPGA.
LEMMA CalmEngine ==
  ASSUME CalmInv, [Next]_vars, calm', Engine \/ Environment
  PROVE  Calm'
<1>1. /\ Calm /\ Orderly /\ Orderly' /\ at \in 1 .. Parts
      /\ CalmTypes /\ OneToken /\ PartsGathered /\ PublishedWhole /\ NewerThanPublished
  BY CalmBefore DEF Calm
<1>2. CASE SendQueued
  <2>1. UNCHANGED <<reqEvent, rpc, at, hpc, buffer, published, active, pollEnable, fast, shuttingDown, late>>
    BY <1>2 DEF SendQueued, handshake, requester, data, settings
  <2>2. queue # <<>> /\ queue' = <<>>
    <3>1. queue = <<"status">> \/ queue = <<"ackStatus">>
      BY <1>1, <1>2 DEF SendQueued, OneToken
    <3>2. queue' = Tail(queue)
      BY <1>2 DEF SendQueued
    <3> QED
      BY <3>1, <3>2, OneInFlight
  <2>3. /\ wire = <<>> /\ InFlight("status")' /\ ~InFlight("part")' /\ trace' = trace
        /\ \/ queue # <<"ackStatus">> /\ ready' = ready /\ wire'[1].body.ready = ready
           \/ ready' = FALSE /\ wire'[1].body.ready = FALSE
    <3>1. CASE queue = <<"status">>
      <4>1. Transmit(Status(ready), ready)
        BY <1>2, <3>1, OneInFlight DEF SendQueued
      <4>2. /\ wire = <<>> /\ wire' # <<>> /\ wire'[1].body = Status(ready)
            /\ ready' = ready /\ trace' = trace
        BY <1>1, <4>1, TransmitCalm
      <4> QED
        BY <3>1, <4>2, OneInFlight DEF InFlight, Status
    <3>2. CASE queue = <<"ackStatus">>
      <4>1. Transmit(Status(FALSE), FALSE)
        <5>1. Head(queue) = "ackStatus"
          BY <3>2, OneInFlight
        <5> QED
          BY <1>2, <5>1 DEF SendQueued
      <4>2. /\ wire = <<>> /\ wire' # <<>> /\ wire'[1].body = Status(FALSE)
            /\ ready' = FALSE /\ trace' = trace
        BY <1>1, <4>1, TransmitCalm
      <4>3. Status(FALSE).kind = "status" /\ Status(FALSE).ready = FALSE
        BY DEF Status
      <4> QED
        BY <4>2, <4>3 DEF InFlight
    <3> QED
      BY <1>1, <2>2, <3>1, <3>2 DEF OneToken
  <2>4. ~InFlight("part") /\ ~InFlight("status")
    BY <2>3 DEF InFlight
  <2>5. \A p \in 1 .. Parts : Held(p)' = Held(p)
    BY <2>1, <2>3, <2>4, HeldSame
  <2>6. CalmTypes'
    BY <1>1, <2>1, <2>3 DEF CalmTypes
  <2>7. OneToken'
    BY <1>1, <2>1, <2>2, <2>3, <2>4 DEF OneToken
  <2>8. PartsGathered'
    BY <1>1, <2>1, <2>2, <2>3, <2>5 DEF PartsGathered, OneToken
  <2>9. PublishedWhole'
    BY <1>1, <2>1 DEF PublishedWhole
  <2>10. NewerThanPublished'
    BY <1>1, <2>1, <2>2, <2>3, <2>5 DEF NewerThanPublished
  <2> QED
    BY <2>6, <2>7, <2>8, <2>9, <2>10 DEF Calm
<1>3. CASE Poll
  <2>1. /\ UNCHANGED <<trace, ready, queue, reqEvent, rpc, at, hpc, buffer, published, active, pollEnable, fast,
                       shuttingDown, late>>
        /\ Quiet /\ ~busy /\ wire' = Append(Forget(wire), Answer(Status(ready)))
    BY <1>3 DEF Poll, fpga, handshake, requester, data, settings
  <2>2. wire = <<>>
    BY <1>1, <2>1 DEF Orderly
  <2>3. wire' = <<Answer(Status(ready))>>
    BY <2>1, <2>2, NoneInFlight, OneInFlight
  <2>4. InFlight("status")' /\ ~InFlight("part")' /\ wire'[1].body.ready = ready
    BY <2>3, OneInFlight DEF InFlight, Answer, Status
  <2>5. ~InFlight("part") /\ ~InFlight("status") /\ hpc # "signal"
    BY <1>1, <2>2 DEF InFlight, OneToken
  <2>6. \A p \in 1 .. Parts : Held(p)' = Held(p)
    BY <2>1, <2>4, <2>5, HeldSame
  <2>7. queue = <<>> /\ ~reqEvent /\ rpc \in {"sync", "wait"}
    BY <1>1, <2>1, QuietQueue
  <2>8. CalmTypes'
    BY <1>1, <2>1 DEF CalmTypes
  <2>9. OneToken'
    BY <2>1, <2>4, <2>5, <2>7 DEF OneToken
  <2>10. PartsGathered'
    BY <2>1, <2>4, <2>7 DEF PartsGathered
  <2>11. PublishedWhole'
    BY <1>1, <2>1 DEF PublishedWhole
  <2>12. NewerThanPublished'
    BY <1>1, <2>1, <2>6 DEF NewerThanPublished
  <2> QED
    BY <2>8, <2>9, <2>10, <2>11, <2>12 DEF Calm
<1>4. CASE GiveUp
  <2>1. /\ UNCHANGED <<trace, ready, queue, reqEvent, rpc, at, hpc, buffer, published, active, pollEnable, fast,
                       shuttingDown>>
        /\ hpc = "idle" /\ ~ \E i \in DOMAIN wire : wire[i].awaited
        /\ late' = (late \/ \E i \in DOMAIN wire : wire[i].awaited)
        /\ wire' = Forget(wire)
    BY <1>4 DEF GiveUp, fpga, handshake, requester, data, settings
  <2>2. wire = <<>>
    BY <1>1, <2>1, OneInFlight DEF Orderly
  <2>3. wire' = wire
    BY <2>1, <2>2, NoneInFlight
  <2>4. \A p \in 1 .. Parts : Held(p)' = Held(p)
    BY <2>1, <2>3 DEF Held, InFlight
  <2>5. CalmTypes'
    BY <1>1, <2>1 DEF CalmTypes
  <2>6. OneToken'
    BY <1>1, <2>1, <2>3 DEF OneToken, InFlight
  <2>7. PartsGathered'
    BY <1>1, <2>1, <2>3, <2>4 DEF PartsGathered, InFlight
  <2>8. PublishedWhole'
    BY <1>1, <2>1 DEF PublishedWhole
  <2>9. NewerThanPublished'
    BY <1>1, <2>1, <2>4 DEF NewerThanPublished
  <2> QED
    BY <2>5, <2>6, <2>7, <2>8, <2>9 DEF Calm
<1>5. CASE Capture
  <2>1. /\ UNCHANGED <<wire, queue, reqEvent, rpc, at, hpc, buffer, published, active, pollEnable, fast,
                       shuttingDown, late>>
        /\ ~ready /\ ready' = TRUE /\ trace' = trace + 1
    BY <1>5 DEF Capture, engine, handshake, requester, data, settings, marks
  <2>2. \A p \in 1 .. Parts : Held(p)' = Held(p)
    BY <2>1 DEF Held, InFlight
  <2>3. ~InFlight("part") /\ rpc \notin {"request", "ack"}
    BY <1>1, <2>1 DEF PartsGathered, OneToken
  <2>4. \A p \in 1 .. Parts : Held(p) = buffer[p] /\ buffer[p] \in Nat /\ published[p] \in Nat
    BY <1>1, <2>3 DEF Held, CalmTypes
  <2>5. CalmTypes'
    BY <1>1, <2>1 DEF CalmTypes
  <2>6. OneToken'
    BY <1>1, <2>1 DEF OneToken, InFlight
  <2>7. PartsGathered'
    BY <1>1, <2>1, <2>2, <2>3 DEF PartsGathered, InFlight
  <2>8. PublishedWhole'
    BY <1>1, <2>1 DEF PublishedWhole
  <2>9. NewerThanPublished'
    <3>1. trace \in Nat
      BY <1>1 DEF CalmTypes
    <3>2. \A p \in 1 .. Parts : published[p] <= trace /\ buffer[p] <= trace
      BY <1>1 DEF NewerThanPublished
    <3>3. \A p \in 1 .. Parts : published'[p] < trace' /\ buffer'[p] < trace' /\ Held(p)' < trace'
      BY <2>1, <2>2, <2>4, <3>1, <3>2
    <3>4. \A p \in 1 .. Parts : published'[p] <= trace' /\ buffer'[p] <= trace'
      BY <2>1, <2>4, <3>1, <3>2
    <3>5. (rpc' = "data" /\ ~shuttingDown') \/ (rpc' = "publish" /\ at' = 1) =>
            \A p \in 1 .. Parts : published'[p] < Held(p)'
      BY <1>1, <2>1, <2>2 DEF NewerThanPublished
    <3> QED
      BY <3>3, <3>4, <3>5 DEF NewerThanPublished
  <2> QED
    BY <2>5, <2>6, <2>7, <2>8, <2>9 DEF Calm
<1>6. CASE Shutdown
  <2>1. /\ UNCHANGED <<trace, ready, wire, queue, reqEvent, rpc, at, hpc, buffer, published, active, pollEnable,
                       fast, late>>
        /\ shuttingDown' = TRUE
    BY <1>6 DEF Shutdown, fpga, engine, handshake, requester, data, marks
  <2>2. \A p \in 1 .. Parts : Held(p)' = Held(p)
    BY <2>1 DEF Held, InFlight
  <2>3. CalmTypes' /\ OneToken'
    BY <1>1, <2>1 DEF CalmTypes, OneToken, InFlight
  <2>4. PartsGathered'
    BY <1>1, <2>1, <2>2 DEF PartsGathered, InFlight
  <2>5. PublishedWhole'
    BY <1>1, <2>1 DEF PublishedWhole
  <2>6. NewerThanPublished'
    BY <1>1, <2>1, <2>2 DEF NewerThanPublished
  <2> QED
    BY <2>3, <2>4, <2>5, <2>6 DEF Calm
<1>7. ~Lose /\ ~KeepChannels /\ ~EnablePolling /\ ~FastUpdate
  BY DEF Lose, KeepChannels, EnablePolling, FastUpdate, Operate
<1> QED
  BY <1>2, <1>3, <1>4, <1>5, <1>6, <1>7 DEF Engine, Environment

\* The receiving thread.
LEMMA CalmReceiver ==
  ASSUME CalmInv, [Next]_vars, calm', Receiver
  PROVE  Calm'
<1>1. /\ Calm /\ Orderly /\ Orderly' /\ at \in 1 .. Parts
      /\ CalmTypes /\ OneToken /\ PartsGathered /\ PublishedWhole /\ NewerThanPublished
  BY CalmBefore DEF Calm
<1>2. CASE NewTrace
  <2>1. /\ UNCHANGED <<trace, ready, wire, queue, reqEvent, rpc, at, buffer, published, active, pollEnable, fast,
                       shuttingDown, late>>
        /\ hpc' = "signal" /\ wire # <<>>
        /\ Head(wire).body.kind = "status" /\ Head(wire).body.ready
    BY <1>2 DEF NewTrace, Ready, Answering, fpga, engine, requester, data, settings, marks
  <2>2. InFlight("status") /\ wire[1].body.ready
    BY <1>1, <2>1, TakeOne DEF InFlight
  <2>3. \A p \in 1 .. Parts : Held(p)' = Held(p)
    BY <2>1 DEF Held, InFlight
  <2>4. CalmTypes'
    BY <1>1, <2>1 DEF CalmTypes
  <2>5. OneToken'
    BY <1>1, <2>1, <2>2 DEF OneToken, InFlight
  <2>6. PartsGathered'
    BY <1>1, <2>1, <2>3 DEF PartsGathered, InFlight
  <2>7. PublishedWhole' /\ NewerThanPublished'
    BY <1>1, <2>1, <2>3 DEF PublishedWhole, NewerThanPublished
  <2> QED
    BY <2>4, <2>5, <2>6, <2>7 DEF Calm
<1>3. CASE SignalRequester \/ PollAgain \/ IgnoreStatus
  <2>1. /\ UNCHANGED <<trace, ready, rpc, at, buffer, published, active, pollEnable, fast, shuttingDown, late>>
        /\ wire # <<>> /\ wire' = Tail(wire) /\ hpc' = "idle"
        /\ Head(wire).body.kind = "status"
        /\ \/ reqEvent' = TRUE /\ queue' = queue /\ wire[1].body.ready
           \/ reqEvent' = reqEvent /\ queue' = Append(queue, "status")
           \/ reqEvent' = reqEvent /\ queue' = queue
    <3>1. CASE SignalRequester
      <4>1. InFlight("status") /\ wire[1].body.ready
        BY <1>1, <3>1 DEF SignalRequester, OneToken
      <4>2. wire # <<>> /\ Head(wire).body.kind = "status"
        BY <1>1, <4>1, TakeOne DEF InFlight
      <4> QED
        BY <3>1, <4>1, <4>2 DEF SignalRequester, fpga, requester, data, settings, marks
    <3>2. CASE PollAgain
      BY <1>1, <3>2 DEF PollAgain, Take, Ready, Answering, fpga, handshake, requester, data, settings, marks,
                        CalmTypes
    <3>3. CASE IgnoreStatus
      BY <3>3 DEF IgnoreStatus, Take, Ready, Answering, fpga, handshake, requester, data, settings, marks
    <3> QED
      BY <1>3, <3>1, <3>2, <3>3
  <2>2. wire' = <<>> /\ InFlight("status") /\ ~InFlight("part")
    BY <1>1, <2>1, TakeOne DEF InFlight
  <2>3. queue = <<>> /\ ~reqEvent /\ rpc \notin {"request", "ack"} /\ (wire[1].body.ready => ready)
    BY <1>1, <2>2 DEF OneToken
  <2>4. queue' \in {<<>>, <<"status">>} /\ (queue' # <<>> => ~reqEvent') /\ (reqEvent' => ready)
    BY <2>1, <2>3, OneInFlight
  <2>5. ~InFlight("part")' /\ ~InFlight("status")'
    BY <2>2 DEF InFlight
  <2>6. \A p \in 1 .. Parts : Held(p)' = Held(p)
    BY <2>1, <2>2, <2>5, HeldSame
  <2>7. CalmTypes'
    BY <1>1, <2>1 DEF CalmTypes
  <2>8. OneToken'
    BY <2>1, <2>2, <2>3, <2>4, <2>5 DEF OneToken
  <2>9. PartsGathered'
    BY <1>1, <2>1, <2>5, <2>6 DEF PartsGathered
  <2>10. PublishedWhole' /\ NewerThanPublished'
    <3>1. queue # <<"ackStatus">>
      BY <2>3, OneInFlight
    <3> QED
      BY <1>1, <2>1, <2>6, <3>1 DEF PublishedWhole, NewerThanPublished
  <2> QED
    BY <2>7, <2>8, <2>9, <2>10 DEF Calm
<1>4. CASE ReadPart
  <2>1. /\ UNCHANGED <<trace, ready, queue, reqEvent, rpc, at, hpc, published, active, pollEnable, fast,
                       shuttingDown, late>>
        /\ wire # <<>> /\ wire' = Tail(wire) /\ hpc = "idle"
        /\ Head(wire).body.kind = "part"
        /\ buffer' = [buffer EXCEPT ![Head(wire).body.part] = Head(wire).body.trace]
    BY <1>1, <1>4 DEF ReadPart, Take, Ready, Answering, fpga, requester, settings, marks, CalmTypes
  <2>2. wire' = <<>> /\ InFlight("part") /\ ~InFlight("status") /\ Head(wire) = wire[1]
    BY <1>1, <2>1, TakeOne DEF InFlight
  <2>3. ~InFlight("part")' /\ ~InFlight("status")'
    BY <2>2 DEF InFlight
  <2>4. wire[1].body.trace = trace /\ rpc \in {"request", "ack", "data"}
    BY <1>1, <2>2 DEF PartsGathered, Orderly, InFlight
  <2>5. trace \in Nat /\ buffer \in [1 .. Parts -> Nat]
    BY <1>1 DEF CalmTypes
  <2>6. \A p \in 1 .. Parts : Held(p)' = Held(p)
    <3>1. ASSUME NEW p \in 1 .. Parts
          PROVE  Held(p)' = Held(p)
      <4>1. buffer'[p] = IF wire[1].body.part = p THEN wire[1].body.trace ELSE buffer[p]
        BY <2>1, <2>2, <2>5
      <4> QED
        BY <2>2, <2>3, <4>1 DEF Held
    <3> QED
      BY <3>1
  <2>7. CalmTypes'
    BY <1>1, <2>1, <2>2, <2>4, <2>5 DEF CalmTypes
  <2>8. OneToken'
    BY <1>1, <2>1, <2>2, <2>3 DEF OneToken
  <2>9. PartsGathered'
    BY <1>1, <2>1, <2>3, <2>6 DEF PartsGathered
  <2>10. PublishedWhole'
    BY <1>1, <2>1, <2>4 DEF PublishedWhole
  <2>11. NewerThanPublished'
    <3>1. \A p \in 1 .. Parts : buffer'[p] <= trace
      BY <1>1, <2>1, <2>2, <2>4, <2>5 DEF NewerThanPublished
    <3> QED
      BY <1>1, <2>1, <2>4, <2>6, <3>1 DEF NewerThanPublished
  <2> QED
    BY <2>7, <2>8, <2>9, <2>10, <2>11 DEF Calm
<1>5. ~ReadEcho /\ ~ReadKept
  <2>1. SUFFICES ASSUME wire # <<>>, Head(wire).body.kind \in {"echo", "keep"}
                 PROVE  FALSE
    BY DEF ReadEcho, ReadKept, Take, Ready, Answering
  <2> QED
    BY <1>1, <2>1, TakeOne DEF OneToken, InFlight
<1> QED
  BY <1>2, <1>3, <1>4, <1>5 DEF Receiver

\* The requester, until it has acknowledged the trace.
LEMMA CalmRequests ==
  ASSUME CalmInv, [Next]_vars, calm',
         Sync \/ Signalled \/ NotSignalled \/ RequestPart \/ RequestFails \/ Acknowledge
  PROVE  Calm'
<1>1. /\ Calm /\ Orderly /\ Orderly' /\ at \in 1 .. Parts
      /\ CalmTypes /\ OneToken /\ PartsGathered /\ PublishedWhole /\ NewerThanPublished
  BY CalmBefore DEF Calm
<1>2. CASE Sync
  <2>1. /\ UNCHANGED <<trace, ready, wire, queue, reqEvent, at, hpc, buffer, published, active, pollEnable, fast,
                       shuttingDown, late>>
        /\ rpc = "sync" /\ rpc' = "wait"
    BY <1>2 DEF Sync, fpga, engine, data, settings, marks
  <2>2. \A p \in 1 .. Parts : Held(p)' = Held(p)
    BY <2>1 DEF Held, InFlight
  <2>3. CalmTypes' /\ OneToken'
    BY <1>1, <2>1 DEF CalmTypes, OneToken, InFlight
  <2>4. PartsGathered' /\ PublishedWhole'
    BY <1>1, <2>1 DEF PartsGathered, PublishedWhole, InFlight
  <2>5. NewerThanPublished'
    BY <1>1, <2>1 DEF NewerThanPublished
  <2> QED
    BY <2>3, <2>4, <2>5 DEF Calm
<1>3. CASE Signalled
  <2>1. /\ UNCHANGED <<trace, ready, queue, at, hpc, buffer, published, active, pollEnable, fast, shuttingDown, late>>
        /\ rpc = "wait" /\ reqEvent /\ reqEvent' = FALSE /\ at = 1
        /\ \/ rpc' \in {"sync", "exited"} /\ wire' = wire
           \/ rpc' = "request" /\ wire' = Disown(wire)
    <3>1. ~late /\ ~late' /\ active /\ pollEnable
      BY <1>1, <1>3 DEF Signalled, CalmTypes
    <3>2. late \in BOOLEAN /\ late' \in BOOLEAN
      BY TypesStep DEF CalmInv, TypeOK
    <3> QED
      BY <1>1, <1>3, <3>1, <3>2 DEF Signalled, fpga, settings, CalmTypes
  <2>2. ready /\ queue = <<>> /\ ~InFlight("status") /\ ~InFlight("part")
    BY <1>1, <2>1 DEF OneToken, Orderly, InFlight
  <2>3. wire = <<>> /\ wire' = <<>>
    BY <1>1, <2>1, <2>2, NoneInFlight DEF OneToken
  <2>4. ~InFlight("part")' /\ ~InFlight("status")'
    BY <2>3 DEF InFlight
  <2>5. CalmTypes'
    BY <1>1, <2>1 DEF CalmTypes
  <2>6. OneToken'
    BY <1>1, <2>1, <2>2, <2>3, <2>4 DEF OneToken
  <2>7. PartsGathered'
    BY <1>1, <2>1, <2>4 DEF PartsGathered
  <2>8. PublishedWhole'
    BY <1>1, <2>1 DEF PublishedWhole
  <2>9. NewerThanPublished'
    BY <1>1, <2>1 DEF NewerThanPublished
  <2> QED
    BY <2>5, <2>6, <2>7, <2>8, <2>9 DEF Calm
<1>4. CASE NotSignalled
  <2>1. /\ UNCHANGED <<trace, ready, wire, reqEvent, at, hpc, buffer, published, active, pollEnable, fast,
                       shuttingDown, late>>
        /\ rpc = "wait" /\ rpc' \in {"sync", "exited"} /\ ~reqEvent
        /\ \/ queue' = Append(queue, "status") /\ Quiet
           \/ queue' = queue
    <3>1. /\ UNCHANGED <<trace, ready, wire, reqEvent, at, hpc, buffer, published, active, pollEnable, fast,
                         shuttingDown, late>>
          /\ rpc = "wait" /\ rpc' \in {"sync", "exited"} /\ ~reqEvent
      BY <1>4 DEF NotSignalled, fpga, engine, handshake, data, settings
    <3>2. (queue' = Append(queue, "status") /\ calm' = (calm /\ Quiet)) \/ queue' = queue
      BY <1>4 DEF NotSignalled
    <3> QED
      BY <3>1, <3>2
  <2>2. \/ queue' = queue
        \/ queue = <<>> /\ queue' = <<"status">> /\ ~InFlight("status")
    <3>1. ASSUME Quiet
          PROVE  queue = <<>> /\ ~InFlight("status")
      BY <1>1, <3>1, QuietQueue
    <3> QED
      BY <2>1, <3>1, OneInFlight
  <2>3. \A p \in 1 .. Parts : Held(p)' = Held(p)
    BY <2>1 DEF Held, InFlight
  <2>4. CalmTypes'
    BY <1>1, <2>1 DEF CalmTypes
  <2>5. OneToken'
    BY <1>1, <2>1, <2>2 DEF OneToken, InFlight
  <2>6. PartsGathered' /\ PublishedWhole'
    BY <1>1, <2>1 DEF PartsGathered, PublishedWhole, InFlight
  <2>7. NewerThanPublished'
    <3>1. queue' # <<"ackStatus">> => queue # <<"ackStatus">>
      BY <2>2, OneInFlight
    <3> QED
      BY <1>1, <2>1, <3>1 DEF NewerThanPublished
  <2> QED
    BY <2>4, <2>5, <2>6, <2>7 DEF Calm
<1>5. CASE RequestPart
  <2>1. /\ UNCHANGED <<queue, reqEvent, hpc, buffer, published, active, pollEnable, fast, shuttingDown, late>>
        /\ rpc = "request" /\ Transmit(PartRead(at), ready)
        /\ \/ at < Parts /\ at' = at + 1 /\ rpc' = "request"
           \/ ~(at < Parts) /\ at' = 1 /\ rpc' = "ack"
    BY <1>5 DEF RequestPart, handshake, data, settings
  <2>2. /\ wire = <<>> /\ wire' # <<>> /\ wire'[1].body = PartRead(at)
        /\ ready' = ready /\ trace' = trace
    BY <1>1, <2>1, TransmitCalm
  <2>3. /\ InFlight("part")' /\ ~InFlight("status")'
        /\ wire'[1].body.part = at /\ wire'[1].body.trace = trace
    BY <2>2 DEF InFlight, PartRead
  <2>4. ready /\ queue = <<>> /\ ~reqEvent /\ ~InFlight("part") /\ hpc # "signal"
    BY <1>1, <2>1, <2>2 DEF OneToken, InFlight
  <2>5. \A p \in 1 .. Parts : Held(p)' = (IF p = at THEN trace ELSE Held(p))
    BY <2>1, <2>3, <2>4 DEF Held
  <2>6. CalmTypes'
    BY <1>1, <2>1, <2>2 DEF CalmTypes
  <2>7. OneToken'
    BY <1>1, <2>1, <2>2, <2>3, <2>4 DEF OneToken
  <2>8. \A p \in 1 .. Parts : p < at => Held(p) = trace
    BY <1>1, <2>1 DEF PartsGathered
  <2>9. PartsGathered'
    <3>1. rpc' = "request" => \A p \in 1 .. Parts : p < at' => Held(p)' = trace'
      <4> SUFFICES ASSUME rpc' = "request", NEW p \in 1 .. Parts, p < at'
                   PROVE  Held(p)' = trace'
        OBVIOUS
      <4>1. p < at \/ p = at
        BY <1>1, <2>1
      <4> QED
        BY <2>2, <2>5, <2>8, <4>1
    <3>2. rpc' = "ack" => \A p \in 1 .. Parts : Held(p)' = trace'
      <4> SUFFICES ASSUME rpc' = "ack", NEW p \in 1 .. Parts
                   PROVE  Held(p)' = trace'
        OBVIOUS
      <4>1. p < at \/ p = at
        BY <1>1, <2>1, TraceAssumption
      <4> QED
        BY <2>2, <2>5, <2>8, <4>1
    <3> QED
      BY <2>1, <2>2, <2>3, <2>4, <3>1, <3>2 DEF PartsGathered
  <2>10. PublishedWhole'
    BY <1>1, <2>1 DEF PublishedWhole
  <2>11. NewerThanPublished'
    BY <1>1, <2>1, <2>2 DEF NewerThanPublished
  <2> QED
    BY <2>6, <2>7, <2>9, <2>10, <2>11 DEF Calm
<1>6. CASE RequestFails
  <2>1. /\ UNCHANGED <<trace, ready, wire, queue, reqEvent, hpc, buffer, published, active, pollEnable, fast,
                       shuttingDown, late>>
        /\ shuttingDown /\ rpc = "request" /\ rpc' = "ack" /\ at' = 1
    BY <1>6 DEF RequestFails, fpga, engine, handshake, data, settings
  <2>2. CalmTypes' /\ OneToken'
    BY <1>1, <2>1 DEF CalmTypes, OneToken, InFlight
  <2>3. PartsGathered' /\ PublishedWhole'
    BY <1>1, <2>1 DEF PartsGathered, PublishedWhole, InFlight
  <2>4. NewerThanPublished'
    BY <1>1, <2>1 DEF NewerThanPublished
  <2> QED
    BY <2>2, <2>3, <2>4 DEF Calm
<1>7. CASE Acknowledge
  <2>1. /\ UNCHANGED <<trace, ready, wire, reqEvent, at, hpc, buffer, published, active, pollEnable, fast,
                       shuttingDown, late>>
        /\ rpc = "ack" /\ rpc' = "data" /\ queue' = Append(queue, "ackStatus")
    BY <1>1, <1>7 DEF Acknowledge, fpga, engine, handshake, data, settings, marks, CalmTypes
  <2>2. ready /\ queue = <<>> /\ ~reqEvent /\ ~InFlight("status")
    BY <1>1, <2>1 DEF OneToken
  <2>3. queue' = <<"ackStatus">> /\ queue # <<"ackStatus">>
    BY <2>1, <2>2, OneInFlight
  <2>4. \A p \in 1 .. Parts : Held(p)' = Held(p)
    BY <2>1 DEF Held, InFlight
  <2>5. CalmTypes'
    BY <1>1, <2>1 DEF CalmTypes
  <2>6. OneToken'
    BY <1>1, <2>1, <2>2, <2>3 DEF OneToken, InFlight
  <2>7. PartsGathered'
    BY <1>1, <2>1, <2>4 DEF PartsGathered, InFlight
  <2>8. PublishedWhole'
    BY <1>1, <2>1 DEF PublishedWhole
  <2>9. NewerThanPublished'
    <3>1. \A p \in 1 .. Parts : published[p] < trace
      BY <1>1, <2>2, <2>3 DEF NewerThanPublished
    <3>2. ~shuttingDown => \A p \in 1 .. Parts : Held(p) = trace
      BY <1>1, <2>1 DEF PartsGathered
    <3> QED
      BY <1>1, <2>1, <2>3, <2>4, <3>1, <3>2 DEF NewerThanPublished
  <2> QED
    BY <2>5, <2>6, <2>7, <2>8, <2>9 DEF Calm
<1> QED
  BY <1>2, <1>3, <1>4, <1>5, <1>6, <1>7

\* The requester, when it has.
LEMMA CalmPublishes ==
  ASSUME CalmInv, [Next]_vars, calm', DataRead \/ DataMissing \/ Publish
  PROVE  Calm'
<1>1. /\ Calm /\ Orderly /\ Orderly' /\ at \in 1 .. Parts
      /\ CalmTypes /\ OneToken /\ PartsGathered /\ PublishedWhole /\ NewerThanPublished
  BY CalmBefore DEF Calm
<1>2. CASE DataRead
  <2>1. /\ UNCHANGED <<trace, ready, wire, queue, reqEvent, at, hpc, buffer, published, active, pollEnable, fast,
                       shuttingDown, late>>
        /\ rpc = "data" /\ rawWaveRead
        /\ rpc' = "exited" \/ (~shuttingDown /\ rpc' = "publish")
    BY <1>2 DEF DataRead, fpga, engine, data, settings, marks
  <2>2. ~InFlight("part")
    BY <1>1, <2>1 DEF Orderly, InFlight
  <2>3. \A p \in 1 .. Parts : Held(p)' = Held(p) /\ Held(p) = buffer[p]
    BY <2>1, <2>2 DEF Held, InFlight
  <2>4. at = 1
    BY <1>1, <2>1 DEF CalmTypes
  <2>5. CalmTypes' /\ OneToken'
    BY <1>1, <2>1, <2>4 DEF CalmTypes, OneToken, InFlight
  <2>6. PartsGathered'
    BY <1>1, <2>1 DEF PartsGathered, InFlight
  <2>7. PublishedWhole'
    <3>1. \A p, q \in 1 .. Parts : published[p] = published[q]
      BY <1>1, <2>1 DEF PublishedWhole
    <3>2. rpc' = "publish" => \A p, q \in 1 .. Parts : buffer[p] = buffer[q]
      BY <1>1, <2>1, <2>3 DEF PartsGathered
    <3>3. ~ \E p \in 1 .. Parts : p < at
      BY <2>4
    <3> QED
      BY <2>1, <2>4, <3>1, <3>2, <3>3 DEF PublishedWhole
  <2>8. NewerThanPublished'
    BY <1>1, <2>1, <2>3 DEF NewerThanPublished
  <2> QED
    BY <2>5, <2>6, <2>7, <2>8 DEF Calm
<1>3. CASE DataMissing
  <2>1. /\ UNCHANGED <<trace, ready, wire, queue, reqEvent, at, hpc, buffer, published, active, pollEnable, fast,
                       shuttingDown>>
        /\ rpc = "data" /\ rpc' = "sync"
    BY <1>3 DEF DataMissing, fpga, engine, handshake, data, settings
  <2>2. ~late'
    <3>1. /\ calm' = (calm /\ ~ \E i \in DOMAIN wire : wire[i].body.kind = "part")
          /\ late' = (late \/ \E i \in DOMAIN wire : wire[i].body.kind = "part")
      BY <1>3 DEF DataMissing
    <3> QED
      BY <1>1, <3>1 DEF CalmTypes
  <2>3. CalmTypes' /\ OneToken'
    BY <1>1, <2>1, <2>2 DEF CalmTypes, OneToken, InFlight
  <2>4. PartsGathered' /\ PublishedWhole'
    BY <1>1, <2>1 DEF PartsGathered, PublishedWhole, InFlight
  <2>5. NewerThanPublished'
    BY <1>1, <2>1 DEF NewerThanPublished
  <2> QED
    BY <2>3, <2>4, <2>5 DEF Calm
<1>4. CASE Publish
  <2>1. /\ UNCHANGED <<trace, ready, wire, queue, reqEvent, hpc, buffer, active, pollEnable, fast,
                       shuttingDown, late>>
        /\ rpc = "publish" /\ published' = [published EXCEPT ![at] = buffer[at]]
        /\ \/ at < Parts /\ at' = at + 1 /\ rpc' = "publish"
           \/ ~(at < Parts) /\ at' = 1 /\ rpc' = "sync"
    BY <1>4 DEF Publish, fpga, engine, handshake, settings, marks
  <2>2. \A p \in 1 .. Parts : /\ Held(p)' = Held(p) /\ Held(p) = buffer[p]
                              /\ published'[p] = IF p = at THEN buffer[p] ELSE published[p]
    BY <1>1, <2>1 DEF Held, InFlight, Orderly, CalmTypes
  <2>3. Parts \in Nat \ {0}
    BY TraceAssumption
  <2>4. CalmTypes'
    BY <1>1, <2>1 DEF CalmTypes
  <2>5. OneToken'
    BY <1>1, <2>1 DEF OneToken, InFlight
  <2>6. PartsGathered'
    BY <1>1, <2>1 DEF PartsGathered, InFlight
  <2>7. /\ \A p, q \in 1 .. Parts : buffer[p] = buffer[q]
        /\ \A p \in 1 .. Parts : p < at => published[p] = buffer[p]
        /\ \A p, q \in at .. Parts : published[p] = published[q]
    BY <1>1, <2>1 DEF PublishedWhole
  <2>8. PublishedWhole'
    <3>1. CASE at < Parts
      <4>1. \A p \in 1 .. Parts : p < at' => published'[p] = buffer'[p]
        BY <1>1, <2>1, <2>2, <2>7, <3>1
      <4>2. \A p, q \in at' .. Parts : published'[p] = published'[q]
        <5> SUFFICES ASSUME NEW p \in at' .. Parts, NEW q \in at' .. Parts
                     PROVE  published'[p] = published'[q]
          OBVIOUS
        <5>1. p \in at .. Parts /\ q \in at .. Parts /\ p # at /\ q # at
              /\ p \in 1 .. Parts /\ q \in 1 .. Parts
          BY <1>1, <2>1, <2>3, <3>1
        <5> QED
          BY <2>2, <2>7, <5>1
      <4> QED
        BY <2>1, <2>7, <3>1, <4>1, <4>2 DEF PublishedWhole
    <3>2. CASE ~(at < Parts)
      <4>1. \A p \in 1 .. Parts : p = at \/ p < at
        BY <1>1, <2>3, <3>2
      <4>2. \A p \in 1 .. Parts : published'[p] = buffer[p]
        BY <2>2, <2>7, <4>1
      <4> QED
        BY <2>1, <2>7, <3>2, <4>2 DEF PublishedWhole
    <3> QED
      BY <3>1, <3>2
  <2>9. NewerThanPublished'
    <3>1. \A p \in 1 .. Parts : published'[p] = published[p] \/ published'[p] = buffer[p]
      BY <2>2
    <3>2. ~(rpc' = "publish" /\ at' = 1)
      BY <1>1, <2>1, <2>3
    <3> QED
      BY <1>1, <2>1, <2>2, <3>1, <3>2 DEF NewerThanPublished
  <2> QED
    BY <2>4, <2>5, <2>6, <2>8, <2>9 DEF Calm
<1> QED
  BY <1>2, <1>3, <1>4

LEMMA CalmStep == CalmInv /\ [Next]_vars => CalmInv'
<1> SUFFICES ASSUME CalmInv, [Next]_vars
             PROVE  CalmInv'
  OBVIOUS
<1>1. FreshInv'
  BY FreshStep, TypesStep DEF CalmInv
<1>2. ASSUME calm'
      PROVE  Calm'
  <2>1. CASE UNCHANGED vars
    <3>1. Calm
      BY <1>2, CalmBefore
    <3>2. UNCHANGED <<trace, ready, wire, queue, reqEvent, rpc, at, hpc, buffer, published, active, pollEnable, fast,
                      shuttingDown, late>>
      BY <2>1 DEF vars, fpga, engine, handshake, requester, data, settings, marks
    <3> QED
      BY <3>1, <3>2 DEF Calm, CalmTypes, OneToken, PartsGathered, PublishedWhole, NewerThanPublished, Held, InFlight
  <2>2. CASE Engine \/ Environment
    BY <1>2, <2>2, CalmEngine
  <2>3. CASE Receiver
    BY <1>2, <2>3, CalmReceiver
  <2>4. CASE Sync \/ Signalled \/ NotSignalled \/ RequestPart \/ RequestFails \/ Acknowledge
    BY <1>2, <2>4, CalmRequests
  <2>5. CASE DataRead \/ DataMissing \/ Publish
    BY <1>2, <2>5, CalmPublishes
  <2> QED
    BY <2>1, <2>2, <2>3, <2>4, <2>5 DEF Next, Requester
<1>3. TypeOK' /\ Processing'
  BY TypesStep DEF CalmInv
<1> QED
  BY <1>1, <1>2, <1>3 DEF CalmInv

\* Unless something is lost, late, asked for twice or set, the waveform PV never shows
\* parts of two traces: requests, answers and the acknowledgement keep their order.
THEOREM WaveformsWhole == Spec => []WholeWhenCalm
<1>1. CalmInv => WholeWhenCalm
  BY TraceAssumption DEF CalmInv, Calm, PublishedWhole, WholeWhenCalm
<1> QED
  BY <1>1, CalmInit, CalmStep, PTL DEF Spec

\* ... and no trace is published a second time.
THEOREM WaveformsOnce == Spec => []OnceWhenCalm
<1>1. CalmInv => OnceWhenCalm
  <2> SUFFICES ASSUME CalmInv, calm, rpc = "publish", at = 1
               PROVE  buffer[1] > published[1]
    BY DEF OnceWhenCalm
  <2>1. Calm /\ Orderly /\ 1 \in 1 .. Parts
    BY TraceAssumption DEF CalmInv, FreshInv, Calm, CalmTypes
  <2>2. ~InFlight("part")
    BY <2>1 DEF Orderly, InFlight
  <2>3. published[1] < Held(1) /\ Held(1) = buffer[1]
    BY <2>1, <2>2 DEF Calm, NewerThanPublished, Held
  <2>4. published[1] \in Nat /\ buffer[1] \in Nat
    BY <2>1 DEF Calm, CalmTypes
  <2> QED
    BY <2>3, <2>4
<1> QED
  BY <1>1, CalmInit, CalmStep, PTL DEF Spec

================================================================================
