------------------------------ MODULE ChannelMap ------------------------------
(***************************************************************************)
(* Which waveform channel is where in the buffer the FPGA sends            *)
(* (TraceData in gunbLlrfApp/src/GUNBLlrfDev.cpp and GUNBLlrfDev.h).       *)
(*                                                                         *)
(* The FPGA interleaves the points of the channels it is told to keep.     *)
(* relToAbsIdx says which channel the rel-th of them is.  The port thread  *)
(* makes it anew when the operator writes the channels, the receiving      *)
(* thread when it processes an echo or a readback of them, and the thread  *)
(* that publishes waveforms reads it, none with a lock: a step is one      *)
(* element, and other threads run between steps.                           *)
(***************************************************************************)
EXTENDS Integers, Sequences, FiniteSets

CONSTANTS
  NumChans,      \* maxWavesCount; even, a pair is I and Q of one signal
  InitialKeeps,  \* bounds of the model: what the FPGA may keep at startup,
  MaxKeepWrites, \* settings written,
  MaxAnswers     \* and answers in flight

ASSUME ChannelAssumption ==
  /\ NumChans \in Nat \ {0} /\ NumChans % 2 = 0
  /\ InitialKeeps \subseteq SUBSET (0 .. NumChans - 1)
  /\ {MaxKeepWrites, MaxAnswers} \subseteq Nat

Channels == 0 .. NumChans - 1
Unused == 2 * NumChans + 1   \* -1 in an unsigned int: odd, and of no pair
Threads == {"port", "recv"}

VARIABLES
  chanKeep, nChan, relToAbsIdx,
  upd,        \* where each thread is in updateRelToAbsIdx
  pending,    \* and what it does next with which value: the port thread queues the
              \* setting, the receiving thread processes the readback; {} if nothing
  keepReg,    \* the FPGA's register
  keepQueue,  \* _singleMsgQ: settings to be sent
  answers,    \* in flight, oldest first
  waveAsked, rawWaveRead,  \* a waveform is requested; its last point has been stored
  pub,        \* the thread that publishes, with a history: what it has shown of a
              \* waveform as long as no update falls into it
  fault,      \* what has brought down the IOC
  keepWrites,
  lostWrite   \* history: a write of the channels or its answer was lost

mapData == <<chanKeep, nChan, relToAbsIdx>>
mapNet == <<keepReg, keepQueue, answers, lostWrite>>
mapWave == <<waveAsked, rawWaveRead>>
mapVars == <<mapData, upd, pending, mapNet, mapWave, pub, fault, keepWrites>>

MapTypeOK ==
  /\ chanKeep \subseteq Channels /\ nChan \in 0 .. NumChans
  /\ relToAbsIdx \in [Channels -> Channels \union {Unused}]
  /\ upd \in [Threads -> [at : {"idle", "count", "loop", "seek", "fill"},
                          rel : 0 .. NumChans, next : 0 .. NumChans]]
  /\ pending \in [Threads -> SUBSET SUBSET Channels]
  /\ keepReg \subseteq Channels /\ keepQueue \in Seq(SUBSET Channels)
  /\ answers \in Seq([write : BOOLEAN, value : SUBSET Channels]) /\ Len(answers) <= MaxAnswers
  /\ {waveAsked, rawWaveRead, lostWrite, pub.calm} \subseteq BOOLEAN
  /\ pub.at \in {"ask", "wait", "loop", "end"} /\ pub.rel \in 0 .. NumChans
  /\ pub.shown \subseteq {"raw", "scaled", "polar"} \X Channels \X Channels
  /\ fault \in {"none", "seek", "index"} /\ keepWrites \in 0 .. MaxKeepWrites

UpdIdle == [at |-> "idle", rel |-> 0, next |-> 0]

MapInit ==
  /\ chanKeep = {} /\ nChan = 0 /\ relToAbsIdx = [rel \in Channels |-> Unused]
  /\ upd = [t \in Threads |-> UpdIdle] /\ pending = [t \in Threads |-> {}]
  /\ keepReg \in InitialKeeps /\ keepQueue = <<>> /\ answers = <<>> /\ lostWrite = FALSE
  /\ waveAsked = FALSE /\ rawWaveRead = FALSE
  /\ pub = [at |-> "ask", rel |-> 0, shown |-> {}, calm |-> FALSE]
  /\ fault = "none" /\ keepWrites = 0

--------------------------------------------------------------------------------
(* updateRelToAbsIdx *)

\* chanKeep is set, and the update called; it spoils the publishing it falls into.
Keep(t, value) ==
  /\ chanKeep' = value
  /\ upd' = [upd EXCEPT ![t] = [UpdIdle EXCEPT !.at = "count"]]
  /\ pub' = [pub EXCEPT !.calm = FALSE, !.shown = {}]

Updating(t, at) == upd[t].at = at /\ UNCHANGED <<chanKeep, pending, mapNet, mapWave, keepWrites>>

Count(t) ==
  /\ Updating(t, "count")
  /\ nChan' = Cardinality(chanKeep)
  /\ upd' = [upd EXCEPT ![t].at = "loop"]
  /\ UNCHANGED <<relToAbsIdx, pub, fault>>

\* nChan is read again for every element.
Loop(t) ==
  /\ Updating(t, "loop")
  /\ upd' = [upd EXCEPT ![t].at = IF upd[t].rel < nChan THEN "seek" ELSE "fill"]
  /\ UNCHANGED <<nChan, relToAbsIdx, pub, fault>>

\* chanKeep is tested for the next channel.
Seek(t) ==
  /\ Updating(t, "seek") /\ upd[t].next \in Channels
  /\ IF upd[t].next \in chanKeep
     THEN /\ relToAbsIdx' = [relToAbsIdx EXCEPT ![upd[t].rel] = upd[t].next]
          /\ upd' = [upd EXCEPT ![t] = [at |-> "loop", rel |-> @.rel + 1, next |-> @.next + 1]]
     ELSE upd' = [upd EXCEPT ![t].next = @ + 1] /\ UNCHANGED relToAbsIdx
  /\ UNCHANGED <<nChan, pub, fault>>

\* bitset::test throws std::out_of_range: nobody catches it on the port thread; on the
\* receiving thread responseHandlerC does, and that thread is at its end.
SeekTooFar(t) ==
  /\ Updating(t, "seek") /\ upd[t].next \notin Channels
  /\ fault' = "seek"
  /\ UNCHANGED <<nChan, relToAbsIdx, upd, pub>>

Fill(t) ==
  /\ Updating(t, "fill")
  /\ IF upd[t].rel \in Channels
     THEN /\ relToAbsIdx' = [relToAbsIdx EXCEPT ![upd[t].rel] = Unused]
          /\ upd' = [upd EXCEPT ![t].rel = @ + 1]
     ELSE upd' = [upd EXCEPT ![t] = UpdIdle] /\ UNCHANGED relToAbsIdx
  /\ UNCHANGED <<nChan, pub, fault>>

UpdateMap(t) == Count(t) \/ Loop(t) \/ Seek(t) \/ SeekTooFar(t) \/ Fill(t)

--------------------------------------------------------------------------------
(* The port thread.  The operator enables pairs. *)

Free(t) == upd[t].at = "idle" /\ pending[t] = {}

WriteChans ==
  /\ Free("port") /\ keepWrites < MaxKeepWrites /\ keepWrites' = keepWrites + 1
  /\ \E pairs \in SUBSET (0 .. NumChans \div 2 - 1) :
       LET value == {c \in Channels : c \div 2 \in pairs}
       IN Keep("port", value) /\ pending' = [pending EXCEPT !["port"] = {value}]
  /\ UNCHANGED <<nChan, relToAbsIdx, mapNet, mapWave, fault>>

QueueChans ==
  /\ upd["port"].at = "idle"
  /\ \E value \in pending["port"] : keepQueue' = Append(keepQueue, value)
  /\ pending' = [pending EXCEPT !["port"] = {}]
  /\ UNCHANGED <<mapData, upd, keepReg, answers, lostWrite, mapWave, pub, fault, keepWrites>>

--------------------------------------------------------------------------------
(* The network and the FPGA, as this code uses them *)

Network(step) == step /\ UNCHANGED <<mapData, upd, pending, mapWave, pub, fault, keepWrites>>

Answer(write) ==
  /\ Len(answers) < MaxAnswers
  /\ answers' = Append(answers, [write |-> write, value |-> keepReg'])

\* A setting is carried out and read back, or lost.
SendChans ==
  /\ keepQueue # <<>> /\ keepQueue' = Tail(keepQueue)
  /\ \/ keepReg' = Head(keepQueue) /\ Answer(TRUE) /\ UNCHANGED lostWrite
     \/ lostWrite' = TRUE /\ UNCHANGED <<keepReg, answers>>

PollChans == UNCHANGED <<keepReg, keepQueue, lostWrite>> /\ Answer(FALSE)

LoseAnswer ==
  /\ answers # <<>> /\ answers' = Tail(answers)
  /\ lostWrite' = (lostWrite \/ Head(answers).write)
  /\ UNCHANGED <<keepReg, keepQueue>>

--------------------------------------------------------------------------------
(* The receiving thread *)

Receiver(step) == upd["recv"].at = "idle" /\ step /\ UNCHANGED <<nChan, relToAbsIdx, keepWrites>>

\* Mutant: an echo is treated as a readback.
TakeEchoIfNew(value) ==
  IF value # chanKeep THEN Keep("recv", value) ELSE UNCHANGED <<chanKeep, upd, pub>>
\* The echo of KeepW always makes the map anew.
TakeEcho(value) == Keep("recv", value)

TakeAnswer ==
  /\ pending["recv"] = {} /\ answers # <<>>
  /\ answers' = Tail(answers)
  /\ pending' = [pending EXCEPT !["recv"] = {Head(answers).value}]
  /\ IF Head(answers).write THEN TakeEcho(Head(answers).value) ELSE UNCHANGED <<chanKeep, upd, pub>>
  /\ UNCHANGED <<keepReg, keepQueue, lostWrite, mapWave, fault>>

\* The readback of KeepR does so only when chanKeep differs.
TakeReadback ==
  /\ \E value \in pending["recv"] :
       IF value # chanKeep THEN Keep("recv", value) ELSE UNCHANGED <<chanKeep, upd, pub>>
  /\ pending' = [pending EXCEPT !["recv"] = {}]
  /\ UNCHANGED <<mapNet, mapWave, fault>>

\* ProcessTraceDataReadback: the scale is that of the channel the point belongs to.
StorePoint ==
  /\ waveAsked /\ pending["recv"] = {}
  /\ \E last \in BOOLEAN, buf \in Channels :
       IF nChan = 0 THEN waveAsked' = ~last /\ UNCHANGED <<rawWaveRead, fault>>
       ELSE /\ buf < nChan
            /\ waveAsked' = ~last
            /\ rawWaveRead' = (rawWaveRead \/ last)
            /\ fault' = IF relToAbsIdx[buf] = Unused THEN "index" ELSE fault
  /\ UNCHANGED <<chanKeep, upd, pending, mapNet, pub>>

--------------------------------------------------------------------------------
(* TraceDataRequester.  shown: what is published, of which channel, from which buffer. *)

Publisher(step) ==
  step /\ UNCHANGED <<mapData, upd, pending, mapNet, keepWrites>>

AskWave ==
  /\ pub.at \in {"ask", "end"} /\ nChan > 0
  /\ waveAsked' = TRUE /\ pub' = [pub EXCEPT !.at = "wait", !.shown = {}]
  /\ UNCHANGED <<rawWaveRead, fault>>

WaitTimesOut ==
  /\ pub.at = "wait" /\ ~rawWaveRead /\ pub' = [pub EXCEPT !.at = "ask"]
  /\ UNCHANGED <<mapWave, fault>>

StartPublishing ==
  /\ pub.at = "wait" /\ rawWaveRead /\ rawWaveRead' = FALSE
  /\ pub' = [at |-> "loop", rel |-> 0, shown |-> {},
             calm |-> \A t \in Threads : upd[t].at = "idle"]
  /\ UNCHANGED <<waveAsked, fault>>

Scaled(c, rel) == <<"scaled", c, rel>>
I(c) == c - (c % 2)

\* Mutant: the neighbour on the wrong side.
PartnerWrong(rel) ==
  LET c == relToAbsIdx[rel]
      other == IF c % 2 = 0 THEN rel - 1 ELSE rel + 1
  IN other \in Channels /\ relToAbsIdx[other] \div 2 = c \div 2

\* Is the other waveform of the pair next to it?
Partner(rel) ==
  LET c == relToAbsIdx[rel]
      other == IF c % 2 = 1 THEN rel - 1 ELSE rel + 1
  IN other \in Channels /\ relToAbsIdx[other] \div 2 = c \div 2

\* I waits for its Q, which publishes both and the amplitude and phase.
PublishChan ==
  /\ pub.at = "loop" /\ pub.rel < nChan /\ relToAbsIdx[pub.rel] \in Channels
  /\ LET rel == pub.rel
         c == relToAbsIdx[rel]
         scaled == IF ~Partner(rel) THEN {Scaled(c, rel)}
                   ELSE IF c % 2 = 0 THEN {}
                   ELSE {Scaled(c, rel), Scaled(I(c), rel - 1), <<"polar", I(c), rel - 1>>}
     IN pub' = [pub EXCEPT !.rel = rel + 1,
                          !.shown = IF pub.calm THEN @ \union {<<"raw", c, rel>>} \union scaled ELSE @]
  /\ UNCHANGED <<mapWave, fault>>

\* An unused element is taken for a Q waveform of a pair far beyond the arrays.
PublishUnused ==
  /\ pub.at = "loop" /\ pub.rel < nChan /\ relToAbsIdx[pub.rel] = Unused
  /\ fault' = "index"
  /\ UNCHANGED <<mapWave, pub>>

EndPublishing ==
  /\ pub.at = "loop" /\ pub.rel >= nChan
  /\ pub' = [pub EXCEPT !.at = IF pub.calm THEN "end" ELSE "ask", !.rel = 0]
  /\ UNCHANGED <<mapWave, fault>>

Publish ==
  \/ AskWave \/ WaitTimesOut \/ StartPublishing \/ PublishChan \/ PublishUnused \/ EndPublishing

MapNext ==
  /\ fault = "none"
  /\ \/ \E t \in Threads : UpdateMap(t)
     \/ WriteChans \/ QueueChans
     \/ Network(SendChans) \/ Network(PollChans) \/ Network(LoseAnswer)
     \/ Receiver(TakeAnswer) \/ Receiver(TakeReadback) \/ Receiver(StorePoint)
     \/ Publisher(Publish)

MapSpec == MapInit /\ [][MapNext]_mapVars

--------------------------------------------------------------------------------
(* Properties *)

\* Where the channels of a set are.
Rank(c, S) == Cardinality({d \in S : d < c})
Reference(S) ==
  [rel \in Channels |-> IF \E c \in S : Rank(c, S) = rel
                     THEN CHOOSE c \in S : Rank(c, S) = rel ELSE Unused]

MapQuiet ==
  /\ fault = "none" /\ keepQueue = <<>> /\ answers = <<>>
  /\ \A t \in Threads : Free(t)

\* When everything written has been answered, and no write or its answer was lost,
\* the map is that of chanKeep: the port thread and the receiving thread may have
\* mixed theirs on the way, but the last echo comes when the port thread is done.
MapAgreesWhenQuiet ==
  (MapQuiet /\ ~lostWrite) =>
    nChan = Cardinality(chanKeep) /\ relToAbsIdx = Reference(chanKeep)

\* Publishing that no update falls into shows of every channel kept the buffer with
\* its points, raw and scaled, and amplitude and phase of every pair kept.
PublishesKept ==
  (pub.at = "end" /\ pub.calm /\ relToAbsIdx = Reference(chanKeep)) =>
    pub.shown =
      {<<what, c, Rank(c, chanKeep)>> : what \in {"raw", "scaled"}, c \in chanKeep} \union
      {<<"polar", c, Rank(c, chanKeep)>> : c \in {d \in chanKeep : d % 2 = 0 /\ d + 1 \in chanKeep}}

\* What relToAbsIdx holds for a channel in use is the number of a channel
\* (GUNBLlrfDev.h, at its declaration).
IndexIsChannel == fault # "index"
================================================================================
