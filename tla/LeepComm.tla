------------------------------- MODULE LeepComm -------------------------------
(***************************************************************************)
(* The request/response engine of leepDrv (gunbLlrfApp/src/leepDrv.cpp).   *)
(*                                                                         *)
(* Any number of threads (the poller, the single message queuer, the       *)
(* waveform requesters, the asyn port thread) call sendRegRequest; one     *)
(* thread, responseHandler, reads what the FPGA answers.  They share the   *)
(* request counter netSendCount_, the number of requests waited for        *)
(* netWaitingRequests_, the mutex comCountersMutexId_ and the event        *)
(* readEventId_.  The handler reads and writes the two counters in several *)
(* places WITHOUT the mutex; there each load and each store is a step.     *)
(*                                                                         *)
(* The network and the FPGA are the environment: an answer may be lost,    *)
(* delayed past the moment the driver gives up on it, overtaken by others, *)
(* or damaged.                                                             *)
(***************************************************************************)
EXTENDS Integers, Sequences, FiniteSets

CONSTANTS
  Senders,      \* the threads that call sendRegRequest
  MaxChoices,   \* the values MAX_PARALLEL_REQUESTS is set to while running
  NoDataLimit,  \* empty reads tolerated: defaultPollPeriod/throttleLoopDelay
  Wrap,         \* 2^32: netSendCount_ is an unsigned int
  Damage,       \* how an answer may be damaged: a subset of {"short", "huge"}
  MaxCalls      \* bound of the model: calls of sendRegRequest

NoOne == "none"
Handler == "responseHandler"
Threads == Senders \union {Handler}

ASSUME SendersAssumption == NoOne \notin Threads /\ Handler \notin Senders
\* The record has no limits: an operator may write 0 or a negative number.
ASSUME MaxAssumption == MaxChoices \subseteq Int
ASSUME BoundsAssumption ==
  /\ NoDataLimit \in Nat
  /\ Wrap \in Nat \ {0}
  /\ MaxCalls \in Nat
ASSUME DamageAssumption == Damage \subseteq {"short", "huge"}

VARIABLES
  maxParallel,   \* parameter MAX_PARALLEL_REQUESTS
  netSendCount,  \* netSendCount_
  netWaiting,    \* netWaitingRequests_
  lastResponse,  \* lastResponseCount_
  mutex,         \* holder of comCountersMutexId_
  readEvent,     \* readEventId_ is full
  shuttingDown,  \* isShuttingDown_
  pc,            \* where each sender is in sendRegRequest
  sendMax,       \* each sender's local copy of maxParallel
  seen,          \* the value a sender loaded to increment netWaiting
  hpc,           \* where the handler is in responseHandler
  hMax,          \* the handler's local copy of maxParallel
  noData,        \* noDataCounter
  msg,           \* the response being processed (pRegReadback)
  hVal,          \* the value the handler is about to store in netWaiting
  inflight,      \* answers the FPGA owes or the network carries
  inbox,         \* answers received and not yet read, oldest first
  calls          \* number of calls of sendRegRequest so far

counters == <<netSendCount, netWaiting, lastResponse>>
senderVars == <<pc, sendMax, seen, calls>>
handlerVars == <<hpc, hMax, noData, msg, hVal>>
network == <<inflight, inbox>>
control == <<maxParallel, mutex, readEvent, shuttingDown>>
vars == <<counters, senderVars, handlerVars, network, control>>

Number == 0 .. Wrap - 1
Message == [id : Number, kind : {"ok", "short", "huge"}]

\* The handler has found netWaiting positive and not yet settled the count.
Committed == {"lock", "read", "process", "shorted", "settle", "store", "storeTop"}
\* The handler is inside the code that uses the counters without the mutex.
HandlerUnlocked == {"process", "shorted", "settle", "store", "storeTop"}

TypeOK ==
  /\ maxParallel \in Int
  /\ netSendCount \in Number
  /\ netWaiting \in Nat
  /\ lastResponse \in Number
  /\ mutex \in Threads \union {NoOne}
  /\ readEvent \in BOOLEAN
  /\ shuttingDown \in BOOLEAN
  /\ pc \in [Senders -> {"idle", "lock", "load", "store", "signal"}]
  /\ sendMax \in [Senders -> Int]
  /\ seen \in [Senders -> Nat]
  /\ hpc \in {"top", "wait", "check", "exited"} \union Committed
  /\ hMax \in Int
  /\ noData \in 0 .. NoDataLimit + 1
  /\ msg \in Message
  /\ hVal \in Nat
  /\ inflight \subseteq Number
  /\ inbox \in Seq(Message)
  /\ calls \in Nat

Init ==
  /\ maxParallel = 1
  /\ netSendCount = 0 /\ netWaiting = 0 /\ lastResponse = 0
  /\ mutex = NoOne /\ readEvent = FALSE /\ shuttingDown = FALSE
  /\ pc = [s \in Senders |-> "idle"]
  /\ sendMax = [s \in Senders |-> 1]
  /\ seen = [s \in Senders |-> 0]
  /\ hpc = "top" /\ hMax = 1 /\ noData = 0
  /\ msg = [id |-> 0, kind |-> "ok"] /\ hVal = 0
  /\ inflight = {} /\ inbox = <<>>
  /\ calls = 0

--------------------------------------------------------------------------------
(* sendRegRequest *)

\* Entry: the limit is read once, before the mutex is taken.
BeginSend(s) ==
  /\ pc[s] = "idle" /\ calls < MaxCalls
  /\ calls' = calls + 1
  /\ sendMax' = [sendMax EXCEPT ![s] = maxParallel]
  /\ pc' = [pc EXCEPT ![s] = "lock"]
  /\ UNCHANGED <<counters, seen, handlerVars, network, control>>

\* The throttling loop lets a sender through: it keeps the mutex.  (A round of
\* the loop that finds too many requests unlocks, sleeps and changes nothing.)
\* The limit is cast to unsigned: 0 lets nobody through, -1 everybody.
Unsigned(n) == IF n < 0 THEN Wrap + n ELSE n
MayPassOneMore(s) == netWaiting <= Unsigned(sendMax[s])     \* mutant: off by one
MayPass(s) == netWaiting < Unsigned(sendMax[s])

\* Mutant: the mutex is released before the increment.
WriteUnlocked(s) ==
  /\ pc[s] = "lock" /\ mutex = NoOne /\ MayPass(s)
  /\ netSendCount' = (netSendCount + 1) % Wrap
  /\ inflight' = inflight \union {netSendCount'}
  /\ pc' = [pc EXCEPT ![s] = "load"]
  /\ UNCHANGED <<netWaiting, lastResponse, sendMax, seen, calls, handlerVars,
                 inbox, control>>

\* Mutant: the packet carries the number of the next one.
WriteNextNumber(s) ==
  /\ pc[s] = "lock" /\ mutex = NoOne /\ MayPass(s)
  /\ mutex' = s
  /\ netSendCount' = (netSendCount + 1) % Wrap
  /\ inflight' = inflight \union {(netSendCount' + 1) % Wrap}
  /\ pc' = [pc EXCEPT ![s] = "load"]
  /\ UNCHANGED <<netWaiting, lastResponse, sendMax, seen, calls, handlerVars,
                 inbox, maxParallel, readEvent, shuttingDown>>

\* The nonce is numbered and the packet written; the FPGA now owes an answer.
Write(s) ==
  /\ pc[s] = "lock" /\ mutex = NoOne /\ MayPass(s)
  /\ mutex' = s
  /\ netSendCount' = (netSendCount + 1) % Wrap
  /\ inflight' = inflight \union {netSendCount'}
  /\ pc' = [pc EXCEPT ![s] = "load"]
  /\ UNCHANGED <<netWaiting, lastResponse, sendMax, seen, calls, handlerVars,
                 inbox, maxParallel, readEvent, shuttingDown>>

\* The write fails: the number is used up, nothing is waited for.
WriteFails(s) ==
  /\ pc[s] = "lock" /\ mutex = NoOne /\ MayPass(s)
  /\ netSendCount' = (netSendCount + 1) % Wrap
  /\ pc' = [pc EXCEPT ![s] = "signal"]
  /\ UNCHANGED <<netWaiting, lastResponse, sendMax, seen, calls, handlerVars,
                 network, control>>

\* A throttled sender leaves when the driver shuts down: asynDisconnected.
Disconnected(s) ==
  /\ pc[s] = "lock" /\ mutex = NoOne /\ ~MayPass(s) /\ shuttingDown
  /\ pc' = [pc EXCEPT ![s] = "idle"]
  /\ UNCHANGED <<counters, sendMax, seen, calls, handlerVars, network, control>>

\* ++netWaitingRequests_ is a load and a store; the mutex is then released.
LoadWaiting(s) ==
  /\ pc[s] = "load"
  /\ seen' = [seen EXCEPT ![s] = netWaiting]
  /\ pc' = [pc EXCEPT ![s] = "store"]
  /\ UNCHANGED <<counters, sendMax, calls, handlerVars, network, control>>

StoreWaiting(s) ==
  /\ pc[s] = "store"
  /\ netWaiting' = seen[s] + 1
  /\ mutex' = NoOne
  /\ pc' = [pc EXCEPT ![s] = "signal"]
  /\ UNCHANGED <<netSendCount, lastResponse, sendMax, seen, calls, handlerVars,
                 network, maxParallel, readEvent, shuttingDown>>

\* wakeupReader
Signal(s) ==
  /\ pc[s] = "signal"
  /\ readEvent' = TRUE
  /\ pc' = [pc EXCEPT ![s] = "idle"]
  /\ UNCHANGED <<counters, sendMax, seen, calls, handlerVars, network,
                 maxParallel, mutex, shuttingDown>>

Send(s) ==
  \/ BeginSend(s) \/ Write(s) \/ WriteFails(s) \/ Disconnected(s)
  \/ LoadWaiting(s) \/ StoreWaiting(s) \/ Signal(s)

--------------------------------------------------------------------------------
(* responseHandler and processReadbackBuffer *)

\* Each round of the outer loop copies the limit before it blocks on the event.
Top ==
  /\ hpc = "top"
  /\ hMax' = maxParallel
  /\ hpc' = "wait"
  /\ UNCHANGED <<counters, senderVars, noData, msg, hVal, network, control>>

\* epicsEventWaitWithTimeout returns with the event.
Wake ==
  /\ hpc = "wait" /\ readEvent
  /\ readEvent' = FALSE
  /\ hpc' = IF shuttingDown THEN "exited" ELSE "check"
  /\ UNCHANGED <<counters, senderVars, hMax, noData, msg, hVal, network,
                 maxParallel, mutex, shuttingDown>>

\* Mutant: the test for waiting requests is dropped.
WaitTimesOutUntested ==
  /\ hpc = "wait" /\ ~readEvent
  /\ \/ shuttingDown /\ hpc' = "exited" /\ UNCHANGED hVal
     \/ ~shuttingDown /\ hpc' = "storeTop" /\ hVal' = netWaiting - 1
  /\ UNCHANGED <<counters, senderVars, hMax, noData, msg, network, control>>

\* It returns after readTimeout_ without one: one request is counted as lost,
\* by a test, a load and a store outside the mutex.
WaitTimesOut ==
  /\ hpc = "wait" /\ ~readEvent
  /\ \/ shuttingDown /\ hpc' = "exited" /\ UNCHANGED hVal
     \/ ~shuttingDown /\ netWaiting = 0 /\ hpc' = "top" /\ UNCHANGED hVal
     \/ ~shuttingDown /\ netWaiting > 0 /\ hpc' = "storeTop"
        /\ hVal' = netWaiting - 1
  /\ UNCHANGED <<counters, senderVars, hMax, noData, msg, network, control>>

\* Mutant: the handler reads whether or not an answer is waited for.
CheckAlways ==
  /\ hpc = "check"
  /\ hpc' = "lock"
  /\ UNCHANGED <<counters, senderVars, hMax, noData, msg, hVal, network, control>>

\* while (netWaitingRequests_ > 0), read without the mutex
Check ==
  /\ hpc = "check"
  /\ hpc' = IF netWaiting > 0 THEN "lock" ELSE "top"
  /\ UNCHANGED <<counters, senderVars, hMax, noData, msg, hVal, network, control>>

Lock ==
  /\ hpc = "lock" /\ mutex = NoOne
  /\ mutex' = Handler
  /\ hpc' = "read"
  /\ UNCHANGED <<counters, senderVars, hMax, noData, msg, hVal, network,
                 maxParallel, readEvent, shuttingDown>>

\* Mutant: a request whose answer never comes is not given up.
ReadNothingKeeps ==
  /\ hpc = "read" /\ inbox = <<>>
  /\ noData' = IF noData > NoDataLimit THEN noData ELSE noData + 1
  /\ mutex' = NoOne /\ hpc' = "check"
  /\ UNCHANGED <<counters, senderVars, hMax, msg, hVal, network,
                 maxParallel, readEvent, shuttingDown>>

\* Nothing arrives within the read's timeout.  noDataCounter is not reset when
\* it has passed the limit, so the next empty read gives up a request at once.
\* It is only compared with the limit: the model stops counting above it.
ReadNothing ==
  /\ hpc = "read" /\ inbox = <<>>
  /\ noData' = IF noData > NoDataLimit THEN noData ELSE noData + 1
  /\ netWaiting' = IF noData' > NoDataLimit THEN netWaiting - 1 ELSE netWaiting
  /\ mutex' = NoOne /\ hpc' = "check"
  /\ UNCHANGED <<netSendCount, lastResponse, senderVars, hMax, msg, hVal, network,
                 maxParallel, readEvent, shuttingDown>>

\* The nonce announces more than maxMsgSize bytes: everything received is flushed.
ReadHuge ==
  /\ hpc = "read" /\ inbox # <<>> /\ Head(inbox).kind = "huge"
  /\ noData' = 0 /\ inbox' = <<>>
  /\ netWaiting' = netWaiting - 1
  /\ mutex' = NoOne /\ hpc' = "check"
  /\ UNCHANGED <<netSendCount, lastResponse, senderVars, hMax, msg, hVal, inflight,
                 maxParallel, readEvent, shuttingDown>>

\* What is left in the receive buffer after one response is read.  The buffer is
\* a byte stream: a response shorter than its nonce says takes the missing bytes
\* from the next one, whose rest then starts with something that is no nonce.
AfterRead ==
  IF Head(inbox).kind = "short" /\ Len(inbox) > 1
  THEN <<[inbox[2] EXCEPT !.kind = "huge"]>> \o Tail(Tail(inbox))
  ELSE Tail(inbox)

\* ... and then it looks complete.
ReadMessage ==
  IF Head(inbox).kind = "short" /\ Len(inbox) > 1
  THEN [Head(inbox) EXCEPT !.kind = "ok"]
  ELSE Head(inbox)

\* A whole response is read.  With one request at a time the rest of the buffer
\* is taken for junk and flushed.
ReadResponse ==
  /\ hpc = "read" /\ inbox # <<>> /\ Head(inbox).kind # "huge"
  /\ noData' = 0
  /\ msg' = ReadMessage
  /\ inbox' = IF hMax = 1 THEN <<>> ELSE AfterRead
  /\ mutex' = NoOne /\ hpc' = "process"
  /\ UNCHANGED <<counters, senderVars, hMax, hVal, inflight,
                 maxParallel, readEvent, shuttingDown>>

\* processReadbackBuffer returns early: the nonce is not valid (number 0), or
\* the driver shuts down.  The count is left as it is.
ProcessSkips ==
  /\ hpc = "process" /\ (msg.id = 0 \/ shuttingDown)
  /\ hpc' = "check"
  /\ UNCHANGED <<counters, senderVars, hMax, noData, msg, hVal, network, control>>

\* Fewer bytes than the nonce says: flush, and count the request as lost.
ProcessShort ==
  /\ hpc = "process" /\ msg.id # 0 /\ ~shuttingDown /\ msg.kind = "short"
  /\ inbox' = <<>>
  /\ hpc' = IF netWaiting > 0 THEN "shorted" ELSE "check"
  /\ UNCHANGED <<counters, senderVars, hMax, noData, msg, hVal, inflight, control>>

LoadShort ==
  /\ hpc = "shorted"
  /\ hVal' = netWaiting - 1
  /\ hpc' = "store"
  /\ UNCHANGED <<counters, senderVars, hMax, noData, msg, network, control>>

\* The registers of the response are dispatched.
Process ==
  /\ hpc = "process" /\ msg.id # 0 /\ ~shuttingDown /\ msg.kind = "ok"
  /\ lastResponse' = msg.id
  /\ hpc' = "settle"
  /\ UNCHANGED <<netSendCount, netWaiting, senderVars, hMax, noData, msg, hVal,
                 network, control>>

\* Every request up to the answered one is settled.
StillWaiting == IF msg.id < netSendCount THEN netSendCount - msg.id ELSE 0

Settle ==
  /\ hpc = "settle"
  /\ hVal' = StillWaiting
  /\ hpc' = "store"
  /\ UNCHANGED <<counters, senderVars, hMax, noData, msg, network, control>>

Store ==
  /\ hpc \in {"store", "storeTop"}
  /\ netWaiting' = hVal
  /\ hpc' = IF hpc = "store" THEN "check" ELSE "top"
  /\ UNCHANGED <<netSendCount, lastResponse, senderVars, hMax, noData, msg, hVal,
                 network, control>>

HandlerStep ==
  \/ Top \/ Wake \/ WaitTimesOut \/ Check \/ Lock
  \/ ReadNothing \/ ReadHuge \/ ReadResponse
  \/ ProcessSkips \/ ProcessShort \/ LoadShort \/ Process \/ Settle \/ Store

--------------------------------------------------------------------------------
(* The operator, and the FPGA with the network *)

SetMaxParallel ==
  /\ maxParallel' \in MaxChoices
  /\ UNCHANGED <<counters, senderVars, handlerVars, network,
                 mutex, readEvent, shuttingDown>>

Shutdown ==
  /\ ~shuttingDown
  /\ shuttingDown' = TRUE /\ readEvent' = TRUE
  /\ UNCHANGED <<counters, senderVars, handlerVars, network, maxParallel, mutex>>

\* Answers arrive in any order, possibly damaged, or never.
Deliver ==
  /\ \E n \in inflight, k \in {"ok"} \union Damage :
       /\ inflight' = inflight \ {n}
       /\ inbox' = Append(inbox, [id |-> n, kind |-> k])
  /\ UNCHANGED <<counters, senderVars, handlerVars, control>>

Lose ==
  /\ \E n \in inflight : inflight' = inflight \ {n}
  /\ UNCHANGED <<counters, senderVars, handlerVars, inbox, control>>

Environment == SetMaxParallel \/ Shutdown \/ Deliver \/ Lose

Next == (\E s \in Senders : Send(s)) \/ HandlerStep \/ Environment

Spec == Init /\ [][Next]_vars

\* Every thread that can run eventually does.  Nothing is assumed of the
\* operator, of the network, or of a thread's luck with the mutex.
Fairness ==
  /\ WF_vars(HandlerStep)
  /\ \A s \in Senders :
       WF_vars(Write(s) \/ WriteFails(s) \/ Disconnected(s)
               \/ LoadWaiting(s) \/ StoreWaiting(s) \/ Signal(s))
FairSpec == Spec /\ Fairness

--------------------------------------------------------------------------------
(* Properties *)

\* A read-modify-write of the counters is never overtaken: when a thread stores
\* the number of waiting requests, the value it computed from is still current.
\* This is what the comments on comCountersMutexId_ promise ("protect
\* netSendCount and netWaitingRequests"), and the handler computes outside it.
CountersProtected ==
  /\ \A s \in Senders : pc[s] = "store" => netWaiting = seen[s]
  /\ hpc = "storeTop" => netWaiting = hVal + 1
  /\ (hpc = "store" /\ msg.kind = "short") => netWaiting = hVal + 1
  /\ (hpc = "store" /\ msg.kind = "ok") => hVal = StillWaiting

\* No thread is inside sendRegRequest's critical section while the handler is in
\* the code that uses the counters without the mutex, nor two threads at once in
\* the critical section (so the packet buffer sequence on the wire is theirs).
RaceFree ==
  /\ \A s \in Senders : pc[s] \in {"load", "store"} =>
       /\ mutex = s
       /\ hpc \notin HandlerUnlocked \union {"read"}
  /\ hpc = "read" => mutex = Handler

\* The handler never acknowledges a request that was not sent: what it has seen
\* last, is processing, has received or may still receive is numbered at most
\* netSendCount_ (as long as the counter has not rolled over).
NeverAhead ==
  /\ lastResponse <= netSendCount
  /\ hpc \in {"process", "shorted", "settle", "store"} => msg.id <= netSendCount
  /\ \A n \in inflight : n <= netSendCount
  /\ \A i \in DOMAIN inbox : inbox[i].id <= netSendCount

\* A caller of sendRegRequest is never throttled for ever, whatever answers are lost
\* or damaged: the handler gives up on them.  Only a caller that has read a limit of 0
\* stays until shutdown: it keeps its copy even when the operator sets another limit.
SenderProgress ==
  \A s \in Senders : (pc[s] = "lock" /\ (sendMax[s] # 0 \/ shuttingDown)) ~> pc[s] = "idle"

\* The wait for answers always ends, even when they never come, as long as the
\* handler thread runs.
WaitEnds == netWaiting > 0 ~> (netWaiting = 0 \/ shuttingDown)

\* shutdown() makes the handler thread leave its loop.
HandlerExits == shuttingDown ~> hpc = "exited"

\* With one request at a time the engine is stop-and-wait.
Busy == netWaiting > 0 \/ \E s \in Senders : pc[s] \in {"load", "store"}
Abstract == INSTANCE StopAndWait WITH count <- netSendCount, busy <- Busy
StopAndWaitSpec == Abstract!Spec
================================================================================
