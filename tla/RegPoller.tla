------------------------------ MODULE RegPoller ------------------------------
(***************************************************************************)
(* The register poller of leepDrv (regPoller, gunbLlrfApp/src/leepDrv.cpp) *)
(* and the thread that writes RUN_STOP and POLL_PERIOD.                    *)
(*                                                                         *)
(* The poller waits for pollEvent_, with a timeout while it runs.  The     *)
(* wait returns true for an event; the code stores that in a bool and      *)
(* compares it with epicsEventWaitOK, which is 0, so it treats a timeout   *)
(* as an event and an event as a timeout.  A start signals the event       *)
(* before it stores RUN_STOP; a new period signals nobody.                 *)
(***************************************************************************)
EXTENDS Naturals

CONSTANT MaxSets    \* bound of the model: settings written by the operator

ASSUME PollerAssumption == MaxSets \in Nat

VARIABLES
  wakes,        \* wakeupPoller calls of the constructors so far
  running,      \* RUN_STOP is run
  periodic,     \* POLL_PERIOD is not 0
  pollEvent,    \* pollEvent_ is full
  poller,       \* where regPoller is
  writing,      \* the RUN_STOP being written, between the signal and the store
  closing,      \* isShuttingDown_
  sets,
  sinceStop,    \* history: polls sent since RUN_STOP was stored, while it is stop
  missed        \* history: the poller cannot know that it is to run

pollSettings == <<running, periodic, writing>>
pollerVars == <<wakes, pollSettings, pollEvent, poller, closing, sets, sinceStop, missed>>

PollerTypeOK ==
  /\ wakes \in 0 .. 2
  /\ running \in BOOLEAN /\ periodic \in BOOLEAN /\ pollEvent \in BOOLEAN
  /\ poller \in {"created", "top", "timed", "untimed", "poll", "exited"}
  /\ writing \in {"nothing", "run", "stop"}
  /\ closing \in BOOLEAN /\ missed \in BOOLEAN
  /\ sets \in 0 .. MaxSets /\ sinceStop \in Nat

PollerInit ==
  /\ wakes = 0 /\ running = FALSE /\ periodic = TRUE /\ writing = "nothing"
  /\ pollEvent = FALSE /\ poller = "created" /\ closing = FALSE
  /\ sets = 0 /\ sinceStop = 0 /\ missed = FALSE

--------------------------------------------------------------------------------
(* regPoller *)

\* The first wait, until a derived class' constructor is through.
PollerCreated ==
  /\ poller = "created" /\ pollEvent
  /\ pollEvent' = FALSE /\ poller' = "top"
  /\ UNCHANGED <<wakes, pollSettings, closing, sets, sinceStop, missed>>

RunsAlways == periodic      \* mutant: RUN_STOP is not looked at
RunsTimed == running /\ periodic

\* Top of the loop: the settings decide how to wait.  A start that has signalled
\* and not yet stored is not seen.
PollerTop ==
  /\ poller = "top"
  /\ poller' = IF RunsTimed THEN "timed" ELSE "untimed"
  /\ missed' = (~RunsTimed /\ writing = "run" /\ ~pollEvent)
  /\ UNCHANGED <<wakes, pollSettings, pollEvent, closing, sets, sinceStop>>

Leaves(then) == poller' = IF closing THEN "exited" ELSE then

\* The timed wait returns with the event: RUN_STOP is looked at again.
PollerSignalled ==
  /\ poller = "timed" /\ pollEvent /\ pollEvent' = FALSE
  /\ Leaves(IF running THEN "poll" ELSE "top")
  /\ UNCHANGED <<wakes, pollSettings, closing, sets, sinceStop, missed>>

\* ... or after the period: it is not.
PollerTimesOut ==
  /\ poller = "timed" /\ ~pollEvent
  /\ Leaves("poll")
  /\ UNCHANGED <<wakes, pollSettings, pollEvent, closing, sets, sinceStop, missed>>

\* Without a timeout only the event wakes the poller.
PollerWoken ==
  /\ poller = "untimed" /\ pollEvent /\ pollEvent' = FALSE
  /\ Leaves("poll")
  /\ missed' = FALSE
  /\ UNCHANGED <<wakes, pollSettings, closing, sets, sinceStop>>

\* sendBigBuffer
SendPoll ==
  /\ poller = "poll" /\ poller' = "top"
  /\ sinceStop' = IF running \/ writing = "run" THEN 0 ELSE sinceStop + 1
  /\ UNCHANGED <<wakes, pollSettings, pollEvent, closing, sets, missed>>

PollerThread == PollerCreated \/ PollerTop \/ PollerSignalled \/ PollerTimesOut \/ PollerWoken \/ SendPoll

--------------------------------------------------------------------------------
(* The constructors, the operator and the exit of the program *)

\* The generated driver's constructor and the derived one's each wake the poller,
\* seconds apart.
ConstructorWakes ==
  /\ wakes < 2 /\ wakes' = wakes + 1
  /\ wakes = 1 => poller # "created"
  /\ pollEvent' = TRUE
  /\ UNCHANGED <<pollSettings, poller, closing, sets, sinceStop, missed>>

SetSomething == wakes = 2 /\ sets < MaxSets /\ sets' = sets + 1

\* Mutant: a start does not signal.
WriteRunStopSilent ==
  /\ SetSomething /\ writing = "nothing" /\ ~closing
  /\ writing' \in {"run", "stop"}
  /\ UNCHANGED <<wakes, running, periodic, pollEvent, poller, closing, sinceStop, missed>>

\* writeInt32 for RUN_STOP: a start signals the poller ...
WriteRunStop ==
  /\ SetSomething /\ writing = "nothing" /\ ~closing
  /\ \/ writing' = "run" /\ pollEvent' = TRUE
     \/ writing' = "stop" /\ UNCHANGED pollEvent
  /\ UNCHANGED <<wakes, running, periodic, poller, closing, sinceStop, missed>>

\* ... and stores the value at the end.
StoreRunStop ==
  /\ writing # "nothing" /\ writing' = "nothing"
  /\ running' = (writing = "run")
  /\ sinceStop' = 0
  /\ UNCHANGED <<wakes, periodic, pollEvent, poller, closing, sets, missed>>

WritePeriod ==
  /\ SetSomething /\ writing = "nothing"
  /\ periodic' = ~periodic
  /\ missed' = (missed \/ (running /\ ~periodic /\ poller = "untimed" /\ ~pollEvent))
  /\ UNCHANGED <<wakes, running, writing, pollEvent, poller, closing, sinceStop>>

\* Mutant: the poller is not woken.
ShutdownPollerSilent ==
  /\ wakes = 2 /\ ~closing /\ closing' = TRUE
  /\ UNCHANGED <<wakes, pollSettings, pollEvent, poller, sets, sinceStop, missed>>

ShutdownPoller ==
  /\ wakes = 2 /\ ~closing /\ closing' = TRUE
  /\ pollEvent' = TRUE
  /\ UNCHANGED <<wakes, pollSettings, poller, sets, sinceStop, missed>>

PollerNext ==
  \/ PollerThread \/ ConstructorWakes \/ WriteRunStop \/ StoreRunStop
  \/ WritePeriod \/ ShutdownPoller

PollerSpec == PollerInit /\ [][PollerNext]_pollerVars

--------------------------------------------------------------------------------
(* Properties *)

\* After a stop at most two polls go out: one that was on its way, and one for a
\* start that was signalled before and that the poller has not yet noticed.
StopsPolling == sinceStop <= 2

\* While it is to run, and knows it, the poller keeps polling.
KeepsPolling ==
  <>[](running /\ periodic /\ ~missed /\ ~closing) => []<>(poller = "poll")

\* shutdown() makes the poller leave, even if it was never set to run.
PollerExits == closing ~> poller = "exited"
================================================================================
