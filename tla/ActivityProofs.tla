----------------------------- MODULE ActivityProofs -----------------------------
(***************************************************************************)
(* Theorems about the loops that run on their own, and about all of them   *)
(* together (MCActivities).  RegPoller: a stopped poller stops, however    *)
(* the settings are changed and whenever the program ends.  PVramp: for    *)
(* any PVs, targets, numbers of steps and rounding the ramp stays on its   *)
(* line, and an abort that stays pressed ends it.  CenterCw: on any plant, *)
(* with any readings, the search goes no further than the amplitude falls, *)
(* and with readings of a plant that stands still it never gets worse.     *)
(* Segments: what the cuts do to messages of every length.  WaveScale: for *)
(* registers of any width the scale is for the period the FPGA has.        *)
(***************************************************************************)
EXTENDS MCActivities, MonitorProofs, ChannelMapProofs, NatLemmas

--------------------------------------------------------------------------------
(* RegPoller *)

\* While RUN_STOP is stop, the polls that may still go out leave room for them: the
\* one in progress, one after a timeout, one for an event that was set before.  An
\* event is consumed by a timed wait without a poll, and by nobody once the driver
\* shuts down.
Room ==
  /\ poller = "poll" => sinceStop <= 1
  /\ (poller = "poll" /\ pollEvent /\ ~closing) => sinceStop = 0
  /\ (poller = "timed" /\ ~pollEvent /\ ~closing) => sinceStop <= 1
  /\ (poller \in {"created", "top", "untimed"} /\ pollEvent /\ ~closing) => sinceStop <= 1

\* Until the constructors are through, the poller has sent nothing.
Constructing ==
  wakes < 2 =>
    /\ ~running /\ writing = "nothing" /\ ~closing /\ sinceStop = 0
    /\ poller \in {"created", "top", "untimed"}
    /\ pollEvent => poller = "created"
    /\ wakes = 0 => poller = "created" /\ ~pollEvent

PollInv ==
  /\ PollerTypeOK
  /\ Constructing
  /\ poller = "created" => wakes < 2
  /\ sinceStop <= 2
  /\ (~running /\ writing # "run") => Room

LEMMA PollInvInit == PollerInit => PollInv
<1> SUFFICES ASSUME PollerInit PROVE PollInv
    OBVIOUS
<1>1. PollerTypeOK
      <2>1. sets \in 0 .. MaxSets /\ wakes \in 0 .. 2 /\ sinceStop \in Nat
            BY PollerAssumption DEF PollerInit
      <2> QED
          BY <2>1 DEF PollerInit, PollerTypeOK
<1>2. Constructing /\ Room
      BY DEF PollerInit, Constructing, Room
<1>3. sinceStop <= 2 /\ wakes < 2
      BY DEF PollerInit
<1> QED
    BY <1>1, <1>2, <1>3 DEF PollInv

LEMMA PollInvNext == PollInv /\ [PollerNext]_pollerVars => PollInv'
<1> SUFFICES ASSUME PollInv, [PollerNext]_pollerVars PROVE PollInv'
    OBVIOUS
<1> USE PollerAssumption DEF PollInv, PollerTypeOK, Constructing, Room, pollSettings
<1>1. CASE PollerCreated
      BY <1>1 DEF PollerCreated
<1>2. CASE PollerTop
      BY <1>2 DEF PollerTop, RunsTimed
<1>3. CASE PollerSignalled
      BY <1>3 DEF PollerSignalled, Leaves
<1>4. CASE PollerTimesOut
      BY <1>4 DEF PollerTimesOut, Leaves
<1>5. CASE PollerWoken
      BY <1>5 DEF PollerWoken, Leaves
<1>6. CASE SendPoll
      BY <1>6 DEF SendPoll
<1>7. CASE ConstructorWakes
      BY <1>7 DEF ConstructorWakes
<1>8. CASE WriteRunStop
      <2>1. sets' \in 0 .. MaxSets
            BY <1>8 DEF WriteRunStop, SetSomething
      <2>2. CASE writing' = "run" /\ pollEvent' = TRUE
            BY <1>8, <2>1, <2>2 DEF WriteRunStop, SetSomething
      <2>3. CASE writing' = "stop" /\ UNCHANGED pollEvent
            BY <1>8, <2>1, <2>3 DEF WriteRunStop, SetSomething
      <2> QED
          BY <1>8, <2>2, <2>3 DEF WriteRunStop
<1>9. CASE StoreRunStop
      BY <1>9 DEF StoreRunStop
<1>10. CASE WritePeriod
      BY <1>10 DEF WritePeriod, SetSomething
<1>11. CASE ShutdownPoller
      BY <1>11 DEF ShutdownPoller
<1>12. CASE UNCHANGED pollerVars
      BY <1>12 DEF pollerVars
<1> QED
    BY <1>1, <1>2, <1>3, <1>4, <1>5, <1>6, <1>7, <1>8, <1>9, <1>10, <1>11, <1>12
    DEF PollerNext, PollerThread

\* A stop is followed by at most two polls (regPoller), for any number of changes of
\* the settings.
THEOREM StopStopsPolling == PollerSpec => []StopsPolling
<1>1. PollInv => StopsPolling
      BY DEF PollInv, StopsPolling
<1> QED
    BY PollInvInit, PollInvNext, <1>1, PTL DEF PollerSpec

\* The types of the poller.
LEMMA PollerTypesKept == PollerSpec => []PollerTypeOK
<1>1. PollInv => PollerTypeOK
      BY DEF PollInv
<1> QED
    BY PollInvInit, PollInvNext, <1>1, PTL DEF PollerSpec

--------------------------------------------------------------------------------
(* PVramp *)

RampTypes ==
  /\ value \in [PVs -> Int] /\ name \in PVs /\ assigned \in PVs
  /\ ramp \in [pv : Int, from : Int, to : Int, inc : Int, steps : Nat]
  /\ counter \in Nat /\ presses \in Nat

\* As long as it is alone the program knows what it has put, and so the PV follows the
\* line with the double the steps are added to.
Ramping ==
  (state \in UnderWay /\ alone) =>
    /\ connected /\ ramp.pv = value[assigned]
    /\ counter <= ramp.steps /\ (state = "step" => counter < ramp.steps)
    /\ -(counter * Rounding) <= ramp.pv - (ramp.from + counter * ramp.inc)
    /\ ramp.pv - (ramp.from + counter * ramp.inc) <= counter * Rounding

RampInv == RampTypes /\ Ramping

\* One step more adds one increment and its rounding.
LEMMA OneStepMore ==
  ASSUME NEW c \in Nat, NEW x \in Int
  PROVE  (c + 1) * x = c * x + x /\ c * x \in Int
  OBVIOUS

LEMMA RampInvInit == RampInit => RampInv
  BY RampAssumption DEF RampInit, RampInv, RampTypes, Ramping, UnderWay

LEMMA RampInvStep == RampInv /\ [RampNext]_pvRampVars => RampInv'
<1> SUFFICES ASSUME RampInv, [RampNext]_pvRampVars
             PROVE  RampInv'
  OBVIOUS
<1>0. RampTypes /\ Ramping /\ Rounding \in Nat /\ Targets \subseteq Int /\ Steps \subseteq Nat
  BY RampAssumption DEF RampInv
<1>1. CASE Go \/ NewName \/ NotConnected \/ AbortRamp
  BY <1>0, <1>1 DEF Go, NewName, NotConnected, AbortRamp, RampWaitEntry, rampVars, RampInv, RampTypes, Ramping, UnderWay
<1>2. CASE Ready
  <2>1. PICK to \in Targets, n \in Steps :
          ramp' = [pv |-> value[assigned], from |-> value[assigned], to |-> to, steps |-> n,
                   inc |-> IF n = 0 THEN 0 ELSE (to - value[assigned]) \div n]
    BY <1>2 DEF Ready
  <2>2. /\ UNCHANGED <<value, connected, name, assigned, presses>>
        /\ connected /\ counter' = 0 /\ state' = "ramp"
    BY <1>2 DEF Ready
  <2>3. value[assigned] \in Int /\ to \in Int /\ n \in Nat
    BY <1>0 DEF RampTypes
  <2>4. (IF n = 0 THEN 0 ELSE (to - value[assigned]) \div n) \in Int
    BY <2>3
  <2>5. RampTypes'
    BY <1>0, <2>1, <2>2, <2>3, <2>4 DEF RampTypes
  <2>6. /\ ramp'.pv = value[assigned] /\ ramp'.from = value[assigned] /\ ramp'.steps = n
        /\ ramp'.inc \in Int
    BY <2>1, <2>4
  <2>7. 0 * ramp'.inc = 0 /\ 0 * Rounding = 0
    BY <1>0, <2>6
  <2>8. Ramping'
    BY <2>2, <2>3, <2>6, <2>7 DEF Ramping, UnderWay
  <2> QED
    BY <2>5, <2>8 DEF RampInv
<1>3. CASE Finish
  <2>1. /\ state' = "wait" /\ ramp' = [ramp EXCEPT !.pv = ramp.to] /\ counter' = counter + 1
        /\ value' = [value EXCEPT ![assigned] = ramp.to] \/ value' = value
        /\ UNCHANGED <<name, assigned, presses>>
    BY <1>3 DEF Finish, RampWaitEntry, Put
  <2> QED
    BY <1>0, <2>1 DEF RampInv, RampTypes, Ramping, UnderWay
<1>4. CASE Step
  <2>1. PICK e \in -Rounding .. Rounding :
          /\ ramp' = [ramp EXCEPT !.pv = ramp.pv + ramp.inc + e]
          /\ value' = IF connected THEN [value EXCEPT ![assigned] = ramp.pv + ramp.inc + e] ELSE value
    BY <1>4 DEF Step, Put
  <2>2. /\ counter' = counter + 1 /\ state = "step" /\ state' = "ramp"
        /\ UNCHANGED <<connected, name, assigned, presses, alone>>
    BY <1>4 DEF Step
  <2>3. /\ ramp.pv \in Int /\ ramp.inc \in Int /\ ramp.from \in Int /\ ramp.steps \in Nat
        /\ e \in Int /\ counter \in Nat
    BY <1>0 DEF RampTypes
  <2>4. ramp.pv + ramp.inc + e \in Int
    BY <2>3
  <2>5. RampTypes'
    BY <1>0, <2>1, <2>2, <2>3, <2>4 DEF RampTypes
  <2>6. ASSUME alone
        PROVE  /\ connected' /\ ramp'.pv = value'[assigned] /\ counter + 1 <= ramp'.steps
               /\ -((counter + 1) * Rounding) <= ramp'.pv - (ramp'.from + (counter + 1) * ramp'.inc)
               /\ ramp'.pv - (ramp'.from + (counter + 1) * ramp'.inc) <= (counter + 1) * Rounding
    <3>1. /\ connected /\ counter < ramp.steps /\ -(counter * Rounding) <= ramp.pv - (ramp.from + counter * ramp.inc)
          /\ ramp.pv - (ramp.from + counter * ramp.inc) <= counter * Rounding
      BY <1>0, <2>2, <2>6 DEF Ramping, UnderWay
    <3>2. /\ ramp'.pv = ramp.pv + ramp.inc + e /\ ramp'.from = ramp.from /\ ramp'.inc = ramp.inc
          /\ ramp'.steps = ramp.steps /\ value'[assigned] = ramp.pv + ramp.inc + e
      BY <1>0, <2>1, <3>1 DEF RampTypes
    <3>3. /\ (counter + 1) * ramp.inc = counter * ramp.inc + ramp.inc /\ counter * ramp.inc \in Int
          /\ (counter + 1) * Rounding = counter * Rounding + Rounding /\ counter * Rounding \in Int
      BY <1>0, <2>3, OneStepMore
    <3> QED
      BY <1>0, <2>2, <2>3, <3>1, <3>2, <3>3
  <2>7. Ramping'
    BY <2>2, <2>6 DEF Ramping, UnderWay
  <2> QED
    BY <2>5, <2>7 DEF RampInv
<1>5. CASE WriteOther
  <2>1. PICK p \in PVs, t \in Targets : value' = [value EXCEPT ![p] = t] /\ alone' = (alone /\ p # assigned)
    BY <1>5 DEF WriteOther
  <2>2. presses' = presses + 1 /\ UNCHANGED <<connected, name, assigned, state, rampVars>>
    BY <1>5 DEF WriteOther, Press
  <2>3. alone' => alone /\ value'[assigned] = value[assigned]
    BY <1>0, <2>1 DEF RampTypes
  <2>4. RampTypes'
    BY <1>0, <2>1, <2>2 DEF RampTypes, rampVars
  <2>5. Ramping'
    BY <1>0, <2>2, <2>3 DEF Ramping, rampVars
  <2> QED
    BY <2>4, <2>5 DEF RampInv
<1>6. CASE PressButton \/ ChangeName \/ Connect \/ Disconnect
  <2>1. /\ name' \in PVs /\ presses' \in Nat
        /\ UNCHANGED <<value, assigned, state, rampVars>>
        /\ alone' = FALSE \/ (alone' = alone /\ (connected => connected'))
    BY <1>0, <1>6 DEF PressButton, ChangeName, Connect, Disconnect, Press, RampTypes
  <2> QED
    BY <1>0, <2>1 DEF RampInv, RampTypes, Ramping, rampVars
<1>7. CASE Decide
  <2>1. /\ state = "ramp" /\ state' = IF Done THEN "finish" ELSE "step"
        /\ UNCHANGED <<value, connected, name, assigned, rampVars, presses, alone>>
    BY <1>7 DEF Decide
  <2>2. counter \in Nat /\ ramp.steps \in Nat
    BY <1>0 DEF RampTypes
  <2> QED
    BY <1>0, <2>1, <2>2 DEF RampInv, RampTypes, Ramping, UnderWay, Done, rampVars
<1>8. CASE UNCHANGED pvRampVars
  BY <1>0, <1>8 DEF RampInv, RampTypes, Ramping, rampVars, pvRampVars
<1> QED
  BY <1>1, <1>2, <1>3, <1>4, <1>5, <1>6, <1>7, <1>8 DEF RampNext, RampProgram

\* Whatever the operator presses, whoever else writes and however often the PV
\* disconnects, an undisturbed ramp is on its line and makes no step too many.
THEOREM RampsOnTheLine == RampSpec => []OnTheWay
<1>1. RampInv => OnTheWay
  <2> SUFFICES ASSUME RampInv, state \in UnderWay, alone
               PROVE  /\ counter <= ramp.steps
                      /\ \E e \in -(counter * Rounding) .. counter * Rounding :
                           value[assigned] = ramp.from + counter * ramp.inc + e
    BY DEF OnTheWay
  <2> DEFINE e == ramp.pv - (ramp.from + counter * ramp.inc)
  <2>1. /\ ramp.pv \in Int /\ ramp.from \in Int /\ counter * ramp.inc \in Int /\ counter * Rounding \in Int
    BY RampAssumption, OneStepMore DEF RampInv, RampTypes
  <2>2. e \in -(counter * Rounding) .. counter * Rounding /\ value[assigned] = ramp.from + counter * ramp.inc + e
    BY <2>1 DEF RampInv, Ramping
  <2> QED
    BY <2>2 DEF RampInv, Ramping
<1> QED
  BY <1>1, RampInvInit, RampInvStep, PTL DEF RampSpec

\* An abort that stays pressed ends the ramp, whenever it is pressed: what is still put
\* was decided before.
THEOREM AbortEndsRamps == RampSpec => []AbortStops
<1>1. RampInit => AbortStops
  BY DEF RampInit, AbortStops
<1>2. AbortStops /\ [RampNext]_pvRampVars => AbortStops'
  <2> SUFFICES ASSUME AbortStops, [RampNext]_pvRampVars PROVE AbortStops'
    OBVIOUS
  <2> USE DEF AbortStops
  <2>1. CASE Go \/ Ready
    BY <2>1 DEF Go, Ready
  <2>2. CASE NewName
    BY <2>2 DEF NewName
  <2>3. CASE NotConnected \/ AbortRamp \/ Finish
    BY <2>3 DEF NotConnected, AbortRamp, Finish, RampWaitEntry
  <2>4. CASE Decide
    BY <2>4 DEF Decide, buttons
  <2>5. CASE Step
    BY <2>5 DEF Step
  <2>6. CASE PressButton
    BY <2>6 DEF PressButton
  <2>7. CASE ChangeName \/ WriteOther \/ Connect \/ Disconnect
    BY <2>7 DEF ChangeName, WriteOther, Connect, Disconnect, buttons
  <2>8. CASE UNCHANGED pvRampVars
    BY <2>8 DEF pvRampVars, buttons
  <2> QED
    BY <2>1, <2>2, <2>3, <2>4, <2>5, <2>6, <2>7, <2>8 DEF RampNext, RampProgram
<1> QED
  BY <1>1, <1>2, PTL DEF RampSpec

\* What the theorems on the line do not need: the switches and the limits.
RampFlags ==
  /\ connected \in BOOLEAN /\ alone \in BOOLEAN /\ nameChange \in BOOLEAN
  /\ go \in BOOLEAN /\ abort \in BOOLEAN
  /\ state \in {"wait", "ready_ramp"} \cup UnderWay

RampLimits ==
  /\ ramp.to \in Targets /\ ramp.steps \in Steps
  /\ presses \in 0 .. MaxPresses /\ sinceAbort \in Nat

\* The flags of the ramp stay flags ...
LEMMA RampFlagsStep == RampFlags /\ [RampNext]_pvRampVars => RampFlags'
<1> SUFFICES ASSUME RampFlags, [RampNext]_pvRampVars PROVE RampFlags'
  OBVIOUS
<1> USE DEF RampFlags, buttons, UnderWay
<1>1. CASE Go \/ NewName \/ NotConnected \/ AbortRamp \/ Finish
  BY <1>1 DEF Go, NewName, NotConnected, AbortRamp, Finish, RampWaitEntry
<1>2. CASE Ready \/ Decide \/ Step
  BY <1>2 DEF Ready, Decide, Step
<1>3. CASE PressButton
  <2>1. go' \in BOOLEAN /\ abort' \in BOOLEAN
    BY <1>3, Zenon DEF PressButton
  <2> QED
    BY <1>3, <2>1 DEF PressButton
<1>4. CASE ChangeName \/ Connect \/ Disconnect
  BY <1>4 DEF ChangeName, Connect, Disconnect
<1>5. CASE WriteOther
  <2>1. alone' \in BOOLEAN
    BY <1>5, Zenon DEF WriteOther
  <2> QED
    BY <1>5, <2>1 DEF WriteOther
<1>6. CASE UNCHANGED pvRampVars
  BY <1>6 DEF pvRampVars
<1> QED
  BY <1>1, <1>2, <1>3, <1>4, <1>5, <1>6 DEF RampNext, RampProgram

\* ... and its counters below their bounds.
LEMMA RampLimitsStep == RampInv /\ RampLimits /\ [RampNext]_pvRampVars => RampLimits'
<1> SUFFICES ASSUME RampInv, RampLimits, [RampNext]_pvRampVars PROVE RampLimits'
  OBVIOUS
<1>0. ramp \in [pv : Int, from : Int, to : Int, inc : Int, steps : Nat] /\ MaxPresses \in Nat
  BY RampAssumption DEF RampInv, RampTypes
<1>1. CASE Go \/ NewName \/ NotConnected \/ AbortRamp \/ Decide
  <2>1. UNCHANGED <<presses>> /\ ramp' = ramp /\ sinceAbort' \in {0, sinceAbort}
    BY <1>1 DEF Go, NewName, NotConnected, AbortRamp, Decide, RampWaitEntry, rampVars
  <2> QED
    BY <2>1 DEF RampLimits
<1>2. CASE Ready
  <2>1. ramp'.to \in Targets /\ ramp'.steps \in Steps /\ UNCHANGED <<presses, sinceAbort>>
    BY <1>2 DEF Ready
  <2> QED
    BY <2>1 DEF RampLimits
<1>3. CASE Finish \/ Step
  <2>1. /\ UNCHANGED presses /\ \E v : ramp' = [ramp EXCEPT !.pv = v]
        /\ sinceAbort' \in {0, sinceAbort + 1}
    BY <1>3 DEF Finish, Step, RampWaitEntry
  <2>2. ramp'.to = ramp.to /\ ramp'.steps = ramp.steps
    BY <1>0, <2>1
  <2> QED
    BY <2>1, <2>2 DEF RampLimits
<1>4. CASE PressButton \/ ChangeName \/ WriteOther \/ Connect \/ Disconnect
  <2>1. UNCHANGED ramp /\ (Press \/ UNCHANGED presses) /\ sinceAbort' \in {0, sinceAbort}
    BY <1>4 DEF PressButton, ChangeName, WriteOther, Connect, Disconnect, rampVars
  <2> QED
    BY <1>0, <2>1 DEF RampLimits, Press
<1>5. CASE UNCHANGED pvRampVars
  BY <1>5 DEF RampLimits, pvRampVars, rampVars
<1> QED
  BY <1>1, <1>2, <1>3, <1>4, <1>5 DEF RampNext, RampProgram

\* The program's doubles stay numbers and its target one that was set, whatever is
\* written, connected and assigned.
LEMMA RampTypesKept == RampSpec => []RampTypeOK
<1>1. RampInit => RampFlags /\ RampLimits
  <2> SUFFICES ASSUME RampInit PROVE RampFlags /\ RampLimits
    OBVIOUS
  <2>1. RampFlags
    BY DEF RampInit, RampFlags
  <2>2. RampLimits
    BY RampAssumption DEF RampInit, RampLimits
  <2> QED
    BY <2>1, <2>2
<1>2. RampInv /\ RampFlags /\ RampLimits => RampTypeOK
  <2> SUFFICES ASSUME RampInv, RampFlags, RampLimits PROVE RampTypeOK
    OBVIOUS
  <2>1. ramp \in [pv : Int, from : Int, to : Targets, inc : Int, steps : Steps]
    BY DEF RampInv, RampTypes, RampLimits
  <2> QED
    BY <2>1 DEF RampInv, RampTypes, RampFlags, RampLimits, RampTypeOK
<1> QED
  BY <1>1, <1>2, RampInvInit, RampInvStep, RampFlagsStep, RampLimitsStep, PTL DEF RampSpec

--------------------------------------------------------------------------------
(* CenterCw *)

\* Whatever the plant reflects is a number.
LEMMA AmpsAreNumbers ==
  ASSUME amp \in [0 .. Last -> Amps]
  PROVE  Amps \subseteq Nat /\ Full \in Amps /\ \A f : At(f) \in Amps
<1>1. Full \in Amps
  BY CenterAssumption DEF Full
<1> QED
  BY <1>1, CenterAssumption DEF At

\* The search goes to numbers only, with an amplitude it has read or had.
LEMMA BestType ==
  ASSUME pos \in Int, startAmp \in Amps, NEW plus \in Amps, NEW minus \in Amps
  PROVE  Best(plus, minus).at \in Int /\ Best(plus, minus).amp \in Amps
  BY DEF Best, Better, Above, Below

LEMMA CenterTypesInit == CenterInit => CenterTypeOK
<1> SUFFICES ASSUME CenterInit PROVE CenterTypeOK
  OBVIOUS
<1>1. amp \in [0 .. Last -> Amps] /\ freqCtl \in 0 .. Last /\ At(freqCtl) \in Amps
  BY AmpsAreNumbers DEF CenterInit
<1>2. freqCtl \in Int /\ touches \in 0 .. MaxTouches
  BY <1>1, CenterAssumption DEF CenterInit
<1>3. revAmp \in Amps /\ startAmp \in Amps /\ ampPlus \in Amps /\ pos \in Int
  BY <1>1, <1>2 DEF CenterInit
<1>4. {taken, mean} \subseteq [amp : Amps, current : BOOLEAN] /\ begin \in [at : Int, amp : Amps]
  BY <1>1, <1>3 DEF CenterInit
<1> QED
  BY <1>1, <1>2, <1>3, <1>4 DEF CenterInit, CenterTypeOK

LEMMA CenterTypesStep == CenterTypeOK /\ [CenterNext]_centerVars => CenterTypeOK'
<1> SUFFICES ASSUME CenterTypeOK, [CenterNext]_centerVars PROVE CenterTypeOK'
  OBVIOUS
<1>0. /\ MaxTouches \in Nat /\ Amps \subseteq Nat /\ \A f : At(f) \in Amps
      /\ taken \in [amp : Amps, current : BOOLEAN] /\ mean \in [amp : Amps, current : BOOLEAN]
  BY AmpsAreNumbers, CenterAssumption DEF CenterTypeOK
<1>1. Outdated => {taken', mean'} \subseteq [amp : Amps, current : BOOLEAN]
  BY <1>0 DEF Outdated
<1>2. GetRev => revAmp' \in Amps /\ exact' \in BOOLEAN
  BY <1>0 DEF GetRev, CenterTypeOK
<1>3. CASE Update
  BY <1>2, <1>3 DEF Update, CenterTypeOK, feed, switches, search
<1>4. CASE Enabled
  BY <1>4 DEF Enabled, CenterTypeOK, feed
<1>5. CASE Disabled \/ AbortSearch \/ Found
  BY <1>5 DEF Disabled, AbortSearch, Found, CenterWaitEntry, CenterTypeOK, feed, search, marks
<1>6. CASE BeginSearch
  <2>1. begin' \in [at : Int, amp : Amps] /\ pos' \in Int
    BY <1>6 DEF BeginSearch, DetEntry, CenterTypeOK
  <2> QED
    BY <1>6, <2>1 DEF BeginSearch, DetEntry, CenterTypeOK, feed, switches
<1>7. CASE TryHigh
  BY <1>1, <1>7 DEF TryHigh, PutFreq, CenterTypeOK, switches, search, marks
<1>8. CASE TryLow
  BY <1>1, <1>2, <1>8 DEF TryLow, PutFreq, CenterTypeOK, switches
<1>9. CASE Move
  <2>1. /\ revAmp' \in Amps /\ exact' \in BOOLEAN
        /\ freqCtl' = Best(ampPlus, revAmp').at /\ startAmp' = Best(ampPlus, revAmp').amp
        /\ {taken', mean'} \subseteq [amp : Amps, current : BOOLEAN]
        /\ det' = "det" /\ pos' = freqCtl' /\ monitored' = FALSE
        /\ UNCHANGED <<amp, switches, ampPlus, touches, begin>>
    BY <1>1, <1>2, <1>9 DEF Move, PutFreq, DetEntry
  <2>2. freqCtl' \in Int /\ startAmp' \in Amps
    BY <2>1, BestType DEF CenterTypeOK
  <2> QED
    BY <2>1, <2>2 DEF CenterTypeOK, switches
<1>10. CASE Capture
  BY <1>0, <1>10 DEF Capture, CenterTypeOK, switches, search, marks
<1>11. CASE PublishMean
  BY <1>0, <1>11 DEF PublishMean, CenterTypeOK, switches, search, marks
<1>12. CASE Switch
  <2>1. enable' \in BOOLEAN /\ tuneGo' \in BOOLEAN /\ tuneAbort' \in BOOLEAN
    BY <1>12, Zenon DEF Switch, CenterTypeOK
  <2>2. touches' \in 0 .. MaxTouches
    BY <1>0, <1>12 DEF Switch, Touch, CenterTypeOK
  <2> QED
    BY <1>12, <2>1, <2>2 DEF Switch, CenterTypeOK, feed, search
<1>13. CASE Drift
  <2>1. amp' \in [0 .. Last -> Amps] /\ touches' \in 0 .. MaxTouches
    BY <1>0, <1>13 DEF Drift, Touch, CenterTypeOK
  <2> QED
    BY <1>1, <1>13, <2>1 DEF Drift, CenterTypeOK, switches, search
<1>14. CASE UNCHANGED centerVars
  BY <1>14 DEF CenterTypeOK, centerVars, feed, switches, search, marks
<1> QED
  BY <1>3, <1>4, <1>5, <1>6, <1>7, <1>8, <1>9, <1>10, <1>11, <1>12, <1>13, <1>14
  DEF CenterNext, CenterProgram

\* The types of the search.
LEMMA CenterTypesKept == CenterSpec => []CenterTypeOK
BY CenterTypesInit, CenterTypesStep, PTL DEF CenterSpec

\* On any plant, however it drifts and whatever the record shows: a move is paid for by
\* the amplitude, so the search ends within as many increments as that has levels.
THEOREM SearchEnds == CenterSpec => []MovesPay
<1>1. CenterInit => MovesPay
  BY DEF CenterInit, MovesPay, Searching
<1>2. CenterTypeOK /\ MovesPay /\ [CenterNext]_centerVars => MovesPay'
  <2> SUFFICES ASSUME CenterTypeOK, MovesPay, [CenterNext]_centerVars PROVE MovesPay'
    OBVIOUS
  <2>0. /\ pos \in Int /\ startAmp \in Nat /\ ampPlus \in Nat /\ mean.amp \in Nat
        /\ begin.at \in Int /\ begin.amp \in Nat
    BY AmpsAreNumbers DEF CenterTypeOK
  <2>1. CASE BeginSearch
    <3>1. pos' = freqCtl /\ begin' = [at |-> freqCtl, amp |-> startAmp] /\ startAmp' = startAmp /\ freqCtl \in Int
      BY <2>1 DEF BeginSearch, DetEntry, CenterTypeOK
    <3> QED
      BY <2>0, <3>1 DEF MovesPay, Distance
  <2>2. CASE Move
    <3> DEFINE best == Best(ampPlus, mean.amp)
    <3>1. pos' = best.at /\ startAmp' = best.amp /\ begin' = begin /\ det = "move"
      BY <2>2 DEF Move, GetRev, PutFreq, DetEntry
    <3>2. \/ best.at = pos /\ best.amp = startAmp
          \/ best.at \in {pos - 1, pos + 1} /\ best.amp \in Nat /\ best.amp < startAmp
      BY <2>0 DEF Best, Better, Above, Below
    <3>3. Distance(pos, begin.at) + startAmp <= begin.amp
      BY <3>1 DEF MovesPay, Searching
    <3> HIDE DEF best
    <3>4. Distance(best.at, begin.at) + best.amp <= begin.amp
      BY <2>0, <3>2, <3>3 DEF Distance
    <3> QED
      BY <3>1, <3>4 DEF MovesPay
  <2>3. CASE TryHigh
    BY <2>3 DEF TryHigh, MovesPay, Searching, search, marks
  <2>4. CASE TryLow
    BY <2>4 DEF TryLow, MovesPay, Searching
  <2>5. CASE Enabled \/ Disabled \/ AbortSearch \/ Found
    BY <2>5 DEF Enabled, Disabled, AbortSearch, Found, CenterWaitEntry, MovesPay, Searching
  <2>6. CASE Update \/ Capture \/ PublishMean \/ Switch \/ Drift \/ UNCHANGED centerVars
    BY <2>6 DEF Update, Capture, PublishMean, Switch, Drift, centerVars, MovesPay, Searching, search, marks
  <2> QED
    BY <2>1, <2>2, <2>3, <2>4, <2>5, <2>6 DEF CenterNext, CenterProgram
<1> QED
  BY <1>1, <1>2, CenterTypesKept, PTL DEF CenterSpec

\* What is known of the record, always, and of the search as long as it is exact:
\* startAmp is what the plant reflects at the center, each reading is of where the
\* frequency was put, and the last one is no less than what is reflected at the center.
Centered ==
  /\ taken.current => taken.amp = At(freqCtl)
  /\ mean.current => mean.amp = At(freqCtl)
  /\ Searching => ~monitored
  /\ (exact /\ det = "ready_det") => pos = freqCtl /\ revAmp = At(freqCtl) /\ startAmp = At(pos)
  /\ (exact /\ Searching) => startAmp = At(pos) /\ At(pos) <= At(begin.at)
  /\ (exact /\ det = "det") => At(pos) <= revAmp
  /\ det = "tryLow" => freqCtl = pos + 1
  /\ det = "move" => freqCtl = pos - 1 /\ (exact => ampPlus = At(pos + 1))

CenterInv == CenterTypeOK /\ Centered

LEMMA CenteredInit == CenterInit => Centered
  BY DEF CenterInit, Centered, Searching

LEMMA CenteredStep == CenterInv /\ [CenterNext]_centerVars => Centered'
<1> SUFFICES ASSUME CenterInv, [CenterNext]_centerVars
             PROVE  Centered'
  OBVIOUS
<1>0. /\ Centered /\ Amps \subseteq Nat /\ \A f : At(f) \in Nat
      /\ taken \in [amp : Amps, current : BOOLEAN] /\ mean \in [amp : Amps, current : BOOLEAN]
      /\ pos \in Int /\ freqCtl \in Int /\ exact \in BOOLEAN /\ monitored \in BOOLEAN
  BY AmpsAreNumbers DEF CenterInv, CenterTypeOK
<1>1. Outdated => ~taken'.current /\ ~mean'.current
  BY <1>0 DEF Outdated
<1>2. amp' = amp => \A f : At(f)' = At(f)
  BY DEF At
<1>3. CASE Update
  <2>1. /\ monitored /\ revAmp' = mean.amp /\ exact' = (exact /\ mean.current)
        /\ UNCHANGED <<amp, freqCtl, taken, mean, monitored, det, pos, startAmp, ampPlus, begin>>
    BY <1>3 DEF Update, GetRev, feed, search
  <2>2. ~Searching
    BY <1>0, <2>1 DEF Centered
  <2> QED
    BY <1>0, <1>2, <2>1, <2>2 DEF Centered, Searching
<1>4. CASE Enabled
  <2>1. /\ det' = "ready_det" /\ pos' = freqCtl /\ startAmp' = revAmp
        /\ exact' = (revAmp = At(freqCtl))
        /\ UNCHANGED <<amp, freqCtl, taken, mean, revAmp, begin>>
    BY <1>4 DEF Enabled, feed
  <2> QED
    BY <1>0, <1>2, <2>1 DEF Centered, Searching
<1>5. CASE Disabled \/ AbortSearch \/ Found
  <2>1. det' = "wait" /\ UNCHANGED <<amp, freqCtl, taken, mean>>
    BY <1>5 DEF Disabled, AbortSearch, Found, CenterWaitEntry, feed
  <2> QED
    BY <1>0, <1>2, <2>1 DEF Centered, Searching
<1>6. CASE BeginSearch
  <2>1. /\ det = "ready_det" /\ det' = "det" /\ pos' = freqCtl /\ begin'.at = freqCtl /\ monitored' = FALSE
        /\ UNCHANGED <<amp, freqCtl, taken, mean, revAmp, startAmp, exact>>
    BY <1>6 DEF BeginSearch, DetEntry, feed
  <2>2. exact => revAmp = At(freqCtl) /\ startAmp = At(freqCtl) /\ At(freqCtl) \in Nat
    BY <1>0, <2>1 DEF Centered
  <2> QED
    BY <1>0, <1>2, <2>1, <2>2 DEF Centered, Searching
<1>7. CASE TryHigh
  <2>1. /\ det = "det" /\ det' = "tryLow" /\ freqCtl' = pos + 1 /\ ~taken'.current /\ ~mean'.current
        /\ UNCHANGED <<amp, revAmp, monitored, pos, startAmp, ampPlus, exact, begin>>
    BY <1>1, <1>7 DEF TryHigh, PutFreq, search, marks
  <2> QED
    BY <1>0, <1>2, <2>1 DEF Centered, Searching
<1>8. CASE TryLow
  <2>1. /\ det = "tryLow" /\ det' = "move" /\ freqCtl' = pos - 1 /\ ~taken'.current /\ ~mean'.current
        /\ exact' = (exact /\ mean.current) /\ ampPlus' = mean.amp
        /\ UNCHANGED <<amp, monitored, pos, startAmp, begin>>
    BY <1>1, <1>8 DEF TryLow, GetRev, PutFreq
  <2>2. mean.current => ampPlus' = At(pos + 1)
    BY <1>0, <2>1 DEF Centered
  <2> QED
    BY <1>0, <1>2, <2>1, <2>2 DEF Centered, Searching
<1>9. CASE Move
  <2> DEFINE best == Best(ampPlus, mean.amp)
  <2>1. /\ det = "move" /\ det' = "det" /\ revAmp' = mean.amp /\ exact' = (exact /\ mean.current)
        /\ monitored' = FALSE /\ ~taken'.current /\ ~mean'.current
        /\ freqCtl' = best.at /\ startAmp' = best.amp /\ pos' = best.at
        /\ UNCHANGED <<amp, begin>>
    BY <1>1, <1>9 DEF Move, GetRev, PutFreq, DetEntry
  <2>2. ASSUME exact'
        PROVE  /\ best.amp = At(best.at) /\ best.amp <= At(pos) /\ best.amp <= mean.amp
               /\ At(pos) <= At(begin.at)
    <3>1. /\ startAmp = At(pos) /\ ampPlus = At(pos + 1) /\ mean.amp = At(pos - 1)
          /\ At(pos) <= At(begin.at)
      BY <1>0, <2>1, <2>2 DEF Centered, Searching
    <3>2. At(pos) \in Nat /\ At(pos + 1) \in Nat /\ At(pos - 1) \in Nat
      BY <1>0
    <3> QED
      BY <1>0, <3>1, <3>2 DEF Best, Better, Above, Below
  <2>3. exact' => At(best.at) <= At(begin.at)
    <3>1. At(pos) \in Nat /\ At(begin.at) \in Nat /\ At(best.at) \in Nat
      BY <1>0
    <3> QED
      BY <2>2, <3>1
  <2> HIDE DEF best
  <2> QED
    BY <1>2, <2>1, <2>2, <2>3 DEF Centered, Searching
<1>10. CASE Capture \/ PublishMean
  <2>1. UNCHANGED <<amp, freqCtl, revAmp, monitored, det, pos, startAmp, ampPlus, exact, begin>>
    BY <1>10 DEF Capture, PublishMean, search, marks
  <2>2. /\ taken'.current => taken'.amp = At(freqCtl)
        /\ mean'.current => mean'.amp = At(freqCtl)
    BY <1>0, <1>10 DEF Capture, PublishMean, Centered
  <2> QED
    BY <1>0, <1>2, <2>1, <2>2 DEF Centered, Searching
<1>11. CASE Switch
  <2>1. UNCHANGED <<amp, freqCtl, taken, mean, revAmp, monitored, det, pos, startAmp, ampPlus, exact, begin>>
    BY <1>11 DEF Switch, feed, search
  <2> QED
    BY <1>0, <1>2, <2>1 DEF Centered, Searching
<1>12. CASE Drift
  <2>1. /\ exact' = FALSE /\ ~taken'.current /\ ~mean'.current
        /\ UNCHANGED <<freqCtl, monitored, det, pos>>
    BY <1>1, <1>12 DEF Drift, search
  <2> QED
    BY <1>0, <2>1 DEF Centered, Searching
<1>13. CASE UNCHANGED centerVars
  <2>1. UNCHANGED <<amp, freqCtl, taken, mean, revAmp, monitored, det, pos, startAmp, ampPlus, exact, begin>>
    BY <1>13 DEF centerVars, feed, search, marks
  <2> QED
    BY <1>0, <1>2, <2>1 DEF Centered, Searching
<1> QED
  BY <1>3, <1>4, <1>5, <1>6, <1>7, <1>8, <1>9, <1>10, <1>11, <1>12, <1>13
  DEF CenterNext, CenterProgram

\* On every plant, whatever its shape and the limits: as long as it stands still and
\* each reading is of the frequency it is taken for, a search that is aborted at any
\* moment has not made it worse, and the early end is justified.
THEOREM SearchNeverWorse == CenterSpec => []NeverWorse
<1>1. CenterInv => NeverWorse
  <2> SUFFICES ASSUME CenterInv, det = "det", exact
               PROVE  /\ At(pos) <= At(begin.at)
                      /\ (enable /\ ~tuneAbort /\ revAmp < StopLimit) => At(pos) < StopLimit
    BY DEF NeverWorse
  <2>1. At(pos) <= At(begin.at) /\ At(pos) <= revAmp
    BY DEF CenterInv, Centered, Searching
  <2>2. At(pos) \in Nat /\ revAmp \in Nat /\ StopLimit \in Nat
    BY AmpsAreNumbers, CenterAssumption DEF CenterInv, CenterTypeOK
  <2> QED
    BY <2>1, <2>2
<1>2. CenterInit => CenterInv
  BY CenterTypesInit, CenteredInit DEF CenterInv
<1>3. CenterInv /\ [CenterNext]_centerVars => CenterInv'
  BY CenterTypesStep, CenteredStep DEF CenterInv
<1> QED
  BY <1>1, <1>2, <1>3, PTL DEF CenterSpec

--------------------------------------------------------------------------------
(* Segments *)


\* The registers that have gone out behind a nonce with the first n elements.
AskedUpTo(n) == {Element(message.kind, i) : i \in {j \in 0 .. n - 1 : j % Elements # 0}}

\* A packet begins where a nonce is due.
Progress ==
  /\ caller = "sending" =>
       /\ sent % Elements = 0 /\ sent < Size(message)
       /\ ~failed => asked = AskedUpTo(sent)
  /\ (caller = "done" /\ ~failed) =>
       /\ sent = Size(message) /\ (Size(message) - 1) % Elements >= minRegPerMsg - 1
       /\ asked = AskedUpTo(sent)
  /\ caller = "suspended" =>
       (Size(message) - 1) % Elements < minRegPerMsg - 1

SegmentsInv == SegmentsTypeOK /\ Possible(message) /\ Progress

\* The numbers of elements and registers in a packet.
LEMMA Numbers == Elements = 181 /\ maxRegPerMsg = 180
  BY DEF Elements, maxRegPerMsg, maxMsgSize, FpgaRegSize

\* Every message has an element.
LEMMA SizeType ==
  ASSUME NEW m \in [kind : Kinds, regs : Nat \ {0}]
  PROVE  Size(m) \in Nat \ {0}
<1>1. m.regs \in Nat \ {0}
  OBVIOUS
<1>2. WaveSize(m.regs) \in Nat \ {0}
  BY <1>1, Numbers DEF WaveSize
<1>3. PollSize(m.regs) \in Nat \ {0}
  BY <1>1 DEF PollSize, PollSpacing
<1>4. ArraySize(m.regs) \in Nat \ {0}
  BY <1>1, Numbers DEF ArraySize
<1> QED
  BY <1>2, <1>3, <1>4 DEF Size

\* An element of a message is a register or a blank.
LEMMA ElementType ==
  ASSUME NEW k \in Kinds, NEW i \in Nat
  PROVE  Element(k, i) \in Nat
<1>1. \A d \in {175, 181} : i \div d \in Nat /\ i - i \div d \in Nat
  OBVIOUS
<1> QED
  BY <1>1, Numbers DEF Element, Spacing, Blank, PollSpacing

\* A packet that begins where a nonce is due ends with the same remainder everywhere.
LEMMA CutMod ==
  ASSUME NEW s \in Nat, s % Elements = 0, NEW r \in 1 .. Elements
  PROVE  (s + r - 1) % Elements = r - 1 /\ (s + Elements) % Elements = 0
<1>1. s % 181 = 0 => (s + r - 1) % 181 = r - 1 /\ (s + 181) % 181 = 0
  BY Numbers
<1> QED
  BY <1>1, Numbers

\* What one packet adds to the registers asked for.
LEMMA OnePacket ==
  ASSUME message \in [kind : Kinds, regs : Nat \ {0}],
         NEW s \in Nat, s % Elements = 0, NEW p \in 1 .. Elements
  PROVE  AskedUpTo(s) \union {Element(message.kind, s + i) : i \in 1 .. p - 1}
           = AskedUpTo(s + p)
<1>1. \A j \in 0 .. s + p - 1 : (j % Elements # 0 /\ j \notin 0 .. s - 1) <=> j \in s + 1 .. s + p - 1
  <2>1. \A j \in 0 .. s + p - 1 : (j % 181 # 0 /\ j \notin 0 .. s - 1) <=> j \in s + 1 .. s + p - 1
    BY Numbers
  <2> QED
    BY <2>1, Numbers
<1>2. {j \in 0 .. s + p - 1 : j % Elements # 0}
        = {j \in 0 .. s - 1 : j % Elements # 0} \union (s + 1 .. s + p - 1)
  BY <1>1, Numbers
<1>3. {Element(message.kind, s + i) : i \in 1 .. p - 1}
        = {Element(message.kind, i) : i \in s + 1 .. s + p - 1}
  <2>1. ASSUME NEW j \in s + 1 .. s + p - 1
        PROVE  j - s \in 1 .. p - 1 /\ s + (j - s) = j
    BY Numbers
  <2>2. ASSUME NEW i \in 1 .. p - 1
        PROVE  s + i \in s + 1 .. s + p - 1
    BY Numbers
  <2> QED
    BY <2>1, <2>2
<1> QED
  BY <1>2, <1>3 DEF AskedUpTo

\* What can be said while the packets go out, or one of them fails.
LEMMA ProgressInductive == SegmentsSpec => []SegmentsInv
<1>1. SegmentsInit => SegmentsInv
  <2> SUFFICES ASSUME SegmentsInit PROVE SegmentsInv
    OBVIOUS
  <2>1. message \in [kind : Kinds, regs : Nat \ {0}]
    BY SegmentsAssumption DEF SegmentsInit
  <2>2. Size(message) > 0
    BY <2>1, SizeType
  <2>3. AskedUpTo(0) = {}
    BY DEF AskedUpTo
  <2>4. 0 % Elements = 0
    BY Numbers
  <2> QED
    BY <2>1, <2>2, <2>3, <2>4 DEF SegmentsInit, SegmentsInv, SegmentsTypeOK, Progress
<1>2. SegmentsInv /\ [SegmentsNext]_segmentVars => SegmentsInv'
  <2> SUFFICES ASSUME SegmentsInv, [SegmentsNext]_segmentVars PROVE SegmentsInv'
    OBVIOUS
  <2> USE DEF SegmentsInv, SegmentsTypeOK
  <2>1. /\ Size(message) \in Nat \ {0}
        /\ message.kind \in Kinds
    BY SizeType
  <2>2. Elements = 181 /\ minRegPerMsg = 5
    BY Numbers DEF minRegPerMsg
  <2>3. ASSUME caller = "sending"
        PROVE  /\ Remaining \in Nat \ {0} /\ Packet \in 1 .. Elements
               /\ sent + Remaining = Size(message)
               /\ Remaining > Elements => Packet = Elements
               /\ Remaining <= Elements => Packet = Remaining
    BY <2>1, <2>2, <2>3 DEF Progress, Remaining, Packet
  \* Where the sender is after a packet that went out or was given up.
  <2>4. ASSUME caller = "sending", Packet >= minRegPerMsg, GoOn
        PROVE  /\ sent' \in Nat /\ caller' \in {"sending", "done"}
               /\ caller' = "sending" => sent' % Elements = 0 /\ sent' < Size(message)
               /\ caller' = "done" =>
                    /\ sent' = Size(message)
                    /\ (Size(message) - 1) % Elements >= minRegPerMsg - 1
    <3>1. CASE Remaining > Elements
      <4>1. sent' = sent + Elements /\ caller' = "sending"
        BY <2>3, <2>4, <3>1 DEF GoOn
      <4>2. sent' % Elements = 0
        BY <4>1, <2>2, <2>4, CutMod DEF Progress
      <4> QED
        BY <4>1, <4>2, <2>1, <2>2, <2>3, <2>4, <3>1
    <3>2. CASE ~(Remaining > Elements)
      <4>1. sent' = Size(message) /\ caller' = "done" /\ Remaining \in 1 .. Elements
        BY <2>1, <2>2, <2>3, <2>4, <3>2 DEF GoOn
      <4>2. (sent + Remaining - 1) % Elements = Remaining - 1
        BY <4>1, <2>4, CutMod DEF Progress
      <4> QED
        BY <4>1, <4>2, <2>1, <2>2, <2>3, <2>4, <3>2
    <3> QED
      BY <3>1, <3>2
  <2>5. CASE SuspendCaller
    <3>1. caller = "sending" /\ Remaining \in 1 .. Elements /\ Remaining < minRegPerMsg
      BY <2>2, <2>3, <2>5 DEF SuspendCaller
    <3>2. (sent + Remaining - 1) % Elements = Remaining - 1
      BY <3>1, CutMod DEF Progress
    <3>3. (Size(message) - 1) % Elements < minRegPerMsg - 1
      BY <3>1, <3>2, <2>1, <2>2, <2>3
    <3> QED
      BY <2>5, <3>3 DEF SuspendCaller, Progress, Size
  <2>6. CASE SendSegment
    <3>1. caller = "sending" /\ Packet >= minRegPerMsg /\ GoOn /\ sent' = sent + Packet
          /\ message' = message /\ failed' = failed
      BY <2>6 DEF SendSegment, GoOn
    <3>2. Packet \in 1 .. Elements
      BY <2>3, <3>1
    <3>3. ~failed => asked' = AskedUpTo(sent')
      BY <3>1, <3>2, <2>6, OnePacket DEF SendSegment, Progress
    <3>4. asked' \subseteq Nat
      <4>1. \A i \in 1 .. Packet - 1 : sent + i \in Nat
        BY <3>2, <2>2
      <4> QED
        BY <4>1, <2>1, <2>6, ElementType DEF SendSegment
    <3>5. (AskedUpTo(sent))' = AskedUpTo(sent')
      BY <3>1 DEF AskedUpTo
    <3>6. (Size(message))' = Size(message) /\ Possible(message)'
      BY <3>1 DEF Size, Possible
    <3>7. Progress'
      BY <2>4, <3>1, <3>3, <3>5, <3>6 DEF Progress
    <3> QED
      BY <2>4, <3>1, <3>4, <3>6, <3>7
  <2>7. CASE SegmentFails
    <3>1. /\ caller = "sending" /\ Packet >= minRegPerMsg
          /\ message' = message /\ failed' = TRUE /\ asked' = asked
      BY <2>7 DEF SegmentFails
    <3>2. (Size(message))' = Size(message) /\ Possible(message)'
      BY <3>1 DEF Size, Possible
    <3>3. GoOn \/ (caller' = "done" /\ sent' = sent)
      BY <2>7 DEF SegmentFails
    <3>4. /\ sent' \in Nat /\ caller' \in {"sending", "done"}
          /\ caller' = "sending" => sent' % Elements = 0 /\ sent' < Size(message)
      BY <2>4, <3>1, <3>3
    <3> QED
      BY <3>1, <3>2, <3>4 DEF Progress
  <2>8. CASE UNCHANGED segmentVars
    <3>1. Progress'
      BY <2>8 DEF segmentVars, Progress, AskedUpTo, Size
    <3> QED
      BY <2>8, <3>1 DEF segmentVars, Possible
  <2> QED
    BY <2>5, <2>6, <2>7, <2>8 DEF SegmentsNext
<1> QED
  BY <1>1, <1>2, PTL DEF SegmentsSpec

--------------------------------------------------------------------------------
(* What the two sides count, for a waveform or an array of n registers *)

\* With a blank at every 181st element the others are the registers in order.
LEMMA RegistersInOrder ==
  ASSUME NEW n \in Nat \ {0}, NEW last \in Nat,
         last \in {n + (n - 1) \div 180, n + n \div 180}
  PROVE  {i - i \div 181 : i \in {j \in 0 .. last : j % 181 # 0}} = 1 .. n
<1>1. ASSUME NEW i \in 0 .. last, i % 181 # 0
      PROVE  i - i \div 181 \in 1 .. n
  BY <1>1
<1>2. ASSUME NEW k \in 1 .. n
      PROVE  \E i \in 0 .. last : i % 181 # 0 /\ i - i \div 181 = k
  <2>1. LET i == k + (k - 1) \div 180
        IN  i \in 0 .. last /\ i % 181 # 0 /\ i - i \div 181 = k
    OBVIOUS
  <2> QED
    BY <2>1
<1> DEFINE places == {j \in 0 .. last : j % 181 # 0}
           reg(i) == i - i \div 181
<1>3. \A i \in places : reg(i) \in 1 .. n
  BY <1>1
<1>4. \A k \in 1 .. n : \E i \in places : reg(i) = k
  BY <1>2
<1> HIDE DEF places, reg
<1>5. {reg(i) : i \in places} = 1 .. n
  BY <1>3, <1>4
<1> QED
  BY <1>5 DEF places, reg

LEMMA WaveCount ==
  ASSUME NEW n \in Nat \ {0}
  PROVE  /\ WaveSize(n) - 1 = n + (n - 1) \div 180
         /\ (WaveSize(n) - 1) % 181 >= 4 <=> n % 180 \notin 1 .. 3
<1>1. WaveSize(n) - 1 = n + (n - 1) \div 180
  BY Numbers DEF WaveSize
<1>2. (n + (n - 1) \div 180) % 181 >= 4 <=> n % 180 \notin 1 .. 3
  OBVIOUS
<1> QED
  BY <1>1, <1>2

LEMMA ArrayCount ==
  ASSUME NEW n \in Nat \ {0}
  PROVE  /\ ArraySize(n) - 1 = n + n \div 180
         /\ (ArraySize(n) - 1) % 181 >= 4 <=> n % 180 \notin 0 .. 3
<1>1. ArraySize(n) - 1 = n + n \div 180
  BY Numbers DEF ArraySize
<1>2. (n + n \div 180) % 181 >= 4 <=> n % 180 \notin 0 .. 3
  OBVIOUS
<1> QED
  BY <1>1, <1>2

\* What a whole message asks for, by its kind.
LEMMA WholeMessage ==
  ASSUME SegmentsTypeOK, Possible(message)
  PROVE  LET whole == AskedUpTo(Size(message)) = 1 .. message.regs
             long == (Size(message) - 1) % Elements >= minRegPerMsg - 1
         IN  (long /\ whole) <=> Safe(message)
<1> DEFINE n == message.regs
           last == Size(message) - 1
<1>1. n \in Nat \ {0} /\ message.kind \in Kinds /\ last \in Nat
  BY SizeType DEF SegmentsTypeOK
<1>2. AskedUpTo(Size(message)) = {Element(message.kind, i) : i \in {j \in 0 .. last : j % 181 # 0}}
  BY Numbers DEF AskedUpTo
<1>3. CASE message.kind \in {"wave", "array"}
  <2>1. \A i \in Nat : i % 181 # 0 => Element(message.kind, i) = i - i \div 181
    BY <1>3, Numbers DEF Element, Spacing
  <2>2. last \in {n + (n - 1) \div 180, n + n \div 180}
    BY <1>1, <1>3, WaveCount, ArrayCount DEF Size
  <2>3. {i - i \div 181 : i \in {j \in 0 .. last : j % 181 # 0}} = 1 .. n
    <3> HIDE DEF last, n
    <3> QED
      BY <1>1, <2>2, RegistersInOrder
  <2>4. AskedUpTo(Size(message)) = 1 .. n
    <3> DEFINE places == {j \in 0 .. last : j % 181 # 0}
    <3>1. \A i \in places : Element(message.kind, i) = i - i \div 181
      BY <1>1, <2>1
    <3> HIDE DEF places
    <3>2. {Element(message.kind, i) : i \in places} = {i - i \div 181 : i \in places}
      BY <3>1
    <3> QED
      BY <1>2, <2>3, <3>2 DEF places
  <2>5. last % 181 >= 4 <=> Safe(message)
    BY <1>1, <1>3, WaveCount, ArrayCount, Numbers DEF Size, Safe, minRegPerMsg
  <2> QED
    BY <2>4, <2>5, Numbers DEF minRegPerMsg
<1>4. CASE message.kind = "poll"
  <2>1. last = n + n \div 175
    BY <1>1, <1>4 DEF Size, PollSize, PollSpacing
  <2>2. CASE n < 175
    <3>1. last = n
      BY <1>1, <2>1, <2>2
    <3>2. \A i \in 1 .. n : i % 181 # 0 /\ Element(message.kind, i) = i
      BY <1>1, <1>4, <2>2 DEF Element, Spacing, PollSpacing
    <3>3. {j \in 0 .. last : j % 181 # 0} = 1 .. n
      BY <1>1, <3>1, <3>2
    <3>4. AskedUpTo(Size(message)) = 1 .. n
      <4> HIDE DEF last, n
      <4> QED
        BY <1>2, <3>2, <3>3
    <3>5. last % 181 >= 4 <=> Safe(message)
      BY <1>1, <1>4, <2>2, <3>1 DEF Safe, minRegPerMsg, PollSpacing
    <3> QED
      BY <3>4, <3>5, Numbers DEF minRegPerMsg
  <2>3. CASE n >= 175
    \* The second blank is not where a nonce goes.
    <3>1. 175 \in {j \in 0 .. last : j % 181 # 0} /\ Element(message.kind, 175) = 0
      BY <1>1, <1>4, <2>1, <2>3 DEF Element, Spacing, PollSpacing, Blank
    <3>2. 0 \in AskedUpTo(Size(message))
      <4> HIDE DEF last
      <4> QED
        BY <1>2, <3>1
    <3>3. 0 \notin 1 .. n
      BY <1>1
    <3>4. AskedUpTo(Size(message)) # 1 .. n
      BY <3>2, <3>3, Zenon
    <3> QED
      BY <1>1, <1>4, <2>3, <3>4 DEF Safe, PollSpacing
  <2> QED
    BY <1>1, <2>2, <2>3
<1>5. CASE message.kind = "one"
  <2>1. last = 0
    BY <1>5 DEF Size
  <2> QED
    BY <1>5, <2>1, Numbers DEF Safe, minRegPerMsg
<1> QED
  BY <1>1, <1>3, <1>4, <1>5 DEF Kinds

\* A message goes out whole, asking for its own registers only, and leaves the
\* sending thread alive for the lengths in Safe and for no others, however long it is,
\* at the packet size of the code.
THEOREM SentForSafeLengths == SegmentsSpec => []SentIffSafe
<1>1. SegmentsInv => SentIffSafe
  <2> SUFFICES ASSUME SegmentsInv, caller # "sending", ~failed
               PROVE  (caller = "done" /\ asked = 1 .. message.regs) <=> Safe(message)
    BY DEF SentIffSafe
  <2>1. CASE caller = "done"
    BY <2>1, WholeMessage DEF SegmentsInv, Progress
  <2>2. CASE caller = "suspended"
    <3>1. Size(message) \in Nat \ {0}
      BY SizeType DEF SegmentsInv, SegmentsTypeOK
    <3>2. ~((Size(message) - 1) % Elements >= minRegPerMsg - 1)
      BY <2>2, <3>1, Numbers DEF SegmentsInv, Progress, minRegPerMsg
    <3> QED
      BY <2>2, <3>2, WholeMessage DEF SegmentsInv
  <2> QED
    BY <2>1, <2>2 DEF SegmentsInv, SegmentsTypeOK
<1> QED
  BY <1>1, ProgressInductive, PTL

\* The types of the cuts.
LEMMA SegmentsTypesKept == SegmentsSpec => []SegmentsTypeOK
<1>1. SegmentsInv => SegmentsTypeOK
  BY DEF SegmentsInv
<1> QED
  BY <1>1, ProgressInductive, PTL

--------------------------------------------------------------------------------
(* WaveScale *)

\* The period the FPGA has when everything queued has been sent.
Coming == IF scaleQueue = <<>> THEN period ELSE scaleQueue[Len(scaleQueue)].period

\* Shifts are made for the period that goes with them.
ShiftsFit ==
  /\ shift = WaveShift(Positive(period))
  /\ \A i \in DOMAIN scaleQueue : scaleQueue[i].shift = WaveShift(Positive(scaleQueue[i].period))

\* What is known of the write in progress.
Setting ==
  settingAt # "idle" =>
    \E v \in Periods :
      /\ settingTo = {v} /\ wantedPeriod = {v} /\ scaledFor = Positive(v)
      /\ (settingAt = "send" /\ ~racedMirror) => periodParam = v
      /\ ~racedMirror => mirror = {}

\* Nothing happens before the mirror is processed, unless it is raced.
MirrorPending ==
  (mirror # {} /\ ~racedMirror) =>
    /\ mirror = {period} /\ periodParam = 0 /\ wantedPeriod = {} /\ scaleQueue = <<>>

\* Between writes what is coming is what was wanted, and what the parameter and the
\* scale say, as far as they were not raced or set by the mirror alone.
Settled ==
  (settingAt = "idle" /\ ~lostScale) =>
    /\ (~racedMirror /\ wantedPeriod # {}) => \A v \in wantedPeriod : Positive(Coming) = Positive(v)
    /\ (~racedMirror /\ mirror = {}) => periodParam = 0 \/ Positive(Coming) = Positive(periodParam)
    /\ setBy = "write" => scaledFor = Positive(Coming)

\* Inductive: ScaleFits speaks only of the states in which nothing is under way.
ScaleInv == ScaleTypeOK /\ ShiftsFit /\ Setting /\ MirrorPending /\ Settled

\* The register is at least one bit wide.
LEMMA RegisterHolds ==
  2 ^ PeriodBits \in Nat /\ 2 ^ PeriodBits > 1 /\ 0 \in Register /\ 1 \in Register /\ Register \subseteq Nat
<1>1. PeriodBits - 1 \in Nat /\ (PeriodBits - 1) + 1 = PeriodBits
  BY ScaleAssumption
<1>2. 2 ^ ((PeriodBits - 1) + 1) = 2 * 2 ^ (PeriodBits - 1) /\ 2 ^ (PeriodBits - 1) \in Nat \ {0}
  BY <1>1, PowerOfTwo
<1>3. 2 ^ PeriodBits \in Nat /\ 2 ^ PeriodBits > 1
  BY <1>1, <1>2, ScaleAssumption, PowerOfTwo
<1> QED
  BY <1>3 DEF Register

\* The registers hold the remainder, zero is taken for one, and the shift is the least
\* exponent whose power of two holds the period.
LEMMA InRegisterType ==
  ASSUME NEW v \in Nat
  PROVE  /\ InRegister(v) \in Register
         /\ Positive(v) \in Register \ {0}
         /\ Positive(InRegister(v)) = Positive(v)
<1>1. 2 ^ PeriodBits \in Nat \ {0} /\ 2 ^ PeriodBits > 1
  BY RegisterHolds
<1>2. InRegister(v) \in 0 .. 2 ^ PeriodBits - 1
  BY <1>1 DEF InRegister
<1>3. InRegister(InRegister(v)) = InRegister(v)
  BY <1>1, <1>2 DEF InRegister
<1> QED
  BY <1>1, <1>2, <1>3 DEF Register, Positive

\* A period that fits into the register has a shift, and CalcWaveScale finds the least.
LEMMA LeastShift ==
  ASSUME NEW p \in Register \ {0}
  PROVE  /\ WaveShift(p) \in 0 .. PeriodBits
         /\ p <= 2 ^ WaveShift(p)
         /\ \A t \in 0 .. WaveShift(p) - 1 : p > 2 ^ t
<1> DEFINE Enough == {s \in 0 .. PeriodBits : p <= 2 ^ s}
<1>1. PeriodBits \in Enough /\ Enough \in SUBSET Nat
  BY ScaleAssumption, PowerOfTwo DEF Register
<1>2. PICK s \in Enough : \A t \in Enough : s <= t
  <2> HIDE DEF Enough
  <2> QED
    BY <1>1, LeastNat
<1>3. \A t \in 0 .. s - 1 : p > 2 ^ t
  <2> TAKE t \in 0 .. s - 1
  <2>1. t \notin Enough /\ t \in 0 .. PeriodBits
    BY <1>2, ScaleAssumption
  <2> QED
    BY <2>1, PowerOfTwo, ScaleAssumption DEF Register
<1>4. \E q \in 0 .. PeriodBits : p <= 2 ^ q /\ \A t \in 0 .. q - 1 : p > 2 ^ t
  BY <1>2, <1>3
<1> QED
  BY <1>4 DEF WaveShift

LEMMA ScaleInvInit == ScaleInit => ScaleInv
<1> SUFFICES ASSUME ScaleInit PROVE ScaleInv
  OBVIOUS
<1>1. PICK v \in Periods : period = InRegister(v)
  BY DEF ScaleInit
<1>2. /\ period \in Register /\ Register \subseteq Nat
      /\ Positive(period) \in Register \ {0} /\ 1 \in Register
  <2>1. v \in Nat
    BY <1>1, ScaleAssumption
  <2>2. period \in Register /\ Positive(v) \in Register \ {0} /\ Positive(period) = Positive(v)
    BY <1>1, <2>1, InRegisterType
  <2> QED
    BY <2>2, RegisterHolds
<1>3. shift \in 0 .. PeriodBits
  BY <1>2, LeastShift DEF ScaleInit
<1>4. periodWrites \in 0 .. MaxPeriodWrites
  BY ScaleAssumption DEF ScaleInit
<1>5. scaleQueue \in Seq([period : Register, shift : 0 .. PeriodBits])
  BY DEF ScaleInit
<1>6. periodParam \in Register /\ scaledFor \in Register \ {0} /\ mirror \in SUBSET Register
  BY <1>2, RegisterHolds DEF ScaleInit
<1>7. ScaleTypeOK
  BY <1>2, <1>3, <1>4, <1>5, <1>6 DEF ScaleInit, ScaleTypeOK
<1> QED
  BY <1>7 DEF ScaleInit, ScaleInv, ShiftsFit, Setting, MirrorPending, Settled, Coming

LEMMA ScaleInvStep == ScaleInv /\ [ScaleNext]_scaleVars => ScaleInv'
<1> SUFFICES ASSUME ScaleInv, [ScaleNext]_scaleVars PROVE ScaleInv'
  OBVIOUS
<1> DEFINE Entry == [period : Register, shift : 0 .. PeriodBits]
<1>0. /\ ScaleTypeOK /\ ShiftsFit /\ Setting /\ MirrorPending /\ Settled
      /\ Periods \subseteq Nat /\ MaxPeriodWrites \in Nat
  BY ScaleAssumption DEF ScaleInv
<1>1. CASE WriteSamplePeriod
  <2>1. PICK v \in Periods :
          /\ IsNew(v) /\ Write(v)
          /\ scaledFor' = Positive(v) /\ racedMirror' = (mirror # {})
          /\ settingTo' = {v} /\ settingAt' = "param"
    BY <1>1 DEF WriteSamplePeriod
  <2>2. Positive(v) \in Register \ {0}
    BY <1>0, InRegisterType
  <2>3. ScaleTypeOK'
    BY <1>0, <2>1, <2>2 DEF Write, ScaleTypeOK, scaleFpga
  <2>4. ShiftsFit'
    BY <1>0, <2>1 DEF Write, ShiftsFit, scaleFpga
  <2>5. Setting' /\ MirrorPending' /\ Settled'
    BY <1>0, <2>1 DEF Write, Setting, MirrorPending, Settled, scaleFpga
  <2> QED
    BY <2>3, <2>4, <2>5 DEF ScaleInv
<1>2. CASE WriteSamePeriod
  <2>1. PICK v \in Periods :
          /\ ~IsNew(v) /\ Write(v) /\ racedMirror' = (racedMirror \/ mirror # {})
          /\ UNCHANGED <<scaledFor, settingTo, settingAt>>
    BY <1>2 DEF WriteSamePeriod
  <2>2. ScaleTypeOK'
    BY <1>0, <2>1 DEF Write, ScaleTypeOK, scaleFpga
  <2>3. ShiftsFit'
    BY <1>0, <2>1 DEF Write, ShiftsFit, scaleFpga
  <2>4. Positive(v) \in Register \ {0} /\ Positive(Positive(v)) = Positive(v)
    <3>1. v \in Nat
      BY <1>0
    <3>2. Positive(v) = InRegister(v) \/ Positive(v) = 1
      BY DEF Positive
    <3>3. Positive(1) = 1
      BY RegisterHolds DEF Positive, InRegister
    <3> QED
      BY <3>1, <3>2, <3>3, InRegisterType
  <2>5. Settled'
    BY <1>0, <2>1, <2>4 DEF Write, Settled, Coming, scaleFpga, IsNew
  <2>6. Setting' /\ MirrorPending'
    BY <1>0, <2>1 DEF Write, Setting, MirrorPending, scaleFpga
  <2> QED
    BY <2>2, <2>3, <2>5, <2>6 DEF ScaleInv
<1>3. CASE SetPeriodParam
  <2>1. PICK v \in Periods : settingTo = {v} /\ wantedPeriod = {v} /\ scaledFor = Positive(v)
                             /\ (~racedMirror => mirror = {})
    BY <1>0, <1>3 DEF Setting, SetPeriodParam
  <2>2. periodParam' = v
    BY <1>3, <2>1 DEF SetPeriodParam
  <2> QED
    BY <1>0, <1>3, <2>1, <2>2
    DEF SetPeriodParam, ScaleInv, ScaleTypeOK, ShiftsFit, Setting, MirrorPending, Settled, scaleFpga
<1>4. CASE QueuePeriod
  <2>1. PICK v \in Periods :
          /\ settingTo = {v} /\ wantedPeriod = {v} /\ scaledFor = Positive(v)
          /\ ~racedMirror => mirror = {} /\ periodParam = v
    BY <1>0, <1>4 DEF Setting, QueuePeriod
  <2> DEFINE e == [period |-> InRegister(v), shift |-> WaveShift(Positive(v))]
  <2>2. scaleQueue' = Append(scaleQueue, e)
    BY <1>4, <2>1 DEF QueuePeriod
  <2>3. /\ InRegister(v) \in Register /\ Positive(InRegister(v)) = Positive(v)
        /\ WaveShift(Positive(v)) \in 0 .. PeriodBits
    BY <1>0, InRegisterType, LeastShift
  <2>4. e \in Entry
    BY <2>3
  <2>5. ScaleTypeOK'
    <3>1. scaleQueue' \in Seq(Entry)
      BY <1>0, <2>2, <2>4 DEF ScaleTypeOK
    <3> QED
      BY <1>0, <1>4, <3>1 DEF QueuePeriod, ScaleTypeOK, scaleFpga
  <2>6. ShiftsFit'
    <3>1. /\ Len(scaleQueue') = Len(scaleQueue) + 1
          /\ \A i \in 1 .. Len(scaleQueue) : scaleQueue'[i] = scaleQueue[i]
          /\ scaleQueue'[Len(scaleQueue) + 1] = e
          /\ DOMAIN scaleQueue' = 1 .. Len(scaleQueue) + 1
      BY <1>0, <2>2, <2>4 DEF ScaleTypeOK
    <3> QED
      BY <1>0, <1>4, <2>3, <3>1 DEF QueuePeriod, ScaleTypeOK, ShiftsFit, scaleFpga
  <2>7. Coming' = InRegister(v)
    BY <1>0, <2>2, <2>4 DEF ScaleTypeOK, Coming
  <2> HIDE DEF e
  <2>8. Setting' /\ MirrorPending' /\ Settled'
    BY <1>0, <1>4, <2>1, <2>3, <2>7 DEF QueuePeriod, Setting, MirrorPending, Settled, scaleFpga
  <2> QED
    BY <2>5, <2>6, <2>8 DEF ScaleInv
<1>5. CASE SendPeriod
  <2>1. scaleQueue # <<>> /\ scaleQueue \in Seq(Entry) /\ scaleQueue' = Tail(scaleQueue)
    BY <1>0, <1>5 DEF SendPeriod, ScaleTypeOK
  <2>2. /\ Head(scaleQueue) = scaleQueue[1] /\ scaleQueue[1] \in Entry
        /\ 1 \in DOMAIN scaleQueue
        /\ scaleQueue' \in Seq(Entry)
        /\ Len(scaleQueue') = Len(scaleQueue) - 1 /\ Len(scaleQueue) \in Nat \ {0}
        /\ DOMAIN scaleQueue' = 1 .. Len(scaleQueue) - 1
        /\ \A i \in 1 .. Len(scaleQueue) - 1 :
             scaleQueue'[i] = scaleQueue[i + 1] /\ i + 1 \in DOMAIN scaleQueue
    <3> HIDE DEF Entry
    <3>1. Len(scaleQueue) \in Nat \ {0} /\ DOMAIN scaleQueue = 1 .. Len(scaleQueue)
      BY <2>1
    <3>2. scaleQueue' \in Seq(Entry) /\ Len(scaleQueue') = Len(scaleQueue) - 1
      BY <2>1
    <3>3. DOMAIN scaleQueue' = 1 .. Len(scaleQueue) - 1
      BY <3>2
    <3>4. \A i \in 1 .. Len(scaleQueue) - 1 : scaleQueue'[i] = scaleQueue[i + 1]
      BY <2>1, <3>1
    <3> QED
      BY <2>1, <3>1, <3>2, <3>3, <3>4
  <2>3. ScaleTypeOK'
    BY <1>0, <1>5, <2>2 DEF SendPeriod, ScaleTypeOK, scaleFpga, scalePort
  <2>4. ShiftsFit'
    BY <1>0, <1>5, <2>1, <2>2 DEF SendPeriod, ShiftsFit, scaleFpga, scalePort
  <2>5. ~lostScale' => Coming' = Coming
    <3>1. CASE Len(scaleQueue) = 1
      BY <1>5, <2>1, <2>2, <3>1 DEF SendPeriod, Coming, scaleFpga
    <3>2. CASE Len(scaleQueue) # 1
      <4>1. Len(scaleQueue') \in 1 .. Len(scaleQueue) - 1 /\ Len(scaleQueue') + 1 = Len(scaleQueue)
        BY <2>2, <3>2
      <4>2. scaleQueue' # <<>>
        BY <2>2, <4>1
      <4> QED
        BY <2>1, <2>2, <4>1, <4>2 DEF Coming
    <3> QED
      BY <3>1, <3>2
  <2>6. Setting' /\ MirrorPending' /\ Settled'
    BY <1>0, <1>5, <2>1, <2>5 DEF SendPeriod, Setting, MirrorPending, Settled, scaleFpga, scalePort
  <2> QED
    BY <2>3, <2>4, <2>6 DEF ScaleInv
<1>6. CASE ReadPeriodMirror
  <2>1. ScaleTypeOK' /\ ShiftsFit' /\ MirrorPending'
    BY <1>0, <1>6 DEF ReadPeriodMirror, ScaleTypeOK, ShiftsFit, MirrorPending, scaleFpga, scalePort
  <2>2. Setting'
    BY <1>0, <1>6 DEF ReadPeriodMirror, Setting, scaleFpga, scalePort
  <2>3. Settled'
    BY <1>0, <1>6 DEF ReadPeriodMirror, Settled, MirrorPending, Coming, scaleFpga, scalePort
  <2> QED
    BY <2>1, <2>2, <2>3 DEF ScaleInv
<1>7. CASE LosePeriodMirror
  BY <1>0, <1>7
  DEF LosePeriodMirror, ScaleInv, ScaleTypeOK, ShiftsFit, Setting, MirrorPending, Settled, Coming,
      scaleFpga, scalePort
<1>8. CASE UNCHANGED scaleVars
  BY <1>0, <1>8
  DEF scaleVars, ScaleInv, ScaleTypeOK, ShiftsFit, Setting, MirrorPending, Settled, Coming,
      scaleFpga, scalePort
<1> QED
  BY <1>1, <1>2, <1>3, <1>4, <1>5, <1>6, <1>7, <1>8 DEF ScaleNext

\* For registers of any width, as long as no message is lost: once everything written
\* has been sent the FPGA samples as wanted if the last period sent was written after
\* the mirror was processed or given up, and once a write has set the parameter the
\* gain, the time step and the shift are those of its period (writeInt32, CalcWaveScale).
THEOREM ScaleIsForPeriod == ScaleSpec => []ScaleFits
<1>1. ScaleInv => ScaleFits
  <2> SUFFICES ASSUME ScaleInv, settingAt = "idle", scaleQueue = <<>>, ~lostScale
               PROVE  /\ \A v \in wantedPeriod : racedMirror \/ Positive(period) = Positive(v)
                      /\ setBy = "write" =>
                           /\ scaledFor = Positive(period)
                           /\ scaledFor <= 2 ^ shift
                           /\ shift > 0 => scaledFor > 2 ^ (shift - 1)
    BY DEF ScaleFits
  <2>1. /\ \A v \in wantedPeriod : racedMirror \/ Positive(period) = Positive(v)
        /\ setBy = "write" => scaledFor = Positive(period)
    BY DEF ScaleInv, Settled, Coming
  <2>2. Positive(period) \in Register \ {0} /\ shift = WaveShift(Positive(period))
    BY InRegisterType DEF ScaleInv, ScaleTypeOK, ShiftsFit, Register
  <2>3. shift > 0 => shift - 1 \in 0 .. shift - 1
    BY <2>2, LeastShift, ScaleAssumption
  <2> QED
    BY <2>1, <2>2, <2>3, LeastShift
<1> QED
  BY <1>1, ScaleInvInit, ScaleInvStep, PTL DEF ScaleSpec

\* The types of the scale.
LEMMA ScaleTypesKept == ScaleSpec => []ScaleTypeOK
<1>1. ScaleInv => ScaleTypeOK
  BY DEF ScaleInv
<1> QED
  BY <1>1, ScaleInvInit, ScaleInvStep, PTL DEF ScaleSpec

--------------------------------------------------------------------------------
(* All together (MCActivities) *)

\* A step of any of them is a step of each, or leaves it where it is.
LEMMA OneMoves ==
  ASSUME [Next]_vars
  PROVE  /\ [PollerNext]_pollerVars /\ [RampNext]_pvRampVars /\ [CenterNext]_centerVars
         /\ [SegmentsNext]_segmentVars /\ [Bmb7Next]_bmb7Vars /\ [AmcNext]_amcVars
         /\ [MapNext]_mapVars /\ [ScaleNext]_scaleVars
<1>1. CASE Moves("poller", PollerNext)
  BY <1>1 DEF Moves
<1>2. CASE Moves("ramp", RampNext)
  BY <1>2 DEF Moves
<1>3. CASE Moves("center", CenterNext)
  BY <1>3 DEF Moves
<1>4. CASE Moves("segments", SegmentsNext)
  BY <1>4 DEF Moves
<1>5. CASE Moves("bmb7", Bmb7Next)
  BY <1>5 DEF Moves
<1>6. CASE Moves("amc", AmcNext)
  BY <1>6 DEF Moves
<1>7. CASE Moves("map", MapNext)
  BY <1>7 DEF Moves
<1>8. CASE Moves("scale", ScaleNext)
  BY <1>8 DEF Moves
<1>9. CASE UNCHANGED vars
  BY <1>9 DEF vars
<1> QED
  BY <1>1, <1>2, <1>3, <1>4, <1>5, <1>6, <1>7, <1>8, <1>9 DEF Next

\* Checking the activities together checks each of them: what one of them does in a
\* behaviour of all is a behaviour of its own, so the theorems on each hold of all.
THEOREM EachRunsAsIfAlone ==
  FairSpec => /\ PollerSpec /\ RampSpec /\ CenterSpec /\ SegmentsSpec
              /\ Bmb7Spec /\ AmcSpec /\ MapSpec /\ ScaleSpec
<1>1. Init => /\ PollerInit /\ RampInit /\ CenterInit /\ SegmentsInit
              /\ Bmb7Init /\ AmcInit /\ MapInit /\ ScaleInit
  BY DEF Init
<1> QED
  BY <1>1, OneMoves, PTL
  DEF FairSpec, PollerSpec, RampSpec, CenterSpec, SegmentsSpec, Bmb7Spec, AmcSpec, MapSpec, ScaleSpec

\* Whatever the activities do, for all values of the constants: no bound is exceeded,
\* every channel in the map is one that exists, waveforms are scaled for a period of at
\* least one, and what is queued, shown or on its way is well formed.
THEOREM ActivitiesKeepTypes == FairSpec => []TypeOK
BY EachRunsAsIfAlone, PollerTypesKept, RampTypesKept, CenterTypesKept, SegmentsTypesKept,
   Bmb7TypesKept, AmcTypesKept, MapTypesKept, ScaleTypesKept, PTL DEF TypeOK
================================================================================
