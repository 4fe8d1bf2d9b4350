-------------------------------- MODULE PVramp --------------------------------
(***************************************************************************)
(* The sequencer program that ramps a PV (gunbLlrfApp/src/PVramp.stt).     *)
(*                                                                         *)
(* RAMP_GO starts a ramp of the PV named by RAMPING_PV_NAME to RAMP_TO in  *)
(* RAMP_TIME/RATE steps, RAMP_ABORT ends it.  Both are monitored and reset *)
(* by the program; the operator may press them, or take them back, at any  *)
(* time, between a test of the program and the put it decides on too: the  *)
(* program is not in safe mode.  Only the linear ramp is modelled: the     *)
(* exponential one multiplies where this one adds and is the same          *)
(* otherwise.                                                              *)
(***************************************************************************)
EXTENDS Integers

CONSTANTS
  PVs,        \* the PVs that can be ramped
  Targets,    \* values of RAMP_TO and of the PVs to begin with
  Steps,      \* ramp_steps_expected: RAMP_TIME/RATE
  Rounding,   \* how much the arithmetic of a step may be off
  MaxPresses  \* bound of the model: actions of the operator and of the network

ASSUME RampAssumption ==
  /\ Targets \subseteq Int /\ Rounding \in Nat /\ Steps \subseteq Nat /\ MaxPresses \in Nat
  \* so that ramp_increment, a double in the program, is an integer
  /\ \A n \in Steps \ {0}, t, u \in Targets : (t - u) % n = 0

VARIABLES
  value,        \* what each PV holds
  connected,    \* whether ramping_pv is connected
  name,         \* ramping_pv_name
  nameChange,   \* name_change
  assigned,     \* the PV ramping_pv is assigned to
  state,        \* the program's state
  go, abort,    \* ramp_go, ramp_abort
  ramp,         \* ramping_pv, ramp_from, ramp_to, ramp_increment, ramp_steps_expected
  counter,      \* ramp_step_counter
  presses,
  alone,        \* history: since the ramp began nobody else wrote the PV and it
                \* was connected
  sinceAbort    \* history: steps put since ramp_abort was last changed
rampVars == <<ramp, counter>>
buttons == <<go, abort>>
pvRampVars == <<value, connected, name, nameChange, assigned, state, buttons, rampVars, presses, alone, sinceAbort>>

UnderWay == {"ramp", "step", "finish"}   \* the state ramp, and what its whens decide

RampTypeOK ==
  /\ value \in [PVs -> Int] /\ connected \in BOOLEAN /\ alone \in BOOLEAN
  /\ name \in PVs /\ assigned \in PVs /\ nameChange \in BOOLEAN
  /\ state \in {"wait", "ready_ramp"} \cup UnderWay
  /\ go \in BOOLEAN /\ abort \in BOOLEAN
  /\ ramp \in [pv : Int, from : Int, to : Targets, inc : Int, steps : Steps]
  /\ counter \in Nat /\ sinceAbort \in Nat /\ presses \in 0 .. MaxPresses

RampInit ==
  /\ \E t \in Targets, n \in Steps :
       /\ value = [p \in PVs |-> t]
       /\ ramp = [pv |-> t, from |-> t, to |-> t, inc |-> 0, steps |-> n]
  /\ name \in PVs /\ assigned = name /\ nameChange = FALSE /\ connected = FALSE
  /\ state = "wait" /\ go = FALSE /\ abort = FALSE
  /\ counter = 0 /\ presses = 0 /\ alone = FALSE /\ sinceAbort = 0

--------------------------------------------------------------------------------
(* The program *)

\* A put to a PV that is not connected fails; its status is not looked at.
Put(v) == value' = IF connected THEN [value EXCEPT ![assigned] = v] ELSE value

\* Mutant: the button is not reset.
RampWaitEntryKeeps ==
  state' = "wait" /\ abort' = FALSE /\ sinceAbort' = 0 /\ UNCHANGED go
\* Entry of wait: both buttons are reset.
RampWaitEntry == state' = "wait" /\ go' = FALSE /\ abort' = FALSE /\ sinceAbort' = 0

\* Entry of ready_ramp: the name is read and assigned; a new channel connects later.
Go ==
  /\ state = "wait" /\ go
  /\ state' = "ready_ramp"
  /\ assigned' = name /\ connected' = FALSE
  /\ UNCHANGED <<value, name, nameChange, buttons, rampVars, presses, alone, sinceAbort>>

NewName ==
  /\ state = "wait" /\ ~go /\ nameChange /\ nameChange' = FALSE
  /\ assigned' = name /\ connected' = FALSE
  /\ UNCHANGED <<value, name, state, buttons, rampVars, presses, alone, sinceAbort>>

\* The settings of the ramp are read on entry of ready_ramp, the PV when it is
\* connected.
Ready ==
  /\ state = "ready_ramp" /\ connected
  /\ state' = "ramp" /\ counter' = 0 /\ alone' = TRUE
  /\ \E to \in Targets, n \in Steps :
       LET from == value[assigned]
       IN ramp' = [pv |-> from, from |-> from, to |-> to, steps |-> n,
                   inc |-> IF n = 0 THEN 0 ELSE (to - from) \div n]
  /\ UNCHANGED <<value, connected, name, nameChange, assigned, buttons, presses, sinceAbort>>

\* ... within 3 seconds.
NotConnected ==
  /\ state = "ready_ramp" /\ ~connected
  /\ RampWaitEntry
  /\ UNCHANGED <<value, connected, name, nameChange, assigned, rampVars, presses, alone>>

AbortRamp ==
  /\ state = "ramp" /\ abort
  /\ RampWaitEntry /\ counter' = counter + 1
  /\ UNCHANGED <<value, connected, name, nameChange, assigned, ramp, presses, alone>>

DoneLate == counter > ramp.steps           \* mutant: one step too many
Done == counter >= ramp.steps

\* Mutant: the abort is looked at after the others.
DecideFirst ==
  /\ state = "ramp" /\ state' = IF Done THEN "finish" ELSE "step"
  /\ UNCHANGED <<value, connected, name, nameChange, assigned, buttons, rampVars, presses, alone,
                 sinceAbort>>
\* The whens are tested in their order; the abort may change before what they decide
\* is done.
Decide ==
  /\ state = "ramp" /\ ~abort /\ state' = IF Done THEN "finish" ELSE "step"
  /\ UNCHANGED <<value, connected, name, nameChange, assigned, buttons, rampVars, presses, alone,
                 sinceAbort>>

\* "This last step is exact."
Finish ==
  /\ state = "finish"
  /\ ramp' = [ramp EXCEPT !.pv = ramp.to] /\ Put(ramp.to)
  /\ counter' = counter + 1 /\ RampWaitEntry
  /\ UNCHANGED <<connected, name, nameChange, assigned, presses, alone>>

\* Every RATE seconds; the double ramping_pv gathers rounding errors.
Step ==
  /\ state = "step" /\ state' = "ramp"
  /\ \E e \in -Rounding .. Rounding :
       LET v == ramp.pv + ramp.inc + e IN ramp' = [ramp EXCEPT !.pv = v] /\ Put(v)
  /\ counter' = counter + 1 /\ sinceAbort' = sinceAbort + 1
  /\ UNCHANGED <<connected, name, nameChange, assigned, buttons, presses, alone>>

RampProgram == Go \/ NewName \/ Ready \/ NotConnected \/ AbortRamp \/ Decide \/ Finish \/ Step

--------------------------------------------------------------------------------
(* The operator, other clients and the network *)

Press == presses < MaxPresses /\ presses' = presses + 1

PressButton ==
  /\ Press
  /\ \/ go' = ~go /\ UNCHANGED <<abort, sinceAbort>>
     \/ abort' = ~abort /\ sinceAbort' = 0 /\ UNCHANGED go
  /\ UNCHANGED <<value, connected, name, nameChange, assigned, state, rampVars, alone>>

ChangeName ==
  /\ Press /\ \E p \in PVs : name' = p
  /\ nameChange' = TRUE
  /\ UNCHANGED <<value, connected, assigned, state, buttons, rampVars, alone, sinceAbort>>

\* Another client writes the PV.
WriteOther ==
  /\ Press /\ \E p \in PVs, t \in Targets :
       value' = [value EXCEPT ![p] = t] /\ alone' = (alone /\ p # assigned)
  /\ UNCHANGED <<connected, name, nameChange, assigned, state, buttons, rampVars, sinceAbort>>

Connect ==
  /\ ~connected /\ connected' = TRUE
  /\ UNCHANGED <<value, name, nameChange, assigned, state, buttons, rampVars, presses, alone, sinceAbort>>

Disconnect ==
  /\ Press /\ connected /\ connected' = FALSE /\ alone' = FALSE
  /\ UNCHANGED <<value, name, nameChange, assigned, state, buttons, rampVars, sinceAbort>>

RampNext ==
  \/ RampProgram
  \/ PressButton \/ ChangeName \/ WriteOther \/ Connect \/ Disconnect

RampSpec == RampInit /\ [][RampNext]_pvRampVars

--------------------------------------------------------------------------------
(* Properties *)

\* While it ramps undisturbed the PV is no further from the straight line to the
\* target than rounding may have taken it, and not past its end: a ramp has as
\* many steps as planned, although each entry and exit of the state counts.
OnTheWay ==
  (state \in UnderWay /\ alone) =>
    /\ counter <= ramp.steps
    /\ \E e \in -(counter * Rounding) .. counter * Rounding :
         value[assigned] = ramp.from + counter * ramp.inc + e

\* An abort that stays pressed ends the ramp: a put that is still to come then is the
\* first since the press, decided before it.
AbortStops == (abort /\ state \in {"step", "finish"}) => sinceAbort = 0

\* A press of the button is one ramp at most: without new presses the program comes
\* to rest, and it never hangs on a PV that does not connect.
ComesToRest == <>[](state = "wait")
================================================================================
