------------------------------ MODULE Bmb7Monitor ------------------------------
(***************************************************************************)
(* The readback of voltages and temperatures of a BMB7 board               *)
(* (gunbLlrfApp/src/BMB7Sup.c).                                            *)
(*                                                                         *)
(* A record scanned every ten seconds cranks a machine: connect if need    *)
(* be, start an acquisition with two exchanges, then ask whether it is     *)
(* done and hand the values, or a fault, to the records that show them.    *)
(* The port is locked meanwhile, so a crank is one step.  A board that is  *)
(* sent a set start bit begins an acquisition and is done some polls after.*)
(***************************************************************************)
EXTENDS Naturals

CONSTANTS
  MaxPolls,    \* polls before the machine gives up (10 in the code)
  MaxTroubles  \* bound of the model: exchanges and connections that fail, slow boards

ASSUME Bmb7Assumption == MaxPolls \in Nat \ {0} /\ MaxTroubles \in Nat

VARIABLES
  isCommunicating,
  monitorIsActive,  \* polls left
  startBit,         \* bit 4 of register 18 in monitorRequest
  holdOff,          \* less than ten seconds since monitorWhenFailed
  shown,            \* what the records show
  needs,            \* polls until the board is done
  age,              \* history: acquisitions begun since that of the values shown
  troubles

bmb7Link == <<isCommunicating, holdOff>>
bmb7Board == <<needs, age>>
bmb7Vars == <<bmb7Link, monitorIsActive, startBit, shown, bmb7Board, troubles>>

Bmb7TypeOK ==
  /\ isCommunicating \in BOOLEAN /\ startBit \in BOOLEAN /\ holdOff \in BOOLEAN
  /\ monitorIsActive \in 0 .. MaxPolls
  /\ shown \in {"nothing", "values", "fault"}
  /\ needs \in 0 .. MaxPolls + 1 /\ age \in 0 .. 2 /\ troubles \in 0 .. MaxTroubles

Bmb7Init ==
  /\ isCommunicating = FALSE /\ holdOff = FALSE
  /\ monitorIsActive = 0 /\ startBit = FALSE /\ shown = "nothing"
  /\ needs = 0 /\ age = 0 /\ troubles = 0

--------------------------------------------------------------------------------
(* The board and the link *)

Trouble == troubles < MaxTroubles /\ troubles' = troubles + 1

\* An acquisition begins; a slow one is not done within the polls.
BeginsSlow == needs' = MaxPolls + 1 /\ Trouble
Begins ==
  /\ age' = IF age < 2 THEN age + 1 ELSE age
  /\ \/ BeginsSlow
     \/ needs' \in 1 .. MaxPolls /\ UNCHANGED troubles

\* The board answers a request.
Answered(bit) ==
  IF bit THEN Begins
  ELSE /\ needs' = IF needs > 0 THEN needs - 1 ELSE 0
       /\ UNCHANGED <<age, troubles>>

\* An exchange fails: disconnected, every record shows a fault.  What the board made
\* of the request does not matter, for the next one starts it again.
TransferFails ==
  /\ Trouble
  /\ isCommunicating' = FALSE /\ holdOff' = TRUE
  /\ shown' = "fault"
  /\ UNCHANGED bmb7Board

--------------------------------------------------------------------------------
(* crankBMB7monitor.  While it is held off a crank does nothing. *)

MayConnect == ~isCommunicating /\ ~holdOff

ConnectFails ==
  /\ MayConnect /\ Trouble
  /\ UNCHANGED <<bmb7Link, monitorIsActive, startBit, shown, bmb7Board>>

\* Connected in this crank or before, and nothing under way.
Starting == MayConnect \/ (isCommunicating /\ monitorIsActive = 0)

\* The start bit is set for the first exchange and cleared after it, whatever
\* came of it.
StartBitKept == TRUE    \* mutant
StartBitCleared == FALSE

StartAcquisition ==
  /\ Starting /\ startBit' = StartBitCleared
  /\ Answered(TRUE)                       \* the second exchange tells nothing
  /\ isCommunicating' = TRUE /\ monitorIsActive' = MaxPolls
  /\ UNCHANGED <<holdOff, shown>>

\* The first or the second exchange fails.
StartFails ==
  /\ Starting /\ startBit' = StartBitCleared
  /\ TransferFails
  /\ monitorIsActive' = 0

Polling == isCommunicating /\ monitorIsActive > 0

\* Mutant: the records keep what they show.
GiveUpSilent == monitorIsActive' = monitorIsActive - 1 /\ UNCHANGED shown
\* One poll less, and a fault when it was the last.
CountPoll ==
  /\ monitorIsActive' = monitorIsActive - 1
  /\ shown' = IF monitorIsActive' = 0 THEN "fault" ELSE shown

PollNotDone ==
  /\ Polling /\ Answered(startBit) /\ needs' > 0
  /\ CountPoll
  /\ UNCHANGED <<bmb7Link, startBit>>

PollDone ==
  /\ Polling /\ ~startBit /\ needs <= 1
  /\ needs' = 0 /\ age' = 0 /\ shown' = "values"
  /\ monitorIsActive' = 0
  /\ UNCHANGED <<bmb7Link, startBit, troubles>>

PollFails ==
  /\ Polling /\ TransferFails
  /\ UNCHANGED <<monitorIsActive, startBit>>

Crank ==
  \/ ConnectFails \/ StartAcquisition \/ StartFails
  \/ PollNotDone \/ PollDone \/ PollFails

\* Ten seconds pass since a failure.
HoldOffEnds ==
  /\ holdOff /\ holdOff' = FALSE
  /\ UNCHANGED <<isCommunicating, monitorIsActive, startBit, shown, bmb7Board, troubles>>

Bmb7Next == Crank \/ HoldOffEnds

Bmb7Spec == Bmb7Init /\ [][Bmb7Next]_bmb7Vars

--------------------------------------------------------------------------------
(* Properties *)

\* Values shown are never left over: the board is connected, and they are those of
\* the last acquisition begun, or of the one before while that is under way.
ShownInTime ==
  shown = "values" =>
    /\ isCommunicating
    /\ age = 0 \/ (age = 1 /\ monitorIsActive > 0)

\* When the troubles have ended the records show new values again and again.
KeepsShowing == []<>(shown = "values" /\ age = 0) /\ []<>(age > 0)
================================================================================
