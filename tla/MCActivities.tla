----------------------------- MODULE MCActivities -----------------------------
(***************************************************************************)
(* The activities that run beside the request engine and share nothing     *)
(* with each other in these models.  A behaviour of all is an interleaving *)
(* of one of each, so each is checked while the others stand still: part   *)
(* says which one moves.                                                   *)
(***************************************************************************)
EXTENDS RegPoller, PVramp, CenterCw, Segments, Bmb7Monitor, AmcMonitor, ChannelMap, WaveScale

VARIABLE part

Parts == {"poller", "ramp", "center", "segments", "bmb7", "amc", "map", "scale"}

vars == <<part, pollerVars, pvRampVars, centerVars, segmentVars, bmb7Vars, amcVars, mapVars,
          scaleVars>>

\* All keep their types and their counters their bounds.
TypeOK ==
  /\ PollerTypeOK /\ RampTypeOK /\ CenterTypeOK /\ SegmentsTypeOK /\ Bmb7TypeOK
  /\ AmcTypeOK /\ MapTypeOK /\ ScaleTypeOK

\* The one that moves starts anywhere it can, the others in one place.
Init ==
  /\ part \in Parts
  /\ IF part = "ramp" THEN RampInit
     ELSE /\ ramp = [pv |-> 0, from |-> 0, to |-> 0, inc |-> 0, steps |-> 0]
          /\ name = CHOOSE p \in PVs : TRUE
          /\ RampInit
  /\ IF part = "center" THEN CenterInit
     ELSE amp = [f \in 0 .. Last |-> Full] /\ freqCtl = 0 /\ CenterInit
  /\ IF part = "segments" THEN SegmentsInit
     ELSE message = [kind |-> "one", regs |-> 1] /\ SegmentsInit
  /\ IF part = "map" THEN MapInit ELSE keepReg = (CHOOSE k \in InitialKeeps : TRUE) /\ MapInit
  /\ IF part = "scale" THEN ScaleInit ELSE period = InRegister(CHOOSE v \in Periods : TRUE) /\ ScaleInit
  /\ PollerInit /\ Bmb7Init /\ AmcInit

\* A step of one of them, while it is its turn.
Moves(p, step) ==
  /\ part = p /\ step /\ UNCHANGED part
  /\ p # "poller" => UNCHANGED pollerVars
  /\ p # "ramp" => UNCHANGED pvRampVars
  /\ p # "center" => UNCHANGED centerVars
  /\ p # "segments" => UNCHANGED segmentVars
  /\ p # "bmb7" => UNCHANGED bmb7Vars
  /\ p # "amc" => UNCHANGED amcVars
  /\ p # "map" => UNCHANGED mapVars
  /\ p # "scale" => UNCHANGED scaleVars

Next ==
  \/ Moves("poller", PollerNext) \/ Moves("ramp", RampNext) \/ Moves("center", CenterNext)
  \/ Moves("segments", SegmentsNext) \/ Moves("bmb7", Bmb7Next) \/ Moves("amc", AmcNext)
  \/ Moves("map", MapNext) \/ Moves("scale", ScaleNext)

\* The threads of the IOC run, waits time out, constructors and writes come to an
\* end, the amc78xx board converts, and what asks it is answered or lost.
\* Nothing is assumed of the operator or of the PVs.
FairSpec ==
  /\ Init /\ [][Next]_vars
  /\ WF_vars(Moves("poller", PollerThread)) /\ WF_vars(Moves("poller", ConstructorWakes))
  /\ WF_vars(Moves("poller", StoreRunStop))
  /\ WF_vars(Moves("ramp", RampProgram)) /\ WF_vars(Moves("center", CenterProgram))
  /\ WF_vars(Moves("bmb7", Crank)) /\ WF_vars(Moves("bmb7", HoldOffEnds))
  /\ WF_vars(Moves("amc", AmcProgram)) /\ WF_vars(Moves("amc", Convert))
  /\ WF_vars(Moves("amc", AnswerLook)) /\ WF_vars(Moves("amc", StoreRdbk))

\* When the troubles of the BMB7 board have ended its records show new values again
\* and again.
Bmb7KeepsShowing == part = "bmb7" => KeepsShowing

\* Once nothing is lost any more, the amc78xx program reads round after round.
AmcKeepsReading == part = "amc" => RoundsComplete
================================================================================
