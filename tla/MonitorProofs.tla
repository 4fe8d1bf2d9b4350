----------------------------- MODULE MonitorProofs -----------------------------
(***************************************************************************)
(* What the two monitors show, for any number of failures, late answers    *)
(* and retries: the records of a BMB7 board, and the voltages the amc78xx  *)
(* program publishes.                                                      *)
(***************************************************************************)
EXTENDS Bmb7Monitor, AmcMonitor, TLAPS

--------------------------------------------------------------------------------
(***************************************************************************)
(* What the records of a BMB7 board show, for any number of polls and of   *)
(* troubles.  The start bit is clear whenever the machine rests: were it   *)
(* left set, a poll would begin an acquisition of its own and the values   *)
(* shown would fall behind (Bmb7Inv is inductive only with it).            *)
(***************************************************************************)

\* The type invariant in two: what counts, and what is a flag.
Counts ==
  /\ monitorIsActive \in 0 .. MaxPolls /\ needs \in 0 .. MaxPolls + 1
  /\ age \in 0 .. 2 /\ troubles \in 0 .. MaxTroubles
Flags ==
  /\ isCommunicating \in BOOLEAN /\ startBit = FALSE /\ holdOff \in BOOLEAN
  /\ shown \in {"nothing", "values", "fault"}

Bmb7Inv == Counts /\ Flags /\ ShownInTime

\* A failed exchange shows a fault on every record.
LEMMA FailureIsShown ==
  ASSUME Counts, TransferFails, monitorIsActive' \in 0 .. MaxPolls, startBit' = FALSE
  PROVE  Bmb7Inv'
<1>1. ShownInTime'
  BY DEF TransferFails, ShownInTime
<1>2. Counts'
  BY Bmb7Assumption DEF Counts, TransferFails, Trouble, bmb7Board
<1>3. Flags'
  BY DEF Flags, TransferFails
<1> QED
  BY <1>1, <1>2, <1>3 DEF Bmb7Inv

LEMMA Bmb7Inductive == Bmb7Spec => []Bmb7Inv
<1>1. Bmb7Init => Bmb7Inv
  <2>1. Bmb7Init => ShownInTime /\ Flags
    BY DEF Bmb7Init, ShownInTime, Flags
  <2>2. Bmb7Init => Counts
    BY Bmb7Assumption DEF Bmb7Init, Counts
  <2> QED
    BY <2>1, <2>2 DEF Bmb7Inv
<1>2. Bmb7Inv /\ [Bmb7Next]_bmb7Vars => Bmb7Inv'
  <2> SUFFICES ASSUME Counts, Flags, ShownInTime, [Bmb7Next]_bmb7Vars
               PROVE  Counts' /\ Flags' /\ ShownInTime'
    BY DEF Bmb7Inv
  <2>1. CASE ConnectFails
    <3>1. Counts'
      BY <2>1, Bmb7Assumption DEF ConnectFails, Trouble, bmb7Board, Counts
    <3> QED
      BY <2>1, <3>1 DEF ConnectFails, MayConnect, bmb7Link, bmb7Board, Flags, ShownInTime
  <2>2. CASE StartAcquisition
    \* What is shown is one acquisition old from here until the next is done.
    <3>1. /\ age' = (IF age < 2 THEN age + 1 ELSE age)
          /\ needs' \in 0 .. MaxPolls + 1 /\ troubles' \in 0 .. MaxTroubles
      BY <2>2, Bmb7Assumption
      DEF StartAcquisition, Answered, Begins, BeginsSlow, Trouble, Counts
    <3>2. monitorIsActive' = MaxPolls /\ shown' = shown
      BY <2>2 DEF StartAcquisition
    <3>3. Counts'
      BY <3>1, <3>2, Bmb7Assumption DEF Counts
    <3>4. shown = "values" => age = 0
      BY <2>2 DEF StartAcquisition, Starting, MayConnect, ShownInTime
    <3>5. shown' = "values" => age' = 1 /\ monitorIsActive' > 0
      BY <3>1, <3>2, <3>4, Bmb7Assumption
    <3>6. isCommunicating' = TRUE /\ startBit' = FALSE /\ holdOff' = holdOff
      BY <2>2 DEF StartAcquisition, StartBitCleared
    <3> QED
      BY <3>2, <3>3, <3>5, <3>6 DEF Flags, ShownInTime
  <2>3. CASE StartFails
    <3>1. TransferFails /\ monitorIsActive' = 0 /\ startBit' = FALSE
      BY <2>3 DEF StartFails, StartBitCleared
    <3>2. monitorIsActive' \in 0 .. MaxPolls
      BY <3>1, Bmb7Assumption
    <3> QED
      BY <3>1, <3>2, FailureIsShown DEF Bmb7Inv
  <2>4. CASE PollNotDone
    <3>1. age' = age /\ troubles' = troubles /\ needs' \in 0 .. MaxPolls + 1
      BY <2>4, Bmb7Assumption DEF PollNotDone, Answered, Counts, Flags
    <3>2. /\ monitorIsActive > 0 /\ monitorIsActive' \in 0 .. MaxPolls
          /\ shown' = "values" => shown = "values" /\ monitorIsActive' > 0
      BY <2>4, Bmb7Assumption DEF PollNotDone, Polling, CountPoll, Counts
    <3>3. Counts'
      BY <3>1, <3>2 DEF Counts
    <3>4. /\ isCommunicating' = isCommunicating /\ holdOff' = holdOff /\ startBit' = startBit
          /\ shown' \in {shown, "fault"}
      BY <2>4 DEF PollNotDone, CountPoll, bmb7Link
    <3> QED
      BY <3>1, <3>2, <3>3, <3>4 DEF Flags, ShownInTime
  <2>5. CASE PollDone
    <3>1. Counts'
      BY <2>5, Bmb7Assumption DEF PollDone, Counts
    <3> QED
      BY <2>5, <3>1 DEF PollDone, Polling, bmb7Link, Flags, ShownInTime
  <2>6. CASE PollFails
    <3>1. TransferFails /\ monitorIsActive' = monitorIsActive /\ startBit' = startBit
      BY <2>6 DEF PollFails
    <3> QED
      BY <3>1, FailureIsShown DEF Bmb7Inv, Counts, Flags
  <2>7. CASE HoldOffEnds
    BY <2>7 DEF HoldOffEnds, bmb7Board, Counts, Flags, ShownInTime
  <2>8. CASE UNCHANGED bmb7Vars
    BY <2>8 DEF bmb7Vars, bmb7Link, bmb7Board, Counts, Flags, ShownInTime
  <2> QED
    BY <2>1, <2>2, <2>3, <2>4, <2>5, <2>6, <2>7, <2>8 DEF Bmb7Next, Crank
<1> QED
  BY <1>1, <1>2, PTL DEF Bmb7Spec

\* The values a record shows are those of the last acquisition begun, or of the one
\* before while that is under way, and the board is connected, whatever failed before.
THEOREM ValuesInTime == Bmb7Spec => []ShownInTime
<1>1. Bmb7Inv => ShownInTime
  BY DEF Bmb7Inv
<1> QED
  BY <1>1, Bmb7Inductive, PTL

--------------------------------------------------------------------------------
(***************************************************************************)
(* Why the channel number is enough to tell a new voltage from an old one, *)
(* for two channels or more and any number of answers on their way.        *)
(*                                                                         *)
(* Values pass from the board to the program through places that keep      *)
(* their order.  While one channel is read all of them hold that channel   *)
(* or the one before, and behind a value of the channel come only others   *)
(* of it (InOrder).  So when the program finds its channel everything the  *)
(* channel before left is gone, and a whole round of others separates a    *)
(* value from the time its channel is looked for again.                    *)
(***************************************************************************)

\* The channel that is read, or will be when the next round begins, and the one
\* that was read before it.
Cur == IF chan > LastChan THEN 0 ELSE chan
Prev == IF Cur = 0 THEN LastChan ELSE Cur - 1

Fresh(r) == r \in Result /\ r.ch \in {Prev, Cur} /\ (r.ch = Cur => r.age # "old")

AllFresh ==
  /\ Fresh(spiRdbk) /\ Fresh(rdbkPV) /\ Fresh(spiResult)
  /\ onWire \in Seq(Result) /\ \A i \in 1 .. Len(onWire) : Fresh(onWire[i])
  /\ converting \in {Prev, Cur, None} /\ spiAddr \in {Prev, Cur}

WireFrom(i) == \A j \in i .. Len(onWire) : onWire[j].ch = Cur

InOrder ==
  /\ spiRdbk.ch = Cur => rdbkPV.ch = Cur
  /\ rdbkPV.ch = Cur => WireFrom(1) /\ spiResult.ch = Cur
  /\ \A i \in 1 .. Len(onWire) : onWire[i].ch = Cur => WireFrom(i) /\ spiResult.ch = Cur
  /\ spiResult.ch = Cur => converting \in {Cur, None} /\ spiAddr = Cur
  /\ converting = Cur => spiAddr = Cur

Reading ==
  /\ chan \in 0 .. LastChan + 1
  /\ amc \in {"readOneV", "addrDecode"} => chan <= LastChan

AmcInv == Reading /\ AllFresh /\ InOrder /\ flawed = FALSE

\* There are two channels, and None is not one.
LEMMA TwoChannels ==
  ASSUME Reading
  PROVE  Cur \in Chans /\ Prev \in Chans /\ Prev # Cur /\ None \notin Chans
BY AmcAssumption DEF Reading, Cur, Prev, Chans, None

\* Steps that move nothing in the pipeline and keep the channel.
LEMMA ProgramSteps ==
  ASSUME AmcInv, UNCHANGED <<spiRdbk, flawed, rdbkPV, onWire, amcBoard>>,
         Reading', Cur' = Cur
  PROVE  AmcInv'
<1>1. Prev' = Prev
  BY DEF Prev
<1> QED
  BY <1>1 DEF AmcInv, AllFresh, Fresh, InOrder, WireFrom, amcBoard, Result

\* The value shown is of the channel that is read; then all of them are.
LEMMA ShowStep ==
  ASSUME AmcInv, Show
  PROVE  AmcInv'
<1>1. /\ chan = Cur /\ chan \in Chans /\ spiRdbk.ch = Cur
      /\ chan' = chan + 1 /\ amc' = "poll" /\ Reading'
  BY AmcAssumption DEF Show, Matches, AmcInv, Reading, Cur, Chans
<1>2. Prev' = Cur /\ Cur' # Cur /\ Cur' \in Chans
  BY <1>1, AmcAssumption DEF Cur, Prev, Chans
<1>3. /\ rdbkPV.ch = Cur /\ spiResult.ch = Cur /\ WireFrom(1)
      /\ converting \in {Cur, None} /\ spiAddr = Cur
  BY <1>1 DEF AmcInv, InOrder
<1>4. flawed' = FALSE
  BY <1>1 DEF AmcInv, Show, AllFresh, Fresh
<1>5. ASSUME NEW r \in Result, r.ch = Cur
      PROVE  Old(r) \in Result /\ Old(r).ch = Cur
  BY <1>5 DEF Old, Result
<1>6. /\ spiRdbk' \in Result /\ spiRdbk'.ch = Cur
      /\ rdbkPV' \in Result /\ rdbkPV'.ch = Cur
      /\ spiResult' \in Result /\ spiResult'.ch = Cur
  BY <1>1, <1>3, <1>5 DEF AmcInv, AllFresh, Fresh, Show
<1>7. onWire' \in Seq(Result) /\ \A i \in 1 .. Len(onWire') : onWire'[i].ch = Cur
  <2>1. onWire \in Seq(Result) /\ \A i \in 1 .. Len(onWire) : onWire[i].ch = Cur
    BY <1>3 DEF AmcInv, AllFresh, WireFrom
  <2>2. onWire' = [i \in 1 .. Len(onWire) |-> Old(onWire[i])]
    BY <2>1 DEF Show
  <2>3. \A i \in 1 .. Len(onWire) : Old(onWire[i]) \in Result /\ Old(onWire[i]).ch = Cur
    BY <1>5, <2>1
  <2> QED
    BY <2>1, <2>2, <2>3
<1>8. converting' = converting /\ spiAddr' = spiAddr
  BY DEF Show
<1> QED
  BY <1>1, <1>2, <1>3, <1>4, <1>6, <1>7, <1>8, TwoChannels
  DEF AmcInv, AllFresh, Fresh, InOrder, WireFrom

\* The address is written last and a conversion takes the one that was written.
LEMMA ConversionStep ==
  ASSUME AmcInv, StartConversion
  PROVE  AmcInv'
<1>1. chan' = chan /\ Cur = chan /\ Reading'
  BY AmcAssumption DEF StartConversion, AmcInv, Reading, Cur, Chans
<1>2. Cur' = Cur /\ Prev' = Prev
  BY <1>1 DEF Cur, Prev
<1>3. UNCHANGED <<spiRdbk, rdbkPV, onWire, spiResult, flawed>>
  BY DEF StartConversion
<1>4. \/ spiAddr' = Cur /\ converting' = Cur
      \/ spiAddr' = spiAddr /\ converting' = spiAddr
      \/ spiAddr' = Cur /\ converting' = converting
  BY <1>1 DEF StartConversion
<1> QED
  BY <1>1, <1>2, <1>3, <1>4, TwoChannels
  DEF AmcInv, AllFresh, Fresh, InOrder, WireFrom, Result

\* Nothing of the pipeline is older than what the program takes over.
LEMMA LookStep ==
  ASSUME AmcInv, Look, chan <= LastChan
  PROVE  AmcInv'
<1>1. chan' = chan /\ Reading'
  BY DEF Look, AmcInv, Reading
<1>2. Cur' = Cur /\ Prev' = Prev
  BY <1>1 DEF Cur, Prev
<1>3. spiRdbk' = rdbkPV /\ UNCHANGED <<flawed, rdbkPV, onWire, amcBoard>>
  BY DEF Look
<1> QED
  BY <1>1, <1>2, <1>3 DEF AmcInv, AllFresh, Fresh, InOrder, WireFrom, Result, amcBoard

LEMMA ConvertStep ==
  ASSUME AmcInv, Convert
  PROVE  AmcInv'
<1>1. chan' = chan /\ Reading'
  BY DEF Convert, AmcInv, Reading, amcProgram
<1>2. Cur' = Cur /\ Prev' = Prev
  BY <1>1 DEF Cur, Prev
<1>3. converting \in Chans /\ converting \in {Prev, Cur}
  BY TwoChannels DEF Convert, AmcInv, AllFresh
<1>4. /\ spiResult' = [ch |-> converting, age |-> "new"] /\ converting' = None
      /\ UNCHANGED <<spiRdbk, flawed, rdbkPV, onWire, spiAddr>>
  BY DEF Convert, amcProgram
<1>5. Fresh(spiResult')
  BY <1>3, <1>4 DEF Fresh, Result
<1>6. (Fresh(spiResult))' /\ AllFresh'
  BY <1>2, <1>4, <1>5 DEF AmcInv, AllFresh, Fresh, Result
<1>7. InOrder'
  BY <1>2, <1>3, <1>4, TwoChannels DEF AmcInv, AllFresh, InOrder, WireFrom
<1> QED
  BY <1>1, <1>4, <1>6, <1>7 DEF AmcInv

\* An answer is a copy of the last result behind all others, or is lost.
LEMMA AnswerStep ==
  ASSUME AmcInv, AnswerLook
  PROVE  AmcInv'
<1>1. /\ Reading' /\ Cur' = Cur /\ Prev' = Prev
      /\ UNCHANGED <<spiRdbk, flawed, rdbkPV, spiResult, converting, spiAddr>>
  BY DEF AnswerLook, AmcInv, Reading, Cur, Prev, amcProgram, amcBoard
<1>2. CASE onWire' = onWire
  BY <1>1, <1>2 DEF AmcInv, AllFresh, Fresh, InOrder, WireFrom, Result
<1>3. CASE onWire' = Append(onWire, spiResult)
  <2>1. onWire \in Seq(Result) /\ spiResult \in Result
    BY DEF AmcInv, AllFresh, Fresh
  <2>2. /\ onWire' \in Seq(Result) /\ Len(onWire') = Len(onWire) + 1
        /\ \A i \in 1 .. Len(onWire) : onWire'[i] = onWire[i]
        /\ onWire'[Len(onWire) + 1] = spiResult
    BY <2>1, <1>3
  <2>3. \A i \in 1 .. Len(onWire') : i \in 1 .. Len(onWire) \/ onWire'[i] = spiResult
    BY <2>1, <2>2
  <2>4. AllFresh'
    BY <1>1, <2>2, <2>3 DEF AmcInv, AllFresh, Fresh, Result
  <2>5. (spiResult.ch = Cur /\ WireFrom(1)) => WireFrom(1)'
    BY <1>1, <2>2, <2>3 DEF WireFrom
  <2>6. \A i \in 1 .. Len(onWire') :
          onWire'[i].ch = Cur => spiResult.ch = Cur /\ \A j \in i .. Len(onWire') : onWire'[j].ch = Cur
    BY <1>1, <2>1, <2>2, <2>3 DEF AmcInv, InOrder, WireFrom
  <2> QED
    BY <1>1, <2>4, <2>5, <2>6 DEF AmcInv, InOrder, WireFrom
<1> QED
  BY <1>2, <1>3 DEF AnswerLook

LEMMA StoreStep ==
  ASSUME AmcInv, StoreRdbk
  PROVE  AmcInv'
<1>1. /\ Reading' /\ Cur' = Cur /\ Prev' = Prev
      /\ UNCHANGED <<spiRdbk, flawed, spiResult, converting, spiAddr>>
  BY DEF StoreRdbk, AmcInv, Reading, Cur, Prev, amcProgram, amcBoard
<1>2. onWire \in Seq(Result) /\ onWire # <<>> /\ Len(onWire) \in Nat \ {0}
  BY DEF StoreRdbk, AmcInv, AllFresh
<1>3. /\ rdbkPV' = onWire[1] /\ onWire' \in Seq(Result) /\ Len(onWire') = Len(onWire) - 1
      /\ \A i \in 1 .. Len(onWire') : i + 1 \in 1 .. Len(onWire) /\ onWire'[i] = onWire[i + 1]
  BY <1>2 DEF StoreRdbk
<1>4. AllFresh'
  <2>1. \A i \in 1 .. Len(onWire) : Fresh(onWire[i])
    BY DEF AmcInv, AllFresh
  <2>2. Fresh(rdbkPV') /\ \A i \in 1 .. Len(onWire') : Fresh(onWire'[i])
    BY <1>2, <1>3, <2>1
  <2>3. (Fresh(rdbkPV))' /\ \A i \in 1 .. Len(onWire') : (Fresh(onWire[i]))'
    BY <1>1, <2>2 DEF Fresh, Result
  <2>4. (Fresh(spiRdbk))' /\ (Fresh(spiResult))'
    BY <1>1 DEF AmcInv, AllFresh, Fresh, Result
  <2> QED
    BY <1>1, <1>3, <2>3, <2>4 DEF AmcInv, AllFresh
<1>5. \A i \in 1 .. Len(onWire) : onWire[i].ch = Cur =>
        spiResult.ch = Cur /\ \A j \in i .. Len(onWire) : onWire[j].ch = Cur
  BY DEF AmcInv, InOrder, WireFrom
<1>6. rdbkPV'.ch = Cur => spiResult.ch = Cur /\ \A i \in 1 .. Len(onWire') : onWire'[i].ch = Cur
  BY <1>2, <1>3, <1>5
<1>7. \A i \in 1 .. Len(onWire') : onWire'[i].ch = Cur =>
        spiResult.ch = Cur /\ \A j \in i .. Len(onWire') : onWire'[j].ch = Cur
  BY <1>2, <1>3, <1>5
<1>8. spiRdbk.ch = Cur => rdbkPV'.ch = Cur
  BY <1>2, <1>3 DEF AmcInv, InOrder, WireFrom
<1> QED
  BY <1>1, <1>4, <1>6, <1>7, <1>8 DEF AmcInv, InOrder, WireFrom

LEMMA AmcInductive == AmcSpec => []AmcInv
<1>1. AmcInit => AmcInv
  <2> SUFFICES ASSUME AmcInit PROVE AmcInv
    OBVIOUS
  <2>1. Cur = 0 /\ Reading
    BY AmcAssumption DEF AmcInit, Cur, Reading
  <2>2. Reset \in Result /\ Reset.ch = 0 /\ Reset.age = "initial"
    BY AmcAssumption DEF Reset, Result, Chans
  <2> QED
    BY <2>1, <2>2, TwoChannels DEF AmcInit, AmcInv, AllFresh, Fresh, InOrder, WireFrom
<1>2. AmcInv /\ [AmcNext]_amcVars => AmcInv'
  <2> SUFFICES ASSUME AmcInv, [AmcNext]_amcVars PROVE AmcInv'
    OBVIOUS
  <2>1. CASE AmcWakes
    <3>1. Reading' /\ Cur' = Cur
      BY <2>1 DEF AmcWakes, AmcInv, Reading, Cur
    <3> QED
      BY <2>1, <3>1, ProgramSteps DEF AmcWakes
  <2>2. CASE RoundEnds
    <3>1. Reading' /\ Cur' = Cur
      BY <2>2, AmcAssumption DEF RoundEnds, Reading, Cur
    <3> QED
      BY <2>2, <3>1, ProgramSteps DEF RoundEnds
  <2>3. CASE StartAgain
    <3>1. Reading' /\ Cur' = Cur
      BY <2>3 DEF StartAgain, AmcInv, Reading, Cur
    <3> QED
      BY <2>3, <3>1, ProgramSteps DEF StartAgain
  <2>4. CASE ReadOneV \/ LookAgain
    BY <2>4, LookStep DEF ReadOneV, LookAgain, AmcInv, Reading
  <2>5. CASE UNCHANGED amcVars
    <3>1. Reading' /\ Cur' = Cur
      BY <2>5 DEF amcVars, amcProgram, AmcInv, Reading, Cur
    <3> QED
      BY <2>5, <3>1, ProgramSteps DEF amcVars, amcProgram, amcBoard
  <2> QED
    BY <2>1, <2>2, <2>3, <2>4, <2>5, ConversionStep, ShowStep, ConvertStep, AnswerStep, StoreStep
    DEF AmcNext, AmcProgram
<1> QED
  BY <1>1, <1>2, PTL DEF AmcSpec

\* However late answers are and whatever is lost, a voltage is shown under its own
\* channel and was converted after that channel was last shown.
THEOREM VoltagesAreNew == AmcSpec => []ShownIsNew
<1>1. AmcInv => ShownIsNew
  BY DEF AmcInv, ShownIsNew
<1> QED
  BY <1>1, AmcInductive, PTL

\* The types of the BMB7 monitor.
LEMMA Bmb7TypesKept == Bmb7Spec => []Bmb7TypeOK
<1>1. Bmb7Inv => Bmb7TypeOK
  BY DEF Bmb7Inv, Counts, Flags, Bmb7TypeOK
<1> QED
  BY <1>1, Bmb7Inductive, PTL

\* What the pipeline does not say: the retries, the losses and what is on its way are
\* as many as they may be.
AmcLimits ==
  /\ amc \in {"idle", "poll", "readOneV", "addrDecode"} /\ wanted \in BOOLEAN
  /\ retryCounter \in 0 .. MaxRetries + 1 /\ missedMsgs \in 0 .. MaxMissed
  /\ Len(onWire) <= MaxOnWire

\* No step exceeds the bounds of the amc78xx model ...
LEMMA AmcLimitsStep == AmcInv /\ AmcLimits /\ [AmcNext]_amcVars => AmcLimits'
<1> SUFFICES ASSUME AmcInv, AmcLimits, [AmcNext]_amcVars PROVE AmcLimits'
  OBVIOUS
<1> USE AmcAssumption DEF AmcLimits
<1>0. onWire \in Seq(Result) /\ spiResult \in Result
  BY DEF AmcInv, AllFresh, Fresh
<1>1. CASE AmcWakes \/ RoundEnds \/ StartAgain
  BY <1>1 DEF AmcWakes, RoundEnds, StartAgain
<1>2. CASE StartConversion
  BY <1>2 DEF StartConversion, Miss
<1>3. CASE ReadOneV \/ LookAgain
  <2>1. retryCounter' \in 0 .. MaxRetries + 1
    BY <1>3 DEF ReadOneV, LookAgain
  <2> QED
    BY <1>3, <2>1 DEF ReadOneV, LookAgain, Look
<1>4. CASE Show
  <2>1. Len(onWire') = Len(onWire)
    <3>1. onWire' = [i \in 1 .. Len(onWire) |-> Old(onWire[i])]
      BY <1>0, <1>4 DEF Show
    <3>2. \A i \in 1 .. Len(onWire) : Old(onWire[i]) \in Result
      <4>1. ASSUME NEW r \in Result PROVE [r EXCEPT !.age = "old"] \in Result
        BY DEF Result
      <4> QED
        BY <1>0, <4>1 DEF Old
    <3>3. onWire' \in Seq(Result) /\ Len(onWire') = Len(onWire)
      BY <1>0, <3>1, <3>2
    <3> QED
      BY <3>3
  <2> QED
    BY <1>4, <2>1 DEF Show
<1>5. CASE Convert
  BY <1>5 DEF Convert, amcProgram
<1>6. CASE AnswerLook
  <2>1. Len(onWire') <= MaxOnWire /\ missedMsgs' \in 0 .. MaxMissed
    BY <1>0, <1>6 DEF AnswerLook, Miss
  <2> QED
    BY <1>6, <2>1 DEF AnswerLook, amcProgram
<1>7. CASE StoreRdbk
  <2>1. Len(onWire') = Len(onWire) - 1 /\ Len(onWire) \in Nat
    BY <1>0, <1>7 DEF StoreRdbk
  <2> QED
    BY <1>7, <2>1 DEF StoreRdbk, amcProgram
<1>8. CASE UNCHANGED amcVars
  BY <1>8 DEF amcVars, amcProgram
<1> QED
  BY <1>1, <1>2, <1>3, <1>4, <1>5, <1>6, <1>7, <1>8 DEF AmcNext, AmcProgram

\* ... or leaves its types.
LEMMA AmcTypesKept == AmcSpec => []AmcTypeOK
<1>1. AmcInit => AmcLimits
  <2>1. 0 \in 0 .. MaxRetries + 1 /\ 0 \in 0 .. MaxMissed /\ Len(<<>>) <= MaxOnWire
    BY AmcAssumption
  <2> QED
    BY <2>1 DEF AmcInit, AmcLimits
<1>2. AmcInv /\ AmcLimits => AmcTypeOK
  BY TwoChannels DEF AmcInv, AmcLimits, AmcTypeOK, Reading, AllFresh, Fresh
<1> QED
  BY <1>1, <1>2, AmcInductive, AmcLimitsStep, PTL DEF AmcSpec
================================================================================
