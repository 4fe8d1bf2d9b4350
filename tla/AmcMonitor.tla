------------------------------ MODULE AmcMonitor ------------------------------
(***************************************************************************)
(* The sequencer program that reads the voltages of the amc78xx ADC board  *)
(* (gunbLlrfApp/src/amc78xxmon.stt).                                       *)
(*                                                                         *)
(* For each channel in turn it writes the SPI registers that start a       *)
(* conversion, asks for the readback register, and takes from its PV what  *)
(* is there when it looks.  Nothing tells it whether that is the answer:   *)
(* the channel number in the value does.  Writes, requests and answers     *)
(* pass through the request engine, late or never.                         *)
(***************************************************************************)
EXTENDS Naturals, Sequences

CONSTANTS
  LastChan,    \* channels 0 .. LastChan
  MaxRetries,  \* looks again before the conversion is started again
  MaxOnWire,   \* bounds of the model: answers on their way,
  MaxMissed    \* and writes and requests lost

ASSUME AmcAssumption ==
  LastChan \in Nat \ {0} /\ {MaxRetries, MaxOnWire, MaxMissed} \subseteq Nat

VARIABLES
  amc,        \* the program's state
  chan, retryCounter,
  spiRdbk,    \* the value as the program last got it
  rdbkPV,     \* U15_SPI_RDBK_R
  wanted,     \* the readback register has been asked for
  onWire,     \* answers on their way
  spiAddr,    \* the board: the address written,
  converting, \* the conversion under way,
  spiResult,  \* and the last one's result
  flawed,     \* history: a value was shown under another channel, or shown again
  missedMsgs

amcProgram == <<amc, chan, retryCounter, spiRdbk, flawed>>
amcBoard == <<spiAddr, converting, spiResult>>
amcVars == <<amcProgram, rdbkPV, wanted, onWire, amcBoard, missedMsgs>>

Chans == 0 .. LastChan
\* A result is old when it was there when its channel was last shown.
Result == [ch : Chans, age : {"initial", "new", "old"}]
Reset == [ch |-> 0, age |-> "initial"]
None == LastChan + 1

AmcTypeOK ==
  /\ amc \in {"idle", "poll", "readOneV", "addrDecode"}
  /\ chan \in 0 .. LastChan + 1 /\ retryCounter \in 0 .. MaxRetries + 1
  /\ {spiRdbk, rdbkPV, spiResult} \subseteq Result
  /\ wanted \in BOOLEAN /\ flawed \in BOOLEAN
  /\ onWire \in Seq(Result) /\ Len(onWire) <= MaxOnWire
  /\ spiAddr \in Chans /\ converting \in Chans \union {None}
  /\ missedMsgs \in 0 .. MaxMissed

AmcInit ==
  /\ amc = "idle" /\ chan = 0 /\ retryCounter = 0
  /\ spiRdbk = Reset /\ rdbkPV = Reset /\ spiResult = Reset
  /\ wanted = FALSE /\ onWire = <<>> /\ spiAddr = 0 /\ converting = None
  /\ flawed = FALSE /\ missedMsgs = 0

--------------------------------------------------------------------------------
(* The program *)

Miss == missedMsgs < MaxMissed /\ missedMsgs' = missedMsgs + 1

AmcWakes ==
  /\ amc = "idle" /\ amc' = "poll"
  /\ UNCHANGED <<chan, retryCounter, spiRdbk, flawed, rdbkPV, wanted, onWire, amcBoard, missedMsgs>>

\* Address, data and a pulse of the start bit, each of which may not arrive.
StartConversion ==
  /\ amc = "poll" /\ chan <= LastChan /\ amc' = "readOneV"
  /\ \/ spiAddr' = chan /\ converting' = chan /\ UNCHANGED missedMsgs
     \/ Miss /\ UNCHANGED spiAddr /\ converting' = spiAddr
     \/ Miss /\ spiAddr' = chan /\ UNCHANGED converting
  /\ UNCHANGED <<chan, retryCounter, spiRdbk, flawed, rdbkPV, wanted, onWire, spiResult>>

RoundEnds ==
  /\ amc = "poll" /\ chan > LastChan
  /\ amc' = "idle" /\ chan' = 0
  /\ UNCHANGED <<retryCounter, spiRdbk, flawed, rdbkPV, wanted, onWire, amcBoard, missedMsgs>>

\* Asks for the register, and in the entry of addrDecode gets what the PV holds.
Look ==
  /\ amc' = "addrDecode"
  /\ wanted' = TRUE /\ spiRdbk' = rdbkPV
  /\ UNCHANGED <<chan, flawed, rdbkPV, onWire, amcBoard, missedMsgs>>

ReadOneV == amc = "readOneV" /\ retryCounter' = 0 /\ Look

MatchesAlways == TRUE      \* mutant: the address is not checked
Matches == spiRdbk.ch = chan

\* What there is of the channel has now been shown.
Old(r) == IF r.ch = chan THEN [r EXCEPT !.age = "old"] ELSE r
Show ==
  /\ amc = "addrDecode" /\ Matches
  /\ flawed' = (flawed \/ spiRdbk.ch # chan \/ spiRdbk.age = "old")
  /\ spiRdbk' = Old(spiRdbk) /\ rdbkPV' = Old(rdbkPV) /\ spiResult' = Old(spiResult)
  /\ onWire' = [i \in DOMAIN onWire |-> Old(onWire[i])]
  /\ chan' = chan + 1 /\ amc' = "poll"
  /\ UNCHANGED <<retryCounter, wanted, spiAddr, converting, missedMsgs>>

LookAgain ==
  /\ amc = "addrDecode" /\ ~Matches /\ retryCounter <= MaxRetries
  /\ retryCounter' = retryCounter + 1
  /\ Look

\* Mutant: the retries never end.
StartAgainNever == FALSE /\ UNCHANGED amcVars
\* The same channel again, without end if it never answers.
StartAgain ==
  /\ amc = "addrDecode" /\ ~Matches /\ retryCounter > MaxRetries
  /\ amc' = "poll"
  /\ UNCHANGED <<chan, retryCounter, spiRdbk, flawed, rdbkPV, wanted, onWire, amcBoard, missedMsgs>>

AmcProgram ==
  \/ AmcWakes \/ StartConversion \/ RoundEnds \/ ReadOneV \/ Show \/ LookAgain \/ StartAgain

--------------------------------------------------------------------------------
(* The board and the request engine *)

Convert ==
  /\ converting # None /\ converting' = None
  /\ spiResult' = [ch |-> converting, age |-> "new"]
  /\ UNCHANGED <<amcProgram, rdbkPV, wanted, onWire, spiAddr, missedMsgs>>

AnswerLook ==
  /\ wanted /\ wanted' = FALSE
  /\ \/ Len(onWire) < MaxOnWire /\ onWire' = Append(onWire, spiResult) /\ UNCHANGED missedMsgs
     \/ Miss /\ UNCHANGED onWire
  /\ UNCHANGED <<amcProgram, rdbkPV, amcBoard>>

StoreRdbk ==
  /\ onWire # <<>> /\ onWire' = Tail(onWire)
  /\ rdbkPV' = Head(onWire)
  /\ UNCHANGED <<amcProgram, wanted, amcBoard, missedMsgs>>

AmcNext == AmcProgram \/ Convert \/ AnswerLook \/ StoreRdbk

AmcSpec == AmcInit /\ [][AmcNext]_amcVars

--------------------------------------------------------------------------------
(* Properties *)

\* However late answers are, every value is shown under its own channel and was
\* converted after that channel was last shown.
ShownIsNew == ~flawed

\* Once nothing is lost any more, round follows round.
RoundsComplete == []<>(chan > LastChan) /\ []<>(chan = 0)
================================================================================
