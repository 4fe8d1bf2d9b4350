------------------------------- MODULE CenterCw -------------------------------
(***************************************************************************)
(* The sequencer program that centers the detuning of a cavity             *)
(* (gunbLlrfApp/src/centerCwDetune.stt).                                   *)
(*                                                                         *)
(* It dithers a frequency PV by one increment up and down, moves to the    *)
(* side that reflects less, and stops below a limit or when told to.  The  *)
(* plant is a function from frequencies to the reflected amplitude, which  *)
(* may drift.  What the program gets 0.2 s after a put is a record made    *)
(* from the last published waveform: nothing ensures that the waveform was *)
(* taken after the put.  The statistics it prints (largest slopes,         *)
(* extremes) are left out.                                                 *)
(***************************************************************************)
EXTENDS Integers

CONSTANTS
  Last,        \* frequencies 0 .. Last, in increments, reflect less than all
  Amps,        \* the amplitudes, reverse over forward, in units of their resolution
  RevLimit,    \* revLimit and
  StopLimit,   \* stopLimit
  MaxTouches   \* bound of the model: actions of the operator and drifts

ASSUME CenterAssumption ==
  /\ Last \in Nat /\ Amps \subseteq Nat /\ {RevLimit, StopLimit, MaxTouches} \subseteq Nat
  /\ \E a \in Amps : \A b \in Amps : b <= a

Full == CHOOSE a \in Amps : \A b \in Amps : b <= a

VARIABLES
  amp,          \* the plant
  freqCtl,      \* the frequency PV
  taken,        \* the last waveform taken, on its way to
  mean,         \* AMEAN: what the last published one showed, and whether the
                \* frequency and the plant have been left alone since it was taken
  revAmp,       \* the amplitude as the program knows it
  monitored,    \* revAmp follows AMEAN
  enable, tuneGo, tuneAbort,
  det,          \* the program's state
  pos,          \* where it is centered
  startAmp,     \* the amplitude there
  ampPlus,      \* ampAtPosPlusInc
  touches,
  exact,        \* history: startAmp was what the plant shows at pos; since then it
                \* has been still and no reading was of an earlier frequency
  begin         \* history: pos and startAmp as the present search began

feed == <<taken, mean>>
switches == <<enable, tuneGo, tuneAbort>>
search == <<pos, startAmp, ampPlus>>
marks == <<touches, exact, begin>>
centerVars == <<amp, freqCtl, feed, revAmp, monitored, switches, det, search, marks>>

\* What the plant reflects at a frequency.
At(f) == IF f \in 0 .. Last THEN amp[f] ELSE Full

CenterTypeOK ==
  /\ amp \in [0 .. Last -> Amps] /\ freqCtl \in Int
  /\ {taken, mean} \subseteq [amp : Amps, current : BOOLEAN]
  /\ revAmp \in Amps /\ monitored \in BOOLEAN
  /\ enable \in BOOLEAN /\ tuneGo \in BOOLEAN /\ tuneAbort \in BOOLEAN
  /\ det \in {"wait", "ready_det", "det", "tryLow", "move"}
  /\ pos \in Int /\ startAmp \in Amps /\ ampPlus \in Amps
  /\ touches \in 0 .. MaxTouches /\ exact \in BOOLEAN
  /\ begin \in [at : Int, amp : Amps]

CenterInit ==
  /\ amp \in [0 .. Last -> Amps] /\ freqCtl \in 0 .. Last
  /\ taken = [amp |-> At(freqCtl), current |-> TRUE] /\ mean = taken
  /\ revAmp = At(freqCtl) /\ monitored = TRUE
  /\ enable = FALSE /\ tuneGo = FALSE /\ tuneAbort = FALSE
  /\ det = "wait" /\ pos = freqCtl /\ startAmp = revAmp /\ ampPlus = revAmp
  /\ touches = 0 /\ exact = TRUE /\ begin = [at |-> pos, amp |-> startAmp]

--------------------------------------------------------------------------------
(* The program *)

Outdated == taken' = [taken EXCEPT !.current = FALSE] /\ mean' = [mean EXCEPT !.current = FALSE]

PutFreq(f) == freqCtl' = f /\ Outdated

\* pvGet(revAmp), 0.2 s after a put, or an event of its monitor.
GetRev == revAmp' = mean.amp /\ exact' = (exact /\ mean.current)

\* Entry of wait: the buttons are reset, the monitor is resumed.
CenterWaitEntry ==
  /\ det' = "wait" /\ tuneGo' = FALSE /\ tuneAbort' = FALSE /\ UNCHANGED enable
  /\ monitored' = TRUE

\* Entry of det: the center is read back from the PV, the monitor paused.
DetEntry == det' = "det" /\ pos' = freqCtl' /\ monitored' = FALSE

\* A monitor event.
Update ==
  /\ monitored /\ revAmp # mean.amp /\ GetRev
  /\ UNCHANGED <<amp, freqCtl, feed, monitored, switches, det, search, touches, begin>>

\* Entry of ready_det takes the start of the search from what revAmp is now.
Enabled ==
  /\ det = "wait" /\ enable
  /\ det' = "ready_det" /\ tuneGo' = FALSE /\ tuneAbort' = FALSE
  /\ pos' = freqCtl /\ startAmp' = revAmp
  /\ exact' = (revAmp = At(freqCtl))
  /\ UNCHANGED <<amp, freqCtl, feed, revAmp, monitored, enable, ampPlus, touches, begin>>

Disabled ==
  /\ det = "ready_det" /\ ~enable
  /\ CenterWaitEntry
  /\ UNCHANGED <<amp, freqCtl, feed, revAmp, search, marks>>

BeginSearch ==
  /\ det = "ready_det" /\ enable /\ (tuneGo \/ revAmp > RevLimit)
  /\ UNCHANGED freqCtl /\ DetEntry
  /\ begin' = [at |-> freqCtl, amp |-> startAmp]
  /\ UNCHANGED <<amp, feed, revAmp, switches, startAmp, ampPlus, touches, exact>>

AbortSearch ==
  /\ det = "det" /\ (tuneAbort \/ ~enable)
  /\ CenterWaitEntry
  /\ UNCHANGED <<amp, freqCtl, feed, revAmp, search, marks>>

\* revAmp is the reading below the former center, unless the search has just begun.
Found ==
  /\ det = "det" /\ ~tuneAbort /\ enable /\ revAmp < StopLimit
  /\ CenterWaitEntry
  /\ UNCHANGED <<amp, freqCtl, feed, revAmp, search, marks>>

\* (The reading right after a put is replaced by the next one before it is used.)
TryHigh ==
  /\ det = "det" /\ ~tuneAbort /\ enable /\ revAmp >= StopLimit
  /\ det' = "tryLow" /\ PutFreq(pos + 1)
  /\ UNCHANGED <<amp, revAmp, monitored, switches, search, marks>>

TryLow ==
  /\ det = "tryLow" /\ det' = "move"
  /\ GetRev /\ ampPlus' = revAmp'
  /\ PutFreq(pos - 1)
  /\ UNCHANGED <<amp, monitored, switches, pos, startAmp, touches, begin>>

\* Where to go from readings above and below, and the amplitude there.
Above(plus) == [at |-> pos + 1, amp |-> plus]
Below(minus) == [at |-> pos - 1, amp |-> minus]
BetterWrong(plus, minus) == IF plus > minus THEN Above(plus) ELSE Below(minus) \* mutant
Better(plus, minus) == IF plus > minus THEN Below(minus) ELSE Above(plus)
\* ... or stay.
BestKept(plus, minus) ==                   \* mutant: the amplitude is not taken along
  IF startAmp > plus \/ startAmp > minus THEN [Better(plus, minus) EXCEPT !.amp = startAmp]
  ELSE [at |-> pos, amp |-> startAmp]
Best(plus, minus) ==
  IF startAmp > plus \/ startAmp > minus THEN Better(plus, minus)
  ELSE [at |-> pos, amp |-> startAmp]

Move ==
  /\ det = "move"
  /\ GetRev
  /\ PutFreq(Best(ampPlus, revAmp').at) /\ startAmp' = Best(ampPlus, revAmp').amp
  /\ DetEntry
  /\ UNCHANGED <<amp, switches, ampPlus, touches, begin>>

CenterProgram ==
  \/ Enabled \/ Disabled \/ BeginSearch \/ AbortSearch \/ Found \/ TryHigh \/ TryLow \/ Move

--------------------------------------------------------------------------------
(* The waveform and its record, the operator and the plant *)

Capture ==
  /\ taken' = [amp |-> At(freqCtl), current |-> TRUE] /\ taken' # taken
  /\ UNCHANGED <<amp, freqCtl, mean, revAmp, monitored, switches, det, search, marks>>

PublishMean ==
  /\ mean' = taken /\ mean' # mean
  /\ UNCHANGED <<amp, freqCtl, taken, revAmp, monitored, switches, det, search, marks>>

Touch == touches < MaxTouches /\ touches' = touches + 1

Switch ==
  /\ Touch
  /\ \/ enable' = ~enable /\ UNCHANGED <<tuneGo, tuneAbort>>
     \/ tuneGo' = ~tuneGo /\ UNCHANGED <<enable, tuneAbort>>
     \/ tuneAbort' = ~tuneAbort /\ UNCHANGED <<enable, tuneGo>>
  /\ UNCHANGED <<amp, freqCtl, feed, revAmp, monitored, det, search, exact, begin>>

\* The resonance drifts.
Drift ==
  /\ Touch /\ exact' = FALSE /\ Outdated
  /\ \E by \in {-1, 1} : amp' = [f \in 0 .. Last |-> At(f + by)]
  /\ UNCHANGED <<freqCtl, revAmp, monitored, switches, det, search, begin>>

CenterNext == CenterProgram \/ Update \/ Capture \/ PublishMean \/ Switch \/ Drift

CenterSpec == CenterInit /\ [][CenterNext]_centerVars

--------------------------------------------------------------------------------
(* Properties *)

Searching == det \in {"det", "tryLow", "move"}
Distance(f, g) == IF f > g THEN f - g ELSE g - f

\* Every increment the center moves has lowered the amplitude it goes by, even if
\* readings are of other frequencies and the resonance drifts: a search goes no
\* further than the amplitude it began with has levels, and never runs away.
MovesPay == Searching => Distance(pos, begin.at) + startAmp <= begin.amp

\* As long as the readings are of the frequencies they are taken for and the plant is
\* still, the search never ends up worse than it began, whenever it is aborted, and
\* if it ends because little is reflected, little is reflected at the center and not
\* just where the last reading was taken.
NeverWorse ==
  (det = "det" /\ exact) =>
    /\ At(pos) <= At(begin.at)
    /\ (enable /\ ~tuneAbort /\ revAmp < StopLimit) => At(pos) < StopLimit

\* Where that remains so it ends in a minimum: the search moves until neither
\* neighbour reflects less.
LocalMinimum == At(pos) <= At(pos - 1) /\ At(pos) <= At(pos + 1)
FindsMinimum == <>[]exact => <>[](det = "det" => LocalMinimum)
================================================================================
