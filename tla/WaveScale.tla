------------------------------- MODULE WaveScale -------------------------------
(***************************************************************************)
(* How densely the FPGA samples waveforms, and the scale the driver gives  *)
(* them (gunbLlrfApp/src/GUNBLlrfDev.cpp).                                 *)
(*                                                                         *)
(* A sample period written by the operator goes out with the shift that    *)
(* keeps the FPGA's sums in range, and sets the gain and the time step     *)
(* waveforms are published with.  Both registers are write-only: all the   *)
(* driver learns of them is the mirror it asks for once at startup, which  *)
(* sets the parameter and nothing else.                                    *)
(***************************************************************************)
EXTENDS Naturals, Sequences

CONSTANTS
  PeriodBits,      \* width of the register (15 in the code)
  Periods,         \* what the operator writes
  MaxPeriodWrites  \* bound of the model

ASSUME ScaleAssumption ==
  PeriodBits \in Nat \ {0} /\ Periods \subseteq Nat /\ MaxPeriodWrites \in Nat

VARIABLES
  period, shift,   \* the FPGA's registers
  periodParam,     \* p_WaveSampPerW
  scaledFor,       \* the period gain_ and p_TraceDataTimeStep are computed for
  scaleQueue,      \* _singleMsgQ: [period, shift]
  mirror,          \* the mirror's answer, {} when it has been processed or lost
  settingTo,       \* the port thread: what it is setting, {} if nothing; and how
  settingAt,
  setBy,           \* history: what set the parameter last,
  wantedPeriod,    \* what the operator wrote last, {} if nothing,
  racedMirror,     \* the last period that was sent, or one found to be the same since,
                   \* was written before the mirror was processed,
  lostScale,       \* and a message of the driver was lost
  periodWrites

scaleFpga == <<period, shift>>
scalePort == <<settingTo, settingAt, wantedPeriod, racedMirror, periodWrites>>
scaleVars == <<scaleFpga, periodParam, scaledFor, scaleQueue, mirror, scalePort, setBy, lostScale>>

Register == 0 .. 2 ^ PeriodBits - 1
InRegister(v) == v % 2 ^ PeriodBits
PositiveOrZero(v) == InRegister(v)   \* mutant: zero stays zero
\* Zero is taken for one.
Positive(v) == IF InRegister(v) >= 1 THEN InRegister(v) ELSE 1
\* Mutant: rounded down.
WaveShiftFloor(p) == CHOOSE s \in 0 .. PeriodBits : 2 ^ s <= p /\ 2 ^ (s + 1) > p
\* CalcWaveScale: the logarithm, rounded up.
WaveShift(p) == CHOOSE s \in 0 .. PeriodBits : p <= 2 ^ s /\ \A t \in 0 .. s - 1 : p > 2 ^ t

ScaleTypeOK ==
  /\ period \in Register /\ shift \in 0 .. PeriodBits
  /\ periodParam \in Register \union Periods /\ scaledFor \in Register \ {0}
  /\ scaleQueue \in Seq([period : Register, shift : 0 .. PeriodBits])
  /\ mirror \in SUBSET Register /\ {settingTo, wantedPeriod} \subseteq SUBSET Periods
  /\ settingAt \in {"idle", "param", "send"} /\ setBy \in {"startup", "mirror", "write"}
  /\ {racedMirror, lostScale} \subseteq BOOLEAN /\ periodWrites \in 0 .. MaxPeriodWrites

\* The mirror has been asked for; the shift fits what the FPGA was left with.
ScaleInit ==
  /\ period \in {InRegister(v) : v \in Periods} /\ shift = WaveShift(Positive(period))
  /\ periodParam = 0 /\ scaledFor = 1 /\ scaleQueue = <<>> /\ mirror = {period}
  /\ settingTo = {} /\ settingAt = "idle" /\ setBy = "startup" /\ wantedPeriod = {}
  /\ racedMirror = FALSE /\ lostScale = FALSE /\ periodWrites = 0

--------------------------------------------------------------------------------
(* writeInt32 of p_WaveSampPerW *)

IsNew(v) == periodParam # Positive(v)

Write(v) ==
  /\ settingAt = "idle" /\ periodWrites < MaxPeriodWrites
  /\ periodWrites' = periodWrites + 1
  /\ wantedPeriod' = {v}
  /\ UNCHANGED <<scaleFpga, periodParam, scaleQueue, mirror, setBy, lostScale>>

WriteSamplePeriod ==
  \E v \in Periods :
    /\ IsNew(v) /\ Write(v)
    /\ scaledFor' = Positive(v) /\ racedMirror' = (mirror # {})
    /\ settingTo' = {v} /\ settingAt' = "param"

\* Nothing is sent when the parameter says that the FPGA has it.
WriteSamePeriod ==
  \E v \in Periods :
    /\ ~IsNew(v) /\ Write(v)
    /\ racedMirror' = (racedMirror \/ mirror # {})
    /\ UNCHANGED <<scaledFor, settingTo, settingAt>>

SetPeriodParam ==
  /\ settingAt = "param" /\ settingAt' = "send"
  /\ periodParam' \in settingTo /\ setBy' = "write"
  /\ UNCHANGED <<scaleFpga, scaledFor, scaleQueue, mirror, settingTo, wantedPeriod,
                 racedMirror, periodWrites, lostScale>>

QueuePeriod ==
  /\ settingAt = "send" /\ settingAt' = "idle" /\ settingTo' = {}
  /\ \E v \in settingTo :
       scaleQueue' = Append(scaleQueue, [period |-> InRegister(v), shift |-> WaveShift(Positive(v))])
  /\ UNCHANGED <<scaleFpga, periodParam, scaledFor, mirror, wantedPeriod, racedMirror,
                 periodWrites, setBy, lostScale>>

--------------------------------------------------------------------------------
(* The network, the FPGA and the receiving thread *)

\* One packet sets both registers, or is lost.
SendPeriod ==
  /\ scaleQueue # <<>> /\ scaleQueue' = Tail(scaleQueue)
  /\ \/ /\ period' = Head(scaleQueue).period /\ shift' = Head(scaleQueue).shift
        /\ UNCHANGED lostScale
     \/ lostScale' = TRUE /\ UNCHANGED scaleFpga
  /\ UNCHANGED <<periodParam, scaledFor, mirror, scalePort, setBy>>

ReadPeriodMirror ==
  /\ periodParam' \in mirror /\ setBy' = "mirror" /\ mirror' = {}
  /\ UNCHANGED <<scaleFpga, scaledFor, scaleQueue, scalePort, lostScale>>

LosePeriodMirror ==
  /\ mirror # {} /\ mirror' = {}
  /\ UNCHANGED <<scaleFpga, periodParam, scaledFor, scaleQueue, scalePort, setBy, lostScale>>

ScaleNext ==
  \/ WriteSamplePeriod \/ WriteSamePeriod \/ SetPeriodParam \/ QueuePeriod
  \/ SendPeriod \/ ReadPeriodMirror \/ LosePeriodMirror

ScaleSpec == ScaleInit /\ [][ScaleNext]_scaleVars

--------------------------------------------------------------------------------
(* Properties *)

\* When no message was lost and everything written has been sent, the FPGA samples
\* as the operator wrote last.  Not promised is that of a write made before the mirror
\* was processed, nor of later ones that were not sent because the parameter then says
\* that the FPGA has it already: the first that is sent puts it right.  And once a
\* write has set the parameter, the gain and the time step are for the FPGA's period,
\* and its shift is the least that holds it.  The mirror alone leaves them as they were.
ScaleFits ==
  (settingAt = "idle" /\ scaleQueue = <<>> /\ ~lostScale) =>
    /\ \A v \in wantedPeriod : racedMirror \/ Positive(period) = Positive(v)
    /\ setBy = "write" =>
         /\ scaledFor = Positive(period)
         /\ scaledFor <= 2 ^ shift /\ (shift > 0 => scaledFor > 2 ^ (shift - 1))
================================================================================
