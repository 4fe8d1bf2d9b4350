------------------------------- MODULE Segments -------------------------------
(***************************************************************************)
(* Messages of registers too long for a UDP packet                         *)
(* (gunbLlrfApp/src/leepDrv.cpp, leepDrv.h and the poll list generated     *)
(* from srcCheetah/templateRegisterDriver.cpp.tmpl).                       *)
(*                                                                         *)
(* Whoever makes a message leaves blanks in it where packets will begin;   *)
(* sendRegRequest overwrites the first element of each with the nonce.     *)
(* Makers and senders count on their own: waveform requests, the generated *)
(* poll list, writes and reads of arrays, and of a single register.  A     *)
(* register is a number from 1, Blank an element without one, the message  *)
(* a function of the position.  The numbers are those of the code.         *)
(***************************************************************************)
EXTENDS Integers

CONSTANT MaxRegs    \* bound of the model: registers of a message

ASSUME SegmentsAssumption == MaxRegs \in Nat \ {0}

maxMsgSize == 1450      \* bytes
FpgaRegSize == 8
minRegPerMsg == 5
Elements == maxMsgSize \div FpgaRegSize
maxRegPerMsg == Elements - 1
PollSpacing == 175      \* a blank and 174 registers
Blank == 0

Kinds == {"wave", "poll", "array", "one"}

VARIABLES
  message,   \* what is sent, and how many registers it is about
  sent,      \* elements gone out
  asked,     \* registers that went out after a nonce; Blank writes 0 to address 0
  failed,    \* a write to the socket failed
  caller     \* the thread that sends

segmentVars == <<message, sent, asked, failed, caller>>

SegmentsTypeOK ==
  /\ message \in [kind : Kinds, regs : Nat \ {0}]
  /\ sent \in Nat /\ asked \subseteq Nat
  /\ failed \in BOOLEAN
  /\ caller \in {"sending", "done", "suspended"}

--------------------------------------------------------------------------------
(* What the makers lay out *)

Spacing(kind) == IF kind = "poll" THEN PollSpacing ELSE Elements

Element(kind, i) == IF i % Spacing(kind) = 0 THEN Blank ELSE i - i \div Spacing(kind)

\* Mutant: one blank for every full packet only.
WaveSizeDown(n) == n + n \div maxRegPerMsg
WaveSize(n) == n + (n + maxRegPerMsg - 1) \div maxRegPerMsg

\* With a size that is too small for its initialisers the list cannot be made.
PollSize(n) == n + n \div PollSpacing + 1
ListFits(n) == n + (n + PollSpacing - 2) \div (PollSpacing - 1) <= PollSize(n)

\* An array is sent as it is laid out: a full packet at once, the rest at the end,
\* even when nothing is left.  Of a single register only the nonce is counted.
ArraySize(n) == n + n \div maxRegPerMsg + 1

Size(m) ==
  IF m.kind = "wave" THEN WaveSize(m.regs)
  ELSE IF m.kind = "poll" THEN PollSize(m.regs)
  ELSE IF m.kind = "array" THEN ArraySize(m.regs)
  ELSE 1

\* An array of fewer than two elements is not sent.
Possible(m) ==
  /\ m.kind = "poll" => ListFits(m.regs)
  /\ m.kind = "array" => m.regs >= 2
  /\ m.kind = "one" => m.regs = 1

SegmentsInit ==
  /\ message \in {m \in [kind : Kinds, regs : 1 .. MaxRegs] : Possible(m)}
  /\ sent = 0 /\ asked = {} /\ failed = FALSE /\ caller = "sending"

--------------------------------------------------------------------------------
(* Sending *)

Remaining == Size(message) - sent
Packet == IF Remaining > Elements THEN Elements ELSE Remaining

\* sendRegRequest with too few elements.
SuspendCaller ==
  /\ caller = "sending" /\ Packet < minRegPerMsg
  /\ caller' = "suspended"
  /\ UNCHANGED <<message, sent, asked, failed>>

\* The last packet is the one that does not leave more than a packet behind it.
GoOn ==
  /\ sent' = sent + Packet
  /\ caller' = IF Remaining > Elements THEN "sending" ELSE "done"

SendSegment ==
  /\ caller = "sending" /\ Packet >= minRegPerMsg
  /\ asked' = asked \union {Element(message.kind, sent + i) : i \in 1 .. Packet - 1}
  /\ GoOn
  /\ UNCHANGED <<message, failed>>

\* sendBigBuffer stops at a failure, the arrays go on.
SegmentFails ==
  /\ caller = "sending" /\ Packet >= minRegPerMsg
  /\ failed' = TRUE
  /\ IF message.kind = "array" THEN GoOn ELSE caller' = "done" /\ UNCHANGED sent
  /\ UNCHANGED <<message, asked>>

SegmentsNext == SuspendCaller \/ SendSegment \/ SegmentFails

SegmentsSpec == SegmentsInit /\ [][SegmentsNext]_segmentVars

--------------------------------------------------------------------------------
(* Properties *)

\* The lengths for which maker and sender agree.
Safe(m) ==
  /\ m.kind = "wave" => m.regs % maxRegPerMsg \notin 1 .. minRegPerMsg - 2
  /\ m.kind = "array" => m.regs % maxRegPerMsg \notin 0 .. minRegPerMsg - 2
  /\ m.kind = "poll" => m.regs \in minRegPerMsg - 1 .. PollSpacing - 1
  /\ m.kind # "one"

\* Unless the socket fails, a message is sent to its end with every register asked
\* for behind a nonce and nothing else, and the sending thread survives, for the
\* lengths in Safe and no others.
SentIffSafe ==
  (caller # "sending" /\ ~failed) =>
    ((caller = "done" /\ asked = 1 .. message.regs) <=> Safe(message))
================================================================================
