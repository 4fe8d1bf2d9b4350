------------------------------- MODULE Setpoints -------------------------------
(***************************************************************************)
(* What the driver says a setting is and what the FPGA has been set to     *)
(* (gunbLlrfApp/src/leepDrv.cpp, GUNBLlrfDev.cpp and the driver generated  *)
(* from srcCheetah/templateRegisterDriver.cpp.tmpl).                       *)
(*                                                                         *)
(* A setting is written by the operator and overwritten by the receiving   *)
(* thread, which takes no lock for it, from four kinds of answers: the     *)
(* echo of a write, the readback asked for with it, the register poll, and *)
(* the mirror of all write registers that is read once at startup.  Three  *)
(* registers stand for the ways they are treated:                          *)
(*   "keep"   the waveform channels (KeepW/KeepR): the setting is both a   *)
(*            parameter and chanKeep, echo and readback set both;          *)
(*   "checked" ModuloW and its like: the echo is compared with the         *)
(*            parameter, the readback overwrites the parameter;            *)
(*   "plain"  every other register: the readback goes to a parameter of    *)
(*            its own.                                                     *)
(*                                                                         *)
(* Requests are answered in order.  They are not limited to one at a time  *)
(* here: every interleaving of LeepComm at any number is one of these.     *)
(***************************************************************************)
EXTENDS Integers, Sequences

CONSTANTS
  Values,      \* what a register may hold
  Zero,        \* and what a parameter is at startup
  MaxInFlight, \* bounds of the model: answers in flight,
  MaxWrites,   \* settings written,
  MaxLosses    \* and requests or answers lost

ASSUME SetpointAssumption ==
  /\ Zero \in Values
  /\ {MaxInFlight, MaxWrites, MaxLosses} \subseteq Nat
  /\ MaxInFlight >= 1   \* the mirror is in flight at the start

Regs == {"keep", "checked", "plain"}

VARIABLES
  fpga,      \* the registers
  param,     \* their write parameters; for "keep" p_TraceDataChanEnable
  chanKeep,  \* traceData_.chanKeep
  queue,     \* _singleMsgQ: [reg, value]
  wire,      \* answers in flight, oldest first; each a sequence of items
  wpc,       \* the port thread, in a write: [at, reg, value]
  hpc,       \* the receiving thread: between two items, or about to show chanKeep
  todo,      \* what is left of the answer it is processing
  mismatch,  \* history: an echo differed from the parameter (p_CommErrorCount)
  written,   \* history: the last value the operator wrote to each register, if any
  raced,     \* history: something was written before the mirror was processed
  writes, losses

port == <<wpc, written, raced, writes>>
receiver == <<hpc, todo, mismatch>>
vars == <<fpga, param, chanKeep, queue, wire, port, receiver, losses>>

Unwritten == "unwritten"
Idle == [at |-> "idle", reg |-> "keep", value |-> Zero]
Item == [kind : {"echo", "read", "mirror"}, reg : Regs, value : Values]
Mirror(values) == << [kind |-> "mirror", reg |-> "checked", value |-> values["checked"]],
                     [kind |-> "mirror", reg |-> "plain", value |-> values["plain"]] >>

TypeOK ==
  /\ fpga \in [Regs -> Values] /\ param \in [Regs -> Values] /\ chanKeep \in Values
  /\ queue \in Seq([reg : Regs, value : Values])
  /\ wire \in Seq(Seq(Item)) /\ Len(wire) <= MaxInFlight
  /\ wpc \in [at : {"idle", "keep", "send", "set"}, reg : Regs, value : Values]
  /\ hpc \in {"item", "show"} /\ todo \in Seq(Item) /\ mismatch \in BOOLEAN
  /\ written \in [Regs -> Values \union {Unwritten}] /\ raced \in BOOLEAN
  /\ writes \in 0 .. MaxWrites /\ losses \in 0 .. MaxLosses

\* The constructor has asked for the mirror; the operator cannot write before.
Init ==
  /\ fpga \in [Regs -> Values]
  /\ param = [r \in Regs |-> Zero] /\ chanKeep = Zero
  /\ queue = <<>> /\ wire = <<Mirror(fpga)>>
  /\ wpc = Idle /\ hpc = "item" /\ todo = <<>> /\ mismatch = FALSE
  /\ written = [r \in Regs |-> Unwritten] /\ raced = FALSE /\ writes = 0 /\ losses = 0

--------------------------------------------------------------------------------
(* The port thread: writeUInt32Digital, writeInt32.  The port is locked, so there *)
(* is one write at a time, but the receiving thread runs between its steps.       *)

Mirrored == \A a \in {wire[i] : i \in DOMAIN wire} \union {todo} : a = <<>> \/ a[1].kind # "mirror"

\* A write starts.
Begin(reg, v) ==
  /\ wpc.at = "idle" /\ writes < MaxWrites /\ writes' = writes + 1
  /\ written' = [written EXCEPT ![reg] = v]
  /\ raced' = (raced \/ ~Mirrored)

\* The channels: the parameter is set first, then chanKeep, then the message queued.
WriteKeep ==
  \E v \in Values :
    /\ Begin("keep", v)
    /\ param' = [param EXCEPT !["keep"] = v]
    /\ wpc' = [at |-> "keep", reg |-> "keep", value |-> v]
    /\ UNCHANGED <<fpga, chanKeep, queue, wire, receiver, losses>>

SetChanKeep ==
  /\ wpc.at = "keep" /\ wpc' = [wpc EXCEPT !.at = "send"]
  /\ chanKeep' = wpc.value
  /\ UNCHANGED <<fpga, param, queue, wire, written, raced, writes, receiver, losses>>

\* Any other register: writeInt32 queues the message before it sets the parameter.
WriteInt32 ==
  \E reg \in Regs \ {"keep"}, v \in Values :
    /\ Begin(reg, v)
    /\ wpc' = [at |-> "send", reg |-> reg, value |-> v]
    /\ UNCHANGED <<fpga, param, chanKeep, queue, wire, receiver, losses>>

QueueWrite ==
  /\ wpc.at = "send"
  /\ queue' = Append(queue, [reg |-> wpc.reg, value |-> wpc.value])
  /\ wpc' = IF wpc.reg = "keep" THEN Idle ELSE [wpc EXCEPT !.at = "set"]
  /\ UNCHANGED <<fpga, param, chanKeep, wire, written, raced, writes, receiver, losses>>

SetParam ==
  /\ wpc.at = "set" /\ wpc' = Idle
  /\ param' = [param EXCEPT ![wpc.reg] = wpc.value]
  /\ UNCHANGED <<fpga, chanKeep, queue, wire, written, raced, writes, receiver, losses>>

Port == WriteKeep \/ SetChanKeep \/ WriteInt32 \/ QueueWrite \/ SetParam

--------------------------------------------------------------------------------
(* The network and the FPGA, as this code uses them *)

\* Mutant: the throttle is forgotten.
SendWriteAlways ==
  /\ queue # <<>> /\ queue' = Tail(queue)
  /\ LET reg == Head(queue).reg
         v == Head(queue).value
     IN /\ fpga' = [fpga EXCEPT ![reg] = v]
        /\ wire' = Append(wire, << [kind |-> "echo", reg |-> reg, value |-> v],
                                   [kind |-> "read", reg |-> reg, value |-> v] >>)
  /\ UNCHANGED <<param, chanKeep, port, receiver, losses>>

\* A queued message is a write and a read of the same register: it is sent and
\* carried out, or lost on the way.
SendWrite ==
  /\ queue # <<>> /\ queue' = Tail(queue) /\ Len(wire) < MaxInFlight
  /\ LET reg == Head(queue).reg
         v == Head(queue).value
     IN \/ /\ fpga' = [fpga EXCEPT ![reg] = v]
           /\ wire' = Append(wire, << [kind |-> "echo", reg |-> reg, value |-> v],
                                      [kind |-> "read", reg |-> reg, value |-> v] >>)
           /\ UNCHANGED losses
        \/ /\ losses < MaxLosses /\ losses' = losses + 1
           /\ UNCHANGED <<fpga, wire>>
  /\ UNCHANGED <<param, chanKeep, port, receiver>>

\* The register poller reads every readable register; write-only ones are not
\* among them, and of the others only "keep" is also a setting.
Poll ==
  /\ Len(wire) < MaxInFlight /\ \A i \in DOMAIN wire : Len(wire[i]) > 1   \* one at a time
  /\ wire' = Append(wire, << [kind |-> "read", reg |-> "keep", value |-> fpga["keep"]] >>)
  /\ UNCHANGED <<fpga, param, chanKeep, queue, port, receiver, losses>>

Lose ==
  /\ wire # <<>> /\ wire' = Tail(wire)
  /\ losses < MaxLosses /\ losses' = losses + 1
  /\ UNCHANGED <<fpga, param, chanKeep, queue, port, receiver>>

Network == SendWrite \/ Poll \/ Lose

--------------------------------------------------------------------------------
(* The receiving thread: processReadbackBuffer and what it calls per register *)

TakeAnswer ==
  /\ hpc = "item" /\ todo = <<>> /\ wire # <<>>
  /\ todo' = Head(wire) /\ wire' = Tail(wire)
  /\ UNCHANGED <<fpga, param, chanKeep, queue, port, hpc, mismatch, losses>>

Handle(kind, reg) ==
  /\ hpc = "item" /\ todo # <<>> /\ todo' = Tail(todo)
  /\ todo[1].kind = kind /\ todo[1].reg = reg
Value == todo[1].value

\* The echo of KeepW sets chanKeep, and then the parameter from chanKeep.
EchoKeep ==
  /\ Handle("echo", "keep")
  /\ chanKeep' = Value
  /\ hpc' = "show"
  /\ UNCHANGED <<fpga, param, queue, wire, port, mismatch, losses>>

\* Mutant: a readback does not change the channels.
ReadKeepIgnored ==
  /\ Handle("read", "keep")
  /\ UNCHANGED <<fpga, param, chanKeep, queue, wire, port, hpc, mismatch, losses>>

\* The readback of KeepR does so only when chanKeep differs.
ReadKeep ==
  /\ Handle("read", "keep")
  /\ \/ Value # chanKeep /\ chanKeep' = Value /\ hpc' = "show"
     \/ Value = chanKeep /\ UNCHANGED <<chanKeep, hpc>>
  /\ UNCHANGED <<fpga, param, queue, wire, port, mismatch, losses>>

ShowKeep ==
  /\ hpc = "show" /\ hpc' = "item"
  /\ param' = [param EXCEPT !["keep"] = chanKeep]
  /\ UNCHANGED <<fpga, chanKeep, queue, wire, port, todo, mismatch, losses>>

\* The echo is compared with what the parameter says was sent.
EchoChecked ==
  /\ Handle("echo", "checked")
  /\ mismatch' = (mismatch \/ Value # param["checked"])
  /\ UNCHANGED <<fpga, param, chanKeep, queue, wire, port, hpc, losses>>

\* Mutant: the readback is not stored.
StoreReadbackNot == param
StoreReadback == [param EXCEPT !["checked"] = Value]

ReadChecked ==
  /\ Handle("read", "checked")
  /\ param' = StoreReadback
  /\ UNCHANGED <<fpga, chanKeep, queue, wire, port, hpc, mismatch, losses>>

\* Echo and readback of the others leave the write parameter alone.
IgnorePlain ==
  /\ Handle("echo", "plain") \/ Handle("read", "plain")
  /\ UNCHANGED <<fpga, param, chanKeep, queue, wire, port, hpc, mismatch, losses>>

\* The mirror initialises the parameter, whatever it is by then.
ReadMirror ==
  /\ \E reg \in Regs \ {"keep"} :
       /\ Handle("mirror", reg)
       /\ param' = [param EXCEPT ![reg] = Value]
  /\ UNCHANGED <<fpga, chanKeep, queue, wire, port, hpc, mismatch, losses>>

Receiver ==
  \/ TakeAnswer \/ EchoKeep \/ ReadKeep \/ ShowKeep
  \/ EchoChecked \/ ReadChecked \/ IgnorePlain \/ ReadMirror

Next == Port \/ Network \/ Receiver

Spec == Init /\ [][Next]_vars

\* The threads run; the poller polls; the operator need not write.
FairSpec ==
  /\ Spec
  /\ WF_vars(SetChanKeep \/ QueueWrite \/ SetParam)
  /\ WF_vars(Receiver)
  /\ SF_vars(SendWrite) /\ SF_vars(Poll)

--------------------------------------------------------------------------------
(* Properties *)

Quiet == wpc.at = "idle" /\ queue = <<>> /\ wire = <<>> /\ todo = <<>> /\ hpc = "item"

\* As long as nothing is lost, once everything written has been answered the
\* registers hold the last values written, and the parameters and chanKeep agree
\* with them, although older answers may have overwritten newer settings on the
\* way.  For a plain register this needs the mirror to be processed first.
AgreeWhenQuiet ==
  (Quiet /\ losses = 0) =>
     \A r \in Regs :
       written[r] # Unwritten =>
         /\ fpga[r] = written[r]
         /\ param[r] = fpga[r] \/ (r = "plain" /\ raced)
         /\ r = "keep" => chanKeep = fpga[r]

\* Whatever is lost, the channels the driver unpacks waveforms with are in the end
\* the ones the FPGA sends.
KeepHeals == <>[](chanKeep = fpga["keep"])
================================================================================
