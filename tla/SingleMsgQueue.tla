---------------------------- MODULE SingleMsgQueue ----------------------------
(***************************************************************************)
(* The single message queue of leepDrv and the thread that drains it,      *)
(* singleMessageQueuer (gunbLlrfApp/src/leepDrv.cpp).                      *)
(*                                                                         *)
(* Record processing (writeInt32, writeUInt32Digital, readInt32, ...) puts *)
(* messages of one, two or five registers on _singleMsgQ.  The queuer      *)
(* blocks for one message, adds the ones that are pending while it thinks  *)
(* they fit, and hands the packet to sendRegRequest.  The receiving thread *)
(* is a producer too: with fast waveform updates it queues the next status *)
(* request while it processes an answer.                                   *)
(*                                                                         *)
(* sendRegRequest and the receiving thread are seen through what LeepComm  *)
(* implements at the default of one parallel request: StopAndWait.         *)
(***************************************************************************)
EXTENDS Integers, Sequences, SequencesExt

CONSTANTS
  Sizes,       \* how many registers a queued message has
  QueueCap,    \* messages the queue holds (maxMsgSize, 1450)
  BufRegs,     \* registers in the packet buffer, the nonce included (181)
  MinRegs,     \* minRegPerMsg
  FastUpdate,  \* traceData_.fastUpdate
  MaxMsgs      \* bound of the model: messages put on the queue

ASSUME QueueAssumption ==
  /\ Sizes \subseteq 1 .. BufRegs - 1
  /\ QueueCap \in Nat \ {0}
  /\ MinRegs \in 2 .. BufRegs /\ BufRegs \in Nat
  /\ FastUpdate \in BOOLEAN
  /\ MaxMsgs \in Nat

RegBytes == 8                  \* sizeof(FpgaReg)
BufBytes == BufRegs * RegBytes \* sizeof(pMsgBuff)
Blank == <<0, 0>>              \* {flagReadMask, blankData}: a read of address 0

VARIABLES
  queue,        \* _singleMsgQ: sequence of [id, size]
  puts,         \* messages put on the queue so far
  accepted,     \* history: the registers of those messages, in order
  qpc,          \* where the queuer is
  buf,          \* pMsgBuff without the nonce element: buf[1] .. buf[BufRegs - 1]
  bytes,        \* sendBufByteCount
  handed,       \* history: the registers handed to sendRegRequest, in order
  lastPacket,   \* elements in the packet handed over last
  overflowed,   \* history: a message did not fit into its packet
  busy,         \* a request is waited for
  netSendCount, \* its number; it matters here only as StopAndWait's count
  hpc,          \* the receiving thread: waiting for the answer or processing it
  shuttingDown

queueVars == <<queue, puts, accepted>>
queuerVars == <<qpc, buf, bytes, handed, lastPacket, overflowed>>
engineVars == <<busy, netSendCount>>
vars == <<queueVars, queuerVars, engineVars, hpc, shuttingDown>>

Engine == INSTANCE StopAndWait WITH Wrap <- 2, count <- netSendCount

Message == [id : 1 .. MaxMsgs, size : Nat \ {0}]
Register == {Blank} \union ((1 .. MaxMsgs) \X (Nat \ {0}))

\* The registers of a message.
Regs(m) == [i \in 1 .. m.size |-> <<m.id, i>>]
\* The number of whole elements in the buffer, the nonce included.
RegCount == bytes \div RegBytes
\* memcpy of a message into the buffer from element at on (the nonce is element 0).
CopyTo(b, at, m) ==
  [k \in DOMAIN b |-> IF k \in at .. at + m.size - 1 THEN Regs(m)[k - at + 1] ELSE b[k]]
\* The registers in the first n elements of the buffer that carry something.
Filled(b, n) == FlattenSeq([k \in 1 .. n |-> IF b[k] = Blank THEN <<>> ELSE <<b[k]>>])

TypeOK ==
  /\ queue \in Seq(Message) /\ Len(queue) <= QueueCap
  /\ puts \in 0 .. MaxMsgs
  /\ accepted \in Seq(Register \ {Blank})
  /\ qpc \in {"receive", "aggregate", "send", "exited"}
  /\ buf \in [1 .. BufRegs - 1 -> Register]
  /\ bytes \in 0 .. BufBytes
  /\ handed \in Seq(Register \ {Blank})
  /\ lastPacket \in Nat
  /\ overflowed \in BOOLEAN
  /\ busy \in BOOLEAN /\ netSendCount \in 0 .. 1
  /\ hpc \in {"idle", "process", "requeue"}
  /\ shuttingDown \in BOOLEAN

Init ==
  /\ queue = <<>> /\ puts = 0 /\ accepted = <<>>
  /\ qpc = "receive" /\ buf = [k \in 1 .. BufRegs - 1 |-> Blank] /\ bytes = 0
  /\ handed = <<>> /\ lastPacket = MinRegs /\ overflowed = FALSE
  /\ Engine!Init
  /\ hpc = "idle" /\ shuttingDown = FALSE

--------------------------------------------------------------------------------
(* Producers *)

\* epicsMessageQueue::send blocks while the queue is full.
Put(size) ==
  LET m == [id |-> puts + 1, size |-> size]
  IN /\ Len(queue) < QueueCap
     /\ puts' = puts + 1
     /\ queue' = Append(queue, m)
     /\ accepted' = accepted \o Regs(m)

\* Record processing, and the waveform requesters' acknowledgements.  The bound
\* keeps one message in reserve for a receiving thread that is about to queue one.
Produce ==
  /\ puts < (IF hpc = "requeue" THEN MaxMsgs - 1 ELSE MaxMsgs)
  /\ \E size \in Sizes : Put(size)
  /\ UNCHANGED <<queuerVars, engineVars, hpc, shuttingDown>>

--------------------------------------------------------------------------------
(* singleMessageQueuer *)

\* The first MinRegs elements are blanked, then one message is received behind
\* the nonce.
Receive ==
  /\ qpc = "receive" /\ queue # <<>>
  /\ LET blanked == [k \in DOMAIN buf |-> IF k < MinRegs THEN Blank ELSE buf[k]]
         m == Head(queue)
     IN /\ buf' = CopyTo(blanked, 1, m)
        /\ bytes' = RegBytes + RegBytes * m.size
  /\ queue' = Tail(queue)
  /\ qpc' = IF shuttingDown THEN "exited" ELSE "aggregate"
  /\ UNCHANGED <<puts, accepted, handed, lastPacket, overflowed, engineVars, hpc, shuttingDown>>

\* The test adds a number of messages to a number of bytes.
SeemsToFit == Len(queue) + bytes < BufBytes

FitsAlways(m) == TRUE         \* mutant: the rest of the buffer is not checked
\* tryReceive copies the message when it fits into the rest of the buffer.  When
\* it does not, the message is gone all the same and the result is -1, which is
\* added to the byte count.
Fits(m) == RegBytes * m.size <= BufBytes - bytes

Aggregate ==
  /\ qpc = "aggregate" /\ queue # <<>> /\ SeemsToFit
  /\ LET m == Head(queue)
     IN \/ /\ Fits(m)
           /\ buf' = CopyTo(buf, RegCount, m)
           /\ bytes' = bytes + RegBytes * m.size
           /\ UNCHANGED overflowed
        \/ /\ ~Fits(m)
           /\ bytes' = bytes - 1
           /\ overflowed' = TRUE
           /\ UNCHANGED buf
  /\ queue' = Tail(queue)
  /\ UNCHANGED <<puts, accepted, qpc, handed, lastPacket, engineVars, hpc, shuttingDown>>

\* Nothing is pending, or the packet seems to be full.
StopAggregating ==
  /\ qpc = "aggregate" /\ (queue = <<>> \/ ~SeemsToFit)
  /\ qpc' = "send"
  /\ UNCHANGED <<queueVars, buf, bytes, handed, lastPacket, overflowed, engineVars, hpc, shuttingDown>>

\* Short packets are padded with the blanks up to the FPGA's minimum.
PacketSizeUnpadded == RegCount     \* mutant: the minimum is forgotten
PacketSizeShort == IF RegCount < MinRegs THEN MinRegs ELSE RegCount - 1  \* mutant: off by one
PacketSize == IF RegCount < MinRegs THEN MinRegs ELSE RegCount

\* sendRegRequest, which is throttled while an answer is waited for.  Whether the
\* write succeeds or fails, the packet is not kept for another try.
SendPacket ==
  /\ qpc = "send" /\ Engine!Issue
  /\ handed' = handed \o Filled(buf, PacketSize - 1)
  /\ lastPacket' = PacketSize
  /\ qpc' = "receive"
  /\ UNCHANGED <<queueVars, buf, bytes, overflowed, hpc, shuttingDown>>

\* A throttled queuer leaves when the driver shuts down.
SendDisconnected ==
  /\ qpc = "send" /\ busy /\ shuttingDown
  /\ qpc' = "exited"
  /\ UNCHANGED <<queueVars, buf, bytes, handed, lastPacket, overflowed, engineVars, hpc, shuttingDown>>

Queuer == Receive \/ Aggregate \/ StopAggregating \/ SendPacket \/ SendDisconnected

--------------------------------------------------------------------------------
(* The receiving thread *)

\* It has an answer to process, or it gives up.
Answer == hpc = "idle" /\ busy /\ hpc' = "process" /\ UNCHANGED engineVars

GiveUp == hpc = "idle" /\ Engine!Settle /\ UNCHANGED hpc

\* The answer says that no waveform is ready yet: with fast updates the next
\* status request is queued from within processRegReadback ...
Requeue ==
  /\ hpc = "requeue" /\ FastUpdate
  /\ Put(1)
  /\ hpc' = "process"
  /\ UNCHANGED <<queuerVars, engineVars, shuttingDown>>

NotReady ==
  /\ hpc = "process" /\ FastUpdate /\ puts < MaxMsgs
  /\ hpc' = "requeue"
  /\ UNCHANGED engineVars

\* ... and only when the whole answer is processed is the request settled.
SettledEarly == hpc = "process" /\ UNCHANGED engineVars /\ hpc' = "idle"  \* mutant: not settled
Settled == hpc = "process" /\ Engine!Settle /\ hpc' = "idle"

Receiver ==
  \/ (Answer \/ GiveUp \/ NotReady \/ Settled) /\ UNCHANGED <<queueVars, queuerVars, shuttingDown>>
  \/ Requeue

\* shutdown() sets the flag; it does not wake a queuer that waits for a message.
Shutdown ==
  /\ ~shuttingDown /\ shuttingDown' = TRUE
  /\ UNCHANGED <<queueVars, queuerVars, engineVars, hpc>>

Next == Produce \/ Queuer \/ Receiver \/ Shutdown

Spec == Init /\ [][Next]_vars

\* The queuer and the receiving thread run whenever they can.
FairSpec == Spec /\ WF_vars(Queuer) /\ WF_vars(Receiver)

--------------------------------------------------------------------------------
(* Properties *)

\* What is in the packet being filled and what is still queued.
InBuffer == IF qpc \in {"aggregate", "send"} THEN Filled(buf, RegCount - 1) ELSE <<>>
Queued == FlattenSeq([i \in DOMAIN queue |-> Regs(queue[i])])

\* "They will be sent out in the order queued" (comment of singleMessageQueuer):
\* until shutdown, every register put on the queue has been handed to
\* sendRegRequest, is in the packet, or is queued, once and in order.
SentInOrder == qpc # "exited" => accepted = handed \o InBuffer \o Queued

\* ... which is so as long as no message was received that did not fit.
SentUnlessOverflowed == ~overflowed => SentInOrder

\* sendRegRequest is only called with a packet the FPGA can take (fewer elements
\* than MinRegs suspend the calling thread) and the buffer is never overrun.
PacketFits ==
  /\ bytes <= BufBytes
  /\ lastPacket \in MinRegs .. BufRegs

\* The receiving thread waits for room in the queue, the queuer for an answer that
\* only the receiving thread can process.
Wedged == hpc = "requeue" /\ Len(queue) = QueueCap /\ qpc = "send" /\ busy

\* Until shutdown, whatever is queued is eventually handed over: that ring is the
\* only way for the queuer, the receiving thread and the full queue between them to
\* get stuck.  (PollsAgain is violated by the ring itself.)
Drains == queue # <<>> ~> (queue = <<>> \/ shuttingDown \/ Wedged)

\* "When fast waveform updates are enabled, poll the flag again as soon as we get
\* a response": the receiving thread is never stuck queueing the status request.
PollsAgain == hpc = "requeue" ~> (hpc = "process" \/ shuttingDown)
================================================================================
