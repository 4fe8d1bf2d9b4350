---------------------------- MODULE SetpointsProofs ----------------------------
(***************************************************************************)
(* Why settings and registers agree in the end, for any values, any number *)
(* of writes and any number of answers in flight.                          *)
(*                                                                         *)
(* What is still to be done for a setting is spread over the port thread,  *)
(* the queue, the answers in flight and the answer being processed.  The   *)
(* argument is about the last of each in that stream: the last write of a  *)
(* register is that of the operator (LastWrite), the last readback has the *)
(* value the FPGA has (LastRead), so whoever is overwritten by an older    *)
(* answer is repaired by a later one (Heals), and the mirror is ahead of   *)
(* all of them (Shape).                                                    *)
(***************************************************************************)
EXTENDS Setpoints, TLAPS

--------------------------------------------------------------------------------
(* The stream *)

Has(a, kind, reg) == \E j \in 1 .. Len(a) : a[j].kind = kind /\ a[j].reg = reg
ToCome(kind, reg) ==
  Has(todo, kind, reg) \/ \E i \in 1 .. Len(wire) : Has(wire[i], kind, reg)

ReadsAs(a, reg, v) ==
  \A j \in 1 .. Len(a) : a[j].kind = "read" /\ a[j].reg = reg => a[j].value = v
LastRead(reg) ==
  /\ \A i \in 1 .. Len(wire) :
       \/ ReadsAs(wire[i], reg, fpga[reg])
       \/ \E k \in i + 1 .. Len(wire) : Has(wire[k], "read", reg)
  /\ \/ ReadsAs(todo, reg, fpga[reg])
     \/ \E k \in 1 .. Len(wire) : Has(wire[k], "read", reg)

\* An echo is followed by its readback, and a mirror holds nothing else.
WellFormed(a) ==
  /\ \A j \in 1 .. Len(a) : a[j].kind = "echo" =>
       j + 1 \in 1 .. Len(a) /\ a[j + 1].kind = "read" /\ a[j + 1].reg = a[j].reg
  /\ \A j, k \in 1 .. Len(a) : a[j].kind = "mirror" => a[k].kind = "mirror"

IsMirror(a) == Len(a) > 0 /\ a[1].kind = "mirror"
MirrorToCome == IsMirror(todo) \/ \E i \in 1 .. Len(wire) : IsMirror(wire[i])

Shape ==
  /\ WellFormed(todo) /\ \A i \in 1 .. Len(wire) : WellFormed(wire[i])
  /\ \A i \in 1 .. Len(wire) : IsMirror(wire[i]) => i = 1 /\ todo = <<>>

Sending(reg) == wpc.reg = reg /\ wpc.at \in {"keep", "send"}
Queued(reg) == \E i \in 1 .. Len(queue) : queue[i].reg = reg
Pending(reg) == Sending(reg) \/ Queued(reg)

LastWrite(reg) ==
  written[reg] # Unwritten =>
    /\ (wpc.reg = reg /\ wpc.at # "idle") => wpc.value = written[reg]
    /\ \/ Sending(reg)
       \/ \A i \in 1 .. Len(queue) : queue[i].reg = reg =>
            \/ queue[i].value = written[reg]
            \/ \E k \in i + 1 .. Len(queue) : queue[k].reg = reg
    /\ Pending(reg) \/ fpga[reg] = written[reg] \/ losses > 0

--------------------------------------------------------------------------------
(* The inductive invariant *)

\* x, a copy of the register, is right or will be repaired.
Heals(reg, x) ==
  (losses = 0 /\ written[reg] # Unwritten) =>
    Pending(reg) \/ ToCome("read", reg) \/ x = fpga[reg]

\* The parameter of the channels follows chanKeep.
KeepShown ==
  losses = 0 =>
    \/ Pending("keep") \/ ToCome("echo", "keep")
    \/ param["keep"] = chanKeep \/ hpc = "show"

\* What the mirror overwrites is repaired.
MirrorRepaired ==
  (losses = 0 /\ written["checked"] # Unwritten /\ MirrorToCome) =>
    Pending("checked") \/ ToCome("read", "checked")

\* Nobody repairs a plain register, but nothing else overwrites it.
PlainKept ==
  (written["plain"] # Unwritten /\ ~raced) =>
    /\ ~MirrorToCome
    /\ \/ wpc.reg = "plain" /\ wpc.at \in {"send", "set"}
       \/ param["plain"] = written["plain"]

Types ==
  /\ fpga \in [Regs -> Values] /\ param \in [Regs -> Values] /\ chanKeep \in Values
  /\ queue \in Seq([reg : Regs, value : Values])
  /\ wire \in Seq(Seq(Item)) /\ todo \in Seq(Item)
  /\ wpc \in [at : {"idle", "keep", "send", "set"}, reg : Regs, value : Values]
  /\ wpc.at = "set" => wpc.reg # "keep"
  /\ wpc.at = "keep" => wpc.reg = "keep"
  /\ hpc \in {"item", "show"}
  /\ written \in [Regs -> Values \union {Unwritten}]
  /\ losses \in Nat

SetInv ==
  /\ Types /\ Shape
  /\ \A reg \in Regs : (losses = 0 => LastRead(reg)) /\ LastWrite(reg)
  /\ Heals("keep", chanKeep) /\ Heals("checked", param["checked"])
  /\ KeepShown /\ MirrorRepaired /\ PlainKept

--------------------------------------------------------------------------------
(* What the steps do to the stream *)

WriteAnswer(reg, v) == << [kind |-> "echo", reg |-> reg, value |-> v],
                          [kind |-> "read", reg |-> reg, value |-> v] >>
PollAnswer(v) == << [kind |-> "read", reg |-> "keep", value |-> v] >>

Same == wire' = wire /\ todo' = todo /\ fpga' = fpga
Next1 == todo # <<>> /\ todo' = Tail(todo) /\ wire' = wire /\ fpga' = fpga
Taken == wire # <<>> /\ todo = <<>> /\ todo' = Head(wire) /\ wire' = Tail(wire) /\ fpga' = fpga
Lost ==
  wire # <<>> /\ todo' = todo /\ wire' = Tail(wire) /\ fpga' = fpga /\ losses' = losses + 1
Polled == wire' = Append(wire, PollAnswer(fpga["keep"])) /\ todo' = todo /\ fpga' = fpga
Wrote(reg, v) ==
  /\ fpga' = [fpga EXCEPT ![reg] = v] /\ wire' = Append(wire, WriteAnswer(reg, v))
  /\ todo' = todo

\* The first item is dropped.
LEMMA TailFacts ==
  ASSUME NEW S, NEW s \in Seq(S), s # <<>>
  PROVE  /\ Len(s) \in Nat \ {0} /\ Head(s) = s[1] /\ s[1] \in S
         /\ Tail(s) \in Seq(S) /\ Len(Tail(s)) = Len(s) - 1
         /\ \A i \in 1 .. Len(Tail(s)) : i + 1 \in 2 .. Len(s) /\ Tail(s)[i] = s[i + 1]
         /\ \A i \in 2 .. Len(s) : i - 1 \in 1 .. Len(Tail(s)) /\ s[i] = Tail(s)[i - 1]
OBVIOUS

LEMMA AppendFacts ==
  ASSUME NEW S, NEW s \in Seq(S), NEW x \in S
  PROVE  /\ Append(s, x) \in Seq(S) /\ Len(Append(s, x)) = Len(s) + 1 /\ Len(s) \in Nat
         /\ \A i \in 1 .. Len(s) : Append(s, x)[i] = s[i]
         /\ Append(s, x)[Len(s) + 1] = x
         /\ \A i \in 1 .. Len(Append(s, x)) : i \in 1 .. Len(s) \/ i = Len(s) + 1
OBVIOUS

\* Every step changes the stream in one of these ways.
LEMMA Streams ==
  ASSUME Types, [Next]_vars
  PROVE  \/ Same \/ Next1 \/ Taken \/ Lost \/ Polled
         \/ \E reg \in Regs, v \in Values : Wrote(reg, v)
<1>1. CASE Port \/ ShowKeep \/ UNCHANGED vars
  BY <1>1 DEF Port, WriteKeep, SetChanKeep, WriteInt32, QueueWrite, SetParam, ShowKeep,
              receiver, vars, Same
<1>2. CASE Poll \/ Lose
  BY <1>2 DEF Poll, Lose, receiver, Polled, PollAnswer, Lost
<1>3. CASE SendWrite
  <2>1. Head(queue) \in [reg : Regs, value : Values]
    <3> DEFINE M == [reg : Regs, value : Values]
    <3>1. queue \in Seq(M) /\ queue # <<>>
      BY <1>3 DEF SendWrite, Types
    <3> HIDE DEF M
    <3>2. Head(queue) \in M
      BY <3>1
    <3> QED
      BY <3>2 DEF M
  <2> QED
    BY <1>3, <2>1 DEF SendWrite, receiver, Wrote, WriteAnswer, Same
<1>4. CASE TakeAnswer
  BY <1>4 DEF TakeAnswer, Taken
<1>5. CASE EchoKeep \/ ReadKeep \/ EchoChecked \/ ReadChecked \/ IgnorePlain \/ ReadMirror
  BY <1>5 DEF EchoKeep, ReadKeep, EchoChecked, ReadChecked, IgnorePlain, ReadMirror, Handle, Next1
<1> QED
  BY <1>1, <1>2, <1>3, <1>4, <1>5 DEF Next, Network, Receiver

\* The answers the FPGA gives.
LEMMA AnswerFacts ==
  ASSUME NEW reg \in Regs, NEW v \in Values
  PROVE  /\ WriteAnswer(reg, v) \in Seq(Item) /\ Len(WriteAnswer(reg, v)) = 2
         /\ WriteAnswer(reg, v)[1].kind = "echo" /\ WriteAnswer(reg, v)[1].reg = reg
         /\ WriteAnswer(reg, v)[2].kind = "read" /\ WriteAnswer(reg, v)[2].reg = reg
         /\ WriteAnswer(reg, v)[2].value = v
         /\ PollAnswer(v) \in Seq(Item) /\ Len(PollAnswer(v)) = 1
         /\ PollAnswer(v)[1].kind = "read" /\ PollAnswer(v)[1].reg = "keep"
         /\ PollAnswer(v)[1].value = v
BY DEF WriteAnswer, PollAnswer, Item, Regs

\* Nothing but the mirror comes before the answers to the writes.
LEMMA ShapeStep ==
  ASSUME Types, Shape, [Next]_vars
  PROVE  Shape'
<1>1. CASE Same
  BY <1>1 DEF Shape, Same
<1>2. CASE Next1
  <2>1. /\ todo \in Seq(Item) /\ todo # <<>> /\ todo' = Tail(todo) /\ wire' = wire
        /\ WellFormed(todo)
    BY <1>2 DEF Types, Next1, Shape
  <2>2. WellFormed(Tail(todo))
    BY <2>1, TailFacts DEF WellFormed
  <2>3. \A i \in 1 .. Len(wire) : WellFormed(wire[i]) /\ ~IsMirror(wire[i])
    BY <2>1 DEF Shape
  <2> QED
    BY <2>1, <2>2, <2>3 DEF Shape
<1>3. CASE Taken \/ Lost
  <2>1. wire \in Seq(Seq(Item)) /\ wire # <<>> /\ wire' = Tail(wire)
    BY <1>3 DEF Types, Taken, Lost
  <2>2. \A i \in 1 .. Len(Tail(wire)) : WellFormed(Tail(wire)[i]) /\ ~IsMirror(Tail(wire)[i])
    BY <2>1, TailFacts DEF Shape
  <2>3. todo' = todo \/ todo' = wire[1]
    BY <1>3, <2>1, TailFacts DEF Taken, Lost
  <2>4. WellFormed(todo')
    BY <2>1, <2>3, TailFacts DEF Shape
  <2> QED
    BY <2>1, <2>2, <2>4 DEF Shape
<1>4. ASSUME NEW a \in Seq(Item), wire' = Append(wire, a), todo' = todo,
             WellFormed(a), ~IsMirror(a)
      PROVE  Shape'
  <2>1. wire \in Seq(Seq(Item))
    BY DEF Types
  <2> QED
    BY <1>4, <2>1, AppendFacts DEF Shape
<1>5. CASE Polled
  <2>1. fpga["keep"] \in Values
    BY DEF Types, Regs
  <2>2. WellFormed(PollAnswer(fpga["keep"])) /\ ~IsMirror(PollAnswer(fpga["keep"]))
    <3>1. \A j \in 1 .. 1 : j = 1
      OBVIOUS
    <3>2. "keep" \in Regs
      BY DEF Regs
    <3>3. Len(PollAnswer(fpga["keep"])) = 1 /\ PollAnswer(fpga["keep"])[1].kind = "read"
      BY <2>1, <3>2, AnswerFacts
    <3> QED
      BY <3>1, <3>3 DEF WellFormed, IsMirror
  <2> QED
    BY <1>4, <1>5, <2>1, <2>2, AnswerFacts DEF Polled, Regs
<1>6. ASSUME NEW reg \in Regs, NEW v \in Values, Wrote(reg, v)
      PROVE  Shape'
  <2>1. WellFormed(WriteAnswer(reg, v)) /\ ~IsMirror(WriteAnswer(reg, v))
    <3> DEFINE a == WriteAnswer(reg, v)
    <3>1. /\ Len(a) = 2 /\ a[1].kind = "echo" /\ a[1].reg = reg
          /\ a[2].kind = "read" /\ a[2].reg = reg
      BY AnswerFacts
    <3>2. \A j \in 1 .. 2 : j = 1 \/ j = 2
      OBVIOUS
    <3> HIDE DEF a
    <3>3. WellFormed(a) /\ ~IsMirror(a)
      BY <3>1, <3>2 DEF WellFormed, IsMirror
    <3> QED
      BY <3>3 DEF a
  <2> QED
    BY <1>4, <1>6, <2>1, AnswerFacts DEF Wrote
<1> QED
  BY <1>1, <1>2, <1>3, <1>5, <1>6, Streams


\* The last readback in flight has what the register holds.
LEMMA LastReadStep ==
  ASSUME Types, NEW r \in Regs, LastRead(r), [Next]_vars, losses' = 0
  PROVE  LastRead(r)'
<1>1. CASE Same
  BY <1>1 DEF LastRead, Same
<1>2. CASE Next1
  <2>1. /\ todo \in Seq(Item) /\ todo # <<>> /\ todo' = Tail(todo)
        /\ wire' = wire /\ fpga' = fpga
    BY <1>2 DEF Types, Next1
  <2>2. ReadsAs(todo, r, fpga[r]) => ReadsAs(Tail(todo), r, fpga[r])
    BY <2>1, TailFacts DEF ReadsAs
  <2> QED
    BY <2>1, <2>2 DEF LastRead
<1>3. CASE Taken
  <2>1. wire \in Seq(Seq(Item)) /\ wire # <<>> /\ wire' = Tail(wire) /\ fpga' = fpga
        /\ todo' = wire[1]
    BY <1>3, TailFacts DEF Types, Taken
  <2>2. \A k \in 2 .. Len(wire) : k - 1 \in 1 .. Len(Tail(wire)) /\ wire[k] = Tail(wire)[k - 1]
    BY <2>1, TailFacts
  <2>3. ASSUME NEW i \in 1 .. Len(Tail(wire))
        PROVE  \/ ReadsAs(Tail(wire)[i], r, fpga[r])
               \/ \E k \in i + 1 .. Len(Tail(wire)) : Has(Tail(wire)[k], "read", r)
    <3>1. i + 1 \in 1 .. Len(wire) /\ Tail(wire)[i] = wire[i + 1] /\ i \in Nat
      BY <2>1, TailFacts
    <3>2. ASSUME NEW k \in i + 1 + 1 .. Len(wire)
          PROVE  k - 1 \in i + 1 .. Len(Tail(wire)) /\ wire[k] = Tail(wire)[k - 1]
      BY <2>1, <2>2, <3>1, TailFacts
    <3> QED
      BY <3>1, <3>2 DEF LastRead
  <2>4. \/ ReadsAs(wire[1], r, fpga[r])
        \/ \E k \in 1 .. Len(Tail(wire)) : Has(Tail(wire)[k], "read", r)
    <3>1. 1 \in 1 .. Len(wire) /\ 1 + 1 = 2
      BY <2>1, TailFacts
    <3> QED
      BY <2>2, <3>1 DEF LastRead
  <2> QED
    BY <2>1, <2>3, <2>4 DEF LastRead
<1>4. CASE Lost
  BY <1>4 DEF Lost, Types
\* Whatever is appended either reads as the register does or is no readback of it.
<1>5. ASSUME NEW a \in Seq(Item), wire' = Append(wire, a), todo' = todo,
             ReadsAs(a, r, fpga'[r]), fpga'[r] = fpga[r] \/ Has(a, "read", r)
      PROVE  LastRead(r)'
  <2>1. /\ Len(wire) \in Nat /\ Len(wire') = Len(wire) + 1 /\ wire'[Len(wire) + 1] = a
        /\ \A i \in 1 .. Len(wire) : wire'[i] = wire[i]
        /\ \A i \in 1 .. Len(wire') : i \in 1 .. Len(wire) \/ i = Len(wire) + 1
    BY <1>5, AppendFacts DEF Types
  <2>2. Has(a, "read", r) => \A i \in 0 .. Len(wire) :
          \E k \in i + 1 .. Len(wire') : Has(wire'[k], "read", r)
    <3>1. \A i \in 0 .. Len(wire) : Len(wire) + 1 \in i + 1 .. Len(wire')
      BY <2>1
    <3> QED
      BY <2>1, <3>1
  <2>3. \A i \in 0 .. Len(wire) : \A k \in i + 1 .. Len(wire) :
          k \in i + 1 .. Len(wire') /\ wire'[k] = wire[k]
    BY <2>1
  <2>4. ASSUME NEW i \in 1 .. Len(wire)
        PROVE  \/ ReadsAs(wire[i], r, fpga'[r])
               \/ \E k \in i + 1 .. Len(wire') : Has(wire'[k], "read", r)
    <3>1. i \in 0 .. Len(wire)
      BY <2>1
    <3> QED
      BY <1>5, <2>2, <2>3, <3>1 DEF LastRead
  <2>5. \/ ReadsAs(todo, r, fpga'[r])
        \/ \E k \in 1 .. Len(wire') : Has(wire'[k], "read", r)
    <3>1. 0 \in 0 .. Len(wire) /\ 0 + 1 = 1
      BY <2>1
    <3> QED
      BY <1>5, <2>2, <2>3, <3>1 DEF LastRead
  <2>6. \A i \in 1 .. Len(wire') :
          \/ ReadsAs(wire'[i], r, fpga'[r])
          \/ \E k \in i + 1 .. Len(wire') : Has(wire'[k], "read", r)
    BY <1>5, <2>1, <2>4
  <2> QED
    BY <1>5, <2>5, <2>6 DEF LastRead
<1>6. CASE Polled
  <2>1. fpga["keep"] \in Values /\ "keep" \in Regs
    BY DEF Types, Regs
  <2> DEFINE a == PollAnswer(fpga["keep"])
  <2>2. a \in Seq(Item) /\ Len(a) = 1
        /\ a[1].kind = "read" /\ a[1].reg = "keep" /\ a[1].value = fpga["keep"]
    BY <2>1, AnswerFacts
  <2>3. \A j \in 1 .. 1 : j = 1
    OBVIOUS
  <2>4. wire' = Append(wire, a) /\ todo' = todo /\ fpga' = fpga
    BY <1>6 DEF Polled
  <2> HIDE DEF a
  <2>5. ReadsAs(a, r, fpga[r])
    BY <2>2, <2>3 DEF ReadsAs
  <2> QED
    BY <1>5, <2>2, <2>4, <2>5
<1>7. ASSUME NEW reg \in Regs, NEW v \in Values, Wrote(reg, v)
      PROVE  LastRead(r)'
  <2> DEFINE a == WriteAnswer(reg, v)
  <2>1. /\ a \in Seq(Item) /\ Len(a) = 2
        /\ a[1].kind = "echo" /\ a[2].kind = "read" /\ a[2].reg = reg /\ a[2].value = v
    BY AnswerFacts
  <2>2. \A j \in 1 .. 2 : j = 1 \/ j = 2
    OBVIOUS
  <2>3. wire' = Append(wire, a) /\ todo' = todo /\ fpga'[r] = IF r = reg THEN v ELSE fpga[r]
    BY <1>7 DEF Wrote, Types
  <2> HIDE DEF a
  <2>4. ReadsAs(a, r, fpga'[r])
    BY <2>1, <2>2, <2>3 DEF ReadsAs
  <2>5. r = reg => Has(a, "read", r)
    BY <2>1 DEF Has
  <2> QED
    BY <1>5, <2>1, <2>3, <2>4, <2>5
<1> QED
  BY <1>1, <1>2, <1>3, <1>4, <1>6, <1>7, Streams

\* The last message queued for a register has what was written last.
LEMMA LastWriteStep ==
  ASSUME Types, NEW r \in Regs, LastWrite(r), [Next]_vars
  PROVE  LastWrite(r)'
<1> DEFINE M == [reg : Regs, value : Values]
<1>1. CASE \E reg \in Regs, v \in Values :
             /\ Begin(reg, v) /\ UNCHANGED <<fpga, queue, losses>>
             /\ wpc' \in [at : {"keep", "send"}, reg : {reg}, value : {v}]
  <2>1. PICK reg \in Regs, v \in Values :
          /\ Begin(reg, v) /\ UNCHANGED <<fpga, queue, losses>>
          /\ wpc' \in [at : {"keep", "send"}, reg : {reg}, value : {v}]
    BY <1>1
  <2>2. /\ wpc.at = "idle" /\ wpc'.at \in {"keep", "send"} /\ wpc'.reg = reg /\ wpc'.value = v
        /\ written'[r] = (IF r = reg THEN v ELSE written[r])
    BY <2>1 DEF Begin, Types
  <2>3. CASE r = reg
    BY <2>1, <2>2, <2>3 DEF LastWrite, Sending, Pending
  <2>4. CASE r # reg
    BY <2>1, <2>2, <2>4 DEF LastWrite, Sending, Queued, Pending
  <2> QED
    BY <2>3, <2>4
<1>2. CASE SetChanKeep \/ SetParam
  <2>1. /\ UNCHANGED <<fpga, queue, written, losses>>
        /\ \/ wpc.at = "keep" /\ wpc'.at = "send" /\ wpc'.reg = wpc.reg /\ wpc'.value = wpc.value
           \/ wpc.at = "set" /\ wpc'.at = "idle"
    BY <1>2 DEF SetChanKeep, SetParam, receiver, Idle, Types
  <2> QED
    BY <2>1 DEF LastWrite, Sending, Queued, Pending
<1>3. CASE QueueWrite
  <2> DEFINE m == [reg |-> wpc.reg, value |-> wpc.value]
  <2>1. /\ UNCHANGED <<fpga, written, losses>> /\ wpc.at = "send"
        /\ \/ wpc'.at = "idle"
           \/ wpc'.at = "set" /\ wpc'.reg = wpc.reg /\ wpc'.value = wpc.value
        /\ queue' = Append(queue, m) /\ m \in M /\ queue \in Seq(M)
    BY <1>3 DEF QueueWrite, receiver, Idle, Types
  <2>2. m.reg = wpc.reg /\ m.value = wpc.value
    OBVIOUS
  <2> HIDE DEF M, m
  <2>3. /\ Len(queue) \in Nat /\ Len(queue') = Len(queue) + 1 /\ queue'[Len(queue) + 1] = m
        /\ \A i \in 1 .. Len(queue) : queue'[i] = queue[i]
        /\ \A i \in 1 .. Len(queue') : i \in 1 .. Len(queue) \/ i = Len(queue) + 1
    BY <2>1, AppendFacts
  <2>4. \A i \in 1 .. Len(queue) : Len(queue) + 1 \in i + 1 .. Len(queue')
    BY <2>3
  <2>5. \A i \in 1 .. Len(queue) : \A k \in i + 1 .. Len(queue) :
          k \in i + 1 .. Len(queue') /\ queue'[k] = queue[k]
    BY <2>3
  <2>6. CASE wpc.reg = r
    <3>1. written[r] # Unwritten => wpc.value = written[r]
      BY <2>1, <2>6 DEF LastWrite
    <3>2. Queued(r)'
      BY <2>2, <2>3, <2>6 DEF Queued
    <3>3. written[r] # Unwritten =>
            \A i \in 1 .. Len(queue') : queue'[i].reg = r =>
              \/ queue'[i].value = written[r]
              \/ \E k \in i + 1 .. Len(queue') : queue'[k].reg = r
      BY <2>2, <2>3, <2>4, <2>6, <3>1
    <3> QED
      BY <2>1, <3>1, <3>2, <3>3 DEF LastWrite, Pending
  <2>7. CASE wpc.reg # r
    <3>1. written[r] # Unwritten =>
            \A i \in 1 .. Len(queue') : queue'[i].reg = r =>
              \/ queue'[i].value = written[r]
              \/ \E k \in i + 1 .. Len(queue') : queue'[k].reg = r
      BY <2>2, <2>3, <2>5, <2>7 DEF LastWrite, Sending
    <3>2. Queued(r) => Queued(r)'
      <4>1. \A i \in 1 .. Len(queue) : i \in 1 .. Len(queue') /\ queue'[i] = queue[i]
        BY <2>3
      <4> QED
        BY <4>1 DEF Queued
    <3> QED
      BY <2>1, <2>7, <3>1, <3>2 DEF LastWrite, Sending, Pending
  <2> QED
    BY <2>6, <2>7
<1>4. CASE SendWrite
  <2>1. /\ UNCHANGED <<wpc, written>> /\ queue # <<>> /\ queue' = Tail(queue) /\ queue \in Seq(M)
    BY <1>4 DEF SendWrite, port, Types
  <2>2. \/ losses' = losses + 1 /\ fpga' = fpga
        \/ losses' = losses /\ fpga'[r] = IF r = Head(queue).reg THEN Head(queue).value ELSE fpga[r]
    BY <1>4 DEF SendWrite, Types
  <2> HIDE DEF M
  <2>3. /\ Len(queue) \in Nat \ {0} /\ Head(queue) = queue[1] /\ Len(queue') = Len(queue) - 1
        /\ \A i \in 1 .. Len(queue') : i + 1 \in 2 .. Len(queue) /\ queue'[i] = queue[i + 1]
        /\ \A i \in 2 .. Len(queue) : i - 1 \in 1 .. Len(queue') /\ queue[i] = queue'[i - 1]
    BY <2>1, TailFacts
  <2>4. ASSUME written[r] # Unwritten, ~Sending(r), NEW i \in 1 .. Len(queue'), queue'[i].reg = r
        PROVE  \/ queue'[i].value = written[r]
               \/ \E k \in i + 1 .. Len(queue') : queue'[k].reg = r
    <3>1. i + 1 \in 1 .. Len(queue) /\ queue'[i] = queue[i + 1]
      BY <2>3
    <3>2. \A k \in i + 1 + 1 .. Len(queue) : k - 1 \in i + 1 .. Len(queue') /\ queue[k] = queue'[k - 1]
      BY <2>3
    <3> QED
      BY <2>4, <3>1, <3>2 DEF LastWrite
  <2>5. ASSUME written[r] # Unwritten, ~Sending(r), ~Queued(r)', losses' = 0
        PROVE  fpga'[r] = written[r]
    <3>1. \A k \in 2 .. Len(queue) : queue[k].reg # r
      BY <2>3, <2>5 DEF Queued
    <3>2. losses' = losses /\ fpga'[r] = (IF r = queue[1].reg THEN queue[1].value ELSE fpga[r])
      BY <2>2, <2>3, <2>5 DEF Types
    <3>3. CASE queue[1].reg = r
      <4>1. 1 \in 1 .. Len(queue) /\ 1 + 1 = 2
        BY <2>3
      <4> QED
        BY <2>5, <3>1, <3>2, <3>3, <4>1 DEF LastWrite
    <3>4. CASE queue[1].reg # r
      <4>1. \A k \in 1 .. Len(queue) : k = 1 \/ k \in 2 .. Len(queue)
        BY <2>3
      <4>2. ~Queued(r)
        BY <3>1, <3>4, <4>1 DEF Queued
      <4> QED
        BY <2>5, <3>2, <3>4, <4>2 DEF LastWrite, Pending
    <3> QED
      BY <3>3, <3>4
  <2>6. losses' \in Nat
    BY <2>2 DEF Types
  <2> QED
    BY <2>1, <2>4, <2>5, <2>6 DEF LastWrite, Sending, Pending
<1>5. CASE UNCHANGED <<fpga, queue, wpc, written>> /\ losses' \in {losses, losses + 1}
  BY <1>5 DEF LastWrite, Sending, Queued, Pending, Types
<1>6. \/ \E reg \in Regs, v \in Values :
           /\ Begin(reg, v) /\ UNCHANGED <<fpga, queue, losses>>
           /\ wpc' \in [at : {"keep", "send"}, reg : {reg}, value : {v}]
      \/ SetChanKeep \/ SetParam \/ QueueWrite \/ SendWrite
      \/ UNCHANGED <<fpga, queue, wpc, written>> /\ losses' \in {losses, losses + 1}
  <2>1. CASE WriteKeep
    BY <2>1 DEF WriteKeep, Regs
  <2>2. CASE WriteInt32
    BY <2>2 DEF WriteInt32
  <2>3. CASE Poll \/ Lose \/ Receiver \/ UNCHANGED vars
    BY <2>3 DEF Poll, Lose, Receiver, TakeAnswer, EchoKeep, ReadKeep, ShowKeep, EchoChecked,
                ReadChecked, IgnorePlain, ReadMirror, port, vars
  <2> QED
    BY <2>1, <2>2, <2>3 DEF Next, Port, Network
<1> QED
  BY <1>1, <1>2, <1>3, <1>4, <1>5, <1>6

--------------------------------------------------------------------------------
(* What is to come, comes *)

\* An item to come is still to come or has been processed, unless something is lost.
LEMMA ToComeStep ==
  ASSUME Types, NEW kind, NEW r \in Regs, ToCome(kind, r), [Next]_vars, losses' = 0
  PROVE  \/ ToCome(kind, r)'
         \/ Next1 /\ todo[1].kind = kind /\ todo[1].reg = r
<1>1. CASE Same
  BY <1>1 DEF Same, ToCome
<1>2. CASE Next1
  <2>1. todo \in Seq(Item) /\ todo # <<>> /\ todo' = Tail(todo) /\ wire' = wire
    BY <1>2 DEF Types, Next1
  <2>2. Has(todo, kind, r) =>
          Has(Tail(todo), kind, r) \/ (todo[1].kind = kind /\ todo[1].reg = r)
    <3>1. \A j \in 1 .. Len(todo) : j = 1 \/ j \in 2 .. Len(todo)
      BY <2>1, TailFacts
    <3>2. \A j \in 2 .. Len(todo) : j - 1 \in 1 .. Len(Tail(todo)) /\ todo[j] = Tail(todo)[j - 1]
      BY <2>1, TailFacts
    <3> QED
      BY <3>1, <3>2 DEF Has
  <2> QED
    BY <1>2, <2>1, <2>2 DEF ToCome
<1>3. CASE Taken
  <2>1. wire \in Seq(Seq(Item)) /\ wire # <<>> /\ wire' = Tail(wire) /\ todo = <<>>
        /\ todo' = wire[1]
    BY <1>3, TailFacts DEF Types, Taken
  <2>2. ~Has(todo, kind, r)
    BY <2>1 DEF Has
  <2>3. \A i \in 1 .. Len(wire) : i = 1 \/ i \in 2 .. Len(wire)
    BY <2>1, TailFacts
  <2>4. \A i \in 2 .. Len(wire) : i - 1 \in 1 .. Len(wire') /\ wire[i] = wire'[i - 1]
    BY <2>1, TailFacts
  <2> QED
    BY <2>1, <2>2, <2>3, <2>4 DEF ToCome
<1>4. CASE Lost
  BY <1>4 DEF Lost, Types
<1>5. ASSUME NEW a \in Seq(Item), wire' = Append(wire, a), todo' = todo
      PROVE  ToCome(kind, r)'
  <2>1. \A i \in 1 .. Len(wire) : i \in 1 .. Len(wire') /\ wire'[i] = wire[i]
    BY <1>5, AppendFacts DEF Types
  <2> QED
    BY <1>5, <2>1 DEF ToCome
<1>6. CASE Polled
  <2>1. fpga["keep"] \in Values /\ "keep" \in Regs
    BY DEF Types, Regs
  <2> QED
    BY <1>5, <1>6, <2>1, AnswerFacts DEF Polled
<1>7. ASSUME NEW reg \in Regs, NEW v \in Values, Wrote(reg, v)
      PROVE  ToCome(kind, r)'
  BY <1>5, <1>7, AnswerFacts DEF Wrote
<1> QED
  BY <1>1, <1>2, <1>3, <1>4, <1>6, <1>7, Streams

\* A setting on its way to the FPGA is answered by echo and readback.
LEMMA PendingStep ==
  ASSUME Types, NEW r \in Regs, Pending(r), [Next]_vars, losses' = 0
  PROVE  Pending(r)' \/ (ToCome("read", r)' /\ ToCome("echo", r)')
<1> DEFINE M == [reg : Regs, value : Values]
<1>1. CASE SetChanKeep \/ SetParam \/ WriteKeep \/ WriteInt32
  <2>1. /\ queue' = queue
        /\ Sending(r) => wpc.at = "keep" /\ wpc'.at = "send" /\ wpc'.reg = wpc.reg
    BY <1>1 DEF SetChanKeep, SetParam, WriteKeep, WriteInt32, Begin, Sending, receiver, Types
  <2> QED
    BY <2>1 DEF Pending, Sending, Queued
<1>2. CASE QueueWrite
  <2> DEFINE m == [reg |-> wpc.reg, value |-> wpc.value]
  <2>1. queue' = Append(queue, m) /\ m \in M /\ queue \in Seq(M)
    BY <1>2 DEF QueueWrite, Types
  <2>2. m.reg = wpc.reg
    OBVIOUS
  <2> HIDE DEF M, m
  <2>3. /\ Len(queue) + 1 \in 1 .. Len(queue') /\ queue'[Len(queue) + 1] = m
        /\ \A i \in 1 .. Len(queue) : i \in 1 .. Len(queue') /\ queue'[i] = queue[i]
    BY <2>1, AppendFacts
  <2> QED
    BY <2>2, <2>3 DEF Pending, Sending, Queued
<1>3. CASE SendWrite
  <2>1. /\ wpc' = wpc /\ queue # <<>> /\ queue' = Tail(queue) /\ queue \in Seq(M)
    BY <1>3 DEF SendWrite, port, Types
  <2>2. Head(queue) \in M
    <3> HIDE DEF M
    <3> QED
      BY <2>1
  <2>3. Wrote(Head(queue).reg, Head(queue).value)
    BY <1>3, <2>2 DEF SendWrite, Wrote, WriteAnswer, receiver, Types
  <2> DEFINE a == WriteAnswer(Head(queue).reg, Head(queue).value)
  <2>4. /\ a \in Seq(Item) /\ Len(a) = 2 /\ a[1].kind = "echo" /\ a[1].reg = Head(queue).reg
        /\ a[2].kind = "read" /\ a[2].reg = Head(queue).reg
    BY <2>2, AnswerFacts
  <2>5. wire' = Append(wire, a) /\ wire \in Seq(Seq(Item))
    BY <2>3 DEF Wrote, Types
  <2> HIDE DEF a, M
  <2>6. Len(wire) + 1 \in 1 .. Len(wire') /\ wire'[Len(wire) + 1] = a
    BY <2>4, <2>5, AppendFacts
  <2>7. Head(queue).reg = r => Has(a, "read", r) /\ Has(a, "echo", r)
    BY <2>4 DEF Has
  <2>8. Head(queue) = queue[1] /\ \A i \in 1 .. Len(queue) : i = 1 \/ i \in 2 .. Len(queue)
    BY <2>1, TailFacts
  <2>9. \A i \in 2 .. Len(queue) : i - 1 \in 1 .. Len(queue') /\ queue[i] = queue'[i - 1]
    BY <2>1, TailFacts
  <2> QED
    BY <2>1, <2>6, <2>7, <2>8, <2>9 DEF Pending, Sending, Queued, ToCome
<1>4. CASE Poll \/ Lose \/ Receiver \/ UNCHANGED vars
  <2>1. queue' = queue /\ wpc' = wpc
    BY <1>4 DEF Poll, Lose, Receiver, TakeAnswer, EchoKeep, ReadKeep, ShowKeep, EchoChecked,
                ReadChecked, IgnorePlain, ReadMirror, port, vars
  <2> QED
    BY <2>1 DEF Pending, Sending, Queued
<1> QED
  BY <1>1, <1>2, <1>3, <1>4 DEF Next, Port, Network

\* The last readback tells what the register holds.
LEMMA LastReadTells ==
  ASSUME Types, NEW r \in Regs, LastRead(r), Next1, todo[1].kind = "read", todo[1].reg = r
  PROVE  ToCome("read", r)' \/ todo[1].value = fpga[r]
<1>1. todo \in Seq(Item) /\ todo # <<>> /\ wire' = wire
  BY DEF Types, Next1
<1>2. 1 \in 1 .. Len(todo)
  BY <1>1, TailFacts
<1> QED
  BY <1>1, <1>2 DEF LastRead, ReadsAs, ToCome

\* No second mirror is asked for.
LEMMA MirrorGone ==
  ASSUME Types, Shape, ~MirrorToCome, [Next]_vars
  PROVE  ~MirrorToCome'
<1>1. CASE Same
  BY <1>1 DEF MirrorToCome, Same
<1>2. CASE Next1
  <2>1. /\ todo \in Seq(Item) /\ todo # <<>> /\ todo' = Tail(todo) /\ wire' = wire
        /\ WellFormed(todo) /\ ~IsMirror(todo)
    BY <1>2 DEF Types, Next1, Shape, MirrorToCome
  <2>2. Len(todo) > 0 /\ 1 \in 1 .. Len(todo)
    BY <2>1, TailFacts
  <2>3. Len(Tail(todo)) > 0 => 2 \in 1 .. Len(todo) /\ Tail(todo)[1] = todo[2]
    BY <2>1, TailFacts
  <2>4. ~IsMirror(Tail(todo))
    BY <2>1, <2>2, <2>3 DEF WellFormed, IsMirror
  <2> QED
    BY <2>1, <2>4 DEF MirrorToCome
<1>3. CASE Taken \/ Lost
  <2>1. /\ wire \in Seq(Seq(Item)) /\ wire # <<>> /\ wire' = Tail(wire)
        /\ (todo' = wire[1] \/ todo' = todo)
    BY <1>3, TailFacts DEF Types, Taken, Lost
  <2>2. 1 \in 1 .. Len(wire)
        /\ \A i \in 1 .. Len(wire') : i + 1 \in 1 .. Len(wire) /\ wire'[i] = wire[i + 1]
    BY <2>1, TailFacts
  <2> QED
    BY <2>1, <2>2 DEF MirrorToCome
<1>4. ASSUME NEW a \in Seq(Item), wire' = Append(wire, a), todo' = todo, a[1].kind # "mirror"
      PROVE  ~MirrorToCome'
  <2>1. \A i \in 1 .. Len(wire') : (i \in 1 .. Len(wire) /\ wire'[i] = wire[i]) \/ wire'[i] = a
    BY <1>4, AppendFacts DEF Types
  <2> QED
    BY <1>4, <2>1 DEF MirrorToCome, IsMirror
<1>5. CASE Polled
  <2>1. fpga["keep"] \in Values /\ "keep" \in Regs
    BY DEF Types, Regs
  <2>2. PollAnswer(fpga["keep"])[1].kind # "mirror"
    BY <2>1, AnswerFacts
  <2> QED
    BY <1>4, <1>5, <2>1, <2>2, AnswerFacts DEF Polled
<1>6. ASSUME NEW reg \in Regs, NEW v \in Values, Wrote(reg, v)
      PROVE  ~MirrorToCome'
  <2>1. WriteAnswer(reg, v)[1].kind # "mirror"
    BY AnswerFacts
  <2> QED
    BY <1>4, <1>6, <2>1, AnswerFacts DEF Wrote
<1> QED
  BY <1>1, <1>2, <1>3, <1>5, <1>6, Streams

--------------------------------------------------------------------------------
(* The steps *)

\* An operator's write makes a register pending; otherwise what was written stays.
LEMMA WrittenStep ==
  ASSUME Types, NEW r \in Regs, [Next]_vars
  PROVE  \/ Pending(r)'
         \/ written'[r] = written[r]
<1>1. CASE \E reg \in Regs, v \in Values :
             Begin(reg, v) /\ wpc'.reg = reg /\ wpc'.at \in {"keep", "send"}
  BY <1>1 DEF Begin, Pending, Sending, Types
<1>2. CASE WriteKeep
  BY <1>1, <1>2 DEF WriteKeep, Regs
<1>3. CASE WriteInt32
  BY <1>1, <1>3 DEF WriteInt32
<1>4. CASE SetChanKeep \/ QueueWrite \/ SetParam \/ Network \/ Receiver \/ UNCHANGED vars
  BY <1>4 DEF SetChanKeep, QueueWrite, SetParam, Network, SendWrite, Poll, Lose,
              Receiver, TakeAnswer, EchoKeep, ReadKeep, ShowKeep, EchoChecked,
              ReadChecked, IgnorePlain, ReadMirror, port, vars
<1> QED
  BY <1>2, <1>3, <1>4 DEF Next, Port

\* Losses do not become fewer.
LEMMA LossesStep ==
  ASSUME Types, [Next]_vars
  PROVE  losses' \in Nat /\ (losses' = 0 => losses = 0)
<1>1. losses' \in {losses, losses + 1}
  BY DEF Next, Port, WriteKeep, SetChanKeep, WriteInt32, QueueWrite, SetParam,
         Network, SendWrite, Poll, Lose,
         Receiver, TakeAnswer, EchoKeep, ReadKeep, ShowKeep, EchoChecked,
         ReadChecked, IgnorePlain, ReadMirror, vars
<1> QED
  BY <1>1 DEF Types

\* The register changes only by a write that was pending.
LEMMA FpgaStep ==
  ASSUME Types, NEW r \in Regs, ~Pending(r), [Next]_vars
  PROVE  fpga'[r] = fpga[r]
<1>1. CASE SendWrite
  <2>1. queue \in Seq([reg : Regs, value : Values]) /\ queue # <<>>
    BY <1>1 DEF SendWrite, Types
  <2>2. Head(queue).reg # r
    BY <2>1 DEF Pending, Queued
  <2> QED
    BY <1>1, <2>2 DEF SendWrite, Types
<1>2. CASE Port \/ Poll \/ Lose \/ Receiver \/ UNCHANGED vars
  BY <1>2 DEF Port, WriteKeep, SetChanKeep, WriteInt32, QueueWrite, SetParam, Poll, Lose,
              Receiver, TakeAnswer, EchoKeep, ReadKeep, ShowKeep, EchoChecked,
              ReadChecked, IgnorePlain, ReadMirror, vars
<1> QED
  BY <1>1, <1>2 DEF Next, Network

\* An echo is processed before its readback.
LEMMA EchoThenRead ==
  ASSUME Types, Shape, NEW r \in Regs, Next1, todo[1].kind = "echo", todo[1].reg = r
  PROVE  ToCome("read", r)'
<1>1. todo \in Seq(Item) /\ todo # <<>> /\ todo' = Tail(todo) /\ WellFormed(todo)
  BY DEF Types, Next1, Shape
<1>2. 1 \in 1 .. Len(todo) /\ 1 + 1 = 2
  BY <1>1, TailFacts
<1>3. 2 \in 1 .. Len(todo) /\ todo[2].kind = "read" /\ todo[2].reg = r
  BY <1>1, <1>2 DEF WellFormed
<1>4. 1 \in 1 .. Len(Tail(todo)) /\ Tail(todo)[1] = todo[2]
  BY <1>1, <1>3, TailFacts
<1> QED
  BY <1>1, <1>3, <1>4 DEF ToCome, Has

\* Only the receiving thread processes items.
LEMMA ItemStep ==
  ASSUME Types, [Next]_vars, Next1
  PROVE  EchoKeep \/ ReadKeep \/ EchoChecked \/ ReadChecked \/ IgnorePlain \/ ReadMirror
<1>1. Len(todo) \in Nat /\ Len(todo') = Len(todo) - 1
  <2>1. todo \in Seq(Item) /\ todo # <<>> /\ todo' = Tail(todo)
    BY DEF Next1, Types
  <2> QED
    BY <2>1, TailFacts
<1>2. todo' # todo
  <2> SUFFICES ASSUME todo' = todo PROVE FALSE
    OBVIOUS
  <2>1. Len(todo') = Len(todo)
    OBVIOUS
  <2> QED
    BY <1>1, <2>1
<1>3. ~(Port \/ Network \/ UNCHANGED vars)
  BY <1>2 DEF Port, WriteKeep, SetChanKeep, WriteInt32, QueueWrite, SetParam,
              Network, SendWrite, Poll, Lose, receiver, vars
<1>4. ~(TakeAnswer \/ ShowKeep)
  BY <1>2 DEF TakeAnswer, ShowKeep, Next1
<1> QED
  BY <1>3, <1>4 DEF Next, Receiver

\* A copy heals if only the readback changes it for good.
LEMMA HealsStep ==
  ASSUME SetInv, [Next]_vars, NEW r \in Regs, NEW x, NEW y, Heals(r, x),
         losses' = 0, written'[r] # Unwritten,
         \/ Pending(r)' \/ ToCome("read", r)' \/ y = x \/ y = fpga[r]
         \/ Next1 /\ todo[1].kind = "read" /\ todo[1].reg = r /\ y = todo[1].value,
         (Next1 /\ todo[1].kind = "read" /\ todo[1].reg = r) => y = todo[1].value
  PROVE  Pending(r)' \/ ToCome("read", r)' \/ y = fpga'[r]
<1> SUFFICES ASSUME ~Pending(r)', ~ToCome("read", r)'
             PROVE  y = fpga'[r]
  OBVIOUS
<1>1. losses = 0 /\ Types /\ Shape /\ LastRead(r)
  BY LossesStep DEF SetInv
<1>2. written[r] # Unwritten
  BY <1>1, WrittenStep
<1>3. ~Pending(r) /\ fpga'[r] = fpga[r]
  BY <1>1, PendingStep, FpgaStep
<1>4. CASE Next1 /\ todo[1].kind = "read" /\ todo[1].reg = r
  BY <1>1, <1>3, <1>4, LastReadTells
<1>5. CASE ~(Next1 /\ todo[1].kind = "read" /\ todo[1].reg = r)
  <2>1. ~ToCome("read", r)
    BY <1>1, <1>5, ToComeStep
  <2>2. x = fpga[r]
    BY <1>1, <1>2, <1>3, <2>1 DEF Heals
  <2> QED
    BY <1>3, <1>5, <2>2
<1> QED
  BY <1>4, <1>5

LEMMA KeepHealsStep ==
  ASSUME SetInv, [Next]_vars
  PROVE  Heals("keep", chanKeep)'
<1> SUFFICES ASSUME losses' = 0, written'["keep"] # Unwritten
             PROVE  Pending("keep")' \/ ToCome("read", "keep")' \/ chanKeep' = fpga'["keep"]
  BY DEF Heals
<1>1. "keep" \in Regs /\ Types /\ Shape /\ Heals("keep", chanKeep)
  BY DEF Regs, SetInv
<1>2. CASE SetChanKeep
  BY <1>1, <1>2 DEF SetChanKeep, Pending, Sending, Types
<1>3. CASE EchoKeep
  <2>1. Next1 /\ todo[1].kind = "echo" /\ todo[1].reg = "keep"
    BY <1>3 DEF EchoKeep, Handle, Next1
  <2> QED
    BY <1>1, <2>1, EchoThenRead
<1>4. CASE ReadKeep
  <2>1. chanKeep' = todo[1].value
    BY <1>4 DEF ReadKeep, Value
  <2>2. Next1 /\ todo[1].kind = "read" /\ todo[1].reg = "keep"
    BY <1>4 DEF ReadKeep, Handle, Next1
  <2> QED
    BY <1>1, <2>1, <2>2, HealsStep
<1>5. CASE chanKeep' = chanKeep /\ ~ReadKeep
  <2>1. ~(Next1 /\ todo[1].kind = "read" /\ todo[1].reg = "keep")
    BY <1>1, <1>5, ItemStep
    DEF EchoKeep, EchoChecked, ReadChecked, IgnorePlain, ReadMirror, Handle
  <2> QED
    BY <1>1, <1>5, <2>1, HealsStep
<1>6. chanKeep' = chanKeep \/ SetChanKeep \/ EchoKeep \/ ReadKeep
  BY DEF Next, Port, WriteKeep, SetChanKeep, WriteInt32, QueueWrite, SetParam,
         Network, SendWrite, Poll, Lose,
         Receiver, TakeAnswer, EchoKeep, ReadKeep, ShowKeep, EchoChecked,
         ReadChecked, IgnorePlain, ReadMirror, vars
<1> QED
  BY <1>2, <1>3, <1>4, <1>5, <1>6

LEMMA CheckedHealsStep ==
  ASSUME SetInv, [Next]_vars
  PROVE  Heals("checked", param["checked"])'
<1> SUFFICES ASSUME losses' = 0, written'["checked"] # Unwritten
             PROVE  \/ Pending("checked")' \/ ToCome("read", "checked")'
                    \/ param'["checked"] = fpga'["checked"]
  BY DEF Heals
<1>1. "checked" \in Regs /\ Types /\ Shape /\ Heals("checked", param["checked"])
      /\ LastWrite("checked") /\ losses = 0
  BY LossesStep DEF Regs, SetInv
<1>2. CASE ReadChecked
  <2>1. param'["checked"] = todo[1].value
    BY <1>1, <1>2 DEF ReadChecked, StoreReadback, Value, Types
  <2>2. Next1 /\ todo[1].kind = "read" /\ todo[1].reg = "checked"
    BY <1>2 DEF ReadChecked, Handle, Next1
  <2> QED
    BY <1>1, <2>1, <2>2, HealsStep
<1>3. CASE ~ReadChecked /\ param'["checked"] \in {param["checked"], fpga["checked"]}
  <2>1. ~(Next1 /\ todo[1].kind = "read" /\ todo[1].reg = "checked")
    BY <1>1, <1>3, ItemStep
    DEF EchoKeep, ReadKeep, EchoChecked, IgnorePlain, ReadMirror, Handle
  <2> QED
    BY <1>1, <1>3, <2>1, HealsStep
<1>4. CASE SetParam
  <2>1. CASE wpc.reg = "checked"
    <3>1. written["checked"] # Unwritten /\ wpc.value = written["checked"]
          /\ param'["checked"] = wpc.value /\ fpga' = fpga
      BY <1>1, <1>4, <2>1 DEF SetParam, LastWrite, Types
    <3>2. ~Pending("checked")' => ~Pending("checked")
      BY <1>4 DEF SetParam, Pending, Sending, Queued
    <3> QED
      BY <1>1, <3>1, <3>2 DEF LastWrite
  <2>2. CASE wpc.reg # "checked"
    <3>1. param'["checked"] = param["checked"]
      BY <1>1, <1>4, <2>2 DEF SetParam, Types
    <3>2. ~ReadChecked
      BY <1>4 DEF SetParam, ReadChecked, port, Idle
    <3> QED
      BY <1>3, <3>1, <3>2
  <2> QED
    BY <2>1, <2>2
<1>5. CASE ReadMirror
  <2>1. MirrorToCome
    <3>1. todo \in Seq(Item) /\ todo # <<>> /\ todo[1].kind = "mirror"
      BY <1>1, <1>5 DEF ReadMirror, Handle, Types
    <3> QED
      BY <3>1, TailFacts DEF MirrorToCome, IsMirror
  <2>2. UNCHANGED <<queue, wpc, written>> /\ Next1 /\ todo[1].kind = "mirror"
    BY <1>5 DEF ReadMirror, Handle, port, Next1
  <2>3. Pending("checked") \/ ToCome("read", "checked")
    BY <1>1, <2>1, <2>2 DEF SetInv, MirrorRepaired
  <2> QED
    BY <1>1, <2>2, <2>3, PendingStep, ToComeStep
<1>6. param'["checked"] = param["checked"] \/ ReadChecked \/ SetParam \/ ReadMirror
  <2>1. CASE WriteKeep \/ ShowKeep
    BY <1>1, <2>1 DEF WriteKeep, ShowKeep, Types
  <2>2. CASE SetChanKeep \/ WriteInt32 \/ QueueWrite \/ Network \/ TakeAnswer \/ EchoKeep
             \/ ReadKeep \/ EchoChecked \/ IgnorePlain \/ UNCHANGED vars
    BY <2>2 DEF SetChanKeep, WriteInt32, QueueWrite, Network, SendWrite, Poll, Lose, TakeAnswer,
                EchoKeep, ReadKeep, EchoChecked, IgnorePlain, vars
  <2> QED
    BY <2>1, <2>2 DEF Next, Port, Receiver
<1> QED
  BY <1>2, <1>3, <1>4, <1>5, <1>6

LEMMA KeepShownStep ==
  ASSUME SetInv, [Next]_vars
  PROVE  KeepShown'
<1> SUFFICES ASSUME losses' = 0, ~Pending("keep")', ~ToCome("echo", "keep")'
             PROVE  param'["keep"] = chanKeep' \/ hpc' = "show"
  BY DEF KeepShown
<1>1. "keep" \in Regs /\ Types /\ losses = 0 /\ ~Pending("keep")
  BY LossesStep, PendingStep DEF Regs, SetInv
<1>2. CASE EchoKeep
  BY <1>2 DEF EchoKeep
<1>3. CASE ~EchoKeep
  <2>1. ~(Next1 /\ todo[1].kind = "echo" /\ todo[1].reg = "keep")
    BY <1>1, <1>3, ItemStep
    DEF ReadKeep, EchoChecked, ReadChecked, IgnorePlain, ReadMirror, Handle
  <2>2. param["keep"] = chanKeep \/ hpc = "show"
    BY <1>1, <2>1, ToComeStep DEF SetInv, KeepShown
  <2>3. CASE WriteKeep \/ SetChanKeep
    BY <1>1, <2>3 DEF WriteKeep, SetChanKeep, Pending, Sending, Types
  <2>4. CASE SetParam \/ ReadChecked \/ ReadMirror
    <3>1. param'["keep"] = param["keep"]
      BY <1>1, <2>4 DEF SetParam, ReadChecked, StoreReadback, ReadMirror, Regs, Types
    <3>2. chanKeep' = chanKeep /\ hpc' = hpc
      BY <2>4 DEF SetParam, ReadChecked, ReadMirror, receiver
    <3> QED
      BY <2>2, <3>1, <3>2
  <2>5. CASE ShowKeep
    BY <1>1, <2>5 DEF ShowKeep, Types
  <2>6. CASE ReadKeep
    BY <2>2, <2>6 DEF ReadKeep
  <2>7. CASE WriteInt32 \/ QueueWrite \/ Network \/ TakeAnswer \/ EchoChecked \/ IgnorePlain
             \/ UNCHANGED vars
    BY <2>2, <2>7 DEF WriteInt32, QueueWrite, Network, SendWrite, Poll, Lose, TakeAnswer,
                      EchoChecked, IgnorePlain, receiver, vars
  <2> QED
    BY <1>3, <2>3, <2>4, <2>5, <2>6, <2>7 DEF Next, Port, Receiver
<1> QED
  BY <1>2, <1>3

LEMMA MirrorRepairedStep ==
  ASSUME SetInv, [Next]_vars
  PROVE  MirrorRepaired'
<1> SUFFICES ASSUME losses' = 0, written'["checked"] # Unwritten, MirrorToCome'
             PROVE  Pending("checked")' \/ ToCome("read", "checked")'
  BY DEF MirrorRepaired
<1>1. "checked" \in Regs /\ Types /\ Shape /\ losses = 0 /\ MirrorToCome
  BY LossesStep, MirrorGone DEF Regs, SetInv
<1>2. CASE Pending("checked")' \/ Pending("checked")
  BY <1>1, <1>2, PendingStep
<1>3. CASE ~Pending("checked")' /\ ~Pending("checked")
  <2>1. ToCome("read", "checked")
    BY <1>1, <1>3, WrittenStep DEF SetInv, MirrorRepaired
  <2>2. CASE Next1 /\ todo[1].kind = "read"
    \* Behind the first readback there is no mirror.
    <3>1. /\ todo \in Seq(Item) /\ todo # <<>> /\ todo' = Tail(todo) /\ wire' = wire
          /\ WellFormed(todo) /\ \A i \in 1 .. Len(wire) : ~IsMirror(wire[i])
      BY <1>1, <2>2 DEF Next1, Types, Shape
    <3>2. 1 \in 1 .. Len(todo)
      BY <3>1, TailFacts
    <3>3. Len(Tail(todo)) > 0 => 2 \in 1 .. Len(todo) /\ Tail(todo)[1] = todo[2]
      BY <3>1, TailFacts
    <3> QED
      BY <2>2, <3>1, <3>2, <3>3 DEF MirrorToCome, IsMirror, WellFormed
  <2> QED
    BY <1>1, <2>1, <2>2, ToComeStep
<1> QED
  BY <1>2, <1>3

\* The code's question whether the mirror has been processed finds it wherever it is.
LEMMA MirroredMeans ==
  ASSUME Types, Mirrored
  PROVE  ~MirrorToCome
<1>1. wire \in Seq(Seq(Item)) /\ todo \in Seq(Item)
  BY DEF Types
<1>2. \A a \in Seq(Item) : IsMirror(a) => a # <<>> /\ a[1].kind = "mirror"
  BY DEF IsMirror
<1>3. ~IsMirror(todo)
  BY <1>1, <1>2 DEF Mirrored
<1>4. \A i \in 1 .. Len(wire) : i \in DOMAIN wire /\ wire[i] \in Seq(Item)
  BY <1>1
<1>5. \A i \in 1 .. Len(wire) : ~IsMirror(wire[i])
  BY <1>2, <1>4 DEF Mirrored
<1> QED
  BY <1>3, <1>5 DEF MirrorToCome

LEMMA PlainKeptStep ==
  ASSUME SetInv, [Next]_vars
  PROVE  PlainKept'
<1> DEFINE At(r) == wpc.reg = r /\ wpc.at \in {"send", "set"}
<1> SUFFICES ASSUME written'["plain"] # Unwritten, ~raced'
             PROVE  ~MirrorToCome' /\ (At("plain")' \/ param'["plain"] = written'["plain"])
  BY DEF PlainKept
<1>1. "plain" \in Regs /\ Types /\ Shape /\ LastWrite("plain")
  BY DEF Regs, SetInv
<1>2. CASE WriteInt32
  <2>1. PICK reg \in Regs \ {"keep"}, v \in Values :
          Begin(reg, v) /\ wpc' = [at |-> "send", reg |-> reg, value |-> v] /\ param' = param
          /\ wire' = wire /\ todo' = todo
    BY <1>2 DEF WriteInt32, receiver
  <2>2. Mirrored /\ ~raced
    BY <2>1 DEF Begin
  <2>3. ~MirrorToCome'
    BY <1>1, <2>2, MirroredMeans, MirrorGone
  <2>4. CASE reg = "plain"
    BY <2>1, <2>3, <2>4
  <2>5. CASE reg # "plain"
    <3>1. written'["plain"] = written["plain"] /\ wpc.at = "idle"
      BY <1>1, <2>1, <2>5 DEF Begin, Types
    <3> QED
      BY <2>1, <2>2, <2>3, <3>1 DEF SetInv, PlainKept
  <2> QED
    BY <2>4, <2>5
<1>3. CASE WriteKeep
  <2>1. PICK v \in Values : Begin("keep", v) /\ param' = [param EXCEPT !["keep"] = v]
    BY <1>3 DEF WriteKeep
  <2>2. written'["plain"] = written["plain"] /\ wpc.at = "idle" /\ ~raced
        /\ param'["plain"] = param["plain"]
    BY <1>1, <2>1 DEF Begin, Types
  <2> QED
    BY <1>1, <2>2, MirrorGone DEF SetInv, PlainKept
<1>4. CASE UNCHANGED <<written, raced>>
  <2>1. ~MirrorToCome' /\ ~MirrorToCome
    BY <1>1, <1>4, MirrorGone DEF SetInv, PlainKept
  <2>2. At("plain") \/ param["plain"] = written["plain"]
    BY <1>4 DEF SetInv, PlainKept
  <2>3. CASE SetParam
    <3>1. CASE wpc.reg = "plain"
      <4>1. wpc.value = written["plain"]
        BY <1>1, <1>4, <2>3, <3>1 DEF SetParam, LastWrite
      <4> QED
        BY <1>1, <1>4, <2>1, <2>3, <3>1, <4>1 DEF SetParam, Types
    <3>2. CASE wpc.reg # "plain"
      BY <1>1, <1>4, <2>1, <2>2, <2>3, <3>2 DEF SetParam, Types
    <3> QED
      BY <3>1, <3>2
  <2>4. CASE QueueWrite
    <3>1. At("plain") => At("plain")'
      BY <1>1, <2>4 DEF QueueWrite, Types
    <3>2. param' = param
      BY <2>4 DEF QueueWrite
    <3> QED
      BY <1>4, <2>1, <2>2, <3>1, <3>2
  <2>5. CASE SetChanKeep
    BY <1>1, <1>4, <2>1, <2>2, <2>5 DEF SetChanKeep, Types
  <2>6. CASE ReadMirror
    <3>1. todo \in Seq(Item) /\ todo # <<>> /\ todo[1].kind = "mirror"
      BY <1>1, <2>6 DEF ReadMirror, Handle, Types
    <3> QED
      BY <2>1, <3>1, TailFacts DEF MirrorToCome, IsMirror
  <2>7. CASE ShowKeep \/ ReadChecked
    <3>1. param'["plain"] = param["plain"] /\ wpc' = wpc
      BY <1>1, <2>7 DEF ShowKeep, ReadChecked, StoreReadback, port, Types
    <3> QED
      BY <1>4, <2>1, <2>2, <3>1
  <2>8. CASE Network \/ TakeAnswer \/ EchoKeep \/ ReadKeep \/ EchoChecked \/ IgnorePlain
             \/ UNCHANGED vars
    <3>1. param' = param /\ wpc' = wpc
      BY <2>8 DEF Network, SendWrite, Poll, Lose, TakeAnswer, EchoKeep, ReadKeep, EchoChecked,
                  IgnorePlain, port, vars
    <3> QED
      BY <1>4, <2>1, <2>2, <3>1
  <2> QED
    BY <1>2, <1>3, <2>3, <2>4, <2>5, <2>6, <2>7, <2>8 DEF Next, Port, Receiver
<1>5. WriteInt32 \/ WriteKeep \/ UNCHANGED <<written, raced>>
  BY DEF Next, Port, SetChanKeep, QueueWrite, SetParam, Network, SendWrite, Poll, Lose,
         Receiver, TakeAnswer, EchoKeep, ReadKeep, ShowKeep, EchoChecked,
         ReadChecked, IgnorePlain, ReadMirror, port, vars
<1> QED
  BY <1>2, <1>3, <1>4, <1>5

\* The types of what is not a counter.
LEMMA TypesStep ==
  ASSUME Types, [Next]_vars
  PROVE  Types'
<1> DEFINE M == [reg : Regs, value : Values]
           P == [at : {"idle", "keep", "send", "set"}, reg : Regs, value : Values]
<1>1. wire' \in Seq(Seq(Item)) /\ todo' \in Seq(Item) /\ fpga' \in [Regs -> Values]
  <2>1. CASE Same
    BY <2>1 DEF Same, Types
  <2>2. CASE Next1
    BY <2>2 DEF Next1, Types
  <2>3. CASE Taken \/ Lost
    <3>1. wire \in Seq(Seq(Item)) /\ wire # <<>> /\ wire' = Tail(wire)
          /\ (todo' = wire[1] \/ todo' = todo) /\ fpga' = fpga
      BY <2>3, TailFacts DEF Types, Taken, Lost
    <3> QED
      BY <3>1, TailFacts DEF Types
  <2>4. CASE Polled
    <3>1. fpga["keep"] \in Values /\ "keep" \in Regs
      BY DEF Types, Regs
    <3> QED
      BY <2>4, <3>1, AnswerFacts, AppendFacts DEF Polled, Types
  <2>5. ASSUME NEW reg \in Regs, NEW v \in Values, Wrote(reg, v)
        PROVE  wire' \in Seq(Seq(Item)) /\ todo' \in Seq(Item) /\ fpga' \in [Regs -> Values]
    BY <2>5, AnswerFacts, AppendFacts DEF Wrote, Types
  <2> QED
    BY <2>1, <2>2, <2>3, <2>4, <2>5, Streams
<1>2. queue' \in Seq(M)
  <2>1. queue \in Seq(M)
    BY DEF Types
  <2>2. CASE QueueWrite
    <3>1. [reg |-> wpc.reg, value |-> wpc.value] \in M
      BY DEF Types
    <3> HIDE DEF M
    <3> QED
      BY <2>1, <2>2, <3>1 DEF QueueWrite
  <2>3. CASE SendWrite
    <3> HIDE DEF M
    <3> QED
      BY <2>1, <2>3 DEF SendWrite
  <2>4. queue' = queue \/ QueueWrite \/ SendWrite
    BY DEF Next, Port, WriteKeep, SetChanKeep, WriteInt32, SetParam, Network, Poll, Lose,
           Receiver, TakeAnswer, EchoKeep, ReadKeep, ShowKeep, EchoChecked,
           ReadChecked, IgnorePlain, ReadMirror, vars
  <2> QED
    BY <2>1, <2>2, <2>3, <2>4
<1>3. losses' \in Nat
  BY LossesStep
<1>4. /\ wpc' \in P /\ (wpc'.at = "set" => wpc'.reg # "keep") /\ (wpc'.at = "keep" => wpc'.reg = "keep")
      /\ written' \in [Regs -> Values \union {Unwritten}]
  <2>1. CASE WriteKeep
    BY <2>1 DEF WriteKeep, Begin, Types, Regs
  <2>2. CASE WriteInt32
    BY <2>2 DEF WriteInt32, Begin, Types
  <2>3. CASE SetChanKeep \/ QueueWrite \/ SetParam
    <3>1. Idle \in P
      BY SetpointAssumption DEF Idle, Regs
    <3> QED
      BY <2>3, <3>1 DEF SetChanKeep, QueueWrite, SetParam, Types, Idle
  <2>4. CASE Network \/ Receiver \/ UNCHANGED vars
    <3>1. wpc' = wpc /\ written' = written
      BY <2>4 DEF Network, SendWrite, Poll, Lose, Receiver, TakeAnswer, EchoKeep, ReadKeep,
                  ShowKeep, EchoChecked, ReadChecked, IgnorePlain, ReadMirror, port, vars
    <3> QED
      BY <3>1 DEF Types
  <2> QED
    BY <2>1, <2>2, <2>3, <2>4 DEF Next, Port
<1>5. /\ param' \in [Regs -> Values] /\ chanKeep' \in Values /\ hpc' \in {"item", "show"}
  <2>1. CASE WriteKeep \/ SetChanKeep \/ SetParam \/ ShowKeep
    <3>1. \/ \E r \in Regs, v \in Values : param' = [param EXCEPT ![r] = v]
          \/ param' = param
      BY <2>1 DEF WriteKeep, SetChanKeep, SetParam, ShowKeep, Types, Regs
    <3>2. chanKeep' \in {chanKeep, wpc.value} /\ hpc' \in {hpc, "item"}
      BY <2>1 DEF WriteKeep, SetChanKeep, SetParam, ShowKeep, receiver
    <3> QED
      BY <3>1, <3>2 DEF Types
  <2>2. CASE EchoKeep \/ ReadKeep \/ ReadChecked \/ ReadMirror
    <3>1. Value \in Values
      <4>1. todo \in Seq(Item) /\ todo # <<>>
        BY <2>2 DEF EchoKeep, ReadKeep, ReadChecked, ReadMirror, Handle, Types
      <4>2. todo[1] \in Item
        BY <4>1, TailFacts
      <4> QED
        BY <4>2 DEF Value, Item
    <3> QED
      BY <2>2, <3>1 DEF EchoKeep, ReadKeep, ReadChecked, StoreReadback, ReadMirror, Types
  <2>3. CASE WriteInt32 \/ QueueWrite \/ Network \/ TakeAnswer \/ EchoChecked \/ IgnorePlain
             \/ UNCHANGED vars
    <3>1. param' = param /\ chanKeep' = chanKeep /\ hpc' = hpc
      BY <2>3 DEF WriteInt32, QueueWrite, Network, SendWrite, Poll, Lose, TakeAnswer,
                  EchoChecked, IgnorePlain, receiver, vars
    <3> QED
      BY <3>1 DEF Types
  <2> QED
    BY <2>1, <2>2, <2>3 DEF Next, Port, Receiver
<1> QED
  BY <1>1, <1>2, <1>3, <1>4, <1>5 DEF Types

--------------------------------------------------------------------------------

LEMMA SetInductive == Spec => []SetInv
<1>1. Init => SetInv
  <2> SUFFICES ASSUME Init PROVE SetInv
    OBVIOUS
  <2> DEFINE a == Mirror(fpga)
  <2>1. fpga \in [Regs -> Values] /\ {"checked", "plain"} \subseteq Regs
    BY DEF Init, Regs
  <2>2. /\ a \in Seq(Item) /\ Len(a) = 2 /\ a[1].kind = "mirror" /\ a[2].kind = "mirror"
    BY <2>1 DEF Mirror, Item
  <2>3. wire = <<a>> /\ todo = <<>> /\ queue = <<>>
    BY DEF Init
  <2> HIDE DEF a
  <2>4. /\ Len(wire) = 1 /\ wire[1] = a /\ wire \in Seq(Seq(Item)) /\ Len(todo) = 0
        /\ \A i \in 1 .. 1 : i = 1
    BY <2>2, <2>3
  <2>5. \A j \in 1 .. 2 : j = 1 \/ j = 2
    OBVIOUS
  <2>6. WellFormed(a) /\ \A r \in Regs : ReadsAs(a, r, fpga[r])
    BY <2>2, <2>5 DEF WellFormed, ReadsAs
  <2>7. WellFormed(todo) /\ \A r \in Regs : ReadsAs(todo, r, fpga[r])
    BY <2>4 DEF WellFormed, ReadsAs
  <2>8. Shape /\ \A r \in Regs : LastRead(r)
    BY <2>3, <2>4, <2>6, <2>7 DEF Shape, LastRead
  <2>9. Types
    BY <2>1, <2>3, <2>4, SetpointAssumption DEF Init, Types, Idle, Regs
  <2>10. \A r \in Regs : written[r] = Unwritten
    BY DEF Init
  <2>11. KeepShown
    BY DEF Init, KeepShown, Regs
  <2> QED
    BY <2>8, <2>9, <2>10, <2>11
    DEF SetInv, LastWrite, Heals, MirrorRepaired, PlainKept, Regs
<1>2. SetInv /\ [Next]_vars => SetInv'
  <2> SUFFICES ASSUME SetInv, [Next]_vars PROVE SetInv'
    OBVIOUS
  <2>1. Types' /\ Shape'
    BY TypesStep, ShapeStep DEF SetInv
  <2>2. ASSUME NEW reg \in Regs
        PROVE  (losses' = 0 => LastRead(reg)') /\ LastWrite(reg)'
    BY LossesStep, LastReadStep, LastWriteStep DEF SetInv
  <2> QED
    BY <2>1, <2>2, KeepHealsStep, CheckedHealsStep, KeepShownStep, MirrorRepairedStep, PlainKeptStep
    DEF SetInv
<1> QED
  BY <1>1, <1>2, PTL DEF Spec

\* As long as nothing is lost, once everything written has been answered the registers
\* hold what the operator wrote last and the driver says so, whatever older answers
\* overwrote on the way; a plain register only if it was not written before the mirror.
THEOREM SettingsAgree == Spec => []AgreeWhenQuiet
<1>1. SetInv => AgreeWhenQuiet
  <2> SUFFICES ASSUME SetInv, Quiet, losses = 0, NEW r \in Regs, written[r] # Unwritten
               PROVE  /\ fpga[r] = written[r]
                      /\ param[r] = fpga[r] \/ (r = "plain" /\ raced)
                      /\ r = "keep" => chanKeep = fpga[r]
    BY DEF AgreeWhenQuiet
  <2>1. \A reg \in Regs : ~Pending(reg)
    BY DEF Quiet, Pending, Sending, Queued
  <2>2. \A reg \in Regs : ~ToCome("read", reg) /\ ~ToCome("echo", reg)
    BY DEF Quiet, ToCome, Has
  <2>3. fpga[r] = written[r]
    BY <2>1 DEF SetInv, LastWrite
  <2>4. CASE r = "keep"
    <3>1. chanKeep = fpga[r] /\ param[r] = chanKeep
      BY <2>1, <2>2, <2>4 DEF SetInv, Heals, KeepShown, Quiet
    <3> QED
      BY <2>3, <3>1
  <2>5. CASE r = "checked"
    BY <2>1, <2>2, <2>3, <2>5 DEF SetInv, Heals
  <2>6. CASE r = "plain"
    <3>1. raced \/ param["plain"] = written["plain"]
      BY <2>6 DEF SetInv, PlainKept, Quiet
    <3> QED
      BY <2>3, <2>6, <3>1
  <2> QED
    BY <2>4, <2>5, <2>6 DEF Regs
<1> QED
  BY <1>1, SetInductive, PTL

--------------------------------------------------------------------------------
(* The bounds of the model *)

Bounded ==
  /\ Len(wire) <= MaxInFlight /\ mismatch \in BOOLEAN /\ raced \in BOOLEAN
  /\ writes \in 0 .. MaxWrites /\ losses \in 0 .. MaxLosses

LEMMA BoundedStep ==
  ASSUME Types, Bounded, [Next]_vars
  PROVE  Bounded'
<1>0. {MaxInFlight, MaxWrites, MaxLosses} \subseteq Nat
  BY SetpointAssumption
<1>1. Len(wire') <= MaxInFlight
  <2>1. wire \in Seq(Seq(Item)) /\ Len(wire) \in Nat
    BY DEF Types
  <2>2. CASE SendWrite \/ Poll
    <3>1. Len(wire) < MaxInFlight /\ (wire' = wire \/ \E x : wire' = Append(wire, x))
      BY <2>2 DEF SendWrite, Poll
    <3>2. \A x : Len(Append(wire, x)) = Len(wire) + 1
      BY <2>1
    <3> QED
      BY <1>0, <2>1, <3>1, <3>2
  <2>3. CASE Lose \/ TakeAnswer
    <3>1. wire # <<>> /\ wire' = Tail(wire)
      BY <2>3 DEF Lose, TakeAnswer
    <3> QED
      BY <1>0, <2>1, <3>1, TailFacts DEF Bounded
  <2>4. wire' = wire \/ SendWrite \/ Poll \/ Lose \/ TakeAnswer
    BY DEF Next, Port, WriteKeep, SetChanKeep, WriteInt32, QueueWrite, SetParam, Network,
           Receiver, EchoKeep, ReadKeep, ShowKeep, EchoChecked, ReadChecked, IgnorePlain,
           ReadMirror, vars
  <2> QED
    BY <2>2, <2>3, <2>4 DEF Bounded
<1>2. mismatch' \in BOOLEAN
  BY DEF Bounded, Next, Port, WriteKeep, SetChanKeep, WriteInt32, QueueWrite, SetParam, Network,
         SendWrite, Poll, Lose, Receiver, TakeAnswer, EchoKeep, ReadKeep, ShowKeep, EchoChecked,
         ReadChecked, IgnorePlain, ReadMirror, receiver, vars
<1>3. raced' \in BOOLEAN /\ (writes' = writes \/ (writes < MaxWrites /\ writes' = writes + 1))
  BY DEF Bounded, Next, Port, WriteKeep, SetChanKeep, WriteInt32, Begin, QueueWrite, SetParam,
         Network, SendWrite, Poll, Lose, Receiver, TakeAnswer, EchoKeep, ReadKeep, ShowKeep,
         EchoChecked, ReadChecked, IgnorePlain, ReadMirror, port, vars
<1>4. losses' = losses \/ (losses < MaxLosses /\ losses' = losses + 1)
  BY DEF Next, Port, WriteKeep, SetChanKeep, WriteInt32, QueueWrite, SetParam, Network,
         SendWrite, Poll, Lose, Receiver, TakeAnswer, EchoKeep, ReadKeep, ShowKeep, EchoChecked,
         ReadChecked, IgnorePlain, ReadMirror, vars
<1>5. writes' \in 0 .. MaxWrites /\ losses' \in 0 .. MaxLosses
  BY <1>0, <1>3, <1>4 DEF Bounded
<1> QED
  BY <1>1, <1>2, <1>3, <1>5 DEF Bounded

\* Types are kept: what is queued, in flight and being processed are items of the three
\* kinds, and the bounds of the model bound.
THEOREM TypesKept == Spec => []TypeOK
<1>1. Init => Bounded
  <2>1. MaxWrites \in Nat /\ MaxLosses \in Nat /\ MaxInFlight >= 1
    BY SetpointAssumption
  <2>2. \A x : Len(<<x>>) = 1
    OBVIOUS
  <2>3. Init => Len(wire) <= MaxInFlight
    BY <2>1, <2>2 DEF Init
  <2>4. Init => mismatch = FALSE /\ raced = FALSE /\ writes = 0 /\ losses = 0
    BY DEF Init
  <2>5. 0 \in 0 .. MaxWrites /\ 0 \in 0 .. MaxLosses
    BY <2>1
  <2> QED
    BY <2>3, <2>4, <2>5 DEF Bounded
<1>2. Types /\ Bounded => TypeOK
  BY DEF Types, Bounded, TypeOK
<1>3. SetInv => Types
  BY DEF SetInv
<1>4. Types /\ Bounded /\ [Next]_vars => Bounded'
  BY BoundedStep
<1> QED
  BY <1>1, <1>2, <1>3, <1>4, SetInductive, PTL DEF Spec
================================================================================
