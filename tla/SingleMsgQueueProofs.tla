------------------------- MODULE SingleMsgQueueProofs -------------------------
(***************************************************************************)
(* Whatever sizes the queued messages have, and although the queuer adds   *)
(* numbers of messages to numbers of bytes and counts a dropped message as *)
(* minus one byte, its packets always fit: the buffer is never overrun and *)
(* sendRegRequest is never called with fewer elements than the minimum.    *)
(*                                                                         *)
(* Unless a packet has overflowed, what was sent, what is packed and what  *)
(* is queued are together the messages in the order they were put.  That   *)
(* rests on facts about FlattenSeq, whose recursive function exists since  *)
(* each of its initial segments does (NatLemmas!UpTo).                     *)
(***************************************************************************)
EXTENDS SingleMsgQueue, SequenceTheorems, NatLemmas

\* A message that fits into an empty packet.
Sized == [id : Nat, size : 1 .. BufRegs - 1]

\* What the byte arithmetic rests on: queued messages fit into an empty packet.
SizeInv ==
  /\ queue \in Seq(Sized)
  /\ puts \in Nat
  /\ bytes \in 0 .. BufBytes
  /\ lastPacket \in MinRegs .. BufRegs

\* A message put on the queue fits into an empty packet.
LEMMA PutKeepsSizes ==
  ASSUME SizeInv, NEW size \in 1 .. BufRegs - 1, Put(size)
  PROVE  /\ queue' \in Seq(Sized)
         /\ puts' \in Nat
<1>1. [id |-> puts + 1, size |-> size] \in Sized
  BY DEF SizeInv, Sized
<1>2. puts' = puts + 1 /\ queue' = Append(queue, [id |-> puts + 1, size |-> size])
  BY DEF Put
<1> QED
  BY <1>1, <1>2 DEF SizeInv

\* So does the one that is taken from it.
LEMMA HeadSize ==
  ASSUME SizeInv, queue # <<>>
  PROVE  /\ Head(queue).size \in 1 .. BufRegs - 1
         /\ Tail(queue) \in Seq(Sized)
<1>1. Head(queue) \in Sized
  BY DEF SizeInv
<1>2. Tail(queue) \in Seq(Sized)
  BY DEF SizeInv
<1> QED
  BY <1>1, <1>2 DEF Sized

\* Nothing is packed at the start.
LEMMA SizeInit == Init => SizeInv
  BY QueueAssumption DEF Init, SizeInv, BufBytes, RegBytes

\* No step makes a packet longer than the buffer.
LEMMA SizeStep == SizeInv /\ [Next]_vars => SizeInv'
<1> SUFFICES ASSUME SizeInv, [Next]_vars
             PROVE  SizeInv'
  OBVIOUS
<1>0. BufRegs \in Nat /\ MinRegs \in 2 .. BufRegs
  BY QueueAssumption
<1>1. CASE Produce
  <2>1. PICK size \in Sizes : Put(size)
    BY <1>1 DEF Produce
  <2>2. size \in 1 .. BufRegs - 1
    BY QueueAssumption
  <2> QED
    BY <1>1, <2>1, <2>2, PutKeepsSizes DEF Produce, SizeInv, queuerVars
<1>2. CASE Receive
  <2>1. /\ bytes' = RegBytes + RegBytes * Head(queue).size
        /\ queue' = Tail(queue) /\ queue # <<>>
        /\ UNCHANGED <<puts, lastPacket>>
    BY <1>2 DEF Receive
  <2>2. bytes' \in 0 .. BufBytes
    BY <1>0, <2>1, HeadSize DEF RegBytes, BufBytes
  <2> QED
    BY <2>1, <2>2, HeadSize DEF SizeInv
<1>3. CASE Aggregate
  <2>1. /\ queue' = Tail(queue) /\ queue # <<>>
        /\ UNCHANGED <<puts, lastPacket>>
        /\ \/ Fits(Head(queue)) /\ bytes' = bytes + RegBytes * Head(queue).size
           \/ ~Fits(Head(queue)) /\ bytes' = bytes - 1
    BY <1>3 DEF Aggregate
  <2>2. PICK n \in 1 .. BufRegs - 1 : n = Head(queue).size
    BY <2>1, HeadSize
  <2>3. Fits(Head(queue)) /\ bytes' = bytes + 8 * n => bytes' \in 0 .. BufBytes
    <3> SUFFICES ASSUME Fits(Head(queue)), bytes' = bytes + 8 * n
                 PROVE  bytes' \in 0 .. BufBytes
      OBVIOUS
    <3>1. 8 * n <= BufRegs * 8 - bytes
      BY <2>2 DEF Fits, RegBytes, BufBytes
    <3> QED
      BY <1>0, <3>1 DEF SizeInv, RegBytes, BufBytes
  <2>4. ~Fits(Head(queue)) /\ bytes' = bytes - 1 => bytes' \in 0 .. BufBytes
    <3> SUFFICES ASSUME ~Fits(Head(queue)), bytes' = bytes - 1
                 PROVE  bytes' \in 0 .. BufBytes
      OBVIOUS
    <3>1. ~(8 * n <= BufRegs * 8 - bytes)
      BY <2>2 DEF Fits, RegBytes, BufBytes
    <3>2. bytes > 0
      BY <1>0, <3>1 DEF SizeInv, RegBytes, BufBytes
    <3> QED
      BY <1>0, <3>2 DEF SizeInv, RegBytes, BufBytes
  <2>5. bytes' \in 0 .. BufBytes
    BY <2>1, <2>2, <2>3, <2>4 DEF RegBytes
  <2> QED
    BY <2>1, <2>5, HeadSize DEF SizeInv
<1>4. CASE SendPacket
  <2>1. RegCount \in 0 .. BufRegs
    BY <1>0 DEF SizeInv, RegCount, RegBytes, BufBytes
  <2>2. PacketSize \in MinRegs .. BufRegs
    BY <1>0, <2>1 DEF PacketSize
  <2> QED
    BY <1>4, <2>2 DEF SendPacket, SizeInv, queueVars
<1>5. CASE StopAggregating
  BY <1>5 DEF StopAggregating, SizeInv, queueVars
<1>6. CASE SendDisconnected
  BY <1>6 DEF SendDisconnected, SizeInv, queueVars
<1>7. CASE Requeue
  <2>1. 1 \in 1 .. BufRegs - 1
    BY <1>0
  <2> QED
    BY <1>7, <2>1, PutKeepsSizes DEF Requeue, SizeInv, queuerVars
<1>8. CASE UNCHANGED <<queueVars, queuerVars>>
  BY <1>8 DEF SizeInv, queueVars, queuerVars
<1> QED
  BY <1>1, <1>2, <1>3, <1>4, <1>5, <1>6, <1>7, <1>8
     DEF Next, Queuer, Receiver, Shutdown, vars

\* The packet buffer of singleMessageQueuer is never overrun and every packet has
\* between minRegPerMsg and maxRegPerMsg + nonceSize elements.
THEOREM PacketsFit == Spec => []PacketFits
<1>1. SizeInv => PacketFits
  BY QueueAssumption DEF SizeInv, PacketFits, BufBytes, RegBytes
<1> QED
  BY <1>1, SizeInit, SizeStep, PTL DEF Spec

--------------------------------------------------------------------------------
(***************************************************************************)
(* Sequences made flat.  What FlattenSeq computes is the last of its       *)
(* prefixes' results (Flattens), and that determines it.                   *)
(***************************************************************************)

Flattens(g, seqs, T) ==
  /\ g \in [0 .. Len(seqs) -> Seq(T)] /\ g[0] = <<>>
  /\ \A i \in 1 .. Len(seqs) : g[i] = g[i - 1] \o seqs[i]

\* The recursive function in the definition of FlattenSeq exists.
LEMMA FlattenExists ==
  ASSUME NEW T, NEW seqs \in Seq(Seq(T)), Len(seqs) # 0
  PROVE  \E f : /\ f = [i \in 1 .. Len(seqs) |-> IF i = 1 THEN seqs[i] ELSE f[i - 1] \o seqs[i]]
                /\ FlattenSeq(seqs) = f[Len(seqs)]
<1> DEFINE n == Len(seqs)
           Made(f, k) == f = [i \in 1 .. k |-> IF i = 1 THEN seqs[i] ELSE f[i - 1] \o seqs[i]]
           S == {k \in 0 .. n : \E f : Made(f, k)}
           F == CHOOSE f : Made(f, n)
<1>1. n \in Nat
  OBVIOUS
<1>2. 0 \in S
  <2>1. Made([i \in {} |-> i], 0)
    OBVIOUS
  <2>2. 0 \in 0 .. n
    BY <1>1
  <2> HIDE DEF Made
  <2> QED
    BY <2>1, <2>2
<1>3. ASSUME NEW k \in 0 .. n - 1, k \in S
      PROVE  k + 1 \in S
  <2>1. PICK f : Made(f, k)
    BY <1>3
  <2> DEFINE last == IF k = 0 THEN seqs[1] ELSE f[k] \o seqs[k + 1]
             h == [i \in 1 .. k + 1 |-> IF i = k + 1 THEN last ELSE f[i]]
  <2>0. k \in Nat /\ k + 1 \in 0 .. n
    BY <1>1
  <2>2. h[k + 1] = last /\ \A i \in 1 .. k : h[i] = f[i]
    <3> HIDE DEF last
    <3>1. k + 1 \in 1 .. k + 1 /\ \A i \in 1 .. k : i \in 1 .. k + 1 /\ i # k + 1
      BY <2>0
    <3> QED
      BY <3>1
  <2>3. \A i \in 1 .. k : f[i] = IF i = 1 THEN seqs[i] ELSE f[i - 1] \o seqs[i]
    BY <2>1
  <2>4. \A i \in 1 .. k + 1 : h[i] = IF i = 1 THEN seqs[i] ELSE h[i - 1] \o seqs[i]
    <3> SUFFICES ASSUME NEW i \in 1 .. k + 1
                 PROVE  h[i] = IF i = 1 THEN seqs[i] ELSE h[i - 1] \o seqs[i]
      OBVIOUS
    <3>1. CASE i = k + 1 /\ k = 0
      BY <2>2, <3>1
    <3>2. CASE i = k + 1 /\ k # 0
      <4>1. k \in 1 .. k /\ i - 1 = k /\ i # 1
        BY <3>2
      <4>2. h[k] = f[k] /\ h[i] = f[k] \o seqs[k + 1]
        BY <2>2, <3>2, <4>1
      <4> HIDE DEF h
      <4> QED
        BY <3>2, <4>1, <4>2
    <3>3. CASE i # k + 1
      <4>1. i \in 1 .. k /\ (i # 1 => i - 1 \in 1 .. k)
        BY <3>3
      <4> HIDE DEF h
      <4> QED
        BY <2>2, <2>3, <4>1
    <3> QED
      BY <3>1, <3>2, <3>3
  <2>5. h = [i \in 1 .. k + 1 |-> h[i]]
    OBVIOUS
  <2> HIDE DEF h
  <2>6. Made(h, k + 1)
    BY <2>4, <2>5
  <2> HIDE DEF Made
  <2> QED
    BY <2>0, <2>6
<1>4. n \in S
  <2> HIDE DEF S, n
  <2>1. \A k \in 0 .. n - 1 : k \in S => k + 1 \in S
    BY <1>3
  <2>2. 0 .. n \subseteq S
    BY <1>1, <1>2, <2>1, UpTo
  <2> QED
    BY <1>1, <2>2
<1>5. Made(F, n)
  BY <1>4
<1>6. FlattenSeq(seqs) = F[n]
  BY Zenon DEF FlattenSeq
<1> HIDE DEF F
<1> QED
  BY <1>5, <1>6

\* What FlattenSeq is: each part behind all that come before it.
LEMMA FlattenFacts ==
  ASSUME NEW T, NEW seqs \in Seq(Seq(T))
  PROVE  \E g : Flattens(g, seqs, T) /\ FlattenSeq(seqs) = g[Len(seqs)]
<1>0. Len(seqs) \in Nat /\ \A i \in 1 .. Len(seqs) : seqs[i] \in Seq(T)
  OBVIOUS
<1>1. CASE Len(seqs) = 0
  <2> DEFINE g == [i \in {0} |-> <<>>]
  <2>1. seqs = <<>> /\ FlattenSeq(seqs) = <<>>
    BY <1>1 DEF FlattenSeq
  <2>2. Flattens(g, seqs, T) /\ g[Len(seqs)] = <<>>
    BY <1>1 DEF Flattens
  <2> QED
    BY <2>1, <2>2
<1>2. CASE Len(seqs) # 0
  <2>1. PICK f : /\ f = [i \in 1 .. Len(seqs) |-> IF i = 1 THEN seqs[i] ELSE f[i - 1] \o seqs[i]]
                 /\ FlattenSeq(seqs) = f[Len(seqs)]
    BY <1>2, FlattenExists
  <2> DEFINE g == [i \in 0 .. Len(seqs) |-> IF i = 0 THEN <<>> ELSE f[i]]
             S == {i \in 0 .. Len(seqs) : g[i] \in Seq(T)}
  <2>2. \A i \in 1 .. Len(seqs) :
          (i = 1 => f[i] = seqs[i]) /\ (i # 1 => f[i] = f[i - 1] \o seqs[i])
    BY <2>1
  <2>3. g[0] = <<>> /\ \A i \in 1 .. Len(seqs) : g[i] = f[i]
    BY <1>0
  <2> HIDE DEF g
  <2>4. \A i \in 1 .. Len(seqs) : g[i] = g[i - 1] \o seqs[i]
    <3> SUFFICES ASSUME NEW i \in 1 .. Len(seqs) PROVE g[i] = g[i - 1] \o seqs[i]
      OBVIOUS
    <3>1. CASE i = 1
      <4>1. g[i] = seqs[i]
        BY <2>2, <2>3, <3>1
      <4>2. i - 1 = 0 /\ seqs[i] \in Seq(T)
        BY <1>0, <3>1
      <4>3. <<>> \o seqs[i] = seqs[i]
        BY <4>2, ConcatEmptySeq
      <4> QED
        BY <2>3, <4>1, <4>2, <4>3, Zenon
    <3>2. CASE i # 1
      <4>1. i - 1 \in 1 .. Len(seqs)
        BY <1>0, <3>2
      <4>2. g[i - 1] = f[i - 1] /\ g[i] = f[i]
        BY <2>3, <4>1
      <4> QED
        BY <2>2, <3>2, <4>2, Zenon
    <3> QED
      BY <3>1, <3>2
  <2>5. 0 .. Len(seqs) \subseteq S
    <3>1. 0 \in S
      <4>1. <<>> \in Seq(T) /\ 0 \in 0 .. Len(seqs)
        BY <1>0
      <4> QED
        BY <2>3, <4>1, Zenon
    <3>2. ASSUME NEW i \in 0 .. Len(seqs) - 1, i \in S PROVE i + 1 \in S
      <4>1. i + 1 \in 1 .. Len(seqs) /\ (i + 1) - 1 = i /\ i + 1 \in 0 .. Len(seqs)
        BY <1>0
      <4>2. g[i + 1] = g[i] \o seqs[i + 1]
        <5>1. g[i + 1] = g[(i + 1) - 1] \o seqs[i + 1]
          BY <2>4, <4>1
        <5> QED
          BY <4>1, <5>1, Zenon
      <4>3. g[i] \in Seq(T) /\ seqs[i + 1] \in Seq(T)
        BY <1>0, <3>2, <4>1, Zenon
      <4>4. g[i] \o seqs[i + 1] \in Seq(T)
        BY <4>3, ConcatProperties
      <4> QED
        BY <4>1, <4>2, <4>4, Zenon
    <3> HIDE DEF S
    <3> QED
      BY <1>0, <3>1, <3>2, UpTo
  <2>6. Flattens(g, seqs, T)
    <3>1. g \in [0 .. Len(seqs) -> Seq(T)]
      BY <2>5 DEF g
    <3> QED
      BY <2>3, <2>4, <3>1 DEF Flattens
  <2>7. Len(seqs) \in 1 .. Len(seqs)
    BY <1>0, <1>2
  <2> QED
    BY <2>1, <2>3, <2>6, <2>7
<1> QED
  BY <1>1, <1>2

\* The result is a sequence of what the parts are made of.
LEMMA FlattenType ==
  ASSUME NEW T, NEW seqs \in Seq(Seq(T))
  PROVE  FlattenSeq(seqs) \in Seq(T)
<1>1. Len(seqs) \in 0 .. Len(seqs)
  OBVIOUS
<1>2. PICK g : Flattens(g, seqs, T) /\ FlattenSeq(seqs) = g[Len(seqs)]
  BY FlattenFacts
<1>3. g \in [0 .. Len(seqs) -> Seq(T)]
  BY <1>2 DEF Flattens
<1>4. g[Len(seqs)] \in Seq(T)
  BY <1>1, <1>3, Zenon
<1> QED
  BY <1>2, <1>4, Zenon

\* No part, nothing.
LEMMA FlattenEmpty == FlattenSeq(<<>>) = <<>>
  BY DEF FlattenSeq

\* A part more at the end is appended ...
LEMMA FlattenAppend ==
  ASSUME NEW T, NEW seqs \in Seq(Seq(T)), NEW s \in Seq(T)
  PROVE  FlattenSeq(Append(seqs, s)) = FlattenSeq(seqs) \o s
<1> DEFINE more == Append(seqs, s)
           n == Len(seqs)
<1>1. more \in Seq(Seq(T)) /\ Len(more) = n + 1 /\ n \in Nat
      /\ more[n + 1] = s /\ \A i \in 1 .. n : more[i] = seqs[i]
  OBVIOUS
<1>2. PICK g : Flattens(g, seqs, T) /\ FlattenSeq(seqs) = g[n]
  BY FlattenFacts
<1> HIDE DEF more
<1>3. PICK h : Flattens(h, more, T) /\ FlattenSeq(more) = h[n + 1]
  BY <1>1, FlattenFacts
<1> DEFINE S == {i \in 0 .. n : h[i] = g[i]}
<1>4. 0 \in S
  BY <1>1, <1>2, <1>3 DEF Flattens
<1>5. ASSUME NEW i \in 0 .. n - 1, i \in S PROVE i + 1 \in S
  <2>1. i + 1 \in 1 .. n /\ i + 1 \in 1 .. n + 1 /\ (i + 1) - 1 = i
    BY <1>1
  <2>2. h[i + 1] = h[i] \o more[i + 1] /\ g[i + 1] = g[i] \o seqs[i + 1]
    BY <1>1, <1>2, <1>3, <2>1 DEF Flattens
  <2>3. h[i] = g[i] /\ more[i + 1] = seqs[i + 1] /\ i + 1 \in 0 .. n
    BY <1>1, <1>5, <2>1
  <2> QED
    BY <2>2, <2>3, Zenon
<1>6. n \in S
  <2> HIDE DEF S, n
  <2>1. n \in Nat /\ \A i \in 0 .. n - 1 : i \in S => i + 1 \in S
    BY <1>1, <1>5
  <2>2. 0 .. n \subseteq S
    BY <1>4, <2>1, UpTo
  <2> QED
    BY <2>1, <2>2
<1>7. h[n + 1] = h[n] \o more[n + 1]
  <2>1. n + 1 \in 1 .. n + 1 /\ (n + 1) - 1 = n
    BY <1>1
  <2> QED
    BY <1>1, <1>3, <2>1 DEF Flattens
<1> QED
  BY <1>1, <1>2, <1>3, <1>6, <1>7 DEF more

\* ... and the first part comes first.
LEMMA FlattenCons ==
  ASSUME NEW T, NEW seqs \in Seq(Seq(T)), seqs # <<>>
  PROVE  FlattenSeq(seqs) = Head(seqs) \o FlattenSeq(Tail(seqs))
<1> DEFINE rest == Tail(seqs)
           first == Head(seqs)
           n == Len(rest)
<1>1. /\ rest \in Seq(Seq(T)) /\ n \in Nat /\ Len(seqs) = n + 1 /\ first \in Seq(T)
      /\ seqs[1] = first /\ \A i \in 1 .. n : rest[i] = seqs[i + 1]
  OBVIOUS
<1> HIDE DEF rest, first
<1>2. PICK g : Flattens(g, seqs, T) /\ FlattenSeq(seqs) = g[n + 1]
  BY <1>1, FlattenFacts
<1>3. PICK h : Flattens(h, rest, T) /\ FlattenSeq(rest) = h[n]
  BY <1>1, FlattenFacts
<1> DEFINE S == {i \in 0 .. n : g[i + 1] = first \o h[i]}
<1>4. 0 \in S
  <2>1. 1 \in 1 .. n + 1 /\ 1 - 1 = 0 /\ 0 + 1 = 1 /\ 0 \in 0 .. n
    BY <1>1
  <2>2. g[1] = <<>> \o first /\ h[0] = <<>>
    BY <1>1, <1>2, <1>3, <2>1 DEF Flattens
  <2>3. <<>> \o first = first /\ first \o <<>> = first
    BY <1>1, ConcatEmptySeq
  <2> QED
    BY <2>1, <2>2, <2>3
<1>5. ASSUME NEW i \in 0 .. n - 1, i \in S PROVE i + 1 \in S
  <2>1. i + 1 \in 1 .. n /\ i + 2 \in 1 .. n + 1 /\ (i + 1) - 1 = i /\ (i + 2) - 1 = i + 1
        /\ i \in 0 .. n /\ (i + 1) + 1 = i + 2 /\ i + 1 \in 0 .. n
    BY <1>1
  <2>2. g[i + 2] = g[i + 1] \o seqs[i + 2] /\ h[i + 1] = h[i] \o rest[i + 1]
    BY <1>1, <1>2, <1>3, <2>1 DEF Flattens
  <2>3. rest[i + 1] = seqs[i + 2] /\ rest[i + 1] \in Seq(T) /\ h[i] \in Seq(T)
    <3>1. h \in [0 .. n -> Seq(T)]
      BY <1>3 DEF Flattens
    <3>2. h[i] \in Seq(T)
      BY <2>1, <3>1, Zenon
    <3>3. rest[i + 1] \in Seq(T)
      BY <1>1, <2>1
    <3>4. rest[i + 1] = seqs[i + 2]
      BY <1>1, <2>1
    <3> QED
      BY <3>2, <3>3, <3>4
  <2>4. g[i + 1] = first \o h[i]
    BY <1>5
  <2>5. (first \o h[i]) \o rest[i + 1] = first \o (h[i] \o rest[i + 1])
    <3> DEFINE x == h[i]
               y == rest[i + 1]
    <3>1. first \in Seq(T) /\ x \in Seq(T) /\ y \in Seq(T)
      BY <1>1, <2>3
    <3> HIDE DEF x, y, S, n
    <3>2. (first \o x) \o y = first \o (x \o y)
      BY <3>1
    <3> QED
      BY <3>2 DEF x, y
  <2> QED
    BY <2>1, <2>2, <2>3, <2>4, <2>5
<1>6. n \in S
  <2> HIDE DEF S, n
  <2>1. n \in Nat /\ \A i \in 0 .. n - 1 : i \in S => i + 1 \in S
    BY <1>1, <1>5
  <2>2. 0 .. n \subseteq S
    BY <1>4, <2>1, UpTo
  <2> QED
    BY <2>1, <2>2
<1> QED
  BY <1>2, <1>3, <1>6 DEF rest, first

--------------------------------------------------------------------------------
(* Packets *)

\* A register that is not a blank.
Carrying == Register \ {Blank}

\* The elements of a packet carry the registers of whole messages, one behind the
\* other, and up to the minimum the rest are blanks.
Packed ==
  /\ bytes = RegBytes * RegCount /\ RegCount \in 2 .. BufRegs
  /\ \A k \in 1 .. RegCount - 1 : buf[k] # Blank
  /\ \A k \in RegCount .. MinRegs - 1 : buf[k] = Blank

\* What was put on the queue: numbered, and fitting into an empty packet.
Msgs == [id : 1 .. MaxMsgs, size : 1 .. BufRegs - 1]

\* A receiving thread that is about to queue a message may.
QueueTypes ==
  /\ TypeOK /\ SizeInv /\ queue \in Seq(Msgs)
  /\ hpc = "requeue" => puts < MaxMsgs

\* Unless a packet has overflowed, the buffer holds what was packed into it.
PackedUnlessOverflowed == (~overflowed /\ qpc \in {"aggregate", "send"}) => Packed

\* Inductive: what was sent is in order because what is packed is.
QueueInv == QueueTypes /\ PackedUnlessOverflowed /\ SentUnlessOverflowed

\* The first n elements of a buffer b.
Elements(b, n) == [k \in 1 .. n |-> b[k]]

\* They are a sequence of registers when none of them is blank.
LEMMA ElementsType ==
  ASSUME NEW n \in Nat, NEW b, \A k \in 1 .. n : b[k] \in Carrying
  PROVE  Elements(b, n) \in Seq(Carrying) /\ Len(Elements(b, n)) = n
BY DEF Elements

\* What a message carries.
LEMMA RegsType ==
  ASSUME NEW m \in [id : 1 .. MaxMsgs, size : Nat \ {0}]
  PROVE  /\ Regs(m) \in Seq(Carrying) /\ Len(Regs(m)) = m.size
         /\ \A i \in 1 .. m.size : Regs(m)[i] \in Carrying
<1>1. m.size \in Nat \ {0} /\ m.id \in 1 .. MaxMsgs /\ MaxMsgs \in Nat
  BY QueueAssumption
<1>2. ASSUME NEW i \in 1 .. m.size
      PROVE  <<m.id, i>> \in Carrying
  <2>1. i \in Nat \ {0} /\ m.id # 0
    BY <1>1
  <2>2. <<m.id, i>> \in (1 .. MaxMsgs) \X (Nat \ {0}) /\ <<m.id, i>> # <<0, 0>>
    BY <1>1, <2>1
  <2> QED
    BY <2>2 DEF Carrying, Register, Blank
<1>3. Regs(m) = [i \in 1 .. m.size |-> <<m.id, i>>]
  BY DEF Regs
<1> QED
  BY <1>1, <1>2, <1>3

\* What is filled is carried, whatever the buffer holds ...
LEMMA FilledType ==
  ASSUME NEW b, NEW n \in Nat, \A k \in 1 .. n : b[k] \in Register
  PROVE  Filled(b, n) \in Seq(Carrying)
<1> DEFINE parts == [k \in 1 .. n |-> IF b[k] = Blank THEN <<>> ELSE <<b[k]>>]
<1>0. \A k \in 1 .. n : b[k] = Blank \/ b[k] \in Carrying
  BY DEF Carrying
<1>1. \A k \in 1 .. n : (IF b[k] = Blank THEN <<>> ELSE <<b[k]>>) \in Seq(Carrying)
  BY <1>0
<1>2. parts \in Seq(Seq(Carrying))
  BY <1>1
<1> HIDE DEF parts
<1>3. FlattenSeq(parts) \in Seq(Carrying)
  BY <1>2, FlattenType
<1> QED
  BY <1>3 DEF Filled, parts

\* ... and of a packet it is the elements in front of the blanks.
LEMMA FilledPrefix ==
  ASSUME NEW b, NEW n \in Nat, NEW m \in 0 .. n,
         \A k \in 1 .. m : b[k] \in Carrying,
         \A k \in m + 1 .. n : b[k] = Blank
  PROVE  Filled(b, n) = Elements(b, m)
<1> DEFINE parts == [k \in 1 .. n |-> IF b[k] = Blank THEN <<>> ELSE <<b[k]>>]
           upTo(k) == IF k <= m THEN k ELSE m
           S == {k \in 0 .. n : Filled(b, k) = Elements(b, upTo(k))}
<1>1. ASSUME NEW k \in 1 .. n
      PROVE  b[k] = Blank \/ b[k] \in Carrying
  BY <1>1
<1>2. 0 \in S
  <2>1. Filled(b, 0) = <<>>
    <3>1. [k \in 1 .. 0 |-> IF b[k] = Blank THEN <<>> ELSE <<b[k]>>] = <<>>
      OBVIOUS
    <3> QED
      BY <3>1, FlattenEmpty DEF Filled
  <2>2. Elements(b, 0) = <<>>
    BY DEF Elements
  <2>3. upTo(0) = 0 /\ 0 \in 0 .. n
    OBVIOUS
  <2> QED
    BY <2>1, <2>2, <2>3
<1>3. ASSUME NEW k \in 0 .. n - 1, k \in S
      PROVE  k + 1 \in S
  <2> DEFINE before == [i \in 1 .. k |-> IF b[i] = Blank THEN <<>> ELSE <<b[i]>>]
             after == [i \in 1 .. k + 1 |-> IF b[i] = Blank THEN <<>> ELSE <<b[i]>>]
             part == IF b[k + 1] = Blank THEN <<>> ELSE <<b[k + 1]>>
  <2>1. k \in Nat /\ k + 1 \in 1 .. n /\ k + 1 \in 0 .. n /\ k \in 0 .. n
    OBVIOUS
  <2>2. part \in Seq(Carrying)
    BY <1>1, <2>1
  <2>3. before \in Seq(Seq(Carrying)) /\ Len(before) = k
    <3>1. \A i \in 1 .. k : (IF b[i] = Blank THEN <<>> ELSE <<b[i]>>) \in Seq(Carrying)
      BY <1>1, <2>1
    <3> QED
      BY <2>1, <3>1
  <2>4. after = Append(before, part)
    <3>1. Append(before, part) = [i \in 1 .. k + 1 |-> IF i = k + 1 THEN part ELSE before[i]]
      BY <2>1, <2>3
    <3>2. \A i \in 1 .. k + 1 : i = k + 1 \/ i \in 1 .. k
      BY <2>1
    <3> QED
      BY <3>1, <3>2
  <2>5. Filled(b, k + 1) = Filled(b, k) \o part
    <3> HIDE DEF before, after, part
    <3>1. FlattenSeq(Append(before, part)) = FlattenSeq(before) \o part
      BY <2>2, <2>3, FlattenAppend
    <3> QED
      BY <2>4, <3>1 DEF Filled, before, after
  <2>6. Filled(b, k) = Elements(b, upTo(k))
    BY <1>3
  <2>7. CASE k < m
    <3>1. upTo(k) = k /\ upTo(k + 1) = k + 1 /\ b[k + 1] \in Carrying /\ k + 1 \in 1 .. m
      BY <2>1, <2>7
    <3>2. part = <<b[k + 1]>>
      BY <3>1 DEF Carrying
    <3>3. Elements(b, k) \in Seq(Carrying) /\ Len(Elements(b, k)) = k
      BY <2>1, <2>7, ElementsType
    <3>4. Elements(b, k) \o <<b[k + 1]>> = Elements(b, k + 1)
      <4>1. Elements(b, k) \o <<b[k + 1]>>
              = [i \in 1 .. k + 1 |-> IF i <= k THEN Elements(b, k)[i] ELSE b[k + 1]]
        BY <2>1, <3>1, <3>3
      <4>2. \A i \in 1 .. k + 1 : (IF i <= k THEN Elements(b, k)[i] ELSE b[k + 1]) = b[i]
        BY <2>1 DEF Elements
      <4> QED
        BY <4>1, <4>2 DEF Elements
    <3> QED
      BY <2>1, <2>5, <2>6, <3>1, <3>2, <3>4
  <2>8. CASE k >= m
    <3>1. upTo(k) = m /\ upTo(k + 1) = m /\ b[k + 1] = Blank
      BY <2>1, <2>8
    <3>2. Elements(b, m) \in Seq(Carrying)
      BY ElementsType
    <3>3. Elements(b, m) \o <<>> = Elements(b, m)
      BY <3>2, ConcatEmptySeq
    <3> QED
      BY <2>1, <2>5, <2>6, <3>1, <3>3
  <2> QED
    BY <2>1, <2>7, <2>8
<1>4. n \in S
  <2> HIDE DEF S
  <2>1. \A k \in 0 .. n - 1 : k \in S => k + 1 \in S
    BY <1>3
  <2>2. 0 .. n \subseteq S
    BY <1>2, <2>1, UpTo
  <2> QED
    BY <2>2
<1> QED
  BY <1>4

\* What is queued, as the parts it is made of.
Parts(q) == [i \in DOMAIN q |-> Regs(q[i])]

\* What the messages of a queue carry, one after the other.
LEMMA PartsType ==
  ASSUME NEW q \in Seq(Msgs)
  PROVE  /\ Parts(q) \in Seq(Seq(Carrying)) /\ Len(Parts(q)) = Len(q)
         /\ \A i \in 1 .. Len(q) : Parts(q)[i] = Regs(q[i])
         /\ FlattenSeq(Parts(q)) \in Seq(Carrying)
<1>1. \A i \in 1 .. Len(q) : Regs(q[i]) \in Seq(Carrying)
  <2> SUFFICES ASSUME NEW i \in 1 .. Len(q) PROVE Regs(q[i]) \in Seq(Carrying)
    OBVIOUS
  <2>1. q[i] \in Msgs
    OBVIOUS
  <2>2. q[i] \in [id : 1 .. MaxMsgs, size : Nat \ {0}]
    BY <2>1, QueueAssumption DEF Msgs
  <2> QED
    BY <2>2, RegsType
<1>2. Parts(q) = [i \in 1 .. Len(q) |-> Regs(q[i])]
  BY DEF Parts
<1>3. /\ Parts(q) \in Seq(Seq(Carrying)) /\ Len(Parts(q)) = Len(q)
      /\ \A i \in 1 .. Len(q) : Parts(q)[i] = Regs(q[i])
  BY <1>1, <1>2
<1> QED
  BY <1>3, FlattenType

\* A message more at the end of a queue ...
LEMMA PartsAppend ==
  ASSUME NEW q \in Seq(Msgs), NEW m \in Msgs
  PROVE  FlattenSeq(Parts(Append(q, m))) = FlattenSeq(Parts(q)) \o Regs(m)
<1>1. Append(q, m) \in Seq(Msgs) /\ Len(Append(q, m)) = Len(q) + 1 /\ Len(q) \in Nat
  OBVIOUS
<1>2. /\ Append(q, m)[Len(q) + 1] = m
      /\ \A i \in 1 .. Len(q) : Append(q, m)[i] = q[i]
  OBVIOUS
<1>3. Regs(m) \in Seq(Carrying)
  <2>1. m \in [id : 1 .. MaxMsgs, size : Nat \ {0}]
    BY QueueAssumption DEF Msgs
  <2> QED
    BY <2>1, RegsType
<1>4. Parts(Append(q, m)) = Append(Parts(q), Regs(m))
  <2> DEFINE l == Parts(Append(q, m))
             p == Parts(q)
             r == Append(p, Regs(m))
  <2>1. /\ l \in Seq(Seq(Carrying)) /\ Len(l) = Len(q) + 1
        /\ \A i \in 1 .. Len(q) + 1 : l[i] = Regs(Append(q, m)[i])
    BY <1>1, PartsType
  <2>2. /\ p \in Seq(Seq(Carrying)) /\ Len(p) = Len(q)
        /\ \A i \in 1 .. Len(q) : p[i] = Regs(q[i])
    BY PartsType
  <2> HIDE DEF l, p
  <2>3. /\ r \in Seq(Seq(Carrying)) /\ Len(r) = Len(q) + 1
        /\ r[Len(q) + 1] = Regs(m) /\ \A i \in 1 .. Len(q) : r[i] = p[i]
    BY <1>3, <2>2
  <2>4. \A i \in 1 .. Len(q) + 1 : l[i] = r[i]
    <3> SUFFICES ASSUME NEW i \in 1 .. Len(q) + 1 PROVE l[i] = r[i]
      OBVIOUS
    <3>1. CASE i = Len(q) + 1
      BY <1>2, <2>1, <2>3, <3>1
    <3>2. CASE i # Len(q) + 1
      <4>1. i \in 1 .. Len(q)
        BY <1>1, <3>2
      <4> HIDE DEF r
      <4> QED
        BY <1>2, <2>1, <2>2, <2>3, <4>1
    <3> QED
      BY <3>1, <3>2
  <2> HIDE DEF r
  <2>5. l = r
    BY <2>1, <2>3, <2>4, SeqEqual
  <2> QED
    BY <2>5 DEF l, r, p
<1>5. Parts(q) \in Seq(Seq(Carrying))
  BY PartsType
<1> QED
  BY <1>3, <1>4, <1>5, FlattenAppend

\* ... and the one at its head.
LEMMA PartsCons ==
  ASSUME NEW q \in Seq(Msgs), q # <<>>
  PROVE  FlattenSeq(Parts(q)) = Regs(Head(q)) \o FlattenSeq(Parts(Tail(q)))
<1>1. /\ Tail(q) \in Seq(Msgs) /\ Len(q) \in Nat \ {0} /\ Len(Tail(q)) = Len(q) - 1 /\ Head(q) = q[1]
      /\ \A i \in 1 .. Len(q) - 1 : Tail(q)[i] = q[i + 1]
  OBVIOUS
<1> DEFINE p == Parts(q)
           t == Parts(Tail(q))
           u == Tail(p)
<1>2. /\ p \in Seq(Seq(Carrying)) /\ Len(p) = Len(q)
      /\ \A i \in 1 .. Len(q) : p[i] = Regs(q[i])
  BY PartsType
<1>3. /\ t \in Seq(Seq(Carrying)) /\ Len(t) = Len(q) - 1
      /\ \A i \in 1 .. Len(q) - 1 : t[i] = Regs(Tail(q)[i])
  BY <1>1, PartsType
<1> HIDE DEF p, t
<1>4. /\ p # <<>> /\ Head(p) = Regs(Head(q))
      /\ u \in Seq(Seq(Carrying)) /\ Len(u) = Len(q) - 1
      /\ \A i \in 1 .. Len(q) - 1 : u[i] = p[i + 1]
  BY <1>1, <1>2
<1> HIDE DEF u
<1>5. \A i \in 1 .. Len(q) - 1 : u[i] = t[i]
  <2> SUFFICES ASSUME NEW i \in 1 .. Len(q) - 1 PROVE u[i] = t[i]
    OBVIOUS
  <2>1. i + 1 \in 1 .. Len(q)
    BY <1>1
  <2> QED
    BY <1>1, <1>2, <1>3, <1>4, <2>1
<1>6. u = t
  BY <1>3, <1>4, <1>5, SeqEqual
<1>7. FlattenSeq(p) = Head(p) \o FlattenSeq(u)
  BY <1>2, <1>4, FlattenCons DEF u
<1> QED
  BY <1>4, <1>6, <1>7 DEF p, t

\* Copying a message into the buffer.
LEMMA CopyFacts ==
  ASSUME NEW b \in [1 .. BufRegs - 1 -> Register], NEW at \in Nat, NEW m \in Msgs
  PROVE  LET c == CopyTo(b, at, m)
         IN /\ c \in [1 .. BufRegs - 1 -> Register]
            /\ \A k \in 1 .. BufRegs - 1 :
                 IF k \in at .. at + m.size - 1 THEN c[k] = Regs(m)[k - at + 1] /\ c[k] \in Carrying
                 ELSE c[k] = b[k]
<1> DEFINE c == CopyTo(b, at, m)
<1>1. BufRegs \in Nat /\ m.size \in Nat \ {0} /\ m \in [id : 1 .. MaxMsgs, size : Nat \ {0}]
  BY QueueAssumption DEF Msgs
<1>2. \A i \in 1 .. m.size : Regs(m)[i] \in Carrying
  BY <1>1, RegsType
<1>3. c = [k \in 1 .. BufRegs - 1 |-> IF k \in at .. at + m.size - 1 THEN Regs(m)[k - at + 1] ELSE b[k]]
  BY DEF CopyTo
<1>4. ASSUME NEW k \in 1 .. BufRegs - 1
      PROVE  /\ k \in at .. at + m.size - 1 => c[k] = Regs(m)[k - at + 1] /\ Regs(m)[k - at + 1] \in Carrying
             /\ k \notin at .. at + m.size - 1 => c[k] = b[k]
  <2>1. k \in at .. at + m.size - 1 => k - at + 1 \in 1 .. m.size
    BY <1>1
  <2> QED
    BY <1>2, <1>3, <2>1
<1>5. \A k \in 1 .. BufRegs - 1 : c[k] \in Register
  BY <1>4 DEF Carrying
<1>6. c \in [1 .. BufRegs - 1 -> Register]
  BY <1>3, <1>5
<1> HIDE DEF c
<1>7. \A k \in 1 .. BufRegs - 1 :
        IF k \in at .. at + m.size - 1 THEN c[k] = Regs(m)[k - at + 1] /\ c[k] \in Carrying
        ELSE c[k] = b[k]
  BY <1>4
<1> QED
  BY <1>6, <1>7 DEF c

\* Behind what is in the packet it adds its registers to what is in front of it.
LEMMA CopyAppends ==
  ASSUME NEW b \in [1 .. BufRegs - 1 -> Register], NEW at \in 1 .. BufRegs - 1, NEW m \in Msgs,
         at + m.size <= BufRegs,
         \A k \in 1 .. at - 1 : b[k] \in Carrying
  PROVE  LET c == CopyTo(b, at, m)
         IN /\ Elements(c, at + m.size - 1) = Elements(b, at - 1) \o Regs(m)
            /\ \A k \in 1 .. at + m.size - 1 : c[k] \in Carrying
<1> DEFINE c == CopyTo(b, at, m)
           n == at + m.size - 1
           l == Elements(c, n)
           front == Elements(b, at - 1)
           back == Regs(m)
           r == front \o back
<1>1. BufRegs \in Nat /\ m.size \in Nat \ {0} /\ m \in [id : 1 .. MaxMsgs, size : Nat \ {0}]
  BY QueueAssumption DEF Msgs
<1>0. at \in Nat /\ at - 1 \in Nat
  BY <1>1
<1>2. \A k \in 1 .. BufRegs - 1 :
        IF k \in at .. at + m.size - 1 THEN c[k] = Regs(m)[k - at + 1] /\ c[k] \in Carrying
        ELSE c[k] = b[k]
  BY <1>0, CopyFacts
<1>3. back \in Seq(Carrying) /\ Len(back) = m.size
  BY <1>1, RegsType
<1>4. front \in Seq(Carrying) /\ Len(front) = at - 1
  BY <1>0, ElementsType
<1> HIDE DEF c
<1>5. \A k \in 1 .. n : k \in 1 .. BufRegs - 1 /\ c[k] \in Carrying
  <2> SUFFICES ASSUME NEW k \in 1 .. n PROVE k \in 1 .. BufRegs - 1 /\ c[k] \in Carrying
    OBVIOUS
  <2>1. k \in 1 .. BufRegs - 1 /\ (k \in at .. at + m.size - 1 \/ k \in 1 .. at - 1)
    BY <1>1
  <2> QED
    BY <1>2, <2>1
<1>6. n \in Nat
  BY <1>1
<1>7. l \in Seq(Carrying) /\ Len(l) = n
  BY <1>5, <1>6, ElementsType
<1>8. \A k \in 1 .. n : l[k] = c[k]
  BY <1>6 DEF Elements
<1>9. \A k \in 1 .. at - 1 : front[k] = b[k]
  BY DEF Elements
<1> HIDE DEF l, front, back
<1>10. /\ r \in Seq(Carrying) /\ Len(r) = n
       /\ \A k \in 1 .. n : r[k] = IF k <= at - 1 THEN front[k] ELSE back[k - (at - 1)]
  <2>1. /\ r \in Seq(Carrying) /\ Len(r) = (at - 1) + m.size
        /\ \A k \in 1 .. (at - 1) + m.size : r[k] = IF k <= at - 1 THEN front[k] ELSE back[k - (at - 1)]
    <3>1. /\ r \in Seq(Carrying) /\ Len(r) = Len(front) + Len(back)
          /\ \A k \in 1 .. Len(front) + Len(back) :
               r[k] = IF k <= Len(front) THEN front[k] ELSE back[k - Len(front)]
      BY <1>3, <1>4, ConcatProperties
    <3> HIDE DEF r
    <3> QED
      BY <1>3, <1>4, <3>1
  <2>2. n = (at - 1) + m.size
    BY <1>1
  <2> HIDE DEF r, n
  <2> QED
    BY <2>1, <2>2
<1>11. \A k \in 1 .. n : l[k] = r[k]
  <2> SUFFICES ASSUME NEW k \in 1 .. n PROVE l[k] = r[k]
    OBVIOUS
  <2> HIDE DEF r
  <2>1. CASE k <= at - 1
    <3>1. k \in 1 .. at - 1 /\ ~(k \in at .. at + m.size - 1) /\ k \in 1 .. BufRegs - 1
      BY <1>1, <2>1
    <3> QED
      BY <1>2, <1>8, <1>9, <1>10, <3>1, <2>1
  <2>2. CASE ~(k <= at - 1)
    <3>1. k \in at .. at + m.size - 1 /\ k \in 1 .. BufRegs - 1 /\ k - (at - 1) = k - at + 1
      BY <1>1, <2>2
    <3>2. l[k] = Regs(m)[k - at + 1]
      BY <1>2, <1>8, <3>1
    <3>3. r[k] = back[k - at + 1]
      BY <1>10, <2>2, <3>1
    <3> QED
      BY <3>2, <3>3 DEF back
  <2> QED
    BY <2>1, <2>2
<1> HIDE DEF r
<1>12. l = r
  BY <1>7, <1>10, <1>11, SeqEqual
<1> QED
  BY <1>5, <1>12 DEF l, r, front, back, c

\* What the queuer hands over, and what is in the packet, is what it carries.
LEMMA PacketHolds ==
  ASSUME TypeOK, Packed
  PROVE  /\ Filled(buf, RegCount - 1) = Elements(buf, RegCount - 1)
         /\ Filled(buf, PacketSize - 1) = Elements(buf, RegCount - 1)
         /\ Elements(buf, RegCount - 1) \in Seq(Carrying)
<1> DEFINE m == RegCount - 1
           p == PacketSize - 1
<1>1. /\ BufRegs \in Nat /\ MinRegs \in 2 .. BufRegs /\ RegCount \in 2 .. BufRegs
      /\ buf \in [1 .. BufRegs - 1 -> Register]
      /\ \A k \in 1 .. RegCount - 1 : buf[k] # Blank
      /\ \A k \in RegCount .. MinRegs - 1 : buf[k] = Blank
  BY QueueAssumption DEF TypeOK, Packed
<1>2. p \in Nat /\ m \in Nat /\ m \in 0 .. m /\ m \in 0 .. p
  BY <1>1 DEF PacketSize
<1>3. \A k \in 1 .. m : buf[k] \in Carrying
  BY <1>1 DEF Carrying
<1>4. \A k \in m + 1 .. p : buf[k] = Blank
  <2>1. \A k \in m + 1 .. p : k \in RegCount .. MinRegs - 1
    BY <1>1 DEF PacketSize
  <2> QED
    BY <1>1, <2>1
<1>5. \A k \in m + 1 .. m : buf[k] = Blank
  BY <1>2
<1> HIDE DEF m, p
<1>6. Filled(buf, m) = Elements(buf, m)
  BY <1>2, <1>3, <1>5, FilledPrefix
<1>7. Filled(buf, p) = Elements(buf, m)
  BY <1>2, <1>3, <1>4, FilledPrefix
<1>8. Elements(buf, m) \in Seq(Carrying)
  BY <1>2, <1>3, ElementsType
<1> QED
  BY <1>6, <1>7, <1>8 DEF m, p

--------------------------------------------------------------------------------
(* Steps *)

\* A message put on the queue.
LEMMA PutFacts ==
  ASSUME QueueTypes, NEW size \in 1 .. BufRegs - 1, Put(size), puts < MaxMsgs
  PROVE  /\ queue' \in Seq(Msgs) /\ queue' \in Seq(Message) /\ Len(queue') <= QueueCap
         /\ puts' \in 0 .. MaxMsgs /\ accepted' \in Seq(Carrying)
         /\ \E r \in Seq(Carrying) : accepted' = accepted \o r /\ Queued' = Queued \o r
<1> DEFINE m == [id |-> puts + 1, size |-> size]
<1>1. BufRegs \in Nat /\ MaxMsgs \in Nat /\ QueueCap \in Nat /\ puts \in Nat
  BY QueueAssumption DEF QueueTypes, TypeOK
<1>2. m \in Msgs /\ m \in Message /\ m \in [id : 1 .. MaxMsgs, size : Nat \ {0}]
  BY <1>1 DEF Msgs, Message
<1>3. /\ Len(queue) < QueueCap /\ puts' = puts + 1
      /\ queue' = Append(queue, m) /\ accepted' = accepted \o Regs(m)
  BY DEF Put
<1> HIDE DEF m
<1>4. /\ queue \in Seq(Msgs) /\ queue \in Seq(Message) /\ accepted \in Seq(Carrying)
  BY DEF QueueTypes, TypeOK, Carrying
<1>5. Regs(m) \in Seq(Carrying)
  BY <1>2, RegsType
<1>6. Queued' = Queued \o Regs(m)
  <2>1. FlattenSeq(Parts(Append(queue, m))) = FlattenSeq(Parts(queue)) \o Regs(m)
    BY <1>2, <1>4, PartsAppend
  <2> QED
    BY <1>3, <2>1 DEF Queued, Parts
<1>7. queue' \in Seq(Msgs) /\ queue' \in Seq(Message) /\ Len(queue') = Len(queue) + 1
  BY <1>2, <1>3, <1>4
<1>8. accepted' \in Seq(Carrying)
  BY <1>3, <1>4, <1>5, ConcatProperties
<1>9. Len(queue') <= QueueCap /\ puts' \in 0 .. MaxMsgs
  BY <1>1, <1>3, <1>4, <1>7
<1> QED
  BY <1>3, <1>5, <1>6, <1>7, <1>8, <1>9

\* A message taken from the queue.
LEMMA TakeFacts ==
  ASSUME QueueTypes, queue # <<>>, queue' = Tail(queue)
  PROVE  /\ Head(queue) \in Msgs /\ Regs(Head(queue)) \in Seq(Carrying)
         /\ queue' \in Seq(Msgs) /\ queue' \in Seq(Message) /\ Len(queue') <= QueueCap
         /\ Queued = Regs(Head(queue)) \o Queued' /\ Queued' \in Seq(Carrying)
<1>1. /\ queue \in Seq(Msgs) /\ queue \in Seq(Message) /\ Len(queue) <= QueueCap /\ QueueCap \in Nat
  BY QueueAssumption DEF QueueTypes, TypeOK
<1>2. Head(queue) \in Msgs /\ Tail(queue) \in Seq(Msgs) /\ Tail(queue) \in Seq(Message)
      /\ Len(Tail(queue)) = Len(queue) - 1 /\ Len(queue) \in Nat
  BY <1>1
<1>3. Regs(Head(queue)) \in Seq(Carrying)
  <2>1. Head(queue) \in [id : 1 .. MaxMsgs, size : Nat \ {0}]
    BY <1>2, QueueAssumption DEF Msgs
  <2> QED
    BY <2>1, RegsType
<1>4. FlattenSeq(Parts(queue)) = Regs(Head(queue)) \o FlattenSeq(Parts(Tail(queue)))
  BY <1>1, PartsCons
<1>5. FlattenSeq(Parts(Tail(queue))) \in Seq(Carrying)
  BY <1>2, PartsType
<1>6. Queued = FlattenSeq(Parts(queue)) /\ Queued' = FlattenSeq(Parts(Tail(queue)))
  BY DEF Queued, Parts
<1> QED
  BY <1>1, <1>2, <1>3, <1>4, <1>5, <1>6

\* What the request engine does to its own variables.
LEMMA EngineSteps ==
  ASSUME QueueTypes, Engine!Issue \/ Engine!Settle \/ UNCHANGED engineVars
  PROVE  busy' \in BOOLEAN /\ netSendCount' \in 0 .. 1
<1>1. busy \in BOOLEAN /\ netSendCount \in 0 .. 1
  BY DEF QueueTypes, TypeOK
<1>2. CASE Engine!Issue
  <2>1. netSendCount' = (netSendCount + 1) % 2 /\ busy' \in BOOLEAN
    BY <1>2 DEF Engine!Issue
  <2>2. (netSendCount + 1) % 2 \in 0 .. 1
    BY <1>1
  <2> QED
    BY <2>1, <2>2
<1>3. CASE Engine!Settle
  BY <1>1, <1>3 DEF Engine!Settle
<1>4. CASE UNCHANGED engineVars
  BY <1>1, <1>4 DEF engineVars
<1> QED
  BY <1>2, <1>3, <1>4

\* No step leaves the types.
LEMMA TypesStep == QueueTypes /\ [Next]_vars => QueueTypes'
<1> SUFFICES ASSUME QueueTypes, [Next]_vars PROVE QueueTypes'
  OBVIOUS
<1>0. /\ BufRegs \in Nat /\ MinRegs \in 2 .. BufRegs /\ MaxMsgs \in Nat
      /\ buf \in [1 .. BufRegs - 1 -> Register] /\ Blank \in Register
      /\ handed \in Seq(Carrying) /\ bytes \in Nat
  BY QueueAssumption DEF QueueTypes, TypeOK, Register, Carrying, BufBytes
<1>1. SizeInv'
  BY SizeStep DEF QueueTypes
<1>2. bytes' \in 0 .. BufBytes /\ lastPacket' \in Nat
  BY <1>0, <1>1 DEF SizeInv
<1>3. CASE Produce
  <2>1. PICK size \in 1 .. BufRegs - 1 : Put(size)
    BY <1>3, QueueAssumption DEF Produce
  <2>2. puts < MaxMsgs /\ (hpc = "requeue" => puts < MaxMsgs - 1)
    BY <1>0, <1>3 DEF Produce, QueueTypes, TypeOK
  <2>3. puts' = puts + 1 /\ puts \in Nat
    BY <2>1 DEF Put, QueueTypes, TypeOK
  <2>4. hpc' = "requeue" => puts' < MaxMsgs
    BY <1>0, <1>3, <2>2, <2>3 DEF Produce
  <2> QED
    BY <1>1, <1>2, <1>3, <2>1, <2>2, <2>4, PutFacts
    DEF Produce, QueueTypes, TypeOK, queuerVars, engineVars, Carrying
<1>4. CASE Requeue
  <2>1. 1 \in 1 .. BufRegs - 1 /\ Put(1) /\ puts < MaxMsgs /\ hpc' = "process"
    BY <1>0, <1>4 DEF Requeue, QueueTypes
  <2> QED
    BY <1>1, <1>2, <1>4, <2>1, PutFacts
    DEF Requeue, QueueTypes, TypeOK, queuerVars, engineVars, Carrying
<1>5. CASE Receive
  <2> DEFINE blanked == [k \in DOMAIN buf |-> IF k < MinRegs THEN Blank ELSE buf[k]]
  <2>1. blanked \in [1 .. BufRegs - 1 -> Register]
    BY <1>0
  <2>2. /\ buf' = CopyTo(blanked, 1, Head(queue)) /\ queue # <<>> /\ queue' = Tail(queue)
        /\ qpc' \in {"aggregate", "exited"}
        /\ UNCHANGED <<puts, accepted, handed, overflowed, engineVars, hpc, shuttingDown>>
    BY <1>5 DEF Receive
  <2> HIDE DEF blanked
  <2>3. buf' \in [1 .. BufRegs - 1 -> Register]
    BY <2>1, <2>2, TakeFacts, CopyFacts
  <2> QED
    BY <1>1, <1>2, <2>2, <2>3, TakeFacts DEF QueueTypes, TypeOK, engineVars
<1>6. CASE Aggregate
  <2>1. /\ queue # <<>> /\ queue' = Tail(queue) /\ overflowed' \in BOOLEAN
        /\ buf' = buf \/ buf' = CopyTo(buf, RegCount, Head(queue))
        /\ UNCHANGED <<puts, accepted, qpc, handed, engineVars, hpc, shuttingDown>>
    BY <1>6 DEF Aggregate, QueueTypes, TypeOK
  <2>2. RegCount \in Nat
    BY <1>0 DEF RegCount, RegBytes
  <2>3. buf' \in [1 .. BufRegs - 1 -> Register]
    <3>1. Head(queue) \in Msgs
      BY <2>1, TakeFacts
    <3>2. CopyTo(buf, RegCount, Head(queue)) \in [1 .. BufRegs - 1 -> Register]
      BY <1>0, <2>2, <3>1, CopyFacts
    <3> QED
      BY <1>0, <2>1, <3>2
  <2> QED
    BY <1>1, <1>2, <2>1, <2>3, TakeFacts DEF QueueTypes, TypeOK, engineVars
<1>7. CASE StopAggregating
  BY <1>1, <1>2, <1>7 DEF StopAggregating, QueueTypes, TypeOK, queueVars, engineVars
<1>8. CASE SendPacket
  <2>1. PacketSize - 1 \in Nat /\ PacketSize - 1 <= BufRegs - 1
    <3>1. RegCount \in Nat /\ RegCount <= BufRegs
      BY <1>0 DEF RegCount, RegBytes, BufBytes, QueueTypes, TypeOK
    <3> QED
      BY <1>0, <3>1 DEF PacketSize
  <2>2. \A k \in 1 .. PacketSize - 1 : buf[k] \in Register
    BY <1>0, <2>1
  <2>3. Filled(buf, PacketSize - 1) \in Seq(Carrying)
    BY <2>1, <2>2, FilledType
  <2>4. handed' \in Seq(Carrying)
    BY <1>0, <1>8, <2>3, ConcatProperties DEF SendPacket
  <2>5. busy' \in BOOLEAN /\ netSendCount' \in 0 .. 1
    BY <1>8, EngineSteps DEF SendPacket
  <2> QED
    BY <1>1, <1>2, <1>8, <2>4, <2>5 DEF SendPacket, QueueTypes, TypeOK, queueVars, Carrying
<1>9. CASE SendDisconnected
  BY <1>1, <1>2, <1>9 DEF SendDisconnected, QueueTypes, TypeOK, queueVars, engineVars
<1>10. CASE (Answer \/ GiveUp \/ NotReady \/ Settled) /\ UNCHANGED <<queueVars, queuerVars, shuttingDown>>
  <2>1. /\ hpc' \in {"idle", "process", "requeue"} /\ (hpc' = "requeue" => puts < MaxMsgs)
        /\ busy' \in BOOLEAN /\ netSendCount' \in 0 .. 1
    <3>1. CASE Answer
      BY <3>1, EngineSteps DEF Answer
    <3>2. CASE GiveUp
      BY <3>2, EngineSteps DEF GiveUp
    <3>3. CASE NotReady
      BY <3>3, EngineSteps DEF NotReady
    <3>4. CASE Settled
      BY <3>4, EngineSteps DEF Settled
    <3> QED
      BY <1>10, <3>1, <3>2, <3>3, <3>4
  <2> QED
    BY <1>1, <1>2, <1>10, <2>1 DEF QueueTypes, TypeOK, queueVars, queuerVars
<1>11. CASE Shutdown
  BY <1>1, <1>2, <1>11 DEF Shutdown, QueueTypes, TypeOK, queueVars, queuerVars, engineVars
<1>12. CASE UNCHANGED vars
  BY <1>1, <1>2, <1>12 DEF vars, QueueTypes, TypeOK, queueVars, queuerVars, engineVars
<1> QED
  BY <1>3, <1>4, <1>5, <1>6, <1>7, <1>8, <1>9, <1>10, <1>11, <1>12 DEF Next, Queuer, Receiver

\* The first message of a packet.
LEMMA ReceivePacks ==
  ASSUME QueueTypes, Receive
  PROVE  Packed' /\ Elements(buf', RegCount' - 1) = Regs(Head(queue))
<1> DEFINE blanked == [k \in DOMAIN buf |-> IF k < MinRegs THEN Blank ELSE buf[k]]
           m == Head(queue)
           c == CopyTo(blanked, 1, m)
<1>0. /\ BufRegs \in Nat /\ MinRegs \in 2 .. BufRegs /\ Blank \in Register
      /\ buf \in [1 .. BufRegs - 1 -> Register]
  BY QueueAssumption DEF QueueTypes, TypeOK, Register
<1>1. blanked \in [1 .. BufRegs - 1 -> Register] /\ \A k \in 1 .. MinRegs - 1 : blanked[k] = Blank
  BY <1>0
<1>2. buf' = c /\ bytes' = RegBytes + RegBytes * m.size /\ m \in Msgs
  BY TakeFacts DEF Receive
<1>3. m.size \in 1 .. BufRegs - 1 /\ Regs(m) \in Seq(Carrying)
  BY <1>2, TakeFacts DEF Msgs, Receive
<1>4. RegCount' = 1 + m.size
  BY <1>2, <1>3 DEF RegCount, RegBytes
<1> HIDE DEF blanked, m
<1>5. \A k \in 1 .. BufRegs - 1 :
        IF k \in 1 .. 1 + m.size - 1 THEN c[k] = Regs(m)[k - 1 + 1] /\ c[k] \in Carrying
        ELSE c[k] = blanked[k]
  BY <1>1, <1>2, CopyFacts
<1>6. Elements(c, 1 + m.size - 1) = Elements(blanked, 1 - 1) \o Regs(m)
  <2>1. 1 \in 1 .. BufRegs - 1 /\ 1 + m.size <= BufRegs /\ \A k \in 1 .. 1 - 1 : blanked[k] \in Carrying
    BY <1>0, <1>3
  <2> QED
    BY <1>1, <1>2, <2>1, CopyAppends
<1>7. Elements(blanked, 1 - 1) = <<>> /\ <<>> \o Regs(m) = Regs(m)
  BY <1>3, ConcatEmptySeq DEF Elements
<1> HIDE DEF c
<1>8. Elements(buf', RegCount' - 1) = Regs(m)
  <2>1. RegCount' - 1 = 1 + m.size - 1
    BY <1>3, <1>4
  <2>2. Elements(buf', RegCount' - 1) = Elements(c, 1 + m.size - 1)
    BY <1>2, <2>1
  <2> QED
    BY <1>6, <1>7, <2>2
<1>9. Packed'
  <2>1. bytes' = RegBytes * RegCount' /\ RegCount' \in 2 .. BufRegs
    BY <1>0, <1>2, <1>3, <1>4 DEF RegBytes
  <2>2. ASSUME NEW k \in 1 .. RegCount' - 1
        PROVE  buf'[k] # Blank
    <3>1. k \in 1 .. 1 + m.size - 1 /\ k \in 1 .. BufRegs - 1
      BY <1>0, <1>3, <1>4
    <3> QED
      BY <1>2, <1>5, <3>1 DEF Carrying
  <2>3. ASSUME NEW k \in RegCount' .. MinRegs - 1
        PROVE  buf'[k] = Blank
    <3>1. k \notin 1 .. 1 + m.size - 1 /\ k \in 1 .. BufRegs - 1 /\ k \in 1 .. MinRegs - 1
      BY <1>0, <1>3, <1>4
    <3> QED
      BY <1>1, <1>2, <1>5, <3>1
  <2> QED
    BY <2>1, <2>2, <2>3 DEF Packed
<1> QED
  BY <1>8, <1>9 DEF m

\* A message more.
LEMMA AggregatePacks ==
  ASSUME QueueTypes, Packed, Aggregate, ~overflowed'
  PROVE  /\ Packed'
         /\ Elements(buf', RegCount' - 1) = Elements(buf, RegCount - 1) \o Regs(Head(queue))
<1> DEFINE m == Head(queue)
           n == RegCount
           c == CopyTo(buf, n, m)
<1>0. /\ BufRegs \in Nat /\ MinRegs \in 2 .. BufRegs /\ buf \in [1 .. BufRegs - 1 -> Register]
      /\ n \in 2 .. BufRegs /\ bytes = RegBytes * n
  BY QueueAssumption DEF QueueTypes, TypeOK, Packed
<1>1. Fits(m) /\ buf' = c /\ bytes' = bytes + RegBytes * m.size
  BY DEF Aggregate
<1>2. m \in Msgs /\ m.size \in 1 .. BufRegs - 1
  BY TakeFacts DEF Msgs, Aggregate
<1> HIDE DEF m, n
<1>3. n + m.size <= BufRegs
  BY <1>0, <1>1, <1>2 DEF Fits, RegBytes, BufBytes
<1>4. bytes' = RegBytes * (n + m.size) /\ RegCount' = n + m.size
  BY <1>0, <1>1, <1>2 DEF RegCount, RegBytes
<1>5. \A k \in 1 .. BufRegs - 1 :
        IF k \in n .. n + m.size - 1 THEN c[k] = Regs(m)[k - n + 1] /\ c[k] \in Carrying
        ELSE c[k] = buf[k]
  <2>1. n \in Nat
    BY <1>0
  <2> QED
    BY <1>0, <1>2, <2>1, CopyFacts
<1>6. /\ \A k \in 1 .. n - 1 : buf[k] \in Carrying
      /\ \A k \in n .. MinRegs - 1 : buf[k] = Blank
  BY <1>0 DEF Packed, Carrying, n
<1>7. /\ Elements(c, n + m.size - 1) = Elements(buf, n - 1) \o Regs(m)
      /\ \A k \in 1 .. n + m.size - 1 : c[k] \in Carrying
  <2>1. n \in 1 .. BufRegs - 1
    BY <1>0, <1>2, <1>3
  <2> QED
    BY <1>0, <1>2, <1>3, <1>6, <2>1, CopyAppends
<1> HIDE DEF c
<1>8. Elements(buf', RegCount' - 1) = Elements(buf, n - 1) \o Regs(m)
  <2>1. RegCount' - 1 = n + m.size - 1
    BY <1>0, <1>2, <1>4
  <2>2. Elements(buf', RegCount' - 1) = Elements(c, n + m.size - 1)
    BY <1>1, <2>1
  <2> QED
    BY <1>7, <2>2
<1>9. Packed'
  <2>1. bytes' = RegBytes * RegCount' /\ RegCount' \in 2 .. BufRegs
    BY <1>0, <1>2, <1>3, <1>4
  <2>2. ASSUME NEW k \in 1 .. RegCount' - 1
        PROVE  buf'[k] # Blank
    <3>1. k \in 1 .. n + m.size - 1
      BY <1>0, <1>2, <1>4
    <3> QED
      BY <1>1, <1>7, <3>1 DEF Carrying
  <2>3. ASSUME NEW k \in RegCount' .. MinRegs - 1
        PROVE  buf'[k] = Blank
    <3>1. k \notin n .. n + m.size - 1 /\ k \in 1 .. BufRegs - 1 /\ k \in n .. MinRegs - 1
      BY <1>0, <1>2, <1>4
    <3> QED
      BY <1>1, <1>5, <1>6, <3>1
  <2> QED
    BY <2>1, <2>2, <2>3 DEF Packed
<1> QED
  BY <1>8, <1>9 DEF m, n

\* No step makes the buffer differ from the messages packed into it.
LEMMA PackedStep ==
  QueueTypes /\ PackedUnlessOverflowed /\ [Next]_vars => PackedUnlessOverflowed'
<1> SUFFICES ASSUME QueueTypes, PackedUnlessOverflowed, [Next]_vars,
                    ~overflowed', qpc' \in {"aggregate", "send"}
             PROVE  Packed'
  BY DEF PackedUnlessOverflowed
<1>1. CASE Receive
  BY <1>1, ReceivePacks
<1>2. CASE Aggregate
  <2>1. Packed
    BY <1>2 DEF Aggregate, PackedUnlessOverflowed
  <2> QED
    BY <1>2, <2>1, AggregatePacks
<1>3. CASE StopAggregating
  <2>1. Packed /\ UNCHANGED <<buf, bytes>>
    BY <1>3 DEF StopAggregating, PackedUnlessOverflowed
  <2> QED
    BY <2>1 DEF Packed, RegCount
<1>4. CASE SendPacket \/ SendDisconnected
  BY <1>4 DEF SendPacket, SendDisconnected
<1>5. CASE UNCHANGED queuerVars
  <2>1. Packed /\ UNCHANGED <<buf, bytes>>
    BY <1>5 DEF queuerVars, PackedUnlessOverflowed
  <2> QED
    BY <2>1 DEF Packed, RegCount
<1> QED
  BY <1>1, <1>2, <1>3, <1>4, <1>5 DEF Next, Queuer, Receiver, Produce, Requeue, Shutdown, vars

\* What is in the packet.
LEMMA InBufferIs ==
  (QueueTypes /\ PackedUnlessOverflowed /\ ~overflowed) =>
    /\ InBuffer \in Seq(Carrying)
    /\ qpc \in {"aggregate", "send"} => InBuffer = Elements(buf, RegCount - 1)
<1> SUFFICES ASSUME QueueTypes, PackedUnlessOverflowed, ~overflowed
             PROVE  /\ InBuffer \in Seq(Carrying)
                    /\ qpc \in {"aggregate", "send"} => InBuffer = Elements(buf, RegCount - 1)
  OBVIOUS
<1>1. CASE qpc \in {"aggregate", "send"}
  <2>1. TypeOK /\ Packed
    BY <1>1 DEF QueueTypes, PackedUnlessOverflowed
  <2> QED
    BY <1>1, <2>1, PacketHolds DEF InBuffer
<1>2. CASE qpc \notin {"aggregate", "send"}
  BY <1>2 DEF InBuffer
<1> QED
  BY <1>1, <1>2

\* No step loses, repeats or reorders a register, unless it overflows the packet.
LEMMA SentStep ==
  QueueInv /\ [Next]_vars => SentUnlessOverflowed'
<1> SUFFICES ASSUME QueueInv, [Next]_vars, ~overflowed', qpc' # "exited"
             PROVE  accepted' = (handed' \o InBuffer') \o Queued'
  BY DEF SentUnlessOverflowed, SentInOrder
<1>1. QueueTypes /\ PackedUnlessOverflowed /\ QueueTypes' /\ PackedUnlessOverflowed'
  BY TypesStep, PackedStep DEF QueueInv
<1>2. ~overflowed /\ qpc # "exited"
  <2>1. CASE UNCHANGED queuerVars
    BY <2>1 DEF queuerVars
  <2>2. CASE Queuer
    BY <2>2 DEF Queuer, Receive, Aggregate, StopAggregating, SendPacket, SendDisconnected
  <2> QED
    BY <2>1, <2>2 DEF Next, Receiver, Produce, Requeue, Shutdown, vars
<1>3. accepted = (handed \o InBuffer) \o Queued
  BY <1>2 DEF QueueInv, SentUnlessOverflowed, SentInOrder
<1>4. /\ handed \in Seq(Carrying) /\ InBuffer \in Seq(Carrying) /\ InBuffer' \in Seq(Carrying)
      /\ qpc \in {"aggregate", "send"} => InBuffer = Elements(buf, RegCount - 1)
      /\ qpc' \in {"aggregate", "send"} => InBuffer' = Elements(buf', RegCount' - 1)
  <2>1. ((QueueTypes /\ PackedUnlessOverflowed /\ ~overflowed) =>
           /\ InBuffer \in Seq(Carrying)
           /\ qpc \in {"aggregate", "send"} => InBuffer = Elements(buf, RegCount - 1))'
    BY InBufferIs, PTL
  <2>2. /\ InBuffer' \in Seq(Carrying')
        /\ qpc' \in {"aggregate", "send"} => InBuffer' = Elements(buf', RegCount' - 1)
    BY <1>1, <2>1
  <2> QED
    BY <1>1, <1>2, <2>2, InBufferIs DEF QueueTypes, TypeOK, Carrying
<1>5. Queued \in Seq(Carrying)
  <2>1. FlattenSeq(Parts(queue)) \in Seq(Carrying)
    BY <1>1, PartsType DEF QueueTypes
  <2> QED
    BY <2>1 DEF Queued, Parts
<1>6. ASSUME NEW size \in 1 .. BufRegs - 1, Put(size), puts < MaxMsgs, UNCHANGED queuerVars
      PROVE  accepted' = (handed' \o InBuffer') \o Queued'
  <2>1. PICK r \in Seq(Carrying) : accepted' = accepted \o r /\ Queued' = Queued \o r
    BY <1>1, <1>6, PutFacts
  <2>2. handed' = handed /\ InBuffer' = InBuffer
    BY <1>6 DEF queuerVars, InBuffer, RegCount, Filled
  <2>3. (handed \o InBuffer) \o (Queued \o r) = ((handed \o InBuffer) \o Queued) \o r
    BY <1>4, <1>5
  <2> QED
    BY <1>3, <2>1, <2>2, <2>3, Zenon
<1>7. CASE Produce
  <2>1. PICK size \in 1 .. BufRegs - 1 : Put(size)
    BY <1>7, QueueAssumption DEF Produce
  <2>2. puts < MaxMsgs
    BY <1>1, <1>7, QueueAssumption DEF Produce, QueueTypes, TypeOK
  <2> QED
    BY <1>6, <1>7, <2>1, <2>2 DEF Produce
<1>8. CASE Requeue
  <2>1. 1 \in 1 .. BufRegs - 1 /\ Put(1) /\ puts < MaxMsgs /\ UNCHANGED queuerVars
    BY <1>1, <1>8, QueueAssumption DEF Requeue, QueueTypes
  <2> QED
    BY <1>6, <2>1
<1>9. CASE Receive
  <2>1. queue # <<>> /\ queue' = Tail(queue) /\ UNCHANGED <<accepted, handed>>
        /\ qpc = "receive" /\ qpc' \in {"aggregate", "exited"}
    BY <1>9 DEF Receive
  <2>2. /\ Queued = Regs(Head(queue)) \o Queued' /\ Queued' \in Seq(Carrying)
        /\ Regs(Head(queue)) \in Seq(Carrying)
    BY <1>1, <2>1, TakeFacts
  <2>3. InBuffer = <<>> /\ InBuffer' = Regs(Head(queue))
    BY <1>1, <1>4, <1>9, <2>1, ReceivePacks DEF InBuffer
  <2>0. PICK r \in Seq(Carrying) : r = Regs(Head(queue))
    BY <2>2
  <2>4. handed \o <<>> = handed /\ handed \o (r \o Queued') = (handed \o r) \o Queued'
    BY <1>4, <2>2
  <2> QED
    BY <1>3, <2>1, <2>2, <2>3, <2>4, <2>0
<1>10. CASE Aggregate
  <2>1. queue # <<>> /\ queue' = Tail(queue) /\ UNCHANGED <<accepted, handed, qpc>> /\ qpc = "aggregate"
    BY <1>10 DEF Aggregate
  <2>2. /\ Queued = Regs(Head(queue)) \o Queued' /\ Queued' \in Seq(Carrying)
        /\ Regs(Head(queue)) \in Seq(Carrying)
    BY <1>1, <2>1, TakeFacts
  <2>3. Packed
    BY <1>1, <1>2, <2>1 DEF PackedUnlessOverflowed
  <2>4. InBuffer' = InBuffer \o Regs(Head(queue))
    BY <1>1, <1>4, <1>10, <2>1, <2>3, AggregatePacks
  <2>0. PICK r \in Seq(Carrying) : r = Regs(Head(queue))
    BY <2>2
  <2>5. (handed \o InBuffer) \o (r \o Queued') = (handed \o (InBuffer \o r)) \o Queued'
    BY <1>4, <2>2
  <2> QED
    BY <1>3, <2>1, <2>2, <2>4, <2>5, <2>0
<1>11. CASE StopAggregating
  <2>1. /\ qpc = "aggregate" /\ qpc' = "send"
        /\ UNCHANGED <<queueVars, buf, bytes, handed>>
    BY <1>11 DEF StopAggregating
  <2>2. InBuffer' = InBuffer /\ Queued' = Queued
    BY <2>1 DEF InBuffer, RegCount, Filled, Queued, queueVars
  <2> QED
    BY <1>3, <2>1, <2>2 DEF queueVars
<1>12. CASE SendPacket
  <2>1. /\ qpc = "send" /\ qpc' = "receive" /\ handed' = handed \o Filled(buf, PacketSize - 1)
        /\ UNCHANGED queueVars
    BY <1>12 DEF SendPacket
  <2>2. Packed /\ TypeOK
    BY <1>1, <1>2, <2>1 DEF PackedUnlessOverflowed, QueueTypes
  <2>3. Filled(buf, PacketSize - 1) = InBuffer /\ InBuffer' = <<>>
    BY <1>4, <2>1, <2>2, PacketHolds DEF InBuffer
  <2>4. Queued' = Queued /\ accepted' = accepted
    BY <2>1 DEF queueVars, Queued
  <2>5. (handed \o InBuffer) \o <<>> = handed \o InBuffer
    BY <1>4, ConcatProperties, ConcatEmptySeq
  <2> QED
    BY <1>3, <2>1, <2>3, <2>4, <2>5
<1>13. CASE UNCHANGED <<queueVars, queuerVars>>
  <2>1. InBuffer' = InBuffer /\ Queued' = Queued
    BY <1>13 DEF InBuffer, RegCount, Filled, Queued, queueVars, queuerVars
  <2> QED
    BY <1>3, <1>13, <2>1 DEF queueVars, queuerVars
<1> QED
  BY <1>7, <1>8, <1>9, <1>10, <1>11, <1>12, <1>13
  DEF Next, Queuer, Receiver, SendDisconnected, Shutdown, vars

\* The invariant holds at the start ...
LEMMA QueueInvInit == Init => QueueInv
<1> SUFFICES ASSUME Init PROVE QueueInv
  OBVIOUS
<1>1. SizeInv
  BY SizeInit
<1>2. TypeOK
  <2>1. /\ MinRegs \in Nat /\ BufRegs \in Nat /\ QueueCap \in Nat /\ MaxMsgs \in Nat /\ Blank \in Register
    BY QueueAssumption DEF Register
  <2>2. 0 \in 0 .. MaxMsgs /\ 0 \in 0 .. BufBytes /\ Len(<<>>) <= QueueCap
    BY <2>1 DEF BufBytes, RegBytes
  <2>3. busy \in BOOLEAN /\ netSendCount \in 0 .. 1
    <3>1. busy = FALSE /\ netSendCount = 0
      BY DEF Init, Engine!Init
    <3>2. busy \in BOOLEAN
      BY <3>1, Zenon
    <3> QED
      BY <3>1, <3>2
  <2>4. buf \in [1 .. BufRegs - 1 -> Register]
    BY <2>1 DEF Init
  <2>5. /\ queue \in Seq(Message) /\ accepted \in Seq(Register \ {Blank})
        /\ handed \in Seq(Register \ {Blank}) /\ Len(queue) <= QueueCap
    BY <2>2 DEF Init
  <2>6. overflowed \in BOOLEAN /\ shuttingDown \in BOOLEAN /\ lastPacket \in Nat
    BY <2>1 DEF Init
  <2> QED
    BY <2>2, <2>3, <2>4, <2>5, <2>6 DEF Init, TypeOK
<1>3. Queued = <<>> /\ InBuffer = <<>>
  <2>1. [i \in DOMAIN queue |-> Regs(queue[i])] = <<>>
    BY DEF Init
  <2> QED
    BY <2>1, FlattenEmpty DEF Init, Queued, InBuffer
<1>4. SentUnlessOverflowed
  BY <1>3 DEF Init, SentUnlessOverflowed, SentInOrder
<1>5. QueueTypes
  BY <1>1, <1>2 DEF QueueTypes, Init
<1> QED
  BY <1>4, <1>5 DEF QueueInv, PackedUnlessOverflowed, Init

\* ... and of every state that can be reached.
LEMMA QueueInductive == Spec => []QueueInv
<1>1. QueueInv /\ [Next]_vars => QueueInv'
  BY TypesStep, PackedStep, SentStep DEF QueueInv
<1> QED
  BY <1>1, QueueInvInit, PTL DEF Spec

\* For messages of every size and queues of every length: until the driver shuts down,
\* and as long as no message was received that did not fit, every register put on the
\* queue is handed to sendRegRequest once and in the order queued.
THEOREM SentOnceInOrder == Spec => []SentUnlessOverflowed
<1>1. QueueInv => SentUnlessOverflowed
  BY DEF QueueInv
<1> QED
  BY <1>1, QueueInductive, PTL

\* The queue is never longer than it may be, and blanks, which the queuer pads packets
\* with, are neither queued nor handed over as registers.
THEOREM QueueKeepsTypes == Spec => []TypeOK
<1>1. QueueInv => TypeOK
  BY DEF QueueInv, QueueTypes
<1> QED
  BY <1>1, QueueInductive, PTL
================================================================================
