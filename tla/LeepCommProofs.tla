---------------------------- MODULE LeepCommProofs ----------------------------
(***************************************************************************)
(* Theorems about LeepComm, for any number of sending threads and any      *)
(* bounds.                                                                 *)
(*                                                                         *)
(* The unlocked decrements of netWaitingRequests_ never underflow          *)
(* (TypeCorrect: the counter is unsigned) because the handler is the only  *)
(* thread that decrements, after it has seen the counter positive, and a   *)
(* sender's stores are positive.  While MAX_PARALLEL_REQUESTS is 1 that    *)
(* same fact keeps every sender throttled as long as the handler uses the  *)
(* counters without the mutex, so nothing is lost to a race.               *)
(***************************************************************************)
EXTENDS LeepComm, FiniteSetTheorems, TLAPS

\* Once the handler has found a request waited for, only the handler itself
\* changes that.
HandlerCommitted == hpc \in Committed => netWaiting >= 1

CountInv == TypeOK /\ HandlerCommitted

LEMMA MessageFacts ==
  ASSUME TypeOK, inbox # <<>>
  PROVE  /\ Head(inbox) \in Message
         /\ ReadMessage \in Message
         /\ AfterRead \in Seq(Message)
<1>1. /\ inbox \in Seq(Message)
      /\ Head(inbox) \in Message
      /\ Tail(inbox) \in Seq(Message)
  BY DEF TypeOK
<1>2. [Head(inbox) EXCEPT !.kind = "ok"] \in Message
  BY <1>1 DEF Message
<1>3. CASE Len(inbox) > 1
  <2>1. inbox[2] \in Message
    BY <1>1, <1>3
  <2>2. [inbox[2] EXCEPT !.kind = "huge"] \in Message
    BY <2>1 DEF Message
  <2>a. Tail(inbox) # <<>>
    <3>1. Len(Tail(inbox)) = Len(inbox) - 1
      BY <1>1
    <3>2. Len(<<>>) = 0
      OBVIOUS
    <3>3. Len(Tail(inbox)) # 0
      BY <1>1, <1>3, <3>1
    <3> QED
      BY <3>2, <3>3
  <2>3. Tail(Tail(inbox)) \in Seq(Message)
    BY <1>1, <2>a
  <2>4. <<[inbox[2] EXCEPT !.kind = "huge"]>> \o Tail(Tail(inbox)) \in Seq(Message)
    BY <2>2, <2>3
  <2> QED
    BY <1>1, <1>2, <2>4 DEF ReadMessage, AfterRead
<1>4. CASE ~(Len(inbox) > 1)
  BY <1>1, <1>4 DEF ReadMessage, AfterRead
<1> QED
  BY <1>1, <1>3, <1>4

LEMMA CountInit == Init => CountInv
<1> SUFFICES ASSUME Init PROVE CountInv
  OBVIOUS
<1>1. 0 \in Number
  BY BoundsAssumption DEF Number
<1>2. inbox \in Seq(Message)
  BY DEF Init
<1>3. [id |-> 0, kind |-> "ok"] \in Message
  BY <1>1 DEF Message
<1>4. /\ pc \in [Senders -> {"idle", "lock", "load", "store", "signal"}]
      /\ sendMax \in [Senders -> Int]
      /\ seen \in [Senders -> Nat]
  BY DEF Init
<1>5. noData \in 0 .. NoDataLimit + 1
  BY BoundsAssumption DEF Init
<1>6. hpc \in {"top", "wait", "check", "exited"} \union Committed /\ hpc \notin Committed
  BY DEF Init, Committed
<1>7. msg \in Message
  BY <1>3 DEF Init
<1>8. /\ maxParallel \in Int /\ netWaiting \in Nat
      /\ mutex \in Threads \union {NoOne}
  BY DEF Init
<1>b. readEvent \in BOOLEAN /\ shuttingDown \in BOOLEAN
  BY Zenon DEF Init
<1>9. /\ netSendCount \in Number /\ lastResponse \in Number
      /\ hMax \in Int /\ hVal \in Nat
      /\ inflight \subseteq Number /\ calls \in Nat
  BY <1>1 DEF Init
<1>10. TypeOK
  BY <1>2, <1>4, <1>5, <1>6, <1>7, <1>8, <1>b, <1>9 DEF TypeOK
<1> QED
  BY <1>6, <1>10 DEF CountInv, HandlerCommitted

LEMMA CountStep == CountInv /\ [Next]_vars => CountInv'
<1> SUFFICES ASSUME CountInv, [Next]_vars
             PROVE  CountInv'
  OBVIOUS
<1> USE DEF CountInv, HandlerCommitted, Committed
<1>n. (netSendCount + 1) % Wrap \in Number
  BY BoundsAssumption DEF TypeOK, Number
<1>1. ASSUME NEW s \in Senders, BeginSend(s) PROVE CountInv'
  BY <1>1 DEF BeginSend, TypeOK, counters, handlerVars, network, control
<1>2. ASSUME NEW s \in Senders, Write(s) PROVE CountInv'
  BY <1>2, <1>n DEF Write, TypeOK, Threads, handlerVars
<1>3. ASSUME NEW s \in Senders, WriteFails(s) PROVE CountInv'
  BY <1>3, <1>n DEF WriteFails, TypeOK, handlerVars, network, control
<1>4. ASSUME NEW s \in Senders, Disconnected(s) PROVE CountInv'
  BY <1>4 DEF Disconnected, TypeOK, counters, handlerVars, network, control
<1>5. ASSUME NEW s \in Senders, LoadWaiting(s) PROVE CountInv'
  BY <1>5 DEF LoadWaiting, TypeOK, counters, handlerVars, network, control
<1>6. ASSUME NEW s \in Senders, StoreWaiting(s) PROVE CountInv'
  BY <1>6 DEF StoreWaiting, TypeOK, handlerVars, network
<1>7. ASSUME NEW s \in Senders, Signal(s) PROVE CountInv'
  BY <1>7 DEF Signal, TypeOK, counters, handlerVars, network
<1>8. CASE Top
  BY <1>8 DEF Top, TypeOK, counters, senderVars, network, control
<1>9. CASE Wake
  BY <1>9 DEF Wake, TypeOK, counters, senderVars, network
<1>10. CASE WaitTimesOut
  BY <1>10 DEF WaitTimesOut, TypeOK, counters, senderVars, network, control
<1>11. CASE Check
  BY <1>11 DEF Check, TypeOK, counters, senderVars, network, control
<1>12. CASE Lock
  BY <1>12 DEF Lock, TypeOK, Threads, counters, senderVars, network
<1>13. CASE ReadNothing
  BY <1>13, BoundsAssumption DEF ReadNothing, TypeOK, senderVars, network
<1>14. CASE ReadHuge
  BY <1>14, BoundsAssumption DEF ReadHuge, TypeOK, senderVars
<1>15. CASE ReadResponse
  BY <1>15, BoundsAssumption, MessageFacts
     DEF ReadResponse, TypeOK, counters, senderVars
<1>16. CASE ProcessSkips
  BY <1>16 DEF ProcessSkips, TypeOK, counters, senderVars, network, control
<1>17. CASE ProcessShort
  BY <1>17 DEF ProcessShort, TypeOK, counters, senderVars, control
<1>18. CASE LoadShort
  BY <1>18 DEF LoadShort, TypeOK, counters, senderVars, network, control
<1>19. CASE Process
  BY <1>19 DEF Process, TypeOK, Message, senderVars, network, control
<1>20. CASE Settle
  <2>1. StillWaiting \in Nat
    BY BoundsAssumption DEF StillWaiting, TypeOK, Message, Number
  <2> QED
    BY <1>20, <2>1 DEF Settle, TypeOK, counters, senderVars, network, control
<1>21. CASE Store
  BY <1>21 DEF Store, TypeOK, senderVars, network, control
<1>22. CASE SetMaxParallel
  BY <1>22, MaxAssumption
     DEF SetMaxParallel, TypeOK, counters, senderVars, handlerVars, network
<1>23. CASE Shutdown
  BY <1>23 DEF Shutdown, TypeOK, counters, senderVars, handlerVars, network
<1>24. CASE Deliver
  <2> SUFFICES ASSUME NEW n \in inflight, NEW k \in {"ok"} \union Damage,
                      inflight' = inflight \ {n},
                      inbox' = Append(inbox, [id |-> n, kind |-> k]),
                      UNCHANGED <<counters, senderVars, handlerVars, control>>
               PROVE  CountInv'
    BY <1>24 DEF Deliver
  <2>1. [id |-> n, kind |-> k] \in Message
    BY DamageAssumption DEF TypeOK, Message
  <2>2. inbox' \in Seq(Message)
    BY <2>1 DEF TypeOK
  <2> QED
    BY <2>2 DEF TypeOK, counters, senderVars, handlerVars, control
<1>25. CASE Lose
  BY <1>25 DEF Lose, TypeOK, counters, senderVars, handlerVars, control
<1>26. CASE UNCHANGED vars
  BY <1>26 DEF vars, TypeOK, counters, senderVars, handlerVars, network, control
<1> QED
  BY <1>1, <1>2, <1>3, <1>4, <1>5, <1>6, <1>7, <1>8, <1>9, <1>10, <1>11, <1>12,
     <1>13, <1>14, <1>15, <1>16, <1>17, <1>18, <1>19, <1>20, <1>21, <1>22, <1>23,
     <1>24, <1>25, <1>26
     DEF Next, Send, HandlerStep, Environment

\* Every variable keeps its type; in particular netWaitingRequests_, an unsigned
\* int that the handler decrements without the mutex, never passes below zero,
\* whatever MAX_PARALLEL_REQUESTS is set to.
THEOREM TypeCorrect == Spec => []TypeOK
<1>1. CountInv => TypeOK
  BY DEF CountInv
<1> QED
  BY <1>1, CountInit, CountStep, PTL DEF Spec

--------------------------------------------------------------------------------
(* NeverAhead: without roll-over a request has a higher number than those before. *)

\* Every call uses up one number at most, so that there are numbers left for the
\* senders that have none yet.
Unnumbered == {s \in Senders : pc[s] = "lock"}
NumbersLeft ==
  /\ IsFiniteSet(Unnumbered)
  /\ netSendCount + Cardinality(Unnumbered) <= calls
  /\ calls <= MaxCalls

AheadInv == CountInv /\ NumbersLeft /\ NeverAhead

LEMMA AheadInit == Init => AheadInv
<1> SUFFICES ASSUME Init PROVE AheadInv
  OBVIOUS
<1>1. Unnumbered = {}
  BY DEF Init, Unnumbered
<1>2. NumbersLeft
  BY <1>1, FS_EmptySet, BoundsAssumption DEF Init, NumbersLeft
<1>3. NeverAhead
  BY DEF Init, NeverAhead
<1> QED
  BY <1>2, <1>3, CountInit DEF AheadInv

\* A sender that leaves the lock state leaves its place to the number it takes, if any.
LEMMA SenderLeaves ==
  ASSUME CountInv, NumbersLeft, NEW s \in Senders, pc[s] = "lock", NEW to, to # "lock",
         pc' = [pc EXCEPT ![s] = to]
  PROVE  /\ IsFiniteSet(Unnumbered)' /\ Cardinality(Unnumbered) \in Nat
         /\ Cardinality(Unnumbered)' = Cardinality(Unnumbered) - 1
         /\ netSendCount + 1 <= calls
<1>1. Unnumbered' = Unnumbered \ {s} /\ s \in Unnumbered
  BY DEF Unnumbered, CountInv, TypeOK
<1>2. IsFiniteSet(Unnumbered) /\ Cardinality(Unnumbered) \in Nat
  BY FS_CardinalityType DEF NumbersLeft
<1>3. /\ IsFiniteSet(Unnumbered \ {s})
      /\ Cardinality(Unnumbered \ {s}) = Cardinality(Unnumbered) - 1
  BY <1>1, <1>2, FS_RemoveElement
<1>4. Cardinality(Unnumbered \ {s}) \in Nat
  BY <1>3, FS_CardinalityType
<1>5. netSendCount \in Nat /\ calls \in Nat
  BY BoundsAssumption DEF CountInv, TypeOK, Number
<1> QED
  BY <1>1, <1>2, <1>3, <1>4, <1>5 DEF NumbersLeft

LEMMA AheadSend ==
  ASSUME MaxCalls < Wrap, AheadInv, NEW s \in Senders, Send(s)
  PROVE  NumbersLeft' /\ NeverAhead'
<1>0. /\ CountInv /\ NumbersLeft /\ NeverAhead /\ TypeOK
      /\ netSendCount \in Nat /\ calls \in Nat /\ MaxCalls \in Nat /\ Wrap \in Nat \ {0}
  BY BoundsAssumption DEF AheadInv, CountInv, TypeOK, Number
<1>1. CASE BeginSend(s)
  <2>1. Unnumbered' = Unnumbered \union {s} /\ s \notin Unnumbered
    BY <1>0, <1>1 DEF BeginSend, Unnumbered, TypeOK
  <2>2. /\ IsFiniteSet(Unnumbered) /\ Cardinality(Unnumbered) \in Nat
        /\ IsFiniteSet(Unnumbered') /\ Cardinality(Unnumbered') = Cardinality(Unnumbered) + 1
    BY <1>0, <2>1, FS_CardinalityType, FS_AddElement DEF NumbersLeft
  <2>3. NumbersLeft'
    BY <1>0, <1>1, <2>2 DEF BeginSend, NumbersLeft, counters
  <2> QED
    BY <1>0, <1>1, <2>3 DEF BeginSend, NeverAhead, counters, handlerVars, network
<1>2. CASE Write(s) \/ WriteFails(s)
  <2>1. PICK to \in {"load", "signal"} : pc[s] = "lock" /\ pc' = [pc EXCEPT ![s] = to]
    BY <1>2 DEF Write, WriteFails
  <2>2. /\ IsFiniteSet(Unnumbered)' /\ Cardinality(Unnumbered) \in Nat
        /\ Cardinality(Unnumbered)' = Cardinality(Unnumbered) - 1
        /\ netSendCount + 1 <= calls
    BY <1>0, <2>1, SenderLeaves
  <2>3. netSendCount' = netSendCount + 1
    <3>1. netSendCount' = (netSendCount + 1) % Wrap
      BY <1>2 DEF Write, WriteFails
    <3>2. netSendCount + 1 \in 0 .. Wrap - 1
      BY <1>0, <2>2 DEF NumbersLeft
    <3> QED
      BY <1>0, <3>1, <3>2
  <2>4. /\ UNCHANGED <<lastResponse, hpc, msg, inbox, calls>>
        /\ inflight' \subseteq inflight \union {netSendCount'}
    BY <1>2 DEF Write, WriteFails, handlerVars, network
  <2>5. NumbersLeft'
    BY <1>0, <2>2, <2>3, <2>4 DEF NumbersLeft
  <2>6. /\ lastResponse \in Nat /\ msg.id \in Nat /\ inflight \subseteq Nat
        /\ \A i \in DOMAIN inbox : inbox[i].id \in Nat
    <3>1. Number \subseteq Nat /\ \A m \in Message : m.id \in Nat
      BY <1>0 DEF Message, Number
    <3>2. \A i \in DOMAIN inbox : inbox[i] \in Message
      BY <1>0 DEF TypeOK
    <3>3. lastResponse \in Number /\ msg \in Message /\ inflight \subseteq Number
      BY <1>0 DEF TypeOK
    <3> QED
      BY <3>1, <3>2, <3>3
  <2>7. NeverAhead'
    BY <1>0, <2>3, <2>4, <2>6 DEF NeverAhead
  <2> QED
    BY <2>5, <2>7
<1>3. CASE Disconnected(s)
  <2>1. pc[s] = "lock" /\ pc' = [pc EXCEPT ![s] = "idle"] /\ UNCHANGED <<counters, calls, handlerVars, network>>
    BY <1>3 DEF Disconnected
  <2>2. /\ IsFiniteSet(Unnumbered)' /\ Cardinality(Unnumbered) \in Nat
        /\ Cardinality(Unnumbered)' = Cardinality(Unnumbered) - 1
    BY <1>0, <2>1, SenderLeaves
  <2>3. NumbersLeft'
    BY <1>0, <2>1, <2>2 DEF NumbersLeft, counters
  <2> QED
    BY <1>0, <2>1, <2>3 DEF NeverAhead, counters, handlerVars, network
<1>4. CASE LoadWaiting(s) \/ StoreWaiting(s) \/ Signal(s)
  <2>1. Unnumbered' = Unnumbered
    BY <1>0, <1>4 DEF LoadWaiting, StoreWaiting, Signal, Unnumbered, TypeOK
  <2>2. UNCHANGED <<netSendCount, lastResponse, calls, handlerVars, network>>
    BY <1>4 DEF LoadWaiting, StoreWaiting, Signal, counters
  <2> QED
    BY <1>0, <2>1, <2>2 DEF NumbersLeft, NeverAhead, handlerVars, network
<1> QED
  BY <1>1, <1>2, <1>3, <1>4 DEF Send

\* What is read out of the buffer has the number of a message in it.
LEMMA NumbersRead ==
  ASSUME TypeOK, inbox # <<>>
  PROVE  /\ ReadMessage.id = inbox[1].id /\ 1 \in DOMAIN inbox
         /\ \A i \in DOMAIN AfterRead : \E j \in DOMAIN inbox : AfterRead[i].id = inbox[j].id
<1>1. inbox \in Seq(Message) /\ Head(inbox) = inbox[1] /\ 1 \in DOMAIN inbox
  BY DEF TypeOK
<1>2. \A m \in Message, k \in {"ok", "huge"} : [m EXCEPT !.kind = k].id = m.id
  BY DEF Message
<1>3. inbox[1] \in Message
  BY <1>1
<1>4. ReadMessage.id = inbox[1].id
  BY <1>1, <1>2, <1>3 DEF ReadMessage
<1>5. ASSUME NEW i \in DOMAIN Tail(inbox)
      PROVE  Tail(inbox)[i] = inbox[i + 1] /\ i + 1 \in DOMAIN inbox
  BY <1>1
<1>6. CASE Len(inbox) > 1
  <2>1. inbox[2] \in Message /\ 2 \in DOMAIN inbox
    BY <1>1, <1>6
  <2>2. Tail(inbox) \in Seq(Message) /\ Tail(inbox) # <<>> /\ Len(Tail(inbox)) = Len(inbox) - 1
    <3>1. Tail(inbox) \in Seq(Message) /\ Len(Tail(inbox)) = Len(inbox) - 1
      BY <1>1
    <3>2. Len(<<>>) = 0
      OBVIOUS
    <3>3. Len(Tail(inbox)) # 0
      BY <1>1, <1>6, <3>1
    <3> QED
      BY <3>1, <3>2, <3>3
  <2>3. /\ Tail(Tail(inbox)) \in Seq(Message)
        /\ Len(Tail(Tail(inbox))) = Len(inbox) - 2
        /\ \A i \in 1 .. Len(inbox) - 2 : Tail(Tail(inbox))[i] = inbox[i + 2]
    BY <1>1, <2>2
  <2> DEFINE first == [inbox[2] EXCEPT !.kind = "huge"]
             rest == Tail(Tail(inbox))
             both == <<first>> \o rest
  <2>4. first \in Message /\ first.id = inbox[2].id
    BY <1>2, <2>1 DEF Message
  <2>5. /\ both \in Seq(Message) /\ Len(both) = Len(inbox) - 1
        /\ both[1] = first
        /\ \A i \in 2 .. Len(inbox) - 1 : both[i] = rest[i - 1]
    <3> HIDE DEF first, rest
    <3>1. first \in Message /\ rest \in Seq(Message) /\ Len(rest) = Len(inbox) - 2 /\ Len(inbox) \in Nat
      BY <1>1, <2>3, <2>4 DEF rest
    <3> QED
      BY <1>6, <3>1
  <2>6. ASSUME NEW i \in DOMAIN both
        PROVE  \E j \in DOMAIN inbox : both[i].id = inbox[j].id
    <3>1. CASE i = 1
      BY <2>1, <2>4, <2>5, <3>1
    <3>2. CASE i # 1
      <4>1. i \in 2 .. Len(inbox) - 1
        BY <2>5, <3>2
      <4>2. i - 1 \in 1 .. Len(inbox) - 2 /\ i + 1 \in DOMAIN inbox /\ (i - 1) + 2 = i + 1
        BY <1>1, <4>1
      <4>3. both[i] = inbox[i + 1]
        BY <2>3, <2>5, <4>1, <4>2
      <4> QED
        BY <4>2, <4>3
    <3> QED
      BY <3>1, <3>2
  <2> QED
    BY <1>1, <1>4, <1>5, <1>6, <2>6 DEF AfterRead
<1>7. CASE ~(Len(inbox) > 1)
  BY <1>1, <1>4, <1>5, <1>7 DEF AfterRead
<1> QED
  BY <1>6, <1>7

LEMMA AheadHandler ==
  ASSUME AheadInv, HandlerStep \/ Environment \/ UNCHANGED vars
  PROVE  NumbersLeft' /\ NeverAhead'
<1>0. NumbersLeft /\ NeverAhead /\ TypeOK
  BY DEF AheadInv, CountInv
<1>1. UNCHANGED <<netSendCount, pc, calls>>
  BY DEF HandlerStep, Top, Wake, WaitTimesOut, Check, Lock, ReadNothing, ReadHuge, ReadResponse, ProcessSkips,
         ProcessShort, LoadShort, Process, Settle, Store, Environment, SetMaxParallel, Shutdown, Deliver, Lose,
         counters, senderVars, vars
<1>2. NumbersLeft'
  BY <1>0, <1>1 DEF NumbersLeft, Unnumbered
<1> USE DEF NeverAhead
<1>3. CASE Top \/ Wake \/ WaitTimesOut \/ Check \/ Lock \/ ReadNothing
  <2>1. /\ UNCHANGED <<lastResponse, msg, inbox, inflight>>
        /\ hpc' \notin {"process", "shorted", "settle", "store"}
    BY <1>3 DEF Top, Wake, WaitTimesOut, Check, Lock, ReadNothing, counters, network
  <2> QED
    BY <1>0, <1>1, <1>2, <2>1
<1>4. CASE ReadHuge \/ ProcessShort
  <2>1. /\ UNCHANGED <<lastResponse, msg, inflight>> /\ inbox' = <<>>
        /\ hpc' = "check" \/ hpc = "process"
    BY <1>4 DEF ReadHuge, ProcessShort, counters
  <2>2. DOMAIN inbox' = {}
    BY <2>1
  <2> QED
    BY <1>0, <1>1, <1>2, <2>1, <2>2
<1>5. CASE ReadResponse
  <2>1. /\ inbox # <<>> /\ msg' = ReadMessage
        /\ inbox' = <<>> \/ inbox' = AfterRead
        /\ UNCHANGED <<lastResponse, inflight>>
    BY <1>5 DEF ReadResponse, counters
  <2>2. \A i \in DOMAIN inbox : inbox[i].id <= netSendCount
    BY <1>0
  <2>3. msg'.id <= netSendCount
    BY <1>0, <2>1, <2>2, NumbersRead
  <2>4. \A i \in DOMAIN inbox' : inbox'[i].id <= netSendCount
    <3>1. CASE inbox' = <<>>
      <4>1. DOMAIN inbox' = {}
        BY <3>1
      <4> QED
        BY <4>1
    <3>2. CASE inbox' = AfterRead
      <4>1. \A i \in DOMAIN AfterRead : \E j \in DOMAIN inbox : AfterRead[i].id = inbox[j].id
        BY <1>0, <2>1, NumbersRead
      <4> QED
        BY <2>2, <3>2, <4>1
    <3> QED
      BY <2>1, <3>1, <3>2
  <2> QED
    BY <1>0, <1>1, <1>2, <2>1, <2>3, <2>4
<1>6. CASE ProcessSkips \/ LoadShort \/ Process \/ Settle \/ Store
  <2>1. /\ UNCHANGED <<msg, inbox, inflight>>
        /\ lastResponse' = lastResponse \/ (hpc = "process" /\ lastResponse' = msg.id)
        /\ hpc' \in {"settle", "store"} => hpc \in {"process", "shorted", "settle"}
        /\ hpc' \notin {"process", "shorted"}
    BY <1>6 DEF ProcessSkips, LoadShort, Process, Settle, Store, counters, network
  <2> QED
    BY <1>0, <1>1, <1>2, <2>1
<1>7. CASE Deliver
  <2>1. PICK n \in inflight, k \in {"ok"} \union Damage :
          inflight' = inflight \ {n} /\ inbox' = Append(inbox, [id |-> n, kind |-> k])
    BY <1>7 DEF Deliver
  <2>2. /\ Len(inbox') = Len(inbox) + 1
        /\ \A i \in 1 .. Len(inbox) : inbox'[i] = inbox[i]
        /\ inbox'[Len(inbox) + 1].id = n
        /\ DOMAIN inbox' = 1 .. Len(inbox) + 1 /\ DOMAIN inbox = 1 .. Len(inbox) /\ Len(inbox) \in Nat
    BY <1>0, <2>1 DEF TypeOK
  <2>3. \A i \in DOMAIN inbox' : inbox'[i].id <= netSendCount
    BY <1>0, <2>2
  <2>4. UNCHANGED <<lastResponse, hpc, msg>>
    BY <1>7 DEF Deliver, counters, handlerVars
  <2> QED
    BY <1>0, <1>1, <1>2, <2>1, <2>3, <2>4
<1>8. CASE SetMaxParallel \/ Shutdown \/ Lose \/ UNCHANGED vars
  <2>1. UNCHANGED <<lastResponse, hpc, msg, inbox>> /\ inflight' \subseteq inflight
    BY <1>8 DEF SetMaxParallel, Shutdown, Lose, counters, handlerVars, network, vars
  <2> QED
    BY <1>0, <1>1, <1>2, <2>1
<1> QED
  BY <1>2, <1>3, <1>4, <1>5, <1>6, <1>7, <1>8 DEF HandlerStep, Environment

\* Until the counter rolls over, the handler acknowledges nothing that was not sent,
\* whatever is lost, late, overtaken or damaged, and for any MAX_PARALLEL_REQUESTS.
THEOREM NothingUnsentSettled == MaxCalls < Wrap /\ Spec => []NeverAhead
<1>1. AheadInv => NeverAhead
  BY DEF AheadInv
<1>2. CASE MaxCalls < Wrap
  <2>1. AheadInv /\ [Next]_vars => AheadInv'
    <3> SUFFICES ASSUME AheadInv, [Next]_vars
                 PROVE  AheadInv'
      OBVIOUS
    <3>1. CountInv'
      BY CountStep DEF AheadInv
    <3> QED
      BY <1>2, <3>1, AheadSend, AheadHandler DEF AheadInv, Next
  <2> QED
    BY <1>1, <2>1, AheadInit, PTL DEF Spec
<1> QED
  BY <1>2

--------------------------------------------------------------------------------
(* One request at a time *)

\* The mutex is held exactly by the thread inside a section it guards.
MutexInv ==
  /\ \A s \in Senders : pc[s] \in {"load", "store"} <=> mutex = s
  /\ hpc = "read" <=> mutex = Handler

\* Everybody uses the limit 1.
LimitInv == maxParallel = 1 /\ \A s \in Senders : sendMax[s] = 1

\* A thread that has written its packet found nothing waited for, and that is
\* still so: with HandlerCommitted, the handler is not settling anything.
AloneInv ==
  /\ \A s \in Senders : pc[s] \in {"load", "store"} => netWaiting = 0
  /\ \A s \in Senders : pc[s] = "store" => seen[s] = 0

\* What the handler is about to store was computed from the current counters.
FreshInv ==
  /\ hpc \in {"process", "store"} => msg.kind \in {"ok", "short"}
  /\ hpc = "settle" => msg.kind = "ok"
  /\ hpc = "shorted" => msg.kind = "short"
  /\ hpc = "storeTop" => netWaiting = hVal + 1
  /\ (hpc = "store" /\ msg.kind = "short") => netWaiting = hVal + 1
  /\ (hpc = "store" /\ msg.kind = "ok") => hVal = StillWaiting

OneInv == CountInv /\ MutexInv /\ LimitInv /\ AloneInv /\ FreshInv

LEMMA OneInit == Init => OneInv
<1> SUFFICES ASSUME Init PROVE OneInv
  OBVIOUS
<1>1. CountInv
  BY CountInit
<1>2. MutexInv /\ LimitInv /\ AloneInv /\ FreshInv
  BY SendersAssumption
     DEF Init, MutexInv, LimitInv, AloneInv, FreshInv, Threads, NoOne, Handler
<1> QED
  BY <1>1, <1>2 DEF OneInv

\* A sender's step: only it can be in the critical section, and the handler is
\* not past its test of netWaiting when a packet is written.
LEMMA OneSend ==
  ASSUME OneInv, CountInv', NEW t \in Senders, Send(t)
  PROVE  OneInv'
<1> USE DEF OneInv, MutexInv, LimitInv, AloneInv, FreshInv, StillWaiting
<1>0. /\ TypeOK /\ HandlerCommitted /\ Handler # NoOne
      /\ \A s \in Senders : s # Handler /\ s # NoOne
  BY SendersAssumption DEF CountInv, Threads, Handler, NoOne
<1>1. CASE BeginSend(t)
  BY <1>0, <1>1 DEF BeginSend, TypeOK, counters, handlerVars, network, control
<1>2. CASE Write(t)
  <2>1. netWaiting = 0
    BY <1>0, <1>2 DEF Write, MayPass, Unsigned, TypeOK
  <2>2. hpc \notin Committed
    BY <1>0, <2>1 DEF HandlerCommitted
  <2>3. /\ pc' = [pc EXCEPT ![t] = "load"] /\ mutex' = t /\ mutex = NoOne
        /\ UNCHANGED <<netWaiting, seen, sendMax, maxParallel, hpc, msg, hVal>>
    BY <1>2 DEF Write, handlerVars
  <2>4. \A s \in Senders : pc[s] \notin {"load", "store"}
    BY <1>0, <2>3
  <2>5. MutexInv' /\ LimitInv'
    BY <1>0, <2>2, <2>3, <2>4 DEF TypeOK, Committed
  <2>6. AloneInv'
    BY <1>0, <2>1, <2>3, <2>4 DEF TypeOK
  <2>7. FreshInv'
    BY <2>2, <2>3 DEF Committed
  <2> QED
    BY <2>5, <2>6, <2>7
<1>3. CASE WriteFails(t)
  <2>1. netWaiting = 0
    BY <1>0, <1>3 DEF WriteFails, MayPass, Unsigned, TypeOK
  <2>2. hpc \notin Committed
    BY <1>0, <2>1 DEF HandlerCommitted
  <2> QED
    BY <1>0, <1>3, <2>2 DEF WriteFails, TypeOK, handlerVars, network, control, Committed
<1>4. CASE Disconnected(t)
  BY <1>0, <1>4 DEF Disconnected, TypeOK, counters, handlerVars, network, control
<1>5. CASE LoadWaiting(t)
  BY <1>0, <1>5 DEF LoadWaiting, TypeOK, counters, handlerVars, network, control
<1>6. CASE StoreWaiting(t)
  <2>1. netWaiting = 0 /\ mutex = t
    BY <1>6 DEF StoreWaiting
  <2>2. hpc \notin Committed
    BY <1>0, <2>1 DEF HandlerCommitted
  <2>3. /\ pc' = [pc EXCEPT ![t] = "signal"] /\ mutex' = NoOne
        /\ UNCHANGED <<seen, sendMax, maxParallel, hpc, msg, hVal>>
    BY <1>6 DEF StoreWaiting, handlerVars
  <2>4. \A s \in Senders : s # t => pc[s] \notin {"load", "store"}
    BY <2>1
  <2>5. MutexInv' /\ LimitInv'
    BY <1>0, <2>2, <2>3, <2>4 DEF TypeOK, Committed
  <2>6. AloneInv'
    BY <1>0, <2>3, <2>4 DEF TypeOK
  <2>7. FreshInv'
    BY <2>2, <2>3 DEF Committed
  <2> QED
    BY <2>5, <2>6, <2>7
<1>7. CASE Signal(t)
  BY <1>0, <1>7 DEF Signal, TypeOK, counters, handlerVars, network
<1> QED
  BY <1>1, <1>2, <1>3, <1>4, <1>5, <1>6, <1>7 DEF Send

\* A step of the handler: while it changes netWaiting no sender is in the
\* critical section.
LEMMA OneHandler ==
  ASSUME OneInv, CountInv', HandlerStep
  PROVE  OneInv'
<1> USE DEF OneInv, MutexInv, LimitInv, AloneInv, FreshInv
<1>0. /\ TypeOK /\ HandlerCommitted /\ Handler # NoOne
      /\ \A s \in Senders : s # Handler /\ s # NoOne
  BY SendersAssumption DEF CountInv, Threads, Handler, NoOne
<1>a. ASSUME hpc \in Committed
      PROVE  \A s \in Senders : pc[s] \notin {"load", "store"}
  BY <1>0, <1>a DEF HandlerCommitted
<1>1. CASE Top
  BY <1>0, <1>1 DEF Top, TypeOK, counters, senderVars, network, control
<1>2. CASE Wake
  BY <1>0, <1>2 DEF Wake, TypeOK, counters, senderVars, network
<1>3. CASE WaitTimesOut
  BY <1>0, <1>3 DEF WaitTimesOut, TypeOK, counters, senderVars, network, control
<1>4. CASE Check
  BY <1>0, <1>4 DEF Check, TypeOK, counters, senderVars, network, control
<1>5. CASE Lock
  BY <1>0, <1>5 DEF Lock, TypeOK, counters, senderVars, network
<1>6. CASE ReadNothing
  BY <1>0, <1>6, <1>a DEF ReadNothing, TypeOK, senderVars, network, Committed
<1>7. CASE ReadHuge
  BY <1>0, <1>7, <1>a DEF ReadHuge, TypeOK, senderVars, Committed
<1>8. CASE ReadResponse
  <2>1. Head(inbox) \in Message /\ ReadMessage \in Message
    BY <1>0, <1>8, MessageFacts DEF ReadResponse
  <2>2. ReadMessage.kind \in {"ok", "short"}
    BY <1>8, <2>1 DEF ReadResponse, ReadMessage, Message
  <2> QED
    BY <1>0, <1>8, <2>2 DEF ReadResponse, TypeOK, counters, senderVars
<1>9. CASE ProcessSkips
  BY <1>0, <1>9 DEF ProcessSkips, TypeOK, counters, senderVars, network, control
<1>10. CASE ProcessShort
  BY <1>0, <1>10 DEF ProcessShort, TypeOK, counters, senderVars, control
<1>11. CASE LoadShort
  BY <1>0, <1>11 DEF LoadShort, TypeOK, counters, senderVars, network, control
<1>12. CASE Process
  BY <1>0, <1>12 DEF Process, TypeOK, counters, senderVars, network, control
<1>13. CASE Settle
  BY <1>0, <1>13 DEF Settle, StillWaiting, TypeOK, counters, senderVars, network, control
<1>14. CASE Store
  BY <1>0, <1>14, <1>a DEF Store, TypeOK, senderVars, network, control, Committed
<1> QED
  BY <1>1, <1>2, <1>3, <1>4, <1>5, <1>6, <1>7, <1>8, <1>9, <1>10, <1>11, <1>12,
     <1>13, <1>14 DEF HandlerStep

LEMMA OneEnvironment ==
  ASSUME MaxChoices = {1}, OneInv, CountInv', Environment \/ UNCHANGED vars
  PROVE  OneInv'
<1> USE DEF OneInv, MutexInv, LimitInv, AloneInv, FreshInv, StillWaiting
<1>1. CASE SetMaxParallel
  BY <1>1 DEF SetMaxParallel, counters, senderVars, handlerVars
<1>2. CASE Shutdown
  BY <1>2 DEF Shutdown, counters, senderVars, handlerVars
<1>3. CASE Deliver
  BY <1>3 DEF Deliver, counters, senderVars, handlerVars, control
<1>4. CASE Lose
  BY <1>4 DEF Lose, counters, senderVars, handlerVars, control
<1>5. CASE UNCHANGED vars
  BY <1>5 DEF vars, counters, senderVars, handlerVars, control
<1> QED
  BY <1>1, <1>2, <1>3, <1>4, <1>5 DEF Environment

LEMMA OneStep == MaxChoices = {1} /\ OneInv /\ [Next]_vars => OneInv'
<1> SUFFICES ASSUME MaxChoices = {1}, OneInv, [Next]_vars
             PROVE  OneInv'
  OBVIOUS
<1>1. CountInv'
  BY CountStep DEF OneInv
<1> QED
  BY <1>1, OneSend, OneHandler, OneEnvironment DEF Next

LEMMA OneIsSafe == OneInv => CountersProtected /\ RaceFree
<1> SUFFICES ASSUME OneInv PROVE CountersProtected /\ RaceFree
  OBVIOUS
<1> USE DEF OneInv, CountInv, HandlerCommitted, Committed, MutexInv, AloneInv, FreshInv
<1>1. CountersProtected
  BY DEF CountersProtected, TypeOK
<1>2. RaceFree
  BY DEF RaceFree, HandlerUnlocked, TypeOK
<1> QED
  BY <1>1, <1>2

\* While MAX_PARALLEL_REQUESTS stays 1, no update of the counters is lost
\* although the handler computes and stores netWaitingRequests_ unlocked.
THEOREM CountersProtectedAtOne == MaxChoices = {1} /\ Spec => []CountersProtected
<1>1. OneInv => CountersProtected
  BY OneIsSafe
<1>2. CASE MaxChoices = {1}
  <2>1. OneInv /\ [Next]_vars => OneInv'
    BY <1>2, OneStep
  <2> QED
    BY <1>1, <2>1, OneInit, PTL DEF Spec
<1> QED
  BY <1>2

\* ... because no sender is in its critical section meanwhile.
THEOREM RaceFreeAtOne == MaxChoices = {1} /\ Spec => []RaceFree
<1>1. OneInv => RaceFree
  BY OneIsSafe
<1>2. CASE MaxChoices = {1}
  <2>1. OneInv /\ [Next]_vars => OneInv'
    BY <1>2, OneStep
  <2> QED
    BY <1>1, <2>1, OneInit, PTL DEF Spec
<1> QED
  BY <1>2

--------------------------------------------------------------------------------
(* The refinement of StopAndWait *)

LEMMA BusyBoolean == Busy \in BOOLEAN /\ Busy' \in BOOLEAN
  BY Zenon DEF Busy

\* A sender issues a request only when none is waited for.
LEMMA SendRefines ==
  ASSUME OneInv, OneInv', NEW t \in Senders, Send(t)
  PROVE  Abstract!Next \/ UNCHANGED Abstract!vars
<1> USE DEF OneInv, CountInv
<1>1. CASE Write(t) \/ WriteFails(t)
  <2>1. /\ netWaiting = 0 /\ mutex = NoOne
        /\ netSendCount' = (netSendCount + 1) % Wrap
    BY <1>1 DEF Write, WriteFails, MayPass, Unsigned, TypeOK, LimitInv
  <2>2. \A s \in Senders : pc[s] \notin {"load", "store"}
    BY <2>1, SendersAssumption DEF MutexInv, Threads
  <2>3. ~Busy
    BY <2>1, <2>2 DEF Busy
  <2>4. Busy' \in BOOLEAN
    BY BusyBoolean
  <2> QED
    BY <2>1, <2>3, <2>4 DEF Abstract!Next, Abstract!Issue
<1>2. CASE StoreWaiting(t)
  <2>1. pc[t] = "store" /\ netSendCount' = netSendCount
    BY <1>2 DEF StoreWaiting
  <2>2. netWaiting' > 0
    BY <1>2 DEF StoreWaiting, TypeOK
  <2>3. Busy /\ Busy'
    BY <2>1, <2>2 DEF Busy
  <2> QED
    BY <2>1, <2>3 DEF Abstract!vars
<1>3. CASE BeginSend(t) \/ Disconnected(t) \/ LoadWaiting(t) \/ Signal(t)
  <2>1. netSendCount' = netSendCount /\ netWaiting' = netWaiting
    BY <1>3 DEF BeginSend, Disconnected, LoadWaiting, Signal, counters
  <2>2. \A s \in Senders :
          pc'[s] \in {"load", "store"} <=> pc[s] \in {"load", "store"}
    BY <1>3 DEF BeginSend, Disconnected, LoadWaiting, Signal, TypeOK
  <2>3. Busy' <=> Busy
    BY <2>1, <2>2 DEF Busy
  <2>4. Busy' = Busy
    BY <2>3, BusyBoolean, Zenon
  <2> QED
    BY <2>1, <2>4 DEF Abstract!vars
<1> QED
  BY <1>1, <1>2, <1>3 DEF Send

\* The handler only ever turns busy into idle.
LEMMA HandlerRefines ==
  ASSUME OneInv, OneInv', HandlerStep \/ Environment \/ UNCHANGED vars
  PROVE  Abstract!Next \/ UNCHANGED Abstract!vars
<1> USE DEF OneInv, CountInv
<1>1. netSendCount' = netSendCount /\ pc' = pc
  BY DEF HandlerStep, Top, Wake, WaitTimesOut, Check, Lock, ReadNothing, ReadHuge,
         ReadResponse, ProcessSkips, ProcessShort, LoadShort, Process, Settle, Store,
         Environment, SetMaxParallel, Shutdown, Deliver, Lose,
         vars, counters, senderVars
<1>2. netWaiting' = netWaiting \/ netWaiting > 0
  <2>1. CASE ReadNothing \/ ReadHuge \/ Store
    BY <2>1 DEF ReadNothing, ReadHuge, Store, HandlerCommitted, Committed, TypeOK
  <2>2. CASE ~(ReadNothing \/ ReadHuge \/ Store)
    BY <2>2 DEF HandlerStep, Top, Wake, WaitTimesOut, Check, Lock,
         ReadResponse, ProcessSkips, ProcessShort, LoadShort, Process, Settle,
         Environment, SetMaxParallel, Shutdown, Deliver, Lose, vars, counters
  <2> QED
    BY <2>1, <2>2
<1>3. CASE netWaiting' = netWaiting
  <2>1. Busy' <=> Busy
    BY <1>1, <1>3 DEF Busy
  <2>2. Busy' = Busy
    BY <2>1, BusyBoolean, Zenon
  <2> QED
    BY <1>1, <2>2 DEF Abstract!vars
<1>4. CASE netWaiting > 0
  <2>1. Busy
    BY <1>4 DEF Busy
  <2>2. CASE Busy'
    BY <1>1, <2>1, <2>2 DEF Abstract!vars
  <2>3. CASE ~Busy'
    <3>1. Busy' = FALSE
      BY <2>3, BusyBoolean, Zenon
    <3> QED
      BY <1>1, <2>1, <3>1 DEF Abstract!Next, Abstract!Settle
  <2> QED
    BY <2>2, <2>3
<1> QED
  BY <1>2, <1>3, <1>4

\* While MAX_PARALLEL_REQUESTS stays 1 the FPGA is never sent a request while an
\* earlier one is waited for: sendRegRequest and responseHandler together
\* implement stop-and-wait, late answers, losses and damage included.
THEOREM ImplementsStopAndWait == MaxChoices = {1} /\ Spec => StopAndWaitSpec
<1>1. Init => Abstract!Init
  <2> SUFFICES ASSUME Init PROVE Abstract!Init
    OBVIOUS
  <2>1. netSendCount = 0 /\ ~Busy
    BY DEF Init, Busy
  <2>2. Busy = FALSE
    BY <2>1, BusyBoolean, Zenon
  <2> QED
    BY <2>1, <2>2 DEF Abstract!Init
<1>2. OneInv /\ OneInv' /\ [Next]_vars => [Abstract!Next]_(Abstract!vars)
  BY SendRefines, HandlerRefines DEF Next
<1>3. CASE MaxChoices = {1}
  <2>1. OneInv /\ [Next]_vars => OneInv'
    BY <1>3, OneStep
  <2> QED
    BY <1>1, <1>2, <2>1, OneInit, PTL DEF Spec, StopAndWaitSpec, Abstract!Spec
<1> QED
  BY <1>3
================================================================================
