---------------------------- MODULE ChannelMapProofs ----------------------------
(***************************************************************************)
(* Why the channel map is right in the end, for any number of channels,    *)
(* writes and answers in flight, although two threads make it at once.     *)
(*                                                                         *)
(* As long as something of a write is still to come, the map may be        *)
(* anything.  The echo comes last, when the port thread has queued the     *)
(* write and so is through with its own update: from then on the receiving *)
(* thread is alone, and what it has made so far is right (MapInOrder).        *)
(*                                                                         *)
(* With such a map the publishing loop shows of every channel kept the     *)
(* buffer its points are in (PubInv).                                      *)
(***************************************************************************)
EXTENDS ChannelMap, FiniteSetTheorems, TLAPS

Stages == {"idle", "count", "loop", "seek", "fill"}
Positions == [at : Stages, rel : 0 .. NumChans, next : 0 .. NumChans]
Position(at, rel, next) == [at |-> at, rel |-> rel, next |-> next]

MapTypes ==
  /\ chanKeep \in SUBSET Channels /\ nChan \in 0 .. NumChans
  /\ relToAbsIdx \in [Channels -> Channels \union {Unused}]
  /\ upd \in [Threads -> Positions]
  /\ \A t \in Threads : upd[t].at = "seek" => upd[t].rel < NumChans
  /\ pending \in [Threads -> SUBSET SUBSET Channels]
  /\ keepReg \in SUBSET Channels /\ keepQueue \in Seq(SUBSET Channels)
  /\ answers \in Seq([write : BOOLEAN, value : SUBSET Channels])

\* A write of the channels has an echo still to come.
WriteInFlight == \E i \in 1 .. Len(answers) : answers[i].write
WriteComing == pending["port"] # {} \/ keepQueue # <<>> \/ WriteInFlight

\* The first n elements are those of the map of chanKeep.
Made(n) == \A i \in 0 .. n - 1 : relToAbsIdx[i] = Reference(chanKeep)[i]

\* Where the receiving thread is in its update, what it has made is right.
MapInOrder ==
  LET u == upd["recv"]
  IN /\ u.at = "idle" => nChan = Cardinality(chanKeep) /\ Made(NumChans)
     /\ u.at = "count" => u.rel = 0 /\ u.next = 0
     /\ u.at \in {"loop", "seek"} =>
          nChan = Cardinality(chanKeep) /\ Made(u.rel) /\ u.rel = Rank(u.next, chanKeep)
     /\ u.at = "seek" => u.rel < nChan
     /\ u.at = "fill" => nChan = Cardinality(chanKeep) /\ Made(u.rel) /\ u.rel >= nChan

Alone == upd["port"].at = "idle" /\ MapInOrder

MapInv ==
  /\ MapTypes
  /\ upd["port"].at # "idle" => pending["port"] # {}
  /\ lostWrite \/ WriteComing \/ Alone

--------------------------------------------------------------------------------
(* Ranks *)

ChansBelow(n, S) == {d \in S : d < n}

LEMMA FiniteChannels ==
  ASSUME NEW S \in SUBSET Channels
  PROVE  IsFiniteSet(S) /\ Cardinality(S) \in 0 .. NumChans
<1>1. NumChans \in Nat \ {0} /\ Channels = 0 .. NumChans - 1
  BY ChannelAssumption DEF Channels
<1>2. IsFiniteSet(Channels) /\ Cardinality(Channels) = NumChans
  BY <1>1, FS_Interval
<1>3. IsFiniteSet(S) /\ Cardinality(S) <= NumChans
  BY <1>2, FS_Subset
<1>4. Cardinality(S) \in Nat
  BY <1>3, FS_CardinalityType
<1> QED
  BY <1>1, <1>3, <1>4

LEMMA RankFacts ==
  ASSUME NEW S \in SUBSET Channels, NEW n \in 0 .. NumChans
  PROVE  /\ Rank(n, S) \in 0 .. Cardinality(S)
         /\ Rank(0, S) = 0
         /\ Rank(NumChans, S) = Cardinality(S)
         /\ n < NumChans => Rank(n + 1, S) = IF n \in S THEN Rank(n, S) + 1 ELSE Rank(n, S)
         /\ n \in S => Rank(n, S) < Cardinality(S)
<1>0. /\ n \in Int /\ 0 <= n /\ NumChans \in Int
      /\ \A d \in S : d \in Int /\ 0 <= d /\ d < NumChans
  BY ChannelAssumption DEF Channels
<1>1. \A m : Rank(m, S) = Cardinality(ChansBelow(m, S)) /\ ChansBelow(m, S) \in SUBSET S
  BY DEF Rank, ChansBelow
<1>2. \A m : IsFiniteSet(ChansBelow(m, S)) /\ Rank(m, S) \in 0 .. Cardinality(S)
  BY <1>1, FiniteChannels, FS_Subset, FS_CardinalityType
<1>3. Rank(0, S) = 0
  <2>1. \A d \in S : ~(d < 0)
    BY <1>0
  <2>2. ChansBelow(0, S) = {}
    BY <2>1 DEF ChansBelow
  <2> QED
    BY <1>1, <2>2, FS_EmptySet
<1>4. Rank(NumChans, S) = Cardinality(S)
  <2>1. ChansBelow(NumChans, S) = S
    BY <1>0 DEF ChansBelow
  <2> QED
    BY <1>1, <2>1
<1>5. ASSUME n \in S
      PROVE  Rank(n + 1, S) = Rank(n, S) + 1
  <2>1. ~(n < n) /\ \A d \in S : d < n + 1 <=> d < n \/ d = n
    BY <1>0
  <2>2. ChansBelow(n + 1, S) = ChansBelow(n, S) \union {n} /\ n \notin ChansBelow(n, S)
    BY <1>5, <2>1 DEF ChansBelow
  <2> QED
    BY <1>1, <1>2, <2>2, FS_AddElement
<1>6. ASSUME n \notin S
      PROVE  Rank(n + 1, S) = Rank(n, S)
  <2>1. \A d \in S : d # n
    BY <1>6
  <2>2. \A d \in S : d < n + 1 <=> d < n
    BY <1>0, <2>1
  <2>3. ChansBelow(n + 1, S) = ChansBelow(n, S)
    BY <2>2 DEF ChansBelow
  <2> QED
    BY <1>1, <2>3
<1>7. n \in S => Rank(n, S) < Cardinality(S)
  <2>1. Rank(n, S) \in 0 .. Cardinality(S) /\ Rank(n + 1, S) \in 0 .. Cardinality(S)
    BY <1>2
  <2>2. Cardinality(S) \in Int
    BY FiniteChannels, <1>0
  <2> QED
    BY <1>5, <2>1, <2>2
<1> QED
  BY <1>2, <1>3, <1>4, <1>5, <1>6, <1>7

\* Later channels have greater ranks.
LEMMA RanksDiffer ==
  ASSUME NEW S \in SUBSET Channels, NEW c \in S, NEW d \in S, Rank(c, S) = Rank(d, S)
  PROVE  c = d
<1>1. ASSUME NEW a \in S, NEW b \in S, a < b
      PROVE  Rank(a, S) # Rank(b, S)
  <2>1. a \in 0 .. NumChans /\ b \in 0 .. NumChans /\ a < NumChans /\ NumChans \in Nat
    BY ChannelAssumption DEF Channels
  <2>2. ChansBelow(a + 1, S) \in SUBSET ChansBelow(b, S)
    <3>1. \A x \in S : x \in Int
      BY ChannelAssumption DEF Channels
    <3>2. \A x \in S : x < a + 1 => x < b
      BY <1>1, <2>1, <3>1
    <3> QED
      BY <3>2 DEF ChansBelow
  <2>3. IsFiniteSet(ChansBelow(b, S))
    BY FiniteChannels DEF ChansBelow
  <2>4. Cardinality(ChansBelow(a + 1, S)) <= Cardinality(ChansBelow(b, S))
    BY <2>2, <2>3, FS_Subset
  <2>5. Rank(a + 1, S) = Rank(a, S) + 1 /\ Rank(a, S) \in Nat /\ Rank(b, S) \in Nat
    BY <2>1, RankFacts
  <2> QED
    BY <2>4, <2>5 DEF Rank, ChansBelow
<1>2. c \in Nat /\ d \in Nat
  BY ChannelAssumption DEF Channels
<1> QED
  BY <1>1, <1>2

LEMMA ReferenceFacts ==
  ASSUME NEW S \in SUBSET Channels
  PROVE  /\ DOMAIN Reference(S) = Channels
         /\ \A c \in S : Reference(S)[Rank(c, S)] = c
         /\ \A r \in Channels : r >= Cardinality(S) => Reference(S)[r] = Unused
<1>1. DOMAIN Reference(S) = Channels
  BY DEF Reference
<1>2. \A c \in S : Rank(c, S) < Cardinality(S) /\ Rank(c, S) \in Channels
  BY RankFacts, FiniteChannels, ChannelAssumption DEF Channels
<1>3. ASSUME NEW c \in S
      PROVE  Reference(S)[Rank(c, S)] = c
  <2>1. \A d \in S : Rank(d, S) = Rank(c, S) => d = c
    BY RanksDiffer
  <2>2. Reference(S)[Rank(c, S)] = CHOOSE d \in S : Rank(d, S) = Rank(c, S)
    BY <1>2 DEF Reference
  <2> QED
    BY <2>1, <2>2
<1>4. ASSUME NEW r \in Channels, r >= Cardinality(S)
      PROVE  Reference(S)[r] = Unused
  <2>1. r \in Nat /\ Cardinality(S) \in Nat /\ \A c \in S : Rank(c, S) \in Nat
    BY <1>2, FiniteChannels, ChannelAssumption DEF Channels
  <2>2. ~ \E c \in S : Rank(c, S) = r
    BY <1>2, <1>4, <2>1
  <2> QED
    BY <2>2 DEF Reference
<1> QED
  BY <1>1, <1>3, <1>4

--------------------------------------------------------------------------------
(* The steps *)

LEMMA PositionFacts ==
  /\ \A at \in Stages, rel \in 0 .. NumChans, next \in 0 .. NumChans :
       /\ Position(at, rel, next) \in Positions
       /\ Position(at, rel, next).at = at
       /\ Position(at, rel, next).rel = rel /\ Position(at, rel, next).next = next
  /\ \A u \in Positions : u.at \in Stages /\ u.rel \in 0 .. NumChans /\ u.next \in 0 .. NumChans
BY DEF Position, Positions

LEMMA PositionChanges ==
  ASSUME NEW u \in Positions
  PROVE  /\ \A at : [u EXCEPT !.at = at] = Position(at, u.rel, u.next)
         /\ \A rel : [u EXCEPT !.rel = rel] = Position(u.at, rel, u.next)
         /\ \A next : [u EXCEPT !.next = next] = Position(u.at, u.rel, next)
BY DEF Position, Positions

\* What a step does in which stage.
LEMMA UpdateAdvances ==
  ASSUME MapTypes, NEW t \in Threads, UpdateMap(t)
  PROVE  LET u == upd[t]
             Goes(at, rel, next) == upd' = [upd EXCEPT ![t] = Position(at, rel, next)]
             Same == nChan' = nChan /\ relToAbsIdx' = relToAbsIdx
         IN \/ /\ u.at = "count" /\ Goes("loop", u.rel, u.next)
               /\ nChan' = Cardinality(chanKeep) /\ relToAbsIdx' = relToAbsIdx
            \/ u.at = "loop" /\ u.rel < nChan /\ Goes("seek", u.rel, u.next) /\ Same
            \/ u.at = "loop" /\ ~(u.rel < nChan) /\ Goes("fill", u.rel, u.next) /\ Same
            \/ /\ u.at = "seek" /\ u.next \in Channels /\ u.next \in chanKeep
               /\ Goes("loop", u.rel + 1, u.next + 1)
               /\ relToAbsIdx' = [relToAbsIdx EXCEPT ![u.rel] = u.next] /\ nChan' = nChan
            \/ /\ u.at = "seek" /\ u.next \in Channels /\ u.next \notin chanKeep
               /\ Goes("seek", u.rel, u.next + 1) /\ Same
            \/ u.at = "seek" /\ upd' = upd /\ Same
            \/ /\ u.at = "fill" /\ u.rel \in Channels /\ Goes("fill", u.rel + 1, u.next)
               /\ relToAbsIdx' = [relToAbsIdx EXCEPT ![u.rel] = Unused] /\ nChan' = nChan
            \/ u.at = "fill" /\ u.rel \notin Channels /\ Goes("idle", 0, 0) /\ Same
<1> DEFINE u == upd[t]
<1>0. u \in Positions /\ upd \in [Threads -> Positions]
  BY DEF MapTypes
<1>1. /\ [upd EXCEPT ![t].at = "loop"] = [upd EXCEPT ![t] = Position("loop", u.rel, u.next)]
      /\ \A at : [upd EXCEPT ![t].at = at] = [upd EXCEPT ![t] = Position(at, u.rel, u.next)]
      /\ [upd EXCEPT ![t].next = @ + 1] = [upd EXCEPT ![t] = Position(u.at, u.rel, u.next + 1)]
      /\ [upd EXCEPT ![t].rel = @ + 1] = [upd EXCEPT ![t] = Position(u.at, u.rel + 1, u.next)]
      /\ [upd EXCEPT ![t] = [at |-> "loop", rel |-> @.rel + 1, next |-> @.next + 1]]
           = [upd EXCEPT ![t] = Position("loop", u.rel + 1, u.next + 1)]
  BY <1>0, PositionChanges DEF Position
<1>2. CASE Count(t)
  BY <1>1, <1>2 DEF Count, Updating
<1>3. CASE Loop(t)
  <2>1. upd' = [upd EXCEPT ![t].at = IF u.rel < nChan THEN "seek" ELSE "fill"]
    BY <1>3 DEF Loop
  <2> HIDE DEF u
  <2>2. upd' = [upd EXCEPT ![t] = Position(IF u.rel < nChan THEN "seek" ELSE "fill", u.rel, u.next)]
    BY <1>1, <2>1
  <2> QED
    BY <1>3, <2>2 DEF Loop, Updating, u
<1>4. CASE Seek(t) \/ Fill(t)
  BY <1>1, <1>4 DEF Seek, Fill, Updating, UpdIdle, Position
<1>5. CASE SeekTooFar(t)
  BY <1>5 DEF SeekTooFar, Updating
<1> QED
  BY <1>2, <1>3, <1>4, <1>5 DEF UpdateMap

LEMMA UpdateTypes ==
  ASSUME MapTypes, NEW t \in Threads, UpdateMap(t)
  PROVE  /\ MapTypes'
         /\ \A s \in Threads : s # t => upd'[s] = upd[s]
         /\ upd[t].at # "idle"
         /\ UNCHANGED <<chanKeep, pending, keepReg, keepQueue, answers, lostWrite>>
<1> DEFINE u == upd[t]
<1>0. /\ u \in Positions /\ u.rel \in 0 .. NumChans /\ u.next \in 0 .. NumChans
      /\ u.at = "seek" => u.rel < NumChans
      /\ NumChans \in Nat \ {0} /\ Channels = 0 .. NumChans - 1
  BY ChannelAssumption, PositionFacts DEF MapTypes, Channels
<1>1. UNCHANGED <<chanKeep, pending, keepReg, keepQueue, answers, lostWrite>> /\ u.at # "idle"
  BY DEF UpdateMap, Count, Loop, Seek, SeekTooFar, Fill, Updating, mapNet
<1>2. nChan' \in 0 .. NumChans /\ relToAbsIdx' \in [Channels -> Channels \union {Unused}]
  <2>1. nChan \in 0 .. NumChans /\ Cardinality(chanKeep) \in 0 .. NumChans
    BY FiniteChannels DEF MapTypes
  <2>2. \/ relToAbsIdx' = relToAbsIdx
        \/ u.at = "seek" /\ u.next \in Channels /\ relToAbsIdx' = [relToAbsIdx EXCEPT ![u.rel] = u.next]
        \/ relToAbsIdx' = [relToAbsIdx EXCEPT ![u.rel] = Unused]
    BY UpdateAdvances
  <2>3. nChan' = nChan \/ nChan' = Cardinality(chanKeep)
    BY UpdateAdvances
  <2> QED
    BY <2>1, <2>2, <2>3 DEF MapTypes
<1>3. \/ upd' = upd
      \/ \E at \in Stages, rel \in 0 .. NumChans, next \in 0 .. NumChans :
           /\ upd' = [upd EXCEPT ![t] = Position(at, rel, next)]
           /\ at = "seek" => rel < NumChans
  <2>1. nChan \in 0 .. NumChans
    BY DEF MapTypes
  <2> QED
    BY <1>0, <2>1, UpdateAdvances DEF Stages
<1>4. /\ upd' \in [Threads -> Positions]
      /\ \A s \in Threads : s # t => upd'[s] = upd[s]
      /\ \A s \in Threads : upd'[s].at = "seek" => upd'[s].rel < NumChans
  <2>1. CASE upd' = upd
    BY <2>1 DEF MapTypes
  <2>2. CASE upd' # upd
    <3>1. PICK at \in Stages, rel \in 0 .. NumChans, next \in 0 .. NumChans :
            upd' = [upd EXCEPT ![t] = Position(at, rel, next)] /\ (at = "seek" => rel < NumChans)
      BY <1>3, <2>2
    <3>2. /\ Position(at, rel, next) \in Positions
          /\ Position(at, rel, next).at = at /\ Position(at, rel, next).rel = rel
      BY PositionFacts
    <3> QED
      BY <3>1, <3>2 DEF MapTypes
  <2> QED
    BY <2>1, <2>2
<1> QED
  BY <1>1, <1>2, <1>4 DEF MapTypes

\* chanKeep is set and its update begins.
LEMMA KeepStep ==
  ASSUME MapTypes, NEW t \in Threads, NEW value \in SUBSET Channels, Keep(t, value)
  PROVE  /\ chanKeep' \in SUBSET Channels
         /\ upd' \in [Threads -> Positions]
         /\ \A s \in Threads : upd'[s].at = "seek" => upd'[s].rel < NumChans
         /\ \A s \in Threads : s # t => upd'[s] = upd[s]
         /\ upd'[t].at = "count" /\ upd'[t].rel = 0 /\ upd'[t].next = 0
<1>1. [UpdIdle EXCEPT !.at = "count"] = Position("count", 0, 0)
  BY DEF UpdIdle, Position
<1>2. upd' = [upd EXCEPT ![t] = Position("count", 0, 0)] /\ chanKeep' = value
  BY <1>1 DEF Keep
<1>3. "count" \in Stages /\ 0 \in 0 .. NumChans
  BY ChannelAssumption DEF Stages
<1> QED
  BY <1>2, <1>3, PositionFacts DEF MapTypes

\* Alone, the receiving thread continues its update as it should.
LEMMA UpdateInOrder ==
  ASSUME MapTypes, Alone, UpdateMap("recv")
  PROVE  Alone'
<1> DEFINE u == upd["recv"]
           R == Reference(chanKeep)
           v == upd'["recv"]
           Goes(at, rel, next) == v.at = at /\ v.rel = rel /\ v.next = next
           Same == nChan' = nChan /\ relToAbsIdx' = relToAbsIdx
<1>0. /\ u.at \in Stages /\ u.rel \in 0 .. NumChans /\ u.next \in 0 .. NumChans
      /\ nChan \in 0 .. NumChans /\ chanKeep \in SUBSET Channels
      /\ NumChans \in Nat \ {0} /\ Channels = 0 .. NumChans - 1
      /\ "recv" \in Threads /\ "port" \in Threads /\ "port" # "recv"
      /\ relToAbsIdx \in [Channels -> Channels \union {Unused}]
  BY ChannelAssumption, PositionFacts DEF MapTypes, Channels, Threads
<1>1. /\ chanKeep' = chanKeep /\ upd'["port"].at = "idle" /\ u.at # "idle"
      /\ Cardinality(chanKeep) \in 0 .. NumChans
  BY <1>0, UpdateTypes, FiniteChannels DEF Alone
<1>2. MapInOrder
  BY DEF Alone
<1>3. \A at, rel, next :
        upd' = [upd EXCEPT !["recv"] = Position(at, rel, next)] => Goes(at, rel, next)
  BY <1>0 DEF MapTypes, Position
<1>4. \/ /\ u.at = "count" /\ Goes("loop", u.rel, u.next)
         /\ nChan' = Cardinality(chanKeep) /\ relToAbsIdx' = relToAbsIdx
      \/ u.at = "loop" /\ u.rel < nChan /\ Goes("seek", u.rel, u.next) /\ Same
      \/ u.at = "loop" /\ ~(u.rel < nChan) /\ Goes("fill", u.rel, u.next) /\ Same
      \/ /\ u.at = "seek" /\ u.next \in chanKeep /\ Goes("loop", u.rel + 1, u.next + 1)
         /\ relToAbsIdx' = [relToAbsIdx EXCEPT ![u.rel] = u.next] /\ nChan' = nChan
      \/ /\ u.at = "seek" /\ u.next \in Channels /\ u.next \notin chanKeep
         /\ Goes("seek", u.rel, u.next + 1) /\ Same
      \/ u.at = "seek" /\ upd' = upd /\ Same
      \/ /\ u.at = "fill" /\ u.rel \in Channels /\ Goes("fill", u.rel + 1, u.next)
         /\ relToAbsIdx' = [relToAbsIdx EXCEPT ![u.rel] = Unused] /\ nChan' = nChan
      \/ u.at = "fill" /\ u.rel \notin Channels /\ Goes("idle", 0, 0) /\ Same
  <2> HIDE DEF Goes
  <2>1. "recv" \in Threads
    BY <1>0
  <2> QED
    BY <1>3, <2>1, UpdateAdvances
\* One more element is right.
<1>5. ASSUME u.rel \in Channels, Made(u.rel), relToAbsIdx' = [relToAbsIdx EXCEPT ![u.rel] = R[u.rel]]
      PROVE  \A i \in 0 .. u.rel : relToAbsIdx'[i] = R[i]
  <2>1. \A i \in 0 .. u.rel : i \in Channels /\ (i = u.rel \/ i \in 0 .. u.rel - 1)
    BY <1>0, <1>5
  <2> QED
    BY <1>0, <1>5, <2>1 DEF Made
\* What has to be seen of the next position.
<1>6. ASSUME \A i \in 0 .. v.rel - 1 : relToAbsIdx'[i] = R[i],
             nChan' = Cardinality(chanKeep), v.at \in {"loop", "seek", "fill"},
             v.at \in {"loop", "seek"} => v.rel = Rank(v.next, chanKeep),
             v.at = "seek" => v.rel < nChan',
             v.at = "fill" => v.rel >= nChan'
      PROVE  Alone'
  BY <1>1, <1>6 DEF Alone, MapInOrder, Made
<1>7. CASE u.at = "count"
  <2>1. /\ u.rel = 0 /\ u.next = 0 /\ Goes("loop", u.rel, u.next)
        /\ nChan' = Cardinality(chanKeep)
    BY <1>2, <1>4, <1>7 DEF MapInOrder
  <2>2. Rank(0, chanKeep) = 0
    BY <1>0, RankFacts
  <2>3. \A i \in 0 .. v.rel - 1 : FALSE
    BY <2>1
  <2> QED
    BY <1>6, <2>1, <2>2, <2>3
<1>8. CASE u.at = "loop"
  <2>1. nChan = Cardinality(chanKeep) /\ Made(u.rel) /\ u.rel = Rank(u.next, chanKeep)
    BY <1>2, <1>8 DEF MapInOrder
  <2>2. /\ Same /\ v.rel = u.rel /\ v.next = u.next
        /\ \/ v.at = "seek" /\ u.rel < nChan
           \/ v.at = "fill" /\ ~(u.rel < nChan)
    BY <1>4, <1>8
  <2>3. \A i \in 0 .. v.rel - 1 : relToAbsIdx'[i] = R[i]
    BY <2>1, <2>2 DEF Made
  <2>4. ~(u.rel < nChan) => u.rel >= nChan
    BY <1>0
  <2> HIDE DEF u, v, R
  <2> QED
    BY <1>6, <2>1, <2>2, <2>3, <2>4
<1>9. CASE u.at = "seek"
  <2>1. /\ nChan = Cardinality(chanKeep) /\ Made(u.rel) /\ u.rel = Rank(u.next, chanKeep)
        /\ u.rel < nChan
    BY <1>2, <1>9 DEF MapInOrder
  <2>2. CASE upd' = upd /\ Same
    BY <1>1, <1>2, <2>2 DEF Alone, MapInOrder, Made
  <2>3. CASE /\ u.next \in chanKeep /\ Goes("loop", u.rel + 1, u.next + 1)
             /\ relToAbsIdx' = [relToAbsIdx EXCEPT ![u.rel] = u.next] /\ nChan' = nChan
    <3>1. R[u.rel] = u.next
      BY <1>0, <2>1, <2>3, ReferenceFacts
    <3>2. u.rel \in Channels /\ u.next < NumChans /\ (u.rel + 1) - 1 = u.rel
      <4>1. u.rel \in Nat /\ u.rel < Cardinality(chanKeep) /\ u.next \in Channels
        BY <1>0, <2>1, <2>3
      <4> QED
        BY <1>0, <1>1, <4>1
    <3>3. Rank(u.next + 1, chanKeep) = u.rel + 1
      BY <1>0, <2>1, <2>3, <3>2, RankFacts
    <3>4. \A i \in 0 .. u.rel : relToAbsIdx'[i] = R[i]
      BY <1>5, <2>1, <2>3, <3>1, <3>2
    <3>5. \A i \in 0 .. v.rel - 1 : relToAbsIdx'[i] = R[i]
      BY <2>3, <3>2, <3>4
    <3> HIDE DEF u, v, R
    <3> QED
      BY <1>6, <2>1, <2>3, <3>3, <3>5
  <2>4. CASE u.next \in Channels /\ u.next \notin chanKeep /\ Goes("seek", u.rel, u.next + 1) /\ Same
    <3>1. u.next < NumChans
      BY <1>0, <2>4
    <3>2. Rank(u.next + 1, chanKeep) = u.rel
      BY <1>0, <2>1, <2>4, <3>1, RankFacts
    <3>3. \A i \in 0 .. v.rel - 1 : relToAbsIdx'[i] = R[i]
      BY <2>1, <2>4 DEF Made
    <3> HIDE DEF u, v, R
    <3> QED
      BY <1>6, <2>1, <2>4, <3>2, <3>3
  <2> QED
    BY <1>4, <1>9, <2>2, <2>3, <2>4
<1>10. CASE u.at = "fill"
  <2>1. nChan = Cardinality(chanKeep) /\ Made(u.rel) /\ u.rel >= nChan
    BY <1>2, <1>10 DEF MapInOrder
  <2>2. CASE /\ u.rel \in Channels /\ Goes("fill", u.rel + 1, u.next)
             /\ relToAbsIdx' = [relToAbsIdx EXCEPT ![u.rel] = Unused] /\ nChan' = nChan
    <3>1. R[u.rel] = Unused
      BY <1>0, <2>1, <2>2, ReferenceFacts
    <3>2. \A i \in 0 .. u.rel : relToAbsIdx'[i] = R[i]
      BY <1>5, <2>1, <2>2, <3>1
    <3>3. (u.rel + 1) - 1 = u.rel /\ u.rel + 1 >= nChan
      BY <1>0, <2>1
    <3>4. \A i \in 0 .. v.rel - 1 : relToAbsIdx'[i] = R[i]
      BY <2>2, <3>2, <3>3
    <3> HIDE DEF u, v, R
    <3> QED
      BY <1>6, <2>1, <2>2, <3>3, <3>4
  <2>3. CASE u.rel \notin Channels /\ Goes("idle", 0, 0) /\ Same
    <3>1. u.rel = NumChans
      BY <1>0, <2>3
    <3>2. Made(NumChans)'
      BY <1>1, <2>1, <2>3, <3>1 DEF Made
    <3> QED
      BY <1>1, <2>1, <2>3, <3>2 DEF Alone, MapInOrder, Made
  <2> QED
    BY <1>4, <1>10, <2>2, <2>3
<1> QED
  BY <1>0, <1>1, <1>7, <1>8, <1>9, <1>10 DEF Stages

LEMMA SeqFacts ==
  ASSUME NEW S, NEW s \in Seq(S)
  PROVE  /\ \A e \in S : Append(s, e) \in Seq(S)
         /\ s # <<>> => Head(s) \in S /\ Tail(s) \in Seq(S)
OBVIOUS

\* A write in flight is the next answer or a later one.
LEMMA HeadOrLater ==
  ASSUME answers \in Seq([write : BOOLEAN, value : SUBSET Channels]), answers # <<>>,
         answers' = Tail(answers), WriteInFlight
  PROVE  Head(answers).write \/ WriteInFlight'
<1>1. PICK i \in 1 .. Len(answers) : answers[i].write
  BY DEF WriteInFlight
<1>2. i = 1 => Head(answers).write
  BY <1>1
<1>3. i # 1 => i - 1 \in 1 .. Len(Tail(answers)) /\ Tail(answers)[i - 1] = answers[i]
  BY <1>1
<1> QED
  BY <1>1, <1>2, <1>3 DEF WriteInFlight

LEMMA MapInvInit == MapInit => MapInv
<1> SUFFICES ASSUME MapInit PROVE MapInv
  OBVIOUS
<1>1. NumChans \in Nat \ {0} /\ {} \in SUBSET Channels /\ keepReg \in SUBSET Channels
  BY ChannelAssumption DEF MapInit, Channels
<1>2. \A t \in Threads : upd[t] \in Positions /\ upd[t].at = "idle"
  BY <1>1 DEF MapInit, UpdIdle, Positions, Stages
<1>3. MapTypes
  BY <1>1, <1>2 DEF MapInit, MapTypes, Threads
<1>4. Cardinality({}) = 0 /\ Channels = 0 .. NumChans - 1
  BY FS_EmptySet DEF Channels
<1>5. \A i \in 0 .. NumChans - 1 : Reference({})[i] = Unused
  BY <1>1, <1>4, ReferenceFacts
<1>6. Made(NumChans)
  BY <1>4, <1>5 DEF MapInit, Made
<1>7. Alone
  BY <1>2, <1>4, <1>6 DEF MapInit, Alone, MapInOrder, Threads
<1> QED
  BY <1>2, <1>3, <1>7 DEF MapInv, Threads

LEMMA MapInvStep == MapInv /\ [MapNext]_mapVars => MapInv'
<1> SUFFICES ASSUME MapInv, [MapNext]_mapVars
             PROVE  MapInv'
  OBVIOUS
<1> USE DEF MapInv
<1>0. "port" \in Threads /\ "recv" \in Threads /\ "port" # "recv"
  BY DEF Threads
<1>1. CASE UpdateMap("port")
  <2>1. /\ MapTypes' /\ pending["port"] # {}
        /\ UNCHANGED <<pending, keepQueue, answers>>
    BY <1>0, <1>1, UpdateTypes
  <2> QED
    BY <2>1 DEF WriteComing
<1>2. CASE UpdateMap("recv")
  <2>1. /\ MapTypes' /\ upd'["port"] = upd["port"]
        /\ UNCHANGED <<pending, keepQueue, answers, lostWrite>>
    BY <1>0, <1>2, UpdateTypes
  <2>2. Alone => Alone'
    BY <1>2, UpdateInOrder
  <2> QED
    BY <2>1, <2>2 DEF WriteComing, WriteInFlight
<1>3. CASE WriteChans
  <2>1. PICK pairs \in SUBSET (0 .. NumChans \div 2 - 1) :
          /\ Keep("port", {c \in Channels : c \div 2 \in pairs})
          /\ pending' = [pending EXCEPT !["port"] = {{c \in Channels : c \div 2 \in pairs}}]
    BY <1>3 DEF WriteChans
  <2> DEFINE value == {c \in Channels : c \div 2 \in pairs}
  <2>2. value \in SUBSET Channels /\ UNCHANGED <<nChan, relToAbsIdx, keepReg, keepQueue, answers>>
    BY <1>3 DEF WriteChans, mapNet
  <2> HIDE DEF value
  <2>3. MapTypes'
    BY <1>0, <2>1, <2>2, KeepStep DEF MapTypes, value
  <2>4. pending'["port"] # {}
    BY <1>0, <2>1 DEF MapTypes
  <2> QED
    BY <2>3, <2>4 DEF WriteComing
<1>4. CASE QueueChans
  <2>1. PICK value \in pending["port"] : keepQueue' = Append(keepQueue, value)
    BY <1>4 DEF QueueChans
  <2>2. /\ upd["port"].at = "idle" /\ pending' = [pending EXCEPT !["port"] = {}]
        /\ UNCHANGED <<chanKeep, nChan, relToAbsIdx, upd, keepReg, answers>>
    BY <1>4 DEF QueueChans, mapData
  <2>3. keepQueue' \in Seq(SUBSET Channels) /\ keepQueue' # <<>>
    BY <1>0, <2>1 DEF MapTypes
  <2>4. MapTypes'
    BY <1>0, <2>2, <2>3 DEF MapTypes
  <2> QED
    BY <2>2, <2>3, <2>4 DEF WriteComing
<1>5. CASE Network(SendChans)
  <2>1. /\ UNCHANGED <<chanKeep, nChan, relToAbsIdx, upd, pending>>
        /\ keepQueue # <<>> /\ keepQueue' = Tail(keepQueue)
        /\ \/ /\ keepReg' = Head(keepQueue) /\ lostWrite' = lostWrite
              /\ answers' = Append(answers, [write |-> TRUE, value |-> keepReg'])
           \/ lostWrite' = TRUE /\ UNCHANGED <<keepReg, answers>>
    BY <1>5 DEF Network, SendChans, Answer, mapData
  <2>2. Head(keepQueue) \in SUBSET Channels /\ keepQueue' \in Seq(SUBSET Channels)
    BY <2>1 DEF MapTypes
  <2>3. MapTypes'
    <3>1. /\ keepReg' \in SUBSET Channels
          /\ answers \in Seq([write : BOOLEAN, value : SUBSET Channels])
      BY <2>1, <2>2 DEF MapTypes
    <3>2. [write |-> TRUE, value |-> keepReg'] \in [write : BOOLEAN, value : SUBSET Channels]
      BY <3>1
    <3>3. answers' \in Seq([write : BOOLEAN, value : SUBSET Channels])
      <4>1. Append(answers, [write |-> TRUE, value |-> keepReg'])
              \in Seq([write : BOOLEAN, value : SUBSET Channels])
        BY <3>1, <3>2, SeqFacts, Zenon
      <4> QED
        BY <2>1, <3>1, <4>1, Zenon
    <3> QED
      BY <2>1, <2>2, <3>1, <3>3 DEF MapTypes
  <2>4. lostWrite' \/ WriteInFlight'
    <3>1. CASE answers' = Append(answers, [write |-> TRUE, value |-> keepReg'])
      <4>1. answers \in Seq([write : BOOLEAN, value : SUBSET Channels])
        BY DEF MapTypes
      <4>2. Len(answers) + 1 \in 1 .. Len(answers') /\ answers'[Len(answers) + 1].write
        BY <3>1, <4>1
      <4> QED
        BY <4>2 DEF WriteInFlight
    <3> QED
      BY <2>1, <3>1
  <2> QED
    BY <2>1, <2>3, <2>4 DEF WriteComing
<1>6. CASE Network(PollChans)
  <2>1. /\ UNCHANGED <<chanKeep, nChan, relToAbsIdx, upd, pending, keepReg, keepQueue, lostWrite>>
        /\ answers' = Append(answers, [write |-> FALSE, value |-> keepReg'])
    BY <1>6 DEF Network, PollChans, Answer, mapData
  <2>2. answers \in Seq([write : BOOLEAN, value : SUBSET Channels])
    BY DEF MapTypes
  <2>3. MapTypes'
    BY <2>1 DEF MapTypes
  <2>4. WriteInFlight => WriteInFlight'
    BY <2>1, <2>2 DEF WriteInFlight
  <2> QED
    BY <2>1, <2>3, <2>4 DEF WriteComing, Alone, MapInOrder, Made
<1>7. CASE Network(LoseAnswer)
  <2>1. /\ UNCHANGED <<chanKeep, nChan, relToAbsIdx, upd, pending, keepReg, keepQueue>>
        /\ answers # <<>> /\ answers' = Tail(answers)
        /\ lostWrite' = (lostWrite \/ Head(answers).write)
    BY <1>7 DEF Network, LoseAnswer, mapData
  <2>2. MapTypes' /\ (WriteInFlight => Head(answers).write \/ WriteInFlight')
    BY <2>1, HeadOrLater DEF MapTypes
  <2> QED
    BY <2>1, <2>2 DEF WriteComing, Alone, MapInOrder, Made
<1>8. CASE Receiver(TakeAnswer)
  <2> DEFINE value == Head(answers).value
  <2>1. /\ answers # <<>> /\ answers' = Tail(answers)
        /\ pending' = [pending EXCEPT !["recv"] = {value}]
        /\ IF Head(answers).write THEN Keep("recv", value) ELSE UNCHANGED <<chanKeep, upd>>
        /\ UNCHANGED <<nChan, relToAbsIdx, keepReg, keepQueue, lostWrite>>
    BY <1>8 DEF Receiver, TakeAnswer, TakeEcho
  <2>2. value \in SUBSET Channels
    <3>1. Head(answers) \in [write : BOOLEAN, value : SUBSET Channels]
      BY <2>1, SeqFacts DEF MapTypes
    <3> QED
      BY <3>1
  <2> HIDE DEF value
  <2>3. MapTypes'
    <3>1. CASE Head(answers).write
      BY <1>0, <2>1, <2>2, <3>1, KeepStep DEF MapTypes
    <3>2. CASE ~Head(answers).write
      BY <1>0, <2>1, <2>2, <3>2 DEF MapTypes
    <3> QED
      BY <3>1, <3>2
  <2>4. pending'["port"] = pending["port"] /\ upd'["port"] = upd["port"]
    BY <1>0, <2>1, <2>2, KeepStep DEF MapTypes
  <2>5. CASE Head(answers).write
    <3>1. upd'["recv"].at = "count" /\ upd'["recv"].rel = 0 /\ upd'["recv"].next = 0
      BY <1>0, <2>1, <2>2, <2>5, KeepStep
    <3> QED
      BY <2>3, <2>4, <3>1 DEF WriteComing, Alone, MapInOrder
  <2>6. CASE ~Head(answers).write
    <3>1. WriteInFlight => WriteInFlight'
      BY <2>1, <2>6, HeadOrLater DEF MapTypes
    <3> QED
      BY <2>1, <2>3, <2>4, <2>6, <3>1 DEF WriteComing, Alone, MapInOrder, Made
  <2> QED
    BY <2>5, <2>6
<1>9. CASE Receiver(TakeReadback)
  <2>1. PICK value \in pending["recv"] :
          IF value # chanKeep THEN Keep("recv", value) ELSE UNCHANGED <<chanKeep, upd>>
    BY <1>9 DEF Receiver, TakeReadback
  <2>2. /\ pending' = [pending EXCEPT !["recv"] = {}]
        /\ UNCHANGED <<nChan, relToAbsIdx, keepReg, keepQueue, answers, lostWrite>>
    BY <1>9 DEF Receiver, TakeReadback, mapNet
  <2>3. value \in SUBSET Channels
    BY <1>0, <2>1 DEF MapTypes
  <2>4. CASE value # chanKeep
    <3>1. MapTypes' /\ upd'["port"] = upd["port"] /\ pending'["port"] = pending["port"]
      BY <1>0, <2>1, <2>2, <2>3, <2>4, KeepStep DEF MapTypes
    <3>2. upd'["recv"].at = "count" /\ upd'["recv"].rel = 0 /\ upd'["recv"].next = 0
      BY <1>0, <2>1, <2>3, <2>4, KeepStep
    <3> QED
      BY <2>2, <3>1, <3>2 DEF WriteComing, WriteInFlight, Alone, MapInOrder
  <2>5. CASE value = chanKeep
    <3>1. MapTypes' /\ UNCHANGED <<chanKeep, upd>> /\ pending'["port"] = pending["port"]
      BY <1>0, <2>1, <2>2, <2>5 DEF MapTypes
    <3> QED
      BY <2>2, <3>1 DEF WriteComing, WriteInFlight, Alone, MapInOrder, Made
  <2> QED
    BY <2>4, <2>5
<1>10. CASE Receiver(StorePoint) \/ Publisher(Publish) \/ UNCHANGED mapVars
  <2>1. UNCHANGED <<chanKeep, nChan, relToAbsIdx, upd, pending, keepReg, keepQueue, answers, lostWrite>>
    BY <1>10 DEF Receiver, StorePoint, Publisher, mapVars, mapData, mapNet
  <2> QED
    BY <2>1 DEF MapTypes, WriteComing, WriteInFlight, Alone, MapInOrder, Made
<1> QED
  BY <1>1, <1>2, <1>3, <1>4, <1>5, <1>6, <1>7, <1>8, <1>9, <1>10 DEF MapNext, Threads

LEMMA MapInductive == MapSpec => []MapInv
BY MapInvInit, MapInvStep, PTL DEF MapSpec

\* When everything written has been answered and no write or echo was lost, the map is
\* that of chanKeep, whatever the threads that made it at once had left there.
THEOREM MapHeals == MapSpec => []MapAgreesWhenQuiet
<1>1. MapInv => MapAgreesWhenQuiet
  <2> SUFFICES ASSUME MapInv, MapQuiet, ~lostWrite
               PROVE  nChan = Cardinality(chanKeep) /\ relToAbsIdx = Reference(chanKeep)
    BY DEF MapAgreesWhenQuiet
  <2>1. ~WriteComing /\ upd["recv"].at = "idle"
    BY DEF MapQuiet, Free, Threads, WriteComing, WriteInFlight
  <2>2. nChan = Cardinality(chanKeep) /\ Made(NumChans)
    BY <2>1 DEF MapInv, Alone, MapInOrder
  <2>3. /\ relToAbsIdx \in [Channels -> Channels \union {Unused}]
        /\ DOMAIN Reference(chanKeep) = Channels
    BY ReferenceFacts DEF MapInv, MapTypes
  <2>4. \A i \in Channels : relToAbsIdx[i] = Reference(chanKeep)[i]
    BY <2>2 DEF Made, Channels
  <2>5. relToAbsIdx = Reference(chanKeep)
    BY <2>3, <2>4 DEF Reference
  <2> QED
    BY <2>2, <2>5
<1> QED
  BY <1>1, MapInductive, PTL

--------------------------------------------------------------------------------
(* What is published *)

Triples == {"raw", "scaled", "polar"} \X Channels \X Channels
PubTypes ==
  pub \in [at : {"ask", "wait", "loop", "end"}, rel : 0 .. NumChans, shown : SUBSET Triples,
           calm : BOOLEAN]

\* What has been shown of the channels of S when the first n elements are through: an I
\* waveform with its Q behind it waits for that.
Shows(S, n, what, c, rel) ==
  /\ c \in S /\ rel = Rank(c, S)
  /\ \/ what = "raw" /\ rel < n
     \/ what = "scaled" /\ rel < n /\ (c % 2 = 0 /\ c + 1 \in S => rel + 1 < n)
     \/ what = "polar" /\ c % 2 = 0 /\ c + 1 \in S /\ rel + 1 < n

ShownUpTo(n) ==
  \A what \in {"raw", "scaled", "polar"}, c \in Channels, rel \in Channels :
    <<what, c, rel>> \in pub.shown <=> Shows(chanKeep, n, what, c, rel)

PubInv ==
  /\ PubTypes
  /\ nChan = Cardinality(chanKeep) \/ \E t \in Threads : upd[t].at = "count"
  /\ pub.calm => \A t \in Threads : upd[t].at = "idle"
  /\ (pub.calm /\ relToAbsIdx = Reference(chanKeep)) =>
       /\ pub.at = "loop" => ShownUpTo(pub.rel)
       /\ pub.at = "end" => ShownUpTo(nChan)

LEMMA Halves ==
  /\ \A c \in Nat : /\ c % 2 = 0 \/ c % 2 = 1
                    /\ c % 2 = 0 => (c + 1) % 2 = 1 /\ (c + 1) \div 2 = c \div 2
                    /\ c % 2 = 1 => c >= 1 /\ (c - 1) % 2 = 0 /\ (c - 1) \div 2 = c \div 2
                    /\ I(c) = IF c % 2 = 0 THEN c ELSE c - 1
  /\ \A c, d \in Nat : c \div 2 = d \div 2 /\ c # d => IF c % 2 = 0 THEN d = c + 1 ELSE d = c - 1
  /\ \A c \in Channels : c \div 2 # Unused \div 2
<1>1. \A c \in Nat : /\ c % 2 = 0 \/ c % 2 = 1
                     /\ c % 2 = 0 => (c + 1) % 2 = 1 /\ (c + 1) \div 2 = c \div 2
                     /\ c % 2 = 1 => c >= 1 /\ (c - 1) % 2 = 0 /\ (c - 1) \div 2 = c \div 2
  OBVIOUS
<1>2. \A c \in Nat : I(c) = IF c % 2 = 0 THEN c ELSE c - 1
  BY <1>1 DEF I
<1>3. \A c, d \in Nat : c \div 2 = d \div 2 /\ c # d => IF c % 2 = 0 THEN d = c + 1 ELSE d = c - 1
  OBVIOUS
<1>4. \A c \in Channels : c \div 2 # Unused \div 2
  <2>1. NumChans \in Nat /\ \A c \in Channels : c \in Nat /\ c < NumChans
    BY ChannelAssumption DEF Channels
  <2>2. (2 * NumChans + 1) \div 2 = NumChans
    BY <2>1
  <2>3. \A c \in Nat : c \div 2 <= c
    OBVIOUS
  <2> QED
    BY <2>1, <2>2, <2>3 DEF Unused
<1> QED
  BY <1>1, <1>2, <1>3, <1>4

LEMMA RankOfKept ==
  ASSUME NEW S \in SUBSET Channels, NEW d \in S
  PROVE  /\ Rank(d, S) \in Channels /\ Rank(d, S) \in Nat /\ Rank(d, S) < Cardinality(S)
         /\ Rank(d + 1, S) = Rank(d, S) + 1
         /\ Cardinality(S) \in 0 .. NumChans
<1>0. /\ NumChans \in Nat \ {0} /\ Channels = 0 .. NumChans - 1
      /\ d \in 0 .. NumChans /\ d < NumChans
  BY ChannelAssumption DEF Channels
<1>1. Cardinality(S) \in 0 .. NumChans
  BY FiniteChannels
<1>2. /\ Rank(d, S) \in 0 .. Cardinality(S) /\ Rank(d, S) < Cardinality(S)
      /\ Rank(d + 1, S) = Rank(d, S) + 1
  BY <1>0, RankFacts
<1> QED
  BY <1>0, <1>1, <1>2

\* Where the map is right, an element in use is the channel of its rank, and the other of
\* the pair is next to it if it is kept.
LEMMA Neighbours ==
  ASSUME MapTypes, relToAbsIdx = Reference(chanKeep), NEW rel \in Channels,
         relToAbsIdx[rel] \in Channels
  PROVE  LET c == relToAbsIdx[rel]
             other == IF c % 2 = 1 THEN c - 1 ELSE c + 1
         IN /\ c \in chanKeep /\ Rank(c, chanKeep) = rel
            /\ Partner(rel) <=> other \in chanKeep
            /\ other \in chanKeep => Rank(other, chanKeep) = IF c % 2 = 1 THEN rel - 1 ELSE rel + 1
<1> DEFINE c == relToAbsIdx[rel]
           other == IF c % 2 = 1 THEN c - 1 ELSE c + 1
           place == IF c % 2 = 1 THEN rel - 1 ELSE rel + 1
<1>0. /\ chanKeep \in SUBSET Channels /\ NumChans \in Nat \ {0} /\ Channels = 0 .. NumChans - 1
      /\ \A d \in Channels : d \in Nat /\ d \in 0 .. NumChans /\ d < NumChans
  BY ChannelAssumption DEF MapTypes, Channels
<1>1. ASSUME NEW r \in Channels, relToAbsIdx[r] \in Channels
      PROVE  relToAbsIdx[r] \in chanKeep /\ Rank(relToAbsIdx[r], chanKeep) = r
  <2>1. Unused \notin Channels
    BY <1>0 DEF Unused
  <2>2. Reference(chanKeep)[r] # Unused
    BY <1>1, <2>1
  <2>3. \E d \in chanKeep : Rank(d, chanKeep) = r
    BY <2>2 DEF Reference
  <2>4. Reference(chanKeep)[r] = CHOOSE d \in chanKeep : Rank(d, chanKeep) = r
    BY <2>3 DEF Reference
  <2> QED
    BY <2>3, <2>4
<1>2. c \in chanKeep /\ Rank(c, chanKeep) = rel /\ c \in Nat
  BY <1>0, <1>1
<1>3. other \in chanKeep => Rank(other, chanKeep) = place
  <2>1. CASE c % 2 = 1
    <3>1. other = c - 1 /\ place = rel - 1 /\ c - 1 \in Int
      BY <1>2, <2>1
    <3>2. other \in chanKeep => Rank((c - 1) + 1, chanKeep) = Rank(c - 1, chanKeep) + 1
      BY <1>0, <3>1, RankOfKept
    <3>3. (c - 1) + 1 = c
      BY <1>2
    <3>4. other \in chanKeep => Rank(c - 1, chanKeep) \in Nat
      BY <1>0, <3>1, RankOfKept
    <3> QED
      BY <1>2, <3>1, <3>2, <3>3, <3>4
  <2>2. CASE c % 2 # 1
    <3>1. other = c + 1 /\ place = rel + 1
      BY <2>2
    <3>2. Rank(c + 1, chanKeep) = Rank(c, chanKeep) + 1
      BY <1>0, <1>2, RankOfKept
    <3> QED
      BY <1>2, <3>1, <3>2
  <2> QED
    BY <2>1, <2>2
<1>4. other \in chanKeep => place \in Channels /\ relToAbsIdx[place] = other
  <2>1. other \in chanKeep => Rank(other, chanKeep) \in Channels
    BY <1>0, RankOfKept
  <2>2. other \in chanKeep => Reference(chanKeep)[Rank(other, chanKeep)] = other
    BY <1>0, ReferenceFacts
  <2> QED
    BY <1>3, <2>1, <2>2
<1>5. other \in chanKeep => Partner(rel)
  <2>1. other \in chanKeep => other \div 2 = c \div 2
    BY <1>0, <1>2, Halves
  <2> QED
    BY <1>4, <2>1 DEF Partner
<1>6. ASSUME Partner(rel)
      PROVE  other \in chanKeep
  <2> DEFINE d == relToAbsIdx[place]
  <2>1. place \in Channels /\ d \div 2 = c \div 2
    BY <1>6 DEF Partner
  <2>2. d \in Channels
    <3>1. d \in Channels \union {Unused}
      BY <2>1 DEF MapTypes
    <3>2. c \in Channels
      BY <1>0, <1>2
    <3> QED
      BY <2>1, <3>1, <3>2, Halves
  <2>3. d \in chanKeep /\ Rank(d, chanKeep) = place
    BY <1>1, <2>1, <2>2
  <2>4. place # rel
    BY <1>0
  <2>5. d # c /\ d \in Nat
    BY <1>0, <1>2, <2>2, <2>3, <2>4
  <2>6. d = other
    BY <1>2, <2>1, <2>5, Halves
  <2> QED
    BY <2>3, <2>6
<1> QED
  BY <1>2, <1>3, <1>5, <1>6

LEMMA ShowTypes ==
  ASSUME MapTypes, PubTypes, PublishChan
  PROVE  PubTypes'
<1> DEFINE rel == pub.rel
           c == relToAbsIdx[rel]
           scaled == IF ~Partner(rel) THEN {Scaled(c, rel)}
                     ELSE IF c % 2 = 0 THEN {}
                     ELSE {Scaled(c, rel), Scaled(I(c), rel - 1), <<"polar", I(c), rel - 1>>}
<1>0. /\ rel \in Channels /\ c \in Channels /\ rel + 1 \in 0 .. NumChans
      /\ c \in Nat /\ (c % 2 = 0 \/ c % 2 = 1)
      /\ c % 2 = 1 => I(c) \in Channels
      /\ Partner(rel) /\ c % 2 = 1 => rel - 1 \in Channels
  <2>1. nChan \in 0 .. NumChans /\ rel \in 0 .. NumChans /\ rel < nChan /\ c \in Channels
    BY DEF MapTypes, PubTypes, PublishChan
  <2>2. NumChans \in Nat /\ Channels = 0 .. NumChans - 1
    BY ChannelAssumption DEF Channels
  <2>3. c \in Nat /\ (c % 2 = 0 \/ c % 2 = 1) /\ (c % 2 = 1 => I(c) = c - 1 /\ c >= 1)
    BY <2>1, <2>2, Halves
  <2>4. Partner(rel) /\ c % 2 = 1 => rel - 1 \in Channels
    BY DEF Partner
  <2> QED
    BY <2>1, <2>2, <2>3, <2>4
<1>1. <<"raw", c, rel>> \in Triples /\ <<"scaled", c, rel>> \in Triples
  BY <1>0 DEF Triples
<1>2. Partner(rel) /\ c % 2 = 1 =>
        <<"scaled", I(c), rel - 1>> \in Triples /\ <<"polar", I(c), rel - 1>> \in Triples
  BY <1>0 DEF Triples
<1>3. scaled \in SUBSET Triples
  BY <1>0, <1>1, <1>2 DEF Scaled
<1>4. /\ pub' = [pub EXCEPT !.rel = rel + 1, !.shown = pub'.shown]
      /\ pub'.shown \in {pub.shown, pub.shown \union {<<"raw", c, rel>>} \union scaled}
  BY DEF PublishChan, PubTypes
<1>5. pub'.shown \in SUBSET Triples
  <2> HIDE DEF scaled, c, rel
  <2> QED
    BY <1>1, <1>3, <1>4 DEF PubTypes
<1> QED
  BY <1>0, <1>4, <1>5 DEF PubTypes

\* Publishing one more element of a map that is right.
LEMMA ShowPubStep ==
  ASSUME MapTypes, PubTypes, relToAbsIdx = Reference(chanKeep), pub.calm,
         PublishChan, chanKeep' = chanKeep, ShownUpTo(pub.rel)
  PROVE  /\ pub'.rel = pub.rel + 1
         /\ \A what \in {"raw", "scaled", "polar"}, x \in Channels, r \in Channels :
              <<what, x, r>> \in pub'.shown <=> Shows(chanKeep, pub.rel + 1, what, x, r)
<1> DEFINE rel == pub.rel
           c == relToAbsIdx[rel]
           scaled == IF ~Partner(rel) THEN {Scaled(c, rel)}
                     ELSE IF c % 2 = 0 THEN {}
                     ELSE {Scaled(c, rel), Scaled(I(c), rel - 1), <<"polar", I(c), rel - 1>>}
           K == chanKeep
<1>0. /\ K \in SUBSET Channels /\ rel \in Channels /\ c \in Channels /\ rel \in Nat /\ c \in Nat
      /\ \A x \in Channels : x \in Nat
  <2>1. nChan \in 0 .. NumChans /\ rel \in 0 .. NumChans /\ rel < nChan /\ c \in Channels
    BY DEF MapTypes, PubTypes, PublishChan
  <2> QED
    BY <2>1, ChannelAssumption DEF MapTypes, Channels
<1>1. /\ pub'.rel = rel + 1
      /\ pub'.shown = pub.shown \union {<<"raw", c, rel>>} \union scaled
  BY DEF PublishChan, PubTypes
<1>2. /\ c \in K /\ Rank(c, K) = rel
      /\ Partner(rel) <=> IF c % 2 = 1 THEN c - 1 \in K ELSE c + 1 \in K
      /\ c % 2 = 1 /\ c - 1 \in K => Rank(c - 1, K) = rel - 1
      /\ c % 2 = 0 \/ c % 2 = 1
      /\ c % 2 = 0 => (c + 1) % 2 = 1
      /\ c % 2 = 1 => I(c) = c - 1 /\ (c - 1) % 2 = 0
  BY <1>0, Neighbours, Halves
<1>3. /\ \A x \in K : Rank(x, K) \in Nat /\ Rank(x, K) \in Channels /\ Rank(x + 1, K) = Rank(x, K) + 1
      /\ \A x, y \in K : Rank(x, K) = Rank(y, K) => x = y
      /\ \A x \in K : x \in Nat /\ (x % 2 = 0 \/ x % 2 = 1) /\ (x % 2 = 0 => (x + 1) % 2 = 1)
  BY <1>0, RankOfKept, RanksDiffer, Halves
<1>4. ASSUME NEW x \in Channels, NEW r \in Channels
      PROVE  <<"raw", x, r>> \in pub'.shown <=> Shows(K, rel + 1, "raw", x, r)
  <2>1. <<"raw", x, r>> \notin scaled
    BY DEF Scaled
  <2>2. <<"raw", x, r>> \in pub'.shown <=> <<"raw", x, r>> \in pub.shown \/ (x = c /\ r = rel)
    <3> HIDE DEF scaled, c, rel
    <3> QED
      BY <1>1, <2>1
  <2>3. <<"raw", x, r>> \in pub.shown <=> x \in K /\ r = Rank(x, K) /\ r < rel
    BY DEF ShownUpTo, Shows
  <2>4. x \in K /\ r = Rank(x, K) /\ r < rel + 1 <=>
          (x \in K /\ r = Rank(x, K) /\ r < rel) \/ (x = c /\ r = rel)
    <3> HIDE DEF scaled, c, rel
    <3> QED
      BY <1>0, <1>2, <1>3
  <2> QED
    BY <2>2, <2>3, <2>4 DEF Shows
<1>5. ASSUME NEW x \in Channels, NEW r \in Channels
      PROVE  <<"scaled", x, r>> \in pub'.shown <=> Shows(K, rel + 1, "scaled", x, r)
  <2>1. <<"scaled", x, r>> \in scaled <=>
          \/ x = c /\ r = rel /\ (~Partner(rel) \/ c % 2 = 1)
          \/ Partner(rel) /\ c % 2 = 1 /\ x = c - 1 /\ r = rel - 1
    BY <1>2 DEF Scaled
  <2>2. <<"scaled", x, r>> \in pub'.shown <=>
          <<"scaled", x, r>> \in pub.shown \/ <<"scaled", x, r>> \in scaled
    <3> HIDE DEF scaled, c, rel
    <3> QED
      BY <1>1
  <2>3. <<"scaled", x, r>> \in pub.shown <=> Shows(K, rel, "scaled", x, r)
    BY DEF ShownUpTo
  <2> HIDE DEF scaled, c, rel, K
  <2>4. ASSUME Shows(K, rel + 1, "scaled", x, r), ~Shows(K, rel, "scaled", x, r)
        PROVE  <<"scaled", x, r>> \in scaled
    <3>1. x \in K /\ r = Rank(x, K) /\ r < rel + 1 /\ x \in Nat /\ r \in Nat
          /\ (x % 2 = 0 /\ x + 1 \in K => r + 1 < rel + 1)
      BY <1>3, <2>4 DEF Shows
    <3>2. CASE x % 2 = 0 /\ x + 1 \in K
      <4>1. r + 1 = rel
        BY <1>0, <2>4, <3>1, <3>2 DEF Shows
      <4>2. c = x + 1
        BY <1>2, <1>3, <3>1, <3>2, <4>1
      <4>3. c % 2 = 1 /\ c - 1 = x /\ rel - 1 = r
        BY <1>0, <1>3, <3>1, <3>2, <4>1, <4>2
      <4> QED
        BY <1>2, <2>1, <3>1, <4>3
    <3>3. CASE ~(x % 2 = 0 /\ x + 1 \in K)
      <4>1. r = rel
        BY <1>0, <2>4, <3>1, <3>3 DEF Shows
      <4>2. x = c
        BY <1>2, <1>3, <3>1, <4>1
      <4> QED
        BY <1>2, <2>1, <3>3, <4>1, <4>2
    <3> QED
      BY <3>2, <3>3
  <2>5. Shows(K, rel, "scaled", x, r) => Shows(K, rel + 1, "scaled", x, r)
    BY <1>0 DEF Shows
  <2>6. ASSUME <<"scaled", x, r>> \in scaled
        PROVE  Shows(K, rel + 1, "scaled", x, r)
    <3>1. CASE x = c /\ r = rel /\ (~Partner(rel) \/ c % 2 = 1)
      BY <1>0, <1>2, <3>1 DEF Shows
    <3>2. CASE Partner(rel) /\ c % 2 = 1 /\ x = c - 1 /\ r = rel - 1
      BY <1>0, <1>2, <3>2 DEF Shows
    <3> QED
      BY <2>1, <2>6, <3>1, <3>2
  <2> QED
    BY <2>2, <2>3, <2>4, <2>5, <2>6
<1>6. ASSUME NEW x \in Channels, NEW r \in Channels
      PROVE  <<"polar", x, r>> \in pub'.shown <=> Shows(K, rel + 1, "polar", x, r)
  <2>1. <<"polar", x, r>> \in scaled <=> Partner(rel) /\ c % 2 = 1 /\ x = c - 1 /\ r = rel - 1
    BY <1>2 DEF Scaled
  <2>2. <<"polar", x, r>> \in pub'.shown <=>
          <<"polar", x, r>> \in pub.shown \/ <<"polar", x, r>> \in scaled
    <3> HIDE DEF scaled, c, rel
    <3> QED
      BY <1>1
  <2>3. <<"polar", x, r>> \in pub.shown <=> Shows(K, rel, "polar", x, r)
    BY DEF ShownUpTo
  <2> HIDE DEF scaled, c, rel, K
  <2>4. ASSUME Shows(K, rel + 1, "polar", x, r), ~Shows(K, rel, "polar", x, r)
        PROVE  <<"polar", x, r>> \in scaled
    <3>1. /\ x \in K /\ r = Rank(x, K) /\ x \in Nat /\ r \in Nat
          /\ x % 2 = 0 /\ x + 1 \in K /\ r + 1 = rel
      BY <1>0, <1>3, <2>4 DEF Shows
    <3>2. c = x + 1
      BY <1>2, <1>3, <3>1
    <3>3. c % 2 = 1 /\ c - 1 = x /\ rel - 1 = r
      BY <1>0, <1>3, <3>1, <3>2
    <3> QED
      BY <1>2, <2>1, <3>1, <3>3
  <2>5. Shows(K, rel, "polar", x, r) => Shows(K, rel + 1, "polar", x, r)
    BY <1>0 DEF Shows
  <2>6. ASSUME <<"polar", x, r>> \in scaled
        PROVE  Shows(K, rel + 1, "polar", x, r)
    BY <1>0, <1>2, <2>1, <2>6 DEF Shows
  <2> QED
    BY <2>2, <2>3, <2>4, <2>5, <2>6
<1> QED
  BY <1>1, <1>4, <1>5, <1>6

\* Beyond the channels in use it makes no difference how far the loop went.
LEMMA ShownAll ==
  ASSUME chanKeep \in SUBSET Channels, NEW n \in Nat, n >= Cardinality(chanKeep),
         NEW what, NEW c, NEW rel
  PROVE  Shows(chanKeep, n, what, c, rel) <=>
           /\ c \in chanKeep /\ rel = Rank(c, chanKeep)
           /\ \/ what \in {"raw", "scaled"}
              \/ what = "polar" /\ c % 2 = 0 /\ c + 1 \in chanKeep
<1>1. \A d \in chanKeep : /\ Rank(d, chanKeep) < n /\ Rank(d, chanKeep) \in Nat
                          /\ Rank(d + 1, chanKeep) = Rank(d, chanKeep) + 1
  <2>1. Cardinality(chanKeep) \in Int
    BY FiniteChannels, ChannelAssumption
  <2>2. \A d \in chanKeep : /\ Rank(d, chanKeep) < Cardinality(chanKeep)
                            /\ Rank(d, chanKeep) \in Nat
                            /\ Rank(d + 1, chanKeep) = Rank(d, chanKeep) + 1
    BY RankOfKept
  <2> QED
    BY <2>1, <2>2
<1> QED
  BY <1>1 DEF Shows

LEMMA PubInvInit == MapInit => PubInv
<1> SUFFICES ASSUME MapInit PROVE PubInv
  OBVIOUS
<1>1. NumChans \in Nat \ {0} /\ Cardinality({}) = 0
  BY ChannelAssumption, FS_EmptySet
<1>2. pub = [at |-> "ask", rel |-> 0, shown |-> {}, calm |-> FALSE]
  BY DEF MapInit
<1>3. PubTypes
  BY <1>1, <1>2 DEF PubTypes
<1> QED
  BY <1>1, <1>2, <1>3 DEF MapInit, PubInv

LEMMA PubInvStep ==
  ASSUME MapTypes, PubInv, [MapNext]_mapVars
  PROVE  PubInv'
<1> USE DEF PubInv
<1>0. NumChans \in Nat \ {0} /\ "port" \in Threads /\ "recv" \in Threads
  BY ChannelAssumption DEF Threads
<1>1. ASSUME NEW t \in Threads, UpdateMap(t)
      PROVE  PubInv'
  <2>1. /\ \A s \in Threads : s # t => upd'[s] = upd[s]
        /\ upd[t].at # "idle" /\ chanKeep' = chanKeep
    BY <1>1, UpdateTypes
  <2>2. pub' = pub
    BY <1>1 DEF UpdateMap, Count, Loop, Seek, SeekTooFar, Fill
  <2>3. ~pub.calm
    BY <2>1
  <2>4. \/ nChan' = Cardinality(chanKeep)
        \/ nChan' = nChan /\ upd[t].at # "count"
    BY <1>1 DEF UpdateMap, Count, Loop, Seek, SeekTooFar, Fill, Updating
  <2>5. nChan' = Cardinality(chanKeep') \/ \E s \in Threads : upd'[s].at = "count"
    BY <2>1, <2>4
  <2> QED
    BY <2>2, <2>3, <2>5 DEF PubTypes
\* A new setting of the channels spoils what is being published.
<1>2. ASSUME NEW t \in Threads, NEW v \in SUBSET Channels, Keep(t, v)
      PROVE  PubInv'
  <2>1. upd'[t].at = "count"
    BY <1>2, KeepStep
  <2>2. pub' = [pub EXCEPT !.calm = FALSE, !.shown = {}]
    BY <1>2 DEF Keep
  <2>3. PubTypes' /\ ~pub'.calm
    BY <2>2 DEF PubTypes
  <2> QED
    BY <2>1, <2>3
<1>3. ASSUME UNCHANGED <<chanKeep, nChan, relToAbsIdx, upd, pub>>
      PROVE  PubInv'
  <2>1. ShownUpTo(pub.rel) => ShownUpTo(pub.rel)'
    BY <1>3 DEF ShownUpTo
  <2>2. ShownUpTo(nChan) => ShownUpTo(nChan)'
    BY <1>3 DEF ShownUpTo
  <2>3. PubTypes'
    BY <1>3 DEF PubTypes
  <2> QED
    BY <1>3, <2>1, <2>2, <2>3
<1>4. CASE WriteChans
  <2>1. PICK pairs \in SUBSET (0 .. NumChans \div 2 - 1) :
          Keep("port", {c \in Channels : c \div 2 \in pairs})
    BY <1>4 DEF WriteChans
  <2>2. {c \in Channels : c \div 2 \in pairs} \in SUBSET Channels
    OBVIOUS
  <2> QED
    BY <1>0, <1>2, <2>1, <2>2
<1>5. CASE Receiver(TakeAnswer)
  <2>1. /\ answers # <<>> /\ UNCHANGED <<nChan, relToAbsIdx>>
        /\ Keep("recv", Head(answers).value) \/ UNCHANGED <<chanKeep, upd, pub>>
    BY <1>5 DEF Receiver, TakeAnswer, TakeEcho
  <2>2. Head(answers) \in [write : BOOLEAN, value : SUBSET Channels]
    BY <2>1, SeqFacts DEF MapTypes
  <2>3. Head(answers).value \in SUBSET Channels
    BY <2>2
  <2> QED
    BY <1>0, <1>2, <1>3, <2>1, <2>3
<1>6. CASE Receiver(TakeReadback)
  <2>1. /\ UNCHANGED <<nChan, relToAbsIdx>>
        /\ \E v \in pending["recv"] : Keep("recv", v) \/ UNCHANGED <<chanKeep, upd, pub>>
    BY <1>6 DEF Receiver, TakeReadback
  <2>2. \A v \in pending["recv"] : v \in SUBSET Channels
    BY <1>0 DEF MapTypes
  <2> QED
    BY <1>0, <1>2, <1>3, <2>1, <2>2
<1>7. CASE Publisher(Publish)
  <2>1. UNCHANGED <<chanKeep, nChan, relToAbsIdx, upd>> /\ Publish
    BY <1>7 DEF Publisher, mapData
  <2>2. /\ nChan' = Cardinality(chanKeep') \/ \E t \in Threads : upd'[t].at = "count"
        /\ Reference(chanKeep)' = Reference(chanKeep)
    BY <2>1 DEF Reference, Rank
  <2>3. CASE AskWave \/ WaitTimesOut
    <3>1. PubTypes' /\ pub'.at \in {"ask", "wait"} /\ pub'.calm = pub.calm
      BY <2>3 DEF AskWave, WaitTimesOut, PubTypes
    <3> QED
      BY <2>1, <2>2, <3>1
  <2>4. CASE StartPublishing
    <3>1. /\ pub'.at = "loop" /\ pub'.rel = 0 /\ pub'.shown = {}
          /\ pub'.calm => \A t \in Threads : upd[t].at = "idle"
      BY <2>4 DEF StartPublishing
    <3>2. PubTypes'
      <4>1. (\A t \in Threads : upd[t].at = "idle") \in BOOLEAN /\ 0 \in 0 .. NumChans
        BY <1>0
      <4> QED
        BY <2>4, <4>1 DEF StartPublishing, PubTypes
    <3>3. \A what, c, rel : ~Shows(chanKeep, 0, what, c, rel)
      <4>1. \A d \in chanKeep : Rank(d, chanKeep) \in Nat
        BY RankOfKept DEF MapTypes
      <4> QED
        BY <4>1 DEF Shows
    <3>4. ShownUpTo(pub.rel)'
      BY <2>1, <3>1, <3>3 DEF ShownUpTo
    <3> QED
      BY <2>1, <2>2, <3>1, <3>2, <3>4
  <2>5. CASE PublishChan
    <3>1. PubTypes' /\ pub'.at = "loop" /\ pub.at = "loop" /\ pub'.calm = pub.calm
      BY <2>5, ShowTypes DEF PublishChan, PubTypes
    <3>2. (pub.calm /\ relToAbsIdx = Reference(chanKeep)) => ShownUpTo(pub.rel)'
      <4> SUFFICES ASSUME pub.calm, relToAbsIdx = Reference(chanKeep)
                   PROVE  ShownUpTo(pub.rel)'
        OBVIOUS
      <4>1. ShownUpTo(pub.rel)
        BY <3>1
      <4> QED
        BY <2>1, <2>5, <4>1, ShowPubStep DEF ShownUpTo
    <3> QED
      BY <2>1, <2>2, <3>1, <3>2
  <2>6. CASE PublishUnused
    BY <1>3, <2>1, <2>6 DEF PublishUnused
  <2>7. CASE EndPublishing
    <3>1. /\ PubTypes' /\ pub'.at \in {"ask", "end"} /\ pub'.calm = pub.calm
          /\ pub'.shown = pub.shown /\ pub.at = "loop" /\ pub.rel >= nChan
      <4>1. \E a \in {"ask", "end"} : pub' = [pub EXCEPT !.at = a, !.rel = 0]
        BY <2>7, Zenon DEF EndPublishing
      <4>2. pub.at = "loop" /\ pub.rel >= nChan /\ 0 \in 0 .. NumChans
        BY <1>0, <2>7 DEF EndPublishing
      <4>3. /\ PubTypes' /\ pub'.at \in {"ask", "end"} /\ pub'.calm = pub.calm
            /\ pub'.shown = pub.shown
        BY <4>1, <4>2 DEF PubTypes
      <4> QED
        BY <4>2, <4>3
    <3>2. (pub.calm /\ relToAbsIdx = Reference(chanKeep)) => ShownUpTo(nChan)'
      <4> SUFFICES ASSUME pub.calm, relToAbsIdx = Reference(chanKeep)
                   PROVE  ShownUpTo(nChan)'
        OBVIOUS
      <4>1. ShownUpTo(pub.rel) /\ nChan = Cardinality(chanKeep)
        BY <3>1
      <4>2. /\ chanKeep \in SUBSET Channels /\ nChan \in Nat /\ pub.rel \in Nat
            /\ pub.rel >= Cardinality(chanKeep) /\ nChan >= Cardinality(chanKeep)
        BY <1>0, <3>1, <4>1 DEF MapTypes, PubTypes
      <4>3. \A what, c, rel :
              Shows(chanKeep, pub.rel, what, c, rel) <=> Shows(chanKeep, nChan, what, c, rel)
        BY <4>2, ShownAll
      <4> QED
        BY <2>1, <3>1, <4>1, <4>3 DEF ShownUpTo
    <3> QED
      BY <2>1, <2>2, <3>1, <3>2
  <2> QED
    BY <2>1, <2>3, <2>4, <2>5, <2>6, <2>7 DEF Publish
<1>8. CASE QueueChans \/ Receiver(StorePoint) \/ UNCHANGED mapVars
           \/ Network(SendChans) \/ Network(PollChans) \/ Network(LoseAnswer)
  <2>1. UNCHANGED <<chanKeep, nChan, relToAbsIdx, upd, pub>>
    BY <1>8 DEF QueueChans, Receiver, StorePoint, Network, mapVars, mapData
  <2> QED
    BY <1>3, <2>1
<1> QED
  BY <1>1, <1>4, <1>5, <1>6, <1>7, <1>8 DEF MapNext

\* Publishing that no update falls into shows, with a map that is right, every channel
\* kept with its points, raw and scaled, and amplitude and phase of every pair kept, each
\* from the buffer the channel is in.
THEOREM ShowsWhatIsKept == MapSpec => []PublishesKept
<1>1. MapInv /\ PubInv => PublishesKept
  <2> SUFFICES ASSUME MapTypes, PubInv, pub.at = "end", pub.calm,
                      relToAbsIdx = Reference(chanKeep)
               PROVE  pub.shown =
                        {<<what, c, Rank(c, chanKeep)>> : what \in {"raw", "scaled"}, c \in chanKeep}
                        \union {<<"polar", c, Rank(c, chanKeep)>> :
                                  c \in {d \in chanKeep : d % 2 = 0 /\ d + 1 \in chanKeep}}
    BY DEF PublishesKept, MapInv
  <2>1. /\ ShownUpTo(nChan) /\ nChan = Cardinality(chanKeep) /\ nChan \in Nat
        /\ chanKeep \in SUBSET Channels /\ pub.shown \in SUBSET Triples
    BY DEF PubInv, PubTypes, MapTypes
  <2>2. ASSUME NEW what \in {"raw", "scaled", "polar"}, NEW c \in Channels, NEW rel \in Channels
        PROVE  <<what, c, rel>> \in pub.shown <=>
                 /\ c \in chanKeep /\ rel = Rank(c, chanKeep)
                 /\ \/ what \in {"raw", "scaled"}
                    \/ what = "polar" /\ c % 2 = 0 /\ c + 1 \in chanKeep
    <3>1. nChan >= Cardinality(chanKeep)
      BY <2>1
    <3>2. Shows(chanKeep, nChan, what, c, rel) <=>
            /\ c \in chanKeep /\ rel = Rank(c, chanKeep)
            /\ \/ what \in {"raw", "scaled"}
               \/ what = "polar" /\ c % 2 = 0 /\ c + 1 \in chanKeep
      BY <2>1, <3>1, ShownAll
    <3> QED
      BY <2>1, <3>2 DEF ShownUpTo
  <2>3. \A c \in chanKeep : c \in Channels /\ Rank(c, chanKeep) \in Channels
    BY <2>1, RankOfKept
  <2> DEFINE plain == {<<what, c, Rank(c, chanKeep)>> : what \in {"raw", "scaled"}, c \in chanKeep}
             polar == {<<"polar", c, Rank(c, chanKeep)>> :
                         c \in {d \in chanKeep : d % 2 = 0 /\ d + 1 \in chanKeep}}
  <2>4. ASSUME NEW y \in pub.shown
        PROVE  y \in plain \union polar
    <3>1. PICK what \in {"raw", "scaled", "polar"}, c \in Channels, rel \in Channels :
            y = <<what, c, rel>>
      BY <2>1 DEF Triples
    <3> QED
      BY <2>2, <3>1
  <2>5. ASSUME NEW y \in plain \union polar
        PROVE  y \in pub.shown
    <3>1. \/ \E what \in {"raw", "scaled"}, c \in chanKeep : y = <<what, c, Rank(c, chanKeep)>>
          \/ \E c \in chanKeep :
               c % 2 = 0 /\ c + 1 \in chanKeep /\ y = <<"polar", c, Rank(c, chanKeep)>>
      OBVIOUS
    <3> QED
      BY <2>2, <2>3, <3>1
  <2> QED
    BY <2>4, <2>5
<1>2. MapInv => MapTypes
  BY DEF MapInv
<1>3. MapTypes /\ PubInv /\ [MapNext]_mapVars => PubInv'
  BY PubInvStep
<1> QED
  BY <1>1, <1>2, <1>3, PubInvInit, MapInductive, PTL DEF MapSpec

--------------------------------------------------------------------------------
(* All types *)

MapLimits ==
  /\ waveAsked \in BOOLEAN /\ rawWaveRead \in BOOLEAN /\ lostWrite \in BOOLEAN
  /\ Len(answers) <= MaxAnswers /\ keepWrites \in 0 .. MaxKeepWrites
  /\ fault \in {"none", "seek", "index"}

\* No step exceeds the bounds of the channel map model ...
LEMMA MapLimitsStep == MapTypes /\ MapLimits /\ [MapNext]_mapVars => MapLimits'
<1> SUFFICES ASSUME MapTypes, MapLimits, [MapNext]_mapVars PROVE MapLimits'
  OBVIOUS
<1> USE DEF MapLimits, mapNet, mapWave
<1>0. /\ answers \in Seq([write : BOOLEAN, value : SUBSET Channels])
      /\ MaxAnswers \in Nat /\ MaxKeepWrites \in Nat
  BY ChannelAssumption DEF MapTypes
<1>1. ASSUME NEW t \in Threads, UpdateMap(t)
      PROVE  MapLimits'
  BY <1>1 DEF UpdateMap, Count, Loop, Seek, SeekTooFar, Fill, Updating
<1>2. CASE WriteChans
  BY <1>0, <1>2 DEF WriteChans
<1>3. CASE QueueChans
  BY <1>3 DEF QueueChans
<1>4. CASE Network(SendChans) \/ Network(PollChans)
  <2>1. Len(answers') <= MaxAnswers
    BY <1>0, <1>4 DEF Network, SendChans, PollChans, Answer
  <2>2. lostWrite' \in BOOLEAN
    BY <1>4 DEF Network, SendChans, PollChans
  <2> QED
    BY <1>4, <2>1, <2>2 DEF Network
<1>5. CASE Network(LoseAnswer)
  <2>1. Len(answers') <= MaxAnswers
    BY <1>0, <1>5 DEF Network, LoseAnswer
  <2>2. lostWrite' \in BOOLEAN
    BY <1>5, Zenon DEF Network, LoseAnswer
  <2> QED
    BY <1>5, <2>1, <2>2 DEF Network
<1>6. CASE Receiver(TakeAnswer)
  <2>1. Len(answers') <= MaxAnswers
    BY <1>0, <1>6 DEF Receiver, TakeAnswer
  <2> QED
    BY <1>6, <2>1 DEF Receiver, TakeAnswer
<1>7. CASE Receiver(TakeReadback)
  BY <1>7 DEF Receiver, TakeReadback
<1>8. CASE Receiver(StorePoint)
  <2>1. waveAsked' \in BOOLEAN /\ rawWaveRead' \in BOOLEAN
    BY <1>8, Zenon DEF Receiver, StorePoint
  <2>2. fault' \in {"none", "seek", "index"}
    BY <1>8 DEF Receiver, StorePoint
  <2> QED
    BY <1>8, <2>1, <2>2 DEF Receiver, StorePoint
<1>9. CASE Publisher(Publish)
  BY <1>9
  DEF Publisher, Publish, AskWave, WaitTimesOut, StartPublishing, PublishChan, PublishUnused, EndPublishing
<1>10. CASE UNCHANGED mapVars
  BY <1>10 DEF mapVars
<1> QED
  BY <1>1, <1>2, <1>3, <1>4, <1>5, <1>6, <1>7, <1>8, <1>9, <1>10 DEF MapNext

\* ... or leaves its types.
LEMMA MapTypesKept == MapSpec => []MapTypeOK
<1>1. MapInit => MapLimits
  <2>1. 0 \in 0 .. MaxKeepWrites /\ Len(<<>>) <= MaxAnswers
    BY ChannelAssumption
  <2> QED
    BY <2>1 DEF MapInit, MapLimits
<1>2. MapTypes /\ PubInv /\ MapLimits => MapTypeOK
  BY DEF MapTypes, PubInv, PubTypes, MapLimits, MapTypeOK, Positions, Stages, Triples
<1>3. MapInv => MapTypes
  BY DEF MapInv
<1> QED
  BY <1>1, <1>2, <1>3, PubInvInit, PubInvStep, MapLimitsStep, MapInductive, PTL DEF MapSpec
================================================================================
