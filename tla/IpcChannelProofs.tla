-------------------------- MODULE IpcChannelProofs --------------------------
(***************************************************************************)
(* Proofs about IpcChannel for any finite set of calls, any capacity of    *)
(* the channel and any sufficient number of request numbers: ChannelInv is *)
(* an invariant, nobody waits for nothing, and the channel implements Rpc. *)
(***************************************************************************)
EXTENDS IpcChannel, FiniteSetTheorems, SequenceTheorems, TLAPS

-----------------------------------------------------------------------------
(* Sequences as the collection of what they hold. *)

LEMMA HeadOff ==
  ASSUME NEW S, NEW s \in Seq(S), s # <<>>
  PROVE  /\ Head(s) \in S /\ Tail(s) \in Seq(S)
         /\ Len(Tail(s)) = Len(s) - 1 /\ Len(s) \in Nat
         /\ \E i \in DOMAIN s : s[i] = Head(s)
         /\ \A i \in DOMAIN Tail(s) : \E k \in DOMAIN s : s[k] = Tail(s)[i]
         /\ \A i \in DOMAIN s : s[i] = Head(s) \/ \E k \in DOMAIN Tail(s) : Tail(s)[k] = s[i]
<1>1. /\ Head(s) \in S /\ Tail(s) \in Seq(S) /\ Len(Tail(s)) = Len(s) - 1
      /\ \A i \in 1 .. Len(Tail(s)) : Tail(s)[i] = s[i + 1]
  BY HeadTailProperties
<1>2. DOMAIN s = 1 .. Len(s) /\ Len(s) \in Nat \ {0} /\ DOMAIN Tail(s) = 1 .. Len(s) - 1
  BY <1>1, LenProperties, EmptySeq
<1>3. Head(s) = s[1]
  BY <1>2
<1>4. ASSUME NEW i \in DOMAIN Tail(s) PROVE \E k \in DOMAIN s : s[k] = Tail(s)[i]
  <2>1. i + 1 \in DOMAIN s /\ s[i + 1] = Tail(s)[i]
    BY <1>1, <1>2
  <2>. QED
    BY <2>1
<1>5. ASSUME NEW i \in DOMAIN s, i # 1 PROVE \E k \in DOMAIN Tail(s) : Tail(s)[k] = s[i]
  <2>1. i - 1 \in DOMAIN Tail(s) /\ Tail(s)[i - 1] = s[i]
    BY <1>1, <1>2, <1>5
  <2>. QED
    BY <2>1
<1>. QED
  BY <1>1, <1>2, <1>3, <1>4, <1>5

LEMMA PutLast ==
  ASSUME NEW S, NEW s \in Seq(S), NEW e \in S
  PROVE  /\ Append(s, e) \in Seq(S) /\ Append(s, e) # <<>>
         /\ Len(Append(s, e)) = Len(s) + 1 /\ Len(s) \in Nat
         /\ s # <<>> => Head(Append(s, e)) = Head(s)
         /\ \E i \in DOMAIN Append(s, e) : Append(s, e)[i] = e
         /\ \A i \in DOMAIN s : \E k \in DOMAIN Append(s, e) : Append(s, e)[k] = s[i]
         /\ \A i \in DOMAIN Append(s, e) :
               Append(s, e)[i] = e \/ \E k \in DOMAIN s : s[k] = Append(s, e)[i]
<1>. DEFINE t == Append(s, e)
<1>1. /\ t \in Seq(S) /\ Len(t) = Len(s) + 1 /\ t[Len(s) + 1] = e
      /\ \A i \in 1 .. Len(s) : t[i] = s[i]
  BY AppendProperties
<1>2. Len(s) \in Nat /\ DOMAIN s = 1 .. Len(s) /\ DOMAIN t = 1 .. Len(s) + 1
  BY <1>1, LenProperties
<1>3. t # <<>>
  BY <1>1, <1>2, EmptySeq
<1>4. s # <<>> => Head(t) = Head(s)
  <2>. HAVE s # <<>>
  <2>1. Len(s) \in Nat \ {0}
    BY EmptySeq
  <2>2. Head(t) = t[1] /\ Head(s) = s[1] /\ t[1] = s[1]
    BY <1>1, <1>3, <2>1
  <2>. QED
    BY <2>2
<1>5. Len(s) + 1 \in DOMAIN t
  BY <1>2
<1>. HIDE DEF t
<1>6. /\ \E i \in DOMAIN t : t[i] = e
      /\ \A i \in DOMAIN s : \E k \in DOMAIN t : t[k] = s[i]
      /\ \A i \in DOMAIN t : t[i] = e \/ \E k \in DOMAIN s : s[k] = t[i]
  <2>1. \E i \in DOMAIN t : t[i] = e
    BY <1>1, <1>5
  <2>2. ASSUME NEW i \in DOMAIN s PROVE \E k \in DOMAIN t : t[k] = s[i]
    <3>1. i \in DOMAIN t /\ t[i] = s[i]
      BY <1>1, <1>2
    <3>. QED
      BY <3>1
  <2>3. ASSUME NEW i \in DOMAIN t, i # Len(s) + 1 PROVE \E k \in DOMAIN s : s[k] = t[i]
    <3>1. i \in DOMAIN s /\ t[i] = s[i]
      BY <1>1, <1>2, <2>3
    <3>. QED
      BY <3>1
  <2>. QED
    BY <1>1, <2>1, <2>2, <2>3
<1>. QED
  BY <1>1, <1>2, <1>3, <1>4, <1>6 DEF t

LEMMA PutKeeps ==
  ASSUME NEW S, NEW s \in Seq(S), NEW e \in S, NEW t, t = Append(s, e), NEW i \in DOMAIN s
  PROVE  \E k \in DOMAIN t : t[k] = s[i]
<1>1. /\ t \in Seq(S) /\ Len(t) = Len(s) + 1
      /\ \A j \in 1 .. Len(s) : t[j] = s[j]
  BY AppendProperties
<1>2. Len(s) \in Nat /\ DOMAIN s = 1 .. Len(s) /\ DOMAIN t = 1 .. Len(s) + 1
  BY <1>1, LenProperties
<1>3. i \in DOMAIN t /\ t[i] = s[i]
  BY <1>1, <1>2
<1>. QED
  BY <1>3

-----------------------------------------------------------------------------
(***************************************************************************)
(* The actions of Next one by one, as a lemma to case on.                  *)
(***************************************************************************)
LEMMA StepCases ==
  ASSUME [Next]_vars
  PROVE  \/ \E c \in Calls : Call(c) \/ Send(c) \/ Abandon(c)
         \/ DropClient
         \/ Take \/ Write \/ WriteFails \/ WriterEnds
         \/ Dispatch \/ \E f \in Frames : Execute(f) \/ Respond(f)
         \/ CoreDies
         \/ Read \/ ReadHuge \/ ReadFails \/ Drain
         \/ UNCHANGED vars
  BY DEF Next, Writer, Serve, Reader

(***************************************************************************)
(* Waking a set of slots touches only those of them that wait.             *)
(***************************************************************************)
LEMMA ReplyWakes ==
  ASSUME TypeOK, NEW C, NEW answer \in Returned, Reply(C, answer)
  PROVE  /\ caller' \in [Calls -> {"idle", "sending", "waiting"} \cup Returned]
         /\ \A c \in Calls : \/ c \in C /\ caller[c] = "waiting" /\ caller'[c] = answer
                             \/ ~(c \in C /\ caller[c] = "waiting") /\ caller'[c] = caller[c]
         /\ Unsent' = Unsent
<1>1. /\ caller' \in [Calls -> {"idle", "sending", "waiting"} \cup Returned]
      /\ \A c \in Calls : \/ c \in C /\ caller[c] = "waiting" /\ caller'[c] = answer
                          \/ ~(c \in C /\ caller[c] = "waiting") /\ caller'[c] = caller[c]
  BY DEF Reply, TypeOK
<1>. QED
  BY <1>1 DEF Unsent, Returned

-----------------------------------------------------------------------------
(***************************************************************************)
(* Types.                                                                  *)
(***************************************************************************)
LEMMA FrameFields ==
  ASSUME NEW f \in Frames
  PROVE  f.id \in Ids /\ f.call \in Calls /\ f = [id |-> f.id, call |-> f.call] /\ f # None
  BY ChannelAssumption DEF Frames

LEMMA NextIdType == ASSUME NEW n \in Nat PROVE n % IdSpace \in Ids
  BY ChannelAssumption DEF Ids

LEMMA TypeStep ==
  ASSUME TypeOK, AnswerInv, [Next]_vars
  PROVE  TypeOK'
<1>1. CASE \E c \in Calls : Call(c) \/ Abandon(c)
  BY <1>1 DEF Call, Abandon, TypeOK, writerVars, coreVars, Returned
<1>2. ASSUME NEW c \in Calls, Send(c) PROVE TypeOK'
  <2>1. caller' \in [Calls -> {"idle", "sending", "waiting"} \cup Returned]
    BY <1>2 DEF Send, TypeOK, Returned
  <2>2. queue \in Seq(Calls) /\ Len(queue) \in Nat /\ QueueSize \in Nat /\ Len(queue) <= QueueSize
    BY LenProperties, ChannelAssumption DEF TypeOK
  <2>3. Append(queue, c) \in Seq(Calls) /\ Len(Append(queue, c)) = Len(queue) + 1
    BY <2>2, PutLast
  <2>4. queue' \in Seq(Calls) /\ Len(queue') <= QueueSize
    BY <1>2, <2>2, <2>3 DEF Send
  <2>. QED
    BY <1>2, <2>1, <2>4 DEF Send, TypeOK, coreVars
<1>3. CASE DropClient \/ WriterEnds \/ ReadHuge \/ ReadFails
  BY <1>3 DEF DropClient, WriterEnds, ReadHuge, ReadFails, TypeOK, callerVars, writerVars, coreVars
<1>4. CASE Take
  <2>1. Head(queue) \in Calls /\ Tail(queue) \in Seq(Calls) /\ Len(Tail(queue)) <= QueueSize
    BY <1>4, HeadOff, ChannelAssumption DEF Take, TypeOK
  <2>2. writing' \in Frames
    BY <1>4, <2>1 DEF Take, TypeOK, Frames
  <2>3. nextId' \in Ids
    <3>1. nextId + 1 \in Nat
      BY ChannelAssumption DEF TypeOK, Ids
    <3>. QED
      BY <1>4, <3>1, NextIdType DEF Take
  <2>4. pending' \in [Ids -> Calls \cup {None}]
    BY <1>4, <2>1 DEF Take, TypeOK
  <2>. QED
    BY <1>4, <2>1, <2>2, <2>3, <2>4 DEF Take, TypeOK, callerVars, coreVars
<1>5. CASE Write
  <2>1. toCore' \in Seq(Frames)
    BY <1>5, PutLast DEF Write, TypeOK
  <2>. QED
    BY <1>5, <2>1 DEF Write, TypeOK, callerVars
<1>6. CASE WriteFails
  <2>1. caller' \in [Calls -> {"idle", "sending", "waiting"} \cup Returned]
    BY <1>6, ReplyWakes DEF WriteFails, Returned
  <2>2. queue' \in Seq(Calls) /\ Len(queue') <= QueueSize
    BY <1>6, EmptySeq, ChannelAssumption DEF WriteFails
  <2>. QED
    BY <1>6, <2>1, <2>2 DEF WriteFails, TypeOK, coreVars
<1>7. CASE Dispatch
  <2>1. Head(toCore) \in Frames /\ toCore' \in Seq(Frames)
    BY <1>7, HeadOff DEF Dispatch, TypeOK
  <2>. QED
    BY <1>7, <2>1 DEF Dispatch, TypeOK, callerVars, writerVars
<1>8. ASSUME NEW f \in Frames, Execute(f) PROVE TypeOK'
  BY <1>8 DEF Execute, TypeOK, callerVars, writerVars
<1>9. ASSUME NEW f \in Frames, Respond(f) PROVE TypeOK'
  <2>1. toClient' \in Seq(Frames)
    BY <1>9, PutLast DEF Respond, TypeOK
  <2>. QED
    BY <1>9, <2>1 DEF Respond, TypeOK, callerVars, writerVars
<1>10. CASE CoreDies
  BY <1>10, EmptySeq DEF CoreDies, TypeOK, callerVars, writerVars
<1>11. CASE Read
  <2>. DEFINE f == Head(toClient)
  <2>1. f \in Frames /\ toClient' \in Seq(Frames) /\ outcome[f.call] # "none"
    BY <1>11, HeadOff DEF Read, TypeOK, AnswerInv
  <2>2. outcome[f.call] \in Returned
    BY <1>11, <2>1, FrameFields DEF Read, TypeOK, Outcomes, Returned
  <2>3. caller' \in [Calls -> {"idle", "sending", "waiting"} \cup Returned]
    BY <1>11, <2>2, ReplyWakes DEF Read
  <2>. QED
    BY <1>11, <2>1, <2>3 DEF Read, TypeOK, writerVars, coreVars
<1>12. CASE Drain
  <2>1. caller' \in [Calls -> {"idle", "sending", "waiting"} \cup Returned]
    BY <1>12, ReplyWakes DEF Drain, Returned
  <2>. QED
    BY <1>12, <2>1 DEF Drain, TypeOK, writerVars, coreVars
<1>13. CASE UNCHANGED vars
  BY <1>13 DEF vars, TypeOK, callerVars, writerVars, coreVars
<1>. QED
  BY <1>1, <1>2, <1>3, <1>4, <1>5, <1>6, <1>7, <1>8, <1>9, <1>10, <1>11, <1>12, <1>13, StepCases

-----------------------------------------------------------------------------
(***************************************************************************)
(* Frames: only Take makes one, and none vanishes but at the reader or     *)
(* with the core.                                                          *)
(***************************************************************************)
LEMMA FlightStep ==
  ASSUME TypeOK, [Next]_vars, NEW f \in Frames, InFlight(f)'
  PROVE  InFlight(f) \/ (Take /\ f = writing')
<1>. f # None
  BY FrameFields
<1>1. CASE Take
  BY <1>1 DEF Take, InFlight, Underway, coreVars
<1>2. CASE Write
  <2>1. \A i \in DOMAIN toCore' : toCore'[i] = writing \/ \E k \in DOMAIN toCore : toCore[k] = toCore'[i]
    BY <1>2, PutLast DEF Write, TypeOK
  <2>. QED
    BY <1>2, <2>1 DEF Write, InFlight, Underway
<1>3. CASE WriteFails
  BY <1>3 DEF WriteFails, InFlight, Underway, coreVars
<1>4. CASE Dispatch
  <2>1. /\ \E i \in DOMAIN toCore : toCore[i] = Head(toCore)
        /\ \A i \in DOMAIN toCore' : \E k \in DOMAIN toCore : toCore[k] = toCore'[i]
    BY <1>4, HeadOff DEF Dispatch, TypeOK
  <2>. QED
    BY <1>4, <2>1 DEF Dispatch, InFlight, Underway, writerVars
<1>5. ASSUME NEW g \in Frames, Respond(g) PROVE InFlight(f)
  <2>1. \A i \in DOMAIN toClient' : toClient'[i] = g \/ \E k \in DOMAIN toClient : toClient[k] = toClient'[i]
    BY <1>5, PutLast DEF Respond, TypeOK
  <2>. QED
    BY <1>5, <2>1 DEF Respond, InFlight, Underway, writerVars
<1>6. CASE CoreDies
  <2>1. \A i \in DOMAIN toCore' : FALSE
    BY <1>6 DEF CoreDies
  <2>. QED
    BY <1>6, <2>1 DEF CoreDies, InFlight, Underway, writerVars
<1>7. CASE Read
  <2>1. \A i \in DOMAIN toClient' : \E k \in DOMAIN toClient : toClient[k] = toClient'[i]
    BY <1>7, HeadOff DEF Read, TypeOK
  <2>. QED
    BY <1>7, <2>1 DEF Read, InFlight, Underway, writerVars, coreVars
<1>8. CASE UNCHANGED <<writing, toCore, jobs, toClient>>
  BY <1>8 DEF InFlight, Underway
<1>9. CASE \/ \E c \in Calls : Call(c) \/ Send(c) \/ Abandon(c)
           \/ DropClient \/ WriterEnds \/ \E g \in Frames : Execute(g)
           \/ ReadHuge \/ ReadFails \/ Drain \/ UNCHANGED vars
  BY <1>8, <1>9 DEF Call, Send, Abandon, DropClient, WriterEnds, Execute, ReadHuge, ReadFails,
     Drain, vars, writerVars, coreVars
<1>. QED
  BY <1>1, <1>2, <1>3, <1>4, <1>5, <1>6, <1>7, <1>9, StepCases

LEMMA WayKept ==
  ASSUME TypeOK, [Next]_vars, NEW f \in Frames, Underway(f), coreUp'
  PROVE  Underway(f)' \/ (Read /\ f = Head(toClient))
<1>1. CASE Write
  <2>0. toCore \in Seq(Frames) /\ writing \in Frames /\ toCore' = Append(toCore, writing)
    BY <1>1 DEF Write, TypeOK
  <2>1. \A i \in DOMAIN toCore : \E k \in DOMAIN toCore' : toCore'[k] = toCore[i]
    BY <2>0, PutLast
  <2>. QED
    BY <1>1, <2>1 DEF Write, Underway
<1>2. CASE Dispatch
  <2>1. \A i \in DOMAIN toCore : toCore[i] = Head(toCore) \/ \E k \in DOMAIN toCore' : toCore'[k] = toCore[i]
    BY <1>2, HeadOff DEF Dispatch, TypeOK
  <2>. QED
    BY <1>2, <2>1 DEF Dispatch, Underway
<1>3. ASSUME NEW g \in Frames, Respond(g) PROVE Underway(f)'
  <2>0. toClient \in Seq(Frames) /\ toClient' = Append(toClient, g)
    BY <1>3 DEF Respond, TypeOK
  <2>1. \A i \in DOMAIN toClient : \E k \in DOMAIN toClient' : toClient'[k] = toClient[i]
    BY <2>0, PutLast
  <2>2. \E i \in DOMAIN toClient' : toClient'[i] = g
    BY <2>0, PutLast
  <2>. QED
    BY <1>3, <2>1, <2>2 DEF Respond, Underway
<1>4. CASE Read
  <2>1. \A i \in DOMAIN toClient : toClient[i] = Head(toClient) \/ \E k \in DOMAIN toClient' : toClient'[k] = toClient[i]
    BY <1>4, HeadOff DEF Read, TypeOK
  <2>. QED
    BY <1>4, <2>1 DEF Read, Underway, coreVars
<1>5. CASE CoreDies
  BY <1>5 DEF CoreDies
<1>6. CASE UNCHANGED <<toCore, jobs, toClient>>
  BY <1>6 DEF Underway
<1>7. CASE \/ \E c \in Calls : Call(c) \/ Send(c) \/ Abandon(c)
           \/ DropClient \/ Take \/ WriteFails \/ WriterEnds \/ \E g \in Frames : Execute(g)
           \/ ReadHuge \/ ReadFails \/ Drain \/ UNCHANGED vars
  BY <1>6, <1>7 DEF Call, Send, Abandon, DropClient, Take, WriteFails, WriterEnds, Execute,
     ReadHuge, ReadFails, Drain, vars, writerVars, coreVars
<1>. QED
  BY <1>1, <1>2, <1>3, <1>4, <1>5, <1>7, StepCases

-----------------------------------------------------------------------------
(***************************************************************************)
(* Numbers.                                                                *)
(***************************************************************************)
LEMMA SmallNumber == ASSUME NEW n \in Nat, n < IdSpace PROVE n % IdSpace = n
  BY ChannelAssumption

LEMMA Wraps == IdSpace % IdSpace = 0
  BY ChannelAssumption

(***************************************************************************)
(* The next number is not among those handed out while one is left.        *)
(***************************************************************************)
LEMMA NewNumber ==
  ASSUME NEW k \in Nat, k < IdSpace
  PROVE  (k + 1) % IdSpace \notin Used(k)
<1>. SUFFICES ASSUME NEW j \in 0 .. k - 1, (j + 1) % IdSpace = (k + 1) % IdSpace PROVE FALSE
  BY DEF Used
<1>1. j + 1 \in Nat /\ j + 1 < IdSpace /\ j + 1 # 0 /\ j + 1 # k + 1 /\ k + 1 \in Nat /\ IdSpace \in Nat
  BY ChannelAssumption
<1>2. (j + 1) % IdSpace = j + 1
  BY <1>1, SmallNumber
<1>3. CASE k + 1 < IdSpace
  <2>1. (k + 1) % IdSpace = k + 1
    BY <1>1, <1>3, SmallNumber
  <2>. QED
    BY <1>1, <1>2, <2>1
<1>4. CASE k + 1 = IdSpace
  BY <1>1, <1>2, <1>4, Wraps
<1>. QED
  BY <1>1, <1>3, <1>4

LEMMA UnsentFinite == IsFiniteSet(Unsent) /\ Cardinality(Unsent) \in Nat
<1>1. Unsent \in SUBSET Calls
  BY DEF Unsent
<1>. QED
  BY <1>1, FS_Subset, FS_CardinalityType, ChannelAssumption

(***************************************************************************)
(* The number Take gives is free: no slot and no frame bears it.           *)
(***************************************************************************)
LEMMA NumberFree ==
  ASSUME TypeOK, NumberInv, queue # <<>>
  PROVE  pending[nextId] = None /\ \A f \in Frames : InFlight(f) => f.id # nextId
<1>1. PICK k \in 0 .. IdSpace :
        /\ k + Len(queue) + Cardinality(Unsent) <= IdSpace
        /\ k < IdSpace => nextId = (k + 1) % IdSpace
        /\ \A f \in Frames : InFlight(f) => f.id \in Used(k)
        /\ \A i \in Ids : pending[i] # None => i \in Used(k)
  BY DEF NumberInv
<1>2. Len(queue) \in Nat \ {0}
  BY EmptySeq DEF TypeOK
<1>3. k \in Nat /\ k < IdSpace
  BY <1>1, <1>2, UnsentFinite, ChannelAssumption
<1>4. nextId \notin Used(k)
  BY <1>1, <1>3, NewNumber
<1>. QED
  BY <1>1, <1>4 DEF TypeOK

(***************************************************************************)
(* A step that hands out no number.                                        *)
(***************************************************************************)
LEMMA NoNewNumber ==
  ASSUME TypeOK, NumberInv, [Next]_vars, ~Take, nextId' = nextId, Len(queue') \in Nat,
         Len(queue') + Cardinality(Unsent') <= Len(queue) + Cardinality(Unsent),
         Cardinality(Unsent') \in Nat,
         \A i \in Ids : pending'[i] # None => pending[i] # None
  PROVE  NumberInv'
<1>1. PICK k \in 0 .. IdSpace :
        /\ k + Len(queue) + Cardinality(Unsent) <= IdSpace
        /\ k < IdSpace => nextId = (k + 1) % IdSpace
        /\ \A f \in Frames : InFlight(f) => f.id \in Used(k)
        /\ \A i \in Ids : pending[i] # None => i \in Used(k)
  BY DEF NumberInv
<1>2. Len(queue) \in Nat
  BY LenProperties DEF TypeOK
<1>3. k + Len(queue') + Cardinality(Unsent') <= IdSpace
  BY <1>1, <1>2, UnsentFinite, ChannelAssumption
<1>4. \A f \in Frames : InFlight(f)' => f.id \in Used(k)
  BY <1>1, FlightStep
<1>5. \A i \in Ids : pending'[i] # None => i \in Used(k)
  BY <1>1
<1>. QED
  BY <1>1, <1>3, <1>4, <1>5 DEF NumberInv

LEMMA NumberStep ==
  ASSUME TypeOK, NumberInv, AnswerInv, [Next]_vars
  PROVE  NumberInv'
<1>. USE UnsentFinite
<1>1. Len(queue) \in Nat /\ queue \in Seq(Calls)
  BY LenProperties DEF TypeOK
<1>2. ASSUME NEW c \in Calls, Send(c) \/ Abandon(c), caller[c] = "sending"
      PROVE  Cardinality(Unsent') = Cardinality(Unsent) - 1
  <2>1. c \in Unsent /\ Unsent' = Unsent \ {c}
    BY <1>2 DEF Send, Abandon, TypeOK, Unsent
  <2>. QED
    BY <2>1, FS_RemoveElement
<1>3. ASSUME NEW c \in Calls, Send(c) PROVE NumberInv'
  <2>1. caller[c] = "sending" /\ nextId' = nextId /\ pending' = pending /\ ~Take
    BY <1>3 DEF Send, Take, callerVars, TypeOK
  <2>2. queue' = Append(queue, c) \/ queue' = queue
    BY <1>3 DEF Send
  <2>3. Len(queue') \in Nat /\ Len(queue') <= Len(queue) + 1
    BY <1>1, <2>2, PutLast
  <2>4. Cardinality(Unsent') = Cardinality(Unsent) - 1 /\ Cardinality(Unsent) # 0
    <3>1. c \in Unsent
      BY <2>1 DEF Unsent
    <3>. QED
      BY <1>2, <1>3, <2>1, <3>1, FS_EmptySet
  <2>5. Cardinality(Unsent') \in Nat /\ Len(queue') + Cardinality(Unsent') <= Len(queue) + Cardinality(Unsent)
    BY <1>1, <2>3, <2>4
  <2>. QED
    BY <2>1, <2>3, <2>5, NoNewNumber
<1>4. ASSUME NEW c \in Calls, Abandon(c) PROVE NumberInv'
  <2>1. nextId' = nextId /\ pending' = pending /\ queue' = queue /\ ~Take
    BY <1>4 DEF Abandon, Take, writerVars, callerVars, TypeOK
  <2>2. CASE caller[c] = "sending"
    <3>1. c \in Unsent
      BY <2>2 DEF Unsent
    <3>2. Cardinality(Unsent') = Cardinality(Unsent) - 1 /\ Cardinality(Unsent) # 0
      BY <1>2, <1>4, <2>2, <3>1, FS_EmptySet
    <3>. QED
      BY <1>1, <2>1, <3>2, NoNewNumber
  <2>3. CASE caller[c] = "waiting"
    <3>1. Unsent' = Unsent
      BY <1>4, <2>3 DEF Abandon, TypeOK, Unsent
    <3>. QED
      BY <1>1, <2>1, <3>1, NoNewNumber
  <2>. QED
    BY <1>4, <2>2, <2>3 DEF Abandon
<1>5. CASE Take
  <2>1. PICK k \in 0 .. IdSpace :
          /\ k + Len(queue) + Cardinality(Unsent) <= IdSpace
          /\ k < IdSpace => nextId = (k + 1) % IdSpace
          /\ \A f \in Frames : InFlight(f) => f.id \in Used(k)
          /\ \A i \in Ids : pending[i] # None => i \in Used(k)
    BY DEF NumberInv
  <2>2. Len(queue') = Len(queue) - 1 /\ Len(queue) # 0 /\ Unsent' = Unsent
    BY <1>5, <1>1, HeadOff, EmptySeq DEF Take, callerVars, Unsent
  <2>3. /\ k \in Nat /\ k < IdSpace /\ k + 1 \in 0 .. IdSpace
        /\ (k + 1) + Len(queue') + Cardinality(Unsent') <= IdSpace
    BY <1>1, <2>1, <2>2, ChannelAssumption
  <2>4. k + 1 < IdSpace => nextId' = ((k + 1) + 1) % IdSpace
    <3>. HAVE k + 1 < IdSpace
    <3>1. nextId = k + 1
      BY <2>1, <2>3, SmallNumber
    <3>. QED
      BY <1>5, <3>1 DEF Take
  <2>5. nextId \in Used(k + 1) /\ Used(k) \subseteq Used(k + 1)
    <3>1. k \in 0 .. (k + 1) - 1 /\ 0 .. k - 1 \subseteq 0 .. (k + 1) - 1
      BY <2>3
    <3>. QED
      BY <2>1, <2>3, <3>1 DEF Used
  <2>6. \A f \in Frames : InFlight(f)' => f.id \in Used(k + 1)
    <3>. TAKE f \in Frames
    <3>. HAVE InFlight(f)'
    <3>1. CASE InFlight(f)
      BY <2>1, <2>5, <3>1
    <3>2. CASE f = writing'
      BY <1>5, <2>5, <3>2 DEF Take
    <3>. QED
      BY <3>1, <3>2, FlightStep
  <2>7. \A i \in Ids : pending'[i] # None => i \in Used(k + 1)
    BY <1>5, <2>1, <2>5 DEF Take, TypeOK
  <2>. QED
    BY <2>3, <2>4, <2>6, <2>7 DEF NumberInv
<1>6. CASE /\ ~Take /\ nextId' = nextId /\ queue' \in {queue, <<>>} /\ Unsent' = Unsent
           /\ \A i \in Ids : pending'[i] # None => pending[i] # None
  <2>1. Len(queue') \in Nat /\ Len(queue') <= Len(queue)
    BY <1>1, <1>6, EmptySeq
  <2>. QED
    BY <1>1, <1>6, <2>1, NoNewNumber
<1>7. CASE WriteFails
  <2>1. Unsent' = Unsent
    BY <1>7, ReplyWakes DEF WriteFails, Returned
  <2>. QED
    BY <1>6, <1>7, <2>1 DEF WriteFails, Take, TypeOK
<1>8. CASE Read
  <2>. DEFINE f == Head(toClient)
  <2>1. f \in Frames /\ outcome[f.call] # "none"
    BY <1>8, HeadOff DEF Read, TypeOK, AnswerInv
  <2>2. outcome[f.call] \in Returned
    BY <1>8, <2>1, FrameFields DEF Read, TypeOK, Outcomes, Returned
  <2>3. Unsent' = Unsent
    BY <1>8, <2>2, ReplyWakes DEF Read
  <2>. QED
    BY <1>6, <1>8, <2>1, <2>3 DEF Read, Take, TypeOK, writerVars
<1>9. CASE Drain
  <2>1. Unsent' = Unsent
    BY <1>9, ReplyWakes DEF Drain, Returned
  <2>. QED
    BY <1>6, <1>9, <2>1 DEF Drain, Take, TypeOK, writerVars
<1>10. ASSUME NEW c \in Calls, Call(c) PROVE NumberInv'
  <2>1. Unsent' = Unsent
    BY <1>10 DEF Call, TypeOK, Unsent
  <2>. QED
    BY <1>6, <1>10, <2>1 DEF Call, Take, callerVars, TypeOK, writerVars
<1>11. CASE \/ DropClient \/ Write \/ WriterEnds \/ Dispatch \/ CoreDies \/ ReadHuge \/ ReadFails
            \/ (\E f \in Frames : Execute(f) \/ Respond(f)) \/ UNCHANGED vars
  <2>1. caller' = caller /\ queue' = queue /\ nextId' = nextId /\ pending' = pending
    BY <1>11 DEF DropClient, Write, WriterEnds, Dispatch, CoreDies, ReadHuge, ReadFails, Execute,
       Respond, vars, callerVars, writerVars, coreVars
  <2>2. Unsent' = Unsent /\ (Take => FALSE)
    <3>1. Take => Len(queue') = Len(queue) - 1
      BY <1>1, HeadOff DEF Take
    <3>. QED
      BY <1>1, <2>1, <3>1 DEF Unsent
  <2>. QED
    BY <1>6, <2>1, <2>2
<1>. QED
  BY <1>3, <1>4, <1>5, <1>7, <1>8, <1>9, <1>10, <1>11, StepCases

-----------------------------------------------------------------------------
(***************************************************************************)
(* Frames and slots agree.                                                 *)
(***************************************************************************)
LEMMA UnsentShrinks ==
  ASSUME TypeOK, AnswerInv, [Next]_vars
  PROVE  Unsent' \subseteq Unsent
<1>1. CASE WriteFails \/ Drain
  BY <1>1, ReplyWakes DEF WriteFails, Drain, Returned
<1>2. CASE Read
  <2>. DEFINE f == Head(toClient)
  <2>1. f \in Frames /\ outcome[f.call] # "none"
    BY <1>2, HeadOff DEF Read, TypeOK, AnswerInv
  <2>2. outcome[f.call] \in Returned
    BY <1>2, <2>1, FrameFields DEF Read, TypeOK, Outcomes, Returned
  <2>. QED
    BY <1>2, <2>2, ReplyWakes DEF Read
<1>3. CASE \E c \in Calls : Call(c) \/ Send(c) \/ Abandon(c)
  BY <1>3 DEF Call, Send, Abandon, TypeOK, Unsent
<1>4. CASE \/ DropClient \/ Take \/ Write \/ WriterEnds \/ Dispatch \/ CoreDies \/ ReadHuge \/ ReadFails
           \/ (\E f \in Frames : Execute(f) \/ Respond(f)) \/ UNCHANGED vars
  <2>1. caller' = caller
    BY <1>4 DEF DropClient, Take, Write, WriterEnds, Dispatch, CoreDies, ReadHuge, ReadFails, Execute,
       Respond, vars, callerVars
  <2>. QED
    BY <2>1 DEF Unsent
<1>. QED
  BY <1>1, <1>2, <1>3, <1>4, StepCases

(***************************************************************************)
(* What the writer does to the slots, and the others do not.               *)
(***************************************************************************)
LEMMA SlotStep ==
  ASSUME TypeOK, [Next]_vars, ~Take, NEW i \in Ids
  PROVE  pending'[i] \in {None, pending[i]}
BY StepCases DEF TypeOK, Call, Send, Abandon, DropClient, Write, WriteFails, WriterEnds, Dispatch,
   Execute, Respond, CoreDies, Read, ReadHuge, ReadFails, Drain, vars, callerVars, writerVars, coreVars

LEMMA MatchStep ==
  ASSUME TypeOK, NumberInv, MatchInv, AnswerInv, [Next]_vars
  PROVE  MatchInv'
<1>1. CASE Take
  <2>1. Head(queue) \in Queued /\ Queued' \subseteq Queued /\ Unsent' = Unsent
    <3>1. queue \in Seq(Calls) /\ queue # <<>> /\ queue' = Tail(queue)
      BY <1>1 DEF Take, TypeOK
    <3>2. Head(queue) \in Queued
      BY <3>1, HeadOff DEF Queued
    <3>3. \A i \in DOMAIN queue' : \E k \in DOMAIN queue : queue[k] = queue'[i]
      BY <3>1, HeadOff
    <3>. QED
      BY <1>1, <3>2, <3>3 DEF Take, Queued, Unsent, callerVars
  <2>2. ASSUME NEW f \in Frames, InFlight(f)'
        PROVE  pending'[f.id] \in {None, f.call} /\ f.call \notin Unsent'
    <3>1. CASE f = writing'
      BY <1>1, <2>1, <3>1 DEF Take, TypeOK, MatchInv
    <3>2. CASE InFlight(f)
      <4>1. f.id # nextId
        BY <1>1, <3>2, NumberFree DEF Take
      <4>2. pending'[f.id] = pending[f.id]
        BY <1>1, <4>1, FrameFields DEF Take, TypeOK
      <4>. QED
        BY <2>1, <3>2, <4>2 DEF MatchInv
    <3>. QED
      BY <2>2, <3>1, <3>2, FlightStep
  <2>. QED
    BY <2>1, <2>2 DEF MatchInv
<1>2. ASSUME ~Take, NEW f \in Frames, InFlight(f)'
      PROVE  pending'[f.id] \in {None, f.call} /\ f.call \notin Unsent'
  <2>1. InFlight(f)
    BY <1>2, FlightStep
  <2>2. pending[f.id] \in {None, f.call} /\ f.call \notin Unsent
    BY <2>1 DEF MatchInv
  <2>3. pending'[f.id] \in {None, pending[f.id]}
    BY <1>2, SlotStep, FrameFields
  <2>. QED
    BY <2>2, <2>3, UnsentShrinks
<1>3. ASSUME ~Take PROVE Queued' \cap Unsent' = {}
  <2>1. ASSUME NEW c \in Calls, Send(c), queue' # queue PROVE Queued' \cap Unsent' = {}
    <3>1. queue \in Seq(Calls) /\ queue' = Append(queue, c) /\ Unsent' = Unsent \ {c}
      BY <2>1 DEF Send, TypeOK, Unsent
    <3>2. \A i \in DOMAIN queue' : queue'[i] = c \/ \E k \in DOMAIN queue : queue[k] = queue'[i]
      BY <3>1, PutLast
    <3>. QED
      BY <3>1, <3>2 DEF Queued, MatchInv
  <2>2. CASE queue' = queue
    <3>1. Queued' = Queued
      BY <2>2 DEF Queued
    <3>. QED
      BY <3>1, UnsentShrinks DEF MatchInv
  <2>3. CASE WriteFails
    <3>1. Queued' = {}
      BY <2>3 DEF WriteFails, Queued
    <3>. QED
      BY <3>1
  <2>4. CASE \/ \E c \in Calls : Call(c) \/ Abandon(c)
             \/ DropClient \/ Write \/ WriterEnds \/ Dispatch \/ CoreDies
             \/ (\E f \in Frames : Execute(f) \/ Respond(f))
             \/ Read \/ ReadHuge \/ ReadFails \/ Drain \/ UNCHANGED vars
    BY <2>2, <2>4 DEF Call, Abandon, DropClient, Write, WriterEnds, Dispatch, CoreDies, Execute,
       Respond, Read, ReadHuge, ReadFails, Drain, vars, writerVars
  <2>. QED
    BY <1>3, <2>1, <2>2, <2>3, <2>4, StepCases
<1>. QED
  BY <1>1, <1>2, <1>3 DEF MatchInv

-----------------------------------------------------------------------------
(***************************************************************************)
(* Answers, and the reader's reasons to leave.                             *)
(***************************************************************************)
LEMMA OutcomeStays ==
  ASSUME TypeOK, [Next]_vars, NEW c \in Calls, outcome[c] # "none"
  PROVE  outcome'[c] = outcome[c]
<1>1. ASSUME NEW f \in Frames, Execute(f) PROVE outcome'[c] = outcome[c]
  BY <1>1, FrameFields DEF Execute, TypeOK
<1>2. CASE \A f \in Frames : ~Execute(f)
  BY <1>2, StepCases DEF Call, Send, Abandon, DropClient, Take, Write, WriteFails, WriterEnds,
     Dispatch, Respond, CoreDies, Read, ReadHuge, ReadFails, Drain, vars, coreVars
<1>. QED
  BY <1>1, <1>2

LEMMA AnswerStep ==
  ASSUME TypeOK, AnswerInv, [Next]_vars
  PROVE  AnswerInv'
<1>1. ASSUME NEW i \in DOMAIN toClient
      PROVE  toClient[i].call \in Calls /\ outcome'[toClient[i].call] # "none"
  <2>1. toClient[i] \in Frames
    BY LenProperties, ElementOfSeq DEF TypeOK
  <2>. QED
    BY <2>1, FrameFields, OutcomeStays DEF AnswerInv
<1>2. CASE toClient' = toClient
  BY <1>1, <1>2 DEF AnswerInv
<1>3. CASE Read
  <2>1. \A i \in DOMAIN toClient' : \E k \in DOMAIN toClient : toClient[k] = toClient'[i]
    BY <1>3, HeadOff DEF Read, TypeOK
  <2>. QED
    BY <1>1, <2>1 DEF AnswerInv
<1>4. ASSUME NEW f \in Frames, Respond(f) PROVE AnswerInv'
  <2>1. \A i \in DOMAIN toClient' : toClient'[i] = f \/ \E k \in DOMAIN toClient : toClient[k] = toClient'[i]
    BY <1>4, PutLast DEF Respond, TypeOK
  <2>2. outcome'[f.call] # "none"
    BY <1>4 DEF Respond
  <2>. QED
    BY <1>1, <2>1, <2>2 DEF AnswerInv
<1>5. CASE ~Read /\ \A f \in Frames : ~Respond(f)
  BY <1>2, <1>5, StepCases DEF Call, Send, Abandon, DropClient, Take, Write, WriteFails, WriterEnds,
     Dispatch, Execute, CoreDies, ReadHuge, ReadFails, Drain, vars
<1>. QED
  BY <1>3, <1>4, <1>5

(***************************************************************************)
(* An oversized answer at the head of the socket stays there once the      *)
(* reader has left.                                                        *)
(***************************************************************************)
LEMMA HugeStays ==
  ASSUME TypeOK, [Next]_vars, reader # "reading",
         toClient # <<>>, outcome[Head(toClient).call] = "huge"
  PROVE  toClient' # <<>> /\ outcome'[Head(toClient').call] = "huge"
<1>1. Head(toClient).call \in Calls
  BY HeadOff, FrameFields DEF TypeOK
<1>2. outcome'[Head(toClient).call] = "huge"
  BY <1>1, OutcomeStays
<1>3. CASE toClient' = toClient
  BY <1>2, <1>3
<1>4. ASSUME NEW f \in Frames, Respond(f) PROVE toClient' # <<>> /\ Head(toClient') = Head(toClient)
  <2>1. toClient \in Seq(Frames) /\ toClient' = Append(toClient, f)
    BY <1>4 DEF Respond, TypeOK
  <2>. QED
    BY <2>1, PutLast
<1>5. CASE \A f \in Frames : ~Respond(f)
  BY <1>3, <1>5, StepCases DEF Call, Send, Abandon, DropClient, Take, Write, WriteFails, WriterEnds,
     Dispatch, Execute, CoreDies, Read, ReadHuge, ReadFails, Drain, vars
<1>. QED
  BY <1>2, <1>4, <1>5

LEMMA CutStep ==
  ASSUME TypeOK, CutInv, [Next]_vars
  PROVE  CutInv'
<1>1. CASE reader # "reading"
  <2>1. CASE ~coreUp
    <3>1. ~coreUp'
      BY <2>1, StepCases DEF Call, Send, Abandon, DropClient, Take, Write, WriteFails, WriterEnds,
         Dispatch, Execute, Respond, CoreDies, Read, ReadHuge, ReadFails, Drain, vars, coreVars
    <3>. QED
      BY <3>1 DEF CutInv
  <2>. QED
    BY <1>1, <2>1, HugeStays DEF CutInv
<1>2. CASE reader' = "reading"
  BY <1>2 DEF CutInv
<1>3. CASE ReadHuge \/ ReadFails
  BY <1>3 DEF ReadHuge, ReadFails, CutInv, coreVars
<1>4. CASE reader = "reading" /\ ~ReadHuge /\ ~ReadFails
  BY <1>2, <1>4, StepCases DEF Call, Send, Abandon, DropClient, Take, Write, WriteFails, WriterEnds,
     Dispatch, Execute, Respond, CoreDies, Read, Drain, vars
<1>. QED
  BY <1>1, <1>3, <1>4 DEF TypeOK

-----------------------------------------------------------------------------
(***************************************************************************)
(* Waiting.  A slot that stays in pending stays good for its caller.       *)
(***************************************************************************)
Good(i, c) ==
    \/ writing = [id |-> i, call |-> c]
    \/ reader # "gone" /\ (~coreUp \/ Underway([id |-> i, call |-> c]))
    \/ Cut

LEMMA SlotStaysGood ==
  ASSUME TypeOK, CutInv, [Next]_vars, NEW i \in Ids, NEW c \in Calls,
         Good(i, c), pending'[i] = c
  PROVE  Good(i, c)'
<1>. DEFINE f == [id |-> i, call |-> c]
<1>1. f \in Frames /\ f.id = i /\ f # None /\ c # None
  BY ChannelAssumption DEF Frames
<1>2. CASE Cut
  <2>1. reader' = "gone"
    BY <1>2, StepCases DEF Cut, Call, Send, Abandon, DropClient, Take, Write, WriteFails, WriterEnds,
       Dispatch, Execute, Respond, CoreDies, Read, ReadHuge, ReadFails, Drain, vars
  <2>. QED
    BY <1>2, <2>1, HugeStays DEF Cut, Good
<1>3. CASE reader # "gone" /\ (~coreUp \/ Underway(f))
  <2>1. reader' # "gone"
    <3>1. ~Drain
      BY <1>1 DEF Drain
    <3>. QED
      BY <1>3, <3>1, StepCases DEF Call, Send, Abandon, DropClient, Take, Write, WriteFails, WriterEnds,
         Dispatch, Execute, Respond, CoreDies, Read, ReadHuge, ReadFails, vars
  <2>2. ~(Read /\ f = Head(toClient))
    BY <1>1 DEF Read, TypeOK
  <2>3. ~coreUp => ~coreUp'
    BY StepCases DEF Call, Send, Abandon, DropClient, Take, Write, WriteFails, WriterEnds,
       Dispatch, Execute, Respond, CoreDies, Read, ReadHuge, ReadFails, Drain, vars, coreVars
  <2>4. ~coreUp' \/ Underway(f)'
    BY <1>1, <1>3, <2>2, <2>3, WayKept
  <2>. QED
    BY <2>1, <2>4 DEF Good
<1>4. CASE writing = f
  <2>1. CASE Write
    <3>1. toCore \in Seq(Frames) /\ toCore' = Append(toCore, f) /\ coreUp' /\ reader' = reader
          /\ toClient' = toClient /\ outcome' = outcome
      BY <1>4, <2>1 DEF Write, TypeOK
    <3>2. \E k \in DOMAIN toCore' : toCore'[k] = f
      BY <1>1, <3>1, PutLast
    <3>3. Underway(f)'
      BY <3>2 DEF Underway
    <3>4. reader' # "gone" \/ Cut'
      BY <2>1, <3>1 DEF CutInv, Cut, Write
    <3>. QED
      BY <3>3, <3>4 DEF Good
  <2>2. ~WriteFails
    BY <1>1, <1>4 DEF WriteFails, TypeOK
  <2>3. CASE ~Write
    <3>1. writing' = f
      BY <1>1, <1>4, <2>2, <2>3, StepCases DEF Call, Send, Abandon, DropClient, Take, WriterEnds,
         Dispatch, Execute, Respond, CoreDies, Read, ReadHuge, ReadFails, Drain, vars, writerVars
    <3>. QED
      BY <3>1 DEF Good
  <2>. QED
    BY <2>1, <2>3
<1>. QED
  BY <1>2, <1>3, <1>4 DEF Good

(***************************************************************************)
(* A caller loses its slot only when it is woken.                          *)
(***************************************************************************)
LEMMA SlotKept ==
  ASSUME TypeOK, NumberInv, AnswerInv, [Next]_vars, NEW i \in Ids, NEW c \in Calls,
         pending[i] = c, caller'[c] = "waiting"
  PROVE  pending'[i] = c
<1>. c # None
  BY ChannelAssumption
<1>1. CASE Take
  BY <1>1, NumberFree DEF Take, TypeOK
<1>2. CASE WriteFails
  <2>1. c \in Queued \cup {pending[writing.id]} => caller'[c] # "waiting"
    BY <1>2, ReplyWakes DEF WriteFails, Returned
  <2>. QED
    BY <1>2, <2>1 DEF WriteFails, TypeOK
<1>3. CASE Read
  <2>. DEFINE f == Head(toClient)
  <2>1. f \in Frames /\ outcome[f.call] # "none"
    BY <1>3, HeadOff DEF Read, TypeOK, AnswerInv
  <2>2. outcome[f.call] \in Returned
    BY <1>3, <2>1, FrameFields DEF Read, TypeOK, Outcomes, Returned
  <2>3. pending[f.id] = c => caller'[c] # "waiting"
    BY <1>3, <2>2, ReplyWakes DEF Read, Returned
  <2>. QED
    BY <1>3, <2>3 DEF Read, TypeOK
<1>4. CASE Drain
  <2>1. c \in Slots
    BY DEF Slots
  <2>. QED
    BY <1>4, <2>1, ReplyWakes DEF Drain, Returned
<1>5. CASE ~Take /\ ~WriteFails /\ ~Read /\ ~Drain
  BY <1>5, StepCases DEF Call, Send, Abandon, DropClient, Write, WriterEnds, Dispatch, Execute,
     Respond, CoreDies, ReadHuge, ReadFails, vars, callerVars, writerVars, coreVars
<1>. QED
  BY <1>1, <1>2, <1>3, <1>4, <1>5

LEMMA WaitStep ==
  ASSUME TypeOK, NumberInv, AnswerInv, CutInv, NobodyWaitsForNothing, [Next]_vars
  PROVE  NobodyWaitsForNothing'
<1>. SUFFICES ASSUME NEW c \in Calls, caller'[c] = "waiting"
              PROVE  \/ c \in Queued' /\ accepting'
                     \/ \E i \in Ids : pending'[i] = c /\ Good(i, c)'
  BY DEF NobodyWaitsForNothing, Good
<1>1. CASE Send(c)
  <2>1. accepting' /\ queue \in Seq(Calls) /\ queue' = Append(queue, c)
    BY <1>1 DEF Send, TypeOK
  <2>2. \E k \in DOMAIN queue' : queue'[k] = c
    BY <2>1, PutLast
  <2>. QED
    BY <2>1, <2>2 DEF Queued
<1>2. CASE ~Send(c)
  <2>1. caller[c] = "waiting"
    <3>1. CASE WriteFails \/ Drain
      BY <3>1, ReplyWakes DEF WriteFails, Drain, Returned
    <3>2. CASE Read
      <4>. DEFINE f == Head(toClient)
      <4>1. f \in Frames /\ outcome[f.call] # "none"
        BY <3>2, HeadOff DEF Read, TypeOK, AnswerInv
      <4>2. outcome[f.call] \in Returned
        BY <3>2, <4>1, FrameFields DEF Read, TypeOK, Outcomes, Returned
      <4>. QED
        BY <3>2, <4>2, ReplyWakes DEF Read
    <3>3. CASE ~WriteFails /\ ~Drain /\ ~Read
      BY <1>2, <3>3, StepCases DEF Call, Send, Abandon, DropClient, Take, Write, WriterEnds, Dispatch,
         Execute, Respond, CoreDies, ReadHuge, ReadFails, vars, callerVars, TypeOK
    <3>. QED
      BY <3>1, <3>2, <3>3
  <2>2. ASSUME NEW i \in Ids, pending[i] = c, Good(i, c)
        PROVE  pending'[i] = c /\ Good(i, c)'
    BY <2>2, SlotKept, SlotStaysGood
  <2>3. CASE c \in Queued /\ accepting
    <3>1. PICK k \in DOMAIN queue : queue[k] = c
      BY <2>3 DEF Queued
    <3>2. CASE Take
      <4>1. queue \in Seq(Calls) /\ queue # <<>> /\ queue' = Tail(queue) /\ accepting'
        BY <2>3, <3>2 DEF Take, TypeOK
      <4>2. c = Head(queue) \/ \E m \in DOMAIN queue' : queue'[m] = c
        BY <3>1, <4>1, HeadOff
      <4>3. CASE c = Head(queue)
        <5>1. nextId \in Ids /\ pending'[nextId] = c /\ writing' = [id |-> nextId, call |-> c]
          BY <3>2, <4>3 DEF Take, TypeOK
        <5>. QED
          BY <5>1 DEF Good
      <4>. QED
        BY <4>1, <4>2, <4>3 DEF Queued
    <3>3. ~WriteFails
      <4>. SUFFICES ASSUME WriteFails PROVE FALSE
        OBVIOUS
      <4>1. caller'[c] = "failed"
        BY <2>1, <2>3, ReplyWakes DEF WriteFails, Returned
      <4>. QED
        BY <4>1
    <3>4. ~WriterEnds
      BY <3>1 DEF WriterEnds
    <3>5. ASSUME NEW d \in Calls, Send(d) PROVE c \in Queued' /\ accepting'
      <4>1. queue \in Seq(Calls) /\ accepting' /\ queue' \in {queue, Append(queue, d)}
        BY <2>3, <3>5 DEF Send, TypeOK
      <4>2. CASE queue' = queue
        BY <3>1, <4>1, <4>2 DEF Queued
      <4>3. CASE queue' = Append(queue, d)
        <5>1. queue \in Seq(Calls) /\ queue' = Append(queue, d)
          BY <4>1, <4>3
        <5>2. d \in Calls
          OBVIOUS
        <5>3. \E m \in DOMAIN queue' : queue'[m] = c
          BY <3>1, <5>1, <5>2, PutKeeps
        <5>. QED
          BY <4>1, <5>3 DEF Queued
      <4>. QED
        BY <4>1, <4>2, <4>3
    <3>6. CASE ~Take /\ \A d \in Calls : ~Send(d)
      <4>1. queue' = queue /\ accepting' = accepting
        BY <3>3, <3>4, <3>6, StepCases DEF Call, Abandon, DropClient, Write, Dispatch, Execute, Respond,
           CoreDies, Read, ReadHuge, ReadFails, Drain, vars, writerVars
      <4>. QED
        BY <2>3, <4>1 DEF Queued
    <3>. QED
      BY <3>2, <3>5, <3>6
  <2>. QED
    BY <2>1, <2>2, <2>3 DEF NobodyWaitsForNothing, Good
<1>. QED
  BY <1>1, <1>2

-----------------------------------------------------------------------------
LEMMA ChannelInit == Init => ChannelInv
<1>. SUFFICES ASSUME Init PROVE ChannelInv
  OBVIOUS
<1>1. TypeOK
  <2>1. 1 % IdSpace \in Ids /\ <<>> \in Seq(Calls) /\ <<>> \in Seq(Frames) /\ Len(queue) <= QueueSize
    BY NextIdType, EmptySeq, ChannelAssumption DEF Init
  <2>. QED
    BY <2>1 DEF Init, TypeOK
<1>2. Queued = {} /\ Unsent = Calls /\ \A f \in Frames : ~InFlight(f)
  BY FrameFields DEF Init, Queued, Unsent, InFlight, Underway
<1>3. NumberInv
  <2>1. 0 \in 0 .. IdSpace /\ 0 + Len(queue) + Cardinality(Unsent) <= IdSpace
    BY <1>2, UnsentFinite, EmptySeq, ChannelAssumption DEF Init
  <2>2. nextId = (0 + 1) % IdSpace /\ \A i \in Ids : pending[i] = None
    BY DEF Init
  <2>. QED
    BY <1>2, <2>1, <2>2 DEF NumberInv
<1>4. MatchInv /\ AnswerInv /\ CutInv /\ NobodyWaitsForNothing
  BY <1>2 DEF Init, MatchInv, AnswerInv, CutInv, NobodyWaitsForNothing
<1>. QED
  BY <1>1, <1>3, <1>4 DEF ChannelInv

(***************************************************************************)
(* ChannelInv is an invariant of the channel.                              *)
(***************************************************************************)
THEOREM Inductive == Spec => []ChannelInv
<1>1. ChannelInv /\ [Next]_vars => ChannelInv'
  BY TypeStep, NumberStep, MatchStep, AnswerStep, CutStep, WaitStep DEF ChannelInv
<1>. QED
  BY <1>1, ChannelInit, PTL DEF Spec

(***************************************************************************)
(* Everything has its type; the channel never holds more than it may.      *)
(***************************************************************************)
THEOREM TypeCorrect == Spec => []TypeOK
<1>1. ChannelInv => TypeOK
  BY DEF ChannelInv
<1>. QED
  BY <1>1, Inductive, PTL

(***************************************************************************)
(* A waiting caller's slot is in the channel, under the number of a frame  *)
(* that is under way, or left for the reader to drain.                     *)
(***************************************************************************)
THEOREM NobodyIsForgotten == Spec => []NobodyWaitsForNothing
<1>1. ChannelInv => NobodyWaitsForNothing
  BY DEF ChannelInv
<1>. QED
  BY <1>1, Inductive, PTL

-----------------------------------------------------------------------------
(***************************************************************************)
(* The channel implements Rpc.  What a caller knows and what became of its *)
(* request, seen through the mapping.                                      *)
(***************************************************************************)
LEMMA KnownOf ==
  ASSUME NEW c \in Calls
  PROVE  /\ Known[c] = IF caller[c] = "sending" THEN "waiting" ELSE caller[c]
         /\ Known'[c] = IF caller'[c] = "sending" THEN "waiting" ELSE caller'[c]
         /\ Made[c] = IF outcome[c] = "huge" THEN "ok" ELSE outcome[c]
         /\ Made'[c] = IF outcome'[c] = "huge" THEN "ok" ELSE outcome'[c]
  BY DEF Known, Made

LEMMA KnownEqual ==
  /\ Known = [c \in Calls |-> Known[c]] /\ Known' = [c \in Calls |-> Known'[c]]
  /\ Made = [c \in Calls |-> Made[c]] /\ Made' = [c \in Calls |-> Made'[c]]
  BY DEF Known, Made

(***************************************************************************)
(* Waking any slots with a failure is a step of Rpc.                       *)
(***************************************************************************)
LEMMA FailureIsTold ==
  ASSUME NEW W \in SUBSET Calls, outcome' = outcome,
         \A c \in W : Known[c] = "waiting" /\ Known'[c] = "failed",
         \A c \in Calls \ W : Known'[c] = Known[c]
  PROVE  Promise!Next
<1>1. Known' = [c \in Calls |-> IF c \in W THEN "failed" ELSE Known[c]]
  BY KnownEqual
<1>2. Made' = Made
  BY DEF Made
<1>3. Promise!Fail(W)
  BY <1>1, <1>2 DEF Promise!Fail
<1>. QED
  BY <1>3 DEF Promise!Next

LEMMA WakingFails ==
  ASSUME TypeOK, NEW C, Reply(C, "failed"), outcome' = outcome
  PROVE  Promise!Next
<1>. DEFINE W == {c \in Calls : c \in C /\ caller[c] = "waiting"}
<1>1. \A c \in W : Known[c] = "waiting" /\ Known'[c] = "failed"
  BY ReplyWakes, KnownOf DEF Returned
<1>2. \A c \in Calls \ W : Known'[c] = Known[c]
  BY ReplyWakes, KnownOf DEF Returned
<1>. QED
  BY <1>1, <1>2, FailureIsTold

LEMMA PromiseStep ==
  ASSUME ChannelInv, [Next]_vars
  PROVE  [Promise!Next]_(Promise!vars)
<1>. TypeOK /\ MatchInv /\ AnswerInv
  BY DEF ChannelInv
<1>1. CASE caller' = caller /\ outcome' = outcome
  BY <1>1 DEF Promise!vars, Known, Made
<1>2. ASSUME NEW c \in Calls, Call(c) PROVE Promise!Next
  <2>1. Known[c] = "idle" /\ Known' = [Known EXCEPT ![c] = "waiting"] /\ Made' = Made
    BY <1>2 DEF Call, TypeOK, coreVars, Known, Made
  <2>. QED
    BY <2>1 DEF Promise!Next, Promise!Ask
<1>3. ASSUME NEW c \in Calls, Send(c) PROVE [Promise!Next]_(Promise!vars)
  <2>1. outcome' = outcome /\ caller[c] = "sending"
    BY <1>3 DEF Send, coreVars
  <2>2. CASE caller' = [caller EXCEPT ![c] = "waiting"]
    <3>1. \A d \in Calls : Known'[d] = Known[d]
      BY <2>1, <2>2, KnownOf DEF TypeOK
    <3>2. Known' = Known /\ Made' = Made
      BY <2>1, <3>1, KnownEqual DEF Made
    <3>. QED
      BY <3>2 DEF Promise!vars
  <2>3. CASE caller' = [caller EXCEPT ![c] = "failed"]
    <3>1. Known[c] = "waiting" /\ Known'[c] = "failed" /\ \A d \in Calls \ {c} : Known'[d] = Known[d]
      BY <2>1, <2>3, KnownOf DEF TypeOK
    <3>. QED
      BY <2>1, <3>1, FailureIsTold
  <2>. QED
    BY <1>3, <2>2, <2>3 DEF Send
<1>4. ASSUME NEW c \in Calls, Abandon(c) PROVE Promise!Next
  <2>1. outcome' = outcome
    BY <1>4 DEF Abandon, coreVars
  <2>2. Known[c] = "waiting" /\ Known'[c] = "failed" /\ \A d \in Calls \ {c} : Known'[d] = Known[d]
    BY <1>4, KnownOf DEF Abandon, TypeOK
  <2>. QED
    BY <2>1, <2>2, FailureIsTold
<1>5. CASE WriteFails \/ Drain
  BY <1>5, WakingFails DEF WriteFails, Drain, coreVars
<1>6. ASSUME NEW f \in Frames, Execute(f) PROVE Promise!Next
  <2>1. f.call \in Calls /\ caller[f.call] # "idle"
    BY <1>6, FrameFields DEF Execute, MatchInv, InFlight, Underway, Unsent
  <2>2. PICK o \in Outcomes : outcome' = [outcome EXCEPT ![f.call] = o]
    BY <1>6 DEF Execute
  <2>. DEFINE m == IF o = "huge" THEN "ok" ELSE o
  <2>3. m \in Promise!Outcomes /\ Made[f.call] = "none" /\ Known[f.call] # "idle"
    BY <1>6, <2>1, KnownOf DEF Execute, Outcomes, Promise!Outcomes
  <2>4. Made' = [Made EXCEPT ![f.call] = m]
    BY <2>1, <2>2 DEF Made, TypeOK
  <2>5. Known' = Known
    BY <1>6 DEF Execute, Known, callerVars
  <2>6. Promise!Execute(f.call)
    BY <2>3, <2>4, <2>5 DEF Promise!Execute
  <2>. QED
    BY <2>1, <2>6 DEF Promise!Next
<1>7. CASE Read
  <2>. DEFINE f == Head(toClient)
  <2>1. f \in Frames /\ (\E i \in DOMAIN toClient : toClient[i] = f)
    BY <1>7, HeadOff DEF Read, TypeOK
  <2>2. pending[f.id] \in {None, f.call} /\ f.call \in Calls /\ None \notin Calls
    BY <2>1, FrameFields, ChannelAssumption DEF MatchInv, InFlight, Underway
  <2>3. outcome[f.call] \in {"ok", "error"}
    BY <1>7, <2>1, <2>2 DEF Read, AnswerInv, TypeOK, Outcomes
  <2>4. outcome' = outcome
    BY <1>7 DEF Read, coreVars
  <2>5. /\ caller' \in [Calls -> {"idle", "sending", "waiting"} \cup Returned]
        /\ \A c \in Calls :
             \/ c = pending[f.id] /\ caller[c] = "waiting" /\ caller'[c] = outcome[f.call]
             \/ ~(c = pending[f.id] /\ caller[c] = "waiting") /\ caller'[c] = caller[c]
    BY <1>7, <2>3, ReplyWakes DEF Read, Returned
  <2>6. CASE pending[f.id] = f.call /\ caller[f.call] = "waiting"
    <3>1. /\ Known[f.call] = "waiting" /\ Made[f.call] # "none" /\ Made' = Made
          /\ Known'[f.call] = Made[f.call] /\ \A d \in Calls \ {f.call} : Known'[d] = Known[d]
      BY <2>2, <2>3, <2>4, <2>5, <2>6, KnownOf DEF Made
    <3>2. Known' = [Known EXCEPT ![f.call] = Made[f.call]]
      BY <3>1, KnownEqual
    <3>3. Promise!Answer(f.call)
      BY <3>1, <3>2 DEF Promise!Answer
    <3>. QED
      BY <2>2, <3>3 DEF Promise!Next
  <2>7. CASE ~(pending[f.id] = f.call /\ caller[f.call] = "waiting")
    <3>1. \A c \in Calls : caller'[c] = caller[c]
      BY <2>2, <2>5, <2>7
    <3>2. Known' = Known /\ Made' = Made
      BY <2>4, <3>1 DEF Known, Made
    <3>. QED
      BY <3>2 DEF Promise!vars
  <2>. QED
    BY <2>6, <2>7
<1>8. CASE \/ DropClient \/ Take \/ Write \/ WriterEnds \/ Dispatch \/ CoreDies \/ ReadHuge \/ ReadFails
           \/ (\E f \in Frames : Respond(f)) \/ UNCHANGED vars
  BY <1>1, <1>8 DEF DropClient, Take, Write, WriterEnds, Dispatch, CoreDies, ReadHuge, ReadFails,
     Respond, vars, callerVars, coreVars
<1>. QED
  BY <1>2, <1>3, <1>4, <1>5, <1>6, <1>7, <1>8, StepCases

(***************************************************************************)
(* A request is executed at most once, and an answer is the outcome of the *)
(* very request, however answers, failures and deaths interleave.          *)
(***************************************************************************)
THEOREM ImplementsRpc == Spec => PromiseKept
<1>1. Init => Promise!Init
  BY DEF Init, Promise!Init, Known, Made
<1>2. ChannelInv /\ [Next]_vars => [Promise!Next]_(Promise!vars)
  BY PromiseStep
<1>. QED
  BY <1>1, <1>2, Inductive, PTL DEF Spec, PromiseKept, Promise!Spec
=============================================================================
