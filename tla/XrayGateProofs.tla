--------------------------- MODULE XrayGateProofs ---------------------------
(***************************************************************************)
(* Proofs about XrayGate for any set of connections and instances: GateInv *)
(* is an invariant, and the safety properties follow from it.  One lemma   *)
(* per conjunct of GateInv says that a step preserves it.                  *)
(***************************************************************************)
EXTENDS XrayGate, FiniteSetTheorems, TLAPS

(***************************************************************************)
(* The actions of Next one by one, as a lemma to case on.                  *)
(***************************************************************************)
LEMMA StepCases ==
  ASSUME [Next]_vars
  PROVE  \/ \E c \in Conns :
              \/ Accept(c) \/ Track(c) \/ Count(c) \/ Touch(c) \/ Ensure(c)
              \/ Create(c) \/ Launch(c) \/ Dial(c) \/ TrackUpstream(c)
              \/ RelayEnds(c) \/ Uncount(c) \/ Finish(c)
         \/ IdlePasses
         \/ SweepLooksAtActive \/ SweepLooksAtLastUse \/ SweepTakes
         \/ SweepCloses \/ SweepStops
         \/ CloseMarks \/ CloseListeners \/ CloseConns \/ CloseInstance
         \/ UNCHANGED vars
  BY DEF Next, Handle, Proceed, Sweep, Close

(***************************************************************************)
(* What an action that moves one handler does to pc.                       *)
(***************************************************************************)
LEMMA GotoMoves ==
  ASSUME TypeOK, NEW c \in Conns, NEW from, NEW to \in HandlerLabels, Goto(c, from, to)
  PROVE  /\ pc[c] = from
         /\ pc' \in [Conns -> HandlerLabels]
         /\ pc'[c] = to
         /\ \A d \in Conns \ {c} : pc'[d] = pc[d]
  BY DEF TypeOK, Goto

(***************************************************************************)
(* Counted is finite, and gains or loses the handler that moves.           *)
(***************************************************************************)
LEMMA CountedFinite == IsFiniteSet(Counted) /\ Cardinality(Counted) \in Nat
<1>1. Counted \in SUBSET Conns
  BY DEF Counted
<1>. QED
  BY <1>1, FS_Subset, FS_CardinalityType, GateAssumption

LEMMA GateInit == Init => GateInv
<1>. SUFFICES ASSUME Init PROVE GateInv
  OBVIOUS
<1>1. TypeOK
  BY GateAssumption DEF Init, TypeOK, HandlerLabels
<1>2. Counted = {}
  BY DEF Init, Counted, CountedLabels
<1>3. ActiveCounts
  BY <1>2, FS_EmptySet DEF ActiveCounts, Init
<1>4. LockInv /\ OwnInv /\ StageInv
  BY GateAssumption DEF Init, LockInv, OwnInv, StageInv
<1>5. SweepInv /\ DialInv /\ DrainInv
  BY DEF Init, SweepInv, MidSweep, DialInv, DrainInv, NoRelayAfterDrain, CountedLabels
<1>. QED
  BY <1>1, <1>3, <1>4, <1>5 DEF GateInv

-----------------------------------------------------------------------------
(***************************************************************************)
(* The counter: it moves together with the set it counts.                  *)
(***************************************************************************)
LEMMA CountStep ==
  ASSUME TypeOK, ActiveCounts, [Next]_vars
  PROVE  active' \in Nat /\ ActiveCounts'
<1>1. CASE \E c \in Conns : Count(c)
  <2>1. PICK c \in Conns : Count(c)
    BY <1>1
  <2>2. c \notin Counted /\ Counted' = Counted \cup {c}
    <3>1. Goto(c, "tracked", "counted")
      BY <2>1 DEF Count
    <3>. QED
      BY <3>1, GotoMoves DEF Counted, CountedLabels, HandlerLabels
  <2>3. active' = active + 1
    BY <2>1 DEF Count
  <2>4. Cardinality(Counted \cup {c}) = Cardinality(Counted) + 1
    BY <2>2, FS_AddElement, CountedFinite
  <2>. QED
    BY <2>2, <2>3, <2>4 DEF ActiveCounts, TypeOK
<1>2. CASE \E c \in Conns : Uncount(c)
  <2>1. PICK c \in Conns : Uncount(c)
    BY <1>2
  <2>2. c \in Counted /\ Counted' = Counted \ {c}
    <3>1. Goto(c, "ended", "uncounted")
      BY <2>1 DEF Uncount
    <3>. QED
      BY <3>1, GotoMoves DEF Counted, CountedLabels, HandlerLabels
  <2>3. active' = active - 1
    BY <2>1 DEF Uncount
  <2>4. Cardinality(Counted) # 0
    BY <2>2, FS_EmptySet, CountedFinite
  <2>5. Cardinality(Counted \ {c}) = Cardinality(Counted) - 1
    BY <2>2, FS_RemoveElement, CountedFinite
  <2>. QED
    BY <2>2, <2>3, <2>4, <2>5, CountedFinite DEF ActiveCounts, TypeOK
<1>3. ASSUME \A c \in Conns : ~Count(c) /\ ~Uncount(c)
      PROVE  Counted' = Counted /\ active' = active
  <2>. CASE UNCHANGED <<pc, active>>
    BY DEF Counted
  <2>1. ASSUME NEW c \in Conns, NEW from, NEW to \in HandlerLabels, Goto(c, from, to),
               from \in CountedLabels <=> to \in CountedLabels
        PROVE  Counted' = Counted
    BY <2>1, GotoMoves DEF Counted
  <2>2. ASSUME NEW c \in Conns,
               \/ Accept(c) \/ Track(c) \/ Touch(c) \/ Ensure(c) \/ Create(c)
               \/ Launch(c) \/ Dial(c) \/ TrackUpstream(c) \/ RelayEnds(c) \/ Finish(c)
        PROVE  Counted' = Counted /\ active' = active
    <3>1. active' = active
      BY <2>2 DEF Accept, Track, Touch, Ensure, Create, Launch, Dial, TrackUpstream,
           RelayEnds, Finish
    <3>2. \/ Goto(c, "none", "accepted") \/ Goto(c, "accepted", "tracked")
          \/ Goto(c, "accepted", "gone") \/ Goto(c, "uncounted", "gone")
          \/ \E from, to \in CountedLabels : Goto(c, from, to)
      BY <2>2 DEF Accept, Track, Touch, Ensure, Create, Launch, Dial, TrackUpstream,
           RelayEnds, Finish, CountedLabels
    <3>3. CountedLabels \subseteq HandlerLabels
      BY DEF CountedLabels, HandlerLabels
    <3>4. CASE \E from, to \in CountedLabels : Goto(c, from, to)
      BY <2>1, <3>1, <3>3, <3>4
    <3>5. CASE ~ \E from, to \in CountedLabels : Goto(c, from, to)
      BY <2>1, <3>1, <3>2, <3>5 DEF CountedLabels, HandlerLabels
    <3>. QED
      BY <3>4, <3>5
  <2>3. CASE ~ \E c \in Conns :
               \/ Accept(c) \/ Track(c) \/ Touch(c) \/ Ensure(c) \/ Create(c)
               \/ Launch(c) \/ Dial(c) \/ TrackUpstream(c) \/ RelayEnds(c) \/ Finish(c)
    <3>. UNCHANGED <<pc, active>>
      BY <1>3, <2>3, StepCases DEF vars, handlerVars, IdlePasses, SweepLooksAtActive,
           SweepLooksAtLastUse, SweepTakes, SweepCloses, SweepStops, CloseMarks,
           CloseListeners, CloseConns, CloseInstance
    <3>. QED
      OBVIOUS
  <2>. QED
    BY <2>2, <2>3
<1>. QED
  BY <1>1, <1>2, <1>3 DEF ActiveCounts, TypeOK

(***************************************************************************)
(* Types: all but the counter, which needs ActiveCounts.                   *)
(***************************************************************************)
LEMMA TypeStep ==
  ASSUME TypeOK, ActiveCounts, LockInv, OwnInv, [Next]_vars
  PROVE  TypeOK'
<1>. USE GateAssumption
<1>1. active' \in Nat
  BY CountStep
<1>2. ASSUME NEW c \in Conns, Accept(c) PROVE TypeOK'
  BY <1>1, <1>2 DEF TypeOK, Accept, Goto, HandlerLabels, Sockets, Ends, muVars, connVars,
       sweepVars, closeVars
<1>3. ASSUME NEW c \in Conns, Track(c) PROVE TypeOK'
  BY <1>1, <1>3 DEF TypeOK, Track, Goto, HandlerLabels, Sockets, Ends, muVars, sweepVars,
       closeVars
<1>4. ASSUME NEW c \in Conns, Count(c) \/ Touch(c) \/ Uncount(c) PROVE TypeOK'
  <2>1. /\ late' \subseteq Conns /\ recent' \in BOOLEAN
        /\ UNCHANGED <<via, instance, life, holder, building, listening, connsNil, conns,
                       open, sweeper, victim, closer, last, closed>>
    BY <1>4 DEF TypeOK, Count, Touch, Uncount, muVars, connVars, sweepVars, closeVars
  <2>2. pc' \in [Conns -> HandlerLabels]
    BY <1>4, GotoMoves DEF Count, Touch, Uncount, HandlerLabels
  <2>. QED
    BY <1>1, <2>1, <2>2 DEF TypeOK
<1>5. ASSUME NEW c \in Conns, Ensure(c) \/ Create(c) PROVE TypeOK'
  BY <1>1, <1>5 DEF TypeOK, Ensure, Create, Goto, HandlerLabels, connVars, sweepVars,
       closeVars
<1>6. ASSUME NEW c \in Conns, Launch(c) PROVE TypeOK'
  <2>1. building \in Instances
    BY <1>6 DEF Launch, Goto, LockInv, TypeOK
  <2>. QED
    BY <1>1, <1>6, <2>1 DEF TypeOK, Launch, Goto, HandlerLabels, connVars, sweepVars,
         closeVars
<1>7. ASSUME NEW c \in Conns, Dial(c) \/ TrackUpstream(c) PROVE TypeOK'
  BY <1>1, <1>7 DEF TypeOK, Dial, TrackUpstream, Goto, HandlerLabels, Sockets, Ends, muVars,
       connVars, sweepVars, closeVars
<1>8. ASSUME NEW c \in Conns, RelayEnds(c) \/ Finish(c) PROVE TypeOK'
  BY <1>1, <1>8 DEF TypeOK, RelayEnds, Finish, Goto, HandlerLabels, Sockets, muVars,
       sweepVars, closeVars
<1>9. CASE IdlePasses \/ SweepLooksAtActive \/ SweepLooksAtLastUse \/ SweepTakes
           \/ SweepStops
  BY <1>1, <1>9 DEF TypeOK, IdlePasses, SweepLooksAtActive, SweepLooksAtLastUse, SweepTakes,
       SweepStops, MidSweep, handlerVars, muVars, connVars, sweepVars, closeVars
<1>10. CASE SweepCloses
  BY <1>1, <1>10 DEF TypeOK, SweepCloses, MidSweep, handlerVars, muVars, connVars, closeVars
<1>11. CASE CloseMarks \/ CloseListeners \/ CloseConns \/ CloseInstance
  BY <1>1, <1>11 DEF TypeOK, CloseMarks, CloseListeners, CloseConns, CloseInstance,
       handlerVars, muVars, connVars, sweepVars
<1>12. CASE UNCHANGED vars
  BY <1>12 DEF TypeOK, vars, handlerVars
<1>. QED
  BY <1>2, <1>3, <1>4, <1>5, <1>6, <1>7, <1>8, <1>9, <1>10, <1>11, <1>12, StepCases

-----------------------------------------------------------------------------
(***************************************************************************)
(* The lock: whoever brings an instance up is alone with the pointers.     *)
(***************************************************************************)
LEMMA LockStep ==
  ASSUME TypeOK, LockInv, [Next]_vars
  PROVE  LockInv'
<1>. USE GateAssumption
<1>1. ASSUME NEW c \in Conns, NEW from, NEW to \in HandlerLabels, Goto(c, from, to),
             {from, to} \cap {"building", "launching"} = {}, UNCHANGED muVars
      PROVE  LockInv'
  BY <1>1, GotoMoves DEF LockInv, muVars
<1>2. ASSUME NEW c \in Conns,
             \/ Accept(c) \/ Track(c) \/ Count(c) \/ Touch(c) \/ Dial(c)
             \/ TrackUpstream(c) \/ RelayEnds(c) \/ Uncount(c) \/ Finish(c)
      PROVE  LockInv'
  BY <1>1, <1>2 DEF Accept, Track, Count, Touch, Dial, TrackUpstream, RelayEnds,
       Uncount, Finish, HandlerLabels
<1>3. ASSUME NEW c \in Conns, Ensure(c) PROVE LockInv'
  BY <1>3 DEF Ensure, Goto, LockInv, TypeOK
<1>4. ASSUME NEW c \in Conns, Create(c) PROVE LockInv'
  BY <1>4 DEF Create, Goto, LockInv, TypeOK
<1>5. ASSUME NEW c \in Conns, Launch(c) PROVE LockInv'
  BY <1>5 DEF Launch, Goto, LockInv, TypeOK
<1>6. CASE SweepTakes \/ CloseMarks
  BY <1>6 DEF SweepTakes, CloseMarks, LockInv, handlerVars
<1>7. CASE \/ IdlePasses \/ SweepLooksAtActive \/ SweepLooksAtLastUse \/ SweepCloses
           \/ SweepStops \/ CloseListeners \/ CloseConns \/ CloseInstance
           \/ UNCHANGED vars
  BY <1>7 DEF IdlePasses, SweepLooksAtActive, SweepLooksAtLastUse, SweepCloses,
       SweepStops, CloseListeners, CloseConns, CloseInstance, vars, LockInv,
       handlerVars, muVars
<1>. QED
  BY <1>2, <1>3, <1>4, <1>5, <1>6, <1>7, StepCases
-----------------------------------------------------------------------------
(***************************************************************************)
(* Stages: the sweeper and Close hold an instance only where they should.  *)
(***************************************************************************)
LEMMA StageStep ==
  ASSUME TypeOK, StageInv, [Next]_vars
  PROVE  StageInv'
<1>. USE GateAssumption
<1>1. ASSUME UNCHANGED <<sweepVars, closeVars, closed>>
      PROVE  StageInv'
  BY <1>1 DEF StageInv, sweepVars, closeVars
<1>2. ASSUME NEW c \in Conns,
             \/ Accept(c) \/ Track(c) \/ Count(c) \/ Touch(c) \/ Ensure(c)
             \/ Create(c) \/ Launch(c) \/ Dial(c) \/ TrackUpstream(c)
             \/ RelayEnds(c) \/ Uncount(c) \/ Finish(c)
      PROVE  StageInv'
  BY <1>1, <1>2 DEF Accept, Track, Count, Touch, Ensure, Create, Launch, Dial,
       TrackUpstream, RelayEnds, Uncount, Finish, muVars
<1>3. CASE IdlePasses \/ UNCHANGED vars
  BY <1>1, <1>3 DEF IdlePasses, vars, muVars, sweepVars, closeVars
<1>4. CASE \/ SweepLooksAtActive \/ SweepLooksAtLastUse \/ SweepTakes
           \/ SweepCloses \/ SweepStops
  BY <1>4 DEF SweepLooksAtActive, SweepLooksAtLastUse, SweepTakes, SweepCloses,
       SweepStops, StageInv, TypeOK, muVars, closeVars
<1>5. CASE CloseMarks \/ CloseListeners \/ CloseConns \/ CloseInstance
  BY <1>5 DEF CloseMarks, CloseListeners, CloseConns, CloseInstance, StageInv,
       TypeOK, muVars, sweepVars
<1>. QED
  BY <1>2, <1>3, <1>4, <1>5, StepCases

(***************************************************************************)
(* Ownership: an instance moves from ensure to the gate, from there to the *)
(* sweeper or to Close, and is closed where it ended up.                   *)
(***************************************************************************)
LEMMA OwnStep ==
  ASSUME TypeOK, LockInv, OwnInv, StageInv, [Next]_vars
  PROVE  OwnInv'
<1>. USE GateAssumption
<1>1. ASSUME UNCHANGED <<instance, building, victim, last, life>>
      PROVE  OwnInv'
  BY <1>1 DEF OwnInv
<1>2. ASSUME NEW c \in Conns,
             \/ Accept(c) \/ Track(c) \/ Count(c) \/ Touch(c) \/ Ensure(c)
             \/ Dial(c) \/ TrackUpstream(c) \/ RelayEnds(c) \/ Uncount(c) \/ Finish(c)
      PROVE  OwnInv'
  BY <1>1, <1>2 DEF Accept, Track, Count, Touch, Ensure, Dial, TrackUpstream,
       RelayEnds, Uncount, Finish, muVars, sweepVars, closeVars
<1>3. ASSUME NEW c \in Conns, Create(c) PROVE OwnInv'
  <2>1. building = None /\ UNCHANGED <<instance, victim, last>>
    BY <1>3 DEF Create, Goto, LockInv, TypeOK, sweepVars, closeVars
  <2>. QED
    BY <1>3, <2>1 DEF Create, OwnInv, TypeOK
<1>4. ASSUME NEW c \in Conns, Launch(c) PROVE OwnInv'
  <2>1. /\ building \in Instances
        /\ instance = None
        /\ building' = None
        /\ UNCHANGED <<victim, last>>
    BY <1>4 DEF Launch, Goto, LockInv, TypeOK, sweepVars, closeVars
  <2>2. life[building] = "built" /\ building \notin {victim, last}
    BY <2>1 DEF OwnInv
  <2>. QED
    BY <1>4, <2>1, <2>2 DEF Launch, OwnInv, TypeOK
<1>5. CASE SweepTakes
  BY <1>5 DEF SweepTakes, OwnInv, StageInv, TypeOK, closeVars
<1>6. CASE SweepCloses
  BY <1>6 DEF SweepCloses, OwnInv, StageInv, TypeOK, muVars, closeVars
<1>7. CASE CloseMarks
  BY <1>7 DEF CloseMarks, OwnInv, StageInv, TypeOK, sweepVars
<1>8. CASE CloseInstance
  BY <1>8 DEF CloseInstance, OwnInv, StageInv, TypeOK, muVars, sweepVars
<1>9. CASE \/ IdlePasses \/ SweepLooksAtActive \/ SweepLooksAtLastUse \/ SweepStops
           \/ CloseListeners \/ CloseConns \/ UNCHANGED vars
  BY <1>1, <1>9 DEF IdlePasses, SweepLooksAtActive, SweepLooksAtLastUse, SweepStops,
       CloseListeners, CloseConns, vars, muVars, sweepVars, closeVars
<1>. QED
  BY <1>2, <1>3, <1>4, <1>5, <1>6, <1>7, <1>8, <1>9, StepCases

-----------------------------------------------------------------------------
(***************************************************************************)
(* Sweeps: with active at zero nobody is counted, and who is counted while *)
(* a sweep is under way is late.                                           *)
(***************************************************************************)
LEMMA SweepStep ==
  ASSUME TypeOK, ActiveCounts, SweepInv, [Next]_vars
  PROVE  SweepInv'
<1>1. ASSUME UNCHANGED <<sweeper, late>>, Counted' \subseteq Counted
      PROVE  SweepInv'
  BY <1>1 DEF SweepInv
<1>2. ASSUME NEW c \in Conns, NEW from, NEW to \in HandlerLabels, Goto(c, from, to),
             to \in CountedLabels => from \in CountedLabels
      PROVE  Counted' \subseteq Counted
  BY <1>2, GotoMoves DEF Counted
<1>3. ASSUME NEW c \in Conns, Accept(c) \/ Track(c) \/ Finish(c) \/ Uncount(c)
      PROVE  SweepInv'
  BY <1>1, <1>2, <1>3 DEF Accept, Track, Finish, Uncount, CountedLabels, HandlerLabels,
       sweepVars
<1>4. ASSUME NEW c \in Conns, Touch(c) \/ Ensure(c) \/ Create(c) \/ Launch(c)
      PROVE  SweepInv'
  BY <1>1, <1>2, <1>4 DEF Touch, Ensure, Create, Launch, CountedLabels, HandlerLabels,
       sweepVars
<1>5. ASSUME NEW c \in Conns, Dial(c) \/ TrackUpstream(c) \/ RelayEnds(c)
      PROVE  SweepInv'
  BY <1>1, <1>2, <1>5 DEF Dial, TrackUpstream, RelayEnds, CountedLabels, HandlerLabels,
       sweepVars
<1>6. ASSUME NEW c \in Conns, Count(c) PROVE SweepInv'
  <2>1. Counted' \subseteq Counted \cup {c}
    BY <1>6, GotoMoves DEF Count, Counted, HandlerLabels
  <2>. QED
    BY <1>6, <2>1 DEF Count, SweepInv, sweepVars
<1>7. CASE SweepLooksAtActive
  <2>1. Counted = {}
    BY <1>7, CountedFinite, FS_EmptySet DEF SweepLooksAtActive, ActiveCounts
  <2>. QED
    BY <1>7, <2>1 DEF SweepLooksAtActive, SweepInv, Counted, handlerVars
<1>8. CASE SweepLooksAtLastUse \/ SweepTakes \/ SweepCloses \/ SweepStops
  BY <1>8 DEF SweepLooksAtLastUse, SweepTakes, SweepCloses, SweepStops, SweepInv,
       MidSweep, Counted, handlerVars
<1>9. CASE \/ IdlePasses \/ CloseMarks \/ CloseListeners \/ CloseConns
           \/ CloseInstance \/ UNCHANGED vars
  BY <1>9 DEF IdlePasses, CloseMarks, CloseListeners, CloseConns, CloseInstance, vars,
       SweepInv, Counted, handlerVars, sweepVars
<1>. QED
  BY <1>3, <1>4, <1>5, <1>6, <1>7, <1>8, <1>9, StepCases

(***************************************************************************)
(* Dials: the sweeper shuts an instance down under late handlers only.     *)
(***************************************************************************)
LEMMA DialStep ==
  ASSUME TypeOK, LockInv, OwnInv, StageInv, SweepInv, DialInv, [Next]_vars
  PROVE  DialInv'
<1>. USE GateAssumption
<1>. DEFINE Dialled == {"dialled", "relaying"}
<1>1. ASSUME UNCHANGED <<via, life, closed>>, late \subseteq late',
             \A c \in Conns : pc'[c] \in Dialled => pc[c] \in Dialled
      PROVE  DialInv'
  BY <1>1 DEF DialInv
<1>2. ASSUME NEW c \in Conns, NEW from, NEW to \in HandlerLabels, Goto(c, from, to),
             to \in Dialled => from \in Dialled
      PROVE  \A d \in Conns : pc'[d] \in Dialled => pc[d] \in Dialled
  BY <1>2, GotoMoves
<1>3. ASSUME NEW c \in Conns,
             \/ Accept(c) \/ Track(c) \/ Count(c) \/ Touch(c) \/ Ensure(c)
             \/ TrackUpstream(c) \/ RelayEnds(c) \/ Uncount(c) \/ Finish(c)
      PROVE  DialInv'
  <2>1. UNCHANGED <<via, life, closed>> /\ late \subseteq late'
    BY <1>3 DEF Accept, Track, Count, Touch, Ensure, TrackUpstream, RelayEnds, Uncount,
         Finish, muVars
  <2>2. \/ \E from \in HandlerLabels, to \in HandlerLabels \ Dialled : Goto(c, from, to)
        \/ Goto(c, "dialled", "relaying")
    BY <1>3 DEF Accept, Track, Count, Touch, Ensure, TrackUpstream, RelayEnds, Uncount,
         Finish, HandlerLabels
  <2>3. \A d \in Conns : pc'[d] \in Dialled => pc[d] \in Dialled
    BY <2>2, <1>2 DEF HandlerLabels
  <2>. QED
    BY <1>1, <2>1, <2>3
<1>4. ASSUME NEW c \in Conns, Create(c) \/ Launch(c) PROVE DialInv'
  <2>1. \A d \in Conns : pc'[d] \in Dialled => pc[d] \in Dialled
    BY <1>2, <1>4 DEF Create, Launch, HandlerLabels
  <2>2. \A i \in Instances : life[i] \in {"running", "closed"} => life'[i] = life[i]
    <3>1. CASE Create(c)
      BY <3>1 DEF Create, TypeOK
    <3>2. CASE Launch(c)
      <4>1. building \in Instances /\ life[building] = "built"
        BY <3>2 DEF Launch, Goto, LockInv, OwnInv, TypeOK
      <4>. QED
        BY <3>2, <4>1 DEF Launch, TypeOK
    <3>. QED
      BY <1>4, <3>1, <3>2
  <2>3. UNCHANGED <<via, closed, late>>
    BY <1>4 DEF Create, Launch
  <2>4. \A d \in Conns : via[d] # None => via[d] \in Instances
    BY DEF TypeOK
  <2>. QED
    BY <2>1, <2>2, <2>3, <2>4 DEF DialInv
<1>5. ASSUME NEW c \in Conns, Dial(c) PROVE DialInv'
  <2>1. UNCHANGED <<life, closed, late>>
    BY <1>5 DEF Dial, muVars
  <2>2. \A d \in Conns \ {c} : pc'[d] = pc[d] /\ via'[d] = via[d]
    BY <1>5 DEF Dial, Goto, TypeOK
  <2>3. pc'[c] \in Dialled => via'[c] \in Instances /\ life[via'[c]] = "running"
    BY <1>5 DEF Dial, Goto, TypeOK
  <2>. QED
    BY <2>1, <2>2, <2>3 DEF DialInv
<1>6. CASE SweepCloses
  <2>1. \A c \in Conns : pc[c] \in Dialled => c \in late
    BY <1>6 DEF SweepCloses, SweepInv, MidSweep, Counted, CountedLabels
  <2>2. \A c \in Conns : via[c] # None => via[c] \in Instances
    BY DEF TypeOK
  <2>3. \A i \in Instances : life'[i] \in {life[i], "closed"}
    BY <1>6 DEF SweepCloses, TypeOK
  <2>. QED
    BY <1>6, <2>1, <2>2, <2>3 DEF SweepCloses, DialInv, handlerVars, muVars
<1>7. CASE CloseInstance
  <2>1. closed'
    BY <1>7 DEF CloseInstance, StageInv, muVars
  <2>2. \A c \in Conns : via[c] # None => via[c] \in Instances
    BY DEF TypeOK
  <2>. QED
    BY <1>7, <2>1, <2>2 DEF CloseInstance, DialInv, handlerVars
<1>8. CASE CloseMarks
  BY <1>8 DEF CloseMarks, DialInv, handlerVars
<1>9. CASE \/ IdlePasses \/ SweepLooksAtActive \/ SweepLooksAtLastUse \/ SweepTakes
           \/ SweepStops \/ CloseListeners \/ CloseConns \/ UNCHANGED vars
  BY <1>1, <1>9 DEF IdlePasses, SweepLooksAtActive, SweepLooksAtLastUse, SweepTakes,
       SweepStops, CloseListeners, CloseConns, vars, handlerVars, muVars
<1>. QED
  BY <1>3, <1>4, <1>5, <1>6, <1>7, <1>8, <1>9, StepCases
-----------------------------------------------------------------------------
(***************************************************************************)
(* Drains: until conns is nil every socket of a handler is in it, so the   *)
(* drain closes them all, and no relay begins after it.                    *)
(***************************************************************************)
LEMMA DrainStep ==
  ASSUME TypeOK, DrainInv, [Next]_vars
  PROVE  DrainInv'
<1>. DEFINE Tracked == CountedLabels \cup {"tracked"}
<1>1. ASSUME NEW c \in Conns, NEW from, NEW to \in HandlerLabels, Goto(c, from, to),
             UNCHANGED <<connsNil, conns, open>>,
             to \in Tracked => from \in Tracked, to # "relaying"
      PROVE  DrainInv'
  BY <1>1, GotoMoves DEF DrainInv, NoRelayAfterDrain
<1>2. ASSUME NEW c \in Conns,
             Count(c) \/ Touch(c) \/ Ensure(c) \/ Create(c) \/ Launch(c) \/ Uncount(c)
      PROVE  DrainInv'
  <2>1. UNCHANGED <<connsNil, conns, open>>
    BY <1>2 DEF Count, Touch, Ensure, Create, Launch, Uncount, connVars
  <2>2. \E from \in Tracked, to \in (Tracked \cup {"uncounted"}) \ {"relaying"} :
          Goto(c, from, to)
    BY <1>2 DEF Count, Touch, Ensure, Create, Launch, Uncount, CountedLabels
  <2>. QED
    BY <1>1, <2>1, <2>2 DEF HandlerLabels, CountedLabels
<1>3. ASSUME NEW c \in Conns, Accept(c) PROVE DrainInv'
  <2>1. /\ pc[c] = "none" /\ pc'[c] = "accepted"
        /\ \A d \in Conns \ {c} : pc'[d] = pc[d]
        /\ UNCHANGED <<connsNil, conns>>
        /\ open' = open \cup {<<c, "client">>}
    BY <1>3, GotoMoves DEF Accept, HandlerLabels, connVars
  <2>. QED
    BY <2>1 DEF DrainInv, NoRelayAfterDrain, CountedLabels
<1>4. ASSUME NEW c \in Conns, Track(c) PROVE DrainInv'
  <2>1. /\ pc[c] = "accepted"
        /\ \A d \in Conns \ {c} : pc'[d] = pc[d]
        /\ connsNil' = connsNil
        /\ open' \subseteq open
    BY <1>4, GotoMoves DEF Track, HandlerLabels
  <2>2. \/ pc'[c] = "tracked" /\ conns' = conns \cup {<<c, "client">>}
        \/ pc'[c] = "gone" /\ conns' = conns
    BY <1>4, GotoMoves DEF Track, HandlerLabels
  <2>. QED
    BY <2>1, <2>2 DEF DrainInv, NoRelayAfterDrain, CountedLabels
<1>5. ASSUME NEW c \in Conns, Dial(c) PROVE DrainInv'
  <2>1. /\ pc[c] = "ensured" /\ pc'[c] \in {"dialled", "ended"}
        /\ \A d \in Conns \ {c} : pc'[d] = pc[d]
        /\ UNCHANGED <<connsNil, conns>>
        /\ open \subseteq open' /\ open' \subseteq open \cup {<<c, "upstream">>}
    BY <1>5, GotoMoves DEF Dial, HandlerLabels, connVars
  <2>. QED
    BY <2>1 DEF DrainInv, NoRelayAfterDrain, CountedLabels
<1>6. ASSUME NEW c \in Conns, TrackUpstream(c) PROVE DrainInv'
  <2>1. /\ pc[c] = "dialled"
        /\ \A d \in Conns \ {c} : pc'[d] = pc[d]
        /\ connsNil' = connsNil
        /\ open' \subseteq open
    BY <1>6, GotoMoves DEF TrackUpstream, HandlerLabels
  <2>2. \/ ~connsNil /\ pc'[c] = "relaying" /\ conns' = conns \cup {<<c, "upstream">>}
        \/ pc'[c] = "ended" /\ conns' = conns
    BY <1>6, GotoMoves DEF TrackUpstream, HandlerLabels
  <2>. QED
    BY <2>1, <2>2 DEF DrainInv, NoRelayAfterDrain, CountedLabels, Ends
<1>7. ASSUME NEW c \in Conns, RelayEnds(c) PROVE DrainInv'
  <2>1. /\ pc[c] = "relaying" /\ pc'[c] = "ended"
        /\ \A d \in Conns \ {c} : pc'[d] = pc[d]
        /\ connsNil' = connsNil
        /\ conns' = conns \ {<<c, "upstream">>} /\ open' \subseteq open
    BY <1>7, GotoMoves DEF RelayEnds, HandlerLabels
  <2>. QED
    BY <2>1 DEF DrainInv, NoRelayAfterDrain, CountedLabels, Ends
<1>8. ASSUME NEW c \in Conns, Finish(c) PROVE DrainInv'
  <2>1. /\ pc[c] = "uncounted" /\ pc'[c] = "gone"
        /\ \A d \in Conns \ {c} : pc'[d] = pc[d]
        /\ connsNil' = connsNil
        /\ conns' = conns \ {<<c, "client">>} /\ open' \subseteq open
    BY <1>8, GotoMoves DEF Finish, HandlerLabels
  <2>. QED
    BY <2>1 DEF DrainInv, NoRelayAfterDrain, CountedLabels, Ends
<1>9. CASE CloseConns
  BY <1>9 DEF CloseConns, DrainInv, NoRelayAfterDrain, Ends, handlerVars
<1>10. CASE \/ IdlePasses \/ SweepLooksAtActive \/ SweepLooksAtLastUse \/ SweepTakes
            \/ SweepCloses \/ SweepStops \/ CloseMarks \/ CloseListeners
            \/ CloseInstance \/ UNCHANGED vars
  BY <1>10 DEF IdlePasses, SweepLooksAtActive, SweepLooksAtLastUse, SweepTakes,
       SweepCloses, SweepStops, CloseMarks, CloseListeners, CloseInstance, vars,
       DrainInv, NoRelayAfterDrain, handlerVars, connVars
<1>. QED
  BY <1>2, <1>3, <1>4, <1>5, <1>6, <1>7, <1>8, <1>9, <1>10, StepCases

-----------------------------------------------------------------------------
(***************************************************************************)
(* GateInv is an invariant: each conjunct is preserved by the lemma above  *)
(* that bears its name.                                                    *)
(***************************************************************************)
THEOREM Inductive == Spec => []GateInv
<1>1. Init => GateInv
  BY GateInit
<1>2. GateInv /\ [Next]_vars => GateInv'
  BY CountStep, TypeStep, LockStep, StageStep, OwnStep, SweepStep, DialStep, DrainStep
     DEF GateInv
<1>. QED
  BY <1>1, <1>2, PTL DEF Spec

(***************************************************************************)
(* Every variable keeps its type; in particular active never goes below    *)
(* zero, whatever the order of increments and decrements.                  *)
(***************************************************************************)
THEOREM TypeCorrect == Spec => []TypeOK
<1>1. GateInv => TypeOK
  BY DEF GateInv
<1>. QED
  BY <1>1, Inductive, PTL

(***************************************************************************)
(* No instance is lost and none is closed twice.                           *)
(***************************************************************************)
THEOREM InstancesOwnedOnce == Spec => []OneHolder
<1>1. GateInv => OneHolder
  <2>. SUFFICES ASSUME GateInv, NEW i \in Instances
                PROVE  IF life[i] \in {"built", "running"}
                       THEN \E h \in {"gate", "sweeper", "close", "ensure"} : Holders(i) = {h}
                       ELSE Holders(i) = {}
    BY DEF OneHolder
  <2>. USE GateAssumption
  <2>1. CASE life[i] = "built"
    <3>1. i = building /\ i \notin {instance, victim, last}
      BY <2>1 DEF GateInv, OwnInv
    <3>2. Holders(i) = {"ensure"}
      BY <3>1 DEF Holders
    <3>. QED
      BY <2>1, <3>2
  <2>2. CASE life[i] = "running"
    <3>1. i \in {instance, victim, last} /\ i # building
      BY <2>2 DEF GateInv, OwnInv
    <3>2. CASE i = instance
      <4>1. Holders(i) = {"gate"}
        BY <3>1, <3>2 DEF Holders, GateInv, OwnInv
      <4>. QED
        BY <2>2, <4>1
    <3>3. CASE i = victim
      <4>1. Holders(i) = {"sweeper"}
        BY <3>1, <3>3 DEF Holders, GateInv, OwnInv
      <4>. QED
        BY <2>2, <4>1
    <3>4. CASE i = last
      <4>1. Holders(i) = {"close"}
        BY <3>1, <3>4 DEF Holders, GateInv, OwnInv
      <4>. QED
        BY <2>2, <4>1
    <3>. QED
      BY <3>1, <3>2, <3>3, <3>4
  <2>3. CASE life[i] \notin {"built", "running"}
    <3>1. i \notin {instance, victim, last, building}
      BY <2>3 DEF GateInv, OwnInv
    <3>2. Holders(i) = {}
      BY <3>1 DEF Holders
    <3>. QED
      BY <2>3, <3>2
  <2>. QED
    BY <2>1, <2>2, <2>3
<1>. QED
  BY <1>1, Inductive, PTL

(***************************************************************************)
(* A closed gate stays cold, whoever was still in flight.                  *)
(***************************************************************************)
THEOREM ClosedIsCold == Spec => []ClosedStaysCold
<1>1. GateInv => ClosedStaysCold
  BY GateAssumption DEF GateInv, TypeOK, LockInv, ClosedStaysCold
<1>. QED
  BY <1>1, Inductive, PTL

(***************************************************************************)
(* Close leaves no live relay.                                             *)
(***************************************************************************)
THEOREM DrainIsFinal == Spec => []NoRelayAfterDrain
<1>1. GateInv => NoRelayAfterDrain
  BY DEF GateInv, DrainInv
<1>. QED
  BY <1>1, Inductive, PTL

(***************************************************************************)
(* The sweeper cuts only connections that came in while it was at work.    *)
(***************************************************************************)
THEOREM SessionsAreSafe == Spec => []OnlyLatecomersAreCut
<1>1. GateInv => OnlyLatecomersAreCut
  BY DEF GateInv, DialInv, OnlyLatecomersAreCut
<1>. QED
  BY <1>1, Inductive, PTL
=============================================================================
