--------------------------- MODULE TestBatchProofs ---------------------------
(***************************************************************************)
(* Proofs about TestBatch for any requests: BatchInv is an invariant, and  *)
(* the safety properties follow from it.  One lemma per conjunct of        *)
(* BatchInv says that a step preserves it.                                 *)
(***************************************************************************)
EXTENDS TestBatch, FiniteSetTheorems, TLAPS

(***************************************************************************)
(* The actions of Next one by one, as a lemma to case on.                  *)
(***************************************************************************)
LEMMA StepCases ==
  ASSUME [Next]_vars
  PROVE  \/ \E b \in Batches :
              \/ Prepare(b) \/ TakeContext(b) \/ Check(b) \/ Launch(b) \/ Vanished(b)
              \/ LoopEnds(b) \/ SpeedFails(b) \/ SpeedStarts(b) \/ Sample(b)
              \/ SpeedDone(b) \/ SpeedCancelled(b) \/ SpeedStops(b)
              \/ Wait(b) \/ Reclaim(b)
         \/ \E r \in Results : Measure(r) \/ Release(r)
         \/ StopTest
         \/ \E k \in Buffers : Query(k)
         \/ UNCHANGED vars
  BY DEF Next, Loop, Probe

(***************************************************************************)
(* The tag a loop is at is one of the batch.                               *)
(***************************************************************************)
LEMMA TagIsResult ==
  ASSUME TypeOK, NEW b \in Batches, next[b] <= NTags
  PROVE  /\ Tag(b) \in Results
         /\ next[b] \in Places
         /\ next[b] + 1 \in 1 .. NTags + 1
<1>1. next[b] \in Places /\ next[b] + 1 \in 1 .. NTags + 1
  BY BatchAssumption DEF TypeOK, Places
<1>. QED
  BY <1>1 DEF Tag, Results

LEMMA BatchInit == Init => BatchInv
<1>. SUFFICES ASSUME Init PROVE BatchInv
  OBVIOUS
<1>. USE BatchAssumption
<1>1. TypeOK
  <2>1. req \in [Batches -> Request] /\ stops \in 0 .. MaxStops
    BY DEF Init
  <2>2. ctx \in [Batches -> 0 .. MaxStops] /\ next \in [Batches -> 1 .. NTags + 1]
    BY DEF Init
  <2>3. buffer \in [Buffers -> SUBSET Results]
    BY DEF Init
  <2>. QED
    BY <2>1, <2>2, <2>3 DEF Init, TypeOK
<1>2. StageInv
  BY DEF Init, StageInv
<1>3. TagInv
  <2>1. ASSUME NEW b \in Batches, NEW i \in Places
        PROVE  /\ probe[<<b, i>>] = "none" /\ ending[<<b, i>>] = "none"
               /\ i >= next[b] /\ ~At(b, "stopping")
    BY DEF Init, Results, Places, At
  <2>. QED
    BY <2>1 DEF Init, TagInv
<1>4. BufferExact
  <2>1. \A b \in Batches : Published(b) = {}
    BY DEF Init, Published, Own, Results
  <2>. QED
    BY <2>1 DEF Init, BufferExact
<1>5. LateInv /\ QuerierSettles
  BY DEF Init, LateInv, QuerierSettles
<1>6. TellInv
  BY DEF Init, TellInv, Own, Results, Answered, At
<1>. QED
  BY <1>1, <1>2, <1>3, <1>4, <1>5, <1>6 DEF BatchInv

-----------------------------------------------------------------------------
(***************************************************************************)
(* What leaving a tag behind and noting its end do to the types.           *)
(***************************************************************************)
LEMMA AdvanceTypes ==
  ASSUME TypeOK, NEW b \in Batches, next[b] <= NTags, NEW from, Advance(b, from)
  PROVE  /\ pc' \in [Batches -> {"idle", "built", "loop", "passed", "measuring",
                                 "stopping", "wait", "reclaim", "replied"}]
         /\ next' \in [Batches -> 1 .. NTags + 1]
  BY TagIsResult DEF TypeOK, Advance, Goto, To

LEMMA EndTypes ==
  ASSUME TypeOK, NEW r \in Results, NEW how \in Endings, End(r, how)
  PROVE  ending' \in [Results -> Endings \cup {"none"}]
  BY DEF TypeOK, End

(***************************************************************************)
(* Every variable keeps its type.                                          *)
(***************************************************************************)
LEMMA TypeStep ==
  ASSUME TypeOK, StageInv, [Next]_vars
  PROVE  TypeOK'
<1>. USE BatchAssumption DEF TypeOK
<1>1. ASSUME NEW b \in Batches, Prepare(b) \/ TakeContext(b) \/ LoopEnds(b) \/ Wait(b)
      PROVE  TypeOK'
  BY <1>1 DEF Prepare, TakeContext, LoopEnds, Wait, Goto, At, To, probeVars, speedVars
<1>2. ASSUME NEW b \in Batches, Check(b)
      PROVE  TypeOK'
  <2>1. CASE Cancelled(b) /\ Batch(b)
    <3>1. Advance(b, "loop") /\ End(Tag(b), "aborted") /\ next[b] <= NTags
      BY <1>2, <2>1 DEF Check
    <3>2. ending' \in [Results -> Endings \cup {"none"}]
      BY <3>1, TagIsResult, EndTypes DEF Endings
    <3>. QED
      BY <1>2, <3>1, <3>2, AdvanceTypes DEF Check, speedVars
  <2>2. CASE ~(Cancelled(b) /\ Batch(b))
    BY <1>2, <2>2 DEF Check, Goto, To, speedVars
  <2>. QED
    BY <2>1, <2>2
<1>3. ASSUME NEW b \in Batches, Launch(b)
      PROVE  TypeOK'
  BY <1>3, TagIsResult, AdvanceTypes DEF Launch, StageInv, Advance, Goto, At, Started, speedVars
<1>4. ASSUME NEW b \in Batches, Vanished(b) \/ SpeedFails(b)
      PROVE  TypeOK'
  <2>1. Advance(b, "passed") /\ next[b] <= NTags
    BY <1>4 DEF Vanished, SpeedFails, Advance, Goto, At, StageInv
  <2>2. PICK how \in Endings : End(Tag(b), how)
    BY <1>4 DEF Vanished, SpeedFails, Endings
  <2>3. ending' \in [Results -> Endings \cup {"none"}]
    BY <2>1, <2>2, TagIsResult, EndTypes
  <2>4. buffer' \in [Buffers -> SUBSET Results]
    <3>1. Tag(b) \in Results
      BY <2>1, TagIsResult
    <3>2. UNCHANGED buffer \/ AddResult(b, Tag(b))
      BY <1>4 DEF Vanished, SpeedFails
    <3>. QED
      BY <3>1, <3>2 DEF AddResult
  <2>5. UNCHANGED <<req, stops, ctx, probe, isRunning, current, handed, lateStart>>
    BY <1>4 DEF Vanished, SpeedFails, speedVars
  <2>. QED
    BY <2>1, <2>3, <2>4, <2>5, AdvanceTypes
<1>5. ASSUME NEW b \in Batches, SpeedStarts(b) \/ SpeedStops(b)
      PROVE  TypeOK'
  <2>1. next[b] <= NTags
    BY <1>5 DEF SpeedStarts, SpeedStops, Advance, Goto, At, StageInv
  <2>. QED
    BY <1>5, <2>1, TagIsResult, AdvanceTypes DEF SpeedStarts, SpeedStops, Goto, To, Started,
         probeVars
<1>6. ASSUME NEW b \in Batches, Sample(b)
      PROVE  TypeOK'
  <2>1. next[b] <= NTags
    BY <1>6 DEF Sample, At, StageInv
  <2>. QED
    BY <1>6, <2>1, TagIsResult DEF Sample, loopVars, probeVars
<1>13. ASSUME NEW b \in Batches, SpeedDone(b) \/ SpeedCancelled(b)
       PROVE  TypeOK'
  <2>1. next[b] <= NTags /\ Goto(b, "measuring", "stopping")
    BY <1>13 DEF SpeedDone, SpeedCancelled, Goto, At, StageInv
  <2>2. PICK how \in Endings : End(Tag(b), how)
    BY <1>13 DEF SpeedDone, SpeedCancelled, Endings
  <2>3. ending' \in [Results -> Endings \cup {"none"}]
    BY <2>1, <2>2, TagIsResult, EndTypes
  <2>. QED
    BY <1>13, <2>1, <2>3, TagIsResult DEF SpeedDone, SpeedCancelled, Goto, To, speedVars
<1>7. ASSUME NEW b \in Batches, Reclaim(b)
      PROVE  TypeOK'
  BY <1>7 DEF Reclaim, Goto, At, To, probeVars, speedVars
<1>8. ASSUME NEW r \in Results, Measure(r)
      PROVE  TypeOK'
  <2>1. r[1] \in Batches
    BY DEF Results
  <2>. QED
    BY <1>8, <2>1 DEF Measure, loopVars, speedVars, End, EndingsOf, Endings, AddResult,
         BufferOf, Batch, Request, Buffers
<1>9. ASSUME NEW r \in Results, Release(r)
      PROVE  TypeOK'
  BY <1>9 DEF Release, loopVars, speedVars
<1>10. CASE StopTest
  BY <1>10 DEF StopTest, loopVars, probeVars, speedVars
<1>11. ASSUME NEW k \in Buffers, Query(k)
       PROVE  TypeOK'
  BY <1>11 DEF Query, loopVars, probeVars, speedVars
<1>12. CASE UNCHANGED vars
  BY <1>12 DEF vars, loopVars, probeVars, speedVars
<1>. QED
  BY <1>1, <1>2, <1>3, <1>4, <1>5, <1>6, <1>7, <1>8, <1>9, <1>10, <1>11, <1>12, <1>13, StepCases
-----------------------------------------------------------------------------
(***************************************************************************)
(* The steps of a loop that start no goroutine, and what they leave alone. *)
(***************************************************************************)
Quiet(b) ==
  \/ Prepare(b) \/ TakeContext(b) \/ Check(b) \/ Vanished(b) \/ LoopEnds(b)
  \/ SpeedFails(b) \/ SpeedStarts(b) \/ Sample(b) \/ SpeedDone(b)
  \/ SpeedCancelled(b) \/ SpeedStops(b) \/ Wait(b) \/ Reclaim(b)

LEMMA QuietFrame ==
  ASSUME TypeOK, NEW b \in Batches, Quiet(b)
  PROVE  /\ UNCHANGED <<req, stops, probe, handed>>
         /\ \A c \in Batches \ {b} :
              pc'[c] = pc[c] /\ next'[c] = next[c] /\ ctx'[c] = ctx[c]
         /\ \A c \in Batches : Probing(c)' = Probing(c)
<1>1. UNCHANGED <<req, stops, probe, handed>>
  BY DEF Quiet, Prepare, TakeContext, Check, Vanished, LoopEnds, SpeedFails, SpeedStarts,
     Sample, SpeedDone, SpeedCancelled, SpeedStops, Wait, Reclaim, loopVars, probeVars
<1>2. ASSUME NEW c \in Batches \ {b}
      PROVE  pc'[c] = pc[c] /\ next'[c] = next[c] /\ ctx'[c] = ctx[c]
  BY <1>2 DEF TypeOK, Quiet, Prepare, TakeContext, Check, Vanished, LoopEnds, SpeedFails,
     SpeedStarts, Sample, SpeedDone, SpeedCancelled, SpeedStops, Wait, Reclaim, loopVars,
     Advance, Goto, To
<1>3. \A c \in Batches : Probing(c)' = Probing(c)
  BY <1>1 DEF Probing, Own
<1>. QED
  BY <1>1, <1>2, <1>3

(***************************************************************************)
(* The stage of every loop is as its label says.                           *)
(***************************************************************************)
LEMMA StageStep ==
  ASSUME TypeOK, StageInv, TagInv, [Next]_vars
  PROVE  StageInv'
<1>. DEFINE Stage(b) ==
       /\ ctx[b] <= stops
       /\ pc[b] \in {"idle", "built"} => next[b] = 1
       /\ pc[b] \in {"passed", "measuring", "stopping"} => next[b] <= NTags
       /\ pc[b] \in {"measuring", "stopping"} => Speed(b)
       /\ pc[b] \in {"reclaim", "replied"} => Probing(b) = {}
<1>0. \A b \in Batches : Stage(b)
  BY DEF StageInv
<1>. SUFFICES \A b \in Batches : Stage(b)'
  BY DEF StageInv
<1>1. ASSUME NEW b \in Batches, Quiet(b), NEW c \in Batches \ {b}
      PROVE  Stage(c)'
  BY <1>0, <1>1, QuietFrame DEF Speed
<1>2. ASSUME NEW b \in Batches, Quiet(b)
      PROVE  Stage(b)'
  <2>. USE <1>0 DEF TypeOK, Goto, At, To
  <2>1. /\ UNCHANGED <<stops, probe>>
        /\ Probing(b)' = Probing(b)
        /\ Speed(b)' = Speed(b)
    BY <1>2, QuietFrame DEF Speed
  <2>2. CASE Prepare(b)
    <3>1. Probing(b) = {}
      BY <2>2 DEF Prepare, TagInv, Probing, Own, Places
    <3>. QED
      BY <2>1, <2>2, <3>1 DEF Prepare
  <2>3. CASE TakeContext(b)
    BY <2>1, <2>3 DEF TakeContext
  <2>4. CASE Check(b)
    BY <2>1, <2>4 DEF Check, Advance
  <2>5. CASE Vanished(b) \/ SpeedFails(b) \/ SpeedStops(b)
    BY <2>1, <2>5 DEF Vanished, SpeedFails, SpeedStops, Advance
  <2>6. CASE LoopEnds(b) \/ Sample(b) \/ Reclaim(b)
    BY <2>1, <2>6 DEF LoopEnds, Sample, Reclaim, loopVars
  <2>7. CASE SpeedStarts(b) \/ SpeedDone(b) \/ SpeedCancelled(b)
    BY <2>1, <2>7 DEF SpeedStarts, SpeedDone, SpeedCancelled
  <2>8. CASE Wait(b)
    BY <2>1, <2>8 DEF Wait
  <2>. QED
    BY <1>2, <2>2, <2>3, <2>4, <2>5, <2>6, <2>7, <2>8 DEF Quiet
<1>3. ASSUME NEW b \in Batches, Launch(b), NEW c \in Batches
      PROVE  Stage(c)'
  <2>1. CASE c = b
    BY <1>0, <1>3, <2>1 DEF TypeOK, Launch, Advance, Goto, To, Speed
  <2>2. CASE c # b
    <3>1. \A r \in Own(c) : probe'[r] = probe[r]
      BY <1>3, <2>2 DEF TypeOK, Launch, Tag, Own, Results
    <3>2. Probing(c)' = Probing(c)
      BY <3>1 DEF Probing, Own
    <3>. QED
      BY <1>0, <1>3, <2>2, <3>2 DEF TypeOK, Launch, Advance, Goto, To, Speed
  <2>. QED
    BY <2>1, <2>2
<1>4. ASSUME NEW r \in Results, Measure(r) \/ Release(r), NEW c \in Batches
      PROVE  Stage(c)'
  <2>1. Probing(c)' \subseteq Probing(c)
    BY <1>4 DEF TypeOK, Measure, Release, Probing, Own, Results
  <2>. QED
    BY <1>0, <1>4, <2>1 DEF Measure, Release, loopVars, Speed
<1>5. ASSUME StopTest, NEW c \in Batches
      PROVE  Stage(c)'
  BY <1>0, <1>5 DEF TypeOK, StopTest, loopVars, probeVars, Probing, Own, Speed
<1>6. ASSUME (\E k \in Buffers : Query(k)) \/ UNCHANGED vars, NEW c \in Batches
      PROVE  Stage(c)'
  BY <1>0, <1>6 DEF Query, vars, loopVars, probeVars, Probing, Own, Speed
<1>. QED
  BY <1>1, <1>2, <1>3, <1>4, <1>5, <1>6, StepCases DEF Quiet

(***************************************************************************)
(* A step notes at most the end of the tag its loop is at.                 *)
(***************************************************************************)
LEMMA QuietEnds ==
  ASSUME TypeOK, NEW b \in Batches, Quiet(b)
  PROVE  \A c \in Batches, i \in Places :
           c # b \/ i # next[b] => ending'[<<c, i>>] = ending[<<c, i>>]
<1>1. UNCHANGED ending \/ \E how \in Endings : End(Tag(b), how)
  BY DEF Quiet, Prepare, TakeContext, Check, Vanished, LoopEnds, SpeedFails, SpeedStarts,
     Sample, SpeedDone, SpeedCancelled, SpeedStops, Wait, Reclaim, probeVars, Endings
<1>. QED
  BY <1>1 DEF TypeOK, End, Tag, Results

(***************************************************************************)
(* Tags behind a loop have been dealt with, tags before it have not.       *)
(***************************************************************************)
LEMMA TagStep ==
  ASSUME TypeOK, StageInv, TagInv, BufferExact, [Next]_vars
  PROVE  TagInv'
<1>. DEFINE TagOf(b, i) ==
       /\ i >= next[b] => probe[<<b, i>>] = "none"
       /\ ending[<<b, i>>] = "none" <=>
            \/ probe[<<b, i>>] = "running"
            \/ i >= next[b] /\ ~(pc[b] = "stopping" /\ i = next[b])
       /\ <<b, i>> \in handed => ending[<<b, i>>] # "none"
<1>0. \A b \in Batches, i \in Places : TagOf(b, i)
  BY DEF TagInv, At
<1>. SUFFICES \A b \in Batches, i \in Places : TagOf(b, i)'
  BY DEF TagInv, At
<1>1. ASSUME NEW b \in Batches, Quiet(b), NEW c \in Batches \ {b}, NEW i \in Places
      PROVE  TagOf(c, i)'
  BY <1>0, <1>1, QuietFrame, QuietEnds
<1>2. ASSUME NEW b \in Batches, Quiet(b), NEW i \in Places
      PROVE  TagOf(b, i)'
  <2>. USE DEF Goto, At, To
  <2>1. /\ TagOf(b, i)
        /\ UNCHANGED <<probe, handed>>
        /\ i # next[b] => ending'[<<b, i>>] = ending[<<b, i>>]
        /\ i \in Nat /\ next[b] \in Nat
    BY <1>0, <1>2, QuietFrame, QuietEnds, BatchAssumption DEF TypeOK, Places
  <2>2. CASE \/ Prepare(b) \/ TakeContext(b) \/ LoopEnds(b) \/ SpeedStarts(b)
             \/ Sample(b) \/ Wait(b) \/ Reclaim(b)
    <3>1. next'[b] = next[b] /\ ending' = ending /\ (pc'[b] = "stopping" <=> pc[b] = "stopping")
      BY <2>2 DEF Prepare, TakeContext, LoopEnds, SpeedStarts, Sample, Wait, Reclaim,
         loopVars, probeVars, TypeOK
    <3>. QED
      BY <2>1, <3>1
  <2>3. ASSUME Advance(b, "loop") \/ Advance(b, "passed"), End(Tag(b), "aborted") \/ End(Tag(b), "told") \/ End(Tag(b), "untold")
        PROVE  TagOf(b, i)'
    <3>1. next'[b] = next[b] + 1 /\ pc[b] \in {"loop", "passed"} /\ pc'[b] = "loop"
      BY <2>3 DEF Advance, TypeOK
    <3>2. i = next[b] => ending'[<<b, i>>] # "none"
      BY <2>3 DEF End, Tag, TypeOK, Results
    <3>. QED
      BY <2>1, <3>1, <3>2
  <2>4. CASE Check(b)
    <3>1. CASE Cancelled(b) /\ Batch(b)
      BY <2>3, <2>4, <3>1 DEF Check
    <3>2. CASE ~(Cancelled(b) /\ Batch(b))
      BY <2>1, <2>4, <3>2 DEF Check, TypeOK
    <3>. QED
      BY <3>1, <3>2
  <2>5. CASE Vanished(b) \/ SpeedFails(b)
    BY <2>3, <2>5 DEF Vanished, SpeedFails
  <2>6. CASE SpeedDone(b) \/ SpeedCancelled(b)
    <3>1. next'[b] = next[b] /\ pc'[b] = "stopping" /\ pc[b] = "measuring"
      BY <2>6 DEF SpeedDone, SpeedCancelled, TypeOK
    <3>2. i = next[b] => ending'[<<b, i>>] # "none"
      <4>1. PICK how \in Endings : End(Tag(b), how)
        BY <2>6 DEF SpeedDone, SpeedCancelled, Endings
      <4>. QED
        BY <4>1 DEF End, Tag, TypeOK, Results, Endings
    <3>3. probe[<<b, i>>] = "running" => i # next[b]
      BY <2>1
    <3>. QED
      BY <2>1, <3>1, <3>2, <3>3
  <2>7. CASE SpeedStops(b)
    <3>1. next'[b] = next[b] + 1 /\ pc[b] = "stopping" /\ pc'[b] = "loop" /\ ending' = ending
      BY <2>7 DEF SpeedStops, Advance, probeVars, TypeOK
    <3>. QED
      BY <2>1, <3>1
  <2>. QED
    BY <1>2, <2>2, <2>4, <2>5, <2>6, <2>7 DEF Quiet
<1>3. ASSUME NEW b \in Batches, Launch(b), NEW c \in Batches, NEW i \in Places
      PROVE  TagOf(c, i)'
  <2>1. /\ TagOf(c, i) /\ TagOf(b, i)
        /\ i \in Nat /\ next[b] \in Nat
    BY <1>0, BatchAssumption DEF TypeOK, Places
  <2>2. /\ pc[b] = "passed" /\ UNCHANGED <<ending, handed>>
        /\ pc'[c] = IF c = b THEN "loop" ELSE pc[c]
        /\ next'[c] = IF c = b THEN next[b] + 1 ELSE next[c]
    BY <1>3 DEF Launch, Advance, Goto, At, To, TypeOK
  <2>3. probe'[<<c, i>>] = IF c = b /\ i = next[b] THEN "running" ELSE probe[<<c, i>>]
    BY <1>3 DEF Launch, Tag, TypeOK, Results
  <2>. QED
    BY <2>1, <2>2, <2>3
<1>4. ASSUME NEW r \in Results, Measure(r) \/ Release(r), NEW c \in Batches, NEW i \in Places
      PROVE  TagOf(c, i)'
  <2>1. TagOf(c, i) /\ UNCHANGED <<pc, next, handed>>
    BY <1>0, <1>4 DEF Measure, Release, loopVars
  <2>2. CASE r # <<c, i>>
    <3>1. probe'[<<c, i>>] = probe[<<c, i>>] /\ ending'[<<c, i>>] = ending[<<c, i>>]
      BY <1>4, <2>2 DEF Measure, Release, End, TypeOK, Results
    <3>. QED
      BY <2>1, <3>1
  <2>3. CASE r = <<c, i>> /\ Measure(r)
    <3>1. /\ probe[<<c, i>>] = "running" /\ probe'[<<c, i>>] = "published"
          /\ ending'[<<c, i>>] # "none"
      BY <2>3 DEF Measure, End, EndingsOf, TypeOK, Results
    <3>. QED
      BY <2>1, <3>1
  <2>4. CASE r = <<c, i>> /\ Release(r)
    <3>1. /\ probe[<<c, i>>] = "published" /\ probe'[<<c, i>>] = "done"
          /\ ending'[<<c, i>>] = ending[<<c, i>>]
      BY <2>4 DEF Release, TypeOK, Results
    <3>. QED
      BY <2>1, <3>1
  <2>. QED
    BY <1>4, <2>2, <2>3, <2>4
<1>5. ASSUME NEW k \in Buffers, Query(k), NEW c \in Batches, NEW i \in Places
      PROVE  TagOf(c, i)'
  <2>1. /\ TagOf(c, i) /\ UNCHANGED <<pc, next, probe, ending>>
        /\ handed' = handed \cup buffer[k]
    BY <1>0, <1>5 DEF Query, loopVars, probeVars
  <2>2. <<c, i>> \in buffer[k] => <<c, i>> \in Published(c)
    BY DEF BufferExact, Published, Own
  <2>3. <<c, i>> \in Published(c) => ending[<<c, i>>] # "none"
    BY <2>1 DEF Published
  <2>. QED
    BY <2>1, <2>2, <2>3
<1>6. ASSUME StopTest \/ UNCHANGED vars, NEW c \in Batches, NEW i \in Places
      PROVE  TagOf(c, i)'
  BY <1>0, <1>6 DEF StopTest, vars, loopVars, probeVars
<1>7. ASSUME NEW b \in Batches, Quiet(b), NEW c \in Batches, NEW i \in Places
      PROVE  TagOf(c, i)'
  BY <1>1, <1>2, <1>7
<1>. HIDE DEF TagOf
<1>. QED
  BY <1>3, <1>4, <1>5, <1>6, <1>7, StepCases DEF Quiet

-----------------------------------------------------------------------------
(***************************************************************************)
(* BufferExact result by result.                                           *)
(***************************************************************************)
Buffered(b, i, k) ==
  /\ BufferOf(b) = k /\ pc[b] # "replied" /\ <<b, i>> \notin handed
  /\ \/ probe[<<b, i>>] \in {"published", "done"}
     \/ probe[<<b, i>>] = "none" /\ ending[<<b, i>>] = "told" /\ Country(b)

LEMMA BufferStep ==
  ASSUME TypeOK, TypeOK', StageInv, TagInv, BufferExact, [Next]_vars
  PROVE  BufferExact'
<1>0. ASSUME NEW b \in Batches, NEW i \in Places, NEW k \in Buffers
      PROVE  <<b, i>> \in buffer[k] <=> Buffered(b, i, k)
  BY DEF BufferExact, Published, Own, Buffered, At
<1>. SUFFICES ASSUME NEW c \in Batches, NEW i \in Places, NEW k \in Buffers
              PROVE  <<c, i>> \in buffer'[k] <=> Buffered(c, i, k)'
  <2>1. \A k \in Buffers : buffer'[k] \subseteq Results
    BY DEF TypeOK
  <2>. QED
    BY <2>1 DEF BufferExact, Published, Own, Buffered, At, Results
<1>. DEFINE OK == <<c, i>> \in buffer'[k] <=> Buffered(c, i, k)'
<1>1. /\ <<c, i>> \in buffer[k] <=> Buffered(c, i, k)
      /\ i >= next[c] => probe[<<c, i>>] = "none"
      /\ ending[<<c, i>>] = "none" <=>
           \/ probe[<<c, i>>] = "running"
           \/ i >= next[c] /\ ~(pc[c] = "stopping" /\ i = next[c])
      /\ <<c, i>> \in handed => ending[<<c, i>>] # "none"
  BY <1>0 DEF TagInv, At
<1>2. UNCHANGED req
  BY StepCases, QuietFrame DEF Quiet, Launch, Measure, Release, StopTest, Query, vars, loopVars
<1>3. BufferOf(c)' = BufferOf(c) /\ Country(c)' = Country(c)
  BY <1>2 DEF BufferOf, Batch, Country
<1>4. ASSUME NEW b \in Batches, Quiet(b)
      PROVE  OK
  <2>1. /\ UNCHANGED <<probe, handed>>
        /\ c # b => pc'[c] = pc[c]
        /\ c # b \/ i # next[b] => ending'[<<c, i>>] = ending[<<c, i>>]
    BY <1>4, QuietFrame, QuietEnds
  <2>2. CASE \/ Prepare(b) \/ TakeContext(b) \/ LoopEnds(b) \/ SpeedStarts(b)
             \/ Sample(b) \/ Wait(b) \/ SpeedStops(b)
    <3>1. ending' = ending /\ buffer' = buffer
      BY <2>2 DEF Prepare, TakeContext, LoopEnds, SpeedStarts, SpeedStops, Sample, Wait,
         loopVars, probeVars
    <3>2. c = b => \/ pc'[b] # "replied" /\ pc[b] # "replied"
                   \/ pc[b] = "idle" /\ pc'[b] = "replied"
      BY <2>2 DEF Prepare, TakeContext, LoopEnds, SpeedStarts, SpeedStops, Sample, Wait,
         Advance, Goto, At, To, TypeOK, loopVars
    <3>3. c = b /\ pc[b] = "idle" => ~Buffered(c, i, k) /\ ~Buffered(c, i, k)'
      <4>1. pc[c] = "idle" => i >= next[c]
        BY DEF StageInv, Places
      <4>. QED
        BY <1>1, <2>1, <3>1, <4>1 DEF Buffered
    <3>. QED
      BY <1>1, <1>3, <2>1, <3>1, <3>2, <3>3 DEF Buffered
  <2>3. CASE Check(b) \/ SpeedFails(b) \/ SpeedDone(b) \/ SpeedCancelled(b)
    <3>1. buffer' = buffer
      BY <2>3 DEF Check, SpeedFails, SpeedDone, SpeedCancelled
    <3>2. c = b => pc'[b] # "replied" /\ pc[b] # "replied"
      BY <2>3 DEF Check, SpeedFails, SpeedDone, SpeedCancelled, Advance, Goto, At, To, TypeOK
    <3>3. Country(b) => UNCHANGED ending
      <4>1. CASE Check(b)
        BY <4>1 DEF Check, Country, Batch
      <4>2. CASE SpeedFails(b) \/ SpeedDone(b) \/ SpeedCancelled(b)
        <5>1. Speed(b)
          BY <4>2 DEF SpeedFails, SpeedDone, SpeedCancelled, StageInv, Goto, At
        <5>. QED
          BY <5>1 DEF Country, Speed
      <4>. QED
        BY <2>3, <4>1, <4>2
    <3>. QED
      BY <1>1, <1>3, <2>1, <3>1, <3>2, <3>3 DEF Buffered
  <2>4. CASE Vanished(b)
    <3>1. /\ pc[b] = "passed" /\ pc'[b] = "loop"
          /\ ending' = [ending EXCEPT ![<<b, next[b]>>] = "told"]
          /\ IF Country(b) THEN AddResult(b, <<b, next[b]>>) ELSE UNCHANGED buffer
      BY <2>4 DEF Vanished, Advance, Goto, At, To, End, Tag, TypeOK
    <3>2. c = b /\ i = next[b] => /\ probe[<<c, i>>] = "none" /\ <<c, i>> \notin handed
                                  /\ ending'[<<c, i>>] = "told"
      BY <1>1, <3>1 DEF TypeOK, Places, Results
    <3>3. ~(c = b /\ i = next[b]) => <<c, i>> # <<b, next[b]>>
      OBVIOUS
    <3>4. <<c, i>> \in buffer'[k] <=>
            \/ <<c, i>> \in buffer[k]
            \/ Country(b) /\ c = b /\ i = next[b] /\ BufferOf(b) = k
      BY <3>1 DEF AddResult, TypeOK
    <3>. QED
      BY <1>1, <1>3, <2>1, <3>1, <3>2, <3>4 DEF Buffered
  <2>5. CASE Reclaim(b)
    <3>1. /\ pc[b] = "reclaim" /\ pc'[b] = "replied" /\ UNCHANGED ending
          /\ buffer' = [buffer EXCEPT ![BufferOf(b)] = @ \ {r \in Own(b) : ending[r] # "none"}]
      BY <2>5 DEF Reclaim, Goto, At, To, probeVars, TypeOK
    <3>2. CASE c = b
      <4>1. <<c, i>> \in buffer[k] => BufferOf(b) = k /\ ending[<<c, i>>] # "none"
        BY <1>1, <3>2 DEF Buffered
      <4>2. <<c, i>> \notin buffer'[k]
        BY <3>1, <3>2, <4>1 DEF Own, TypeOK
      <4>. QED
        BY <3>1, <3>2, <4>2 DEF Buffered
    <3>3. CASE c # b
      <4>1. <<c, i>> \in buffer'[k] <=> <<c, i>> \in buffer[k]
        BY <3>1, <3>3 DEF Own, TypeOK
      <4>. QED
        BY <1>1, <1>3, <2>1, <3>1, <3>3, <4>1 DEF Buffered
    <3>. QED
      BY <3>2, <3>3
  <2>. QED
    BY <1>4, <2>2, <2>3, <2>4, <2>5 DEF Quiet
<1>5. ASSUME NEW b \in Batches, Launch(b)
      PROVE  OK
  <2>1. /\ pc[b] = "passed" /\ UNCHANGED <<ending, handed, buffer>>
        /\ pc'[c] = IF c = b THEN "loop" ELSE pc[c]
    BY <1>5 DEF Launch, Advance, Goto, At, To, TypeOK
  <2>2. probe'[<<c, i>>] = IF c = b /\ i = next[b] THEN "running" ELSE probe[<<c, i>>]
    BY <1>5 DEF Launch, Tag, TypeOK, Results
  <2>3. c = b /\ i = next[b] => ~Buffered(c, i, k)
    BY <1>1, <2>1 DEF Buffered, TypeOK
  <2>. QED
    BY <1>1, <1>3, <2>1, <2>2, <2>3 DEF Buffered
<1>6. ASSUME NEW r \in Results, Measure(r) \/ Release(r)
      PROVE  OK
  <2>1. UNCHANGED <<pc, next, handed>>
    BY <1>6 DEF Measure, Release, loopVars
  <2>2. CASE Measure(r) /\ r # <<c, i>>
    <3>1. probe'[<<c, i>>] = probe[<<c, i>>] /\ ending'[<<c, i>>] = ending[<<c, i>>]
      BY <2>2 DEF Measure, End, TypeOK, Results
    <3>2. <<c, i>> \in buffer'[k] <=> <<c, i>> \in buffer[k]
      BY <2>2 DEF Measure, AddResult, TypeOK
    <3>. QED
      BY <1>1, <1>3, <2>1, <3>1, <3>2 DEF Buffered
  <2>3. CASE Measure(r) /\ r = <<c, i>>
    <3>1. probe[<<c, i>>] = "running" /\ probe'[<<c, i>>] = "published"
      BY <2>3 DEF Measure, TypeOK, Results
    <3>2. <<c, i>> \in buffer'[k] <=> \/ <<c, i>> \in buffer[k] \/ BufferOf(c) = k
      BY <2>3 DEF Measure, AddResult, TypeOK
    <3>3. pc[c] # "replied"
      BY <3>1 DEF StageInv, Probing, Own
    <3>4. <<c, i>> \notin handed
      BY <1>1, <3>1
    <3>. QED
      BY <1>1, <1>3, <2>1, <3>1, <3>2, <3>3, <3>4 DEF Buffered
  <2>4. CASE Release(r)
    <3>1. /\ ending' = ending /\ buffer' = buffer
          /\ \/ probe'[<<c, i>>] = probe[<<c, i>>]
             \/ probe[<<c, i>>] = "published" /\ probe'[<<c, i>>] = "done"
      BY <2>4 DEF Release, TypeOK, Results
    <3>. QED
      BY <1>1, <1>3, <2>1, <3>1 DEF Buffered
  <2>. QED
    BY <1>6, <2>2, <2>3, <2>4
<1>7. ASSUME NEW q \in Buffers, Query(q)
      PROVE  OK
  <2>1. /\ UNCHANGED <<pc, next, probe, ending>>
        /\ handed' = handed \cup buffer[q]
        /\ buffer'[k] = IF k = q THEN {} ELSE buffer[k]
    BY <1>7 DEF Query, loopVars, probeVars, TypeOK
  <2>2. <<c, i>> \in buffer[q] => BufferOf(c) = q
    BY <1>0 DEF Buffered
  <2>. QED
    BY <1>1, <1>3, <2>1, <2>2 DEF Buffered
<1>8. CASE StopTest \/ UNCHANGED vars
  BY <1>1, <1>3, <1>8 DEF StopTest, vars, loopVars, probeVars, Buffered
<1>. QED
  BY <1>4, <1>5, <1>6, <1>7, <1>8, StepCases DEF Quiet

-----------------------------------------------------------------------------
(***************************************************************************)
(* Whoever starts a tag late never gets past the check again.              *)
(***************************************************************************)
LEMMA LateStep ==
  ASSUME TypeOK, StageInv, LateInv, [Next]_vars
  PROVE  LateInv'
<1>. DEFINE Late(c) ==
       \/ lateStart \cap Own(c) = {}
       \/ /\ ctx[c] # stops
          /\ pc[c] \notin {"idle", "built", "passed"}
          /\ \E r \in Own(c) : lateStart \cap Own(c) = {r}
<1>0. \A c \in Batches : Late(c)
  BY DEF LateInv, Cancelled
<1>. SUFFICES ASSUME NEW c \in Batches
              PROVE  Late(c)'
  BY DEF LateInv, Cancelled
<1>1. Late(c) /\ Own(c)' = Own(c)
  BY <1>0 DEF Own
<1>2. ASSUME NEW b \in Batches, Launch(b) \/ SpeedStarts(b)
      PROVE  Late(c)'
  <2>1. /\ pc[b] = "passed" /\ pc' = [pc EXCEPT ![b] = pc'[b]]
        /\ pc'[b] \in {"loop", "measuring"}
        /\ UNCHANGED <<ctx, stops>>
        /\ lateStart' = IF ctx[b] # stops THEN lateStart \cup {Tag(b)} ELSE lateStart
    <3>1. Tag(b)[1] = b
      BY DEF Tag
    <3>. QED
      BY <1>2, <3>1 DEF Launch, SpeedStarts, Advance, Goto, At, To, Started, Cancelled, TypeOK
  <2>2. Tag(b) \in Own(b)
    <3>1. next[b] <= NTags
      BY <2>1 DEF StageInv
    <3>. QED
      BY <3>1, TagIsResult DEF Tag, Own
  <2>3. CASE c = b
    <3>1. lateStart \cap Own(c) = {}
      BY <1>1, <2>1, <2>3
    <3>2. CASE ctx[b] # stops
      <4>1. lateStart' \cap Own(c) = {Tag(b)}
        BY <2>1, <2>2, <2>3, <3>1, <3>2
      <4>. QED
        BY <1>1, <2>1, <2>2, <2>3, <3>2, <4>1
    <3>3. CASE ctx[b] = stops
      BY <1>1, <2>1, <3>1, <3>3
    <3>. QED
      BY <3>2, <3>3
  <2>4. CASE c # b
    <3>1. Tag(b) \notin Own(c)
      BY <2>4 DEF Tag, Own
    <3>2. lateStart' \cap Own(c) = lateStart \cap Own(c)
      BY <2>1, <3>1
    <3>3. pc'[c] = pc[c]
      BY <2>1, <2>4 DEF TypeOK
    <3>. QED
      BY <1>1, <2>1, <3>2, <3>3
  <2>. QED
    BY <2>3, <2>4
<1>3. ASSUME NEW b \in Batches, Quiet(b), ~SpeedStarts(b)
      PROVE  Late(c)'
  <2>1. lateStart' = lateStart /\ stops' = stops
    BY <1>3 DEF Quiet, Prepare, TakeContext, Check, Vanished, LoopEnds, SpeedFails, Sample,
       SpeedDone, SpeedCancelled, SpeedStops, Wait, Reclaim, loopVars, probeVars
  <2>2. CASE c # b
    BY <1>1, <1>3, <2>1, <2>2, QuietFrame
  <2>3. CASE c = b
    <3>1. CASE pc[c] \in {"idle", "built", "passed"}
      BY <1>1, <2>1, <3>1
    <3>2. CASE pc[c] \notin {"idle", "built", "passed"}
      <4>1. CASE Check(b)
        BY <1>1, <2>1, <2>3, <3>2, <4>1 DEF Check, Cancelled, Advance, Goto, To, TypeOK
      <4>2. CASE ~Check(b)
        <5>1. ctx' = ctx /\ pc'[b] \notin {"idle", "built", "passed"}
          BY <1>3, <2>3, <3>2, <4>2 DEF Quiet, Prepare, TakeContext, Vanished, LoopEnds,
             SpeedFails, Sample, SpeedDone, SpeedCancelled, SpeedStops, Wait, Reclaim,
             loopVars, Advance, Goto, At, To, TypeOK
        <5>. QED
          BY <1>1, <2>1, <2>3, <5>1
      <4>. QED
        BY <4>1, <4>2
    <3>. QED
      BY <3>1, <3>2
  <2>. QED
    BY <2>2, <2>3
<1>4. CASE StopTest
  <2>1. UNCHANGED <<pc, ctx, lateStart>> /\ stops' = stops + 1
    BY <1>4 DEF StopTest, loopVars
  <2>2. ctx[c] # stops'
    BY <2>1, BatchAssumption DEF StageInv, TypeOK
  <2>. QED
    BY <1>1, <2>1, <2>2
<1>5. CASE (\E r \in Results : Measure(r) \/ Release(r)) \/ (\E k \in Buffers : Query(k))
           \/ UNCHANGED vars
  BY <1>1, <1>5 DEF Measure, Release, Query, vars, loopVars
<1>. QED
  BY <1>2, <1>3, <1>4, <1>5, StepCases DEF Quiet

(***************************************************************************)
(* What a loop tells and how far it comes.                                 *)
(***************************************************************************)
LEMMA TellStep ==
  ASSUME TypeOK, TypeOK', StageInv, TagInv, TellInv, [Next]_vars
  PROVE  TellInv'
<1>. DEFINE Far(c) == pc[c] \in {"wait", "reclaim"} \/ (pc[c] = "replied" /\ next[c] > 1) =>
                        (Batch(c) \/ ctx[c] = stops => next[c] > NTags)
            Told(c) == ctx[c] = stops =>
                         \A i \in Places : ending[<<c, i>>] \in {"none", "told"}
<1>0. \A c \in Batches : Far(c) /\ Told(c)
  BY DEF TellInv, Answered, At, Cancelled, Own
<1>. SUFFICES ASSUME NEW c \in Batches
              PROVE  Far(c)' /\ Told(c)'
  BY DEF TellInv, Answered, At, Cancelled, Own
<1>1. Far(c) /\ Told(c) /\ next[c] \in 1 .. NTags + 1 /\ NTags \in Nat
  BY <1>0, BatchAssumption DEF TypeOK
<1>2. ASSUME NEW b \in Batches, Quiet(b), c # b
      PROVE  Far(c)' /\ Told(c)'
  BY <1>1, <1>2, QuietFrame, QuietEnds DEF Batch
<1>3. ASSUME Quiet(c)
      PROVE  Far(c)'
  <2>. USE DEF Goto, At, To
  <2>1. Batch(c)' = Batch(c) /\ stops' = stops
    BY <1>3, QuietFrame DEF Batch
  <2>2. CASE Prepare(c)
    BY <1>1, <2>2 DEF Prepare, StageInv, TypeOK
  <2>3. CASE \/ TakeContext(c) \/ Vanished(c) \/ SpeedFails(c) \/ SpeedStarts(c)
             \/ SpeedDone(c) \/ SpeedCancelled(c) \/ SpeedStops(c)
    BY <2>3 DEF TakeContext, Vanished, SpeedFails, SpeedStarts, SpeedDone, SpeedCancelled,
       SpeedStops, Advance, TypeOK
  <2>4. CASE Check(c)
    BY <2>1, <2>4 DEF Check, Cancelled, Advance, TypeOK
  <2>5. CASE LoopEnds(c)
    BY <1>1, <2>5 DEF LoopEnds, TypeOK
  <2>6. CASE Sample(c)
    BY <1>1, <2>6 DEF Sample, loopVars
  <2>7. CASE Wait(c) \/ Reclaim(c)
    BY <1>1, <2>1, <2>7 DEF Wait, Reclaim, TypeOK
  <2>. QED
    BY <1>3, <2>2, <2>3, <2>4, <2>5, <2>6, <2>7 DEF Quiet
<1>4. ASSUME Quiet(c)
      PROVE  Told(c)'
  <2>. USE DEF Goto, At, To
  <2>1. stops' = stops /\ \A i \in Places : i # next[c] => ending'[<<c, i>>] = ending[<<c, i>>]
    BY <1>4, QuietFrame, QuietEnds
  <2>2. CASE TakeContext(c)
    <3>1. \A i \in Places : ending[<<c, i>>] = "none"
      BY <2>2, TagIsResult DEF TakeContext, StageInv, TagInv, Places
    <3>. QED
      BY <2>2, <3>1 DEF TakeContext, probeVars
  <2>3. CASE Prepare(c) \/ LoopEnds(c) \/ SpeedStarts(c) \/ Sample(c) \/ SpeedStops(c)
             \/ Wait(c) \/ Reclaim(c)
    <3>1. UNCHANGED <<ctx, ending>>
      BY <2>3 DEF Prepare, LoopEnds, SpeedStarts, Sample, SpeedStops, Wait, Reclaim, loopVars,
         probeVars
    <3>. QED
      BY <1>1, <2>1, <3>1
  <2>4. CASE Check(c)
    <3>1. ctx' = ctx /\ (ctx[c] = stops => ending' = ending)
      BY <2>4 DEF Check, Cancelled
    <3>. QED
      BY <1>1, <2>1, <3>1
  <2>5. CASE Vanished(c) \/ SpeedFails(c) \/ SpeedDone(c) \/ SpeedCancelled(c)
    <3>1. ctx' = ctx /\ (ctx[c] = stops => End(Tag(c), "told"))
      BY <2>5 DEF Vanished, SpeedFails, SpeedDone, SpeedCancelled, Cancelled
    <3>2. ctx[c] = stops => ending' = [ending EXCEPT ![<<c, next[c]>>] = "told"]
      BY <3>1 DEF End, Tag
    <3>3. ASSUME ctx[c] = stops, NEW i \in Places
          PROVE  ending'[<<c, i>>] = ending[<<c, i>>] \/ ending'[<<c, i>>] = "told"
      <4>1. <<c, i>> \in Results
        BY DEF Results
      <4>. QED
        BY <3>2, <3>3, <4>1 DEF TypeOK
    <3>. QED
      BY <1>1, <2>1, <3>1, <3>3
  <2>. QED
    BY <1>4, <2>2, <2>3, <2>4, <2>5 DEF Quiet
<1>5. ASSUME NEW b \in Batches, Launch(b)
      PROVE  Far(c)' /\ Told(c)'
  <2>1. UNCHANGED <<req, ctx, stops, ending>> /\ pc'[b] = "loop"
        /\ (c # b => pc'[c] = pc[c] /\ next'[c] = next[c])
    BY <1>5 DEF Launch, Advance, Goto, At, To, TypeOK
  <2>. QED
    BY <1>1, <2>1 DEF Batch
<1>6. ASSUME NEW r \in Results, Measure(r) \/ Release(r)
      PROVE  Far(c)' /\ Told(c)'
  <2>1. UNCHANGED <<req, pc, next, ctx, stops>>
    BY <1>6 DEF Measure, Release, loopVars
  <2>2. CASE Measure(r)
    <3>1. PICK how \in EndingsOf(r) : End(r, how)
      BY <2>2 DEF Measure
    <3>2. ASSUME NEW i \in Places, ctx[c] = stops
          PROVE  ending'[<<c, i>>] \in {"none", "told"}
      <4>1. CASE r = <<c, i>>
        <5>1. how = "told"
          BY <3>1, <3>2, <4>1 DEF EndingsOf, Cancelled
        <5>. QED
          BY <3>1, <4>1, <5>1 DEF End, TypeOK
      <4>2. CASE r # <<c, i>>
        BY <1>1, <3>1, <3>2, <4>2 DEF End, TypeOK, Results
      <4>. QED
        BY <4>1, <4>2
    <3>. QED
      BY <1>1, <2>1, <3>2 DEF Batch
  <2>3. CASE Release(r)
    BY <1>1, <2>1, <2>3 DEF Release, Batch
  <2>. QED
    BY <1>6, <2>2, <2>3
<1>7. CASE StopTest
  <2>1. UNCHANGED <<req, pc, next, ctx>> /\ stops' = stops + 1
    BY <1>7 DEF StopTest, loopVars
  <2>2. ctx[c] # stops'
    BY <2>1, BatchAssumption DEF StageInv, TypeOK
  <2>. QED
    BY <1>1, <2>1, <2>2 DEF Batch
<1>8. CASE (\E k \in Buffers : Query(k)) \/ UNCHANGED vars
  BY <1>1, <1>8 DEF Query, vars, loopVars, probeVars, Batch
<1>. QED
  BY <1>2, <1>3, <1>4, <1>5, <1>6, <1>7, <1>8, StepCases DEF Quiet

(***************************************************************************)
(* Only a speed test that is under way sets isRunning.                     *)
(***************************************************************************)
LEMMA QuerierStep ==
  ASSUME TypeOK, QuerierSettles, [Next]_vars
  PROVE  QuerierSettles'
<1>1. ASSUME NEW b \in Batches, SpeedStarts(b) \/ SpeedStops(b)
      PROVE  QuerierSettles'
  BY <1>1 DEF SpeedStarts, SpeedStops, Goto, To, TypeOK, QuerierSettles
<1>2. ASSUME NEW b \in Batches, SpeedDone(b) \/ SpeedCancelled(b) \/ Sample(b)
      PROVE  QuerierSettles'
  <2>1. /\ isRunning' = isRunning
        /\ \A c \in Batches :
             pc[c] \in {"measuring", "stopping"} => pc'[c] \in {"measuring", "stopping"}
    BY <1>2 DEF SpeedDone, SpeedCancelled, Sample, Goto, To, loopVars, speedVars, TypeOK
  <2>. QED
    BY <2>1 DEF QuerierSettles
<1>3. ASSUME NEW b \in Batches,
             \/ Prepare(b) \/ TakeContext(b) \/ Check(b) \/ Launch(b) \/ Vanished(b)
             \/ LoopEnds(b) \/ SpeedFails(b) \/ Wait(b) \/ Reclaim(b)
      PROVE  QuerierSettles'
  <2>1. /\ isRunning' = isRunning
        /\ pc[b] \notin {"measuring", "stopping"}
        /\ \A c \in Batches \ {b} : pc'[c] = pc[c]
    BY <1>3 DEF Prepare, TakeContext, Check, Launch, Vanished, LoopEnds, SpeedFails, Wait,
       Reclaim, Advance, Goto, At, To, speedVars, TypeOK
  <2>. QED
    BY <2>1 DEF QuerierSettles
<1>4. CASE \/ \E r \in Results : Measure(r) \/ Release(r)
           \/ StopTest
           \/ \E k \in Buffers : Query(k)
           \/ UNCHANGED vars
  BY <1>4 DEF Measure, Release, StopTest, Query, vars, loopVars, speedVars, QuerierSettles
<1>. QED
  BY <1>1, <1>2, <1>3, <1>4, StepCases

-----------------------------------------------------------------------------
(***************************************************************************)
(* BatchInv is an invariant: each conjunct is preserved by the lemma above *)
(* that is named after it.                                                 *)
(***************************************************************************)
THEOREM Inductive == Spec => []BatchInv
<1>1. Init => BatchInv
  BY BatchInit
<1>2. BatchInv /\ [Next]_vars => BatchInv'
  BY TypeStep, StageStep, TagStep, BufferStep, LateStep, TellStep, QuerierStep DEF BatchInv
<1>. QED
  BY <1>1, <1>2, PTL DEF Spec

(***************************************************************************)
(* The variables have their types, next never runs past the last tag by    *)
(* more than one, and no context is newer than the current one.            *)
(***************************************************************************)
THEOREM TypeCorrect == Spec => []TypeOK
<1>1. BatchInv => TypeOK
  BY DEF BatchInv
<1>. QED
  BY <1>1, Inductive, PTL

(***************************************************************************)
(* The buffers hold what no query returned of the batches under way,       *)
(* whatever runs at the same time: nothing is left for the next batch and  *)
(* nothing of another batch is lost.                                       *)
(***************************************************************************)
THEOREM BuffersAreExact == Spec => []BufferExact
<1>1. BatchInv => BufferExact
  BY DEF BatchInv
<1>. QED
  BY <1>1, Inductive, PTL

(***************************************************************************)
(* After StopTest a batch starts at most the tag that waited for the       *)
(* limiter, however many tags and whatever limit it has.                   *)
(***************************************************************************)
THEOREM StopIsPrompt == Spec => []OneAfterStop
<1>1. BatchInv => OneAfterStop
  <2>. SUFFICES ASSUME LateInv, NEW b \in Batches
                PROVE  Cardinality(lateStart \cap Own(b)) <= 1
    BY DEF BatchInv, OneAfterStop
  <2>1. CASE lateStart \cap Own(b) = {}
    BY <2>1, FS_EmptySet
  <2>2. CASE \E r \in Own(b) : lateStart \cap Own(b) = {r}
    BY <2>2, FS_Singleton
  <2>. QED
    BY <2>1, <2>2 DEF LateInv
<1>. QED
  BY <1>1, Inductive, PTL

(***************************************************************************)
(* An answer tells what became of every tag, and only StopTest excuses one *)
(* that was not measured.                                                  *)
(***************************************************************************)
THEOREM AnswersTell == Spec => []RepliesTell
<1>1. BatchInv => RepliesTell
  <2>. SUFFICES ASSUME TypeOK, StageInv, TagInv, TellInv, NEW b \in Batches, Answered(b)
                PROVE  /\ \A r \in Own(b) : ending[r] = "none" <=> r[2] >= next[b]
                       /\ Batch(b) \/ ~Cancelled(b) => next[b] > NTags
                       /\ ~Cancelled(b) => \A r \in Own(b) : ending[r] = "told"
    BY DEF BatchInv, RepliesTell
  <2>1. pc[b] = "replied" /\ Probing(b) = {}
    BY DEF Answered, At, StageInv
  <2>2. \A i \in Places : ending[<<b, i>>] = "none" <=> i >= next[b]
    BY <2>1 DEF TagInv, At, Probing, Own
  <2>3. Batch(b) \/ ~Cancelled(b) => next[b] > NTags
    BY DEF TellInv
  <2>4. ASSUME ~Cancelled(b), NEW i \in Places
        PROVE  ending[<<b, i>>] = "told"
    <3>1. ~(i >= next[b])
      BY <2>3, <2>4, BatchAssumption DEF Places, TypeOK
    <3>. QED
      BY <2>2, <2>4, <3>1 DEF TellInv, Own
  <2>. QED
    BY <2>2, <2>3, <2>4 DEF Own
<1>. QED
  BY <1>1, Inductive, PTL

(***************************************************************************)
(* isRunning does not outlive the speed tests.                             *)
(***************************************************************************)
THEOREM QuerierIsReset == Spec => []QuerierSettles
<1>1. BatchInv => QuerierSettles
  BY DEF BatchInv
<1>. QED
  BY <1>1, Inductive, PTL
=============================================================================
