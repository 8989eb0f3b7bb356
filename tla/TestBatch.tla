------------------------------ MODULE TestBatch ------------------------------
(***************************************************************************)
(* The measurements of the core (core/test_utils): batches of tags under   *)
(* one cancellation context that StopTest replaces, the limiter they wait  *)
(* for, and the buffers from which the client collects results while a     *)
(* batch is under way.                                                     *)
(*                                                                         *)
(* Every request has a goroutine of its own (b), and every tag of a        *)
(* latency, IP or country batch one more; a speed batch measures its tags  *)
(* in turn and shows its progress in SpTQuerier.  A result is named by its *)
(* batch and the place of its tag; what was measured is abstracted to how  *)
(* it ended.  Contexts are counted: a batch is cancelled when its own is   *)
(* no longer the current one.                                              *)
(***************************************************************************)
EXTENDS Integers, FiniteSets

CONSTANTS
    Batches,  \* Test, IPTest and SpeedTest requests
    NTags,    \* how many tags each of them has, all distinct
    Mixes,    \* the requests that may come together
    MaxStops  \* bound: how many StopTest requests come

Places  == 1 .. NTags
Results == Batches \X Places

\* "country" and "speed" are the two halves of SpeedTest; limit is max_concurrency
\* or country_concurrency.
Request == [kind : {"url", "ip", "country", "speed"}, limit : Int]

\* How a tag ended: with a measurement or the error that prevented it ("told"), as
\* aborted or cancelled, or with a result that reports neither an error nor a
\* cancellation although its test was cut short ("untold").
Endings == {"told", "aborted", "cancelled", "untold"}

ASSUME BatchAssumption ==
    /\ IsFiniteSet(Batches)
    /\ NTags \in Nat
    /\ Mixes \subseteq [Batches -> Request]
    /\ MaxStops \in Nat

VARIABLES
    req,       \* what is requested
    stops,     \* the current context
    pc,        \* where the goroutine of each request stands
    ctx,       \* the context a batch runs under
    next,      \* the place its loop is at
    probe,     \* where the goroutine of each tag stands
    ending,    \* how each tag ended
    buffer,    \* URLReporter, IPReporter, CountryResults
    isRunning, \* SpTQuerier.isRunning
    current,   \* whose result SpTQuerier.current is
    handed,    \* history: the results some query returned
    lateStart  \* history: tags whose probe began under a cancelled context

loopVars  == <<pc, ctx, next>>
probeVars == <<probe, ending>>
speedVars == <<isRunning, current>>
vars == <<req, stops, loopVars, probeVars, buffer, speedVars, handed,
          lateStart>>

Buffers == {"url", "ip", "country"}

TypeOK ==
    /\ req \in [Batches -> Request]
    /\ stops \in 0 .. MaxStops
    /\ pc \in [Batches -> {"idle", "built", "loop", "passed", "measuring",
                           "stopping", "wait", "reclaim", "replied"}]
    /\ ctx \in [Batches -> 0 .. MaxStops]
    /\ next \in [Batches -> 1 .. NTags + 1]
    /\ probe \in [Results -> {"none", "running", "published", "done"}]
    /\ ending \in [Results -> Endings \cup {"none"}]
    /\ buffer \in [Buffers -> SUBSET Results]
    /\ isRunning \in BOOLEAN
    /\ current \in Results \cup {<<>>}
    /\ handed \subseteq Results
    /\ lateStart \subseteq Results

Init ==
    /\ req \in Mixes
    /\ stops = 0
    /\ pc = [b \in Batches |-> "idle"]
    /\ ctx = [b \in Batches |-> 0]
    /\ next = [b \in Batches |-> 1]
    /\ probe = [r \in Results |-> "none"]
    /\ ending = [r \in Results |-> "none"]
    /\ buffer = [k \in Buffers |-> {}]
    /\ isRunning = FALSE
    /\ current = <<>>
    /\ handed = {}
    /\ lateStart = {}

-----------------------------------------------------------------------------
(* Helpers *)

At(b, label) == pc[b] = label
To(b, label) == pc' = [pc EXCEPT ![b] = label]
Goto(b, from, to) == At(b, from) /\ To(b, to)

\* The loop is done with its tag and looks at the next one.
Advance(b, from) ==
    /\ Goto(b, from, "loop")
    /\ next' = [next EXCEPT ![b] = next[b] + 1]

Tag(b)     == <<b, next[b]>>
Own(b)     == {b} \X Places
Batch(b)   == req[b].kind \in {"url", "ip"}
Country(b) == req[b].kind = "country"
Speed(b)   == req[b].kind = "speed"

\* Where the results of a batch are collected and taken back.
BufferOf(b) == IF Batch(b) THEN req[b].kind ELSE "country"

Cancelled(b) == ctx[b] # stops

normalizeConcurrency(n) == IF n <= 0 \/ n >= 500 THEN 100 ELSE n

Concurrency(b) ==
    IF Country(b) THEN (IF req[b].limit <= 0 THEN 5 ELSE req[b].limit)
                  ELSE normalizeConcurrency(req[b].limit)

\* The goroutines that hold a place in the limiter.
Probing(b) == {r \in Own(b) : probe[r] \in {"running", "published"}}

End(r, how) == ending' = [ending EXCEPT ![r] = how]

AddResult(b, r) == buffer' = [buffer EXCEPT ![BufferOf(b)] = @ \cup {r}]

Started(r) ==
    lateStart' = IF Cancelled(r[1]) THEN lateStart \cup {r} ELSE lateStart

-----------------------------------------------------------------------------
(* The request and its loop *)

\* prepareTestEnv builds the stack, or the request fails.
Prepare(b) ==
    /\ At(b, "idle")
    /\ To(b, "built") \/ To(b, "replied")
    /\ UNCHANGED <<req, stops, ctx, next, probeVars, buffer, speedVars,
                   handed, lateStart>>

\* TestContext() is evaluated after the stack is built.
TakeContext(b) ==
    /\ Goto(b, "built", "loop")
    /\ ctx' = [ctx EXCEPT ![b] = stops]
    /\ UNCHANGED <<req, stops, next, probeVars, buffer, speedVars,
                   handed, lateStart>>

\* Mutant: the context is not looked at.
CheckNothing(b) ==
    /\ next[b] <= NTags
    /\ Goto(b, "loop", "passed")
    /\ UNCHANGED <<req, stops, ctx, next, probeVars, buffer, speedVars,
                   handed, lateStart>>

\* Mutant: a batch is left as a speed test is.
CheckBreaks(b) ==
    /\ next[b] <= NTags
    /\ Goto(b, "loop", IF Cancelled(b) THEN "wait" ELSE "passed")
    /\ UNCHANGED <<req, stops, ctx, next, probeVars, buffer, speedVars,
                   handed, lateStart>>

\* A cancelled context aborts the tag of a batch, and ends a speed or country test.
Check(b) ==
    /\ next[b] <= NTags
    /\ \/ ~Cancelled(b) /\ Goto(b, "loop", "passed") /\ UNCHANGED <<next, ending>>
       \/ /\ Cancelled(b) /\ Batch(b)
          /\ Advance(b, "loop")
          /\ End(Tag(b), "aborted")
       \/ /\ Cancelled(b) /\ ~Batch(b)
          /\ Goto(b, "loop", "wait")
          /\ UNCHANGED <<next, ending>>
    /\ UNCHANGED <<req, stops, ctx, probe, buffer, speedVars, handed,
                   lateStart>>

\* A place in the limiter is taken and the goroutine of the tag started.
Launch(b) ==
    /\ ~Speed(b)
    /\ Cardinality(Probing(b)) < Concurrency(b)
    /\ Advance(b, "passed")
    /\ probe' = [probe EXCEPT ![Tag(b)] = "running"]
    /\ Started(Tag(b))
    /\ UNCHANGED <<req, stops, ctx, ending, buffer, speedVars, handed>>

\* A country or speed test reports a tag that vanished without a goroutine.
Vanished(b) ==
    /\ ~Batch(b)
    /\ Advance(b, "passed")
    /\ End(Tag(b), "told")
    /\ IF Country(b) THEN AddResult(b, Tag(b)) ELSE UNCHANGED buffer
    /\ UNCHANGED <<req, stops, ctx, probe, speedVars, handed, lateStart>>

LoopEnds(b) ==
    /\ next[b] > NTags
    /\ Goto(b, "loop", "wait")
    /\ UNCHANGED <<req, stops, ctx, next, probeVars, buffer, speedVars,
                   handed, lateStart>>

\* wg.Wait().
Wait(b) ==
    /\ Goto(b, "wait", "reclaim")
    /\ Probing(b) = {}
    /\ UNCHANGED <<req, stops, ctx, next, probeVars, buffer, speedVars,
                   handed, lateStart>>

\* Mutant: the buffer is cleared, whoever the results are of.
ReclaimAll(b) ==
    /\ Goto(b, "reclaim", "replied")
    /\ buffer' = [buffer EXCEPT ![BufferOf(b)] = {}]
    /\ UNCHANGED <<req, stops, ctx, next, probeVars, speedVars, handed,
                   lateStart>>

\* What the answer carries is taken out of the buffer; then env.close().
Reclaim(b) ==
    /\ Goto(b, "reclaim", "replied")
    /\ buffer' = [buffer EXCEPT ![BufferOf(b)] = @ \ {r \in Own(b) : ending[r] # "none"}]
    /\ UNCHANGED <<req, stops, ctx, next, probeVars, speedVars, handed,
                   lateStart>>

-----------------------------------------------------------------------------
(* The goroutine of a tag *)

\* A latency or IP test that is cut short ends with the error of its context; a
\* country test drops that error.
EndingsOf(r) ==
    {"told"} \cup (IF Country(r[1]) /\ Cancelled(r[1]) THEN {"untold"} ELSE {})

\* The result goes into the map of its batch, which nobody reads yet, and into
\* the buffer.
Measure(r) ==
    /\ probe[r] = "running"
    /\ probe' = [probe EXCEPT ![r] = "published"]
    /\ \E how \in EndingsOf(r) : End(r, how)
    /\ AddResult(r[1], r)
    /\ UNCHANGED <<req, stops, loopVars, speedVars, handed, lateStart>>

\* Mutant: the place in the limiter is not given back once the batch is cancelled.
ReleaseUnlessCancelled(r) ==
    /\ probe[r] = "published"
    /\ ~Cancelled(r[1])
    /\ probe' = [probe EXCEPT ![r] = "done"]
    /\ UNCHANGED <<req, stops, loopVars, ending, buffer, speedVars,
                   handed, lateStart>>

\* The deferred functions: the limiter and the wait group.
Release(r) ==
    /\ probe[r] = "published"
    /\ probe' = [probe EXCEPT ![r] = "done"]
    /\ UNCHANGED <<req, stops, loopVars, ending, buffer, speedVars,
                   handed, lateStart>>

-----------------------------------------------------------------------------
(* A speed test measures in the loop *)

\* No server is found; if that is because of the context, the error is dropped.
SpeedFails(b) ==
    /\ Speed(b)
    /\ Advance(b, "passed")
    /\ \E how \in IF Cancelled(b) THEN {"told", "untold"} ELSE {"told"} :
         End(Tag(b), how)
    /\ UNCHANGED <<req, stops, ctx, probe, buffer, speedVars, handed,
                   lateStart>>

SpeedStarts(b) ==
    /\ Speed(b)
    /\ Goto(b, "passed", "measuring")
    /\ isRunning' = TRUE
    /\ Started(Tag(b))
    /\ UNCHANGED <<req, stops, ctx, next, probeVars, buffer, current,
                   handed>>

\* A tick of the sampling loop.
Sample(b) ==
    /\ At(b, "measuring")
    /\ current' = Tag(b)
    /\ UNCHANGED <<req, stops, loopVars, probeVars, buffer, isRunning,
                   handed, lateStart>>

\* The transfer is over.  If the context ended it, select may still see it before
\* it sees the context, and the rate so far is stored like a result.
SpeedDone(b) ==
    /\ Goto(b, "measuring", "stopping")
    /\ \E how \in IF Cancelled(b) THEN {"told", "untold"} ELSE {"told"} :
         End(Tag(b), how)
    /\ current' = Tag(b)
    /\ UNCHANGED <<req, stops, ctx, next, probe, buffer, isRunning,
                   handed, lateStart>>

SpeedCancelled(b) ==
    /\ Cancelled(b)
    /\ Goto(b, "measuring", "stopping")
    /\ End(Tag(b), "cancelled")
    /\ UNCHANGED <<req, stops, ctx, next, probe, buffer, speedVars,
                   handed, lateStart>>

\* Mutant: the cancelled path returns without the deferred reset.
SpeedStopsIfTold(b) ==
    /\ Advance(b, "stopping")
    /\ isRunning' = (isRunning /\ ending[Tag(b)] = "cancelled")
    /\ UNCHANGED <<req, stops, ctx, probeVars, buffer, current, handed,
                   lateStart>>

\* The deferred setIsRunning(false).
SpeedStops(b) ==
    /\ Advance(b, "stopping")
    /\ isRunning' = FALSE
    /\ UNCHANGED <<req, stops, ctx, probeVars, buffer, current, handed,
                   lateStart>>

-----------------------------------------------------------------------------
(* The other requests *)

\* CancelTests: the current context is cancelled and a fresh one armed.
StopTest ==
    /\ stops < MaxStops
    /\ stops' = stops + 1
    /\ UNCHANGED <<req, loopVars, probeVars, buffer, speedVars, handed,
                   lateStart>>

\* QueryURLTest, QueryIPTest, QueryCountryTest: the buffer is drained on read.
\* QuerySpeedTest only reads.
Query(k) ==
    /\ buffer[k] # {}
    /\ handed' = handed \cup buffer[k]
    /\ buffer' = [buffer EXCEPT ![k] = {}]
    /\ UNCHANGED <<req, stops, loopVars, probeVars, speedVars, lateStart>>

-----------------------------------------------------------------------------
Loop(b) ==
    \/ TakeContext(b) \/ Check(b) \/ Launch(b) \/ Vanished(b) \/ LoopEnds(b)
    \/ SpeedFails(b) \/ SpeedStarts(b) \/ SpeedDone(b) \/ SpeedCancelled(b)
    \/ SpeedStops(b) \/ Wait(b) \/ Reclaim(b)

Probe(r) == Measure(r) \/ Release(r)

Next ==
    \/ \E b \in Batches : Prepare(b) \/ Loop(b) \/ Sample(b)
    \/ \E r \in Results : Probe(r)
    \/ StopTest
    \/ \E k \in Buffers : Query(k)

Spec == Init /\ [][Next]_vars

\* Goroutines run, and every measurement has a timeout.
Fairness ==
    /\ \A b \in Batches : WF_vars(Loop(b))
    /\ \A r \in Results : WF_vars(Probe(r))

FairSpec == Spec /\ Fairness

-----------------------------------------------------------------------------
(* Properties *)

(***************************************************************************)
(* A buffer holds exactly the results that were published, that no query   *)
(* returned and whose batch has not answered: "anything left buffered is   *)
(* drained by the next test, whose tags repeat ours", and what another     *)
(* batch published is not lost.                                            *)
(***************************************************************************)
Published(b) ==
    {r \in Own(b) : \/ probe[r] \in {"published", "done"}
                    \/ probe[r] = "none" /\ ending[r] = "told" /\ Country(b)}

BufferExact ==
    \A k \in Buffers :
        buffer[k] = UNION {Published(b) \ handed : b \in
            {c \in Batches : BufferOf(c) = k /\ ~At(c, "replied")}}

(***************************************************************************)
(* "Cancelling ctx aborts tags not yet started", all but one: the tag that *)
(* had passed the check and waited for the limiter when StopTest came.     *)
(***************************************************************************)
OneAfterStop == \A b \in Batches : Cardinality(lateStart \cap Own(b)) <= 1

(***************************************************************************)
(* An answer tells what became of every tag: "one result per tag" in a     *)
(* batch, and in a speed or country test no gap before the place where     *)
(* StopTest ended it.  Only StopTest leaves tags out, aborts them, or lets *)
(* a test that was cut short look like one that measured.                  *)
(***************************************************************************)
Answered(b) == At(b, "replied") /\ next[b] > 1

RepliesTell ==
    \A b \in Batches : Answered(b) =>
        /\ \A r \in Own(b) : ending[r] = "none" <=> r[2] >= next[b]
        /\ Batch(b) \/ ~Cancelled(b) => next[b] > NTags
        /\ ~Cancelled(b) => \A r \in Own(b) : ending[r] = "told"

(***************************************************************************)
(* The querier says that a speed test is running only while one is.  (Of   *)
(* two at a time, the first that ends makes it say that none is.)          *)
(***************************************************************************)
QuerierSettles ==
    isRunning => \E b \in Batches : pc[b] \in {"measuring", "stopping"}

(***************************************************************************)
(* Every request is answered, whatever the limit: no goroutine keeps its   *)
(* place in the limiter or the wait group.                                 *)
(***************************************************************************)
EveryBatchAnswers == \A b \in Batches : At(b, "built") ~> At(b, "replied")

(***************************************************************************)
(* The inductive invariant behind the safety properties.                   *)
(***************************************************************************)
\* Where the loop stands tells how far it is and what it waited for.
StageInv ==
    \A b \in Batches :
        /\ ctx[b] <= stops
        /\ pc[b] \in {"idle", "built"} => next[b] = 1
        /\ pc[b] \in {"passed", "measuring", "stopping"} => next[b] <= NTags
        /\ pc[b] \in {"measuring", "stopping"} => Speed(b)
        /\ pc[b] \in {"reclaim", "replied"} => Probing(b) = {}

\* Tags behind the loop are under way or have ended, tags before it are untouched.
TagInv ==
    \A b \in Batches, i \in Places : LET r == <<b, i>> IN
        /\ i >= next[b] => probe[r] = "none"
        /\ ending[r] = "none" <=>
             \/ probe[r] = "running"
             \/ i >= next[b] /\ ~(At(b, "stopping") /\ i = next[b])
        /\ r \in handed => ending[r] # "none"

\* A late start is the last of its batch.
LateInv ==
    \A b \in Batches :
        \/ lateStart \cap Own(b) = {}
        \/ /\ Cancelled(b)
           /\ pc[b] \notin {"idle", "built", "passed"}
           /\ \E r \in Own(b) : lateStart \cap Own(b) = {r}

\* Only a cancelled loop ends early, and only there a tag ends untold.
TellInv ==
    \A b \in Batches :
        /\ pc[b] \in {"wait", "reclaim"} \/ Answered(b) =>
             (Batch(b) \/ ~Cancelled(b) => next[b] > NTags)
        /\ ~Cancelled(b) => \A r \in Own(b) : ending[r] \in {"none", "told"}

\* All of it: what Test, IPTest and SpeedTest keep true between any two of their
\* steps.
BatchInv ==
    /\ TypeOK
    /\ StageInv
    /\ TagInv
    /\ BufferExact
    /\ LateInv
    /\ TellInv
    /\ QuerierSettles
=============================================================================
