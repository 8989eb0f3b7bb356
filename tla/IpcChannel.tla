----------------------------- MODULE IpcChannel -----------------------------
(***************************************************************************)
(* One connection between the client and the core.  On the client's side   *)
(* (crates/ipc/src/lib.rs) callers put their calls into a bounded channel; *)
(* a writer task numbers each call, files its reply slot in pending and    *)
(* writes the frame; a reader task finds the slot of each answer by its    *)
(* number.  On the core's side (core/dispatch.go) every frame read gets a  *)
(* goroutine of its own, so that answers come back in any order.  The core *)
(* may die at any step.                                                    *)
(*                                                                         *)
(* A frame is its request number and the call it belongs to; what is in it *)
(* is abstracted to the outcome of the call.                               *)
(***************************************************************************)
EXTENDS Naturals, Sequences, FiniteSets

CONSTANTS
    Calls,     \* calls made over the connection, each once
    QueueSize, \* capacity of the mpsc channel
    IdSpace,   \* how many request numbers there are before they wrap
    None

Ids    == 0 .. IdSpace - 1
Frames == [id : Ids, call : Calls]

\* "huge" is an answer above MAX_FRAME.
Outcomes == {"ok", "error", "huge"}

Returned == {"ok", "error", "failed"}

ASSUME ChannelAssumption ==
    /\ None \notin Calls \cup Frames
    /\ QueueSize \in Nat \ {0}
    /\ IdSpace \in Nat \ {0}
    /\ IsFiniteSet(Calls)
    /\ Cardinality(Calls) <= IdSpace

VARIABLES
    client,    \* whether a CoreClient is left
    caller,    \* where each call stands for its caller
    queue,     \* the mpsc channel
    accepting, \* whether its receiver exists
    nextId,    \* next_id
    writing,   \* the frame the writer is at, or None
    pending,   \* the reply slots by request number
    toCore,    \* request frames in the socket
    jobs,      \* the goroutines of the core, by the frame each serves
    outcome,   \* history: what the core made of each call
    coreUp,    \* whether the core process runs
    toClient,  \* answer frames in the socket
    reader     \* where the reader stands

callerVars == <<client, caller>>
writerVars == <<queue, accepting, nextId, writing>>
coreVars   == <<toCore, jobs, outcome, coreUp>>
vars == <<callerVars, writerVars, pending, coreVars, toClient, reader>>

TypeOK ==
    /\ client \in BOOLEAN
    /\ caller \in [Calls -> {"idle", "sending", "waiting"} \cup Returned]
    /\ queue \in Seq(Calls)
    /\ Len(queue) <= QueueSize
    /\ accepting \in BOOLEAN
    /\ nextId \in Ids
    /\ writing \in Frames \cup {None}
    /\ pending \in [Ids -> Calls \cup {None}]
    /\ toCore \in Seq(Frames)
    /\ jobs \subseteq Frames
    /\ outcome \in [Calls -> Outcomes \cup {"none"}]
    /\ coreUp \in BOOLEAN
    /\ toClient \in Seq(Frames)
    /\ reader \in {"reading", "draining", "gone"}

Init ==
    /\ client = TRUE
    /\ caller = [c \in Calls |-> "idle"]
    /\ queue = <<>>
    /\ accepting = TRUE
    /\ nextId = 1 % IdSpace
    /\ writing = None
    /\ pending = [i \in Ids |-> None]
    /\ toCore = <<>>
    /\ jobs = {}
    /\ outcome = [c \in Calls |-> "none"]
    /\ coreUp = TRUE
    /\ toClient = <<>>
    /\ reader = "reading"

\* A reply slot that is used or dropped wakes its caller, if it still waits.
Reply(C, answer) ==
    caller' = [c \in Calls |->
        IF c \in C /\ caller[c] = "waiting" THEN answer ELSE caller[c]]

Queued == {queue[i] : i \in DOMAIN queue}
Slots  == {pending[i] : i \in Ids} \ {None}

-----------------------------------------------------------------------------
(* Callers *)

Call(c) ==
    /\ client
    /\ caller[c] = "idle"
    /\ caller' = [caller EXCEPT ![c] = "sending"]
    /\ UNCHANGED <<client, writerVars, pending, coreVars, toClient, reader>>

\* tx.send waits for room in the channel and fails once the receiver is gone.
Send(c) ==
    /\ caller[c] = "sending"
    /\ \/ /\ accepting
          /\ Len(queue) < QueueSize
          /\ queue' = Append(queue, c)
          /\ caller' = [caller EXCEPT ![c] = "waiting"]
       \/ /\ ~accepting
          /\ caller' = [caller EXCEPT ![c] = "failed"]
          /\ UNCHANGED queue
    /\ UNCHANGED <<client, accepting, nextId, writing, pending, coreVars,
                   toClient, reader>>

\* The timeout around a call, as in Core::shutdown, drops its future.
Abandon(c) ==
    /\ caller[c] \in {"sending", "waiting"}
    /\ caller' = [caller EXCEPT ![c] = "failed"]
    /\ UNCHANGED <<client, writerVars, pending, coreVars, toClient, reader>>

\* The last clone goes; a call borrows its client, so none is under way.
DropClient ==
    /\ client
    /\ \A c \in Calls : caller[c] \notin {"sending", "waiting"}
    /\ client' = FALSE
    /\ UNCHANGED <<caller, writerVars, pending, coreVars, toClient, reader>>

-----------------------------------------------------------------------------
(* The writer task *)

\* Mutant: every call gets the same number.
TakeSameNumber ==
    /\ accepting
    /\ writing = None
    /\ queue # <<>>
    /\ queue' = Tail(queue)
    /\ pending' = [pending EXCEPT ![nextId] = Head(queue)]
    /\ writing' = [id |-> nextId, call |-> Head(queue)]
    /\ UNCHANGED <<callerVars, accepting, nextId, coreVars, toClient, reader>>

\* A call is taken and numbered, and its reply slot filed under the number.
Take ==
    /\ accepting
    /\ writing = None
    /\ queue # <<>>
    /\ queue' = Tail(queue)
    /\ pending' = [pending EXCEPT ![nextId] = Head(queue)]
    /\ writing' = [id |-> nextId, call |-> Head(queue)]
    /\ nextId' = (nextId + 1) % IdSpace
    /\ UNCHANGED <<callerVars, accepting, coreVars, toClient, reader>>

Write ==
    /\ writing # None
    /\ coreUp
    /\ toCore' = Append(toCore, writing)
    /\ writing' = None
    /\ UNCHANGED <<callerVars, queue, accepting, nextId, pending, jobs, outcome,
                   coreUp, toClient, reader>>

\* Mutant: the slot of the call that could not be written stays in pending.
WriteFailsKeepsSlot ==
    /\ writing # None
    /\ ~coreUp
    /\ Reply(Queued, "failed")
    /\ writing' = None
    /\ queue' = <<>>
    /\ accepting' = FALSE
    /\ UNCHANGED <<client, nextId, pending, coreVars, toClient, reader>>

\* The slot is taken back, unless the reader drained it, and the writer ends:
\* the channel goes with it, and with the channel the slots queued there.
WriteFails ==
    /\ writing # None
    /\ ~coreUp
    /\ Reply(Queued \cup {pending[writing.id]}, "failed")
    /\ pending' = [pending EXCEPT ![writing.id] = None]
    /\ writing' = None
    /\ queue' = <<>>
    /\ accepting' = FALSE
    /\ UNCHANGED <<client, nextId, coreVars, toClient, reader>>

\* recv returns None: no sender is left and the channel is empty.
WriterEnds ==
    /\ accepting
    /\ ~client
    /\ writing = None
    /\ queue = <<>>
    /\ accepting' = FALSE
    /\ UNCHANGED <<callerVars, queue, nextId, writing, pending, coreVars,
                   toClient, reader>>

-----------------------------------------------------------------------------
(* The core *)

Dispatch ==
    /\ coreUp
    /\ toCore # <<>>
    /\ toCore' = Tail(toCore)
    /\ jobs' = jobs \cup {Head(toCore)}
    /\ UNCHANGED <<callerVars, writerVars, pending, outcome, coreUp, toClient,
                   reader>>

\* The handler returns, reports an error or panics; a panic is recovered and
\* answered like an error.
Execute(f) ==
    /\ coreUp
    /\ f \in jobs
    /\ outcome[f.call] = "none"
    /\ \E o \in Outcomes : outcome' = [outcome EXCEPT ![f.call] = o]
    /\ UNCHANGED <<callerVars, writerVars, pending, toCore, jobs, coreUp,
                   toClient, reader>>

\* writeMu keeps the two writes of an answer together.
Respond(f) ==
    /\ coreUp
    /\ f \in jobs
    /\ outcome[f.call] # "none"
    /\ jobs' = jobs \ {f}
    /\ toClient' = Append(toClient, f)
    /\ UNCHANGED <<callerVars, writerVars, pending, toCore, outcome, coreUp, reader>>

\* A crash, the memory watchdog, a kill.
CoreDies ==
    /\ coreUp
    /\ coreUp' = FALSE
    /\ toCore' = <<>>
    /\ jobs' = {}
    /\ UNCHANGED <<callerVars, writerVars, pending, outcome, toClient, reader>>

-----------------------------------------------------------------------------
(* The reader task *)

\* The answer of one call; a number nobody waits for is ignored.
Read ==
    /\ reader = "reading"
    /\ toClient # <<>>
    /\ LET f == Head(toClient) IN
         /\ outcome[f.call] # "huge"
         /\ Reply({pending[f.id]}, outcome[f.call])
         /\ pending' = [pending EXCEPT ![f.id] = None]
    /\ toClient' = Tail(toClient)
    /\ UNCHANGED <<client, writerVars, coreVars, reader>>

\* A frame above MAX_FRAME ends the loop although the connection is fine.
ReadHuge ==
    /\ reader = "reading"
    /\ toClient # <<>>
    /\ outcome[Head(toClient).call] = "huge"
    /\ reader' = "draining"
    /\ UNCHANGED <<callerVars, writerVars, pending, coreVars, toClient>>

\* The end of the stream, or a reset that overtakes the frames still in it.
ReadFails ==
    /\ reader = "reading"
    /\ ~coreUp
    /\ reader' = "draining"
    /\ UNCHANGED <<callerVars, writerVars, pending, coreVars, toClient>>

\* Mutant: the reader ends without waking those that wait.
DrainForgotten ==
    /\ reader = "draining"
    /\ reader' = "gone"
    /\ UNCHANGED <<callerVars, writerVars, pending, coreVars, toClient>>

Drain ==
    /\ reader = "draining"
    /\ reader' = "gone"
    /\ Reply(Slots, "failed")
    /\ pending' = [i \in Ids |-> None]
    /\ UNCHANGED <<client, writerVars, coreVars, toClient>>

-----------------------------------------------------------------------------
Writer == Take \/ Write \/ WriteFails \/ WriterEnds
Reader == Read \/ ReadHuge \/ ReadFails \/ Drain
Serve  == Dispatch \/ \E f \in Frames : Execute(f) \/ Respond(f)

Next ==
    \/ \E c \in Calls : Call(c) \/ Send(c) \/ Abandon(c)
    \/ DropClient
    \/ Writer
    \/ Serve
    \/ CoreDies
    \/ Reader

Spec == Init /\ [][Next]_vars

(***************************************************************************)
(* The tasks are polled when they can run, the channel serves its senders  *)
(* in turn, and every handler of the core returns: the long ones carry a   *)
(* timeout of their own.                                                   *)
(***************************************************************************)
Fairness ==
    /\ \A c \in Calls : WF_vars(Send(c))
    /\ WF_vars(Writer)
    /\ WF_vars(Reader)
    /\ WF_vars(Dispatch)
    /\ \A f \in Frames : WF_vars(Execute(f)) /\ WF_vars(Respond(f))

FairSpec == Spec /\ Fairness

-----------------------------------------------------------------------------
(* Properties *)

(***************************************************************************)
(* The channel keeps what Rpc promises: a call is executed at most once,   *)
(* and the answer a caller gets is the outcome of its own call, whatever   *)
(* the order of answers, failures and deaths.                              *)
(***************************************************************************)
Known == [c \in Calls |-> IF caller[c] = "sending" THEN "waiting" ELSE caller[c]]
Made  == [c \in Calls |-> IF outcome[c] = "huge" THEN "ok" ELSE outcome[c]]

Promise == INSTANCE Rpc WITH caller <- Known, outcome <- Made

PromiseKept == Promise!Spec

\* The reader left on an oversized frame while the core was alive.
Cut == reader = "gone" /\ toClient # <<>> /\ outcome[Head(toClient).call] = "huge"

\* A frame with this number is on its way to the core, served or on its way back.
Underway(f) ==
    \/ \E i \in DOMAIN toCore : toCore[i] = f
    \/ f \in jobs
    \/ \E i \in DOMAIN toClient : toClient[i] = f

(***************************************************************************)
(* Nobody waits for nothing: a waiting caller's reply slot is in the       *)
(* channel, or filed under the number of a frame that is being written or  *)
(* is under way, or the reader has yet to drain it because the core died.  *)
(* A slot filed after the drain is one the writer is about to take back.   *)
(***************************************************************************)
NobodyWaitsForNothing ==
    \A c \in Calls : caller[c] = "waiting" =>
        \/ c \in Queued /\ accepting
        \/ \E i \in Ids :
             /\ pending[i] = c
             /\ \/ writing = [id |-> i, call |-> c]
                \/ reader # "gone" /\ (~coreUp \/ Underway([id |-> i, call |-> c]))
                \/ Cut

(***************************************************************************)
(* Every call returns, with an answer or an error, unless the reader left  *)
(* on an oversized frame.                                                  *)
(***************************************************************************)
EveryCallReturns ==
    \A c \in Calls : caller[c] \in {"sending", "waiting"} ~>
                        caller[c] \in Returned \/ Cut

-----------------------------------------------------------------------------
(* Why the properties hold: the parts of an inductive invariant *)

\* The frames that bear a number: at the writer, on their way, served, answered.
InFlight(f) == writing = f \/ Underway(f)

\* The calls that have not reached the channel.
Unsent == {c \in Calls : caller[c] \in {"idle", "sending"}}

\* The first k numbers the writer hands out.
Used(k) == {(j + 1) % IdSpace : j \in 0 .. k - 1}

\* No number is handed out twice: k of them were, and there are enough left for
\* the calls to come.  The slots and the frames bear no other number.
NumberInv ==
    \E k \in 0 .. IdSpace :
        /\ k + Len(queue) + Cardinality(Unsent) <= IdSpace
        /\ k < IdSpace => nextId = (k + 1) % IdSpace
        /\ \A f \in Frames : InFlight(f) => f.id \in Used(k)
        /\ \A i \in Ids : pending[i] # None => i \in Used(k)

\* The slot under the number of a frame is that of its call, and was asked for.
MatchInv ==
    /\ \A f \in Frames : InFlight(f) =>
          pending[f.id] \in {None, f.call} /\ f.call \notin Unsent
    /\ Queued \cap Unsent = {}

\* An answer in the socket has an outcome.
AnswerInv == \A i \in DOMAIN toClient : outcome[toClient[i].call] # "none"

\* The reader leaves only a dead core or an oversized answer.
CutInv ==
    reader # "reading" =>
        \/ ~coreUp
        \/ toClient # <<>> /\ outcome[Head(toClient).call] = "huge"

(***************************************************************************)
(* The conjunction of the above is inductive, NobodyWaitsForNothing with   *)
(* it, and the refinement of Rpc follows step by step.                     *)
(***************************************************************************)
ChannelInv ==
    /\ TypeOK
    /\ NumberInv
    /\ MatchInv
    /\ AnswerInv
    /\ CutInv
    /\ NobodyWaitsForNothing
=============================================================================
