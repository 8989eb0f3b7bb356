------------------------------ MODULE XrayGate ------------------------------
(***************************************************************************)
(* core/internal/xray/gate.go: a gate that owns the listening sockets of   *)
(* an Xray configuration, builds the instance when a connection arrives    *)
(* and shuts it down after an idle window.                                 *)
(*                                                                         *)
(* The goroutines are one handler per accepted connection (handle), the    *)
(* sweeper (sweep) and the caller of Close.  They share g.instance and     *)
(* g.closed under g.mu, g.conns under g.connsMu, and the atomics active    *)
(* and lastUse.  A critical section that only moves pointers is one step;  *)
(* ensure holds g.mu across the creation and the start of an instance, so  *)
(* holder says which handler is inside it.  Time is abstracted to whether  *)
(* lastUse lies within the idle window.                                    *)
(***************************************************************************)
EXTENDS Naturals, FiniteSets

CONSTANTS
    Conns,      \* client connections, each accepted at most once
    Instances,  \* bound: the Xray instances that may be built
    IdleWindow, \* the idle argument of StartGate; 0 keeps the instance
    None        \* the nil pointer

Ends    == {"client", "upstream"}
Sockets == Conns \X Ends

HandlerLabels == {"none", "accepted", "tracked", "counted", "touched",
                  "building", "launching", "ensured", "dialled", "relaying",
                  "ended", "uncounted", "gone"}

\* A handler between active.Add(1) and the deferred active.Add(-1).
CountedLabels == {"counted", "touched", "building", "launching", "ensured",
                  "dialled", "relaying", "ended"}

MidSweep == {"sawNone", "decided", "closing"}

ASSUME GateAssumption ==
    /\ IsFiniteSet(Conns)
    /\ None \notin Conns \cup Instances
    /\ IdleWindow \in Nat

VARIABLES
    pc,        \* where each handler stands
    via,       \* the instance that answered a handler's dial
    instance,  \* g.instance
    life,      \* unborn, built, running or closed
    holder,    \* the handler inside ensure, holding g.mu
    building,  \* the instance ensure is bringing up
    active,    \* g.active
    recent,    \* whether g.lastUse lies within the idle window
    listening, \* whether the bridges' listeners are open
    connsNil,  \* whether g.conns is nil
    conns,     \* g.conns
    open,      \* the sockets that are open
    sweeper,   \* where the sweeper stands
    victim,    \* the instance the sweeper took and has yet to close
    closer,    \* where Close stands
    last,      \* the instance Close took and has yet to close
    closed,    \* g.closed
    late       \* history: handlers counted while a sweep was under way

handlerVars == <<pc, via, late>>
muVars      == <<instance, holder, building, closed>>
connVars    == <<connsNil, conns>>
sweepVars   == <<sweeper, victim>>
closeVars   == <<closer, last>>
vars == <<pc, via, instance, life, holder, building, active, recent, listening,
          connsNil, conns, open, sweeper, victim, closer, last, closed, late>>

TypeOK ==
    /\ pc \in [Conns -> HandlerLabels]
    /\ via \in [Conns -> Instances \cup {None}]
    /\ instance \in Instances \cup {None}
    /\ life \in [Instances -> {"unborn", "built", "running", "closed"}]
    /\ holder \in Conns \cup {None}
    /\ building \in Instances \cup {None}
    /\ active \in Nat
    /\ recent \in BOOLEAN
    /\ listening \in BOOLEAN
    /\ connsNil \in BOOLEAN
    /\ conns \subseteq Sockets
    /\ open \subseteq Sockets
    /\ sweeper \in {"waiting", "stopped"} \cup MidSweep
    /\ victim \in Instances \cup {None}
    /\ closer \in {"open", "marked", "draining", "dying", "closed"}
    /\ last \in Instances \cup {None}
    /\ closed \in BOOLEAN
    /\ late \subseteq Conns

\* What StartGate returns: listening, with no instance.
Init ==
    /\ pc = [c \in Conns |-> "none"]
    /\ via = [c \in Conns |-> None]
    /\ instance = None
    /\ life = [i \in Instances |-> "unborn"]
    /\ holder = None
    /\ building = None
    /\ active = 0
    /\ recent = TRUE
    /\ listening = TRUE
    /\ connsNil = FALSE
    /\ conns = {}
    /\ open = {}
    /\ sweeper = "waiting"
    /\ victim = None
    /\ closer = "open"
    /\ last = None
    /\ closed = FALSE
    /\ late = {}

Goto(c, from, to) ==
    /\ pc[c] = from
    /\ pc' = [pc EXCEPT ![c] = to]

-----------------------------------------------------------------------------
(* The handler of a connection *)

\* serve: Accept, then a goroutine for handle.
Accept(c) ==
    /\ listening
    /\ Goto(c, "none", "accepted")
    /\ open' = open \cup {<<c, "client">>}
    /\ UNCHANGED <<muVars, connVars, sweepVars, closeVars, via, late, life,
                   active, recent, listening>>

\* track: a connection accepted during teardown is turned away.
Track(c) ==
    /\ \/ /\ ~connsNil
          /\ Goto(c, "accepted", "tracked")
          /\ conns' = conns \cup {<<c, "client">>}
          /\ UNCHANGED open
       \/ /\ connsNil
          /\ Goto(c, "accepted", "gone")
          /\ open' = open \ {<<c, "client">>}
          /\ UNCHANGED conns
    /\ UNCHANGED <<muVars, connsNil, sweepVars, closeVars, via, late, life,
                   active, recent, listening>>

Count(c) ==
    /\ Goto(c, "tracked", "counted")
    /\ active' = active + 1
    /\ late' = IF sweeper \in MidSweep THEN late \cup {c} ELSE late
    /\ UNCHANGED <<muVars, connVars, sweepVars, closeVars, via, life, recent,
                   listening, open>>

Touch(c) ==
    /\ Goto(c, "counted", "touched")
    /\ recent' = TRUE
    /\ UNCHANGED <<muVars, connVars, sweepVars, closeVars, via, late, life,
                   active, listening, open>>

\* Mutant: ensure does not look at closed.
EnsureUnchecked(c) ==
    /\ holder = None
    /\ \/ instance # None /\ Goto(c, "touched", "ensured") /\ UNCHANGED holder
       \/ instance = None /\ Goto(c, "touched", "building") /\ holder' = c
    /\ UNCHANGED <<instance, building, closed, connVars, sweepVars, closeVars,
                   via, late, life, active, recent, listening, open>>

\* ensure with the lock just taken: a closed gate refuses, a live instance is
\* used as it is, otherwise one is built with the lock held.
Ensure(c) ==
    /\ holder = None
    /\ \/ closed /\ Goto(c, "touched", "ended") /\ UNCHANGED holder
       \/ ~closed /\ instance # None /\ Goto(c, "touched", "ensured") /\ UNCHANGED holder
       \/ ~closed /\ instance = None /\ Goto(c, "touched", "building") /\ holder' = c
    /\ UNCHANGED <<instance, building, closed, connVars, sweepVars, closeVars,
                   via, late, life, active, recent, listening, open>>

\* Mutant: the error return forgets to unlock.
CreateKeepsLock(c) ==
    /\ Goto(c, "building", "ended")
    /\ UNCHANGED <<muVars, connVars, sweepVars, closeVars, via, late, life,
                   active, recent, listening, open>>

\* CreateXrayInstance, which may fail.
Create(c) ==
    /\ \/ \E i \in Instances :
            /\ life[i] = "unborn"
            /\ life' = [life EXCEPT ![i] = "built"]
            /\ building' = i
            /\ Goto(c, "building", "launching")
            /\ UNCHANGED holder
       \/ /\ Goto(c, "building", "ended")
          /\ holder' = None
          /\ UNCHANGED <<life, building>>
    /\ UNCHANGED <<instance, closed, connVars, sweepVars, closeVars, via, late,
                   active, recent, listening, open>>

\* prepare and Start: on success the instance is published, on a failure of
\* either it is closed.
Launch(c) ==
    /\ \/ /\ Goto(c, "launching", "ensured")
          /\ life' = [life EXCEPT ![building] = "running"]
          /\ instance' = building
       \/ /\ Goto(c, "launching", "ended")
          /\ life' = [life EXCEPT ![building] = "closed"]
          /\ UNCHANGED instance
    /\ building' = None
    /\ holder' = None
    /\ UNCHANGED <<closed, connVars, sweepVars, closeVars, via, late, active,
                   recent, listening, open>>

\* Whatever instance listens behind the gate answers: the current one, or one
\* that is about to be closed.  The dial may also fail.
Dial(c) ==
    /\ \/ \E i \in Instances :
            /\ life[i] = "running"
            /\ via' = [via EXCEPT ![c] = i]
            /\ open' = open \cup {<<c, "upstream">>}
            /\ Goto(c, "ensured", "dialled")
       \/ Goto(c, "ensured", "ended") /\ UNCHANGED <<via, open>>
    /\ UNCHANGED <<muVars, connVars, sweepVars, closeVars, late, life, active,
                   recent, listening>>

\* Mutant: the upstream is tracked without asking whether the gate is closed.
TrackUpstreamUnchecked(c) ==
    /\ Goto(c, "dialled", "relaying")
    /\ conns' = conns \cup {<<c, "upstream">>}
    /\ UNCHANGED <<muVars, connsNil, sweepVars, closeVars, via, late, life,
                   active, recent, listening, open>>

TrackUpstream(c) ==
    /\ \/ /\ ~connsNil
          /\ Goto(c, "dialled", "relaying")
          /\ conns' = conns \cup {<<c, "upstream">>}
          /\ UNCHANGED open
       \/ /\ connsNil
          /\ Goto(c, "dialled", "ended")
          /\ open' = open \ {<<c, "upstream">>}
          /\ UNCHANGED conns
    /\ UNCHANGED <<muVars, connsNil, sweepVars, closeVars, via, late, life,
                   active, recent, listening>>

\* Both directions reached EOF; the deferred forget and Close of the upstream.
RelayEnds(c) ==
    /\ Goto(c, "relaying", "ended")
    /\ conns' = conns \ {<<c, "upstream">>}
    /\ open' = open \ {<<c, "upstream">>}
    /\ UNCHANGED <<muVars, connsNil, sweepVars, closeVars, via, late, life,
                   active, recent, listening>>

Uncount(c) ==
    /\ Goto(c, "ended", "uncounted")
    /\ active' = active - 1
    /\ UNCHANGED <<muVars, connVars, sweepVars, closeVars, via, late, life,
                   recent, listening, open>>

\* The last deferred calls: touch, forget, Close.
Finish(c) ==
    /\ Goto(c, "uncounted", "gone")
    /\ recent' = TRUE
    /\ conns' = conns \ {<<c, "client">>}
    /\ open' = open \ {<<c, "client">>}
    /\ UNCHANGED <<muVars, connsNil, sweepVars, closeVars, via, late, life,
                   active, listening>>

-----------------------------------------------------------------------------
(* The sweeper *)

IdlePasses ==
    /\ recent
    /\ recent' = FALSE
    /\ UNCHANGED <<handlerVars, muVars, connVars, sweepVars, closeVars, life,
                   active, listening, open>>

\* Mutant: the sweeper goes by the last use alone.
SweepIgnoresActive ==
    /\ sweeper = "waiting"
    /\ IdleWindow > 0
    /\ sweeper' = "sawNone"
    /\ UNCHANGED <<handlerVars, muVars, connVars, closeVars, victim, life,
                   active, recent, listening, open>>

\* A tick that finds active above zero goes back to waiting: no step.  The
\* channel stopped is closed together with the listeners, and a tick that
\* comes at the same time may still win the select.
SweepLooksAtActive ==
    /\ sweeper = "waiting"
    /\ IdleWindow > 0
    /\ active = 0
    /\ sweeper' = "sawNone"
    /\ UNCHANGED <<handlerVars, muVars, connVars, closeVars, victim, life,
                   active, recent, listening, open>>

\* Mutant: the comparison with the idle window is reversed.
SweepReversed ==
    /\ sweeper = "sawNone"
    /\ sweeper' = IF recent THEN "decided" ELSE "waiting"
    /\ UNCHANGED <<handlerVars, muVars, connVars, closeVars, victim, life,
                   active, recent, listening, open>>

SweepLooksAtLastUse ==
    /\ sweeper = "sawNone"
    /\ sweeper' = IF recent THEN "waiting" ELSE "decided"
    /\ UNCHANGED <<handlerVars, muVars, connVars, closeVars, victim, life,
                   active, recent, listening, open>>

\* Mutant: the gate keeps the instance that the sweeper is about to close.
SweepTakesCopy ==
    /\ sweeper = "decided"
    /\ holder = None
    /\ victim' = instance
    /\ sweeper' = IF instance = None THEN "waiting" ELSE "closing"
    /\ UNCHANGED <<handlerVars, muVars, connVars, closeVars, life, active,
                   recent, listening, open>>

\* The locked section: neither active nor lastUse is read again.
SweepTakes ==
    /\ sweeper = "decided"
    /\ holder = None
    /\ victim' = instance
    /\ instance' = None
    /\ sweeper' = IF instance = None THEN "waiting" ELSE "closing"
    /\ UNCHANGED <<handlerVars, holder, building, closed, connVars, closeVars,
                   life, active, recent, listening, open>>

SweepCloses ==
    /\ sweeper = "closing"
    /\ life' = [life EXCEPT ![victim] = "closed"]
    /\ victim' = None
    /\ sweeper' = "waiting"
    /\ UNCHANGED <<handlerVars, muVars, connVars, closeVars, active, recent,
                   listening, open>>

SweepStops ==
    /\ sweeper = "waiting"
    /\ ~listening
    /\ sweeper' = "stopped"
    /\ UNCHANGED <<handlerVars, muVars, connVars, closeVars, victim, life,
                   active, recent, listening, open>>

-----------------------------------------------------------------------------
(* Close *)

CloseMarks ==
    /\ closer = "open"
    /\ holder = None
    /\ closed' = TRUE
    /\ last' = instance
    /\ instance' = None
    /\ closer' = "marked"
    /\ UNCHANGED <<handlerVars, holder, building, connVars, sweepVars, life,
                   active, recent, listening, open>>

\* close(g.stopped) and the listeners.
CloseListeners ==
    /\ closer = "marked"
    /\ closer' = "draining"
    /\ listening' = FALSE
    /\ UNCHANGED <<handlerVars, muVars, connVars, sweepVars, last, life, active,
                   recent, open>>

\* Mutant: conns is set to nil and what it held is left open.
CloseConnsDrops ==
    /\ closer = "draining"
    /\ closer' = "dying"
    /\ connsNil' = TRUE
    /\ conns' = {}
    /\ UNCHANGED <<handlerVars, muVars, sweepVars, last, life, active, recent,
                   listening, open>>

CloseConns ==
    /\ closer = "draining"
    /\ closer' = "dying"
    /\ connsNil' = TRUE
    /\ conns' = {}
    /\ open' = open \ conns
    /\ UNCHANGED <<handlerVars, muVars, sweepVars, last, life, active, recent,
                   listening>>

CloseInstance ==
    /\ closer = "dying"
    /\ closer' = "closed"
    /\ last' = None
    /\ life' = [i \in Instances |-> IF i = last THEN "closed" ELSE life[i]]
    /\ UNCHANGED <<handlerVars, muVars, connVars, sweepVars, active, recent,
                   listening, open>>

-----------------------------------------------------------------------------
\* The steps of a handler that wait for nothing.
Proceed(c) ==
    \/ Track(c) \/ Count(c) \/ Touch(c) \/ Create(c) \/ Launch(c) \/ Dial(c)
    \/ TrackUpstream(c) \/ Uncount(c) \/ Finish(c)

Handle(c) == Accept(c) \/ Proceed(c) \/ Ensure(c) \/ RelayEnds(c)

Sweep ==
    \/ SweepLooksAtActive \/ SweepLooksAtLastUse \/ SweepTakes \/ SweepCloses
    \/ SweepStops

Close == CloseMarks \/ CloseListeners \/ CloseConns \/ CloseInstance

Next ==
    \/ \E c \in Conns : Handle(c)
    \/ IdlePasses
    \/ Sweep
    \/ Close

Spec == Init /\ [][Next]_vars

(***************************************************************************)
(* A goroutine that can run runs.  g.mu is held once by each handler at    *)
(* most, so weak fairness is enough for whoever waits for it.  A select    *)
(* that finds the channel stopped ready again and again takes it in the    *)
(* end, hence strong fairness of SweepStops.  A relay ends by itself only  *)
(* when its sockets were closed; a peer may keep it for ever, and nobody   *)
(* has to connect to the gate or close it.                                 *)
(***************************************************************************)
RelayIsCut(c) == <<c, "client">> \notin open /\ RelayEnds(c)

Fairness ==
    /\ \A c \in Conns : WF_vars(Proceed(c) \/ Ensure(c) \/ RelayIsCut(c))
    /\ WF_vars(IdlePasses)
    /\ WF_vars(SweepLooksAtActive \/ SweepLooksAtLastUse \/ SweepTakes \/ SweepCloses)
    /\ SF_vars(SweepStops)
    /\ WF_vars(CloseListeners \/ CloseConns \/ CloseInstance)

FairSpec == Spec /\ Fairness

-----------------------------------------------------------------------------
(* Properties *)

\* Where an instance that exists can be held.
Holders(i) == {h \in {"gate", "sweeper", "close", "ensure"} :
    \/ h = "gate" /\ i = instance
    \/ h = "sweeper" /\ i = victim
    \/ h = "close" /\ i = last
    \/ h = "ensure" /\ i = building}

(***************************************************************************)
(* Every instance that was built and not closed is held in exactly one     *)
(* place - g.instance, the sweeper, Close or ensure - so that none is lost *)
(* and none is closed twice, and a closed one is held nowhere.             *)
(***************************************************************************)
OneHolder ==
    \A i \in Instances :
        IF life[i] \in {"built", "running"}
        THEN \E h \in {"gate", "sweeper", "close", "ensure"} : Holders(i) = {h}
        ELSE Holders(i) = {}

(***************************************************************************)
(* Once Close has marked the gate, no handler still in flight brings an    *)
(* instance up: nothing is published and nobody is inside ensure.          *)
(***************************************************************************)
ClosedStaysCold == closed => instance = None /\ building = None /\ holder = None

(***************************************************************************)
(* Close leaves no live relay: once conns is nil, whatever a handler still *)
(* relays has both of its sockets closed.  This is what the nil map is     *)
(* for: a connection tracked too late is turned away.                      *)
(***************************************************************************)
NoRelayAfterDrain ==
    connsNil => \A c \in Conns : pc[c] = "relaying" =>
        <<c, "client">> \notin open /\ <<c, "upstream">> \notin open

(***************************************************************************)
(* A connection loses its instance to the sweeper only if its handler was  *)
(* counted while that sweep was already under way: a session that was up   *)
(* when the sweeper looked is never cut.  ("The instance can never be shut *)
(* down out from under a live UDP session" would be true of latecomers.)   *)
(***************************************************************************)
OnlyLatecomersAreCut ==
    ~closed => \A c \in Conns :
        pc[c] = "relaying" /\ life[via[c]] # "running" => c \in late

(***************************************************************************)
(* After Close everything goes: handlers and sweeper end, sockets and      *)
(* instances are closed.                                                   *)
(***************************************************************************)
Quiet ==
    /\ \A c \in Conns : pc[c] \in {"none", "gone"}
    /\ \A i \in Instances : life[i] \in {"unborn", "closed"}
    /\ open = {}
    /\ sweeper = "stopped"

CloseReleasesAll == closed ~> Quiet

(***************************************************************************)
(* No handler is stuck on g.mu: an accepted connection ends up relayed or  *)
(* turned away.                                                            *)
(***************************************************************************)
HandlersProgress ==
    \A c \in Conns : pc[c] = "accepted" ~> pc[c] \in {"relaying", "gone"}

(***************************************************************************)
(* An instance nobody uses any more goes away.                             *)
(***************************************************************************)
IdleInstanceGoes == <>[](active = 0) => <>[](instance = None)

-----------------------------------------------------------------------------
(* The inductive invariant *)

Counted == {c \in Conns : pc[c] \in CountedLabels}

\* The counter counts the handlers between its increment and its decrement.
ActiveCounts == active = Cardinality(Counted)

\* g.mu is held across ensure, hence neither the sweeper nor Close ran since.
LockInv ==
    /\ \A c \in Conns : pc[c] \in {"building", "launching"} <=> holder = c
    /\ holder # None => ~closed /\ instance = None
    /\ building # None <=> \E c \in Conns : pc[c] = "launching"
    /\ closed => instance = None

\* Each place holds an instance in its proper state, no two hold the same, and
\* every instance that lives is in one of them.
OwnInv ==
    /\ building # None => life[building] = "built"
    /\ \A i \in {instance, victim, last} \ {None} : life[i] = "running"
    /\ instance # None => instance \notin {victim, last}
    /\ victim # None => victim # last
    /\ \A i \in Instances : life[i] = "built" => i = building
    /\ \A i \in Instances : life[i] = "running" => i \in {instance, victim, last}

\* Where the sweeper and Close stand tells what they hold.
StageInv ==
    /\ victim # None <=> sweeper = "closing"
    /\ closed <=> closer # "open"
    /\ last # None => closer \in {"marked", "draining", "dying"}

\* A sweep under way saw no handler: those counted now came later.
SweepInv == sweeper \in MidSweep => Counted \subseteq late

\* Who dialled an instance finds it running until the sweeper of a late
\* handler, or Close, shuts it down.
DialInv ==
    \A c \in Conns : pc[c] \in {"dialled", "relaying"} =>
        /\ via[c] # None
        /\ life[via[c]] \in {"running", "closed"}
        /\ closed \/ c \in late \/ life[via[c]] = "running"

\* Until conns is nil it has every socket Close would have to close.
DrainInv ==
    /\ ~connsNil => \A c \in Conns : pc[c] = "relaying" => {c} \X Ends \subseteq conns
    /\ ~connsNil => \A c \in Conns :
         pc[c] \in CountedLabels \cup {"tracked"} => <<c, "client">> \in conns
    /\ NoRelayAfterDrain

(***************************************************************************)
(* The conjunction of the above is inductive: every critical section of    *)
(* the gate preserves it, and the safety properties follow from it.        *)
(***************************************************************************)
GateInv ==
    /\ TypeOK
    /\ ActiveCounts
    /\ LockInv
    /\ OwnInv
    /\ StageInv
    /\ SweepInv
    /\ DialInv
    /\ DrainInv
=============================================================================
