----------------------------- MODULE CoreServer -----------------------------
(***************************************************************************)
(* The lifecycle of a profile inside the Go core: the Start and Stop       *)
(* requests of core/server.go with everything they build and tear down,    *)
(* the throwaway stacks of test requests, and the callback that moves the  *)
(* egress of Xray when the default route changes.                          *)
(*                                                                         *)
(* The dispatcher gives every request a goroutine of its own, so the       *)
(* requests interleave at every step; Start and Stop are serialized by     *)
(* lifecycleMu (lock), everything else is not.  A resource is named by its *)
(* kind and by the request that built it; alive holds those that exist,    *)
(* slot is the package-level pointer of each kind.                         *)
(***************************************************************************)
EXTENDS Naturals, FiniteSets

CONSTANTS
    Requests,        \* Start and Stop requests, one goroutine each
    Tests,           \* Test, IPTest and SpeedTest requests
    Configs,         \* the LoadConfigReqs a client sends
    Platforms,       \* the builds considered: "linux", "darwin"
    Interfaces,      \* physical interfaces the default route may use
    MaxRouteChanges, \* bound: how often the default route moves
    None             \* the nil pointer

Sidecars == {"xray", "gate", "full"}
Kinds    == {"extra", "box"} \cup Sidecars

(***************************************************************************)
(* What a LoadConfigReq asks for: the extra process, the merged Xray       *)
(* sidecar (eager or behind a lazy gate), gates for opaque full configs    *)
(* and a TUN inbound.                                                      *)
(***************************************************************************)
Config == [extra : BOOLEAN, xray : {"none", "eager", "lazy"},
           full : BOOLEAN, tun : BOOLEAN]

Labels == {"idle", "extra", "mark", "xray", "xrayStart", "full", "box", "dns",
           "unwindBox", "unwindUnpublish", "unpublish", "closeBox", "stopExtra",
           "closeXray", "closeTaken", "clearMark", "fail", "ok", "error"}

TestLabels == {"idle", "box", "measure", "borrow", "close", "replied"}

Owners    == Requests \cup Tests
Resources == Kinds \X Owners
Instances == Sidecars \X Requests   \* the Xray instances of profiles, gated or eager

ASSUME CoreAssumption ==
    /\ None \notin Owners \cup Interfaces \cup Configs
    /\ Requests \cap Tests = {}
    /\ Configs \subseteq Config
    /\ Platforms \subseteq {"linux", "darwin"}
    /\ MaxRouteChanges \in Nat

VARIABLES
    platform,    \* runtime.GOOS, fixed for a run of the core
    lock,        \* holder of lifecycleMu
    pc,          \* where each Start or Stop goroutine stands
    cfg,         \* the configuration of a Start that has not failed; None for a Stop
    slot,        \* extraProcess, xrayInstance, xrayGate, xrayFullGates, boxInstance
    alive,       \* the resources that exist
    taken,       \* what a goroutine unpublished and has yet to close
    mark,        \* autoRedirectMark: whether the exemption mark is set
    needUnset,   \* needUnsetDNS
    tunDns,      \* whether the system resolver points at the TUN (darwin)
    overStarted, \* history: a Start was refused because a profile was running
    test,        \* where each test request stands
    testMark,    \* the mark a test instance took from currentEgress
    route,       \* the default interface the monitor reports
    changes,     \* how often the route moved
    egress,      \* the interface and the mark each Xray instance is bound to; None for
                 \* a gate that is cold
    callback     \* the monitor's goroutine and the instances before it; missed, a
                 \* history: the Starts that had bound an instance and not published
                 \* it when the callback read

lifecycleVars == <<lock, pc, cfg, slot, alive, taken, mark, needUnset, tunDns,
                   overStarted>>
testVars  == <<test, testMark>>
routeVars == <<route, changes, callback>>
vars == <<platform, lock, pc, cfg, slot, alive, taken, mark, needUnset, tunDns,
          overStarted, test, testMark, route, changes, egress, callback>>

TypeOK ==
    /\ platform \in {"linux", "darwin"}
    /\ lock \in Requests \cup {None}
    /\ pc \in [Requests -> Labels]
    /\ cfg \in [Requests -> Config \cup {None}]
    /\ slot \in [Kinds -> Requests \cup {None}]
    /\ alive \subseteq Resources
    /\ taken \in [Requests -> SUBSET Resources]
    /\ mark \in BOOLEAN
    /\ needUnset \in BOOLEAN
    /\ tunDns \in BOOLEAN
    /\ overStarted \in BOOLEAN
    /\ test \in [Tests -> TestLabels]
    /\ testMark \in [Tests -> BOOLEAN]
    /\ route \in Interfaces
    /\ changes \in Nat
    /\ egress \in [Instances -> [name : Interfaces, marked : BOOLEAN] \cup {None}]
    /\ callback \in [at : {"idle", "called", "apply"}, name : Interfaces,
                     targets : SUBSET Instances, missed : SUBSET Instances]

Init ==
    /\ platform \in Platforms
    /\ lock = None
    /\ pc = [r \in Requests |-> "idle"]
    /\ cfg = [r \in Requests |-> None]
    /\ slot = [k \in Kinds |-> None]
    /\ alive = {}
    /\ taken = [r \in Requests |-> {}]
    /\ mark = FALSE
    /\ needUnset = FALSE
    /\ tunDns = FALSE
    /\ overStarted = FALSE
    /\ test = [t \in Tests |-> "idle"]
    /\ testMark = [t \in Tests |-> FALSE]
    /\ route \in Interfaces
    /\ changes = 0
    /\ egress = [x \in Instances |-> None]
    /\ callback = [at |-> "idle", name |-> route, targets |-> {}, missed |-> {}]

-----------------------------------------------------------------------------
(* Helpers *)

At(r, label) == pc[r] = label
To(r, label) == pc' = [pc EXCEPT ![r] = label]
Goto(r, from, to) == At(r, from) /\ To(r, to)

Build(kind, r)   == alive' = alive \cup {<<kind, r>>}
Publish(kind, r) == slot' = [slot EXCEPT ![kind] = r]

\* setXray: one of the two pointers is set, the other cleared.
SetXray(kind, r) ==
    slot' = [slot EXCEPT !["xray"] = IF kind = "xray" THEN r ELSE None,
                         !["gate"] = IF kind = "gate" THEN r ELSE None]

\* The auto_redirect mark of a configuration; SO_MARK exists on Linux only.
AutoRedirectMark(c) == platform = "linux" /\ c.tun

\* extraProcess.Stop() and the pointer reset that always goes with it.
StopExtraProcess ==
    /\ alive' = alive \ {<<"extra", slot["extra"]>>}
    /\ slot' = [slot EXCEPT !["extra"] = None]

\* StartGate returns with no instance running yet.
Cold(kind, r) == egress' = [egress EXCEPT ![<<kind, r>>] = None]

\* currentEgress, as prepareXray applies it to an instance.
CurrentEgress == [name |-> route, marked |-> mark]

\* The kinds of sidecar whose pointer is set.
LiveSlots == {k \in Sidecars : slot[k] # None}

Outside == <<platform, test, testMark, route, changes, callback>>

-----------------------------------------------------------------------------
(* Start *)

\* A second Start over a running profile: refused, but through the common
\* error path, which unpublishes the box that is running.
StartRefused(r, c) ==
    /\ lock = None
    /\ slot["box"] # None
    /\ Goto(r, "idle", "fail")
    /\ lock' = r
    /\ cfg' = [cfg EXCEPT ![r] = c]
    /\ overStarted' = TRUE
    /\ UNCHANGED <<slot, alive, taken, mark, needUnset, tunDns, egress,
                   Outside>>

StartAccepted(r, c) ==
    /\ lock = None
    /\ slot["box"] = None
    /\ Goto(r, "idle", "extra")
    /\ lock' = r
    /\ cfg' = [cfg EXCEPT ![r] = c]
    /\ UNCHANGED <<slot, alive, taken, mark, needUnset, tunDns, overStarted,
                   egress, Outside>>

\* The arguments or the configuration file may be rejected; otherwise the
\* pointer is assigned before the child is launched, which may fail too.
StartExtra(r) ==
    /\ At(r, "extra")
    /\ \/ ~cfg[r].extra /\ To(r, "mark") /\ UNCHANGED <<slot, alive>>
       \/ cfg[r].extra /\ To(r, "fail") /\ UNCHANGED <<slot, alive>>
       \/ /\ cfg[r].extra /\ Publish("extra", r)
          /\ \/ To(r, "mark") /\ Build("extra", r)
             \/ To(r, "fail") /\ UNCHANGED alive
    /\ UNCHANGED <<lock, cfg, taken, mark, needUnset, tunDns, overStarted,
                   egress, Outside>>

StartMark(r) ==
    /\ Goto(r, "mark", "xray")
    /\ mark' = AutoRedirectMark(cfg[r])
    /\ UNCHANGED <<lock, cfg, slot, alive, taken, needUnset, tunDns,
                   overStarted, egress, Outside>>

\* Nothing to start, a gate that opens with no instance yet, or either kind
\* failing to be created, which leaves nothing behind.
StartXray(r) ==
    /\ At(r, "xray")
    /\ \/ cfg[r].xray = "none" /\ To(r, "full") /\ UNCHANGED <<slot, alive, egress>>
       \/ cfg[r].xray # "none" /\ To(r, "fail") /\ UNCHANGED <<slot, alive, egress>>
       \/ /\ cfg[r].xray = "lazy" /\ To(r, "full")
          /\ Build("gate", r) /\ SetXray("gate", r) /\ Cold("gate", r)
    /\ UNCHANGED <<lock, cfg, taken, mark, needUnset, tunDns, overStarted, Outside>>

\* The instance is created and prepareXray binds it to the route of this moment.
CreateEagerXray(r) ==
    /\ Goto(r, "xray", "xrayStart")
    /\ cfg[r].xray = "eager"
    /\ Build("xray", r)
    /\ egress' = [egress EXCEPT ![<<"xray", r>>] = CurrentEgress]
    /\ UNCHANGED <<lock, cfg, slot, taken, mark, needUnset, tunDns,
                   overStarted, Outside>>

\* The instance is published once it runs; one that fails is closed on the spot.
StartEagerXray(r) ==
    /\ At(r, "xrayStart")
    /\ \/ To(r, "full") /\ SetXray("xray", r) /\ UNCHANGED alive
       \/ /\ To(r, "fail")
          /\ alive' = alive \ {<<"xray", r>>}
          /\ UNCHANGED slot
    /\ UNCHANGED <<lock, cfg, taken, mark, needUnset, tunDns, overStarted,
                   egress, Outside>>

\* Mutant: the error of a gate is dropped, and the start goes on without it.
StartFullGatesGoesOn(r) ==
    /\ Goto(r, "full", "box")
    /\ UNCHANGED <<lock, cfg, slot, alive, taken, mark, needUnset, tunDns,
                   overStarted, egress, Outside>>

\* startXrayFullGates opens every gate or unwinds those it opened; on a failure
\* the merged sidecar is closed too.
StartFullGates(r) ==
    /\ At(r, "full")
    /\ \/ ~cfg[r].full /\ To(r, "box") /\ UNCHANGED <<slot, alive, egress>>
       \/ /\ cfg[r].full /\ To(r, "box")
          /\ Build("full", r) /\ Publish("full", r) /\ Cold("full", r)
       \/ cfg[r].full /\ To(r, "closeXray") /\ UNCHANGED <<slot, alive, egress>>
    /\ UNCHANGED <<lock, cfg, taken, mark, needUnset, tunDns, overStarted, Outside>>

\* Mutant: a box that cannot be created takes the plain error path.
CreateBoxLeaks(r) ==
    /\ At(r, "box")
    /\ \/ To(r, "dns") /\ Build("box", r) /\ Publish("box", r)
       \/ To(r, "fail") /\ UNCHANGED <<slot, alive>>
    /\ UNCHANGED <<lock, cfg, taken, mark, needUnset, tunDns, overStarted,
                   egress, Outside>>

\* On a failure the extra process is stopped, then the sidecars.
CreateBox(r) ==
    /\ At(r, "box")
    /\ \/ To(r, "dns") /\ Build("box", r) /\ Publish("box", r)
       \/ To(r, "stopExtra") /\ UNCHANGED <<slot, alive>>
    /\ UNCHANGED <<lock, cfg, taken, mark, needUnset, tunDns, overStarted,
                   egress, Outside>>

\* With a TUN on darwin the system resolver is pointed at it, and a failure to
\* do so is only logged; a prefix that does not parse stops all cores.
StartDns(r) ==
    /\ At(r, "dns")
    /\ IF platform = "darwin" /\ cfg[r].tun
       THEN \/ /\ To(r, "ok") /\ lock' = None
               /\ tunDns' \in {TRUE, tunDns} /\ needUnset' = TRUE
            \/ To(r, "unwindBox") /\ UNCHANGED <<lock, tunDns, needUnset>>
       ELSE To(r, "ok") /\ lock' = None /\ UNCHANGED <<tunDns, needUnset>>
    /\ UNCHANGED <<cfg, slot, alive, taken, mark, overStarted, egress,
                   Outside>>

\* stopAllCores closes the box while it is still published...
UnwindBox(r) ==
    /\ Goto(r, "unwindBox", "unwindUnpublish")
    /\ alive' = alive \ {<<"box", r>>}
    /\ UNCHANGED <<lock, cfg, slot, taken, mark, needUnset, tunDns,
                   overStarted, egress, Outside>>

\* ... and unpublishes it afterwards.
UnwindUnpublish(r) ==
    /\ Goto(r, "unwindUnpublish", "stopExtra")
    /\ Publish("box", None)
    /\ UNCHANGED <<lock, cfg, alive, taken, mark, needUnset, tunDns,
                   overStarted, egress, Outside>>

\* The deferred function of Start when err is set.
StartFails(r) ==
    /\ Goto(r, "fail", "error")
    /\ lock' = None
    /\ Publish("box", None)
    /\ mark' = FALSE
    /\ cfg' = [cfg EXCEPT ![r] = None]
    /\ UNCHANGED <<alive, taken, needUnset, tunDns, overStarted, egress,
                   Outside>>

-----------------------------------------------------------------------------
(* Stop *)

\* Nothing runs: an empty answer, and nothing else happens.
StopIdle(r) ==
    /\ lock = None
    /\ slot["box"] = None
    /\ Goto(r, "idle", "ok")
    /\ UNCHANGED <<lock, cfg, slot, alive, taken, mark, needUnset, tunDns,
                   overStarted, egress, Outside>>

Stop(r) ==
    /\ lock = None
    /\ slot["box"] # None
    /\ Goto(r, "idle", "unpublish")
    /\ lock' = r
    /\ IF needUnset THEN needUnset' = FALSE /\ tunDns' \in {FALSE, tunDns}
                    ELSE UNCHANGED <<needUnset, tunDns>>
    /\ UNCHANGED <<cfg, slot, alive, taken, mark, overStarted, egress,
                   Outside>>

Unpublish(r) ==
    /\ Goto(r, "unpublish", "closeBox")
    /\ taken' = [taken EXCEPT ![r] = {<<"box", slot["box"]>>}]
    /\ Publish("box", None)
    /\ UNCHANGED <<lock, cfg, alive, mark, needUnset, tunDns, overStarted,
                   egress, Outside>>

\* Mutant: the close gives up waiting, as it does for a test box.
CloseBoxGivesUp(r) ==
    /\ Goto(r, "closeBox", "stopExtra")
    /\ taken' = [taken EXCEPT ![r] = {}]
    /\ UNCHANGED <<lock, cfg, slot, alive, mark, needUnset, tunDns,
                   overStarted, egress, Outside>>

\* CloseWithTimeout with block set: the call returns once the box is closed.
CloseBox(r) ==
    /\ Goto(r, "closeBox", "stopExtra")
    /\ alive' = alive \ taken[r]
    /\ taken' = [taken EXCEPT ![r] = {}]
    /\ UNCHANGED <<lock, cfg, slot, mark, needUnset, tunDns, overStarted,
                   egress, Outside>>

StopExtra(r) ==
    /\ Goto(r, "stopExtra", "closeXray")
    /\ StopExtraProcess
    /\ UNCHANGED <<lock, cfg, taken, mark, needUnset, tunDns, overStarted,
                   egress, Outside>>

\* closeXray clears the slots before it closes what they held.
CloseXray(r) ==
    /\ Goto(r, "closeXray", "closeTaken")
    /\ taken' = [taken EXCEPT ![r] = {<<k, slot[k]>> : k \in LiveSlots}]
    /\ slot' = [k \in Kinds |-> IF k \in Sidecars THEN None ELSE slot[k]]
    /\ UNCHANGED <<lock, cfg, alive, mark, needUnset, tunDns, overStarted,
                   egress, Outside>>

CloseTaken(r) ==
    /\ Goto(r, "closeTaken", IF cfg[r] = None THEN "clearMark" ELSE "fail")
    /\ alive' = alive \ taken[r]
    /\ taken' = [taken EXCEPT ![r] = {}]
    /\ UNCHANGED <<lock, cfg, slot, mark, needUnset, tunDns, overStarted,
                   egress, Outside>>

\* Mutant: Stop leaves the exemption mark set.
ClearMarkForgotten(r) ==
    /\ Goto(r, "clearMark", "ok")
    /\ lock' = None
    /\ UNCHANGED <<cfg, slot, alive, taken, mark, needUnset, tunDns,
                   overStarted, egress, Outside>>

ClearMark(r) ==
    /\ Goto(r, "clearMark", "ok")
    /\ lock' = None
    /\ mark' = FALSE
    /\ UNCHANGED <<cfg, slot, alive, taken, needUnset, tunDns, overStarted,
                   egress, Outside>>

\* The extra process may end by itself; its waiter only logs that.
ExtraExits(r) ==
    /\ <<"extra", r>> \in alive
    /\ alive' = alive \ {<<"extra", r>>}
    /\ UNCHANGED <<lock, pc, cfg, slot, taken, mark, needUnset, tunDns,
                   overStarted, egress, Outside>>

-----------------------------------------------------------------------------
(* Test requests: prepareTestEnv, the measurement, env.close *)

\* `current` measures the running box and owns nothing; without one the request
\* is answered at once.
TestCurrent(t) ==
    /\ test[t] = "idle"
    /\ test' = [test EXCEPT ![t] = IF slot["box"] = None THEN "replied" ELSE "borrow"]
    /\ UNCHANGED <<lifecycleVars, routeVars, platform, testMark, egress>>

TestCurrentEnds(t) ==
    /\ test[t] = "borrow"
    /\ test' = [test EXCEPT ![t] = "replied"]
    /\ UNCHANGED <<lifecycleVars, routeVars, platform, testMark, egress>>

\* The sidecars of the test take the mark of this moment and keep it.
TestSidecars(t) ==
    /\ test[t] = "idle"
    /\ \/ /\ Build("xray", t)
          /\ testMark' = [testMark EXCEPT ![t] = mark]
          /\ test' = [test EXCEPT ![t] = "box"]
       \/ UNCHANGED <<alive, testMark>> /\ test' = [test EXCEPT ![t] = "replied"]
       \/ UNCHANGED <<alive, testMark>> /\ test' = [test EXCEPT ![t] = "box"]
    /\ UNCHANGED <<lock, pc, cfg, slot, taken, mark, needUnset, tunDns,
                   overStarted, routeVars, platform, egress>>

TestBox(t) ==
    /\ test[t] = "box"
    /\ \/ Build("box", t) /\ test' = [test EXCEPT ![t] = "measure"]
       \/ UNCHANGED alive /\ test' = [test EXCEPT ![t] = "close"]
    /\ UNCHANGED <<lock, pc, cfg, slot, taken, mark, needUnset, tunDns,
                   overStarted, routeVars, platform, testMark, egress>>

\* The box goes first; CloseWithTimeout without block gives up on it after two
\* seconds, and then it is still closing while the sidecars go.
TestEnds(t) ==
    /\ test[t] = "measure"
    /\ test' = [test EXCEPT ![t] = "close"]
    /\ alive' \in {alive, alive \ {<<"box", t>>}}
    /\ UNCHANGED <<lock, pc, cfg, slot, taken, mark, needUnset, tunDns,
                   overStarted, routeVars, platform, testMark, egress>>

TestCloseSidecars(t) ==
    /\ test[t] = "close"
    /\ test' = [test EXCEPT ![t] = "replied"]
    /\ alive' = alive \ {<<"xray", t>>}
    /\ UNCHANGED <<lock, pc, cfg, slot, taken, mark, needUnset, tunDns,
                   overStarted, routeVars, platform, testMark, egress>>

\* The goroutine CloseWithTimeout left behind finishes.
TestBoxCloses(t) ==
    /\ test[t] \in {"close", "replied"}
    /\ <<"box", t>> \in alive
    /\ alive' = alive \ {<<"box", t>>}
    /\ UNCHANGED <<lock, pc, cfg, slot, taken, mark, needUnset, tunDns,
                   overStarted, routeVars, platform, test, testMark, egress>>

-----------------------------------------------------------------------------
(* The route callback *)

\* The monitor updates its interface, then calls back with it; the next change
\* waits for the callback to return.
RouteMoves(i) ==
    /\ callback.at = "idle"
    /\ i # route
    /\ changes < MaxRouteChanges
    /\ changes' = changes + 1
    /\ route' = i
    /\ callback' = [callback EXCEPT !.at = "called", !.name = i]
    /\ UNCHANGED <<lifecycleVars, testVars, platform, egress>>

\* Mutant: the gates are not asked for the instances they have.
FollowedEager ==
    {x \in Instances : x[1] = "xray" /\ slot[x[1]] = x[2] /\ egress[x] # None}

\* liveXrayInstances: the eager instance and those of the gates that are up.
Followed == {x \in Instances : slot[x[1]] = x[2] /\ egress[x] # None}

\* Bound and not yet published.
Unseen == {x \in Instances : x[1] = "xray" /\ At(x[2], "xrayStart")}

\* The callback sees only what is published.
CallbackReads ==
    /\ callback.at = "called"
    /\ callback' = [callback EXCEPT !.at = IF Followed = {} THEN "idle" ELSE "apply",
                        !.targets = Followed, !.missed = @ \cup Unseen]
    /\ UNCHANGED <<lifecycleVars, testVars, platform, route, changes, egress>>

\* SetEgress with the mark of this moment, one instance at a time; one that was
\* closed since is none of the gate's.
CallbackApplies(x) ==
    /\ callback.at = "apply" /\ x \in callback.targets
    /\ callback' = [callback EXCEPT !.at = IF callback.targets = {x} THEN "idle" ELSE "apply",
                        !.targets = @ \ {x}]
    /\ egress' = IF egress[x] = None THEN egress
                 ELSE [egress EXCEPT ![x] = [name |-> callback.name, marked |-> mark]]
    /\ UNCHANGED <<lifecycleVars, testVars, platform, route, changes>>

-----------------------------------------------------------------------------
(* The instances behind gates *)

Gated(x) == x[1] # "xray" /\ x \in alive

\* Gate.ensure prepares and starts the instance under mu, for which Instance
\* waits: the callback finds it whole or not at all.
GateWakes(x) ==
    /\ Gated(x) /\ egress[x] = None
    /\ egress' = [egress EXCEPT ![x] = CurrentEgress]
    /\ UNCHANGED <<lifecycleVars, testVars, routeVars, platform>>

\* sweep shuts an idle instance down.
GateSleeps(x) ==
    /\ Gated(x) /\ egress[x] # None
    /\ egress' = [egress EXCEPT ![x] = None]
    /\ UNCHANGED <<lifecycleVars, testVars, routeVars, platform>>

-----------------------------------------------------------------------------
Lifecycle(r) ==
    \/ \E c \in Configs : StartRefused(r, c) \/ StartAccepted(r, c)
    \/ StartExtra(r) \/ StartMark(r) \/ StartXray(r) \/ CreateEagerXray(r)
    \/ StartEagerXray(r) \/ StartFullGates(r) \/ CreateBox(r) \/ StartDns(r)
    \/ UnwindBox(r) \/ UnwindUnpublish(r) \/ StartFails(r)
    \/ StopIdle(r) \/ Stop(r) \/ Unpublish(r) \/ CloseBox(r) \/ StopExtra(r)
    \/ CloseXray(r) \/ CloseTaken(r) \/ ClearMark(r) \/ ExtraExits(r)

Testing(t) ==
    \/ TestCurrent(t) \/ TestCurrentEnds(t) \/ TestSidecars(t) \/ TestBox(t)
    \/ TestEnds(t) \/ TestCloseSidecars(t) \/ TestBoxCloses(t)

Next ==
    \/ \E r \in Requests : Lifecycle(r)
    \/ \E t \in Tests : Testing(t)
    \/ \E i \in Interfaces : RouteMoves(i)
    \/ CallbackReads
    \/ \E x \in Instances : CallbackApplies(x) \/ GateWakes(x) \/ GateSleeps(x)

Spec == Init /\ [][Next]_vars

-----------------------------------------------------------------------------
(* Properties *)

Needed(c) ==
    {k \in Sidecars : \/ k = "xray" /\ c.xray = "eager"
                      \/ k = "gate" /\ c.xray = "lazy"
                      \/ k = "full" /\ c.full}

(***************************************************************************)
(* A box that is published runs, together with exactly the sidecars its    *)
(* own configuration asked for, whatever requests failed or were refused   *)
(* before it.  The one exception is stopAllCores, which closes first.      *)
(***************************************************************************)
ProfileComplete ==
    \A r \in Requests : slot["box"] = r /\ pc[r] # "unwindUnpublish" =>
        /\ <<"box", r>> \in alive
        /\ \A k \in Needed(cfg[r]) : slot[k] = r /\ <<k, r>> \in alive

(***************************************************************************)
(* As long as no second Start was refused, the sidecars outlive the box    *)
(* whose outbounds dial into them, at every step of every teardown: Stop,  *)
(* a failed Start, stopAllCores.  A box that a refused Start unpublished   *)
(* may lose its sidecars to a later Start or Stop.                         *)
(***************************************************************************)
SidecarsOutliveBox ==
    ~overStarted =>
        \A r \in Requests : <<"box", r>> \in alive =>
            \A k \in Needed(cfg[r]) : <<k, r>> \in alive

(***************************************************************************)
(* Between requests nothing exists that no pointer leads to, and with no   *)
(* profile published the mark and the resolver are back to normal.  What   *)
(* escapes is the extra process of a failed Start (ErrorPathsClose), and   *)
(* everything once a second Start was refused.  A test that answered       *)
(* leaves at most a box whose close timed out.                             *)
(***************************************************************************)
NothingLeaks ==
    /\ lock = None /\ ~overStarted =>
        /\ \A k \in Kinds, r \in Requests : <<k, r>> \in alive =>
             slot[k] = r \/ (k = "extra" /\ pc[r] = "error")
        /\ slot["box"] = None => ~mark /\ ~needUnset /\ LiveSlots = {}
    /\ \A t \in Tests : test[t] = "replied" => <<"xray", t>> \notin alive

\* A box whose TUN captures traffic by auto_redirect lives, published or not.
TunUp ==
    \E r \in Requests :
        <<"box", r>> \in alive /\ cfg[r] # None /\ AutoRedirectMark(cfg[r])

\* A test builds its sidecars while no Start and no Stop is under way.
TestBegins(t) == test[t] = "idle" /\ <<"xray", t>> \in alive' \ alive /\ lock = None

(***************************************************************************)
(* A test built between requests carries the exemption mark only over a    *)
(* live auto_redirect TUN, and over every live one that no second Start    *)
(* was refused over: never after a Stop or a failed Start, always over the *)
(* TUN of the running profile.  A refused Start clears the mark of a TUN   *)
(* that goes on, against the comment on the egress of tests.               *)
(***************************************************************************)
TestCarriesMarkIffTunUp ==
    [][\A t \in Tests : TestBegins(t) =>
           /\ testMark'[t] => TunUp
           /\ TunUp /\ ~overStarted => testMark'[t]]_vars

(***************************************************************************)
(* "Published only once fully up; error paths close what they built": a    *)
(* Start that answered with an error left nothing of its own behind.       *)
(***************************************************************************)
ErrorPathsClose ==
    \A r \in Requests : pc[r] = "error" =>
        \A k \in Kinds : <<k, r>> \notin alive

(***************************************************************************)
(* "Keeps the live Xray instance's egress on the current default route as  *)
(* the network changes": with no request and no callback in progress, the  *)
(* published instances, eager or behind a gate, are bound to the default   *)
(* route, and carry the mark of the profile unless a second Start was      *)
(* refused.  What escapes is a route that moved while an eager instance    *)
(* was bound and not published.                                            *)
(***************************************************************************)
EgressFollowsRoute ==
    lock = None /\ callback.at = "idle" =>
        \A x \in Instances : slot[x[1]] = x[2] /\ egress[x] # None =>
            /\ egress[x].name = route \/ x \in callback.missed
            /\ ~overStarted => egress[x].marked = mark

-----------------------------------------------------------------------------
(* The inductive invariant *)

\* Where a request holds lifecycleMu.
Holding == Labels \ {"idle", "ok", "error"}

Starting == {"extra", "mark", "xray", "xrayStart", "full", "box", "dns",
             "unwindBox", "unwindUnpublish"}

\* lifecycleMu is held by whoever is inside Start or Stop.
LockInv == \A r \in Requests : pc[r] \in Holding <=> lock = r

\* What a request holds of its configuration, which tells CloseTaken where to return.
CfgInv ==
    \A r \in Requests :
        /\ pc[r] \in Starting \cup {"fail"} => cfg[r] # None
        /\ pc[r] = "clearMark" => cfg[r] = None

\* The box is published from CreateBox on, and unpublished before it is closed.
StageInv ==
    \A r \in Requests :
        /\ pc[r] \in {"extra", "mark", "xray", "xrayStart", "full", "box", "closeBox",
                      "stopExtra", "closeXray", "closeTaken", "clearMark"}
              => slot["box"] = None
        /\ pc[r] \in {"dns", "unwindBox", "unwindUnpublish"} => slot["box"] = r
        /\ pc[r] = "unpublish" => slot["box"] # None

Kept(k, r) == slot[k] = r /\ <<k, r>> \in alive
Served(r)  == \A k \in Needed(cfg[r]) : Kept(k, r)

\* A published box belongs to a Start that came that far, with its sidecars.
BoxInv ==
    \A b \in Requests : slot["box"] = b =>
        /\ pc[b] \in {"ok", "dns", "unwindBox", "unwindUnpublish"}
        /\ cfg[b] # None
        /\ pc[b] # "unwindUnpublish" => <<"box", b>> \in alive
        /\ Served(b)

\* A Start under way has what its configuration asked for so far.
BuildInv ==
    \A r \in Requests :
        /\ pc[r] = "xrayStart" => <<"xray", r>> \in alive /\ cfg[r].xray = "eager"
        /\ pc[r] = "full" => \A k \in Needed(cfg[r]) \ {"full"} : Kept(k, r)
        /\ pc[r] = "box" => Served(r)
        /\ pc[r] = "unwindUnpublish" => <<"box", r>> \notin alive

\* What was unpublished to be closed: a box whose sidecars are still there, or
\* sidecars.
TakenInv ==
    \A h \in Requests :
        /\ pc[h] = "closeBox" =>
              \E b \in Requests : /\ taken[h] = {<<"box", b>>}
                                  /\ pc[b] = "ok" /\ cfg[b] # None /\ Served(b)
        /\ pc[h] = "closeTaken" => taken[h] \subseteq Sidecars \X Requests

\* The mark is that of the profile, between requests and while one is built.
MarkInv ==
    /\ lock = None =>
          (mark <=> slot["box"] # None /\ AutoRedirectMark(cfg[slot["box"]]))
    /\ \A r \in Requests :
          pc[r] \in {"xray", "xrayStart", "full", "box", "dns", "unwindBox", "unwindUnpublish"}
              => (mark <=> AutoRedirectMark(cfg[r]))

\* A test holds its sidecar until it closes it.
TestInv ==
    \A t \in Tests : <<"xray", t>> \in alive => test[t] \in {"box", "measure", "close"}

\* A live box keeps the configuration it was built from.
LiveInv ==
    \A r \in Requests : <<"box", r>> \in alive =>
        pc[r] \in {"dns", "unwindBox", "ok"} /\ cfg[r] # None

\* An instance that is bound follows the route, or the callback has it before it.
Bound(x) == (slot[x[1]] = x[2] \/ x \in Unseen) /\ egress[x] # None

EgressInv ==
    /\ callback.at # "idle" => callback.name = route
    /\ callback.at # "called" =>
          \A x \in Instances : Bound(x) =>
              \/ egress[x].name = route
              \/ x \in callback.missed
              \/ x \in callback.targets
    /\ callback.at # "apply" => callback.targets = {}

\* It carries the mark of the profile, which changes while there is no instance.
CarriedInv ==
    ~overStarted => \A x \in Instances : Bound(x) => egress[x].marked = mark

(***************************************************************************)
(* As long as no Start was refused, everything that lives is published or  *)
(* in the hands of the request that holds the lock; only the extra process *)
(* of a Start that failed is not.                                          *)
(***************************************************************************)
BoxOwned ==
    \A r \in Requests : <<"box", r>> \in alive =>
        slot["box"] = r \/ \E h \in Requests : pc[h] = "closeBox" /\ taken[h] = {<<"box", r>>}

SidecarsOwned ==
    \A k \in Sidecars, r \in Requests : <<k, r>> \in alive =>
        \/ slot[k] = r
        \/ k = "xray" /\ pc[r] = "xrayStart"
        \/ \E h \in Requests : pc[h] = "closeTaken" /\ <<k, r>> \in taken[h]

ExtraOwned ==
    \A r \in Requests : <<"extra", r>> \in alive =>
        \/ pc[r] = "error"
        \/ /\ slot["extra"] = r
           /\ \/ pc[r] \in Holding /\ cfg[r] # None
              \/ slot["box"] = r
              \/ \E h \in Requests : pc[h] \in {"closeBox", "stopExtra"}

\* The pointers of sidecars are those of the box, of a Start on its way to one, or
\* about to be taken.
SlotsInUse ==
    /\ \A k \in Sidecars : slot[k] # None =>
          \/ slot[k] = slot["box"]
          \/ pc[slot[k]] \in {"full", "box"}
          \/ \E h \in Requests : pc[h] \in {"closeBox", "stopExtra", "closeXray"}
    /\ \A r \in Requests : pc[r] = "full" => slot["full"] = None

TidyInv ==
    ~overStarted =>
        /\ BoxOwned
        /\ SidecarsOwned
        /\ ExtraOwned
        /\ SlotsInUse
        /\ \A r \in Requests : pc[r] = "fail" => slot["box"] = None
        /\ needUnset => lock = None /\ slot["box"] # None

CoreInv ==
    /\ TypeOK
    /\ LockInv
    /\ CfgInv
    /\ StageInv
    /\ BoxInv
    /\ BuildInv
    /\ TakenInv
    /\ MarkInv
    /\ TestInv
    /\ LiveInv
    /\ EgressInv
    /\ TidyInv
    /\ CarriedInv
=============================================================================
