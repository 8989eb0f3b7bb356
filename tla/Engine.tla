------------------------------- MODULE Engine -------------------------------
(***************************************************************************)
(* The client's engine and the core processes it starts.                   *)
(*                                                                         *)
(* The engine (crates/app/src/engine.rs) is one loop that serves commands  *)
(* in turn and polls the running core; a latency or speed test runs in a   *)
(* task of its own.  Both start cores with Core::spawn and end them with   *)
(* Core::shutdown (crates/ipc/src/lib.rs), and all cores of one client     *)
(* meet it at the same endpoint: a socket path that every spawn unlinks    *)
(* and binds anew, or on Windows a pipe name that only one instance may    *)
(* have.  On macOS a VPN core is started by the root helper, so that the   *)
(* client holds no handle of the process; elsewhere it has the privileges  *)
(* the client was given.                                                   *)
(*                                                                         *)
(* A spawn, its listener and the process it starts share one name.  A call *)
(* that the loop awaits returns (IpcChannel); what it did is a choice.     *)
(***************************************************************************)
EXTENDS Naturals, Sequences, FiniteSets

CONSTANTS
    MaxSpawns,   \* bound: how many listeners are ever bound
    Tests,       \* bound: the test tasks, each used once
    Hosts,       \* the systems considered, with or without privileges
    MaxCommands, \* bound: how many commands the interface sends
    None

Cores == 1 .. MaxSpawns
Loop  == "loop"
Tasks == {Loop} \cup Tests

Host == [os : {"linux", "windows", "macos"}, elevated : BOOLEAN]

\* Connect and ConnectAuto in the proxy mode ("connect") and in the VPN mode;
\* "stopTest" stands for the commands that only call the running core.
Connections == {"connect", "vpn"}
Commands == Connections \cup {"disconnect", "test", "check", "stopTest", "shutdown"}

Labels == {"idle", "next", "clean", "bind", "launch", "accept", "call", "stop",
           "kill", "failed", "gone"}

ASSUME EngineAssumption ==
    /\ MaxSpawns \in Nat
    /\ None \notin Nat
    /\ Loop \notin Tests
    /\ Hosts \subseteq Host
    /\ MaxCommands \in Nat

VARIABLES
    host,      \* target_os and the rights of the client
    queue,     \* the command channel
    sent,      \* how many commands were sent
    spawned,   \* how many listeners were bound
    running,   \* the spawn whose Core the loop keeps, or None
    status,    \* the last Status event
    pc,        \* where each task stands
    goal,      \* the command a task carries out
    core,      \* the spawn a task is busy with
    file,      \* the listener the endpoint leads to
    listening, \* the listeners that are open
    proc,      \* the processes
    at,        \* the listener a process connected to
    peer,      \* the process a Core's client talks to
    helped,    \* the spawns started by the root helper
    profile,   \* the processes that run a profile
    overlap    \* history: a spawn began while another was at the endpoint

loopVars == <<queue, sent, running, status>>
taskVars == <<spawned, pc, goal, core>>
procVars == <<proc, at, profile>>
vars == <<host, loopVars, taskVars, file, listening, procVars, peer, helped,
          overlap>>

TypeOK ==
    /\ host \in Host
    /\ queue \in Seq(Commands)
    /\ sent \in 0 .. MaxCommands
    /\ spawned \in 0 .. MaxSpawns
    /\ running \in Cores \cup {None}
    /\ status \in {"disconnected", "connecting", "connected", "failed"}
    /\ pc \in [Tasks -> Labels]
    /\ goal \in [Tasks -> Commands \cup {"none", "refused"}]
    /\ core \in [Tasks -> Cores \cup {None}]
    /\ file \in Cores \cup {None}
    /\ listening \subseteq Cores
    /\ proc \in [Cores -> {"none", "starting", "connected", "dead"}]
    /\ at \in [Cores -> Cores \cup {None}]
    /\ peer \in [Cores -> Cores \cup {None}]
    /\ helped \subseteq Cores
    /\ profile \subseteq Cores
    /\ overlap \in BOOLEAN

Init ==
    /\ host \in Hosts
    /\ queue = <<>>
    /\ sent = 0
    /\ spawned = 0
    /\ running = None
    /\ status = "disconnected"
    /\ pc = [t \in Tasks |-> "idle"]
    /\ goal = [t \in Tasks |-> "none"]
    /\ core = [t \in Tasks |-> None]
    /\ file = None
    /\ listening = {}
    /\ proc = [p \in Cores |-> "none"]
    /\ at = [p \in Cores |-> None]
    /\ peer = [p \in Cores |-> None]
    /\ helped = {}
    /\ profile = {}
    /\ overlap = FALSE

-----------------------------------------------------------------------------
(* Helpers *)

At(t, label) == pc[t] = label
To(t, label) == pc' = [pc EXCEPT ![t] = label]
Goto(t, from, to) == At(t, from) /\ To(t, to)

\* A task is done with its command and with the core it was busy with.
Done(t, label) ==
    /\ To(t, label)
    /\ goal' = [goal EXCEPT ![t] = "none"]
    /\ core' = [core EXCEPT ![t] = None]

Alive(p) == proc[p] \in {"starting", "connected"}

DieWith(P, started) ==
    /\ proc' = [p \in Cores |-> IF p \in P /\ Alive(p) THEN "dead" ELSE proc[p]]
    /\ profile' = started \ P

Die(P) == DieWith(P, profile)

\* cleanup_endpoint unlinks whatever is at the path.
Cleanup == file' = IF host.os = "windows" THEN file ELSE None

\* The process a Core holds a handle of, if any: killed with it.
Child(s) == IF s \in helped THEN {} ELSE {s}

\* Connections to a listener that nobody accepted: reset with the listener, and
\* a core whose connection is dropped exits.
Backlog(s) == {p \in Cores : proc[p] = "connected" /\ at[p] = s}

\* Every handle of the pipe: a listener, or a stream whose far end lives.
PipeInUse == listening # {} \/ \E p \in Cores : proc[p] = "connected"

\* The IsPrivileged request: never on Windows, else what the process may do.
HasPrivilege(p) == host.os # "windows" /\ (host.elevated \/ p \in helped)

Spawning(t) == pc[t] \in {"bind", "launch", "accept"}

\* Another spawn, or a helper's process that one gave up on, may meet that of t.
Contested(t) ==
    \/ \E u \in Tasks \ {t} : Spawning(u)
    \/ \E p \in helped : proc[p] = "starting"

-----------------------------------------------------------------------------
(* The interface and the loop *)

Send(c) ==
    /\ sent < MaxCommands
    /\ c = "test" => Cardinality({i \in DOMAIN queue : queue[i] = "test"})
                      < Cardinality({t \in Tests : At(t, "idle")})
    /\ "shutdown" \notin {queue[i] : i \in DOMAIN queue}
    /\ pc[Loop] # "gone" /\ goal[Loop] # "shutdown"
    /\ sent' = sent + 1
    /\ queue' = Append(queue, c)
    /\ UNCHANGED <<host, running, status, taskVars, file, listening,
                   procVars, peer, helped, overlap>>

\* A connection, disconnect and shutdown first take the running core down.
TakeTeardown ==
    /\ queue # <<>>
    /\ Head(queue) \in Connections \cup {"disconnect", "shutdown"}
    /\ Goto(Loop, "idle", IF running = None THEN "next" ELSE "stop")
    /\ queue' = Tail(queue)
    /\ goal' = [goal EXCEPT ![Loop] = Head(queue)]
    /\ core' = [core EXCEPT ![Loop] = running]
    /\ running' = None
    /\ UNCHANGED <<host, spawned, sent, status, file, listening, procVars,
                   peer, helped, overlap>>

\* A check is done by the loop itself, by a core of its own.
TakeCheck ==
    /\ queue # <<>>
    /\ Head(queue) = "check"
    /\ Goto(Loop, "idle", "clean")
    /\ queue' = Tail(queue)
    /\ goal' = [goal EXCEPT ![Loop] = "check"]
    /\ UNCHANGED <<host, spawned, sent, running, status, core, file,
                   listening, procVars, peer, helped, overlap>>

TakeTest(t) ==
    /\ queue # <<>>
    /\ Head(queue) = "test"
    /\ At(Loop, "idle")
    /\ Goto(t, "idle", "clean")
    /\ queue' = Tail(queue)
    /\ goal' = [goal EXCEPT ![t] = "test"]
    /\ UNCHANGED <<host, spawned, sent, running, status, core, file,
                   listening, procVars, peer, helped, overlap>>

\* StopTest goes to the running core, whatever core the test is in.
TakeStopTest ==
    /\ queue # <<>>
    /\ Head(queue) = "stopTest"
    /\ At(Loop, "idle")
    /\ queue' = Tail(queue)
    /\ UNCHANGED <<host, sent, running, status, taskVars, file, listening,
                   procVars, peer, helped, overlap>>

\* No core is left with the loop, and the connection is set up.
Reconnect ==
    /\ goal[Loop] \in Connections
    /\ Goto(Loop, "next", "clean")
    /\ status' = "connecting"
    /\ UNCHANGED <<host, spawned, queue, sent, running, goal, core, file,
                   listening, procVars, peer, helped, overlap>>

\* What follows the other commands once their core is gone.
Proceed ==
    /\ At(Loop, "next")
    /\ goal[Loop] \notin Connections
    /\ Done(Loop, IF goal[Loop] = "shutdown" THEN "gone" ELSE "idle")
    /\ status' = CASE goal[Loop] = "disconnect" -> "disconnected"
                   [] goal[Loop] = "refused"    -> "failed"
                   [] OTHER                     -> status
    /\ UNCHANGED <<host, spawned, queue, sent, running, file, listening,
                   procVars, peer, helped, overlap>>

\* An attempt that left no core behind; a test task is over with it.
Fails(t) ==
    /\ At(t, "failed")
    /\ Done(t, IF t = Loop THEN "idle" ELSE "gone")
    /\ status' = IF goal[t] \in Connections THEN "failed" ELSE status
    /\ UNCHANGED <<host, spawned, queue, sent, running, file, listening,
                   procVars, peer, helped, overlap>>

TestEnds(t) ==
    /\ At(t, "next")
    /\ Done(t, "gone")
    /\ UNCHANGED <<host, spawned, loopVars, file, listening, procVars, peer,
                   helped, overlap>>

\* Mutant: the Core of the dead process is dropped, and nobody is told.
PollIsSilent ==
    /\ At(Loop, "idle")
    /\ running # None
    /\ \E p \in Child(running) : proc[p] = "dead"
    /\ running' = None
    /\ Cleanup
    /\ UNCHANGED <<host, queue, sent, status, taskVars, listening,
                   procVars, peer, helped, overlap>>

\* The poll notices the end of a process it has a handle of.  Everything else it
\* does only reads.
Poll ==
    /\ At(Loop, "idle")
    /\ running # None
    /\ \E p \in Child(running) : proc[p] = "dead"
    /\ running' = None
    /\ status' = "failed"
    /\ Cleanup
    /\ UNCHANGED <<host, queue, sent, taskVars, listening, procVars, peer,
                   helped, overlap>>

-----------------------------------------------------------------------------
(* Core::spawn *)

\* The configuration may not build; otherwise the path is unlinked.
Clean(t) ==
    /\ At(t, "clean")
    /\ \/ To(t, "failed") /\ UNCHANGED <<file, overlap>>
       \/ /\ To(t, "bind")
          /\ Cleanup
          /\ overlap' = (overlap \/ Contested(t))
    /\ UNCHANGED <<host, spawned, loopVars, goal, core, listening,
                   procVars, peer, helped>>

\* A path that exists again, or a pipe in use, refuses; anything else may fail too.
Bind(t) ==
    /\ At(t, "bind")
    /\ \/ /\ IF host.os = "windows" THEN ~PipeInUse ELSE file = None
          /\ spawned < MaxSpawns
          /\ spawned' = spawned + 1
          /\ core' = [core EXCEPT ![t] = spawned']
          /\ file' = spawned'
          /\ listening' = listening \cup {spawned'}
          /\ To(t, "launch")
       \/ To(t, "failed") /\ UNCHANGED <<spawned, core, file, listening>>
    /\ UNCHANGED <<host, loopVars, goal, procVars, peer, helped, overlap>>

\* The child is started, by the helper if a VPN on macOS is wanted; a failure
\* unlinks the path and drops the listener.
Launch(t) ==
    /\ At(t, "launch")
    /\ \/ /\ To(t, "accept")
          /\ proc' = [proc EXCEPT ![core[t]] = "starting"]
          /\ helped' = IF host.os = "macos" /\ goal[t] = "vpn"
                       THEN helped \cup {core[t]} ELSE helped
          /\ UNCHANGED <<file, listening, profile>>
       \/ /\ To(t, "failed")
          /\ Cleanup
          /\ listening' = listening \ {core[t]}
          /\ Die(Backlog(core[t]))
          /\ UNCHANGED helped
    /\ UNCHANGED <<host, spawned, loopVars, goal, core, at, peer, overlap>>

\* One connection is taken; the listener goes when spawn returns, and on Windows
\* it becomes the stream.
Accept(t) ==
    /\ Goto(t, "accept", "call")
    /\ \E p \in Backlog(core[t]) :
         /\ peer' = [peer EXCEPT ![core[t]] = p]
         /\ Die(Backlog(core[t]) \ {p})
    /\ listening' = listening \ {core[t]}
    /\ UNCHANGED <<host, spawned, loopVars, goal, core, file, at, helped,
                   overlap>>

\* Mutant: the child that did not come in time is left alone.
AcceptLeavesChild(t) ==
    /\ Goto(t, "accept", "failed")
    /\ Backlog(core[t]) = {}
    /\ Cleanup
    /\ listening' = listening \ {core[t]}
    /\ UNCHANGED <<host, spawned, loopVars, goal, core, procVars, peer,
                   helped, overlap>>

\* Mutant: accept waits as long as the process is there.
AcceptWaits(t) ==
    /\ At(t, "accept") /\ ~Alive(core[t])
    /\ AcceptLeavesChild(t)

\* Fifteen seconds passed: the child is killed if there is a handle of it.
AcceptTimesOut(t) ==
    /\ Goto(t, "accept", "failed")
    /\ Backlog(core[t]) = {}
    /\ Die(Child(core[t]))
    /\ Cleanup
    /\ listening' = listening \ {core[t]}
    /\ UNCHANGED <<host, spawned, loopVars, goal, core, at, peer, helped,
                   overlap>>

-----------------------------------------------------------------------------
(* What the core was started for, and Core::shutdown *)

\* Start is called: a VPN first asks whether the core has the privileges.
Starting ==
    /\ At(Loop, "call")
    /\ goal[Loop] \in Connections
    /\ goal[Loop] = "vpn" => HasPrivilege(peer[core[Loop]])

\* Start succeeds: the loop keeps the Core.
Connected ==
    /\ Starting
    /\ Done(Loop, "idle")
    /\ Alive(peer[core[Loop]])
    /\ profile' = profile \cup {peer[core[Loop]]}
    /\ running' = core[Loop]
    /\ status' = "connected"
    /\ UNCHANGED <<host, spawned, queue, sent, file, listening, proc, at, peer,
                   helped, overlap>>

\* Mutant: dropping the Core does not kill its process.
ConnectFailsLeaves ==
    /\ Starting
    /\ To(Loop, "failed")
    /\ profile' \in {profile, profile \cup {peer[core[Loop]]}}
    /\ Cleanup
    /\ UNCHANGED <<host, spawned, loopVars, goal, core, listening, proc, at,
                   peer, helped, overlap>>

\* Start fails, or its answer is lost: the Core is dropped, which kills the child
\* and unlinks the path.
ConnectFails ==
    /\ Starting
    /\ To(Loop, "failed")
    /\ \E started \in SUBSET {peer[core[Loop]]} :
         DieWith(Child(core[Loop]), profile \cup {p \in started : Alive(p)})
    /\ Cleanup
    /\ UNCHANGED <<host, spawned, loopVars, goal, core, listening, at, peer,
                   helped, overlap>>

\* A VPN core without the privileges, or one that does not answer, is shut down.
Refused ==
    /\ goal[Loop] = "vpn"
    /\ Goto(Loop, "call", "stop")
    /\ ~HasPrivilege(peer[core[Loop]]) \/ ~Alive(peer[core[Loop]])
    /\ goal' = [goal EXCEPT ![Loop] = "refused"]
    /\ UNCHANGED <<host, spawned, loopVars, core, file, listening, procVars,
                   peer, helped, overlap>>

\* A check or a test has its answer or its error.
Called(t) ==
    /\ goal[t] \in {"check", "test"}
    /\ Goto(t, "call", "stop")
    /\ UNCHANGED <<host, spawned, loopVars, goal, core, file, listening,
                   procVars, peer, helped, overlap>>

\* Stop, for five seconds at most: it may not have been done by then.
Stop(t) ==
    /\ Goto(t, "stop", "kill")
    /\ profile' \in {profile, profile \ {peer[core[t]]}}
    /\ UNCHANGED <<host, spawned, loopVars, goal, core, file, listening,
                   proc, at, peer, helped, overlap>>

Kill(t) ==
    /\ Goto(t, "kill", "next")
    /\ Die(Child(core[t]))
    /\ Cleanup
    /\ UNCHANGED <<host, spawned, loopVars, goal, core, listening, at,
                   peer, helped, overlap>>

-----------------------------------------------------------------------------
(* The core processes *)

\* ConnectIPC reaches the listener the endpoint leads to at that moment.
Connect(p) ==
    /\ proc[p] = "starting"
    /\ file \in listening
    /\ host.os = "windows" => Backlog(file) = {}
    /\ proc' = [proc EXCEPT ![p] = "connected"]
    /\ at' = [at EXCEPT ![p] = file]
    /\ UNCHANGED <<host, loopVars, taskVars, file, listening, peer, helped,
                   profile, overlap>>

\* Ten attempts failed, or the process crashed or was killed from outside.
Exit(p) ==
    /\ Alive(p)
    /\ Die({p})
    /\ UNCHANGED <<host, loopVars, taskVars, file, listening, at, peer,
                   helped, overlap>>

-----------------------------------------------------------------------------
Serve ==
    \/ TakeTeardown \/ TakeCheck \/ TakeStopTest \/ Reconnect \/ Proceed
    \/ Poll
    \/ \E t \in Tests : TakeTest(t)

Work(t) ==
    \/ Clean(t) \/ Bind(t) \/ Launch(t) \/ Accept(t) \/ AcceptTimesOut(t)
    \/ Called(t) \/ Stop(t) \/ Kill(t) \/ Fails(t)
    \/ t = Loop /\ (Connected \/ ConnectFails \/ Refused)
    \/ t # Loop /\ TestEnds(t)

Next ==
    \/ \E c \in Commands : Send(c)
    \/ Serve
    \/ \E t \in Tasks : Work(t)
    \/ \E p \in Cores : Connect(p) \/ Exit(p)

Spec == Init /\ [][Next]_vars

\* The executor runs what can run; no process has to exit or to be in time.
Fairness ==
    /\ WF_vars(TakeTeardown \/ TakeCheck \/ TakeStopTest \/ Reconnect
               \/ Proceed \/ \E t \in Tests : TakeTest(t))
    /\ WF_vars(Poll)
    /\ \A t \in Tasks : WF_vars(Work(t))

FairSpec == Spec /\ Fairness

-----------------------------------------------------------------------------
(* Properties *)

(***************************************************************************)
(* As long as no two spawns met at the endpoint, every client talks to the *)
(* process its own spawn started.                                          *)
(***************************************************************************)
OwnCore == ~overlap => \A s \in Cores : peer[s] \in {s, None}

(***************************************************************************)
(* When the interface shows no connection, no process runs a profile, and  *)
(* otherwise one at most: no TUN is left behind and the old core is gone   *)
(* before the new one starts, whatever failed, crashed or timed out on the *)
(* way.  Processes of the root helper and contested spawns are excepted.   *)
(***************************************************************************)
OnlyTheConnectionRuns ==
    ~overlap =>
        /\ \A p, q \in profile \ helped : p = q
        /\ At(Loop, "idle") /\ status \in {"disconnected", "failed"} => profile \subseteq helped

(***************************************************************************)
(* "The core may have crashed on its own, for example because of a TUN     *)
(* failure": when the core of a connection died, the loop lets go of it    *)
(* and reports a failure, or a command of the user takes it down first.    *)
(* Without a process handle, for a core that the helper started, nothing   *)
(* is reported.                                                            *)
(***************************************************************************)
Dead(s) == running = s /\ ~Alive(peer[s])

TakenDown == goal[Loop] \in Connections \cup {"disconnect", "shutdown"}

CrashIsReportedIfOwn ==
    \A s \in Cores : Dead(s) /\ s \notin helped /\ ~overlap ~>
        running # s /\ (status = "failed" \/ TakenDown)

(***************************************************************************)
(* Every command is served: calls return, children are waited for no       *)
(* longer than accept's timeout, so the loop comes back whatever fails.    *)
(***************************************************************************)
CommandsServed == <>[](queue = <<>>)

(***************************************************************************)
(* "The test starts its own core and does not affect the active one": no   *)
(* step of a test task ends the process that the connection runs in.       *)
(***************************************************************************)
TestSparesConnection ==
    [][\A t \in Tests : pc'[t] # pc[t] /\ running # None =>
         (Alive(peer[running]) => proc'[peer[running]] # "dead")]_vars

-----------------------------------------------------------------------------
(* The inductive invariant *)

\* A core belongs to one task, or to the loop between its commands, and none is
\* bound twice.  Test tasks do nothing but test.
TaskInv ==
    \A t \in Tasks :
        /\ pc[t] \in {"launch", "accept", "call", "stop", "kill"} => core[t] # None
        /\ pc[t] = "call" => peer[core[t]] # None
        /\ t # Loop => goal[t] \in {"none", "test"}
        /\ core[t] # None => /\ core[t] <= spawned
                             /\ core[t] # running
                             /\ \A u \in Tasks \ {t} : core[u] # core[t]

\* The loop keeps a Core exactly while it shows a connection.
LoopInv ==
    running # None => /\ running <= spawned
                      /\ peer[running] # None
                      /\ status = "connected"
                      /\ goal[Loop] \in {"none", "check"}

\* A listener is open while the spawn that bound it goes on.
ListenerInv ==
    \A s \in listening : \E t \in Tasks : pc[t] \in {"launch", "accept"} /\ core[t] = s

\* Unless two spawns met, a process finds at the endpoint what its own spawn bound:
\* it starts while that spawn waits for it, or has no listener to reach.
SpawnInv ==
    ~overlap =>
        /\ \A t, u \in Tasks : Spawning(t) /\ Spawning(u) => t = u
        /\ \A p \in Cores : proc[p] = "starting" =>
              \/ \E t \in Tasks : pc[t] = "accept" /\ core[t] = p
              \/ p \in helped /\ \A t \in Tasks : ~Spawning(t)
        /\ \A p \in Cores : proc[p] = "connected" => at[p] = p

\* A profile runs in a process that lives: the one the loop keeps or takes down.
ProfileInv ==
    /\ \A p \in profile : Alive(p)
    /\ ~overlap =>
          \A p \in profile \ helped :
              \/ running = p
              \/ running = None /\ pc[Loop] \in {"stop", "kill"} /\ core[Loop] = p

EngineInv ==
    /\ TypeOK
    /\ TaskInv
    /\ LoopInv
    /\ ListenerInv
    /\ SpawnInv
    /\ OwnCore
    /\ ProfileInv
=============================================================================
