---------------------------- MODULE EngineProofs ----------------------------
(***************************************************************************)
(* Proofs about Engine for any number of spawns, tests, commands and any   *)
(* system: EngineInv is an invariant, and with it clients that talk to     *)
(* their own core, profiles that run for the shown connection alone, and   *)
(* tests that leave it be as long as no two spawns met.                    *)
(***************************************************************************)
EXTENDS Engine, TLAPS

(***************************************************************************)
(* The actions of Next one by one, as a lemma to case on.                  *)
(***************************************************************************)
LEMMA StepCases ==
  ASSUME [Next]_vars
  PROVE  \/ \E c \in Commands : Send(c)
         \/ TakeTeardown \/ TakeCheck \/ TakeStopTest \/ Reconnect \/ Proceed \/ Poll
         \/ \E t \in Tests : TakeTest(t)
         \/ \E t \in Tasks : \/ Clean(t) \/ Bind(t) \/ Launch(t) \/ Accept(t) \/ AcceptTimesOut(t)
                             \/ Called(t) \/ Stop(t) \/ Kill(t) \/ Fails(t)
         \/ Connected \/ ConnectFails \/ Refused
         \/ \E t \in Tests : TestEnds(t)
         \/ \E p \in Cores : Connect(p) \/ Exit(p)
         \/ UNCHANGED vars
  BY DEF Next, Serve, Work, Tasks

(***************************************************************************)
(* Deaths and the end of a path keep the types.                            *)
(***************************************************************************)
LEMMA DyingTypes ==
  ASSUME proc \in [Cores -> {"none", "starting", "connected", "dead"}],
         NEW P, NEW started \in SUBSET Cores, DieWith(P, started)
  PROVE  /\ proc' \in [Cores -> {"none", "starting", "connected", "dead"}]
         /\ profile' \in SUBSET Cores
         /\ \A p \in Cores : proc'[p] = IF p \in P /\ Alive(p) THEN "dead" ELSE proc[p]
  BY DEF DieWith, Alive

LEMMA CleanupTypes ==
  ASSUME file \in Cores \cup {None}, Cleanup
  PROVE  file' \in Cores \cup {None}
  BY DEF Cleanup

-----------------------------------------------------------------------------
LEMMA TypeStep ==
  ASSUME TypeOK, TaskInv, LoopInv, [Next]_vars
  PROVE  TypeOK'
<1>. USE EngineAssumption DEF Tasks
<1>1. ASSUME NEW c \in Commands, Send(c) PROVE TypeOK'
  BY <1>1 DEF Send, TypeOK, taskVars, procVars
<1>2. ASSUME TakeTeardown \/ TakeCheck PROVE TypeOK'
  <2>1. queue \in Seq(Commands) /\ queue # <<>> /\ queue' = Tail(queue)
    BY <1>2 DEF TakeTeardown, TakeCheck, TypeOK
  <2>2. queue' \in Seq(Commands) /\ Head(queue) \in Commands
    BY <2>1
  <2>3. pc' \in [Tasks -> Labels]
    BY <1>2 DEF TakeTeardown, TakeCheck, Goto, To, TypeOK, Labels
  <2>4. CASE TakeTeardown
    BY <2>2, <2>3, <2>4 DEF TakeTeardown, TypeOK, procVars
  <2>5. CASE TakeCheck
    BY <2>2, <2>3, <2>5 DEF TakeCheck, TypeOK, procVars, Commands
  <2>. QED
    BY <1>2, <2>4, <2>5
<1>3. ASSUME NEW t \in Tests, TakeTest(t) PROVE TypeOK'
  <2>1. queue' \in Seq(Commands)
    BY <1>3 DEF TakeTest, TypeOK
  <2>. QED
    BY <1>3, <2>1 DEF TakeTest, Goto, To, TypeOK, procVars, Labels, Commands
<1>4. ASSUME TakeStopTest PROVE TypeOK'
  BY <1>4 DEF TakeStopTest, TypeOK, procVars, taskVars
<1>5. ASSUME Reconnect PROVE TypeOK'
  BY <1>5 DEF Reconnect, Goto, To, TypeOK, procVars, Labels
<1>6. ASSUME Proceed PROVE TypeOK'
  BY <1>6 DEF Proceed, Done, To, TypeOK, procVars, Labels
<1>7. ASSUME Poll PROVE TypeOK'
  BY <1>7, CleanupTypes DEF Poll, TypeOK, procVars, taskVars
<1>8. ASSUME NEW t \in Tasks, Clean(t) PROVE TypeOK'
  <2>1. file' \in Cores \cup {None} /\ overlap' \in BOOLEAN
    BY <1>8, CleanupTypes DEF Clean, TypeOK, Contested
  <2>. QED
    BY <1>8, <2>1 DEF Clean, To, TypeOK, procVars, loopVars, Labels
<1>9. ASSUME NEW t \in Tasks, Bind(t) PROVE TypeOK'
  <2>1. spawned' # spawned => spawned' = spawned + 1 /\ spawned' \in Cores
    BY <1>9 DEF Bind, TypeOK, Cores
  <2>2. spawned' \in 0 .. MaxSpawns
    BY <1>9, <2>1 DEF Bind, TypeOK, Cores
  <2>3. core' \in [Tasks -> Cores \cup {None}] /\ file' \in Cores \cup {None} /\ listening' \in SUBSET Cores
    BY <1>9, <2>1 DEF Bind, TypeOK
  <2>4. pc' \in [Tasks -> Labels]
    BY <1>9 DEF Bind, To, TypeOK, Labels
  <2>. QED
    BY <1>9, <2>2, <2>3, <2>4 DEF Bind, TypeOK, procVars, loopVars
<1>10. ASSUME NEW t \in Tasks, Launch(t) PROVE TypeOK'
  <2>1. core[t] \in Cores
    BY <1>10 DEF Launch, At, TaskInv, TypeOK
  <2>2. CASE proc' = [proc EXCEPT ![core[t]] = "starting"] /\ UNCHANGED <<file, listening, profile>>
             /\ To(t, "accept")
    BY <1>10, <2>1, <2>2 DEF Launch, To, TypeOK, loopVars, Labels
  <2>3. CASE To(t, "failed") /\ Cleanup /\ listening' = listening \ {core[t]}
             /\ Die(Backlog(core[t])) /\ UNCHANGED helped
    <3>1. proc' \in [Cores -> {"none", "starting", "connected", "dead"}] /\ profile' \in SUBSET Cores
          /\ file' \in Cores \cup {None}
      BY <2>3, DyingTypes, CleanupTypes DEF Die, TypeOK
    <3>. QED
      BY <1>10, <2>3, <3>1 DEF Launch, To, TypeOK, loopVars, Labels
  <2>. QED
    BY <1>10, <2>2, <2>3 DEF Launch
<1>11. ASSUME NEW t \in Tasks, Accept(t) PROVE TypeOK'
  <2>1. PICK p \in Cores : peer' = [peer EXCEPT ![core[t]] = p] /\ Die(Backlog(core[t]) \ {p})
    BY <1>11 DEF Accept, Backlog
  <2>2. proc' \in [Cores -> {"none", "starting", "connected", "dead"}] /\ profile' \in SUBSET Cores
    BY <2>1, DyingTypes DEF Die, TypeOK
  <2>. QED
    BY <1>11, <2>1, <2>2 DEF Accept, Goto, To, TypeOK, loopVars, Labels
<1>12. ASSUME NEW t \in Tasks, AcceptTimesOut(t) PROVE TypeOK'
  <2>1. proc' \in [Cores -> {"none", "starting", "connected", "dead"}] /\ profile' \in SUBSET Cores
        /\ file' \in Cores \cup {None}
    BY <1>12, DyingTypes, CleanupTypes DEF AcceptTimesOut, Die, TypeOK
  <2>. QED
    BY <1>12, <2>1 DEF AcceptTimesOut, Goto, To, TypeOK, loopVars, Labels
<1>13. ASSUME NEW t \in Tasks, Called(t) PROVE TypeOK'
  BY <1>13 DEF Called, Goto, To, TypeOK, loopVars, procVars, Labels
<1>14. ASSUME NEW t \in Tasks, Stop(t) PROVE TypeOK'
  BY <1>14 DEF Stop, Goto, To, TypeOK, loopVars, Labels
<1>15. ASSUME NEW t \in Tasks, Kill(t) PROVE TypeOK'
  <2>1. proc' \in [Cores -> {"none", "starting", "connected", "dead"}] /\ profile' \in SUBSET Cores
        /\ file' \in Cores \cup {None}
    BY <1>15, DyingTypes, CleanupTypes DEF Kill, Die, TypeOK
  <2>. QED
    BY <1>15, <2>1 DEF Kill, Goto, To, TypeOK, loopVars, Labels
<1>16. ASSUME NEW t \in Tasks, Fails(t) PROVE TypeOK'
  BY <1>16 DEF Fails, Done, To, TypeOK, procVars, Labels
<1>17. ASSUME Connected PROVE TypeOK'
  <2>1. core[Loop] \in Cores /\ peer[core[Loop]] \in Cores
    BY <1>17 DEF Connected, Starting, At, TaskInv, TypeOK
  <2>. QED
    BY <1>17, <2>1 DEF Connected, Done, To, TypeOK, Labels
<1>18. ASSUME ConnectFails PROVE TypeOK'
  <2>1. core[Loop] \in Cores /\ peer[core[Loop]] \in Cores
    BY <1>18 DEF ConnectFails, Starting, At, TaskInv, TypeOK
  <2>2. PICK started \in SUBSET {peer[core[Loop]]} :
           DieWith(Child(core[Loop]), profile \cup {p \in started : Alive(p)})
    BY <1>18 DEF ConnectFails
  <2>3. profile \cup {p \in started : Alive(p)} \in SUBSET Cores
    BY <2>1 DEF TypeOK
  <2>4. proc' \in [Cores -> {"none", "starting", "connected", "dead"}] /\ profile' \in SUBSET Cores
        /\ file' \in Cores \cup {None}
    BY <1>18, <2>2, <2>3, DyingTypes, CleanupTypes DEF ConnectFails, TypeOK
  <2>. QED
    BY <1>18, <2>4 DEF ConnectFails, To, TypeOK, loopVars, Labels
<1>19. ASSUME Refused PROVE TypeOK'
  BY <1>19 DEF Refused, Goto, To, TypeOK, loopVars, procVars, Labels
<1>20. ASSUME NEW t \in Tests, TestEnds(t) PROVE TypeOK'
  BY <1>20 DEF TestEnds, Done, To, TypeOK, loopVars, procVars, Labels
<1>21. ASSUME NEW p \in Cores, Connect(p) PROVE TypeOK'
  BY <1>21 DEF Connect, TypeOK, loopVars, taskVars
<1>22. ASSUME NEW p \in Cores, Exit(p) PROVE TypeOK'
  <2>1. proc' \in [Cores -> {"none", "starting", "connected", "dead"}] /\ profile' \in SUBSET Cores
    BY <1>22, DyingTypes DEF Exit, Die, TypeOK
  <2>. QED
    BY <1>22, <2>1 DEF Exit, TypeOK, loopVars, taskVars
<1>23. UNCHANGED vars => TypeOK'
  BY DEF vars, loopVars, taskVars, procVars, TypeOK
<1>. QED
  BY <1>1, <1>2, <1>3, <1>4, <1>5, <1>6, <1>7, <1>8, <1>9, <1>10, <1>11, <1>12, <1>13, <1>14,
     <1>15, <1>16, <1>17, <1>18, <1>19, <1>20, <1>21, <1>22, <1>23, StepCases

(***************************************************************************)
(* Tasks keep their cores apart: Bind names a new one, and the loop hands  *)
(* the core it keeps over to the task that ends it.                        *)
(***************************************************************************)
LEMMA TaskStep ==
  ASSUME TypeOK, TaskInv, LoopInv, [Next]_vars
  PROVE  TaskInv'
<1>. USE EngineAssumption DEF Tasks, TypeOK, TaskInv, Goto, To, At, Labels
<1>1. ASSUME UNCHANGED <<pc, goal, core, spawned, running, peer>> PROVE TaskInv'
  BY <1>1
<1>2. ASSUME (\E c \in Commands : Send(c)) \/ TakeStopTest \/ UNCHANGED vars
             \/ \E p \in Cores : Connect(p) \/ Exit(p)
      PROVE  TaskInv'
  BY <1>1, <1>2 DEF Send, TakeStopTest, Connect, Exit, vars, loopVars, taskVars
<1>3. ASSUME TakeTeardown PROVE TaskInv'
  BY <1>3 DEF TakeTeardown, LoopInv, Cores
<1>4. ASSUME TakeCheck \/ Reconnect PROVE TaskInv'
  BY <1>4 DEF TakeCheck, Reconnect
<1>5. ASSUME NEW t \in Tests, TakeTest(t) PROVE TaskInv'
  BY <1>5 DEF TakeTest
<1>6. ASSUME Proceed PROVE TaskInv'
  BY <1>6 DEF Proceed, Done
<1>7. ASSUME Poll PROVE TaskInv'
  BY <1>7 DEF Poll, taskVars
<1>8. ASSUME NEW t \in Tasks, Clean(t) PROVE TaskInv'
  BY <1>8 DEF Clean, loopVars
<1>9. ASSUME NEW t \in Tasks, Bind(t) PROVE TaskInv'
  <2>1. CASE To(t, "failed") /\ UNCHANGED <<spawned, core>>
    BY <1>9, <2>1 DEF Bind, loopVars
  <2>2. CASE spawned' = spawned + 1 /\ core' = [core EXCEPT ![t] = spawned'] /\ To(t, "launch")
    <3>1. spawned \in Nat /\ UNCHANGED <<goal, running, peer>>
      BY <1>9 DEF Bind, loopVars
    <3>2. core'[t] = spawned + 1 /\ \A u \in Tasks \ {t} : core'[u] = core[u] /\ pc'[u] = pc[u]
      BY <2>2
    <3>3. spawned + 1 # None /\ spawned + 1 # running
      BY <3>1 DEF LoopInv, Cores
    <3>4. \A u \in Tasks \ {t} : core[u] # spawned + 1
      BY <3>1, <3>3 DEF Cores
    <3>5. \A u \in Tasks \ {t} : core[u] # None => core[u] <= spawned + 1
      BY <3>1 DEF Cores
    <3>. QED
      BY <2>2, <3>1, <3>2, <3>3, <3>4, <3>5
  <2>. QED
    BY <1>9, <2>1, <2>2 DEF Bind
<1>10. ASSUME NEW t \in Tasks, Launch(t) PROVE TaskInv'
  BY <1>10 DEF Launch, loopVars
<1>11. ASSUME NEW t \in Tasks, Accept(t) PROVE TaskInv'
  <2>1. PICK p \in Cores : peer' = [peer EXCEPT ![core[t]] = p]
    BY <1>11 DEF Accept, Backlog
  <2>2. p # None /\ core[t] \in Cores
    BY <1>11 DEF Accept, Cores
  <2>. QED
    BY <1>11, <2>1, <2>2 DEF Accept, loopVars
<1>12. ASSUME NEW t \in Tasks, AcceptTimesOut(t) PROVE TaskInv'
  BY <1>12 DEF AcceptTimesOut, loopVars
<1>13. ASSUME NEW t \in Tasks, Called(t) \/ Stop(t) \/ Kill(t) PROVE TaskInv'
  BY <1>13 DEF Called, Stop, Kill, loopVars
<1>14. ASSUME NEW t \in Tasks, Fails(t) PROVE TaskInv'
  BY <1>14 DEF Fails, Done
<1>15. ASSUME NEW t \in Tests, TestEnds(t) PROVE TaskInv'
  BY <1>15 DEF TestEnds, Done, loopVars
<1>16. ASSUME Connected PROVE TaskInv'
  BY <1>16 DEF Connected, Starting, Done
<1>17. ASSUME ConnectFails \/ Refused PROVE TaskInv'
  BY <1>17 DEF ConnectFails, Refused, loopVars
<1>. QED
  BY <1>2, <1>3, <1>4, <1>5, <1>6, <1>7, <1>8, <1>9, <1>10, <1>11, <1>12, <1>13, <1>14,
     <1>15, <1>16, <1>17, StepCases

(***************************************************************************)
(* The loop shows a connection as long as it keeps a Core.                 *)
(***************************************************************************)
LEMMA LoopStep ==
  ASSUME TypeOK, TaskInv, LoopInv, [Next]_vars
  PROVE  LoopInv'
<1>. USE EngineAssumption DEF Tasks, TypeOK, LoopInv, Connections
<1>1. ASSUME UNCHANGED <<goal, spawned, running, status, peer>> PROVE LoopInv'
  BY <1>1
<1>2. ASSUME (\E c \in Commands : Send(c)) \/ TakeStopTest \/ UNCHANGED vars
             \/ \E p \in Cores : Connect(p) \/ Exit(p)
      PROVE  LoopInv'
  BY <1>1, <1>2 DEF Send, TakeStopTest, Connect, Exit, vars, loopVars, taskVars
<1>3. ASSUME TakeTeardown \/ TakeCheck PROVE LoopInv'
  BY <1>3 DEF TakeTeardown, TakeCheck
<1>4. ASSUME NEW t \in Tests, TakeTest(t) PROVE LoopInv'
  BY <1>4 DEF TakeTest
<1>5. ASSUME Reconnect PROVE LoopInv'
  BY <1>5 DEF Reconnect
<1>6. ASSUME Proceed PROVE LoopInv'
  BY <1>6 DEF Proceed, Done
<1>7. ASSUME Poll PROVE LoopInv'
  BY <1>7 DEF Poll
<1>8. ASSUME NEW t \in Tasks, Clean(t) \/ Launch(t) \/ AcceptTimesOut(t) PROVE LoopInv'
  BY <1>1, <1>8 DEF Clean, Launch, AcceptTimesOut, loopVars
<1>16. ASSUME NEW t \in Tasks, Accept(t) PROVE LoopInv'
  <2>1. PICK p \in Cores : peer' = [peer EXCEPT ![core[t]] = p]
    BY <1>16 DEF Accept, Backlog
  <2>. QED
    BY <1>16, <2>1 DEF Accept, loopVars, Cores
<1>9. ASSUME NEW t \in Tasks, Called(t) \/ Stop(t) \/ Kill(t) PROVE LoopInv'
  BY <1>1, <1>9 DEF Called, Stop, Kill, loopVars
<1>10. ASSUME NEW t \in Tasks, Bind(t) PROVE LoopInv'
  BY <1>10 DEF Bind, loopVars, Cores
<1>11. ASSUME NEW t \in Tasks, Fails(t) PROVE LoopInv'
  BY <1>11 DEF Fails, Done, TaskInv
<1>12. ASSUME NEW t \in Tests, TestEnds(t) PROVE LoopInv'
  BY <1>12 DEF TestEnds, Done, loopVars
<1>13. ASSUME Connected PROVE LoopInv'
  BY <1>13 DEF Connected, Starting, Done, To, At, TaskInv, Cores
<1>14. ASSUME ConnectFails PROVE LoopInv'
  BY <1>1, <1>14 DEF ConnectFails, loopVars
<1>15. ASSUME Refused PROVE LoopInv'
  BY <1>15 DEF Refused, loopVars
<1>. QED
  BY <1>2, <1>3, <1>4, <1>5, <1>6, <1>7, <1>8, <1>9, <1>10, <1>11, <1>12, <1>13, <1>14,
     <1>15, <1>16, StepCases

LEMMA ListenerStep ==
  ASSUME TypeOK, ListenerInv, [Next]_vars
  PROVE  ListenerInv'
<1>. USE EngineAssumption DEF Tasks, TypeOK, ListenerInv, Goto, To, At, Labels
<1>1. ASSUME UNCHANGED <<pc, core, listening>> PROVE ListenerInv'
  BY <1>1
<1>2. ASSUME (\E c \in Commands : Send(c)) \/ TakeStopTest \/ Poll \/ UNCHANGED vars
             \/ \E p \in Cores : Connect(p) \/ Exit(p)
      PROVE  ListenerInv'
  BY <1>1, <1>2 DEF Send, TakeStopTest, Poll, Connect, Exit, vars, loopVars, taskVars
\* A step of a task that is no longer, or not yet, at the endpoint.
<1>3. ASSUME NEW t \in Tasks, pc[t] \notin {"launch", "accept"}, UNCHANGED listening,
             \A u \in Tasks \ {t} : pc'[u] = pc[u] /\ core'[u] = core[u]
      PROVE  ListenerInv'
  BY <1>3
<1>4. ASSUME TakeTeardown PROVE ListenerInv'
  BY <1>3, <1>4 DEF TakeTeardown
<1>5. ASSUME TakeCheck PROVE ListenerInv'
  BY <1>3, <1>5 DEF TakeCheck
<1>6. ASSUME Reconnect PROVE ListenerInv'
  BY <1>3, <1>6 DEF Reconnect
<1>7. ASSUME Proceed PROVE ListenerInv'
  BY <1>3, <1>7 DEF Proceed, Done
<1>8. ASSUME NEW t \in Tests, TakeTest(t) PROVE ListenerInv'
  BY <1>3, <1>8 DEF TakeTest
<1>9. ASSUME NEW t \in Tests, TestEnds(t) PROVE ListenerInv'
  BY <1>3, <1>9 DEF TestEnds, Done
<1>10. ASSUME NEW t \in Tasks, Fails(t) PROVE ListenerInv'
  BY <1>3, <1>10 DEF Fails, Done
<1>11. ASSUME NEW t \in Tasks, Clean(t) \/ Called(t) \/ Stop(t) \/ Kill(t) PROVE ListenerInv'
  BY <1>3, <1>11 DEF Clean, Called, Stop, Kill
<1>12. ASSUME Connected PROVE ListenerInv'
  BY <1>3, <1>12 DEF Connected, Starting, Done
<1>13. ASSUME ConnectFails \/ Refused PROVE ListenerInv'
  BY <1>3, <1>13 DEF ConnectFails, Starting, Refused
<1>14. ASSUME NEW t \in Tasks, Bind(t) PROVE ListenerInv'
  BY <1>14 DEF Bind
<1>15. ASSUME NEW t \in Tasks, Launch(t) PROVE ListenerInv'
  BY <1>15 DEF Launch
<1>16. ASSUME NEW t \in Tasks, Accept(t) \/ AcceptTimesOut(t) PROVE ListenerInv'
  BY <1>16 DEF Accept, AcceptTimesOut
<1>. QED
  BY <1>2, <1>4, <1>5, <1>6, <1>7, <1>8, <1>9, <1>10, <1>11, <1>12, <1>13, <1>14, <1>15, <1>16,
     StepCases

(***************************************************************************)
(* Without a contest, a process that starts has a spawn waiting for it and *)
(* finds that spawn's listener; one that the helper started and nobody     *)
(* waits for finds none.                                                   *)
(***************************************************************************)
LEMMA SpawnStep ==
  ASSUME TypeOK, ListenerInv, SpawnInv, [Next]_vars
  PROVE  SpawnInv'
<1>. DEFINE One == \A t, u \in Tasks : Spawning(t) /\ Spawning(u) => t = u
            Awaited(p) == \/ \E t \in Tasks : pc[t] = "accept" /\ core[t] = p
                          \/ p \in helped /\ \A t \in Tasks : ~Spawning(t)
            Apart == /\ One
                     /\ \A p \in Cores : proc[p] = "starting" => Awaited(p)
                     /\ \A p \in Cores : proc[p] = "connected" => at[p] = p
<1>. SUFFICES ASSUME ~overlap' PROVE Apart'
  BY DEF SpawnInv
<1>. USE EngineAssumption DEF Tasks, TypeOK, Goto, To, At, Labels, Spawning
<1>1. ASSUME NEW t \in Tasks, Clean(t) PROVE Apart'
  <2>1. CASE To(t, "failed") /\ UNCHANGED overlap
    BY <1>1, <2>1 DEF Clean, procVars, SpawnInv
  <2>2. CASE To(t, "bind") /\ overlap' = (overlap \/ Contested(t))
    <3>1. ~overlap /\ ~Contested(t)
      BY <2>2
    <3>2. \A u \in Tasks \ {t} : ~Spawning(u)
      BY <3>1 DEF Contested
    <3>3. pc[t] = "clean" /\ pc'[t] = "bind" /\ UNCHANGED <<proc, at, helped>>
      BY <1>1, <2>2 DEF Clean, procVars
    <3>4. \A u \in Tasks \ {t} : pc'[u] = pc[u]
      BY <2>2
    <3>5. \A p \in Cores : proc[p] # "starting"
      BY <3>1, <3>2, <3>3 DEF SpawnInv, Contested
    <3>6. \A p \in Cores : proc[p] = "connected" => at[p] = p
      BY <3>1 DEF SpawnInv
    <3>7. One'
      BY <3>2, <3>3, <3>4
    <3>. QED
      BY <3>3, <3>5, <3>6, <3>7
  <2>. QED
    BY <1>1, <2>1, <2>2 DEF Clean
<1>2. overlap' = overlap \/ \E t \in Tasks : Clean(t)
  BY StepCases DEF Send, TakeTeardown, TakeCheck, TakeStopTest, Reconnect, Proceed, Poll, TakeTest,
     Bind, Launch, Accept, AcceptTimesOut, Called, Stop, Kill, Fails, Connected, ConnectFails, Refused,
     TestEnds, Connect, Exit, vars
<1>3. CASE overlap' = overlap
  <2>1. Apart
    BY <1>3 DEF SpawnInv
  \* A step of a task that does not bring it to the endpoint; processes may die.
  <2>2. ASSUME NEW t \in Tasks, pc'[t] \notin {"bind", "launch", "accept"},
               pc[t] # "accept" \/ (\A p \in Cores : proc'[p] = "starting" => p \in helped),
               \A u \in Tasks \ {t} : pc'[u] = pc[u] /\ core'[u] = core[u],
               at' = at, helped' = helped,
               \A p \in Cores : proc'[p] \in {proc[p], "dead"}
        PROVE  Apart'
    <3>1. One'
      BY <2>1, <2>2
    <3>2. \A p \in Cores : proc'[p] = "connected" => at'[p] = p
      BY <2>1, <2>2
    <3>3. ASSUME NEW p \in Cores, proc'[p] = "starting" PROVE Awaited(p)'
      <4>1. proc[p] = "starting" /\ Awaited(p)
        BY <2>1, <2>2, <3>3
      <4>2. CASE p \in helped /\ \A u \in Tasks : ~Spawning(u)
        BY <2>2, <4>2
      <4>3. CASE \E u \in Tasks : pc[u] = "accept" /\ core[u] = p
        <5>1. PICK u \in Tasks : pc[u] = "accept" /\ core[u] = p
          BY <4>3
        <5>2. CASE u # t
          BY <2>2, <5>1, <5>2
        <5>3. CASE u = t
          BY <2>1, <2>2, <3>3, <5>1, <5>3
        <5>. QED
          BY <5>2, <5>3
      <4>. QED
        BY <4>1, <4>2, <4>3
    <3>. QED
      BY <3>1, <3>2, <3>3
  <2>3. ASSUME UNCHANGED <<pc, core, proc, at, helped>> PROVE Apart'
    BY <2>1, <2>3
  <2>4. ASSUME (\E c \in Commands : Send(c)) \/ TakeStopTest \/ Poll \/ UNCHANGED vars PROVE Apart'
    BY <2>3, <2>4 DEF Send, TakeStopTest, Poll, vars, loopVars, taskVars, procVars
  <2>5. ASSUME TakeTeardown PROVE Apart'
    BY <2>2, <2>5 DEF TakeTeardown, procVars
  <2>6. ASSUME TakeCheck \/ Reconnect PROVE Apart'
    BY <2>2, <2>6 DEF TakeCheck, Reconnect, procVars
  <2>7. ASSUME Proceed PROVE Apart'
    BY <2>2, <2>7 DEF Proceed, Done, procVars
  <2>8. ASSUME NEW t \in Tests, TakeTest(t) PROVE Apart'
    BY <2>2, <2>8 DEF TakeTest, procVars
  <2>9. ASSUME NEW t \in Tests, TestEnds(t) PROVE Apart'
    BY <2>2, <2>9 DEF TestEnds, Done, procVars
  <2>10. ASSUME NEW t \in Tasks, Fails(t) PROVE Apart'
    BY <2>2, <2>10 DEF Fails, Done, procVars
  <2>11. ASSUME NEW t \in Tasks, Called(t) \/ Stop(t) PROVE Apart'
    BY <2>2, <2>11 DEF Called, Stop, procVars
  <2>12. ASSUME NEW t \in Tasks, Kill(t) PROVE Apart'
    <3>1. \A p \in Cores : proc'[p] \in {proc[p], "dead"}
      BY <2>12 DEF Kill, Die, DieWith
    <3>. QED
      BY <2>2, <2>12, <3>1 DEF Kill
  <2>13. ASSUME Connected PROVE Apart'
    BY <2>2, <2>13 DEF Connected, Starting, Done
  <2>14. ASSUME ConnectFails PROVE Apart'
    <3>1. \A p \in Cores : proc'[p] \in {proc[p], "dead"}
      BY <2>14 DEF ConnectFails, DieWith
    <3>. QED
      BY <2>2, <2>14, <3>1 DEF ConnectFails, Starting
  <2>15. ASSUME Refused PROVE Apart'
    BY <2>2, <2>15 DEF Refused, procVars
  <2>16. ASSUME NEW t \in Tasks, Bind(t) PROVE Apart'
    <3>1. CASE To(t, "failed") /\ UNCHANGED core
      BY <1>3, <2>2, <2>16, <3>1 DEF Bind, procVars
    <3>2. CASE To(t, "launch") /\ core' = [core EXCEPT ![t] = spawned']
      <4>1. pc[t] = "bind" /\ UNCHANGED <<proc, at, helped>>
        BY <2>16 DEF Bind, procVars
      <4>2. \A u \in Tasks \ {t} : ~Spawning(u)
        BY <2>1, <4>1
      <4>3. \A p \in Cores : proc[p] # "starting"
        BY <2>1, <4>1, <4>2
      <4>. QED
        BY <2>1, <3>2, <4>1, <4>2, <4>3
    <3>. QED
      BY <2>16, <3>1, <3>2 DEF Bind
  <2>17. ASSUME NEW t \in Tasks, Launch(t) PROVE Apart'
    <3>1. pc[t] = "launch" /\ UNCHANGED <<at, core>>
      BY <2>17 DEF Launch
    <3>2. \A u \in Tasks \ {t} : ~Spawning(u)
      BY <2>1, <3>1
    <3>3. \A p \in Cores : proc[p] # "starting"
      BY <2>1, <3>1, <3>2
    <3>4. CASE To(t, "accept") /\ proc' = [proc EXCEPT ![core[t]] = "starting"]
      <4>1. pc'[t] = "accept" /\ core'[t] = core[t] /\ \A u \in Tasks \ {t} : pc'[u] = pc[u]
        BY <3>1, <3>4
      <4>2. One'
        BY <3>2, <4>1
      <4>3. \A p \in Cores : proc'[p] = "starting" => p = core[t]
        BY <3>3, <3>4
      <4>4. \A p \in Cores : proc'[p] = "connected" => at'[p] = p
        BY <2>1, <3>1, <3>4
      <4>. QED
        BY <4>1, <4>2, <4>3, <4>4
    <3>5. CASE To(t, "failed") /\ Die(Backlog(core[t])) /\ UNCHANGED helped
      <4>1. \A p \in Cores : proc'[p] \in {proc[p], "dead"}
        BY <3>5 DEF Die, DieWith
      <4>. QED
        BY <2>2, <3>1, <3>5, <4>1
    <3>. QED
      BY <2>17, <3>4, <3>5 DEF Launch
  <2>18. ASSUME NEW t \in Tasks, Accept(t) PROVE Apart'
    <3>1. PICK q \in Backlog(core[t]) : Die(Backlog(core[t]) \ {q})
      BY <2>18 DEF Accept
    <3>2. pc[t] = "accept" /\ UNCHANGED <<at, core, helped>>
      BY <2>18 DEF Accept
    <3>3. q \in Cores /\ proc[q] = "connected" /\ q = core[t]
      BY <2>1, <3>1 DEF Backlog
    <3>4. \A p \in Cores : proc'[p] \in {proc[p], "dead"}
      BY <3>1 DEF Die, DieWith
    <3>5. \A u \in Tasks \ {t} : ~Spawning(u)
      BY <2>1, <3>2
    <3>6. \A p \in Cores : proc[p] # "starting"
      BY <2>1, <3>2, <3>3, <3>5
    <3>. QED
      BY <2>2, <2>18, <3>4, <3>6 DEF Accept
  <2>19. ASSUME NEW t \in Tasks, AcceptTimesOut(t) PROVE Apart'
    <3>1. pc[t] = "accept" /\ UNCHANGED <<at, core, helped>> /\ Die(Child(core[t]))
      BY <2>19 DEF AcceptTimesOut
    <3>2. \A p \in Cores : proc'[p] = IF p \in Child(core[t]) /\ Alive(p) THEN "dead" ELSE proc[p]
      BY <3>1 DEF Die, DieWith
    <3>3. \A u \in Tasks \ {t} : ~Spawning(u)
      BY <2>1, <3>1
    <3>4. \A p \in Cores : proc[p] = "starting" => p = core[t]
      BY <2>1, <3>1, <3>3
    <3>5. \A p \in Cores : proc'[p] = "starting" => p \in helped
      BY <3>2, <3>4 DEF Child, Alive
    <3>. QED
      BY <2>2, <2>19, <3>2, <3>5 DEF AcceptTimesOut
  <2>20. ASSUME NEW p \in Cores, Connect(p) PROVE Apart'
    <3>1. PICK t \in Tasks : pc[t] \in {"launch", "accept"} /\ core[t] = file
      BY <2>20 DEF Connect, ListenerInv
    <3>2. proc[p] = "starting"
      BY <2>20 DEF Connect
    <3>3. p = file
      BY <2>1, <3>1, <3>2
    <3>4. /\ UNCHANGED <<pc, core, helped>>
          /\ proc' = [proc EXCEPT ![p] = "connected"]
          /\ at' = [at EXCEPT ![p] = file]
      BY <2>20 DEF Connect, taskVars
    <3>. QED
      BY <2>1, <3>3, <3>4
  <2>21. ASSUME NEW p \in Cores, Exit(p) PROVE Apart'
    <3>1. UNCHANGED <<pc, core, helped, at>> /\ \A q \in Cores : proc'[q] \in {proc[q], "dead"}
      BY <2>21 DEF Exit, Die, DieWith, taskVars
    <3>. QED
      BY <2>1, <3>1
  <2>. QED
    BY <1>1, <2>4, <2>5, <2>6, <2>7, <2>8, <2>9, <2>10, <2>11, <2>12, <2>13, <2>14, <2>15, <2>16,
       <2>17, <2>18, <2>19, <2>20, <2>21, StepCases
<1>. QED
  BY <1>1, <1>2, <1>3

(***************************************************************************)
(* What was contested once stays so.                                       *)
(***************************************************************************)
LEMMA OverlapStays ==
  ASSUME [Next]_vars, ~overlap'
  PROVE  ~overlap
<1>1. ASSUME NEW t \in Tasks, Clean(t) PROVE ~overlap
  <2>1. overlap' = overlap \/ overlap' = (overlap \/ Contested(t))
    BY <1>1 DEF Clean
  <2>. QED
    BY <2>1
<1>2. overlap' = overlap \/ \E t \in Tasks : Clean(t)
  BY StepCases DEF Send, TakeTeardown, TakeCheck, TakeStopTest, Reconnect, Proceed, Poll, TakeTest,
     Bind, Launch, Accept, AcceptTimesOut, Called, Stop, Kill, Fails, Connected, ConnectFails, Refused,
     TestEnds, Connect, Exit, vars
<1>. QED
  BY <1>1, <1>2

(***************************************************************************)
(* A spawn accepts a process that connected to its listener: its own.      *)
(***************************************************************************)
LEMMA OwnCoreStep ==
  ASSUME TypeOK, SpawnInv, OwnCore, [Next]_vars
  PROVE  OwnCore'
<1>1. peer' = peer \/ \E t \in Tasks : Accept(t)
  BY StepCases DEF Send, TakeTeardown, TakeCheck, TakeStopTest, Reconnect, Proceed, Poll, TakeTest,
     Clean, Bind, Launch, AcceptTimesOut, Called, Stop, Kill, Fails, Connected, ConnectFails, Refused,
     TestEnds, Connect, Exit, vars
<1>2. CASE peer' = peer
  BY <1>2, OverlapStays DEF OwnCore
<1>3. ASSUME NEW t \in Tasks, Accept(t), ~overlap' PROVE \A s \in Cores : peer'[s] \in {s, None}
  <2>1. PICK p \in Backlog(core[t]) : peer' = [peer EXCEPT ![core[t]] = p]
    BY <1>3 DEF Accept
  <2>2. p = core[t]
    BY <2>1, <1>3, OverlapStays DEF SpawnInv, Backlog
  <2>. QED
    BY <2>1, <2>2, <1>3, OverlapStays DEF OwnCore, TypeOK
<1>. QED
  BY <1>1, <1>2, <1>3 DEF OwnCore

(***************************************************************************)
(* A profile dies with its process, and lives in the core of the           *)
(* connection that the loop keeps or takes down.                           *)
(***************************************************************************)
LEMMA DyingLeaves ==
  ASSUME NEW P, NEW started, DieWith(P, started), \A p \in started : p \in Cores /\ Alive(p)
  PROVE  profile' = started \ P /\ \A p \in profile' : Alive(p)'
  BY DEF DieWith, Alive

LEMMA ProfileStep ==
  ASSUME TypeOK, TaskInv, LoopInv, OwnCore, ProfileInv, [Next]_vars
  PROVE  ProfileInv'
<1>. DEFINE Lives == \A p \in profile : Alive(p)
            Due(p) == \/ running = p
                      \/ running = None /\ pc[Loop] \in {"stop", "kill"} /\ core[Loop] = p
            Owned == \A p \in profile \ helped : Due(p)
<1>0. Lives /\ profile \subseteq Cores /\ (~overlap' => ~overlap /\ Owned)
  BY OverlapStays DEF ProfileInv, TypeOK
<1>. SUFFICES Lives' /\ (~overlap' => Owned')
  BY DEF ProfileInv
<1>. USE EngineAssumption DEF Tasks, TypeOK, Goto, To, At, Labels
\* Deaths and further helped processes disturb nothing.
<1>a. ASSUME profile' = profile, \A p \in Cores : Alive(p) => Alive(p)' PROVE Lives'
  BY <1>0, <1>a
<1>b. ASSUME NEW P, Die(P) PROVE Lives' /\ profile' = profile \ P
  BY <1>0, <1>b, DyingLeaves DEF Die
<1>1. ASSUME (\E c \in Commands : Send(c)) \/ TakeStopTest \/ UNCHANGED vars
      PROVE  Lives' /\ (Owned => Owned')
  BY <1>0, <1>1 DEF Send, TakeStopTest, vars, loopVars, taskVars, procVars, Alive
<1>2. ASSUME TakeTeardown PROVE Lives' /\ (Owned => Owned')
  <2>1. UNCHANGED <<proc, profile, helped>> /\ pc[Loop] = "idle"
        /\ (running # None => pc'[Loop] = "stop") /\ core'[Loop] = running /\ running' = None
    BY <1>2 DEF TakeTeardown, procVars
  <2>. QED
    BY <1>0, <2>1 DEF Alive, Cores
<1>3. ASSUME TakeCheck \/ Reconnect \/ \E t \in Tests : TakeTest(t) PROVE Lives' /\ (Owned => Owned')
  <2>1. UNCHANGED <<proc, profile, helped, running, core>>
    BY <1>3 DEF TakeCheck, Reconnect, TakeTest, procVars
  <2>2. CASE TakeCheck \/ Reconnect
    BY <1>0, <2>1, <2>2 DEF TakeCheck, Reconnect, Alive
  <2>3. CASE \E t \in Tests : TakeTest(t)
    BY <1>0, <2>1, <2>3 DEF TakeTest, Alive
  <2>. QED
    BY <1>3, <2>2, <2>3
<1>4. ASSUME Proceed PROVE Lives' /\ (Owned => Owned')
  BY <1>0, <1>4 DEF Proceed, Done, procVars, Alive
<1>5. ASSUME Poll PROVE Lives' /\ (Owned => Owned')
  <2>1. UNCHANGED <<proc, profile, helped, pc, core>> /\ pc[Loop] = "idle"
        /\ \E p \in Child(running) : proc[p] = "dead"
    BY <1>5 DEF Poll, procVars, taskVars
  <2>2. running \in helped \/ running \notin profile
    BY <1>0, <2>1 DEF Child, Alive
  <2>. QED
    BY <1>0, <2>1, <2>2 DEF Alive
<1>6. ASSUME NEW t \in Tasks, Clean(t) PROVE Lives' /\ (Owned => Owned')
  BY <1>0, <1>6 DEF Clean, procVars, loopVars, Alive
<1>7. ASSUME NEW t \in Tasks, Bind(t) PROVE Lives' /\ (Owned => Owned')
  BY <1>0, <1>7 DEF Bind, procVars, loopVars, Alive
<1>8. ASSUME NEW t \in Tasks, Launch(t) PROVE Lives' /\ (Owned => Owned')
  <2>1. pc[t] = "launch" /\ UNCHANGED <<core, running>> /\ helped \subseteq helped'
        /\ \A u \in Tasks \ {t} : pc'[u] = pc[u]
    BY <1>8 DEF Launch, loopVars
  <2>2. CASE proc' = [proc EXCEPT ![core[t]] = "starting"] /\ profile' = profile
    BY <1>0, <2>1, <2>2 DEF Alive
  <2>3. CASE Die(Backlog(core[t]))
    BY <1>0, <1>b, <2>1, <2>3
  <2>. QED
    BY <1>8, <2>2, <2>3 DEF Launch
<1>9. ASSUME NEW t \in Tasks, Accept(t) \/ AcceptTimesOut(t) PROVE Lives' /\ (Owned => Owned')
  <2>1. pc[t] = "accept" /\ UNCHANGED <<core, running, helped>>
        /\ \A u \in Tasks \ {t} : pc'[u] = pc[u]
    BY <1>9 DEF Accept, AcceptTimesOut, loopVars
  <2>2. \E P : Die(P)
    BY <1>9 DEF Accept, AcceptTimesOut
  <2>. QED
    BY <1>0, <1>b, <2>1, <2>2
<1>10. ASSUME NEW t \in Tasks, Called(t) PROVE Lives' /\ (Owned => Owned')
  BY <1>0, <1>10 DEF Called, procVars, loopVars, Alive
<1>11. ASSUME NEW t \in Tasks, Stop(t) PROVE Lives' /\ (Owned => Owned')
  BY <1>0, <1>11 DEF Stop, loopVars, Alive
<1>12. ASSUME NEW t \in Tasks, Kill(t) PROVE Lives' /\ (Owned => Owned')
  <2>1. /\ pc[t] = "kill" /\ UNCHANGED <<core, running, helped>>
        /\ \A u \in Tasks \ {t} : pc'[u] = pc[u]
        /\ Die(Child(core[t]))
    BY <1>12 DEF Kill, loopVars
  <2>. QED
    BY <1>0, <1>b, <2>1 DEF Child
<1>13. ASSUME NEW t \in Tasks, Fails(t) PROVE Lives' /\ (Owned => Owned')
  BY <1>0, <1>13 DEF Fails, Done, procVars, Alive
<1>14. ASSUME NEW t \in Tests, TestEnds(t) PROVE Lives' /\ (Owned => Owned')
  BY <1>0, <1>14 DEF TestEnds, Done, procVars, loopVars, Alive
\* A connection that comes up, or does not, finds no other.
<1>15. ASSUME Starting, Owned PROVE running = None /\ profile \subseteq helped
  <2>1. running = None /\ pc[Loop] = "call"
    BY <1>15 DEF Starting, LoopInv, Connections
  <2>. QED
    BY <1>0, <1>15, <2>1 DEF Cores
<1>16. ASSUME ~overlap, Starting
       PROVE  core[Loop] \in Cores /\ peer[core[Loop]] = core[Loop]
  BY <1>16 DEF Starting, TaskInv, OwnCore
<1>17. ASSUME Connected PROVE Lives' /\ (~overlap' => Owned')
  <2>1. /\ UNCHANGED <<proc, helped, overlap>> /\ Starting /\ Alive(peer[core[Loop]])
        /\ profile' = profile \cup {peer[core[Loop]]} /\ running' = core[Loop]
    BY <1>17 DEF Connected
  <2>. QED
    BY <1>0, <1>15, <1>16, <2>1 DEF Alive
<1>18. ASSUME ConnectFails PROVE Lives' /\ (~overlap' => Owned')
  <2>1. Starting /\ UNCHANGED <<helped, overlap, running, core>>
    BY <1>18 DEF ConnectFails, loopVars
  <2>2. PICK started \in SUBSET {peer[core[Loop]]} :
           DieWith(Child(core[Loop]), profile \cup {p \in started : Alive(p)})
    BY <1>18 DEF ConnectFails
  <2>3. peer[core[Loop]] \in Cores
    BY <2>1 DEF Starting, TaskInv
  <2>4. Lives' /\ profile' = (profile \cup {p \in started : Alive(p)}) \ Child(core[Loop])
    BY <1>0, <2>2, <2>3, DyingLeaves
  <2>. QED
    BY <1>0, <1>15, <1>16, <2>1, <2>4 DEF Child
<1>19. ASSUME Refused PROVE Lives' /\ (Owned => Owned')
  <2>1. pc[Loop] = "call" /\ UNCHANGED <<proc, profile, helped, running>>
    BY <1>19 DEF Refused, procVars, loopVars
  <2>2. running = None
    BY <1>19 DEF Refused, LoopInv
  <2>. QED
    BY <1>0, <2>1, <2>2 DEF Alive, Cores
<1>20. ASSUME NEW p \in Cores, Connect(p) PROVE Lives' /\ (Owned => Owned')
  BY <1>0, <1>20 DEF Connect, taskVars, loopVars, Alive
<1>21. ASSUME NEW p \in Cores, Exit(p) PROVE Lives' /\ (Owned => Owned')
  BY <1>0, <1>b, <1>21 DEF Exit, taskVars, loopVars
<1>. QED
  BY <1>0, <1>1, <1>2, <1>3, <1>4, <1>5, <1>6, <1>7, <1>8, <1>9, <1>10, <1>11, <1>12, <1>13,
     <1>14, <1>17, <1>18, <1>19, <1>20, <1>21, StepCases

-----------------------------------------------------------------------------
LEMMA EngineInit ==
  ASSUME Init
  PROVE  EngineInv
<1>1. TypeOK
  <2>1. queue \in Seq(Commands)
    BY DEF Init
  <2>2. host \in Host /\ sent \in 0 .. MaxCommands /\ spawned \in 0 .. MaxSpawns
    BY EngineAssumption DEF Init
  <2>3. pc \in [Tasks -> Labels] /\ goal \in [Tasks -> Commands \cup {"none", "refused"}]
        /\ core \in [Tasks -> Cores \cup {None}]
    BY DEF Init, Labels
  <2>4. proc \in [Cores -> {"none", "starting", "connected", "dead"}]
        /\ at \in [Cores -> Cores \cup {None}] /\ peer \in [Cores -> Cores \cup {None}]
    BY DEF Init
  <2>5. overlap \in BOOLEAN /\ listening = {} /\ helped = {} /\ profile = {}
    BY DEF Init
  <2>. QED
    BY <2>1, <2>2, <2>3, <2>4, <2>5 DEF Init, TypeOK
<1>2. TaskInv /\ LoopInv /\ ListenerInv
  BY DEF Init, TaskInv, LoopInv, ListenerInv
<1>3. SpawnInv /\ OwnCore /\ ProfileInv
  BY DEF Init, SpawnInv, OwnCore, ProfileInv, Spawning
<1>. QED
  BY <1>1, <1>2, <1>3 DEF EngineInv

(***************************************************************************)
(* Whatever is commanded, fails, crashes or times out, EngineInv holds.    *)
(***************************************************************************)
THEOREM EngineIsSound == Spec => []EngineInv
<1>1. Init => EngineInv
  BY EngineInit
<1>2. EngineInv /\ [Next]_vars => EngineInv'
  BY TypeStep, TaskStep, LoopStep, ListenerStep, SpawnStep, OwnCoreStep, ProfileStep DEF EngineInv
<1>. QED
  BY <1>1, <1>2, PTL DEF Spec

(***************************************************************************)
(* The variables of the engine keep their types.                           *)
(***************************************************************************)
THEOREM EngineTypeCorrect == Spec => []TypeOK
<1>1. EngineInv => TypeOK
  BY DEF EngineInv
<1>. QED
  BY <1>1, EngineIsSound, PTL

(***************************************************************************)
(* As long as no two spawns met at the endpoint, every client talks to the *)
(* process its own spawn started.                                          *)
(***************************************************************************)
THEOREM ClientsMeetTheirCore == Spec => []OwnCore
<1>1. EngineInv => OwnCore
  BY DEF EngineInv
<1>. QED
  BY <1>1, EngineIsSound, PTL

(***************************************************************************)
(* No process runs a profile but that of the connection shown.             *)
(***************************************************************************)
THEOREM ProfilesRunForConnection == Spec => []OnlyTheConnectionRuns
<1>1. ASSUME EngineInv PROVE OnlyTheConnectionRuns
  <2>. SUFFICES ASSUME ~overlap
                PROVE  /\ \A p, q \in profile \ helped : p = q
                       /\ At(Loop, "idle") /\ status \in {"disconnected", "failed"}
                             => profile \subseteq helped
    BY DEF OnlyTheConnectionRuns
  <2>1. ProfileInv /\ LoopInv /\ profile \subseteq Cores
    BY <1>1 DEF EngineInv, TypeOK
  <2>2. \A p, q \in profile \ helped : p = q
    BY <2>1, EngineAssumption DEF ProfileInv, Cores
  <2>3. ASSUME At(Loop, "idle"), status \in {"disconnected", "failed"}, NEW p \in profile \ helped
        PROVE  FALSE
    BY <2>1, <2>3, EngineAssumption DEF ProfileInv, LoopInv, At, Cores
  <2>. QED
    BY <2>2, <2>3
<1>. QED
  BY <1>1, EngineIsSound, PTL

(***************************************************************************)
(* What TestSparesConnection asks for holds of the code as long as no two  *)
(* spawns met: the meeting is all there is to its counterexample.          *)
(***************************************************************************)
UncontestedTestSpares ==
    [][~overlap' =>
         \A t \in Tests : pc'[t] # pc[t] /\ running # None =>
             (Alive(peer[running]) => proc'[peer[running]] # "dead")]_vars

THEOREM TestsSpareUncontested == Spec => UncontestedTestSpares
<1>. DEFINE Step == ~overlap' =>
         \A t \in Tests : pc'[t] # pc[t] /\ running # None =>
             (Alive(peer[running]) => proc'[peer[running]] # "dead")
<1>1. ASSUME EngineInv, [Next]_vars, ~overlap', NEW t \in Tests, pc'[t] # pc[t],
             running # None, Alive(peer[running])
      PROVE  proc'[peer[running]] # "dead"
  <2>1. TypeOK /\ TaskInv /\ SpawnInv /\ ~overlap /\ t \in Tasks
    BY <1>1, OverlapStays DEF EngineInv, Tasks
  <2>2. running \in Cores /\ peer[running] = running
    BY <1>1, <2>1 DEF EngineInv, LoopInv, OwnCore, TypeOK
  <2>. SUFFICES proc'[running] # "dead"
    BY <2>2
  <2>3. core[t] # running
    BY <1>1, <2>1 DEF TaskInv
  <2>4. ASSUME NEW P, running \notin P, Die(P) PROVE proc'[running] # "dead"
    BY <1>1, <2>2, <2>4 DEF Die, DieWith, Alive
  <2>5. ASSUME proc' = proc PROVE proc'[running] # "dead"
    BY <1>1, <2>2, <2>5 DEF Alive
  <2>6. running \notin Backlog(core[t]) /\ running \notin Child(core[t])
    BY <2>1, <2>2, <2>3 DEF SpawnInv, Backlog, Child
  <2>. USE EngineAssumption DEF Tasks
  <2>7. ASSUME NEW u \in Tasks,
               \/ Clean(u) \/ Bind(u) \/ Launch(u) \/ Accept(u) \/ AcceptTimesOut(u)
               \/ Called(u) \/ Stop(u) \/ Kill(u) \/ Fails(u)
        PROVE  u = t
    BY <1>1, <2>1, <2>7 DEF Clean, Bind, Launch, Accept, AcceptTimesOut, Called, Stop, Kill, Fails,
       Done, Goto, To, TypeOK
  <2>8. CASE Launch(t)
    <3>1. core[t] \in Cores /\ core[t] # None
      BY <2>1, <2>8 DEF Launch, At, TaskInv, TypeOK
    <3>2. CASE proc' = [proc EXCEPT ![core[t]] = "starting"]
      BY <1>1, <2>1, <2>2, <2>3, <3>2 DEF Alive, TypeOK
    <3>. QED
      BY <2>4, <2>6, <2>8, <3>2 DEF Launch
  <2>9. CASE Accept(t)
    <3>1. PICK p \in Backlog(core[t]) : Die(Backlog(core[t]) \ {p})
      BY <2>9 DEF Accept
    <3>. QED
      BY <2>4, <2>6, <3>1
  <2>10. CASE AcceptTimesOut(t) \/ Kill(t)
    BY <2>4, <2>6, <2>10 DEF AcceptTimesOut, Kill
  <2>11. CASE Clean(t) \/ Bind(t) \/ Called(t) \/ Stop(t) \/ Fails(t)
    BY <2>5, <2>11 DEF Clean, Bind, Called, Stop, Fails, procVars
  <2>12. CASE \E u \in Tests : TakeTest(u) \/ TestEnds(u)
    BY <2>5, <2>12 DEF TakeTest, TestEnds, procVars
  <2>13. ASSUME \/ TakeTeardown \/ TakeCheck \/ Reconnect \/ Proceed
                \/ Connected \/ ConnectFails \/ Refused
         PROVE  FALSE
    <3>1. pc' = [pc EXCEPT ![Loop] = pc'[Loop]]
      <4>1. CASE TakeTeardown \/ TakeCheck \/ Reconnect \/ Proceed
        BY <2>1, <4>1 DEF TakeTeardown, TakeCheck, Reconnect, Proceed, Done, Goto, To, TypeOK
      <4>2. CASE Connected \/ ConnectFails \/ Refused
        BY <2>1, <4>2 DEF Connected, ConnectFails, Refused, Done, Goto, To, TypeOK
      <4>. QED
        BY <2>13, <4>1, <4>2
    <3>. QED
      BY <1>1, <2>1, <3>1 DEF TypeOK
  <2>14. CASE (\E c \in Commands : Send(c)) \/ TakeStopTest \/ Poll \/ UNCHANGED vars
              \/ \E p \in Cores : Connect(p) \/ Exit(p)
    <3>1. pc'[t] = pc[t]
      BY <2>14 DEF Send, TakeStopTest, Poll, Connect, Exit, vars, taskVars
    <3>. QED
      BY <1>1, <3>1
  <2>. QED
    BY <1>1, <2>7, <2>8, <2>9, <2>10, <2>11, <2>12, <2>13, <2>14, StepCases
<1>2. EngineInv /\ [Next]_vars => [Step]_vars
  BY <1>1
<1>. QED
  BY <1>2, EngineIsSound, PTL DEF Spec, UncontestedTestSpares
=============================================================================
