-------------------------- MODULE CoreServerProofs --------------------------
(***************************************************************************)
(* Proofs about CoreServer for any requests, tests and configurations:     *)
(* CoreInv is an invariant, and the properties of the lifecycle follow     *)
(* from it.  One lemma per conjunct of CoreInv says that a step keeps it.  *)
(***************************************************************************)
EXTENDS CoreServer, TLAPS

(***************************************************************************)
(* The actions of Next one by one, as a lemma to case on.                  *)
(***************************************************************************)
LEMMA StepCases ==
  ASSUME [Next]_vars
  PROVE  \/ \E r \in Requests :
              \/ \E c \in Configs : StartRefused(r, c) \/ StartAccepted(r, c)
              \/ StartExtra(r) \/ StartMark(r) \/ StartXray(r) \/ CreateEagerXray(r)
              \/ StartEagerXray(r) \/ StartFullGates(r) \/ CreateBox(r) \/ StartDns(r)
              \/ UnwindBox(r) \/ UnwindUnpublish(r) \/ StartFails(r)
              \/ StopIdle(r) \/ Stop(r) \/ Unpublish(r) \/ CloseBox(r) \/ StopExtra(r)
              \/ CloseXray(r) \/ CloseTaken(r) \/ ClearMark(r) \/ ExtraExits(r)
         \/ \E t \in Tests :
              \/ TestCurrent(t) \/ TestCurrentEnds(t) \/ TestSidecars(t) \/ TestBox(t)
              \/ TestEnds(t) \/ TestCloseSidecars(t) \/ TestBoxCloses(t)
         \/ (\E i \in Interfaces : RouteMoves(i)) \/ CallbackReads
         \/ \E x \in Instances : CallbackApplies(x) \/ GateWakes(x) \/ GateSleeps(x)
         \/ UNCHANGED vars
  BY DEF Next, Lifecycle, Testing

(***************************************************************************)
(* Steps of tests, of the monitor and stuttering leave requests alone.     *)
(***************************************************************************)
SameAlive == \A k \in Kinds, s \in Requests : <<k, s>> \in alive' <=> <<k, s>> \in alive

Beside ==
    /\ UNCHANGED <<platform, lock, pc, cfg, slot, taken, mark, needUnset, tunDns, overStarted>>
    /\ SameAlive

LEMMA BesideSteps ==
  ASSUME [Next]_vars
  PROVE  Beside \/ \E r \in Requests : Lifecycle(r)
<1>1. ASSUME NEW t \in Tests, Testing(t) PROVE Beside
  <2>1. alive' = alive \/ \E k \in {"xray", "box"} : alive' \in {alive \cup {<<k, t>>}, alive \ {<<k, t>>}}
    BY <1>1 DEF Testing, TestCurrent, TestCurrentEnds, TestSidecars, TestBox, TestEnds,
       TestCloseSidecars, TestBoxCloses, Build, lifecycleVars
  <2>2. SameAlive
    BY <2>1, CoreAssumption DEF SameAlive
  <2>. QED
    BY <1>1, <2>2 DEF Testing, TestCurrent, TestCurrentEnds, TestSidecars, TestBox, TestEnds,
       TestCloseSidecars, TestBoxCloses, Beside, lifecycleVars, routeVars
<1>2. ASSUME NEW i \in Interfaces, RouteMoves(i) PROVE Beside
  BY <1>2 DEF RouteMoves, Beside, SameAlive, lifecycleVars
<1>3. CallbackReads \/ UNCHANGED vars => Beside
  BY DEF CallbackReads, vars, Beside, SameAlive, lifecycleVars
<1>4. ASSUME NEW x \in Instances, CallbackApplies(x) \/ GateWakes(x) \/ GateSleeps(x) PROVE Beside
  BY <1>4 DEF CallbackApplies, GateWakes, GateSleeps, Beside, SameAlive, lifecycleVars
<1>. QED
  BY <1>1, <1>2, <1>3, <1>4 DEF Next

(***************************************************************************)
(* What StartDns does but for the resolver.                                *)
(***************************************************************************)
LEMMA DnsMoves ==
  ASSUME NEW r \in Requests, StartDns(r)
  PROVE  /\ pc[r] = "dns"
         /\ \/ To(r, "ok") /\ lock' = None
            \/ To(r, "unwindBox") /\ lock' = lock /\ UNCHANGED <<needUnset, tunDns>>
         /\ UNCHANGED <<cfg, slot, alive, taken, mark, overStarted, egress, platform>>
<1>1. CASE platform = "darwin" /\ cfg[r].tun
  BY <1>1 DEF StartDns, At, Outside
<1>2. CASE ~(platform = "darwin" /\ cfg[r].tun)
  BY <1>2 DEF StartDns, At, Outside
<1>. QED
  BY <1>1, <1>2

-----------------------------------------------------------------------------
LEMMA TypeStep ==
  ASSUME TypeOK, StageInv, [Next]_vars
  PROVE  TypeOK'
<1>. USE CoreAssumption DEF Resources, Owners, Kinds, Sidecars
<1>1. ASSUME NEW r \in Requests, NEW c \in Configs, StartRefused(r, c) \/ StartAccepted(r, c)
      PROVE  TypeOK'
  <2>1. c \in Config /\ r \in Requests \cup {None}
    BY CoreAssumption
  <2>2. cfg' \in [Requests -> Config \cup {None}]
    BY <1>1, <2>1 DEF StartRefused, StartAccepted, TypeOK
  <2>3. pc' \in [Requests -> Labels]
    BY <1>1 DEF StartRefused, StartAccepted, Goto, To, TypeOK, Labels
  <2>. QED
    BY <1>1, <2>1, <2>2, <2>3 DEF StartRefused, StartAccepted, Outside, TypeOK
<1>2. ASSUME NEW r \in Requests, StartExtra(r) PROVE TypeOK'
  BY <1>2 DEF StartExtra, To, At, Build, Publish, Outside, TypeOK, Labels
<1>3. ASSUME NEW r \in Requests, StartMark(r) PROVE TypeOK'
  <2>1. mark' \in BOOLEAN
    BY <1>3 DEF StartMark, AutoRedirectMark
  <2>. QED
    BY <1>3, <2>1 DEF StartMark, Goto, To, Outside, TypeOK, Labels
<1>4. ASSUME NEW r \in Requests, StartXray(r) PROVE TypeOK'
  BY <1>4 DEF StartXray, To, At, Build, SetXray, Cold, Instances, Outside, TypeOK, Labels
<1>5. ASSUME NEW r \in Requests, CreateEagerXray(r) \/ StartEagerXray(r) PROVE TypeOK'
  <2>1. CurrentEgress \in [name : Interfaces, marked : BOOLEAN]
    BY DEF CurrentEgress, TypeOK
  <2>2. egress' = egress \/ egress' = [egress EXCEPT ![<<"xray", r>>] = CurrentEgress]
    BY <1>5 DEF CreateEagerXray, StartEagerXray
  <2>3. egress' \in [Instances -> [name : Interfaces, marked : BOOLEAN] \cup {None}]
    BY <2>1, <2>2 DEF TypeOK
  <2>. QED
    BY <1>5, <2>3 DEF CreateEagerXray, StartEagerXray, Goto, To, At, Build, SetXray, Outside,
       TypeOK, Labels
<1>6. ASSUME NEW r \in Requests, StartFullGates(r) \/ CreateBox(r) PROVE TypeOK'
  BY <1>6 DEF StartFullGates, CreateBox, Goto, To, At, Build, Publish, Cold, Instances, Outside,
     TypeOK, Labels
<1>7. ASSUME NEW r \in Requests, StartDns(r) PROVE TypeOK'
  <2>1. tunDns' \in BOOLEAN /\ needUnset' \in BOOLEAN
    BY <1>7 DEF StartDns, TypeOK
  <2>2. lock' \in Requests \cup {None} /\ pc' \in [Requests -> Labels]
    BY <1>7, DnsMoves DEF To, TypeOK, Labels
  <2>. QED
    BY <1>7, <2>1, <2>2, DnsMoves DEF StartDns, Outside, TypeOK
<1>8. ASSUME NEW r \in Requests, UnwindBox(r) \/ UnwindUnpublish(r) PROVE TypeOK'
  BY <1>8 DEF UnwindBox, UnwindUnpublish, Goto, To, Publish, Outside, TypeOK, Labels
<1>9. ASSUME NEW r \in Requests, StartFails(r) PROVE TypeOK'
  BY <1>9 DEF StartFails, Goto, To, Publish, Outside, TypeOK, Labels
<1>10. ASSUME NEW r \in Requests, StopIdle(r) PROVE TypeOK'
  BY <1>10 DEF StopIdle, Goto, To, Outside, TypeOK, Labels
<1>11. ASSUME NEW r \in Requests, Stop(r) PROVE TypeOK'
  <2>1. tunDns' \in BOOLEAN /\ needUnset' \in BOOLEAN
    BY <1>11 DEF Stop, TypeOK
  <2>. QED
    BY <1>11, <2>1 DEF Stop, Goto, To, Outside, TypeOK, Labels
<1>12. ASSUME NEW r \in Requests, Unpublish(r) PROVE TypeOK'
  BY <1>12 DEF Unpublish, Goto, To, At, Publish, Outside, TypeOK, Labels, StageInv
<1>13. ASSUME NEW r \in Requests, CloseBox(r) \/ StopExtra(r) PROVE TypeOK'
  BY <1>13 DEF CloseBox, StopExtra, StopExtraProcess, Goto, To, At, Outside, TypeOK, Labels
<1>14. ASSUME NEW r \in Requests, CloseXray(r) PROVE TypeOK'
  BY <1>14 DEF CloseXray, LiveSlots, Goto, To, At, Outside, TypeOK, Labels
<1>15. ASSUME NEW r \in Requests, CloseTaken(r) PROVE TypeOK'
  BY <1>15 DEF CloseTaken, Goto, To, Outside, TypeOK, Labels
<1>16. ASSUME NEW r \in Requests, ClearMark(r) PROVE TypeOK'
  BY <1>16 DEF ClearMark, Goto, To, Outside, TypeOK, Labels
<1>17. ASSUME NEW r \in Requests, ExtraExits(r) PROVE TypeOK'
  BY <1>17 DEF ExtraExits, Outside, TypeOK
<1>18. ASSUME NEW t \in Tests, Testing(t) PROVE TypeOK'
  BY <1>18 DEF Testing, TestCurrent, TestCurrentEnds, TestSidecars, TestBox, TestEnds,
     TestCloseSidecars, TestBoxCloses, Build, lifecycleVars, routeVars, TypeOK, TestLabels
<1>19. ASSUME NEW i \in Interfaces, RouteMoves(i) PROVE TypeOK'
  <2>1. callback' = [at |-> "called", name |-> i, targets |-> callback.targets,
                     missed |-> callback.missed]
    BY <1>19 DEF RouteMoves, TypeOK
  <2>. QED
    BY <1>19, <2>1 DEF RouteMoves, lifecycleVars, testVars, TypeOK
<1>20. ASSUME CallbackReads PROVE TypeOK'
  <2>1. PICK at \in {"idle", "apply"} :
          callback' = [at |-> at, name |-> callback.name, targets |-> Followed,
                       missed |-> callback.missed \cup Unseen]
    BY <1>20 DEF CallbackReads, TypeOK
  <2>2. Followed \subseteq Instances /\ Unseen \subseteq Instances
    BY DEF Followed, Unseen
  <2>3. callback' \in [at : {"idle", "called", "apply"}, name : Interfaces,
                       targets : SUBSET Instances, missed : SUBSET Instances]
    BY <2>1, <2>2 DEF TypeOK
  <2>. QED
    BY <1>20, <2>3 DEF CallbackReads, lifecycleVars, testVars, TypeOK
<1>21. ASSUME NEW x \in Instances, CallbackApplies(x) PROVE TypeOK'
  <2>1. PICK at \in {"idle", "apply"} :
          callback' = [at |-> at, name |-> callback.name, targets |-> callback.targets \ {x},
                       missed |-> callback.missed]
    BY <1>21 DEF CallbackApplies, TypeOK
  <2>2. egress' \in [Instances -> [name : Interfaces, marked : BOOLEAN] \cup {None}]
    BY <1>21 DEF CallbackApplies, TypeOK
  <2>3. callback' \in [at : {"idle", "called", "apply"}, name : Interfaces,
                       targets : SUBSET Instances, missed : SUBSET Instances]
    BY <2>1 DEF TypeOK
  <2>. QED
    BY <1>21, <2>2, <2>3 DEF CallbackApplies, lifecycleVars, testVars, TypeOK
<1>23. ASSUME NEW x \in Instances, GateWakes(x) \/ GateSleeps(x) PROVE TypeOK'
  <2>1. egress' \in [Instances -> [name : Interfaces, marked : BOOLEAN] \cup {None}]
    BY <1>23 DEF GateWakes, GateSleeps, CurrentEgress, TypeOK
  <2>. QED
    BY <1>23, <2>1 DEF GateWakes, GateSleeps, lifecycleVars, testVars, routeVars, TypeOK
<1>22. UNCHANGED vars => TypeOK'
  BY DEF vars, TypeOK
<1>. QED
  BY <1>1, <1>2, <1>3, <1>4, <1>5, <1>6, <1>7, <1>8, <1>9, <1>10, <1>11, <1>12, <1>13,
     <1>14, <1>15, <1>16, <1>17, <1>18, <1>19, <1>20, <1>21, <1>22, <1>23, StepCases DEF Testing

LEMMA LockStep ==
  ASSUME TypeOK, LockInv, [Next]_vars
  PROVE  LockInv'
<1>. USE CoreAssumption DEF Goto, To, At, Holding, Labels, TypeOK, LockInv
<1>1. Beside => LockInv'
  BY DEF Beside
<1>2. ASSUME NEW r \in Requests, NEW c \in Configs, StartRefused(r, c) \/ StartAccepted(r, c)
      PROVE  LockInv'
  BY <1>2 DEF StartRefused, StartAccepted, Owners
<1>3. ASSUME NEW r \in Requests,
             \/ StartExtra(r) \/ StartMark(r) \/ StartXray(r) \/ CreateEagerXray(r)
             \/ StartEagerXray(r) \/ StartFullGates(r) \/ CreateBox(r)
      PROVE  LockInv'
  BY <1>3 DEF StartExtra, StartMark, StartXray, CreateEagerXray, StartEagerXray,
     StartFullGates, CreateBox
<1>4. ASSUME NEW r \in Requests, UnwindBox(r) \/ UnwindUnpublish(r) \/ StartFails(r)
      PROVE  LockInv'
  BY <1>4 DEF UnwindBox, UnwindUnpublish, StartFails, Owners
<1>11. ASSUME NEW r \in Requests, StartDns(r) PROVE LockInv'
  BY <1>11, DnsMoves DEF Owners
<1>5. ASSUME NEW r \in Requests, StopIdle(r) \/ Unpublish(r) \/ CloseBox(r)
      PROVE  LockInv'
  BY <1>5 DEF StopIdle, Unpublish, CloseBox, Owners
<1>8. ASSUME NEW r \in Requests, Stop(r) PROVE LockInv'
  BY <1>8 DEF Stop, Owners
<1>6. ASSUME NEW r \in Requests, StopExtra(r) \/ ClearMark(r) \/ ExtraExits(r)
      PROVE  LockInv'
  BY <1>6 DEF StopExtra, StopExtraProcess, ClearMark, ExtraExits, Owners
<1>9. ASSUME NEW r \in Requests, CloseXray(r) PROVE LockInv'
  BY <1>9 DEF CloseXray, Owners
<1>10. ASSUME NEW r \in Requests, CloseTaken(r) PROVE LockInv'
  BY <1>10 DEF CloseTaken, Owners
<1>. QED
  BY <1>1, <1>2, <1>3, <1>4, <1>5, <1>6, <1>8, <1>9, <1>10, <1>11, BesideSteps DEF Lifecycle

(***************************************************************************)
(* No two requests are inside Start and Stop at once.                      *)
(***************************************************************************)
LEMMA OneInside ==
  ASSUME LockInv, NEW r \in Requests, NEW s \in Requests, pc[r] \in Holding, pc[s] \in Holding
  PROVE  r = s
  BY DEF LockInv

LEMMA CfgStep ==
  ASSUME TypeOK, CfgInv, [Next]_vars
  PROVE  CfgInv'
<1>. USE CoreAssumption DEF Goto, To, At, Starting, Labels, TypeOK, CfgInv
<1>1. Beside => CfgInv'
  BY DEF Beside
<1>2. ASSUME NEW r \in Requests, NEW c \in Configs, StartRefused(r, c) \/ StartAccepted(r, c)
      PROVE  CfgInv'
  BY <1>2 DEF StartRefused, StartAccepted
<1>3. ASSUME NEW r \in Requests,
             \/ StartExtra(r) \/ StartMark(r) \/ StartXray(r) \/ CreateEagerXray(r)
             \/ StartEagerXray(r) \/ StartFullGates(r) \/ CreateBox(r)
      PROVE  CfgInv'
  BY <1>3 DEF StartExtra, StartMark, StartXray, CreateEagerXray, StartEagerXray,
     StartFullGates, CreateBox
<1>4. ASSUME NEW r \in Requests, UnwindBox(r) \/ UnwindUnpublish(r) \/ StartFails(r)
      PROVE  CfgInv'
  BY <1>4 DEF UnwindBox, UnwindUnpublish, StartFails
<1>11. ASSUME NEW r \in Requests, StartDns(r) PROVE CfgInv'
  BY <1>11, DnsMoves
<1>5. ASSUME NEW r \in Requests, StopIdle(r) \/ Unpublish(r) \/ CloseBox(r)
      PROVE  CfgInv'
  BY <1>5 DEF StopIdle, Unpublish, CloseBox
<1>8. ASSUME NEW r \in Requests, Stop(r) PROVE CfgInv'
  BY <1>8 DEF Stop
<1>6. ASSUME NEW r \in Requests, StopExtra(r) \/ ClearMark(r) \/ ExtraExits(r)
      PROVE  CfgInv'
  BY <1>6 DEF StopExtra, StopExtraProcess, ClearMark, ExtraExits
<1>9. ASSUME NEW r \in Requests, CloseXray(r) PROVE CfgInv'
  BY <1>9 DEF CloseXray
<1>10. ASSUME NEW r \in Requests, CloseTaken(r) PROVE CfgInv'
  BY <1>10 DEF CloseTaken
<1>. QED
  BY <1>1, <1>2, <1>3, <1>4, <1>5, <1>6, <1>8, <1>9, <1>10, <1>11, BesideSteps DEF Lifecycle

(***************************************************************************)
(* slot["box"] is touched by whoever holds the lock, and where it says so. *)
(***************************************************************************)
LEMMA StageStep ==
  ASSUME TypeOK, LockInv, StageInv, [Next]_vars
  PROVE  StageInv'
<1>. USE CoreAssumption DEF Goto, To, At, Labels, TypeOK, StageInv, LockInv, Holding, Kinds, Sidecars
<1>1. Beside => StageInv'
  BY DEF Beside
<1>2. ASSUME NEW r \in Requests, NEW c \in Configs, StartRefused(r, c) \/ StartAccepted(r, c)
      PROVE  StageInv'
  BY <1>2 DEF StartRefused, StartAccepted, Owners
<1>3. ASSUME NEW r \in Requests,
             StartExtra(r) \/ StartMark(r) \/ StartXray(r) \/ CreateEagerXray(r)
      PROVE  StageInv'
  BY <1>3 DEF StartExtra, StartMark, StartXray, CreateEagerXray, SetXray, Publish
<1>7. ASSUME NEW r \in Requests, StartEagerXray(r) \/ StartFullGates(r) \/ CreateBox(r)
      PROVE  StageInv'
  BY <1>7 DEF StartEagerXray, StartFullGates, CreateBox, SetXray, Publish
<1>4. ASSUME NEW r \in Requests, UnwindBox(r) \/ UnwindUnpublish(r) \/ StartFails(r)
      PROVE  StageInv'
  BY <1>4 DEF UnwindBox, UnwindUnpublish, StartFails, Publish, Owners
<1>11. ASSUME NEW r \in Requests, StartDns(r) PROVE StageInv'
  BY <1>11, DnsMoves DEF Owners
<1>5. ASSUME NEW r \in Requests, StopIdle(r) \/ Unpublish(r) \/ CloseBox(r)
      PROVE  StageInv'
  BY <1>5 DEF StopIdle, Unpublish, CloseBox, Publish, Owners
<1>8. ASSUME NEW r \in Requests, Stop(r) PROVE StageInv'
  BY <1>8 DEF Stop, Owners
<1>6. ASSUME NEW r \in Requests, StopExtra(r) \/ ClearMark(r) \/ ExtraExits(r)
      PROVE  StageInv'
  BY <1>6 DEF StopExtra, StopExtraProcess, ClearMark, ExtraExits, Owners
<1>9. ASSUME NEW r \in Requests, CloseXray(r) PROVE StageInv'
  BY <1>9 DEF CloseXray, Owners
<1>10. ASSUME NEW r \in Requests, CloseTaken(r) PROVE StageInv'
  BY <1>10 DEF CloseTaken, Owners
<1>. QED
  BY <1>1, <1>2, <1>3, <1>4, <1>5, <1>6, <1>7, <1>8, <1>9, <1>10, <1>11, BesideSteps DEF Lifecycle

(***************************************************************************)
(* Whoever takes a step of Start or Stop is the only request inside them.  *)
(***************************************************************************)
Alone(r) == \A s \in Requests \ {r} : pc[s] \notin Holding /\ pc'[s] = pc[s]

LEMMA LifecycleAlone ==
  ASSUME TypeOK, LockInv, NEW r \in Requests, Lifecycle(r)
  PROVE  ExtraExits(r) \/ Alone(r)
<1>. USE DEF Goto, To, At, Holding, Labels, TypeOK, LockInv, Alone
<1>1. lock = None \/ pc[r] \in Holding => \A s \in Requests \ {r} : pc[s] \notin Holding
  BY CoreAssumption DEF Owners
<1>2. ASSUME NEW c \in Configs, StartRefused(r, c) \/ StartAccepted(r, c) PROVE Alone(r)
  BY <1>1, <1>2 DEF StartRefused, StartAccepted
<1>3. ASSUME \/ StartExtra(r) \/ StartMark(r) \/ StartXray(r) \/ CreateEagerXray(r)
             \/ StartEagerXray(r) \/ StartFullGates(r) \/ CreateBox(r)
      PROVE  Alone(r)
  BY <1>1, <1>3 DEF StartExtra, StartMark, StartXray, CreateEagerXray, StartEagerXray,
     StartFullGates, CreateBox
<1>4. ASSUME UnwindBox(r) \/ UnwindUnpublish(r) \/ StartFails(r) PROVE Alone(r)
  BY <1>1, <1>4 DEF UnwindBox, UnwindUnpublish, StartFails
<1>5. ASSUME StartDns(r) PROVE Alone(r)
  BY <1>1, <1>5, DnsMoves
<1>6. ASSUME Stop(r) PROVE Alone(r)
  BY <1>1, <1>6 DEF Stop
<1>7. ASSUME StopIdle(r) \/ Unpublish(r) \/ CloseBox(r) \/ StopExtra(r) PROVE Alone(r)
  BY <1>1, <1>7 DEF StopIdle, Unpublish, CloseBox, StopExtra
<1>8. ASSUME CloseXray(r) \/ ClearMark(r) PROVE Alone(r)
  BY <1>1, <1>8 DEF CloseXray, ClearMark
<1>9. ASSUME CloseTaken(r) PROVE Alone(r)
  BY <1>1, <1>9 DEF CloseTaken
<1>. QED
  BY <1>2, <1>3, <1>4, <1>5, <1>6, <1>7, <1>8, <1>9 DEF Lifecycle

(***************************************************************************)
(* The steps that leave no box published.                                  *)
(***************************************************************************)
LEMMA NoBox ==
  ASSUME TypeOK, StageInv, NEW r \in Requests,
         \/ StartExtra(r) \/ StartMark(r) \/ StartXray(r) \/ CreateEagerXray(r)
         \/ StartEagerXray(r) \/ StartFullGates(r) \/ UnwindUnpublish(r) \/ StartFails(r)
         \/ StopIdle(r) \/ Unpublish(r) \/ CloseBox(r) \/ StopExtra(r)
         \/ CloseXray(r) \/ CloseTaken(r) \/ ClearMark(r)
         \/ \E c \in Configs : StartAccepted(r, c)
  PROVE  slot'["box"] = None
<1>. USE DEF Goto, At, TypeOK, StageInv, Kinds, Sidecars
<1>1. CASE StartExtra(r) \/ StartMark(r) \/ StartXray(r) \/ CreateEagerXray(r)
  BY <1>1 DEF StartExtra, StartMark, StartXray, CreateEagerXray, SetXray, Publish
<1>2. CASE StartEagerXray(r) \/ StartFullGates(r) \/ UnwindUnpublish(r) \/ StartFails(r)
  BY <1>2 DEF StartEagerXray, StartFullGates, UnwindUnpublish, StartFails, SetXray, Publish
<1>3. CASE StopIdle(r) \/ Unpublish(r) \/ CloseBox(r) \/ StopExtra(r)
  BY <1>3 DEF StopIdle, Unpublish, CloseBox, StopExtra, StopExtraProcess, Publish
<1>4. CASE CloseXray(r) \/ CloseTaken(r) \/ ClearMark(r)
  BY <1>4 DEF CloseXray, CloseTaken, ClearMark
<1>5. CASE \E c \in Configs : StartAccepted(r, c)
  BY <1>5 DEF StartAccepted
<1>. QED
  BY <1>1, <1>2, <1>3, <1>4, <1>5

-----------------------------------------------------------------------------
LEMMA BoxStep ==
  ASSUME TypeOK, LockInv, CfgInv, StageInv, BoxInv, BuildInv, [Next]_vars
  PROVE  BoxInv'
<1>. USE CoreAssumption DEF Goto, To, At, Labels, TypeOK, Kinds, Sidecars, Served, Kept, Needed
<1>1. Beside => BoxInv'
  BY DEF Beside, SameAlive, BoxInv
<1>2. ASSUME slot'["box"] = None PROVE BoxInv'
  BY <1>2 DEF BoxInv, Owners
<1>3. ASSUME NEW r \in Requests, NEW c \in Configs, StartRefused(r, c) PROVE BoxInv'
  BY <1>3 DEF StartRefused, BoxInv
<1>4. ASSUME NEW r \in Requests, CreateBox(r) PROVE BoxInv'
  <2>1. /\ slot["box"] = None
        /\ pc[r] = "box"
        /\ Served(r)
        /\ cfg[r] # None
        /\ UNCHANGED cfg
    BY <1>4 DEF CreateBox, StageInv, BuildInv, CfgInv, Starting
  <2>2. CASE slot' = slot
    BY <1>2, <2>1, <2>2
  <2>3. CASE To(r, "dns") /\ Build("box", r) /\ Publish("box", r)
    BY <2>1, <2>3 DEF BoxInv, Build, Publish
  <2>. QED
    BY <1>4, <2>2, <2>3 DEF CreateBox
<1>5. ASSUME NEW r \in Requests, StartDns(r) PROVE BoxInv'
  BY <1>5, DnsMoves DEF BoxInv, StageInv
<1>6. ASSUME NEW r \in Requests, UnwindBox(r) PROVE BoxInv'
  BY <1>6 DEF UnwindBox, BoxInv, StageInv
<1>7. ASSUME NEW r \in Requests, Stop(r) PROVE BoxInv'
  BY <1>7 DEF Stop, BoxInv
<1>8. ASSUME NEW r \in Requests, ExtraExits(r) PROVE BoxInv'
  BY <1>8 DEF ExtraExits, BoxInv
<1>. QED
  BY <1>1, <1>2, <1>3, <1>4, <1>5, <1>6, <1>7, <1>8, NoBox, BesideSteps DEF Lifecycle

(***************************************************************************)
(* The extra process is no part of what a profile is served by.            *)
(***************************************************************************)
LEMMA ExtraIsApart ==
  ASSUME TypeOK, NEW r \in Requests, ExtraExits(r)
  PROVE  /\ UNCHANGED <<lock, pc, cfg, slot, taken, mark, needUnset, tunDns, overStarted, platform>>
         /\ \A k \in Kinds \ {"extra"}, s \in Requests : <<k, s>> \in alive' <=> <<k, s>> \in alive
  BY DEF ExtraExits, Outside

LEMMA BuildStep ==
  ASSUME TypeOK, LockInv, CfgInv, BuildInv, [Next]_vars
  PROVE  BuildInv'
<1>. DEFINE Made(s) == /\ pc[s] = "xrayStart" => <<"xray", s>> \in alive /\ cfg[s].xray = "eager"
                       /\ pc[s] = "full" => \A k \in Needed(cfg[s]) \ {"full"} : Kept(k, s)
                       /\ pc[s] = "box" => Served(s)
                       /\ pc[s] = "unwindUnpublish" => <<"box", s>> \notin alive
<1>0. BuildInv <=> \A s \in Requests : Made(s)
  BY DEF BuildInv
<1>a. BuildInv' <=> \A s \in Requests : Made(s)'
  BY DEF BuildInv
<1>. USE DEF Goto, To, At, Labels, TypeOK, Kinds, Sidecars, Served, Kept, Needed
<1>1. Beside => BuildInv'
  BY <1>0, <1>a DEF Beside, SameAlive
<1>2. ASSUME NEW r \in Requests, ExtraExits(r) PROVE BuildInv'
  BY <1>2, <1>0, <1>a, ExtraIsApart
<1>3. ASSUME NEW r \in Requests, Lifecycle(r), Alone(r) PROVE BuildInv'
  <2>. SUFFICES Made(r)'
    BY <1>3, <1>a DEF Alone, Holding
  <2>1. CASE StartXray(r)
    BY <2>1 DEF StartXray, Build, SetXray
  <2>2. CASE CreateEagerXray(r)
    BY <2>2 DEF CreateEagerXray, Build
  <2>3. CASE StartEagerXray(r)
    BY <2>3, <1>0 DEF StartEagerXray, SetXray
  <2>4. CASE StartFullGates(r)
    BY <2>4, <1>0 DEF StartFullGates, Build, Publish
  <2>5. CASE UnwindBox(r)
    BY <2>5 DEF UnwindBox
  <2>6. CASE ExtraExits(r)
    BY <1>2, <2>6, <1>a
  <2>7. CASE StartDns(r)
    BY <2>7, DnsMoves
  <2>8. CASE StartExtra(r) \/ StartMark(r) \/ CreateBox(r) \/ UnwindUnpublish(r) \/ StartFails(r)
    BY <2>8 DEF StartExtra, StartMark, CreateBox, UnwindUnpublish, StartFails
  <2>9. CASE StopIdle(r) \/ Unpublish(r) \/ CloseBox(r) \/ StopExtra(r) \/ ClearMark(r)
    BY <2>9 DEF StopIdle, Unpublish, CloseBox, StopExtra, ClearMark
  <2>10. CASE Stop(r)
    BY <2>10 DEF Stop
  <2>11. CASE CloseXray(r)
    BY <2>11 DEF CloseXray
  <2>12. CASE CloseTaken(r)
    BY <2>12 DEF CloseTaken
  <2>13. CASE \E c \in Configs : StartRefused(r, c) \/ StartAccepted(r, c)
    BY <2>13 DEF StartRefused, StartAccepted
  <2>. QED
    BY <1>3, <2>1, <2>2, <2>3, <2>4, <2>5, <2>6, <2>7, <2>8, <2>9, <2>10, <2>11, <2>12,
       <2>13 DEF Lifecycle
<1>. QED
  BY <1>1, <1>2, <1>3, LifecycleAlone, BesideSteps

LEMMA TakenStep ==
  ASSUME TypeOK, LockInv, StageInv, BoxInv, TakenInv, [Next]_vars
  PROVE  TakenInv'
<1>. DEFINE Hands(h) == /\ pc[h] = "closeBox" =>
                              \E b \in Requests : /\ taken[h] = {<<"box", b>>}
                                                  /\ pc[b] = "ok" /\ cfg[b] # None /\ Served(b)
                        /\ pc[h] = "closeTaken" => taken[h] \subseteq Sidecars \X Requests
<1>0. TakenInv <=> \A h \in Requests : Hands(h)
  BY DEF TakenInv
<1>a. TakenInv' <=> \A h \in Requests : Hands(h)'
  BY DEF TakenInv
<1>. USE DEF Goto, To, At, Labels, TypeOK, Kinds, Sidecars, Served, Kept, Needed
<1>1. Beside => TakenInv'
  BY <1>0, <1>a DEF Beside, SameAlive
<1>2. ASSUME NEW r \in Requests, ExtraExits(r) PROVE TakenInv'
  BY <1>2, <1>0, <1>a, ExtraIsApart
<1>3. ASSUME NEW r \in Requests, Lifecycle(r), Alone(r) PROVE TakenInv'
  <2>. SUFFICES Hands(r)'
    BY <1>3, <1>a DEF Alone, Holding
  <2>1. CASE Unpublish(r)
    <3>1. pc[r] = "unpublish" /\ slot["box"] # None
      BY <2>1 DEF Unpublish, StageInv
    <3>2. PICK b \in Requests : b = slot["box"]
      BY <3>1
    <3>3. pc[b] = "ok" /\ cfg[b] # None /\ Served(b)
      <4>1. pc[b] \in {"ok", "dns", "unwindBox", "unwindUnpublish"} /\ cfg[b] # None /\ Served(b)
        BY <3>2 DEF BoxInv
      <4>. QED
        BY <1>3, <3>1, <4>1 DEF Alone, Holding
    <3>4. taken'[r] = {<<"box", b>>} /\ pc'[r] = "closeBox"
      BY <2>1, <3>2 DEF Unpublish
    <3>5. Served(b)'
      BY <2>1, <3>3 DEF Unpublish, Publish
    <3>6. pc'[b] = "ok" /\ cfg'[b] # None
      BY <2>1, <3>1, <3>3 DEF Unpublish
    <3>. QED
      BY ONLY <3>4, <3>5, <3>6, b \in Requests
  <2>2. CASE CloseXray(r)
    BY <2>2 DEF CloseXray, LiveSlots
  <2>3. CASE StartXray(r) \/ CreateEagerXray(r) \/ StartEagerXray(r) \/ StartFullGates(r)
    BY <2>3 DEF StartXray, CreateEagerXray, StartEagerXray, StartFullGates
  <2>6. CASE ExtraExits(r)
    BY <1>2, <2>6, <1>a
  <2>7. CASE StartDns(r)
    BY <2>7, DnsMoves
  <2>8. CASE \/ StartExtra(r) \/ StartMark(r) \/ CreateBox(r) \/ UnwindBox(r)
             \/ UnwindUnpublish(r) \/ StartFails(r)
    BY <2>8 DEF StartExtra, StartMark, CreateBox, UnwindBox, UnwindUnpublish, StartFails
  <2>9. CASE StopIdle(r) \/ CloseBox(r) \/ StopExtra(r) \/ ClearMark(r)
    BY <2>9 DEF StopIdle, CloseBox, StopExtra, ClearMark
  <2>10. CASE Stop(r)
    BY <2>10 DEF Stop
  <2>12. CASE CloseTaken(r)
    BY <2>12 DEF CloseTaken
  <2>13. CASE \E c \in Configs : StartRefused(r, c) \/ StartAccepted(r, c)
    BY <2>13 DEF StartRefused, StartAccepted
  <2>. QED
    BY <1>3, <2>1, <2>2, <2>3, <2>6, <2>7, <2>8, <2>9, <2>10, <2>12, <2>13 DEF Lifecycle
<1>. QED
  BY <1>1, <1>2, <1>3, LifecycleAlone, BesideSteps

(***************************************************************************)
(* The mark is set before anything of the profile exists and cleared once  *)
(* all of it is gone.                                                      *)
(***************************************************************************)
LEMMA MarkStep ==
  ASSUME TypeOK, LockInv, StageInv, MarkInv, [Next]_vars
  PROVE  MarkInv'
<1>. DEFINE Free == lock = None =>
                      (mark <=> slot["box"] # None /\ AutoRedirectMark(cfg[slot["box"]]))
            Marked(s) == pc[s] \in {"xray", "xrayStart", "full", "box", "dns", "unwindBox",
                                    "unwindUnpublish"}
                            => (mark <=> AutoRedirectMark(cfg[s]))
<1>0. MarkInv <=> Free /\ \A s \in Requests : Marked(s)
  BY DEF MarkInv
<1>a. MarkInv' <=> Free' /\ \A s \in Requests : Marked(s)'
  BY DEF MarkInv
<1>. USE DEF Goto, To, At, Labels, TypeOK, Kinds, Sidecars, AutoRedirectMark
<1>1. Beside => MarkInv'
  BY <1>0, <1>a DEF Beside
<1>2. ASSUME NEW r \in Requests, ExtraExits(r) PROVE MarkInv'
  BY <1>2, <1>0, <1>a, ExtraIsApart
<1>3. ASSUME NEW r \in Requests, Lifecycle(r), Alone(r) PROVE MarkInv'
  <2>. SUFFICES Free' /\ Marked(r)'
    BY <1>3, <1>a DEF Alone, Holding
  <2>1. CASE StartMark(r)
    <3>1. lock' # None
      BY <2>1, CoreAssumption DEF StartMark, LockInv, Holding, Owners
    <3>2. mark' = (platform = "linux" /\ cfg[r].tun) /\ cfg' = cfg /\ platform' = platform
      BY <2>1 DEF StartMark, Outside
    <3>3. Marked(r)'
      BY ONLY <3>2, Zenon DEF AutoRedirectMark
    <3>. QED
      BY <3>1, <3>3
  <2>2. CASE StartExtra(r) \/ StartXray(r)
    BY <2>2, <1>0, CoreAssumption DEF StartExtra, StartXray, LockInv, Holding, Owners, Outside
  <2>3. CASE CreateEagerXray(r) \/ StartEagerXray(r)
    BY <2>3, <1>0, CoreAssumption DEF CreateEagerXray, StartEagerXray, LockInv, Holding, Owners, Outside
  <2>4. CASE StartFullGates(r) \/ CreateBox(r)
    BY <2>4, <1>0, CoreAssumption DEF StartFullGates, CreateBox, LockInv, Holding, Owners, Outside
  <2>5. CASE UnwindBox(r) \/ UnwindUnpublish(r)
    BY <2>5, <1>0, CoreAssumption DEF UnwindBox, UnwindUnpublish, LockInv, Holding, Owners, Outside
  <2>6. CASE ExtraExits(r)
    BY <1>2, <2>6, <1>a
  <2>7. CASE StartDns(r)
    BY <2>7, <1>0, DnsMoves, CoreAssumption DEF StageInv, LockInv, Holding, Owners
  <2>8. CASE StartFails(r)
    BY <2>8 DEF StartFails, Publish
  <2>9. CASE StopIdle(r)
    BY <2>9, <1>0 DEF StopIdle, Outside
  <2>10. CASE Stop(r)
    BY <2>10, CoreAssumption DEF Stop, Owners
  <2>11. CASE Unpublish(r) \/ CloseBox(r) \/ StopExtra(r)
    BY <2>11, CoreAssumption DEF Unpublish, CloseBox, StopExtra, LockInv, Holding, Owners
  <2>12. CASE CloseXray(r)
    BY <2>12, CoreAssumption DEF CloseXray, LockInv, Holding, Owners
  <2>13. CASE CloseTaken(r)
    BY <2>13, CoreAssumption DEF CloseTaken, LockInv, Holding, Owners
  <2>14. CASE ClearMark(r)
    BY <2>14 DEF ClearMark, StageInv
  <2>15. CASE \E c \in Configs : StartRefused(r, c) \/ StartAccepted(r, c)
    BY <2>15, CoreAssumption DEF StartRefused, StartAccepted, Owners
  <2>. QED
    BY <1>3, <2>1, <2>2, <2>3, <2>4, <2>5, <2>6, <2>7, <2>8, <2>9, <2>10, <2>11, <2>12,
       <2>13, <2>14, <2>15 DEF Lifecycle
<1>. QED
  BY <1>1, <1>2, <1>3, LifecycleAlone, BesideSteps

(***************************************************************************)
(* A request of the lifecycle builds what is its own and no test's.        *)
(***************************************************************************)
LEMMA LifecycleAdds ==
  ASSUME TypeOK, NEW r \in Requests, Lifecycle(r)
  PROVE  alive' \subseteq alive \cup {<<k, r>> : k \in Kinds}
<1>. USE DEF Build, Kinds, Sidecars
<1>1. CASE \E c \in Configs : StartRefused(r, c) \/ StartAccepted(r, c)
  BY <1>1 DEF StartRefused, StartAccepted
<1>2. CASE StartExtra(r) \/ StartMark(r) \/ StartXray(r) \/ CreateEagerXray(r)
  BY <1>2 DEF StartExtra, StartMark, StartXray, CreateEagerXray
<1>3. CASE StartEagerXray(r) \/ StartFullGates(r) \/ CreateBox(r) \/ StartDns(r)
  BY <1>3, DnsMoves DEF StartEagerXray, StartFullGates, CreateBox
<1>4. CASE UnwindBox(r) \/ UnwindUnpublish(r) \/ StartFails(r) \/ StopIdle(r)
  BY <1>4 DEF UnwindBox, UnwindUnpublish, StartFails, StopIdle
<1>5. CASE Stop(r) \/ Unpublish(r) \/ CloseBox(r) \/ StopExtra(r)
  BY <1>5 DEF Stop, Unpublish, CloseBox, StopExtra, StopExtraProcess
<1>6. CASE CloseXray(r) \/ CloseTaken(r) \/ ClearMark(r) \/ ExtraExits(r)
  BY <1>6 DEF CloseXray, CloseTaken, ClearMark, ExtraExits
<1>. QED
  BY <1>1, <1>2, <1>3, <1>4, <1>5, <1>6 DEF Lifecycle

\* ... and keeps no configuration but its own.
LEMMA LifecycleConfigures ==
  ASSUME TypeOK, NEW r \in Requests, Lifecycle(r)
  PROVE  \A s \in Requests \ {r} : cfg'[s] = cfg[s]
<1>. USE DEF TypeOK
<1>1. CASE \E c \in Configs : StartRefused(r, c) \/ StartAccepted(r, c)
  BY <1>1 DEF StartRefused, StartAccepted
<1>2. CASE StartExtra(r) \/ StartMark(r) \/ StartXray(r) \/ CreateEagerXray(r)
  BY <1>2 DEF StartExtra, StartMark, StartXray, CreateEagerXray
<1>3. CASE StartEagerXray(r) \/ StartFullGates(r) \/ CreateBox(r) \/ StartDns(r)
  BY <1>3, DnsMoves DEF StartEagerXray, StartFullGates, CreateBox
<1>4. CASE UnwindBox(r) \/ UnwindUnpublish(r) \/ StartFails(r) \/ StopIdle(r)
  BY <1>4 DEF UnwindBox, UnwindUnpublish, StartFails, StopIdle
<1>5. CASE Stop(r) \/ Unpublish(r) \/ CloseBox(r) \/ StopExtra(r)
  BY <1>5 DEF Stop, Unpublish, CloseBox, StopExtra
<1>6. CASE CloseXray(r) \/ CloseTaken(r) \/ ClearMark(r) \/ ExtraExits(r)
  BY <1>6 DEF CloseXray, CloseTaken, ClearMark, ExtraExits
<1>. QED
  BY <1>1, <1>2, <1>3, <1>4, <1>5, <1>6 DEF Lifecycle

LEMMA LifecycleOutside ==
  ASSUME NEW r \in Requests, Lifecycle(r)
  PROVE  UNCHANGED Outside
<1>1. CASE \E c \in Configs : StartRefused(r, c) \/ StartAccepted(r, c)
  BY <1>1 DEF StartRefused, StartAccepted
<1>2. CASE StartExtra(r) \/ StartMark(r) \/ StartXray(r) \/ CreateEagerXray(r)
  BY <1>2 DEF StartExtra, StartMark, StartXray, CreateEagerXray
<1>3. CASE StartEagerXray(r) \/ StartFullGates(r) \/ CreateBox(r) \/ StartDns(r)
  BY <1>3 DEF StartEagerXray, StartFullGates, CreateBox, StartDns
<1>4. CASE UnwindBox(r) \/ UnwindUnpublish(r) \/ StartFails(r) \/ StopIdle(r)
  BY <1>4 DEF UnwindBox, UnwindUnpublish, StartFails, StopIdle
<1>5. CASE Stop(r) \/ Unpublish(r) \/ CloseBox(r) \/ StopExtra(r)
  BY <1>5 DEF Stop, Unpublish, CloseBox, StopExtra
<1>6. CASE CloseXray(r) \/ CloseTaken(r) \/ ClearMark(r) \/ ExtraExits(r)
  BY <1>6 DEF CloseXray, CloseTaken, ClearMark, ExtraExits
<1>. QED
  BY <1>1, <1>2, <1>3, <1>4, <1>5, <1>6 DEF Lifecycle

LEMMA TestStep ==
  ASSUME TypeOK, TestInv, [Next]_vars
  PROVE  TestInv'
<1>1. ASSUME NEW r \in Requests, Lifecycle(r) PROVE TestInv'
  <2>1. UNCHANGED Outside /\ alive' \subseteq alive \cup {<<k, r>> : k \in Kinds}
    BY <1>1, LifecycleAdds, LifecycleOutside
  <2>. QED
    BY <2>1, CoreAssumption DEF TestInv, Outside
<1>2. ASSUME NEW t \in Tests, TestCurrent(t) \/ TestCurrentEnds(t) \/ TestSidecars(t) PROVE TestInv'
  BY <1>2 DEF TestCurrent, TestCurrentEnds, TestSidecars, Build, TestInv, TypeOK, lifecycleVars
<1>3. ASSUME NEW t \in Tests,
             TestBox(t) \/ TestEnds(t) \/ TestCloseSidecars(t) \/ TestBoxCloses(t)
      PROVE  TestInv'
  BY <1>3 DEF TestBox, TestEnds, TestCloseSidecars, TestBoxCloses, Build, TestInv, TypeOK
<1>4. CASE CallbackReads \/ UNCHANGED vars \/ \E i \in Interfaces : RouteMoves(i)
  BY <1>4 DEF CallbackReads, RouteMoves, vars, lifecycleVars, testVars, TestInv
<1>5. CASE \E x \in Instances : CallbackApplies(x) \/ GateWakes(x) \/ GateSleeps(x)
  BY <1>5 DEF CallbackApplies, GateWakes, GateSleeps, lifecycleVars, testVars, TestInv
<1>. QED
  BY <1>1, <1>2, <1>3, <1>4, <1>5 DEF Next, Testing

(***************************************************************************)
(* A box lives with the configuration it was built from.                   *)
(***************************************************************************)
LEMMA LiveStep ==
  ASSUME TypeOK, LockInv, CfgInv, LiveInv, [Next]_vars
  PROVE  LiveInv'
<1>. USE CoreAssumption DEF Goto, To, At, Labels, TypeOK, Kinds, Sidecars
<1>1. Beside => LiveInv'
  BY DEF Beside, SameAlive, LiveInv
<1>2. ASSUME NEW r \in Requests, ExtraExits(r) PROVE LiveInv'
  BY <1>2 DEF ExtraExits, LiveInv
<1>3. ASSUME NEW r \in Requests, Lifecycle(r), Alone(r) PROVE LiveInv'
  <2>. DEFINE Live(s) == <<"box", s>> \in alive => pc[s] \in {"dns", "unwindBox", "ok"} /\ cfg[s] # None
  <2>0. LiveInv /\ (LiveInv' <=> \A s \in Requests : Live(s)')
    BY DEF LiveInv
  <2>1. \A s \in Requests : s # r => Live(s)'
    <3>. SUFFICES ASSUME NEW s \in Requests, s # r PROVE Live(s)'
      OBVIOUS
    <3>1. alive' \subseteq alive \cup {<<k, r>> : k \in Kinds}
      BY <1>3, LifecycleAdds
    <3>2. pc'[s] = pc[s] /\ cfg'[s] = cfg[s]
      BY <1>3, LifecycleConfigures DEF Alone
    <3>. QED
      BY <2>0, <3>1, <3>2 DEF LiveInv
  <2>2. CASE \E c \in Configs : StartRefused(r, c) \/ StartAccepted(r, c)
    BY <2>2, <2>0 DEF StartRefused, StartAccepted, LiveInv
  <2>3. CASE StartExtra(r) \/ StartMark(r) \/ StartXray(r)
    BY <2>3, <2>0 DEF StartExtra, StartMark, StartXray, Build, LiveInv
  <2>4. CASE CreateEagerXray(r) \/ StartEagerXray(r) \/ StartFullGates(r)
    BY <2>4, <2>0 DEF CreateEagerXray, StartEagerXray, StartFullGates, Build, LiveInv
  <2>5. CASE CreateBox(r)
    BY <2>5, <2>0 DEF CreateBox, Build, LiveInv, CfgInv, Starting
  <2>6. CASE StartDns(r)
    BY <2>6, <2>0, DnsMoves DEF LiveInv
  <2>7. CASE UnwindBox(r) \/ UnwindUnpublish(r) \/ StartFails(r)
    BY <2>7, <2>0 DEF UnwindBox, UnwindUnpublish, StartFails, LiveInv
  <2>8. CASE StopIdle(r) \/ Stop(r) \/ Unpublish(r) \/ CloseBox(r)
    BY <2>8, <2>0 DEF StopIdle, Stop, Unpublish, CloseBox, LiveInv
  <2>9. CASE StopExtra(r) \/ CloseXray(r) \/ CloseTaken(r) \/ ClearMark(r)
    BY <2>9, <2>0 DEF StopExtra, StopExtraProcess, CloseXray, CloseTaken, ClearMark, LiveInv
  <2>10. CASE ExtraExits(r)
    BY <1>2, <2>10
  <2>11. \/ LiveInv' \/ Live(r)'
    BY <1>3, <2>2, <2>3, <2>4, <2>5, <2>6, <2>7, <2>8, <2>9, <2>10 DEF Lifecycle
  <2>. QED
    BY <2>0, <2>1, <2>11
<1>. QED
  BY <1>1, <1>2, <1>3, LifecycleAlone, BesideSteps

(***************************************************************************)
(* What the callback of the monitor may rely on: a request publishes only  *)
(* an instance that it bound, and binds it to the egress of this moment.   *)
(***************************************************************************)
LEMMA LifecycleBinds ==
  ASSUME TypeOK, NEW r \in Requests, Lifecycle(r), NEW x \in Instances, Bound(x)'
  PROVE  \/ egress'[x] = CurrentEgress /\ mark' = mark
         \/ Bound(x) /\ egress'[x] = egress[x]
<1>. PICK k \in Sidecars, q \in Requests : x = <<k, q>>
  BY DEF Instances
<1>. USE CoreAssumption DEF Bound, Unseen, Goto, To, At, Labels, TypeOK, Kinds, Sidecars, Instances
<1>1. CASE \E c \in Configs : StartRefused(r, c) \/ StartAccepted(r, c)
  BY <1>1 DEF StartRefused, StartAccepted
<1>2. CASE StartExtra(r) \/ StartMark(r)
  BY <1>2 DEF StartExtra, StartMark, Publish
<1>3. CASE StartXray(r)
  BY <1>3 DEF StartXray, SetXray, Cold, Owners
<1>4. CASE CreateEagerXray(r)
  BY <1>4 DEF CreateEagerXray
<1>5. CASE StartEagerXray(r)
  BY <1>5 DEF StartEagerXray, SetXray, Owners
<1>6. CASE StartFullGates(r)
  <2>1. \/ slot' = slot /\ egress' = egress
        \/ Publish("full", r) /\ Cold("full", r)
    BY <1>6 DEF StartFullGates
  <2>2. pc'[q] = "xrayStart" => pc[q] = "xrayStart"
    BY <1>6 DEF StartFullGates
  <2>3. CASE slot' = slot /\ egress' = egress
    BY <2>2, <2>3
  <2>4. CASE Publish("full", r) /\ Cold("full", r)
    <3>1. slot' = [slot EXCEPT !["full"] = r] /\ egress' = [egress EXCEPT ![<<"full", r>>] = None]
      BY <2>4 DEF Publish, Cold
    <3>2. x # <<"full", r>> /\ egress'[x] = egress[x]
      BY <3>1
    <3>3. k # "full" \/ q # r
      BY <3>2
    <3>4. slot'[k] = q => slot[k] = q
      BY <3>1, <3>3
    <3>. QED
      BY <2>2, <3>2, <3>4
  <2>. QED
    BY <2>1, <2>3, <2>4
<1>14. CASE CreateBox(r)
  <2>1. \A j \in Sidecars : slot'[j] = slot[j]
    BY <1>14 DEF CreateBox, Publish
  <2>2. pc'[q] = "xrayStart" => pc[q] = "xrayStart"
    BY <1>14 DEF CreateBox
  <2>3. egress' = egress
    BY <1>14 DEF CreateBox
  <2>. QED
    BY <2>1, <2>2, <2>3
<1>7. CASE StartDns(r)
  BY <1>7, DnsMoves
<1>8. CASE UnwindBox(r) \/ UnwindUnpublish(r) \/ StartFails(r)
  BY <1>8 DEF UnwindBox, UnwindUnpublish, StartFails, Publish
<1>9. CASE StopIdle(r) \/ Unpublish(r) \/ CloseBox(r) \/ StopExtra(r)
  BY <1>9 DEF StopIdle, Unpublish, CloseBox, StopExtra, StopExtraProcess, Publish
<1>10. CASE Stop(r)
  BY <1>10 DEF Stop
<1>11. CASE CloseXray(r)
  BY <1>11 DEF CloseXray, Owners
<1>12. CASE CloseTaken(r)
  BY <1>12 DEF CloseTaken
<1>13. CASE ClearMark(r) \/ ExtraExits(r)
  BY <1>13 DEF ClearMark, ExtraExits
<1>. QED
  BY <1>1, <1>2, <1>3, <1>4, <1>5, <1>6, <1>7, <1>8, <1>9, <1>10, <1>11, <1>12, <1>13,
     <1>14 DEF Lifecycle

\* Tests leave the instances of profiles and what leads to them alone.
LEMMA TestingApart ==
  ASSUME NEW t \in Tests, Testing(t)
  PROVE  UNCHANGED <<slot, pc, mark, overStarted, route, callback, egress>>
  BY DEF Testing, TestCurrent, TestCurrentEnds, TestSidecars, TestBox, TestEnds,
     TestCloseSidecars, TestBoxCloses, lifecycleVars, routeVars

LEMMA EgressStep ==
  ASSUME TypeOK, EgressInv, [Next]_vars
  PROVE  EgressInv'
<1>1. ASSUME NEW r \in Requests, Lifecycle(r) PROVE EgressInv'
  <2>1. route' = route /\ callback' = callback
    BY <1>1, LifecycleOutside DEF Outside
  <2>. QED
    BY <1>1, <2>1, LifecycleBinds DEF EgressInv, CurrentEgress
<1>2. ASSUME NEW t \in Tests, Testing(t) PROVE EgressInv'
  BY <1>2, TestingApart DEF EgressInv, Bound, Unseen, At
<1>3. ASSUME NEW i \in Interfaces, RouteMoves(i) PROVE EgressInv'
  BY <1>3 DEF RouteMoves, EgressInv, TypeOK
<1>4. ASSUME CallbackReads PROVE EgressInv'
  <2>1. /\ callback'.at # "called" /\ callback'.name = callback.name
        /\ callback'.targets = Followed /\ (callback'.at # "apply" => Followed = {})
        /\ callback'.missed = callback.missed \cup Unseen
        /\ callback.at = "called"
        /\ UNCHANGED <<slot, pc, route, egress>>
    BY <1>4 DEF CallbackReads, TypeOK, lifecycleVars
  <2>2. \A x \in Instances : Bound(x)' => x \in Followed \cup Unseen
    BY <2>1 DEF Bound, Followed, Unseen, At
  <2>. QED
    BY <2>1, <2>2 DEF EgressInv
<1>5. ASSUME NEW x \in Instances, CallbackApplies(x) PROVE EgressInv'
  <2>1. /\ callback'.missed = callback.missed /\ callback'.name = callback.name
        /\ callback'.targets = callback.targets \ {x} /\ callback.at = "apply"
        /\ callback'.at # "apply" => callback.targets = {x}
        /\ UNCHANGED <<slot, pc, route>>
    BY <1>5 DEF CallbackApplies, TypeOK, lifecycleVars
  <2>2. ASSUME NEW y \in Instances, Bound(y)'
        PROVE  \/ egress'[y].name = route' \/ y \in callback'.missed \/ y \in callback'.targets
    <3>1. CASE y = x /\ egress[x] # None
      BY <1>5, <2>1, <3>1 DEF CallbackApplies, EgressInv, TypeOK
    <3>2. CASE y # x \/ egress[x] = None
      <4>1. egress'[y] = egress[y]
        BY <1>5, <3>2 DEF CallbackApplies, TypeOK
      <4>2. Bound(y)
        BY <2>1, <2>2, <4>1 DEF Bound, Unseen, At
      <4>3. y # x
        BY <3>2, <4>2 DEF Bound
      <4>. QED
        BY <2>1, <4>1, <4>2, <4>3 DEF EgressInv
    <3>. QED
      BY <3>1, <3>2
  <2>. QED
    BY <2>1, <2>2 DEF EgressInv
<1>6. ASSUME NEW x \in Instances, GateWakes(x) \/ GateSleeps(x) PROVE EgressInv'
  <2>1. UNCHANGED <<slot, pc, route, callback>>
    BY <1>6 DEF GateWakes, GateSleeps, lifecycleVars, routeVars
  <2>2. ASSUME NEW y \in Instances, Bound(y)'
        PROVE  egress'[y].name = route \/ (Bound(y) /\ egress'[y] = egress[y])
    BY <1>6, <2>1, <2>2 DEF GateWakes, GateSleeps, CurrentEgress, Bound, Unseen, At, TypeOK
  <2>. QED
    BY <2>1, <2>2 DEF EgressInv
<1>7. UNCHANGED vars => EgressInv'
  BY DEF vars, EgressInv, Bound, Unseen, At
<1>. QED
  BY <1>1, <1>2, <1>3, <1>4, <1>5, <1>6, <1>7 DEF Next

-----------------------------------------------------------------------------
(* TidyInv, part by part.  Only a refusal sets overStarted. *)

Tidy == TypeOK /\ LockInv /\ CfgInv /\ StageInv /\ BuildInv /\ TakenInv /\ TidyInv

LEMMA NotOverStarted ==
  ASSUME NEW r \in Requests, Lifecycle(r), ~overStarted'
  PROVE  ~overStarted /\ \A c \in Configs : ~StartRefused(r, c)
<1>1. \A c \in Configs : ~StartRefused(r, c)
  BY DEF StartRefused
<1>2. (\E c \in Configs : StartAccepted(r, c)) => overStarted' = overStarted
  BY DEF StartAccepted
<1>3. (StartExtra(r) \/ StartMark(r) \/ StartXray(r) \/ CreateEagerXray(r)) => overStarted' = overStarted
  BY DEF StartExtra, StartMark, StartXray, CreateEagerXray
<1>4. StartEagerXray(r) \/ StartFullGates(r) \/ CreateBox(r) \/ StartDns(r) => overStarted' = overStarted
  BY DnsMoves DEF StartEagerXray, StartFullGates, CreateBox
<1>5. (UnwindBox(r) \/ UnwindUnpublish(r) \/ StartFails(r) \/ StopIdle(r)) => overStarted' = overStarted
  BY DEF UnwindBox, UnwindUnpublish, StartFails, StopIdle
<1>6. (Stop(r) \/ Unpublish(r) \/ CloseBox(r) \/ StopExtra(r)) => overStarted' = overStarted
  BY DEF Stop, Unpublish, CloseBox, StopExtra
<1>7. (CloseXray(r) \/ CloseTaken(r) \/ ClearMark(r) \/ ExtraExits(r)) => overStarted' = overStarted
  BY DEF CloseXray, CloseTaken, ClearMark, ExtraExits
<1>8. overStarted' = overStarted
  BY <1>1, <1>2, <1>3, <1>4, <1>5, <1>6, <1>7 DEF Lifecycle
<1>. QED
  BY <1>1, <1>8

(***************************************************************************)
(* A box that lives is published or in the hands of the Stop that took it. *)
(***************************************************************************)
LEMMA BoxOwnedStep ==
  ASSUME Tidy, ~overStarted', NEW r \in Requests, Lifecycle(r), Alone(r)
  PROVE  BoxOwned'
<1>1. BoxOwned /\ (pc[r] = "fail" => slot["box"] = None)
  BY NotOverStarted DEF Tidy, TidyInv
<1>2. TypeOK /\ StageInv /\ BuildInv
  BY DEF Tidy
<1>. SUFFICES ASSUME NEW s \in Requests, <<"box", s>> \in alive'
     PROVE  slot'["box"] = s \/ \E h \in Requests : pc'[h] = "closeBox" /\ taken'[h] = {<<"box", s>>}
  BY DEF BoxOwned
<1>. USE CoreAssumption DEF Goto, To, At, Labels, TypeOK, Kinds, Sidecars, Holding, Alone
\* A step that leaves the boxes, their slot and what was taken alone.
<1>3. ASSUME <<"box", s>> \in alive, slot'["box"] = slot["box"], pc[r] # "closeBox", taken' = taken
      PROVE  slot'["box"] = s \/ \E h \in Requests : pc'[h] = "closeBox" /\ taken'[h] = {<<"box", s>>}
  BY <1>1, <1>2, <1>3 DEF BoxOwned
<1>4. CASE \E c \in Configs : StartAccepted(r, c)
  BY <1>2, <1>3, <1>4 DEF StartAccepted
<1>5. CASE StartExtra(r) \/ StartMark(r)
  BY <1>2, <1>3, <1>5 DEF StartExtra, StartMark, Build, Publish
<1>6. CASE StartXray(r) \/ CreateEagerXray(r)
  BY <1>2, <1>3, <1>6 DEF StartXray, CreateEagerXray, Build, SetXray
<1>7. CASE StartEagerXray(r) \/ StartFullGates(r)
  BY <1>2, <1>3, <1>7 DEF StartEagerXray, StartFullGates, Build, Publish, SetXray
<1>8. CASE CreateBox(r)
  <2>1. pc[r] = "box" /\ slot["box"] = None
    BY <1>2, <1>8 DEF CreateBox, StageInv
  <2>2. \A h \in Requests : pc[h] # "closeBox"
    BY <2>1
  <2>3. \A q \in Requests : <<"box", q>> \notin alive
    BY <1>1, <2>1, <2>2 DEF BoxOwned, Owners
  <2>. QED
    BY <1>2, <1>8, <2>3 DEF CreateBox, Build, Publish
<1>9. CASE StartDns(r)
  BY <1>2, <1>3, <1>9, DnsMoves
<1>10. CASE UnwindBox(r)
  BY <1>2, <1>3, <1>10 DEF UnwindBox
<1>11. CASE UnwindUnpublish(r)
  <2>1. pc[r] = "unwindUnpublish" /\ slot["box"] = r /\ <<"box", r>> \notin alive /\ alive' = alive
    BY <1>2, <1>11 DEF UnwindUnpublish, StageInv, BuildInv
  <2>2. \A h \in Requests : pc[h] # "closeBox"
    BY <2>1
  <2>. QED
    BY <1>1, <2>1, <2>2 DEF BoxOwned
<1>12. CASE StartFails(r)
  BY <1>1, <1>2, <1>3, <1>12 DEF StartFails, Publish
<1>13. CASE StopIdle(r)
  BY <1>2, <1>3, <1>13 DEF StopIdle
<1>14. CASE Stop(r)
  BY <1>2, <1>3, <1>14 DEF Stop
<1>15. CASE Unpublish(r)
  <2>1. pc[r] = "unpublish" /\ alive' = alive /\ pc'[r] = "closeBox" /\ taken'[r] = {<<"box", slot["box"]>>}
    BY <1>2, <1>15 DEF Unpublish
  <2>2. \A h \in Requests : pc[h] # "closeBox"
    BY <2>1
  <2>. QED
    BY <1>1, <2>1, <2>2 DEF BoxOwned
<1>16. CASE CloseBox(r)
  <2>1. pc[r] = "closeBox" /\ slot["box"] = None /\ alive' = alive \ taken[r]
    BY <1>2, <1>16 DEF CloseBox, StageInv
  <2>2. \A h \in Requests : pc[h] = "closeBox" => h = r
    BY <2>1
  <2>. QED
    BY <1>1, <2>1, <2>2 DEF BoxOwned, Owners
<1>17. CASE StopExtra(r)
  BY <1>2, <1>3, <1>17 DEF StopExtra, StopExtraProcess
\* No box lives past the point where Stop and the unwinding leave it closed.
<1>18. ASSUME pc[r] \in {"closeXray", "closeTaken"} PROVE <<"box", s>> \notin alive
  <2>1. \A h \in Requests : pc[h] # "closeBox"
    BY <1>18
  <2>. QED
    BY <1>1, <1>2, <1>18, <2>1 DEF BoxOwned, StageInv, Owners
<1>19. CASE CloseXray(r)
  BY <1>18, <1>19 DEF CloseXray
<1>20. CASE CloseTaken(r)
  BY <1>18, <1>20 DEF CloseTaken
<1>21. CASE ClearMark(r)
  BY <1>2, <1>3, <1>21 DEF ClearMark
<1>22. CASE ExtraExits(r)
  BY <1>1, <1>22 DEF ExtraExits, BoxOwned
<1>. QED
  BY <1>4, <1>5, <1>6, <1>7, <1>8, <1>9, <1>10, <1>11, <1>12, <1>13, <1>14, <1>15, <1>16,
     <1>17, <1>19, <1>20, <1>21, <1>22, NotOverStarted DEF Lifecycle

(***************************************************************************)
(* A Start that has built no sidecar yet finds every pointer clear.        *)
(***************************************************************************)
LEMMA SlotsClear ==
  ASSUME TypeOK, StageInv, SlotsInUse, NEW r \in Requests, Alone(r),
         pc[r] \in {"extra", "mark", "xray", "xrayStart", "closeTaken", "clearMark"}
         \/ (pc[r] = "fail" /\ slot["box"] = None)
         \/ (pc[r] \notin Holding /\ slot["box"] = None)
  PROVE  \A k \in Sidecars : slot[k] = None
<1>. SUFFICES ASSUME NEW k \in Sidecars, slot[k] # None PROVE FALSE
  OBVIOUS
<1>1. slot["box"] = None
  BY DEF StageInv
<1>2. slot[k] \in Requests
  BY DEF TypeOK, Kinds
<1>3. \A h \in Requests : pc[h] \notin {"full", "box", "closeBox", "stopExtra", "closeXray"}
  BY DEF Alone, Holding, Labels
<1>. QED
  BY <1>1, <1>2, <1>3 DEF SlotsInUse

(***************************************************************************)
(* The mark changes where no instance of a profile is in reach.            *)
(***************************************************************************)
LEMMA MarkMoves ==
  ASSUME Tidy, ~overStarted', NEW r \in Requests, Lifecycle(r), Alone(r), NEW x \in Instances, Bound(x)'
  PROVE  mark' = mark
<1>. PICK k \in Sidecars, q \in Requests : x = <<k, q>>
  BY DEF Instances
<1>1. SlotsInUse /\ (pc[r] = "fail" => slot["box"] = None)
  BY NotOverStarted DEF Tidy, TidyInv
<1>2. TypeOK /\ StageInv
  BY DEF Tidy
<1>3. ASSUME StartMark(r) \/ StartFails(r) \/ ClearMark(r) PROVE FALSE
  <2>1. pc[r] \in {"mark", "fail", "clearMark"}
    BY <1>3 DEF StartMark, StartFails, ClearMark, Goto, At
  <2>2. slot[k] = None
    BY <1>1, <1>2, <2>1, SlotsClear
  <2>6. slot' = slot \/ slot' = [slot EXCEPT !["box"] = None]
    BY <1>3 DEF StartMark, StartFails, ClearMark, Publish
  <2>3. slot'[k] = None
    BY <1>2, <2>2, <2>6 DEF TypeOK, Sidecars, Kinds
  <2>4. pc[q] # "xrayStart"
    BY <2>1 DEF Alone, Holding, Labels
  <2>5. pc'[q] # "xrayStart"
    BY <1>2, <1>3, <2>4 DEF StartMark, StartFails, ClearMark, Goto, To, TypeOK
  <2>. QED
    BY <2>3, <2>5, CoreAssumption DEF Bound, Unseen, At, Owners
<1>4. CASE \E c \in Configs : StartAccepted(r, c)
  BY <1>4 DEF StartAccepted
<1>5. CASE StartExtra(r) \/ StartXray(r) \/ CreateEagerXray(r) \/ StartEagerXray(r)
  BY <1>5 DEF StartExtra, StartXray, CreateEagerXray, StartEagerXray
<1>6. CASE StartFullGates(r) \/ CreateBox(r) \/ StartDns(r)
  BY <1>6, DnsMoves DEF StartFullGates, CreateBox
<1>7. CASE UnwindBox(r) \/ UnwindUnpublish(r) \/ StopIdle(r) \/ Stop(r)
  BY <1>7 DEF UnwindBox, UnwindUnpublish, StopIdle, Stop
<1>8. CASE Unpublish(r) \/ CloseBox(r) \/ StopExtra(r)
  BY <1>8 DEF Unpublish, CloseBox, StopExtra
<1>9. CASE CloseXray(r) \/ CloseTaken(r) \/ ExtraExits(r)
  BY <1>9 DEF CloseXray, CloseTaken, ExtraExits
<1>. QED
  BY <1>3, <1>4, <1>5, <1>6, <1>7, <1>8, <1>9, NotOverStarted DEF Lifecycle

(***************************************************************************)
(* An instance carries the mark of its profile from the moment it is bound.*)
(***************************************************************************)
LEMMA CarriedStep ==
  ASSUME Tidy, CarriedInv, [Next]_vars
  PROVE  CarriedInv'
<1>. SUFFICES ASSUME ~overStarted', NEW x \in Instances, Bound(x)' PROVE egress'[x].marked = mark'
  BY DEF CarriedInv
<1>0. TypeOK
  BY DEF Tidy
<1>6. ASSUME NEW r \in Requests, ExtraExits(r) PROVE egress'[x].marked = mark'
  BY <1>6 DEF ExtraExits, CarriedInv, Bound, Unseen, At
<1>5. ASSUME NEW r \in Requests, Lifecycle(r) PROVE Alone(r) \/ ExtraExits(r)
  BY <1>5, LifecycleAlone DEF Tidy
<1>1. ASSUME NEW r \in Requests, Lifecycle(r), Alone(r) PROVE egress'[x].marked = mark'
  <2>1. ~overStarted /\ mark' = mark
    BY <1>1, NotOverStarted, MarkMoves
  <2>2. \/ egress'[x] = CurrentEgress
        \/ Bound(x) /\ egress'[x] = egress[x]
    BY <1>0, <1>1, LifecycleBinds
  <2>. QED
    BY <2>1, <2>2 DEF CurrentEgress, CarriedInv
<1>2. ASSUME NEW t \in Tests, Testing(t) PROVE egress'[x].marked = mark'
  BY <1>2, TestingApart DEF CarriedInv, Bound, Unseen, At
<1>3. CASE CallbackReads \/ UNCHANGED vars \/ \E i \in Interfaces : RouteMoves(i)
  BY <1>3 DEF CallbackReads, RouteMoves, vars, lifecycleVars, CarriedInv, Bound, Unseen, At
<1>4. ASSUME NEW y \in Instances, CallbackApplies(y) \/ GateWakes(y) \/ GateSleeps(y)
      PROVE  egress'[x].marked = mark'
  <2>1. UNCHANGED <<slot, pc, mark, overStarted>>
    BY <1>4 DEF CallbackApplies, GateWakes, GateSleeps, lifecycleVars
  <2>2. egress'[x].marked = mark \/ egress'[x] = egress[x]
    BY <1>0, <1>4 DEF CallbackApplies, GateWakes, GateSleeps, CurrentEgress, Bound, TypeOK
  <2>. QED
    BY <2>1, <2>2 DEF CarriedInv, Bound, Unseen, At
<1>. QED
  BY <1>1, <1>2, <1>3, <1>4, <1>5, <1>6, BesideSteps DEF Next, Tidy

(***************************************************************************)
(* A sidecar that lives is published, being started, or about to be closed.*)
(***************************************************************************)
LEMMA SidecarsOwnedStep ==
  ASSUME Tidy, ~overStarted', NEW r \in Requests, Lifecycle(r), Alone(r)
  PROVE  SidecarsOwned'
<1>1. SidecarsOwned /\ SlotsInUse
  BY NotOverStarted DEF Tidy, TidyInv
<1>2. TypeOK /\ StageInv
  BY DEF Tidy
<1>. DEFINE Held(k, s) == \/ slot[k] = s
                          \/ k = "xray" /\ pc[s] = "xrayStart"
                          \/ \E h \in Requests : pc[h] = "closeTaken" /\ <<k, s>> \in taken[h]
<1>. SUFFICES ASSUME NEW k \in Sidecars, NEW s \in Requests, <<k, s>> \in alive' PROVE Held(k, s)'
  BY DEF SidecarsOwned
<1>. USE CoreAssumption DEF Goto, To, At, Labels, TypeOK, Kinds, Sidecars, Holding, Alone
\* A step that leaves the sidecars, their slots and what was taken alone.
<1>3. ASSUME <<k, s>> \in alive, slot'[k] = slot[k], pc[r] \notin {"xrayStart", "closeTaken"}
      PROVE  Held(k, s)'
  BY <1>1, <1>2, <1>3 DEF SidecarsOwned
<1>4. CASE \E c \in Configs : StartAccepted(r, c)
  BY <1>2, <1>3, <1>4 DEF StartAccepted
<1>5. CASE StartExtra(r) \/ StartMark(r)
  BY <1>2, <1>3, <1>5 DEF StartExtra, StartMark, Build, Publish
<1>6. CASE StartXray(r)
  <2>1. pc[r] = "xray" /\ slot[k] = None
    BY <1>1, <1>2, <1>6, SlotsClear DEF StartXray
  <2>2. CASE alive' = alive /\ slot' = slot
    BY <1>3, <2>1, <2>2
  <2>3. CASE Build("gate", r) /\ SetXray("gate", r)
    <3>1. <<k, s>> = <<"gate", r>>
      <4>1. SUFFICES ASSUME <<k, s>> \in alive PROVE FALSE
        BY <2>3 DEF Build
      <4>. QED
        BY <1>1, <2>1, <4>1 DEF SidecarsOwned, Owners
    <3>. QED
      BY <1>2, <2>3, <3>1 DEF SetXray
  <2>. QED
    BY <1>6, <2>2, <2>3 DEF StartXray
<1>7. CASE CreateEagerXray(r)
  BY <1>2, <1>3, <1>7 DEF CreateEagerXray, Build
<1>8. CASE StartEagerXray(r)
  <2>1. pc[r] = "xrayStart" /\ slot[k] = None
    BY <1>1, <1>2, <1>8, SlotsClear DEF StartEagerXray
  <2>2. <<k, s>> \in alive
    BY <1>8 DEF StartEagerXray
  <2>3. <<k, s>> = <<"xray", r>>
    BY <1>1, <2>1, <2>2 DEF SidecarsOwned, Owners
  <2>. QED
    BY <1>2, <1>8, <2>3 DEF StartEagerXray, SetXray
<1>9. CASE StartFullGates(r)
  BY <1>1, <1>2, <1>3, <1>9 DEF StartFullGates, Build, Publish, SlotsInUse, SidecarsOwned, Owners
<1>10. CASE CreateBox(r)
  BY <1>2, <1>3, <1>10 DEF CreateBox, Build, Publish
<1>11. CASE StartDns(r)
  BY <1>2, <1>3, <1>11, DnsMoves
<1>12. CASE UnwindBox(r) \/ UnwindUnpublish(r)
  BY <1>2, <1>3, <1>12 DEF UnwindBox, UnwindUnpublish, Publish
<1>13. CASE StartFails(r)
  BY <1>2, <1>3, <1>13 DEF StartFails, Publish
<1>14. CASE StopIdle(r)
  BY <1>2, <1>3, <1>14 DEF StopIdle
<1>15. CASE Stop(r)
  BY <1>2, <1>3, <1>15 DEF Stop
<1>16. CASE Unpublish(r) \/ CloseBox(r)
  BY <1>2, <1>3, <1>16 DEF Unpublish, CloseBox, Publish
<1>17. CASE StopExtra(r)
  BY <1>2, <1>3, <1>17 DEF StopExtra, StopExtraProcess
<1>18. CASE CloseXray(r)
  <2>1. pc[r] = "closeXray" /\ <<k, s>> \in alive /\ pc'[r] = "closeTaken"
        /\ taken'[r] = {<<q, slot[q]>> : q \in LiveSlots}
    BY <1>2, <1>18 DEF CloseXray
  <2>2. slot[k] = s
    BY <1>1, <2>1 DEF SidecarsOwned
  <2>3. <<k, s>> \in taken'[r]
    BY <2>1, <2>2 DEF LiveSlots, Owners
  <2>. QED
    BY <2>1, <2>3
<1>19. CASE CloseTaken(r)
  <2>1. pc[r] = "closeTaken" /\ <<k, s>> \in alive /\ <<k, s>> \notin taken[r] /\ slot' = slot
    BY <1>2, <1>19 DEF CloseTaken
  <2>2. \A h \in Requests : pc[h] = "closeTaken" => h = r
    BY <2>1
  <2>3. pc[s] # "xrayStart"
    BY <2>1
  <2>. QED
    BY <1>1, <2>1, <2>2, <2>3 DEF SidecarsOwned
<1>20. CASE ClearMark(r)
  BY <1>2, <1>3, <1>20 DEF ClearMark
<1>22. CASE ExtraExits(r)
  BY <1>1, <1>22 DEF ExtraExits, SidecarsOwned
<1>. QED
  BY <1>4, <1>5, <1>6, <1>7, <1>8, <1>9, <1>10, <1>11, <1>12, <1>13, <1>14, <1>15, <1>16,
     <1>17, <1>18, <1>19, <1>20, <1>22, NotOverStarted DEF Lifecycle

(***************************************************************************)
(* A pointer to a sidecar is the box's, a Start's on its way to one, or is *)
(* about to be taken; a Start that opens full gates finds none open.       *)
(***************************************************************************)
LEMMA SlotsInUseStep ==
  ASSUME Tidy, ~overStarted', NEW r \in Requests, Lifecycle(r), Alone(r)
  PROVE  SlotsInUse'
<1>1. SlotsInUse /\ (pc[r] = "fail" => slot["box"] = None)
  BY NotOverStarted DEF Tidy, TidyInv
<1>2. TypeOK /\ StageInv
  BY DEF Tidy
<1>. USE CoreAssumption DEF Goto, To, At, Labels, TypeOK, Kinds, Sidecars, Holding, Alone
\* A step that leaves every pointer to a sidecar clear.
<1>3. ASSUME \A k \in Sidecars : slot'[k] = None PROVE SlotsInUse'
  BY <1>3 DEF SlotsInUse
\* A step that leaves the pointers alone on the way to taking them.
<1>4. ASSUME \A k \in Sidecars : slot'[k] = slot[k],
             pc'[r] \in {"closeBox", "stopExtra", "closeXray"}
      PROVE  SlotsInUse'
  BY <1>4 DEF SlotsInUse
<1>5. CASE \E c \in Configs : StartAccepted(r, c)
  BY <1>1, <1>2, <1>3, <1>5, SlotsClear DEF StartAccepted
<1>6. CASE StartExtra(r)
  BY <1>1, <1>2, <1>3, <1>6, SlotsClear DEF StartExtra, Publish
<1>7. CASE StartMark(r)
  BY <1>1, <1>2, <1>3, <1>7, SlotsClear DEF StartMark
<1>8. CASE StartXray(r)
  <2>1. \A k \in Sidecars : slot[k] = None
    BY <1>1, <1>2, <1>8, SlotsClear DEF StartXray
  <2>2. CASE slot' = slot
    BY <2>1, <2>2, <1>3
  <2>3. CASE SetXray("gate", r) /\ To(r, "full")
    BY <1>2, <1>8, <2>1, <2>3 DEF SetXray, SlotsInUse
  <2>. QED
    BY <1>8, <2>2, <2>3 DEF StartXray
<1>9. CASE CreateEagerXray(r)
  BY <1>1, <1>2, <1>3, <1>9, SlotsClear DEF CreateEagerXray
<1>10. CASE StartEagerXray(r)
  <2>1. \A k \in Sidecars : slot[k] = None
    BY <1>1, <1>2, <1>10, SlotsClear DEF StartEagerXray
  <2>2. CASE slot' = slot
    BY <2>1, <2>2, <1>3
  <2>3. CASE SetXray("xray", r) /\ To(r, "full")
    BY <1>2, <1>10, <2>1, <2>3 DEF SetXray, SlotsInUse
  <2>. QED
    BY <1>10, <2>2, <2>3 DEF StartEagerXray
<1>11. CASE StartFullGates(r)
  <2>1. \A k \in Sidecars : slot[k] \in {None, r}
    BY <1>1, <1>2, <1>11 DEF StartFullGates, SlotsInUse, StageInv
  <2>2. \A k \in Sidecars : slot'[k] \in {None, r}
    BY <1>2, <1>11, <2>1 DEF StartFullGates, Publish
  <2>3. pc'[r] \in {"box", "closeXray"}
    BY <1>2, <1>11 DEF StartFullGates
  <2>. QED
    BY <1>2, <1>11, <2>2, <2>3 DEF SlotsInUse
<1>12. CASE CreateBox(r)
  <2>1. \A k \in Sidecars : slot[k] \in {None, r} /\ slot'[k] = slot[k]
    BY <1>1, <1>2, <1>12 DEF CreateBox, Publish, SlotsInUse, StageInv
  <2>2. (pc'[r] = "dns" /\ slot'["box"] = r) \/ pc'[r] = "stopExtra"
    BY <1>2, <1>12 DEF CreateBox, Publish
  <2>. QED
    BY <1>2, <1>12, <2>1, <2>2 DEF SlotsInUse
<1>13. CASE StartDns(r)
  BY <1>1, <1>2, <1>13, DnsMoves DEF SlotsInUse
<1>14. CASE UnwindBox(r)
  BY <1>1, <1>2, <1>14 DEF UnwindBox, SlotsInUse
<1>15. CASE UnwindUnpublish(r)
  BY <1>2, <1>4, <1>15 DEF UnwindUnpublish, Publish
<1>16. CASE StartFails(r)
  <2>1. \A k \in Sidecars : slot[k] = None
    BY <1>1, <1>2, <1>16, SlotsClear DEF StartFails
  <2>. QED
    BY <1>2, <1>3, <1>16, <2>1 DEF StartFails, Publish
<1>17. CASE StopIdle(r)
  BY <1>1, <1>2, <1>3, <1>17, SlotsClear DEF StopIdle
<1>18. CASE Stop(r)
  <2>1. pc[r] = "idle" /\ pc'[r] = "unpublish" /\ slot' = slot
    BY <1>2, <1>18 DEF Stop
  <2>. QED
    BY <1>1, <1>2, <2>1 DEF SlotsInUse
<1>19. CASE Unpublish(r)
  BY <1>2, <1>4, <1>19 DEF Unpublish, Publish
<1>20. CASE CloseBox(r)
  BY <1>2, <1>4, <1>20 DEF CloseBox
<1>21. CASE StopExtra(r)
  BY <1>2, <1>4, <1>21 DEF StopExtra, StopExtraProcess
<1>22. CASE CloseXray(r)
  BY <1>2, <1>3, <1>22 DEF CloseXray
<1>23. CASE CloseTaken(r)
  BY <1>1, <1>2, <1>3, <1>23, SlotsClear DEF CloseTaken
<1>24. CASE ClearMark(r)
  BY <1>1, <1>2, <1>3, <1>24, SlotsClear DEF ClearMark
<1>25. CASE ExtraExits(r)
  BY <1>1, <1>25 DEF ExtraExits, SlotsInUse
<1>. QED
  BY <1>5, <1>6, <1>7, <1>8, <1>9, <1>10, <1>11, <1>12, <1>13, <1>14, <1>15, <1>16, <1>17,
     <1>18, <1>19, <1>20, <1>21, <1>22, <1>23, <1>24, <1>25, NotOverStarted DEF Lifecycle

(***************************************************************************)
(* The extra process that lives is the one its pointer names, unless the   *)
(* Start that launched it answered with an error.                          *)
(***************************************************************************)
LEMMA ExtraOwnedStep ==
  ASSUME Tidy, ~overStarted', NEW r \in Requests, Lifecycle(r), Alone(r)
  PROVE  ExtraOwned'
<1>1. ExtraOwned /\ (pc[r] = "fail" => slot["box"] = None)
  BY NotOverStarted DEF Tidy, TidyInv
<1>2. TypeOK /\ StageInv /\ CfgInv /\ TakenInv
  BY DEF Tidy
<1>. DEFINE Due(s) == \/ pc[s] = "error"
                      \/ /\ slot["extra"] = s
                         /\ \/ pc[s] \in Holding /\ cfg[s] # None
                            \/ slot["box"] = s
                            \/ \E h \in Requests : pc[h] \in {"closeBox", "stopExtra"}
<1>. SUFFICES ASSUME NEW s \in Requests, <<"extra", s>> \in alive' PROVE Due(s)'
  BY DEF ExtraOwned
<1>0. <<"extra", s>> \in alive => Due(s)
  BY <1>1 DEF ExtraOwned
<1>. USE CoreAssumption DEF Goto, To, At, Labels, TypeOK, Kinds, Sidecars, Holding, Alone
<1>3. CASE \E c \in Configs : StartAccepted(r, c)
  BY <1>0, <1>2, <1>3 DEF StartAccepted, Owners
<1>4. CASE StartExtra(r)
  <2>1. pc[r] = "extra" /\ slot["box"] = None /\ cfg'[r] # None /\ pc'[r] \in {"mark", "fail"}
    BY <1>2, <1>4 DEF StartExtra, StageInv, CfgInv, Starting
  <2>2. CASE <<"extra", s>> \in alive
    BY <1>0, <1>2, <1>4, <2>1, <2>2 DEF StartExtra, Publish, Owners
  <2>3. CASE <<"extra", s>> \notin alive
    BY <1>2, <1>4, <2>1, <2>3 DEF StartExtra, Publish, Build
  <2>. QED
    BY <2>2, <2>3
<1>5. CASE StartMark(r)
  BY <1>0, <1>2, <1>5 DEF StartMark
<1>6. CASE StartXray(r)
  BY <1>0, <1>2, <1>6 DEF StartXray, Build, SetXray
<1>7. CASE CreateEagerXray(r) \/ StartEagerXray(r)
  BY <1>0, <1>2, <1>7 DEF CreateEagerXray, StartEagerXray, Build, SetXray
<1>8. CASE StartFullGates(r)
  BY <1>0, <1>2, <1>8 DEF StartFullGates, Build, Publish
<1>9. CASE CreateBox(r)
  <2>1. pc[r] = "box" /\ slot["box"] = None /\ cfg[r] # None /\ <<"extra", s>> \in alive
    BY <1>2, <1>9 DEF CreateBox, StageInv, CfgInv, Starting, Build
  <2>. QED
    BY <1>0, <1>2, <1>9, <2>1 DEF CreateBox, Publish, Owners
<1>10. CASE StartDns(r)
  BY <1>0, <1>2, <1>10, DnsMoves DEF StageInv
<1>11. CASE UnwindBox(r) \/ UnwindUnpublish(r)
  BY <1>0, <1>2, <1>11 DEF UnwindBox, UnwindUnpublish, Publish, StageInv
<1>12. CASE StartFails(r)
  BY <1>0, <1>1, <1>2, <1>12 DEF StartFails, Publish, Owners
<1>13. CASE StopIdle(r)
  BY <1>0, <1>2, <1>13 DEF StopIdle
<1>14. CASE Stop(r)
  <2>1. pc[r] = "idle" /\ pc'[r] = "unpublish" /\ UNCHANGED <<slot, alive, cfg>>
    BY <1>2, <1>14 DEF Stop
  <2>. QED
    BY <1>0, <1>2, <2>1
<1>15. CASE Unpublish(r)
  <2>1. pc[r] = "unpublish" /\ pc'[r] = "closeBox" /\ alive' = alive /\ slot'["extra"] = slot["extra"]
    BY <1>2, <1>15 DEF Unpublish, Publish
  <2>. QED
    BY <1>0, <1>2, <2>1
<1>16. CASE CloseBox(r)
  BY <1>0, <1>2, <1>16 DEF CloseBox
<1>17. CASE StopExtra(r)
  BY <1>0, <1>2, <1>17 DEF StopExtra, StopExtraProcess
<1>18. CASE CloseXray(r)
  BY <1>0, <1>2, <1>18 DEF CloseXray
<1>19. CASE CloseTaken(r)
  <2>1. pc[r] = "closeTaken" /\ pc'[r] \in {"clearMark", "fail"} /\ UNCHANGED <<slot, cfg>>
        /\ <<"extra", s>> \in alive
    BY <1>2, <1>19 DEF CloseTaken
  <2>. QED
    BY <1>0, <1>2, <2>1
<1>20. CASE ClearMark(r)
  <2>1. pc[r] = "clearMark" /\ cfg[r] = None /\ slot["box"] = None /\ UNCHANGED <<slot, alive, cfg>>
    BY <1>2, <1>20 DEF ClearMark, CfgInv, StageInv
  <2>. QED
    BY <1>0, <1>2, <2>1 DEF Owners
<1>21. CASE ExtraExits(r)
  BY <1>0, <1>2, <1>21 DEF ExtraExits
<1>. QED
  BY <1>3, <1>4, <1>5, <1>6, <1>7, <1>8, <1>9, <1>10, <1>11, <1>12, <1>13, <1>14, <1>15,
     <1>16, <1>17, <1>18, <1>19, <1>20, <1>21, NotOverStarted DEF Lifecycle

LEMMA TidyStep ==
  ASSUME Tidy, [Next]_vars
  PROVE  TidyInv'
<1>1. ASSUME Beside PROVE TidyInv'
  BY <1>1 DEF Beside, SameAlive, Kinds, Sidecars, Tidy, TidyInv, BoxOwned, SidecarsOwned,
     ExtraOwned, SlotsInUse
<1>2. ASSUME NEW r \in Requests, ExtraExits(r) PROVE TidyInv'
  <2>1. UNCHANGED <<lock, pc, cfg, slot, taken, needUnset, overStarted>> /\ alive' \subseteq alive
    BY <1>2 DEF ExtraExits
  <2>. QED
    BY <2>1 DEF Tidy, TidyInv, BoxOwned, SidecarsOwned, ExtraOwned, SlotsInUse
<1>3. ASSUME NEW r \in Requests, Lifecycle(r), Alone(r), ~ExtraExits(r), ~overStarted'
      PROVE  /\ \A s \in Requests : pc'[s] = "fail" => slot'["box"] = None
             /\ needUnset' => lock' = None /\ slot'["box"] # None
  <2>1. ~overStarted /\ \A c \in Configs : ~StartRefused(r, c)
    BY <1>3, NotOverStarted
  <2>2. TypeOK /\ LockInv /\ StageInv /\ (needUnset => lock = None /\ slot["box"] # None)
    BY <2>1 DEF Tidy, TidyInv
  <2>. USE DEF Goto, To, At, Labels, TypeOK, Kinds, Sidecars, Holding, Alone
  <2>3. CASE CreateBox(r)
    BY <1>3, <2>2, <2>3, CoreAssumption DEF CreateBox, Publish, StageInv, LockInv, Owners
  <2>4. CASE StartDns(r)
    <3>1. pc[r] = "dns" /\ slot["box"] = r /\ slot' = slot /\ lock = r
      BY <2>2, <2>4, DnsMoves DEF StageInv, LockInv
    <3>2. \/ pc'[r] = "ok" /\ lock' = None
          \/ pc'[r] = "unwindBox" /\ needUnset' = needUnset
      BY <2>2, <2>4, DnsMoves
    <3>. QED
      BY <1>3, <2>2, <3>1, <3>2, CoreAssumption DEF Owners
  <2>5. CASE UnwindBox(r)
    BY <1>3, <2>2, <2>5, CoreAssumption DEF UnwindBox, LockInv, Owners
  <2>6. CASE Stop(r)
    <3>1. pc'[r] = "unpublish" /\ ~needUnset'
      BY <2>2, <2>6 DEF Stop
    <3>. QED
      BY <1>3, <3>1
  <2>7. ASSUME slot'["box"] = None, needUnset' = needUnset, lock = r \/ slot["box"] = None
        PROVE  (\A s \in Requests : pc'[s] = "fail" => slot'["box"] = None) /\ ~needUnset'
    BY <2>2, <2>7, CoreAssumption DEF Owners
  <2>8. CASE \E c \in Configs : StartAccepted(r, c)
    <3>1. slot'["box"] = None /\ needUnset' = needUnset /\ slot["box"] = None
      BY <2>8, <2>2, NoBox DEF StartAccepted
    <3>. QED
      BY <2>7, <3>1
  <2>9. CASE StopIdle(r)
    <3>1. slot'["box"] = None /\ needUnset' = needUnset /\ slot["box"] = None
      BY <2>9, <2>2, NoBox DEF StopIdle
    <3>. QED
      BY <2>7, <3>1
  <2>10. CASE StartExtra(r) \/ StartMark(r) \/ StartXray(r) \/ CreateEagerXray(r) \/ StartEagerXray(r)
    <3>1. slot'["box"] = None
      BY <2>2, <2>10, NoBox
    <3>2. needUnset' = needUnset /\ lock = r
      BY <2>2, <2>10 DEF StartExtra, StartMark, StartXray, CreateEagerXray, StartEagerXray, LockInv
    <3>. QED
      BY <2>7, <3>1, <3>2
  <2>11. CASE StartFullGates(r) \/ UnwindUnpublish(r) \/ StartFails(r) \/ Unpublish(r) \/ CloseBox(r)
    <3>1. slot'["box"] = None
      BY <2>2, <2>11, NoBox
    <3>2. needUnset' = needUnset /\ lock = r
      BY <2>2, <2>11 DEF StartFullGates, UnwindUnpublish, StartFails, Unpublish, CloseBox, LockInv
    <3>. QED
      BY <2>7, <3>1, <3>2
  <2>12. CASE StopExtra(r) \/ CloseXray(r) \/ CloseTaken(r) \/ ClearMark(r)
    <3>1. slot'["box"] = None
      BY <2>2, <2>12, NoBox
    <3>2. needUnset' = needUnset /\ lock = r
      BY <2>2, <2>12 DEF StopExtra, CloseXray, CloseTaken, ClearMark, LockInv
    <3>. QED
      BY <2>7, <3>1, <3>2
  <2>. QED
    BY <1>3, <2>1, <2>3, <2>4, <2>5, <2>6, <2>8, <2>9, <2>10, <2>11, <2>12 DEF Lifecycle
<1>4. ASSUME NEW r \in Requests, Lifecycle(r), Alone(r), ~ExtraExits(r) PROVE TidyInv'
  BY <1>3, <1>4, BoxOwnedStep, SidecarsOwnedStep, ExtraOwnedStep, SlotsInUseStep DEF TidyInv
<1>. QED
  BY <1>1, <1>2, <1>4, BesideSteps, LifecycleAlone DEF Tidy

-----------------------------------------------------------------------------
LEMMA CoreInit ==
  ASSUME Init
  PROVE  CoreInv
<1>1. TypeOK
  BY CoreAssumption DEF Init, TypeOK, Labels, TestLabels, Kinds, Sidecars, Owners
<1>2. LockInv /\ CfgInv /\ StageInv /\ BuildInv /\ TakenInv
  BY CoreAssumption DEF Init, LockInv, Holding, Labels, CfgInv, Starting, StageInv, BuildInv,
     TakenInv, Kinds, Sidecars, Owners
<1>3. BoxInv /\ TestInv /\ LiveInv /\ EgressInv /\ CarriedInv
  BY CoreAssumption DEF Init, BoxInv, TestInv, LiveInv, EgressInv, CarriedInv, Bound, Kinds,
     Sidecars, Owners
<1>4. MarkInv
  BY DEF Init, MarkInv, Kinds, Sidecars
<1>5. TidyInv
  BY DEF Init, TidyInv, BoxOwned, SidecarsOwned, ExtraOwned, SlotsInUse, Kinds, Sidecars
<1>. QED
  BY <1>1, <1>2, <1>3, <1>4, <1>5 DEF CoreInv

LEMMA CoreStep ==
  ASSUME CoreInv, [Next]_vars
  PROVE  CoreInv'
  BY TypeStep, LockStep, CfgStep, StageStep, BoxStep, BuildStep, TakenStep, MarkStep, TestStep,
     LiveStep, EgressStep, TidyStep, CarriedStep, Zenon DEF CoreInv, Tidy

(***************************************************************************)
(* Whatever requests, tests and route changes come, CoreInv holds.         *)
(***************************************************************************)
THEOREM CoreIsSound == Spec => []CoreInv
<1>1. Init => CoreInv
  BY CoreInit
<1>2. CoreInv /\ [Next]_vars => CoreInv'
  BY CoreStep
<1>. QED
  BY <1>1, <1>2, PTL DEF Spec

(***************************************************************************)
(* The variables of the core keep their types.                             *)
(***************************************************************************)
THEOREM CoreTypeCorrect == Spec => []TypeOK
<1>1. CoreInv => TypeOK
  BY DEF CoreInv
<1>. QED
  BY <1>1, CoreIsSound, PTL

(***************************************************************************)
(* A published box runs with exactly what its configuration asked for,     *)
(* whatever requests failed or were refused before it.                     *)
(***************************************************************************)
THEOREM ProfilesAreComplete == Spec => []ProfileComplete
<1>1. CoreInv => ProfileComplete
  BY DEF CoreInv, BoxInv, Served, Kept, ProfileComplete
<1>. QED
  BY <1>1, CoreIsSound, PTL

(***************************************************************************)
(* No step of a teardown closes a sidecar before the box that dials it.    *)
(***************************************************************************)
THEOREM SidecarsGoLast == Spec => []SidecarsOutliveBox
<1>1. ASSUME CoreInv, ~overStarted, NEW r \in Requests, <<"box", r>> \in alive
      PROVE  Served(r)
  <2>1. BoxOwned /\ BoxInv /\ TakenInv
    BY <1>1 DEF CoreInv, TidyInv
  <2>2. CASE slot["box"] = r
    BY <2>1, <2>2 DEF BoxInv
  <2>3. CASE \E h \in Requests : pc[h] = "closeBox" /\ taken[h] = {<<"box", r>>}
    <3>1. PICK h \in Requests : pc[h] = "closeBox" /\ taken[h] = {<<"box", r>>}
      BY <2>3
    <3>2. PICK b \in Requests : taken[h] = {<<"box", b>>} /\ Served(b)
      BY <2>1, <3>1 DEF TakenInv
    <3>3. <<"box", b>> \in {<<"box", r>>}
      BY <3>1, <3>2
    <3>4. b = r
      BY <3>3
    <3>. QED
      BY <3>2, <3>4
  <2>. QED
    BY <1>1, <2>1, <2>2, <2>3 DEF BoxOwned
<1>2. CoreInv => SidecarsOutliveBox
  BY <1>1 DEF SidecarsOutliveBox, Served, Kept
<1>. QED
  BY <1>2, CoreIsSound, PTL

(***************************************************************************)
(* Between requests everything that lives has a pointer to it, but for the *)
(* extra process of a Start that failed; without a profile the mark, the   *)
(* resolver and the sidecars are gone.                                     *)
(***************************************************************************)
THEOREM NothingIsLeftBehind == Spec => []NothingLeaks
<1>1. ASSUME CoreInv, lock = None, ~overStarted
      PROVE  /\ \A k \in Kinds, r \in Requests : <<k, r>> \in alive =>
                  slot[k] = r \/ (k = "extra" /\ pc[r] = "error")
             /\ slot["box"] = None => ~mark /\ ~needUnset /\ LiveSlots = {}
  <2>1. \A r \in Requests : pc[r] \notin Holding
    BY <1>1, CoreAssumption DEF CoreInv, LockInv, Owners
  <2>2. BoxOwned /\ SidecarsOwned /\ ExtraOwned /\ SlotsInUse /\ MarkInv /\ TypeOK
        /\ (needUnset => slot["box"] # None)
    BY <1>1 DEF CoreInv, TidyInv
  <2>3. ASSUME NEW k \in Kinds, NEW r \in Requests, <<k, r>> \in alive
        PROVE  slot[k] = r \/ (k = "extra" /\ pc[r] = "error")
    BY <2>1, <2>2, <2>3 DEF BoxOwned, SidecarsOwned, ExtraOwned, Kinds, Holding, Labels
  <2>4. slot["box"] = None => ~mark /\ ~needUnset
    BY <1>1, <2>2 DEF MarkInv
  <2>5. ASSUME slot["box"] = None, NEW k \in Sidecars PROVE slot[k] = None
    <3>1. slot[k] \in Requests \cup {None}
      BY <2>2 DEF TypeOK, Kinds
    <3>. QED
      BY <2>1, <2>2, <2>5, <3>1 DEF SlotsInUse, Holding, Labels
  <2>. QED
    BY <2>3, <2>4, <2>5 DEF LiveSlots
<1>2. ASSUME CoreInv PROVE \A t \in Tests : test[t] = "replied" => <<"xray", t>> \notin alive
  BY <1>2 DEF CoreInv, TestInv
<1>3. CoreInv => NothingLeaks
  BY <1>1, <1>2 DEF NothingLeaks
<1>. QED
  BY <1>3, CoreIsSound, PTL

(***************************************************************************)
(* With nothing in progress the published instances, eager or behind a     *)
(* gate, are bound to the default route, unless it moved before they were  *)
(* published, and carry the mark of the profile.                           *)
(***************************************************************************)
THEOREM EgressStaysOnRoute == Spec => []EgressFollowsRoute
<1>1. ASSUME CoreInv PROVE EgressFollowsRoute
  <2>1. EgressInv /\ CarriedInv
    BY <1>1 DEF CoreInv
  <2>2. SUFFICES ASSUME callback.at = "idle", NEW x \in Instances, Bound(x)
                PROVE  /\ egress[x].name = route \/ x \in callback.missed
                       /\ ~overStarted => egress[x].marked = mark
    BY DEF EgressFollowsRoute, Bound
  <2>. QED
    BY <2>1, <2>2 DEF EgressInv, CarriedInv
<1>. QED
  BY <1>1, CoreIsSound, PTL

(***************************************************************************)
(* A test built between requests is marked only over a live TUN, and over  *)
(* every live one until a second Start is refused.                         *)
(***************************************************************************)
THEOREM TestsFollowTun == Spec => TestCarriesMarkIffTunUp
<1>. DEFINE Told(t) == (testMark'[t] => TunUp) /\ (TunUp /\ ~overStarted => testMark'[t])
            Step == \A t \in Tests : TestBegins(t) =>
                       /\ testMark'[t] => TunUp
                       /\ TunUp /\ ~overStarted => testMark'[t]
<1>1. ASSUME CoreInv, [Next]_vars, NEW t \in Tests, TestBegins(t)
      PROVE  Told(t)
  <2>1. TypeOK /\ MarkInv
    BY <1>1 DEF CoreInv
  <2>2. ~\E r \in Requests : Lifecycle(r)
    BY <1>1, <2>1, LifecycleAdds, CoreAssumption DEF TestBegins
  <2>3. ~(CallbackReads \/ UNCHANGED vars \/ \E i \in Interfaces : RouteMoves(i))
    BY <1>1 DEF TestBegins, CallbackReads, RouteMoves, vars, lifecycleVars
  <2>9. ~\E x \in Instances : CallbackApplies(x) \/ GateWakes(x) \/ GateSleeps(x)
    BY <1>1 DEF TestBegins, CallbackApplies, GateWakes, GateSleeps, lifecycleVars
  <2>4. PICK s \in Tests : Testing(s)
    BY <1>1, <2>2, <2>3, <2>9 DEF Next
  <2>5. ~(TestCurrent(s) \/ TestCurrentEnds(s) \/ TestBox(s) \/ TestEnds(s)
            \/ TestCloseSidecars(s) \/ TestBoxCloses(s))
    BY <1>1 DEF TestBegins, TestCurrent, TestCurrentEnds, TestBox, TestEnds, TestCloseSidecars,
       TestBoxCloses, Build, lifecycleVars
  <2>6. TestSidecars(s)
    BY <2>4, <2>5 DEF Testing
  <2>7. s = t /\ testMark'[t] = mark
    BY <1>1, <2>1, <2>6 DEF TestBegins, TestSidecars, Build, TypeOK
  <2>8. mark <=> slot["box"] # None /\ AutoRedirectMark(cfg[slot["box"]])
    BY <1>1, <2>1 DEF TestBegins, MarkInv
  \* The published box lives ...
  <2>10. mark => TunUp
    <3>. SUFFICES ASSUME mark PROVE TunUp
      OBVIOUS
    <3>1. PICK b \in Requests : b = slot["box"]
      BY <2>1, <2>8 DEF TypeOK, Kinds
    <3>2. pc[b] \notin Holding
      BY <1>1, CoreAssumption DEF CoreInv, LockInv, TestBegins, Owners
    <3>3. <<"box", b>> \in alive /\ cfg[b] # None
      BY <1>1, <3>1, <3>2 DEF CoreInv, BoxInv, Holding, Labels
    <3>. QED
      BY <2>8, <3>1, <3>3 DEF TunUp
  \* ... and nothing else does while no Start was refused.
  <2>11. TunUp /\ ~overStarted => mark
    <3>. SUFFICES ASSUME TunUp, ~overStarted PROVE mark
      OBVIOUS
    <3>1. PICK b \in Requests : <<"box", b>> \in alive /\ AutoRedirectMark(cfg[b])
      BY DEF TunUp
    <3>2. \A h \in Requests : pc[h] # "closeBox"
      BY <1>1, CoreAssumption DEF CoreInv, LockInv, TestBegins, Owners, Holding, Labels
    <3>3. slot["box"] = b
      BY <1>1, <3>1, <3>2 DEF CoreInv, TidyInv, BoxOwned
    <3>. QED
      BY <2>8, <3>1, <3>3, CoreAssumption DEF Owners
  <2>. QED
    BY <2>7, <2>10, <2>11
<1>2. CoreInv /\ [Next]_vars => [Step]_vars
  <2>. SUFFICES ASSUME CoreInv, [Next]_vars PROVE Step
    OBVIOUS
  <2>. QED
    BY <1>1
<1>. QED
  BY <1>2, CoreIsSound, PTL DEF Spec, TestCarriesMarkIffTunUp
=============================================================================
