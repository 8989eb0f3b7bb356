-------------------------------- MODULE SystemDns --------------------------------
(***************************************************************************)
(* The resolvers of Windows: core/internal/boxdns/dns_manager_windows.go,  *)
(* the monitor that drives it (monitor.go), the request SetSystemDNS       *)
(* (core/server_windows.go) and the two calls of winipcfg it makes.        *)
(*                                                                         *)
(* Every process of the core, those of latency tests too, has a monitor    *)
(* that works on the same interfaces.  Requests and the callbacks of the   *)
(* monitor run on goroutines of their own and share dnsIsSet and lastIfc   *)
(* without a lock.  Each call of the system and each access to a shared    *)
(* variable is one step of a goroutine.  What a core wrote into an         *)
(* interface outlives it.  SetInterfaceDnsSettings is the one call it is   *)
(* since Windows 10 1809; the netsh commands that stand in for it on older *)
(* systems are not modelled.                                               *)
(***************************************************************************)
EXTENDS Naturals, Sequences

CONSTANTS
    Cores,        \* processes of the core
    Interfaces,
    Resolvers,    \* the IPv4 addresses of resolvers that are not the core's
    Resolvers6,   \* the IPv6 addresses of resolvers
    Manual,       \* the IPv4 resolvers the owner wrote into each interface; none means DHCP
    Offered,      \* the IPv4 resolvers DHCP offers on each interface
    Six,          \* the IPv6 resolvers of each interface, which the core never writes
    SixFirst,     \* the interfaces on which Windows lists IPv6 first
    Requests,     \* goroutines of requests, in each core
    MaxSteps,     \* bound: requests, moves of the default route, ends of a core
    MaxFaults,    \* bound: calls of the system that fail
    None

Local == "127.1.1.1"      \* localAddr
DhcpMark == "127.1.2.3"   \* dhcpMarkAddr
SetMark == "127.3.2.1"    \* setMarkAddr
Marks == {DhcpMark, SetMark}

ASSUME SystemDnsAssumption ==
    /\ Resolvers \cap (Marks \cup {Local}) = {}
    /\ Resolvers6 \cap (Resolvers \cup Marks \cup {Local}) = {}
    /\ Manual \in [Interfaces -> Seq(Resolvers)] /\ Offered \in [Interfaces -> Seq(Resolvers)]
    /\ Six \in [Interfaces -> Seq(Resolvers6)] /\ SixFirst \subseteq Interfaces
    /\ MaxSteps \in Nat /\ MaxFaults \in Nat
    /\ None \notin Interfaces /\ None \notin Seq(Resolvers \cup Resolvers6 \cup Marks \cup {Local})
    /\ "monitor" \notin Requests

Tasks == Cores \X (Requests \cup {"monitor"})
Core(g) == g[1]
Monitor(c) == <<c, "monitor">>

VARIABLES
    written,  \* the resolvers written into each interface, NameServer of the registry
    default,  \* the interface of the default route, or None
    running,  \* the cores that run
    dnsIsSet, \* the cores whose dnsIsSet is set
    lastIfc,  \* lastIfc of each core
    task,     \* what each goroutine has before it, a sequence of [do, ifc]
    seen,     \* the resolvers each goroutine read for its first piece of work, or None
    dhcp,     \* how far isIfcDNSDhcp got for it, and its answer
    raced,    \* whether two goroutines, or two cores, were at work at once since
              \* none was running
    misread,  \* whether isIfcDNSDhcp failed, or was overtaken between its two looks
    steps,    \* bound: requests, moves and ends so far
    faults    \* bound: failed calls so far

vars == <<written, default, running, dnsIsSet, lastIfc, task, seen, dhcp, raced, misread,
          steps, faults>>

-----------------------------------------------------------------------------
(* Lists of resolvers *)

\* The list without the members of S.
Without(servers, S) ==
    LET kept[n \in 0 .. Len(servers)] ==
            IF n = 0 THEN <<>>
            ELSE IF servers[n] \in S THEN kept[n - 1]
            ELSE Append(kept[n - 1], servers[n])
    IN  kept[Len(servers)]

Own(servers) == Without(servers, Marks)

\* The servers of the family AF_INET (SetDNS).
Four(servers) == Without(servers, Resolvers6)

\* LUID.DNS asks for both families.
DNS(i) ==
    LET four == IF written[i] = <<>> THEN Offered[i] ELSE written[i]
    IN  IF i \in SixFirst THEN Six[i] \o four ELSE four \o Six[i]

WasSet(servers) == \E k \in DOMAIN servers : servers[k] \in Marks

\* The mark that was read last decides.
WasDhcp(servers) ==
    LET marks == {k \in DOMAIN servers : servers[k] \in Marks}
    IN  marks # {} /\ servers[CHOOSE k \in marks : \A l \in marks : l <= k] = DhcpMark

\* Mutant: the address of the core is not taken out again.
UnpointedNot(servers) == Own(servers)

\* The list without what the core adds to it, if that leads the list.
Unpointed(servers) ==
    IF WasSet(servers) /\ Own(servers) # <<>> /\ Head(Own(servers)) = Local
    THEN Tail(Own(servers)) ELSE Own(servers)

Pointed(servers, by_dhcp) ==
    <<Local>> \o Unpointed(servers) \o <<IF by_dhcp THEN DhcpMark ELSE SetMark>>

-----------------------------------------------------------------------------
(* One piece of work: setSystemDNS or restoreSystemDNS *)

Job(do, i) == [do |-> do, ifc |-> i]
First(g) == Head(task[g])
Busy(g) == task[g] # <<>>
Works(g, kinds) == Busy(g) /\ First(g).do \in kinds

Fault == faults < MaxFaults /\ faults' = faults + 1

\* The goroutine is through with its first piece of work.
Done(g) ==
    /\ task' = [task EXCEPT ![g] = Tail(@)]
    /\ seen' = [seen EXCEPT ![g] = None]
    /\ dhcp' = [dhcp EXCEPT ![g] = "unasked"]

\* LUID.DNS; a failure ends this piece of work.
ReadDns(g) ==
    /\ Works(g, {"set", "restore"}) /\ seen[g] = None
    /\ \/ seen' = [seen EXCEPT ![g] = DNS(First(g).ifc)] /\ UNCHANGED <<task, dhcp, faults>>
       \/ Fault /\ Done(g)
    /\ UNCHANGED <<written, default, running, dnsIsSet, lastIfc, raced, misread, steps>>

Marked(i) == \E k \in DOMAIN DNS(i) : DNS(i)[k] = DhcpMark

Asked(g, answer) == dhcp' = [dhcp EXCEPT ![g] = answer]

\* isIfcDNSDhcp, first look: the mark; a failure counts as no.
AskMark(g) ==
    /\ Works(g, {"set"}) /\ seen[g] # None /\ dhcp[g] = "unasked"
    /\ \/ /\ Asked(g, IF Marked(First(g).ifc) THEN "dhcp" ELSE "unmarked")
          /\ UNCHANGED <<faults, misread>>
       \/ Fault /\ misread' = TRUE /\ Asked(g, "manual")
    /\ UNCHANGED <<written, default, running, dnsIsSet, lastIfc, task, seen, raced, steps>>

\* Second look: the registry.  A key that does not open counts as no, a value
\* that is not read as yes.  By now another goroutine may have pointed the
\* interface at its core.
AskRegistry(g) ==
    /\ Works(g, {"set"}) /\ dhcp[g] = "unmarked"
    /\ \/ /\ Asked(g, IF written[First(g).ifc] = <<>> THEN "dhcp" ELSE "manual")
          /\ misread' = (misread \/ Marked(First(g).ifc))
          /\ UNCHANGED faults
       \/ Fault /\ misread' = TRUE /\ \E a \in {"dhcp", "manual"} : Asked(g, a)
    /\ UNCHANGED <<written, default, running, dnsIsSet, lastIfc, task, seen, raced, steps>>

\* LUID.SetDNS for AF_INET: one call, which takes the IPv4 servers.
Write(i, servers) ==
    \/ written' = [written EXCEPT ![i] = Four(servers)] /\ UNCHANGED faults
    \/ Fault /\ UNCHANGED written

Set(g) ==
    /\ Works(g, {"set"}) /\ dhcp[g] \in {"dhcp", "manual"}
    /\ Write(First(g).ifc, Pointed(seen[g], dhcp[g] = "dhcp" \/ WasDhcp(seen[g])))
    /\ Done(g)
    /\ UNCHANGED <<default, running, dnsIsSet, lastIfc, raced, misread, steps>>

Restore(g) ==
    /\ Works(g, {"restore"}) /\ seen[g] # None
    /\ IF ~WasSet(seen[g]) THEN UNCHANGED <<written, faults>>
       ELSE Write(First(g).ifc, IF WasDhcp(seen[g]) THEN <<>> ELSE Unpointed(seen[g]))
    /\ Done(g)
    /\ UNCHANGED <<default, running, dnsIsSet, lastIfc, raced, misread, steps>>

-----------------------------------------------------------------------------
(* HandleSystemDNS and SetSystemDNS *)

Step == steps < MaxSteps /\ steps' = steps + 1

Monitors == {Monitor(c) : c \in running}

\* The default route moves, or is gone, and the monitors call back one move
\* after the other.
RouteMoves(i) ==
    /\ i # default /\ Step
    /\ default' = i
    /\ task' = [g \in Tasks |-> IF g \in Monitors THEN Append(task[g], Job("handle", i))
                                ELSE task[g]]
    /\ raced' = (raced \/ \E g \in Tasks \ Monitors : Busy(g))
    /\ UNCHANGED <<written, running, dnsIsSet, lastIfc, seen, dhcp, misread, faults>>

\* HandleSystemDNS, first half: the flag decides what is done to the interface.
Handle(c) ==
    LET m == Monitor(c)
        i == First(m).ifc
    IN  /\ Works(m, {"handle"})
        /\ task' = [task EXCEPT ![m] =
               (IF i = None THEN <<>>
                ELSE <<Job(IF c \in dnsIsSet THEN "set" ELSE "restore", i), Job("last", i)>>)
               \o Tail(@)]
        /\ UNCHANGED <<written, default, running, dnsIsSet, lastIfc, seen, dhcp, raced, misread,
                       steps, faults>>

\* Mutant: the interface that was left is not looked at.
HandleLastNot(c) ==
    /\ Works(Monitor(c), {"last"})
    /\ Done(Monitor(c))
    /\ UNCHANGED <<written, default, running, dnsIsSet, lastIfc, raced, misread, steps, faults>>

\* What a request of the core is about to keep as lastIfc.
Keeping(c) == {First(g).ifc : g \in {h \in Tasks : Core(h) = c /\ Works(h, {"keep"})}}

\* Second half: the interface of the last request is restored when it was left.
\* lastIfc is read again for that, and may have been replaced since.
HandleLast(c) ==
    LET m == Monitor(c)
    IN  /\ Works(m, {"last"})
        /\ IF lastIfc[c] \in {None, First(m).ifc} THEN task' = [task EXCEPT ![m] = Tail(@)]
           ELSE \E left \in {lastIfc[c]} \cup Keeping(c) :
                    task' = [task EXCEPT ![m] = <<Job("restore", left)>> \o Tail(@)]
        /\ UNCHANGED <<written, default, running, dnsIsSet, lastIfc, seen, dhcp, raced, misread,
                       steps, faults>>

\* SetSystemDNS reads the default interface; without one it answers an error and
\* does nothing.
SetSystemDNS(g, clear) ==
    /\ Core(g) \in running /\ g \notin Monitors /\ ~Busy(g)
    /\ default # None /\ Step
    /\ task' = [task EXCEPT ![g] =
           IF clear THEN <<Job("unflag", default), Job("restore", default)>>
           ELSE <<Job("flag", default), Job("keep", default), Job("set", default)>>]
    /\ raced' = (raced \/ \E other \in Tasks : Busy(other))
    /\ UNCHANGED <<written, default, running, dnsIsSet, lastIfc, seen, dhcp, misread, faults>>

Flag(g) ==
    /\ Works(g, {"flag", "unflag"})
    /\ dnsIsSet' = IF First(g).do = "flag" THEN dnsIsSet \cup {Core(g)} ELSE dnsIsSet \ {Core(g)}
    /\ Done(g)
    /\ UNCHANGED <<written, default, running, lastIfc, raced, misread, steps, faults>>

Keep(g) ==
    /\ Works(g, {"keep"})
    /\ lastIfc' = [lastIfc EXCEPT ![Core(g)] = First(g).ifc]
    /\ Done(g)
    /\ UNCHANGED <<written, default, running, dnsIsSet, raced, misread, steps, faults>>

\* The core ends, whatever its goroutines are at.
Ends(c) ==
    /\ c \in running /\ Step
    /\ running' = running \ {c}
    /\ dnsIsSet' = dnsIsSet \ {c} /\ lastIfc' = [lastIfc EXCEPT ![c] = None]
    /\ raced' = (raced /\ running' # {})
    /\ task' = [g \in Tasks |-> IF Core(g) = c THEN <<>> ELSE task[g]]
    /\ seen' = [g \in Tasks |-> IF Core(g) = c THEN None ELSE seen[g]]
    /\ dhcp' = [g \in Tasks |-> IF Core(g) = c THEN "unasked" ELSE dhcp[g]]
    /\ UNCHANGED <<written, default, misread, faults>>

\* init of the package: the monitor starts and reports the default interface.
Starts(c) ==
    /\ c \notin running
    /\ running' = running \cup {c}
    /\ raced' = (raced \/ running # {})
    /\ task' = [task EXCEPT ![Monitor(c)] = <<Job("handle", default)>>]
    /\ UNCHANGED <<written, default, dnsIsSet, lastIfc, seen, dhcp, misread, steps, faults>>

Init ==
    /\ written = Manual
    /\ default \in Interfaces \cup {None}
    /\ running = {} /\ dnsIsSet = {} /\ raced = FALSE /\ misread = FALSE
    /\ lastIfc = [c \in Cores |-> None]
    /\ task = [g \in Tasks |-> <<>>]
    /\ seen = [g \in Tasks |-> None] /\ dhcp = [g \in Tasks |-> "unasked"]
    /\ steps = 0 /\ faults = 0

Next ==
    \/ \E g \in Tasks : \/ ReadDns(g) \/ AskMark(g) \/ AskRegistry(g) \/ Set(g) \/ Restore(g)
                        \/ Flag(g) \/ Keep(g)
                        \/ \E clear \in BOOLEAN : SetSystemDNS(g, clear)
    \/ \E i \in Interfaces \cup {None} : RouteMoves(i)
    \/ \E c \in Cores : Handle(c) \/ HandleLast(c) \/ Ends(c) \/ Starts(c)

Spec == Init /\ [][Next]_vars

-----------------------------------------------------------------------------
(* Properties *)

Given(i) == IF Manual[i] = <<>> THEN Offered[i] ELSE Manual[i]

\* The two configurations an interface may have: the owner's and the core's.
AsFound(i)  == written[i] = Manual[i]
PointsAt(i) == written[i] = Pointed(Given(i), Manual[i] = <<>>)

\* The interfaces on which an IPv6 resolver leads the list, where the address of
\* the core is not found again.
Front == {i \in SixFirst : Six[i] # <<>>}

\* Unless isIfcDNSDhcp failed or was overtaken, whatever requests, callbacks,
\* failed calls and ends of the cores interleave, an interface has the IPv4
\* resolvers of its owner or those of a core over them, each once and with the
\* mark that tells DHCP from manual: so it can always be put back.  Where IPv6
\* leads, an interface with DHCP can still be given back to DHCP; one that was set
\* by hand cannot, and is not spoken of (setSystemDNS, restoreSystemDNS).
NothingOfTheOwnerIsLost ==
    ~misread => \A i \in Interfaces :
        /\ i \notin Front => AsFound(i) \/ PointsAt(i)
        /\ i \in Front /\ Manual[i] = <<>> => written[i] = <<>> \/ WasDhcp(DNS(i))

Idle == \A g \in Tasks : ~Busy(g)

\* The interface of the default route is as was asked of core c, and the interface
\* of the last request is the owner's again when the route left it for another.
Wanted(c) ==
    default \notin Front \cup {None} => IF c \in dnsIsSet THEN PointsAt(default) ELSE AsFound(default)
LeftAlone(c) ==
    default # None /\ lastIfc[c] \notin Front \cup {None, default} => AsFound(lastIfc[c])

\* For a core that ran alone, whose requests and callbacks did not overlap and
\* whose calls did not fail: the interface of the default route points at it
\* exactly while that was asked for, also after a core that ended without clearing
\* up, and the interface of the last request is put back when the route left it.
\* Interfaces on which IPv6 leads are not spoken of, nor those the route only
\* passed on its way from the interface of the last request: nobody restores them
\* (HandleSystemDNS, SetSystemDNS).
PointsWhereAsked ==
    Idle /\ ~raced /\ ~misread /\ faults = 0 => \A c \in running : Wanted(c) /\ LeftAlone(c)

-----------------------------------------------------------------------------
(* The inductive invariant *)

Addresses == Resolvers \cup Resolvers6 \cup Marks \cup {Local}
Kinds == {"set", "restore", "last", "flag", "unflag", "keep"}
Jobs == [do : {"handle"}, ifc : Interfaces \cup {None}] \cup [do : Kinds, ifc : Interfaces]

TypeOK ==
    /\ written \in [Interfaces -> Seq(Addresses)] /\ default \in Interfaces \cup {None}
    /\ running \subseteq Cores /\ dnsIsSet \subseteq running
    /\ raced \in BOOLEAN /\ misread \in BOOLEAN
    /\ lastIfc \in [Cores -> Interfaces \cup {None}]
    /\ task \in [Tasks -> Seq(Jobs)]
    /\ seen \in [Tasks -> Seq(Addresses) \cup {None}]
    /\ dhcp \in [Tasks -> {"unasked", "unmarked", "dhcp", "manual"}]
    /\ steps \in Nat /\ faults \in Nat

\* What was read belongs to a piece of work that reads, isIfcDNSDhcp is asked
\* last, and nothing of a core is left when it ended.
ReadInv ==
    /\ \A g \in Tasks : seen[g] # None => Works(g, {"set", "restore"})
    /\ \A g \in Tasks : dhcp[g] # "unasked" => seen[g] # None
    /\ \A g \in Tasks : Busy(g) => Core(g) \in running

\* What is read of an interface in its two configurations.
FoundList(i) == Given(i) \o Six[i]
CoreList(i)  == Pointed(Given(i), Manual[i] = <<>>) \o Six[i]

\* What a goroutine read is one of the two, however late it writes.
SeenOf(g) ==
    LET i == First(g).ifc
    IN  /\ seen[g] # None =>
             /\ i \notin Front => seen[g] \in {FoundList(i), CoreList(i)}
             /\ i \in Front /\ Manual[i] = <<>> /\ WasSet(seen[g]) => WasDhcp(seen[g])
        /\ dhcp[g] = "manual" => Manual[i] # <<>>
        /\ dhcp[g] = "dhcp" /\ i \notin Front => Manual[i] = <<>>

SeenInv == ~misread => \A g \in Tasks : SeenOf(g)

AloneInv ==
    ~raced => /\ \A g, h \in Tasks : Busy(g) /\ Busy(h) => g = h
              /\ \A c, d \in running : c = d

\* What an undisturbed request still has to do.
RequestPlan(g) ==
    LET c == Core(g)
    IN  /\ default # None
        /\ \/ task[g] = <<Job("flag", default), Job("keep", default), Job("set", default)>>
           \/ task[g] = <<Job("keep", default), Job("set", default)>> /\ c \in dnsIsSet
           \/ task[g] = <<Job("set", default)>> /\ c \in dnsIsSet /\ lastIfc[c] = default
           \/ task[g] = <<Job("unflag", default), Job("restore", default)>> /\ LeftAlone(c)
           \/ task[g] = <<Job("restore", default)>> /\ c \notin dnsIsSet /\ LeftAlone(c)

\* The last move of the route is still to be handled.
Pending(plan) == plan # <<>> /\ plan[Len(plan)] = Job("handle", default)

\* What the undisturbed callback still has to do, and what it has done.
MonitorPlan(c) ==
    LET do == IF c \in dnsIsSet THEN "set" ELSE "restore"
        plan == task[Monitor(c)]
    IN  \/ Pending(plan)
        \/ /\ default # None
           /\ \/ plan = <<Job(do, default), Job("last", default)>>
              \/ plan = <<Job("last", default)>> /\ Wanted(c)
              \/ /\ plan = <<Job("restore", lastIfc[c])>> /\ Wanted(c)
                 /\ lastIfc[c] \notin {None, default}

Plan(g) == IF g \in Monitors THEN MonitorPlan(Core(g)) ELSE RequestPlan(g)

PlanInv ==
    ~raced /\ ~misread /\ faults = 0 =>
        /\ \A g \in Tasks : seen[g] # None => seen[g] = DNS(First(g).ifc)
        /\ \A g \in Tasks : Busy(g) => Plan(g)
        /\ Idle => \A c \in running : Wanted(c) /\ LeftAlone(c)

DnsInv ==
    /\ TypeOK /\ ReadInv /\ AloneInv
    /\ NothingOfTheOwnerIsLost /\ SeenInv /\ PlanInv
=============================================================================
