------------------------------- MODULE Library -------------------------------
(***************************************************************************)
(* The client's library of servers (crates/store) under the hands of the   *)
(* interface (crates/app/src/ui, state.rs) and the events of the engine.   *)
(*                                                                         *)
(* The interface reads and writes the store at once; what takes time goes  *)
(* to the engine as a command, runs in its loop or in a task of its own,   *)
(* and comes back as an event, with the row id that was current when the   *)
(* command was sent.  A server is its fingerprint; its name is left out.   *)
(* Measurements are abstracted to the server they were made at, and the    *)
(* traffic of a row to the servers it came from.  Rows of a group are      *)
(* listed in the order of their ids: every insertion gives the highest id  *)
(* and the highest display_order of its group.                             *)
(***************************************************************************)
EXTENDS Integers, Sequences, FiniteSets, SequencesExt

CONSTANTS
    Servers,   \* fingerprints
    MaxGroups, \* bound: groups, the default one included
    Lists,     \* what a subscription may bring
    Budgets,   \* bound: how often the user and the traffic poll do what
    None

Ids    == Nat \ {0}
Groups == 1 .. MaxGroups
Modes  == {"proxy", "vpn"}
Spent  == {"connect", "test", "fetch", "add", "delete", "switch", "traffic"}

\* A row, or negative: the auto selection of a whole group.
Targets == Int

Row == [gid : Groups, server : Servers, latency : Servers \cup {None},
        traffic : SUBSET Servers]

\* of: the rows and servers a command was sent for; n tells tests apart.
Command == [op : {"connect", "disconnect", "test", "speed", "fetch"},
            id : Targets, of : SUBSET (Ids \X Servers), mode : Modes, n : Nat]

ASSUME LibraryAssumption ==
    /\ IsFiniteSet(Servers) /\ None \notin Servers
    /\ None \notin Command
    /\ MaxGroups \in Nat \ {0}
    /\ Lists \subseteq Seq(Servers)
    /\ Budgets \subseteq [Spent -> Nat]

VARIABLES
    rows,      \* the table profiles
    groups,    \* the table groups
    current,   \* State.current_gid
    selected,  \* State.selected_id
    mode,      \* settings.mode
    status,    \* State.status: the id is 0 unless connected
    testing,   \* Window.testing
    commands,  \* the engine's command channel
    serving,   \* the connect command the loop awaits
    running,   \* the connect command whose core runs
    tasks,     \* tests and downloads under way
    events,    \* the engine's event channel
    left,      \* what is left of the budget
    overtaken, \* history: a row was removed that a command or event still names
    missed,    \* history: the mode changed and no connect command carried it yet
    twice      \* history: a latency test reported its end twice

uiVars     == <<current, selected, mode, status, testing>>
engineVars == <<serving, running, tasks>>
ghosts     == <<overtaken, missed, twice>>
vars == <<rows, groups, uiVars, commands, engineVars, events, left, ghosts>>

Statuses == [k : {"off", "connecting", "connected"}, id : Targets]

Event == [e : {"status"}, status : Statuses]
    \cup [e : {"traffic"}, from : SUBSET Servers]
    \cup [e : {"result"}, id : Ids, server : Servers]
    \cup [e : {"finished"}]
    \cup [e : {"subscription"}, gid : Groups, list : Lists]

TypeOK ==
    /\ DOMAIN rows \subseteq Ids
    /\ \A id \in DOMAIN rows : rows[id] \in Row /\ rows[id].gid \in groups
    /\ groups \subseteq Groups
    /\ current \in groups
    /\ selected \in Targets
    /\ mode \in Modes
    /\ status \in Statuses
    /\ testing \in BOOLEAN
    /\ commands \in Seq(Command)
    /\ serving \in Command \cup {None}
    /\ running \in Command \cup {None}
    /\ tasks \subseteq Command
    /\ events \in Seq(Event)
    /\ left \in [Spent -> Nat]
    /\ overtaken \in BOOLEAN
    /\ missed \in BOOLEAN
    /\ twice \in BOOLEAN

Off == [k |-> "off", id |-> 0]

\* A first launch: an empty database.
Init ==
    /\ rows = <<>>
    /\ groups = {1}
    /\ current = 1
    /\ selected = 0
    /\ mode = "proxy"
    /\ status = Off
    /\ testing = FALSE
    /\ commands = <<>>
    /\ serving = None
    /\ running = None
    /\ tasks = {}
    /\ events = <<>>
    /\ left \in Budgets
    /\ overtaken = FALSE
    /\ missed = FALSE
    /\ twice = FALSE

-----------------------------------------------------------------------------
(* The store *)

InGroup(g) == {id \in DOMAIN rows : rows[id].gid = g}

\* SQLite gives a new row the highest id in use plus one.
NextId(ids) == Max(ids \cup {0}) + 1

NewRow(g, s) == [gid |-> g, server |-> s, latency |-> None, traffic |-> {}]

RowsBut(ids) == [id \in DOMAIN rows \ ids |-> rows[id]]

\* kept, followed by the rows of the sequence new.
Refilled(kept, new) ==
    LET first == NextId(DOMAIN kept)
        fresh == first .. first + Len(new) - 1
    IN  [id \in DOMAIN kept \cup fresh |->
            IF id \in fresh THEN new[id - first + 1] ELSE kept[id]]

insert_profile(g, s) == Refilled(rows, <<NewRow(g, s)>>)

\* Mutant: history is carried over by place.
ReplaceByPlace(g, list) ==
    LET olds == SetToSortSeq(InGroup(g), <)
    IN  Refilled(RowsBut(InGroup(g)), [i \in DOMAIN list |->
            IF i \in DOMAIN olds THEN [rows[olds[i]] EXCEPT !.server = list[i]]
                                 ELSE NewRow(g, list[i])])

\* Mutant: the group is read after its rows were deleted.
ReplaceForgets(g, list) ==
    Refilled(RowsBut(InGroup(g)), [i \in DOMAIN list |-> NewRow(g, list[i])])

\* The group's rows are replaced; a server that was there before keeps the history
\* of its first row.
replace_group_profiles(g, list) ==
    LET Same(s) == {id \in InGroup(g) : rows[id].server = s}
    IN  Refilled(RowsBut(InGroup(g)), [i \in DOMAIN list |->
            IF Same(list[i]) = {} THEN NewRow(g, list[i]) ELSE rows[Min(Same(list[i]))]])

\* The rows that commands and events under way will be applied to.
NamedBy(c) == IF c.op = "connect" THEN {c.id} ELSE {p[1] : p \in c.of}

Named ==
    {status.id}
    \cup (UNION {NamedBy(c) : c \in tasks \cup Range(commands)
                                      \cup ({serving, running} \ {None})})
    \cup {ev.id : ev \in {x \in Range(events) : x.e = "result"}}
    \cup {ev.status.id : ev \in {x \in Range(events) : x.e = "status"}}

Removes(ids) == overtaken' = (overtaken \/ ids \cap Named # {})

-----------------------------------------------------------------------------
(* Helpers *)

Spend(k) == left[k] > 0 /\ left' = [left EXCEPT ![k] = @ - 1]

Send(op, id, of) ==
    commands' = Append(commands, [op |-> op, id |-> id, of |-> of, mode |-> mode',
                                  n |-> IF op \in {"test", "speed"} THEN left["test"] ELSE 0])

Emit(ev) == events' = Append(events, ev)

Pairs(ids) == {<<id, rows[id].server>> : id \in ids}

\* selected_profile() or auto_selected() has something to connect.
Selectable == selected < 0 \/ selected \in DOMAIN rows

\* connect_selected with the settings as they are after the step.
connect_selected ==
    /\ Send("connect", selected,
            Pairs(IF selected < 0 THEN InGroup(-selected) ELSE {selected}))
    /\ missed' = FALSE

-----------------------------------------------------------------------------
(* The interface *)

\* The list: the auto selection stands above two rows or more.
Listed ==
    InGroup(current) \cup (IF Cardinality(InGroup(current)) > 1 THEN {-current} ELSE {})

SelectRow(id) ==
    /\ selected' = id
    /\ UNCHANGED <<rows, groups, current, mode, status, testing, commands, engineVars, events,
                   left, ghosts>>

SwitchGroup(g) ==
    /\ g \in groups \ {current}
    /\ current' = g
    /\ UNCHANGED <<rows, groups, selected, mode, status, testing, commands, engineVars, events,
                   left, ghosts>>

\* A link pasted into the dialog.
AddLink(s) ==
    /\ Spend("add")
    /\ rows' = insert_profile(current, s)
    /\ UNCHANGED <<groups, uiVars, commands, engineVars, events, ghosts>>

AddSubscription ==
    /\ Spend("fetch")
    /\ NextId(groups) \in Groups
    /\ groups' = groups \cup {NextId(groups)}
    /\ current' = NextId(groups)
    /\ mode' = mode
    /\ Send("fetch", -NextId(groups), {})
    /\ UNCHANGED <<rows, selected, status, testing, engineVars, events, ghosts>>

\* Every group but the default one is a subscription here.
UpdateSubscription ==
    /\ current # 1
    /\ Spend("fetch")
    /\ mode' = mode
    /\ Send("fetch", -current, {})
    /\ UNCHANGED <<rows, groups, current, selected, status, testing, engineVars, events,
                   ghosts>>

\* The row menu, which keeps the id of the row it was opened at and selected.
DeleteSelected ==
    /\ selected > 0
    /\ Spend("delete")
    /\ rows' = RowsBut({selected})
    /\ selected' = 0
    /\ Removes({selected})
    /\ UNCHANGED <<groups, current, mode, status, testing, commands, engineVars, events,
                   missed, twice>>

\* Mutant: the flag is not looked at.
StartTestAgain ==
    /\ InGroup(current) # {}
    /\ Spend("test")
    /\ testing' = TRUE
    /\ mode' = mode
    /\ Send("test", 0, Pairs(InGroup(current)))
    /\ UNCHANGED <<rows, groups, current, selected, status, engineVars, events, ghosts>>

\* A second click while testing sends StopTest, which only calls the running core.
StartTest ==
    /\ ~testing
    /\ InGroup(current) # {}
    /\ Spend("test")
    /\ testing' = TRUE
    /\ mode' = mode
    /\ Send("test", 0, Pairs(InGroup(current)))
    /\ UNCHANGED <<rows, groups, current, selected, status, engineVars, events, ghosts>>

StartSpeedTest ==
    /\ selected \in DOMAIN rows
    /\ Spend("test")
    /\ mode' = mode
    /\ Send("speed", selected, Pairs({selected}))
    /\ UNCHANGED <<rows, groups, current, selected, status, testing, engineVars, events, ghosts>>

\* The button is insensitive while connecting.
ConnectButton ==
    /\ status.k # "connecting"
    /\ Spend("connect")
    /\ mode' = mode
    /\ IF status.k = "connected"
         THEN Send("disconnect", 0, {}) /\ UNCHANGED missed
         ELSE Selectable /\ connect_selected
    /\ UNCHANGED <<rows, groups, current, selected, status, testing, engineVars, events,
                   overtaken, twice>>

\* A double click, whatever the status is.
ActivateRow ==
    /\ selected \in Listed
    /\ Spend("connect")
    /\ mode' = mode
    /\ connect_selected
    /\ UNCHANGED <<rows, groups, current, selected, status, testing, engineVars, events,
                   overtaken, twice>>

\* Mutant: the settings are cloned before they change.
SwitchModeLate(m) ==
    /\ m # mode
    /\ Spend("switch")
    /\ mode' = m
    /\ IF status.k = "connected" /\ Selectable
         THEN /\ commands' = Append(commands, [op |-> "connect", id |-> selected,
                     of |-> Pairs(IF selected < 0 THEN InGroup(-selected) ELSE {selected}),
                     mode |-> mode, n |-> 0])
              /\ missed' = FALSE
         ELSE missed' = TRUE /\ UNCHANGED commands
    /\ UNCHANGED <<rows, groups, current, selected, status, testing, engineVars, events,
                   overtaken, twice>>

\* The switch in the header: only a connection that is up is rebuilt, to whatever is
\* selected.
SwitchMode(m) ==
    /\ m # mode
    /\ Spend("switch")
    /\ mode' = m
    /\ IF status.k = "connected" /\ Selectable
         THEN connect_selected
         ELSE missed' = TRUE /\ UNCHANGED commands
    /\ UNCHANGED <<rows, groups, current, selected, status, testing, engineVars, events,
                   overtaken, twice>>

-----------------------------------------------------------------------------
(* The engine: its loop, as far as the interface sees it, and its tasks *)

Take(ops) ==
    /\ serving = None
    /\ commands # <<>>
    /\ Head(commands).op \in ops
    /\ commands' = Tail(commands)

TakeConnect ==
    /\ Take({"connect"})
    /\ serving' = Head(commands)
    /\ running' = None
    /\ Emit([e |-> "status", status |-> [k |-> "connecting", id |-> 0]])
    /\ UNCHANGED <<rows, groups, uiVars, tasks, left, ghosts>>

Connected ==
    /\ serving # None
    /\ serving.of # {}
    /\ running' = serving
    /\ serving' = None
    /\ Emit([e |-> "status", status |-> [k |-> "connected", id |-> serving.id]])
    /\ UNCHANGED <<rows, groups, uiVars, commands, tasks, left, ghosts>>

ConnectFails ==
    /\ serving # None
    /\ serving' = None
    /\ Emit([e |-> "status", status |-> Off])
    /\ UNCHANGED <<rows, groups, uiVars, commands, running, tasks, left, ghosts>>

TakeDisconnect ==
    /\ Take({"disconnect"})
    /\ running' = None
    /\ Emit([e |-> "status", status |-> Off])
    /\ UNCHANGED <<rows, groups, uiVars, serving, tasks, left, ghosts>>

TakeTask ==
    /\ Take({"test", "speed", "fetch"})
    /\ tasks' = tasks \cup {Head(commands)}
    /\ UNCHANGED <<rows, groups, uiVars, serving, running, events, left, ghosts>>

\* The poll: bytes that went through the running core.
PollTraffic ==
    /\ serving = None /\ running # None
    /\ Spend("traffic")
    /\ Emit([e |-> "traffic", from |-> {p[2] : p \in running.of}])
    /\ UNCHANGED <<rows, groups, uiVars, commands, engineVars, ghosts>>

\* The poll: the core is gone.
PollExited ==
    /\ serving = None /\ running # None
    /\ running' = None
    /\ Emit([e |-> "status", status |-> Off])
    /\ UNCHANGED <<rows, groups, uiVars, commands, serving, tasks, left, ghosts>>

\* A latency test answers for all its tags, fails before it asks its core, or fails in
\* asking, which test_latency and its caller report both.  In which order the results come
\* makes no difference: each names its row.
TestAnswers(t) ==
    /\ t.op = "test"
    /\ tasks' = tasks \ {t}
    /\ LET finished == <<[e |-> "finished"]>> IN
       \/ /\ events' = events \o SetToSeq({[e |-> "result", id |-> p[1], server |-> p[2]] :
                                            p \in t.of}) \o finished
          /\ UNCHANGED twice
       \/ events' = events \o finished /\ UNCHANGED twice
       \/ events' = events \o finished \o finished /\ twice' = TRUE
    /\ UNCHANGED <<rows, groups, uiVars, commands, serving, running, left, overtaken, missed>>

\* A speed test that fails is only reported.
SpeedAnswers(t) ==
    /\ t.op = "speed"
    /\ tasks' = tasks \ {t}
    /\ \/ UNCHANGED events
       \/ \E p \in t.of : Emit([e |-> "result", id |-> p[1], server |-> p[2]])
    /\ UNCHANGED <<rows, groups, uiVars, commands, serving, running, left, ghosts>>

FetchAnswers(t) ==
    /\ t.op = "fetch"
    /\ tasks' = tasks \ {t}
    /\ \/ UNCHANGED events
       \/ \E list \in Lists : Emit([e |-> "subscription", gid |-> -t.id, list |-> list])
    /\ UNCHANGED <<rows, groups, uiVars, commands, serving, running, left, ghosts>>

-----------------------------------------------------------------------------
(* apply_event *)

Received(kind) ==
    /\ events # <<>>
    /\ Head(events).e = kind
    /\ events' = Tail(events)

ApplyStatus ==
    /\ Received("status")
    /\ status' = Head(events).status
    /\ UNCHANGED <<rows, groups, current, selected, mode, testing, commands, engineVars, left,
                   ghosts>>

\* What is credited is the row the interface shows as connected; auto selection has none.
ApplyTraffic ==
    /\ Received("traffic")
    /\ rows' = [id \in DOMAIN rows |-> IF id = status.id
                  THEN [rows[id] EXCEPT !.traffic = @ \cup Head(events).from] ELSE rows[id]]
    /\ UNCHANGED <<groups, uiVars, commands, engineVars, left, ghosts>>

ApplyResult ==
    /\ Received("result")
    /\ rows' = [id \in DOMAIN rows |-> IF id = Head(events).id
                  THEN [rows[id] EXCEPT !.latency = Head(events).server] ELSE rows[id]]
    /\ UNCHANGED <<groups, uiVars, commands, engineVars, left, ghosts>>

ApplyFinished ==
    /\ Received("finished")
    /\ testing' = FALSE
    /\ UNCHANGED <<rows, groups, current, selected, mode, status, commands, engineVars, left,
                   ghosts>>

apply_subscription ==
    /\ Received("subscription")
    /\ rows' = replace_group_profiles(Head(events).gid, Head(events).list)
    /\ Removes(InGroup(Head(events).gid))
    /\ UNCHANGED <<groups, uiVars, commands, engineVars, left, missed, twice>>

-----------------------------------------------------------------------------
Interface ==
    \/ \E id \in Listed : SelectRow(id)
    \/ \E g \in Groups : SwitchGroup(g)
    \/ \E s \in Servers : AddLink(s)
    \/ AddSubscription \/ UpdateSubscription \/ DeleteSelected
    \/ StartTest \/ StartSpeedTest
    \/ ConnectButton \/ ActivateRow
    \/ \E m \in Modes : SwitchMode(m)

Engine ==
    \/ TakeConnect \/ Connected \/ ConnectFails \/ TakeDisconnect \/ TakeTask
    \/ PollTraffic \/ PollExited
    \/ \E t \in tasks : TestAnswers(t) \/ SpeedAnswers(t) \/ FetchAnswers(t)

Apply ==
    ApplyStatus \/ ApplyTraffic \/ ApplyResult \/ ApplyFinished \/ apply_subscription

Next == Interface \/ Engine \/ Apply

Spec == Init /\ [][Next]_vars

-----------------------------------------------------------------------------
(* Properties *)

(***************************************************************************)
(* The latency and traffic of a row were measured at its own server,       *)
(* however commands, events and changes of the list interleave, unless a   *)
(* row was removed while a command or event still named it: then its id    *)
(* may have gone to another server.                                        *)
(***************************************************************************)
HistoryIsOwn ==
    ~overtaken => \A id \in DOMAIN rows :
        rows[id].latency \in {rows[id].server, None} /\ rows[id].traffic \subseteq {rows[id].server}

(***************************************************************************)
(* "Servers matching by fingerprint retain their accumulated latency and   *)
(* traffic": a subscription update leaves the group with the servers it    *)
(* brought, each with the history a row of that server had or with none if *)
(* there was no such row, and touches no other group.                      *)
(***************************************************************************)
HistoryOf(row) == <<row.latency, row.traffic>>

Updated(g, list) ==
    LET now == {id \in DOMAIN rows' : rows'[id].gid = g} IN
    /\ RowsBut(InGroup(g)) = [id \in DOMAIN rows' \ now |-> rows'[id]]
    /\ Cardinality(now) = Len(list)
    /\ {rows'[id].server : id \in now} = Range(list)
    /\ \A id \in now :
        LET same == {old \in InGroup(g) : rows[old].server = rows'[id].server} IN
        HistoryOf(rows'[id]) \in IF same = {} THEN {<<None, {}>>}
                                 ELSE {HistoryOf(rows[old]) : old \in same}

HistoryKept ==
    [][\A g \in Groups, list \in Lists :
        events # <<>> /\ events' = Tail(events)
        /\ Head(events) = [e |-> "subscription", gid |-> g, list |-> list]
        => Updated(g, list)]_vars

(***************************************************************************)
(* While the interface shows a test, one is queued, under way or about to  *)
(* report its end, so the button never stays behind; and there is exactly  *)
(* one then and none otherwise, so no second one is started, unless a test *)
(* reported its end twice.                                                 *)
(***************************************************************************)
Queued   == {i \in DOMAIN commands : commands[i].op = "test"}
UnderWay == {t \in tasks : t.op = "test"}
Ended    == {i \in DOMAIN events : events[i].e = "finished"}

LatencyTests == Cardinality(Queued) + Cardinality(UnderWay) + Cardinality(Ended)

TestingTells ==
    /\ testing => LatencyTests > 0
    /\ ~twice => LatencyTests = IF testing THEN 1 ELSE 0

(***************************************************************************)
(* Once everything sent has been served and everything reported has been   *)
(* shown, a connection that is shown exists, is the one shown, and runs in *)
(* the mode the switch shows, unless the switch was moved while nothing    *)
(* was connected or nothing selected and no command carried it since.      *)
(***************************************************************************)
Settled == commands = <<>> /\ serving = None /\ events = <<>>

ConnectionShown ==
    Settled => /\ status.k = "connected" <=> running # None
               /\ status.k # "connecting"
               /\ running # None => /\ status.id = running.id
                                    /\ running.mode = mode \/ missed

-----------------------------------------------------------------------------
(* The inductive invariant *)

InPlay == tasks \cup Range(commands) \cup ({serving, running} \ {None})

\* Which commands go where, and what a connect command or a download names.
CommandInv ==
    /\ IsFiniteSet(DOMAIN rows) /\ IsFiniteSet(tasks)
    /\ \A c \in {serving, running} \ {None} : c.op = "connect"
    /\ \A c \in tasks : c.op \in {"test", "speed", "fetch"}
    /\ \A c \in InPlay :
        /\ c.op = "connect" /\ c.id > 0 => \A p \in c.of : p[1] = c.id
        /\ c.op = "fetch" => -c.id \in groups
        /\ IsFiniteSet(c.of)
    /\ \A ev \in Range(events) : ev.e = "subscription" => ev.gid \in groups

\* st is what the interface shows when it comes to apply the i-th event.
Shows(i, st) ==
    \/ st = status /\ \A j \in 1 .. i - 1 : events[j].e # "status"
    \/ \E j \in 1 .. i - 1 :
          /\ events[j].e = "status" /\ events[j].status = st
          /\ \A k \in j + 1 .. i - 1 : events[k].e # "status"

Stage ==
    IF serving # None THEN [k |-> "connecting", id |-> 0]
    ELSE IF running # None THEN [k |-> "connected", id |-> running.id] ELSE Off

\* What was told last is the stage the loop is at.
StatusInv ==
    /\ serving # None => running = None
    /\ Shows(Len(events) + 1, Stage)

\* The connect command sent last carries the mode of the switch.
ModeInv ==
    ~missed =>
        /\ \A i \in DOMAIN commands :
              /\ commands[i].op = "connect"
              /\ \A j \in DOMAIN commands : j > i => commands[j].op # "connect"
              => commands[i].mode = mode
        /\ (\A i \in DOMAIN commands : commands[i].op # "connect") =>
              \A c \in {serving, running} \ {None} : c.mode = mode

\* While a test is shown there is one on its way; unless one ended twice, no other.
TestInv ==
    /\ testing => Queued # {} \/ UnderWay # {} \/ Ended # {}
    /\ ~twice =>
        /\ ~testing => Queued = {} /\ UnderWay = {} /\ Ended = {}
        /\ \A i, j \in Queued : i = j
        /\ \A t, u \in UnderWay : t = u
        /\ \A i, j \in Ended : i = j
        /\ Queued = {} \/ (UnderWay = {} /\ Ended = {})
        /\ UnderWay = {} \/ Ended = {}

\* A pair that still tells the server of its row.
Holds(p) == p[1] \in DOMAIN rows /\ rows[p[1]].server = p[2]

\* Unless a row was removed under it, what commands and events name is still there,
\* and traffic comes from the server that is shown when it is applied.
NamedInv ==
    ~overtaken =>
        /\ \A c \in InPlay : c.op # "connect" \/ c.id > 0 => \A p \in c.of : Holds(p)
        /\ \A ev \in Range(events) : ev.e = "result" => Holds(<<ev.id, ev.server>>)
        /\ \A i \in DOMAIN events : events[i].e = "traffic" =>
              \E st \in {status} \cup {ev.status : ev \in {x \in Range(events) : x.e = "status"}} :
                  /\ Shows(i, st)
                  /\ st.id > 0 => \A s \in events[i].from : Holds(<<st.id, s>>)

LibraryInv ==
    /\ TypeOK
    /\ CommandInv
    /\ StatusInv
    /\ ModeInv
    /\ TestInv
    /\ NamedInv
    /\ HistoryIsOwn
=============================================================================
