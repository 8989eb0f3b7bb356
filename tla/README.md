# Verification of Throne GTK

This directory holds TLA+ models of Throne GTK, the TLC configurations that
check them on small instances, and theorems about them that the TLA+ proof
system checks for every value of the constants. Everything here is translated
from the sources in `src/`; paths below are relative to it.

1. [The system](#1-the-system)
2. [The modules](#2-the-modules)
3. [What the runs check](#3-what-the-runs-check)
4. [Bounds](#4-bounds)
5. [Fairness](#5-fairness)
6. [What is proved](#6-what-is-proved)
7. [Disagreements between code and documentation](#7-disagreements-between-code-and-documentation)
8. [What is not modelled](#8-what-is-not-modelled)
9. [Plan](#9-plan)

## 1. The system

Throne GTK is a proxy client. A GTK interface written in Rust keeps a library
of servers and drives an **engine**; the engine starts a separate **core**
process written in Go, which embeds sing-box and Xray, and talks to it over one
local socket or pipe.

    GTK interface --Command--> engine loop --Core::spawn--> core process
        ^                        |  \                         ^
        |<-------- Event --------+   +-- test tasks --spawn --+ (another core)
        |                                                     |
      store (SQLite)                 CoreClient <==frames==> dispatcher
                                                              |
                                     Start/Stop/Test... on: box, Xray or gates,
                                     extra process, marks, system resolver

### Components

**Core lifecycle** (`core/server.go`, `core/egress.go`).
*State*: package-level pointers to the sing-box instance, the eager Xray
instance, the lazy gate, the gates of full configurations, the extra process;
`lifecycleMu`, `xrayMu`; the exemption mark `autoRedirectMark`; `needUnsetDNS`
and the system resolver (darwin). *Operations*: Start, Stop, the test requests
that build throwaway stacks, the callback of the route monitor.
*Interaction*: every request is a goroutine of the dispatcher; the monitor
calls back from a goroutine of its own; sidecars are dialled by the box.
*Hard*: six failing steps in Start, each with its own unwinding; a refused
second Start that goes through the common error path; a test or a route change
at any moment of a Start or Stop. *Correct when*: a published profile is
complete; the box goes before its sidecars; nothing outlives its request
unpublished; a test carries the mark over the TUN of the running profile and at
no other time; the egress of every instance follows the route.

**Lazy Xray gate** (`core/internal/xray/gate.go`). *State*: the instance and
`closed` under `mu`, the set of connections under `connsMu`, atomics `active`
and `lastUse`. *Operations*: accept and handle a connection (ensure, dial,
relay), the periodic sweep, Close. *Hard*: all of them interleave; ensure holds
`mu` across a creation that may fail; the dial and both decisions of the sweep
happen with no lock held. *Correct when*: an instance has one owner at any
time, is never revived after Close, is not taken from a connection that was
there when the sweep looked, and goes away when idle; Close leaves no socket,
no instance and no goroutine.

**Request dispatcher** (`core/dispatch.go`) and **RPC channel**
(`crates/ipc/src/lib.rs`). *State*: a bounded channel of calls, the writer
task, the request counter, the map of pending reply slots, the reader task; on
the other side one goroutine per request and a lock around the answer.
*Hard*: answers out of order; callers that give up; a core that dies between
any two steps; each of the two tasks may end while the other goes on; a frame
above the limit; the counter wraps. *Correct when*: a request is executed at
most once, an answer is the outcome of its own request, and every call returns.

**Core process and endpoint** (`crates/ipc/src/lib.rs`, `core/ipc`). *State*: a
socket path or a pipe name, the listener, the child. *Operations*: `spawn`,
`shutdown`, `Drop`, `exited`. *Hard*: all spawns of a client share the
endpoint; a child may connect late, twice as late as its parent waits, or
never; a process of the macOS root helper has no handle.

**Engine** (`crates/app/src/engine.rs`). *State*: the command channel, the
running core, the tasks of tests. *Operations*: one per command, the poll every
second. *Hard*: the loop awaits a whole connection before it takes the next
command, while tests run beside it; Start's answer may be lost; a core may die
at any time. *Correct when*: every client talks to its own core, nothing but the
connection that is shown runs, a crash is reported, every command is served.

**Test sessions of the core** (`core/test_utils`). *State*: one cancellation
context for all batches, the result buffers that a query drains, the state of
the speed test. *Operations*: Test, IPTest, SpeedTest, their queries, StopTest.
*Hard*: batches under way while a query drains the buffer or a StopTest cancels
the context, a limiter that tags wait for. *Correct when*: no result is handed
out twice or left for the next batch, and a cancelled batch measures no more.

**Store** (`crates/store/src/lib.rs`) and **application state**
(`crates/app/src/state.rs`, `ui/window.rs`, `ui/servers.rs`, `ui/dialogs.rs`).
*State*: groups, profiles with latency, speed and traffic, settings; the
selected and the connected server. *Operations*: insert, delete, replace the
servers of a group after a subscription update, write the result of a test or
the traffic of a second. *Hard*: events carry row ids that were current when
their command was sent; an update of a subscription replaces the rows; SQLite
reuses ids. *Correct when*: a server keeps its history across updates and no
result lands on another server.

**Settings** (`crates/app/src/ui/routes.rs`, `ui/prefs.rs`, `state.rs`,
`crates/store`). *State*: the settings of the window and their copy in the
database; the open dialogs, each with what it showed when it was filled.
*Operations*: the list of routing rules with its switches, arrows and bins, the
editor of a rule, the rules text, the preferences, the import of Throne's rules,
hiding and quitting. *Interaction*: every edit is saved whole; a connect or a
test takes the settings of the window. *Hard*: shortcuts open dialogs over
dialogs, and a row acts on the place it had when its list was filled; the
database may refuse a save or a reload; rules of older versions are read into
the new form. *Correct when*: what is shown is what is saved, a row acts on its
own rule, an import takes nothing away.

**System DNS on Windows** (`core/internal/boxdns`, `core/server_windows.go`).
*State*: `dnsIsSet` and `lastIfc` in each process of the core, and, in the
registry, the resolvers written into each interface; the core puts its own
address (127.1.1.1) in front and a mark behind that tells whether they came by
DHCP (127.1.2.3) or were set by hand (127.3.2.1). *Operations*: `SetSystemDNS`,
the callback of the default interface, the start of a core, and of the bindings
the two calls they make, `LUID.DNS` and `LUID.SetDNS`. The channel of the client
offers the request (`set_system_dns`), and no part of the client calls it. *Hard*:
requests and callbacks share all of it without a lock; every core, those of
latency tests too, runs a monitor that works on the same interfaces; the default
route moves meanwhile; a core may end and its successor find its marks; the
resolvers of both address families are read and those of IPv4 written. *Correct
when*: the resolvers of the owner can always be put back, and the default
interface points at the core exactly while that was asked for.

**Configuration generator** (`crates/config/src/generate.rs`, `route.rs`,
`xray.rs`, `profile.rs`). From profiles and settings to a sing-box
configuration and an Xray configuration: tags, outbounds, a bridge (a socks
outbound, an inbound of Xray, a password) for each server that only Xray can
serve, DNS servers, rules and lists. *Hard*: sections refer to each other by tag
and are switched separately; sing-box combines the fields of a rule in a way of
its own; the order of rules decides. *Correct when*: a connection goes where the
interface says, and each name leads to one declaration.

**Links and subscriptions** (`crates/config/src/link.rs`, `share.rs`,
`subscription.rs`). Share links of ten protocols are read and written;
subscriptions arrive as links, base64, sing-box JSON or Clash YAML. *Hard*: one
module writes what another reads, with separators inside names and secrets;
panels answer with anything, servers of Xray's own form included. *Correct when*:
a copied server is the same server, and nothing a link says is lost on the way to
Xray.

**Xray configuration of a gate** (`core/internal/xray/gate.go`,
`constructor.go`). Every inbound moves to a fresh port and the gate listens on
the port it left. *Correct when*: a socks outbound still reaches the inbound
that takes its password.

**Watchdogs** (`core/main.go`), **extra process**
(`core/internal/process`), **root helper** (`core/helper_darwin.go`): small
parts that appear as steps of the modules above. The rest of the bindings of the
Windows IP Helper API, the generated protocol code and the wiring of sing-box
services carry no logic of the program.

## 2. The modules

| Module | Models | Checked through |
| --- | --- | --- |
| `CoreServer` | Start, Stop, test requests, route callback, egress | `MCCoreServer` |
| `CoreServerProofs` | theorems about `CoreServer` | TLAPS |
| `XrayGate` | the gate of one Xray configuration | `MCXrayGate` |
| `XrayGateProofs` | theorems about `XrayGate` | TLAPS |
| `Rpc` | abstract: a remote call executed at most once | refined by `IpcChannel` |
| `IpcChannel` | writer, reader, dispatcher, one connection | `MCIpcChannel` |
| `IpcChannelProofs` | theorems about `IpcChannel`, the refinement included | TLAPS |
| `Engine` | command loop, test tasks, core processes, endpoint | `MCEngine` |
| `EngineProofs` | theorems about `Engine` | TLAPS |
| `TestBatch` | latency, IP, country and speed batches, queries, StopTest | `MCTestBatch` |
| `TestBatchProofs` | theorems about `TestBatch` | TLAPS |
| `Library` | servers: store, interface and the engine's events | `MCLibrary` |
| `LibraryProofs` | theorems about `Library` | TLAPS |
| `RouteRules` | routing rules, as kept and as sing-box gets them | through the next two |
| `Generate` | configurations built from profiles and settings | through the next, and `Exchange` |
| `SettingsWindow` | settings, their dialogs, import, what is built from them | `MCSettingsWindow` |
| `SettingsWindowProofs` | theorems about `SettingsWindow` and `Exchange`, and about `RouteRules`, `Generate` and `Links` below them | TLAPS |
| `Links` | parsing of share links | through the next |
| `Exchange` | writing links, reading subscriptions, the clipboard, the group | `MCExchange` |
| `SystemDns` | resolvers of Windows interfaces | `MCSystemDns` |
| `SystemDnsProofs` | theorems about `SystemDns` | TLAPS |

`RouteRules` < `Generate` < `SettingsWindow` and `Generate` < `Links` <
`Exchange` are chains of EXTENDS: the pure functions stand in modules of their
own and the state machines above them apply them to every state they reach. The two
chains have no name in common but those of `Generate`, so that one module can prove
about both with the same lemmas.

### CoreServer

`pc[r]` is where the goroutine of request `r` stands, `lock` is `lifecycleMu`.
A resource is a pair of its kind (`extra`, `xray`, `gate`, `full`, `box`) and
the request that built it: `alive` has those that exist, `slot` is the
package-level pointer of each kind. Two facts about one resource can thus
differ, which is what goes wrong in such code: alive but unpublished, published
but closed. A `cfg` that is not `None` marks a Start; the deferred function of a
failed Start (`StartFails`) resets it, so that `CloseTaken`, which Stop, a
failed Start and `stopAllCores` share, returns where it was called from.

| Actions | Code |
| --- | --- |
| `StartAccepted`, `StartRefused`, `StartExtra`, `StartMark` | `Start`, up to the mark |
| `StartXray`, `CreateEagerXray`, `StartEagerXray`, `StartFullGates` | the sidecars |
| `CreateBox`, `StartDns`, `UnwindBox`, `UnwindUnpublish` | the box, `stopAllCores` |
| `StartFails` | the deferred function |
| `Stop`, `Unpublish`, `CloseBox`, `StopExtra`, `CloseXray`, `CloseTaken`, `ClearMark` | `Stop` |
| `TestCurrent` .. `TestBoxCloses` | `prepareTestEnv` and `env.close` |
| `RouteMoves`, `CallbackReads`, `CallbackApplies` | the monitor's callback |
| `GateWakes`, `GateSleeps` | `ensure` and `sweep` of a gate, as far as the egress goes |

The steps are as fine as what another goroutine can see in between: a pointer
is read before it is closed, a slot is cleared before the closing. `egress[x]` is
what the Xray instance `x` is bound to, the interface and the mark; an instance is
eager or stands behind the lazy gate or a gate of a full configuration, and is then
brought up and taken down at any moment. `CurrentEgress` is what it takes when it is
prepared, `Followed` what `liveXrayInstances` yields: the published eager instance
and those of the gates that are up. `callback` also records, in `missed`, the Starts
whose eager instance was bound and not yet published when the callback looked. Whether
a TUN is up (`TunUp`) is read off the boxes that live, not off the published profile:
a refused second Start leaves a box that runs and is not published.

### XrayGate

One handler per connection, the sweeper and Close, at the grain of critical
sections. Sections that only move pointers are one step. `ensure` holds `mu`
across the creation and start of an instance, so that the lock is explicit there
(`holder`). `life` follows each instance from its creation to its closing,
`via` is the instance that answered a handler's dial, `open` has the sockets.
`recent` abstracts `lastUse` to whether it lies within the idle window;
`IdlePasses` lets the window pass at any moment. `late` is a history variable:
the handlers that were counted while a sweep was under way.

### Rpc and IpcChannel

`Rpc` says what a caller of `CoreClient` may rely on. `IpcChannel` has the
channel, the writer (number, file, write), the reader (look up, wake, drain),
the socket in both directions, the goroutines of the core and its death. The
refinement `PromiseKept` maps a call that waits for room in the channel to one
that waits, and an answer above the limit to any answer.

### Engine

The loop and each test task run the same `Core::spawn` (`Clean`, `Bind`,
`Launch`, `Accept` or `AcceptTimesOut`) and `Core::shutdown` (`Stop`, `Kill`).
A spawn, its listener and the process it starts share one name; `at` says which
listener a process reached and `peer` which process a client got, so that a
confusion is visible as `peer[s] # s`. `host` is the system with the rights of
the client. Calls that the loop awaits are one step with every outcome the code
allows: that they return is what `IpcChannel` checks.

### TestBatch

`pc[b]` is where the goroutine of a request stands and `next[b]` the place its
loop is at; `probe` follows the goroutines of tags, `ending` says how each tag
ended, `buffer` has what a query would return. A context is a number: StopTest
counts `stops` up, and a batch is cancelled when its own number is not the
current one. SpeedTest has two halves, `country` and `speed`, that differ in
limiter and buffer. `handed` and `lateStart` are history variables.

| Actions | Code |
| --- | --- |
| `Prepare`, `TakeContext`, `Wait`, `Reclaim` | `Test`, `IPTest`, `SpeedTest` around `runTagBatch` and its like |
| `Check`, `Launch`, `Vanished`, `LoopEnds` | one turn of the loop, up to the limiter and behind it |
| `Measure`, `Release` | the goroutine of a tag |
| `SpeedStarts`, `Sample`, `SpeedDone`, `SpeedCancelled`, `SpeedStops`, `SpeedFails` | a speed test of one tag |
| `StopTest`, `Query` | `CancelTests`, the three queries that drain |

`Check` and `Launch` are two steps: the limiter lies between them, and StopTest
may come while a tag waits there. That tag starts under a cancelled context;
`OneAfterStop` says that it is the only one. A test that fetches its server
list under a cancelled context drops the error of the context, so that its
result looks like one that measured nothing (`untold`); `RepliesTell` allows it
after a StopTest and at no other time. Two speed tests share one `isRunning`,
and the first that ends resets it: `QuerierSettles` therefore claims one
direction only.

### Library

`rows` is the table of profiles and `groups` that of groups, `current` and
`selected` what the list shows, `status` and `testing` what the header shows. A
server is its fingerprint. The latency of a row is the server it was measured
at, its traffic the set of servers it came from, so that history on the wrong
row is visible as such. The interface works at once on the store; what it sends
waits in `commands`, is served by the loop (`serving`, `running`) or by a task
(`tasks`), and comes back through `events` with the ids of its command. Ids are
given as SQLite gives them: the highest in use plus one, so that a removed row's
id returns.

| Actions | Code |
| --- | --- |
| `SelectRow`, `SwitchGroup`, `DeleteSelected` | `servers.rs`: the list, the groups, the row menu |
| `AddLink`, `AddSubscription`, `UpdateSubscription` | `dialogs.rs` |
| `StartTest`, `StartSpeedTest`, `ConnectButton`, `ActivateRow`, `SwitchMode` | `window.rs`, `state.rs` |
| `TakeConnect` .. `PollExited` | the loop of `engine.rs`, as far as it sends events |
| `TestAnswers`, `SpeedAnswers`, `FetchAnswers` | its tasks |
| `ApplyStatus` .. `apply_subscription` | `apply_event` |

Three things the code does are history variables that the properties except.
`overtaken`: a row is removed while a command or event names it; its id may then
be another server's, and a late result is written there. `missed`: the mode
changes while a connection is being set up, or while nothing that could be
connected is selected; then `SwitchMode` sends nothing and the switch shows a
mode that the connection does not have. `twice`: the request of a latency test
fails, which `test_latency` and its caller both report; the second report may
come when another test runs and hides it. Core processes, their crashes and the
endpoint are the matter of `Engine`; here a connect succeeds or fails.

### RouteRules and Generate

A rule is kept as the interface keeps it: conditions with sets of values, a
mode, an action, a switch. `to_singbox` turns it into rules of sing-box, in which
a match is a sequence of parts and a part a set of fields with values; `Matches`
and `Decided` say how sing-box applies them (external), `Intended` what the
interface promises. `build` puts a configuration together; kept of it is what
refers to what. An outbound is a function from field names, so that an absent
field is no element of its domain. `remapInbounds` is what the core does to the
inbounds of such a configuration when Xray starts lazily.

Two things are kept general so that they can be proved about. `Numbered` is the tag
that `build` gives the n-th of several profiles: the instances take `p-` with
the number as the code does, the proofs any numbering that gives different tags. A
condition has a finite set of values of any strings. Three operators put outbounds
together: `f := v` is one member, `o ++ p` has the members of both, `Insert` is
`Map::insert`, where a member that was there is replaced.

### SettingsWindow

`settings` is what the window has, `database` what the next start would read,
`dialogs` the stack of open dialogs; a list keeps the rows it was filled with, an
editor the place of its rule and a draft. Handlers run to their end on one
thread, so each is a step. `Save` writes both copies, or only the window's when
the database fails (`Fault`). `request` is what the last step gave to the core,
with the settings it took; the properties build the configuration from it.
`under` (a list was opened above this dialog) and `was` (the rule an editor was
opened for) are history. `Promised` says of a configuration what the settings
promise a connection, without the rules of sing-box: `UserIntentDecides` compares
it with what the generated rules decide, for traffic and for DNS queries, which
outside tests are `Hijacked` by the core's own DNS before any rule is asked.
`AfterImport` is what an import leaves in the database: nothing, if nothing was
imported, since the code then returns before it saves.

| Actions | Code |
| --- | --- |
| `OpenRoutes`, `OpenPreferences`, `CloseTop` | the shortcuts of `window.rs` and closing |
| `Toggle`, `MoveUp`, `MoveDown`, `RemoveRule`, `AddRule`, `EditRule`, `OpenText` | rows and buttons of `routes.rs` |
| `TypeCondition`, `AddCondition`, `RemoveCondition`, `ChooseMode`, `ChooseAction`, `SaveRule` | the editor of a rule |
| `SaveText`, `EditSetting`, `SwitchMode` | the rules text, `prefs.rs`, the mode switch |
| `ImportRoutes`, `ImportEverything` | `import_route_rules` and the import dialog |
| `Submit` | connect and test, and `build` |
| `Hide`, `Quit`, `Killed`, `StartProgram` | `window.rs`, `main.rs`, the next start |

### Links and Exchange

A text is a sequence of tokens: a word or separator, a word percent-encoded, or a
piece of base64 with its alphabet and padding. That is as fine as the parsers
look: they split at separators, decode and compare with names. `parse` and
`to_link` are translated scheme by scheme. `Exchange` has one group, the
clipboard and what comes from outside: `AddLinks` (typed or pasted text),
`CopyLink`, `PasteLink`, `Update` (a subscription body). A server keeps where it came
from, since the outbounds of a JSON document are taken as they are, types of Xray
(`XrayTypes`) included. The last section, `ExchangeInv`, says what is known of all the
others; the proofs need it.

### SystemDns

`written` is the registry: the IPv4 resolvers written into each interface, none
meaning DHCP. `DNS` is `LUID.DNS`, which reads both families, in the order in which
Windows lists them on that interface (`SixFirst`); `Write` is `LUID.SetDNS`, which
keeps the IPv4 servers of what it is given (`Four`). `Resolvers` and `Resolvers6` are
the addresses that are not the core's own: the owner and DHCP provide only those.

`Cores` are the processes: the core of the connection and those of latency tests,
which start and end at any time (`Starts`, `Ends`) and each have a monitor, `dnsIsSet`
and `lastIfc` of their own. A request or a monitor is a goroutine with a list of
jobs (`task`), each job the calls and accesses of the code one by one, of which the
calls may fail.

| Actions | Code |
| --- | --- |
| `SetSystemDNS`, `Flag`, `Keep` | the request: it reads the default interface, then sets `dnsIsSet`, then `lastIfc` |
| `ReadDns`, `AskMark`, `AskRegistry`, `Set`, `Restore` | `setSystemDNS` and `restoreSystemDNS`; the two looks of `isIfcDNSDhcp` |
| `RouteMoves`, `Handle`, `HandleLast` | the monitors' callbacks, the two halves of `HandleSystemDNS` |
| `Starts`, `Ends` | `init` of the package, the end of a core |

Three facts are kept for the properties. `raced`: two goroutines, or two cores, were at
work at once. `misread`: `isIfcDNSDhcp` failed, or another goroutine pointed the
interface at its core between the look at the mark and the look at the registry.
`Front`: the interfaces on which an IPv6 resolver leads the list, where the code, which
compares the first entry only, does not find its own address again. `Without` strips
addresses from a list one by one, as the code does; it is a recursive function, so
that it can be reasoned about. Setting resolvers is one call since Windows 10 1809; the
netsh commands that stand in for it before are not modelled.

## 3. What the runs check

| Run | Expect | What it shows |
| --- | --- | --- |
| `core_server` | pass | `ProfileComplete`, `SidecarsOutliveBox`, `NothingLeaks`, `EgressFollowsRoute`, `TestCarriesMarkIffTunUp` over every interleaving of three requests with a test, or with two moves of the route and gates that wake and sleep |
| `core_server_leak` | violation | `ErrorPathsClose`: a failed sidecar leaves the extra process running |
| `xray_gate` | pass | `OneHolder`, `ClosedStaysCold`, `NoRelayAfterDrain`, `OnlyLatecomersAreCut`; `CloseReleasesAll`, `HandlersProgress`, `IdleInstanceGoes` |
| `ipc_channel` | pass | `PromiseKept` (refinement of `Rpc`), `NobodyWaitsForNothing`, `EveryCallReturns` |
| `engine` | pass | `OwnCore`, `OnlyTheConnectionRuns`, `CrashIsReportedIfOwn`, `CommandsServed` on every system |
| `engine_test` | violation | `TestSparesConnection`: a test ends the core of a connection |
| `test_batch` | pass | `BufferExact`, `OneAfterStop`, `RepliesTell`, `QuerierSettles`, `EveryBatchAnswers` for two batches of any kinds |
| `library` | pass | `HistoryIsOwn`, `HistoryKept`, `TestingTells`, `ConnectionShown` with the user, the engine and its events interleaved |
| `settings_window` | pass | `SavedIsShown`, `FreshUnlessCovered`, `UserIntentDecides`, `NamesLeadToOne`, `ImportKeepsDecisions` over dialogs stacked in any way, failures, imports and restarts |
| `settings_window_abort` | violation | `RemovingIsSafe`: removing a condition ends the program |
| `exchange` | pass | `XhttpGoesToXray`, `XrayGetsAll`, `CopiesSettle`, `CopyKeeps` for links of every scheme and bodies of every form |
| `system_dns` | pass | `NothingOfTheOwnerIsLost`, `PointsWhereAsked` with requests, callbacks, failing calls, a core that ends and a second core beside it |

Where the code breaks a promise in a known case, the property says so: it is as
strong as it holds, with the exception spelled out, and the most telling of these
cases are also runs that are violated. The exceptions:

* `NothingLeaks`: the extra process of a failed Start, and all after a refused one.
* `SidecarsOutliveBox`: a box that a refused Start unpublished; a later Start or Stop
  may take its sidecars first.
* `TestCarriesMarkIffTunUp`: a TUN over which a second Start was refused carries on
  without its mark (section 7).
* `EgressFollowsRoute`: a route that moved while an eager instance was bound and not
  yet published (`missed`); the mark, after a refused Start.
* `OnlyLatecomersAreCut`: the handlers counted while a sweep was under way.
* `OwnCore`, `OnlyTheConnectionRuns`, `CrashIsReportedIfOwn`: spawns that met at
  the endpoint (`overlap`); the last two also processes of the root helper.
* `Library`: `overtaken`, `missed`, `twice`, described above.
* `SavedIsShown`: what follows a failure of the database. A save or reload that
  failed leaves the two copies apart, and the next save undoes the import.
* `FreshUnlessCovered`: dialogs over which another list was opened. Ctrl+M opens a
  second list over the first, and the rows and editors below then act on places
  that may have moved.
* `UserIntentDecides`: it says of a DNS query outside tests that it is hijacked, not
  that a rule of the user decides it (section 7).
* `NamesLeadToOne`: three names that lead nowhere (the default resolver without a DNS
  section, a list without an address, what only the rules text routes to) and one
  list declared twice (`geosite-private`, by a rule of the user and by the switch
  for private networks); sing-box refuses such a configuration when it is started.
* `CopyKeeps`: what `share.rs` leaves out although `link.rs` reads it (`Carried`): the
  early data of a WebSocket, the extra of xhttp, the plugin of shadowsocks, the rates
  of hysteria2, the server name of an HTTPS proxy, the alpn of vmess and the hosts of
  its http transport (section 7).
* `CopyKeeps` and `CopiesSettle`: addresses that `parse_naive` took with their brackets
  or port (`Whole`), which gain a pair of brackets at every copy.
* `XrayGetsAll`: `insecure` and the list of protocols under reality, and the servers
  of a JSON document.
* `XhttpGoesToXray`: trojan and vmess links that ask for xhttp, and the servers of a
  JSON document.
* `NothingOfTheOwnerIsLost`: what follows an `isIfcDNSDhcp` that failed or was overtaken
  (`misread`); of interfaces on which IPv6 leads (`Front`) it says only that those with
  DHCP can be given back to DHCP, since one with manual resolvers keeps 127.1.1.1
  without a mark.
* `PointsWhereAsked`: goroutines and cores that overlapped (`raced`), `misread`, calls that
  failed, and the interfaces in `Front`. It speaks of the default interface and of that
  of the last request; one the route only passed in between is restored by nobody.

The type invariants and the inductive invariants (`GateInv`, `BatchInv`,
`ChannelInv`, `CoreInv`, `EngineInv`, `LibraryInv`, `DnsInv`, `WindowInv`,
`RequestInv`, `ExchangeInv`) are in no run: TLC found them to hold on these
instances, and they are proved for all.

Each property is also shown to depend on the code: for each there is a changed
definition (`Mutant:` in the modules), a bug one could plausibly write there,
under which TLC finds the property violated. The mutants are no part of any
next-state relation.

Deadlock is not checked in any run: in every module the requests, commands,
calls or connections of an instance run out, and then the system rightly stops.
That it does not stop early is what the liveness properties are for.

## 4. Bounds

* `CoreServer`: three Start or Stop requests (a profile, a request over it, one
  after it), with one test, or with two route changes; gates wake and sleep at any time.
  Two requests are all that can wait for or hold `lifecycleMu` with effect; the third
  shows what the second left. A test and a route change share nothing but what Start and
  Stop write, so that no behaviour needs both (the constraint `Apart`). The
  configurations cover every sidecar, with and without extra process and TUN. The leak
  needs two requests. Requests and interfaces are symmetric.
* `XrayGate`: two connections and two instances. A sweep has to be made possible
  by one connection and met by the other, and an instance is brought up twice.
  The theorems need no bound on connections or instances.
* `IpcChannel`: three calls through a channel of one place: one at the writer,
  one queued, one waiting for room. Request numbers are counted modulo three,
  so that they wrap; the assumption that there are at least as many numbers as
  calls stands for the code's 2^32 numbers. A number that comes round to a slot which
  is still held, after 2^32 calls, is thereby excluded. The theorems need no other bound.
* `Engine`: three spawns, one test task, three commands: a connection, another
  that replaces it and a test that meets either. `Send` keeps no more tests
  queued than there are idle test tasks. One host per system: the rights of the
  client decide only whether the VPN mode goes on, and the three hosts show both.
* `TestBatch`: two batches of two tags, one StopTest. The mixes are two latency
  batches (one with limit one, so that a tag waits), an IP and a country batch,
  a country and a speed batch, two speed batches: each pair that shares a
  buffer, the speed state or only the context. The limits 0 and 500 exercise the
  defaults. Tags of one batch are distinct. The theorems need no bound.
* `Library`: two servers, two groups, subscriptions that bring one server, both
  in the other order, or one of them twice. A budget limits how often each
  operation is used; the three budgets let those meet that touch the same state:
  two downloads with two tests and a deletion; two downloads with a connection,
  a link and traffic; two connection commands with two mode switches, two links
  and traffic. Two downloads are one to fill a group and one to renumber it. Ids
  are unbounded, and so are budgets and servers in the theorems.
* `SettingsWindow`: five steps of the user, three dialogs, one failure. Five are
  what it takes to open a list, open another over it, change a rule there, close
  it and act on a row below, or to import, edit and connect; three dialogs are a
  list, another list and its editor. Closing, quitting and being killed are not
  counted. Two stored settings between them have every mode and action, a rule of
  an older version, a rule switched off, each switch of the generator on and off
  and a rules text; six requests have servers for sing-box, for Xray, native to
  Xray and unusable ones, for each purpose. Connections are compared on sixteen
  combinations of facts, which tell all these rules apart, and on three DNS queries. The gate deals ports
  from a set twice as large as the bridges. The violated run needs three steps and
  no failure.
* `Exchange`: two servers and one text or body from outside: a property looks at
  one server or one body at a time, and the second place is for the pasted copy.
  The inputs are products: every scheme with every subset of the parameters it
  shares with others, every kind of transport with every kind of security, every
  Clash type with every combination of credentials, TLS and network.
* `SystemDns`: three interfaces: one set by hand that lists its IPv6 resolver last, one
  with DHCP, and one with DHCP that has only an IPv6 resolver, listed first. Two cores
  with two goroutines of requests each beside the monitor. The constraint `Within`
  explores four requests, moves, ends and failing calls in all while one core runs, and
  two of them while both do. Three interfaces let the route leave the interface of the
  last request and then the next one; for two cores to disturb each other one of them has
  to be asked and the other to start.

## 5. Fairness

* `XrayGate`: weak fairness of each handler's steps, of the sweep and of Close
  once begun: goroutines are scheduled, and a handler holds `mu` for one
  creation only. Strong fairness of the sweeper noticing the closed channel:
  its `select` picks at random among ready cases. No fairness for accepting a
  connection, for closing the gate, or for a relay ending by itself.
* `IpcChannel`: weak fairness of each sender (the channel serves them in turn),
  of writer, reader and the core's goroutines; none for the death of the core or
  for a caller giving up.
* `Engine`: weak fairness of the loop, of its poll and of each task; none for
  processes, which may be late or never come. Every wait in the code has a
  timeout, which is an alternative of the step that waits.
* `TestBatch`: weak fairness of each request's loop and of each tag's goroutine:
  every measurement has a timeout. None for requests, queries, StopTest or the
  ticks of the sampler.
* `CoreServer`, `Library`, `SettingsWindow`, `Exchange` and `SystemDns` state safety
  only: their hazards are about what a step leaves behind, and no property claims
  that a step is taken.

## 6. What is proved

`XrayGateProofs` proves for any finite set of connections and any instances,
from `GateAssumption` alone (the connections are finite, `None` is none of them):

| Theorem | Establishes |
| --- | --- |
| `Inductive` | `Spec => []GateInv` |
| `TypeCorrect` | `Spec => []TypeOK`; `active` never falls below zero |
| `InstancesOwnedOnce` | `Spec => []OneHolder` |
| `ClosedIsCold` | `Spec => []ClosedStaysCold` |
| `DrainIsFinal` | `Spec => []NoRelayAfterDrain` |
| `SessionsAreSafe` | `Spec => []OnlyLatecomersAreCut` |

None of the properties is inductive. `OneHolder`, for example, is lost in a step
of `Launch` unless one knows that `instance` is `None` while a handler is inside
`ensure`; that holds because the sweeper and Close take `mu`, which is the
conjunct `LockInv`. The strengthening `GateInv` has a part for each fact the
code relies on:

* `ActiveCounts`: `active` is the number of handlers between increment and
  decrement (`CountStep`, with the library's facts about cardinality; it also
  keeps `active` a natural number);
* `LockInv`: who is inside `ensure`, and what can not have changed since;
* `OwnInv`: where each instance that lives is held, and in which state;
* `StageInv`: where the sweeper and Close stand tells what they hold;
* `SweepInv`: a sweep under way saw nobody, so that those counted now are late;
* `DialInv`: whoever dialled an instance finds it running unless he was late or
  the gate is closed;
* `DrainInv`: until the set of connections is nil it has every socket that Close
  has to close.

Each part has a lemma that a step preserves it (`TypeStep`, `LockStep`,
`OwnStep`, `StageStep`, `SweepStep`, `DialStep`, `DrainStep`), split by action;
`Inductive` joins them, the other theorems follow from `GateInv` state by state.

`TestBatchProofs` proves, from `BatchAssumption` alone (the batches are finite,
tags and StopTests are natural numbers, requests are well formed), for any
number of batches and tags, any limits and any number of StopTests:

| Theorem | Establishes |
| --- | --- |
| `Inductive` | `Spec => []BatchInv` |
| `TypeCorrect` | `Spec => []TypeOK` |
| `BuffersAreExact` | `Spec => []BufferExact` |
| `StopIsPrompt` | `Spec => []OneAfterStop` |
| `AnswersTell` | `Spec => []RepliesTell` |
| `QuerierIsReset` | `Spec => []QuerierSettles` |

`BufferExact` is not inductive: that `Reclaim` takes exactly the published
results needs that no goroutine of the batch is left (`StageInv`, what `wg.Wait`
gives) and that whatever is published has an ending (`TagInv`: tags behind the
loop are under way or ended, tags before it untouched). `OneAfterStop` follows
from `LateInv`: a late start leaves the loop behind its check with a context
that no later StopTest renews. `RepliesTell` follows from `TellInv`. A step of a
loop that starts no goroutine is `Quiet`; `QuietFrame` and `QuietEnds` say what
such a step leaves alone, and each lemma on a conjunct uses them.

`IpcChannelProofs` proves, from `ChannelAssumption` alone (the calls are finitely
many and no more than there are request numbers, the channel has room for one,
`None` is no call), for any number of calls, any capacity and any such space of
numbers:

| Theorem | Establishes |
| --- | --- |
| `Inductive` | `Spec => []ChannelInv` |
| `TypeCorrect` | `Spec => []TypeOK` |
| `NobodyIsForgotten` | `Spec => []NobodyWaitsForNothing` |
| `ImplementsRpc` | `Spec => PromiseKept`: the channel refines `Rpc` |

`NobodyWaitsForNothing` is lost if the writer files a new call under a number that
is still pending, since the caller filed there is then forgotten; and the
refinement is lost if a late frame meets the slot of another call. Both rest on
the numbers, so the strengthening counts them:

* `NumberInv`: after k numbers were handed out, what is in use is among them, and k
  with the calls that are still to come does not exceed the space. `NewNumber` and
  `NumberFree` draw from it that the next number is free, though it wraps;
* `MatchInv`: a frame in flight meets its own slot or none, and belongs to a call
  that was asked;
* `AnswerInv`: an answer on its way has an outcome that was decided in the core;
* `CutInv`: the reader leaves only when the core died or an answer is oversized.

`SlotKept` and `SlotStaysGood` carry the way of a waiting caller over a step;
`WaitStep` joins them. `PromiseStep` maps each step: sending to `Ask`, the end of
a handler to `Execute`, a waking answer to `Answer`, everything that fails to `Fail`,
the others to a stutter; that the outcome a caller gets is its own is `MatchInv`.

`CoreServerProofs` proves, from `CoreAssumption` alone (owners, interfaces and
configurations are apart from `None`, requests from tests), for any requests,
tests, interfaces and configurations:

| Theorem | Establishes |
| --- | --- |
| `CoreIsSound` | `Spec => []CoreInv` |
| `CoreTypeCorrect` | `Spec => []TypeOK` |
| `ProfilesAreComplete` | `Spec => []ProfileComplete` |
| `SidecarsGoLast` | `Spec => []SidecarsOutliveBox` |
| `NothingIsLeftBehind` | `Spec => []NothingLeaks` |
| `EgressStaysOnRoute` | `Spec => []EgressFollowsRoute` |
| `TestsFollowTun` | `Spec => TestCarriesMarkIffTunUp`, an action property |

All rest on `LockInv`: one goroutine at most is inside Start or Stop, so that
what it read before it closes still is so (`OneInside`, `LifecycleAlone`).
`BuildInv` follows a Start through its sidecars and `TakenInv` a Stop through
what it unpublished: a box taken away still has its sidecars. `MarkInv` ties the
mark to the profile also between the requests, and `LiveInv` each box that lives to
the configuration it was built from, which is where `TestsFollowTun` looks for a TUN.
`EgressInv` ties every instance that is bound to the route, unless the callback has it
before it, and `CarriedInv` to the mark: that changes only while no instance is
published. A gate that wakes takes both from `CurrentEgress`. `TidyInv` is the most work: as
long as no Start was refused, whatever lives is published or in the hands of who
holds the lock. A refused Start breaks it, since its error path closes the
sidecars of the profile that is running; that is the exception of `NothingLeaks`.

`EngineProofs` proves, from `EngineAssumption` alone, for any number of spawns,
test tasks and commands and any system:

| Theorem | Establishes |
| --- | --- |
| `EngineIsSound` | `Spec => []EngineInv` |
| `EngineTypeCorrect` | `Spec => []TypeOK` |
| `ClientsMeetTheirCore` | `Spec => []OwnCore` |
| `ProfilesRunForConnection` | `Spec => []OnlyTheConnectionRuns` |
| `TestsSpareUncontested` | `Spec => UncontestedTestSpares` |

`OwnCore` needs `SpawnInv`: as long as no two spawns met, a process that starts
finds the listener of its own spawn or none, because that spawn still waits for
it, or has closed it and no other is waiting. `ListenerInv` says that a listener is
open only while a spawn goes on, `TaskInv` that no two tasks hold one core. The
last theorem is the other half of the run `engine_test`: it states what that run
refutes, for every behaviour in which no two spawns met, so the meeting at the
endpoint is all there is to the counterexample.

`LibraryProofs` proves, from `LibraryAssumption` alone (finitely many servers,
subscriptions that bring lists of them, budgets of natural numbers), for any
servers, lists and budgets:

| Theorem | Establishes |
| --- | --- |
| `LibraryIsSound` | `Spec => []LibraryInv` |
| `LibraryTypeCorrect` | `Spec => []TypeOK` |
| `HistoryIsKeptApart` | `Spec => []HistoryIsOwn` |
| `TestingIsTold` | `Spec => []TestingTells` |
| `ConnectionIsShown` | `Spec => []ConnectionShown` |
| `UpdatesKeepHistory` | `Spec => HistoryKept`, an action property |

`HistoryIsOwn` says something of rows; what keeps it is `NamedInv`, which says it
of everything on its way: unless a row that was named has been removed, a pair of
id and server in a command, a task or an event still is a row of the table, and
traffic belongs to the server that will be shown when it is applied. `Shows`
looks ahead in the event channel for that; `StatusInv` uses it to say that the
last status sent is the stage of the loop, which is `ConnectionShown` once the
channel is empty. `TestInv` counts: unless a test ended twice, one command, one
task or one final event stands for the test that is shown. `UpdatedRows` is
`HistoryKept` of `replace_group_profiles`: new ids are fresh (`NextIsFresh`, from
`Extremes`: a finite set of numbers has a greatest) and a server that stays takes
its history along.

`SystemDnsProofs` proves, from `SystemDnsAssumption` alone (the owner and DHCP use
addresses that are not the core's, and those of the two families are apart), for any
cores, interfaces, requests and resolvers of both families in either order:

| Theorem | Establishes |
| --- | --- |
| `DnsIsSound` | `Spec => []DnsInv` |
| `DnsTypeCorrect` | `Spec => []TypeOK` |
| `OwnersAreKept` | `Spec => []NothingOfTheOwnerIsLost` |
| `ResolversFollowRequests` | `Spec => []PointsWhereAsked` |

The first lemmas are an algebra of lists: what `Without` makes of a prefix, of two lists
put together and of a list nothing is taken from (`WithoutIsPrefix`, `WithoutConcat`,
`WithoutPure`). From it `CoreListFacts` follows: stripped of the marks and the address, a
list the core wrote is the list it began with, with the IPv6 resolvers behind, and the
IPv4 part that is written back is what it was, so pointing twice is pointing once and
restoring undoes it. Where IPv6 leads, what is left is that the mark is still read
(`WasDhcp`). `WhatIsRead` and `WhatIsWritten` say this of `DNS` and `Write`.

`OwnersAreKept` allows any interleaving and any number of cores, since `SeenInv` says that
whatever a goroutine read, and however late it writes, is one of the two configurations
of its interface, and that the answer of `isIfcDNSDhcp`, unless it was misread, is the
owner's; `StepOwned` takes it over a step. For `ResolversFollowRequests`, `PlanInv` says what
an undisturbed request or callback still has to do: a request is at one of its stages
(`RequestStage`), a monitor at one of those of the last move (`MonitorStage`), moves that
came meanwhile being queued behind. The lemmas `PlanOfSet`, `PlanOfHandle` and their like,
one for each action, take the plan over a step, and when nobody works the default
interface is as asked and that of the last request the owner's.

`SettingsWindowProofs` proves, from `SettingsWindowAssumption` (the tables, the rules
of Throne, the texts and the facts of a connection have their types) and
`RequestAssumption` (a request for one server has one
profile, no profile is a group of others, the numbered tags are apart and none is
`proxy` or `direct`, and the list of private sites is among those published), for any stored settings and
texts, any profiles, any number of dialogs and steps of the user:

| Theorem | Establishes |
| --- | --- |
| `WindowIsSound` | `Spec => []WindowInv` |
| `WindowTypeCorrect` | `Spec => []TypeOK` |
| `WindowShowsTheSaved` | `Spec => []SavedIsShown` |
| `PlacesStayTrue` | `Spec => []FreshUnlessCovered` |
| `ImportsYield` | `Spec => ImportKeepsDecisions`, an action property |
| `RequestsAreAsked` | `Spec => []RequestInv` |
| `IntentDecides` | `Spec => []UserIntentDecides` |
| `NamesLead` | `Spec => []NamesLeadToOne` |

and about `Exchange`, from `ExchangeAssumption` alone (texts are sequences of lines,
documents of entries), for any texts and bodies, any words and numbers of servers:

| Theorem | Establishes |
| --- | --- |
| `ExchangeHeld` | `ExchangeSpec => []ExchangeInv` |
| `XhttpIsForXray` | `ExchangeSpec => []XhttpGoesToXray` |
| `XrayIsTold` | `ExchangeSpec => []XrayGetsAll` |

`FreshUnlessCovered` needs the shape of the stack, `StackInv`: an editor stands right
above its list, and every list and editor below another list has been covered. At most
one list is then uncovered, and each change of the rules fills it again
(`RebuiltKeeps`). `ImportsYield` holds because imported rules are put behind
(`LaterRulesYield`).

`IntentDecides` is a theorem about the generator: for every settings, every
connection, DNS queries included, and both purposes, the first rule of the generated
list that applies leads where the settings promise, which for a query outside tests
is the core's own DNS. Its lemmas go through the generator from inside
out:

* `ConditionSays`, `PartsOfRule`: the parts of a rule are its conditions that state
  something; `FlatMatches`, `RuleSays`: the rule `to_singbox` makes of them applies
  to a connection exactly when the rule does as the interface states it, and there
  is none when that applies to nothing;
* `FirstDecides`, `DecidedInTurn`: the first final rule that applies decides, and a
  list put before another hands on what it does not decide;
* `UserRulesLead`: the rules of the user, each turned into one rule or none and
  joined, decide as the first that applies, which `Intended` picks; `AutomaticLeaves`,
  `PrivateLeads`: the automatic rules decide nothing but DNS, those for private
  networks what their switch says; `RewrittenDecides`: in a test, proxy becomes
  direct and nothing else changes;
* `RouteDecides` joins them in the order of `route_section`.

`NamesLead` follows the names of a configuration the same way, for whatever
`RequestInv` says was asked:

* outbounds: `MadeOutbounds` lists what `build` makes, `ProfileTags` says that the
  tags of the profiles are apart (a single one, or those of `Numbered`), and
  `OutboundNames` that no other outbound has one of them;
* bridges: `BridgeEnds`, `BridgesLead` and `BridgesMatch` take each profile that
  runs in Xray to the port and password of its own bridge, and `GateLeads` says
  that the ports a gate puts in front still lead to the same ends;
* rules and lists: `ConditionLists`, `FlatParts` and `RuleNames` collect what one rule
  names, `UserNames`, `AutomaticNames`, `PrivateNames` and `RewrittenNames` what the
  sections of the route do, `ConcatNames` and `RouteNames` join them;
* declarations: `Entries` and `Declares` say what `route_section` declares,
  `UniqueConcat` and `ListedOnce` that it does so once; `DnsServerNames`,
  `DnsNames` and `MadeDns` do for the DNS section what the former do for the route;
* `MadeDangling` compares the two: what is named and not declared is `Undeclared`,
  the exceptions of the property and nothing else.

`ExchangeInv` says that a server which no JSON document brought is `Converted`: if it
is marked for Xray, its outbound has the members, transport and tls of an xhttp
server (`ForXray`), and xhttp without the mark is found in trojan and vmess only.
The two invariants of the run follow from it. The link may be any sequence of
tokens: what the parsers do with it matters to these properties only through the
members they put together.

* `MergedFields`, `MemberIs`: what `++` and `:=` give; `TlsRead` and `TransportRead`
  follow `tls_from_query` and `transport_from_query` through their cases, and say
  which members the sections have and that the transport is xhttp exactly when
  `IsXhttp` says so, by either name;
* `VlessYields` and its like, one for each parser, go along the members of the
  outbound; `ProtocolYields` and `ParseYields` join them, `ClashYields` does the
  same for an entry of Clash;
* `JoinedSingles` takes this to lists (`LinksBrought`, `ClashBrought`, `BodyBrought`),
  `ExchangeStep` to every step;
* `StreamTold` and `OutboundTold` go member by member through `stream_settings` and
  `to_xray_outbound`, under reality, with tls and without.

Sequences of any length come into these proofs without the induction theorems of
the library, whose operator parameters the provers can not instantiate: `Least`
(every set of natural numbers that is not empty has a least element) follows from the
library's theorem that `<` is well-founded, and a recursive function is then reasoned
about at the least place where a claim would fail. `JoinedRuns` and `WithoutRuns`
unfold the two recursive functions of the models, `Joined` and `Without`.

What stays with TLC:

* `CopyKeeps` and `CopiesSettle` of `Exchange`: that a text printed and parsed again
  gives the same server compares two folds over its tokens (`Split`, `JoinedBy`, the
  escapes), for which one would need to unfold the folds of the library for every
  text;
* every liveness property (`CloseReleasesAll`, `HandlersProgress`,
  `IdleInstanceGoes`, `EveryCallReturns`, `CrashIsReportedIfOwn`, `CommandsServed`,
  `EveryBatchAnswers`), since liveness under fairness and ENABLED are out of reach of
  the installed provers.

## 7. Disagreements between code and documentation

Three properties state what a comment of the repository says, and are violated by
what the code does.

* `ErrorPathsClose` (`core/server.go:413`): a Start whose Xray sidecar fails
  leaves the extra process it launched; a later Stop finds no box and returns.
* `TestSparesConnection` (`crates/app/src/engine.rs:293`): all cores of a client
  meet it at one path, and a test spawned during a connect takes the path over.
* `RemovingIsSafe` (`crates/app/src/ui/routes.rs:538`): removing a condition looks
  its row up under a borrow that is still held when the row is removed; the second
  borrow panics in a callback from C, and the program ends.

Others were met while modelling; the properties except them, or the model has them
as the code does, without a run of their own:

* `core/server.go:283` ("keep test egress off an active TUN"): a Start that is refused
  over a running profile clears the mark (`:350`) while the box and its TUN go on, so
  that the Xray sidecar of the next test is caught by auto_redirect.
* `crates/config/src/share.rs:3` ("a round trip through `link::parse` must produce the
  same outbound"): what `link.rs` reads and `share.rs` does not write, listed under
  `CopyKeeps` in section 3, is lost at the first copy.
* `crates/config/src/profile.rs:58` says that panels distribute outbounds of Xray's
  form: `parse_json` skips every outbound without a `type` (`subscription.rs:248`), and
  so all of these.
* `crates/config/src/generate.rs:423` ("interface rules come first"): outside tests the
  rule that hijacks DNS stands before them (`:413`), and a rule of the user never decides
  a query. That may be meant; then the comment says too much.
* `core/server.go:123`: a route that moves while a Start binds its instance is lost.
* `core/internal/xray/gate.go:49`: the sweep does not look at the counter again
  when it takes the instance, so a session counted meanwhile is cut.
* `crates/app/src/engine.rs:357`: a core started by the macOS helper has no handle,
  and the poll that reports a crash asks the handle.
* `crates/app/src/engine.rs:326`: StopTest goes to the core of the connection, while
  tests run in cores of their own.
* `README.md:146` with `core/server.go:763`: `IsPrivileged` answers false on
  Windows whatever the rights of the process are, and the VPN mode is refused.
* `crates/config/src/link.rs:16` speaks of four combinations of base64; padded text
  in the URL alphabet is not tried.
* `crates/app/src/ui/prefs.rs`: the editor of the rules text saves any JSON, while
  the generator refuses all but objects and arrays (`generate.rs:445`) at connect.
* `crates/config/src/link.rs:320` says that xhttp is supported by Xray only, and a
  vless link is marked for it; trojan and vmess links that ask for xhttp are not, and the
  outbounds of a JSON document go to sing-box as they stand (`subscription.rs:254`), xhttp
  included.
* `crates/config/src/link.rs:608`: `parse_naive` takes an address with its brackets when
  there is no port, and `host_for_url` (`share.rs:41`) puts another pair around it, at
  every copy.
* `crates/app/src/engine.rs:684`: a JSON body without servers that are read, or a Clash
  body without readable entries, is accepted and empties the group; nothing says that it
  should not.
* `dns_manager_windows.go:96` in `core/internal/boxdns`: when `isIfcDNSDhcp` fails, or
  another goroutine sets the resolvers between its two looks, an interface with DHCP is
  marked as set by hand, and a restore writes the offered resolvers into it for good.
* `dns_manager_windows.go:158` and `:200`: only the first entry is compared with
  127.1.1.1, so that it stays in the list where Windows lists IPv6 in front.
* `crates/store/src/lib.rs:367`: one setting that cannot be read resets them all to
  the defaults, and the next save writes those.
* `core/internal/xray/gate.go`: the probes of `remapInbounds` do not hold the ports
  the inbounds leave, so that one of them could be dealt to another inbound;
  `GateLeadsOn` promises nothing for it.

## 8. What is not modelled

`PROJECT.json` lists every component with its state. In short: the contents of a
running sing-box or Xray instance are external; the lifecycle module has no
traffic; of a configuration the literal values, the sections log, cache and
experimental and the parsing of a DNS address are left out; of a subscription the
HTTP request, its HWID headers and the user information and title of its answer;
of the import from Throne the copying of groups and servers row by row; of the
interface the tray menu, row markers and labels. The peer checks of the endpoint,
the root helper's own protocol, logging and statistics are left out; widgets are
layout; of the Windows bindings only the two calls of the DNS manager are modelled, and
not the netsh commands that replace one of them before Windows 10 1809; generated code
and the wiring of sing-box carry no logic of the program.

## 9. Plan

The model covers the program's own state, and what its invariants say is proved, but
for the two properties of `Exchange` that go through folds. What is left is the safety
half of liveness, stated without fairness: in `XrayGate` and `CoreServer`, that
whoever waits for a lock waits for somebody who can go on.
