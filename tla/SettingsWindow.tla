---------------------------- MODULE SettingsWindow ----------------------------
(***************************************************************************)
(* The settings of the window, their copy in the database, the dialogs     *)
(* that change them and the configurations built from them:                *)
(* crates/app/src/ui/routes.rs, ui/prefs.rs, state.rs, and the settings    *)
(* and rule import of crates/store/src/lib.rs, over the generator.         *)
(*                                                                         *)
(* Dialogs are presented over the window as a stack, and only the top one  *)
(* takes clicks; the shortcuts of the application work whatever is open.   *)
(* A handler runs to its end on the one thread of the interface, so it is  *)
(* one step.                                                               *)
(***************************************************************************)
EXTENDS Generate

CONSTANTS
    Stored,        \* the settings the database may hold at the first start
    Throne,        \* the rules Throne may have selected, as import_route_rules reads them
    Typed,         \* the conditions a user may type
    Texts,         \* the rules texts a user may type
    Touched,       \* the switches a user may turn
    Requests,      \* what a user may connect to or test
    Conns,         \* the connections decisions are compared on
    MaxDialogs,    \* bound: dialogs open at once
    MaxSteps,      \* bound: what the user does
    MaxFaults      \* bound: failures of the database

\* The settings of the window, and those a database may hold.
Settings == [rules : Seq(RouteRule), custom : Texts, on : SUBSET STRING]
Tables   == [rules : Seq(RouteRule \cup OldRule), custom : Texts, on : SUBSET STRING]

ASSUME SettingsWindowAssumption ==
    /\ MaxDialogs \in Nat /\ MaxSteps \in Nat /\ MaxFaults \in Nat
    /\ Stored \subseteq Tables
    /\ Throne \subseteq Seq([name : STRING, unsupported : BOOLEAN, action : STRING,
                             outbound_id : Int, conditions : Seq(Condition)])
    /\ Typed \subseteq Condition
    /\ Touched \subseteq STRING
    /\ \A t \in Texts : /\ t.rules \in Seq(ToSet(t.rules))
                       /\ \A r \in ToSet(t.rules) : {"match", "action", "outbound"} \subseteq DOMAIN r
    /\ \A conn \in Conns : conn.private \in BOOLEAN /\ conn.dns \in BOOLEAN
    /\ {Blank, "vpn"} \subseteq STRING   \* what the provers are not told of literals

\* What is asked for: generate takes one profile; no profile is a group of others
\* (subscription.rs leaves those out); format! tells numbers apart.
ASSUME RequestAssumption ==
    /\ \A q \in Requests :
          /\ q.purpose \in {"single", "test", "auto"} /\ q.profiles \in Seq(ToSet(q.profiles))
          /\ q.purpose = "single" => Len(q.profiles) = 1
          /\ \A p \in ToSet(q.profiles) : p.kind.xray \in BOOLEAN /\ "outbounds" \notin DOMAIN p.outbound
          /\ \A i, j \in DOMAIN q.profiles :
                /\ Numbered(i - 1) = Numbered(j - 1) => i = j
                /\ Numbered(i - 1) \notin {"proxy", "direct"}
    /\ GeositePrivate \in Published

VARIABLES
    app,       \* "up", or how the program ended
    settings,  \* State.settings, or its last value when the program is down
    database,  \* the settings table
    dialogs,   \* the open dialogs, the top one last
    request,   \* None, or what the last step gave to the core with its settings
    steps,     \* bound: steps of the user so far
    faults     \* bound: failures of the database so far

vars == <<app, settings, database, dialogs, request, steps, faults>>

None == [purpose |-> "none"]

\* A rule of Throne: conditions by kind, what else it asks for, where it goes.
Rule(name, conditions, action) ==
    [name |-> name, enabled |-> TRUE, conditions |-> conditions, mode |-> "any", action |-> action]

-----------------------------------------------------------------------------
(* Store *)

\* Store::settings
Read(db) == [db EXCEPT !.rules = [i \in DOMAIN @ |-> Deserialized(@[i])]]

\* ThroneRule::route_action, as a set that is empty for None.
route_action(r) ==
    CASE r.action = "reject" -> {"block"}
      [] r.action = "route" /\ r.outbound_id = -1 -> {"proxy"}
      [] r.action = "route" /\ r.outbound_id = -2 -> {"direct"}
      [] r.action = "route" /\ r.outbound_id = -3 -> {"block"}
      [] OTHER -> {}

\* ThroneRule::to_route_rule, as a sequence that is empty for None.
to_route_rule(r) ==
    LET Given(c) == When(c.values # {}, <<c>>)
        conditions == Joined([i \in DOMAIN r.conditions |-> Given(r.conditions[i])])
    IN  IF r.unsupported \/ route_action(r) = {} \/ conditions = <<>> THEN <<>>
        ELSE <<Rule(r.name, conditions, CHOOSE a \in route_action(r) : TRUE)>>

Imported(throne) == Joined([i \in DOMAIN throne |-> to_route_rule(throne[i])])

\* Mutant: the imported rules come first.
WithImportedFirst(db, throne) == [Read(db) EXCEPT !.rules = Imported(throne) \o @]

\* import_route_rules: the settings of the database with the rules added.
WithImported(db, throne) == [Read(db) EXCEPT !.rules = @ \o Imported(throne)]

\* The database after an import: not written when there is nothing to add.
AfterImport(db, throne) == IF Imported(throne) = <<>> THEN db ELSE WithImported(db, throne)

-----------------------------------------------------------------------------
(* State: what every handler ends with *)

Step == steps < MaxSteps /\ steps' = steps + 1

Fault == faults < MaxFaults /\ faults' = faults + 1

\* State::save_settings: the window keeps what it has though the database fails.
Save(s) ==
    /\ settings' = s
    /\ \/ database' = s /\ UNCHANGED faults
       \/ Fault /\ UNCHANGED database

-----------------------------------------------------------------------------
(* Dialogs *)

Top      == Last(dialogs)
TopIs(k) == app = "up" /\ dialogs # <<>> /\ Top.k = k

\* under records, for the properties, that a list was opened above the dialog
\* and may have changed the rules.
List(rules) == [k |-> "routes", rows |-> rules, under |-> FALSE]

Listing(d) == d.k \in {"routes", "rule"}
Covered(d) == IF Listing(d) THEN [d EXCEPT !.under = TRUE] ELSE d

\* The rebuild closure of the list at place p.
Rebuilt(stack, p, rules) == [stack EXCEPT ![p] = List(rules)]

Present(d) ==
    /\ app = "up"
    /\ Len(dialogs) < MaxDialogs
    /\ Step
    /\ dialogs' = Append(IF d.k = "routes" THEN [i \in DOMAIN dialogs |-> Covered(dialogs[i])]
                                           ELSE dialogs, d)
    /\ request' = None
    /\ UNCHANGED <<app, settings, database, faults>>

\* The shortcuts app.routes and app.preferences.
OpenRoutes      == Present(List(settings.rules))
OpenPreferences == Present([k |-> "prefs"])

CloseTop ==
    /\ app = "up" /\ dialogs # <<>>
    /\ dialogs' = Front(dialogs)
    /\ request' = None
    /\ UNCHANGED <<app, settings, database, steps, faults>>

-----------------------------------------------------------------------------
(* The list of rules; a row acts on the place it had when it was built. *)

Row(i) == TopIs("routes") /\ Step /\ i \in DOMAIN Top.rows

Rules(rules) == [settings EXCEPT !.rules = rules]

\* Save the changed rules and fill the list again.
FillWith(rules) ==
    /\ Save(Rules(rules))
    /\ dialogs' = Rebuilt(dialogs, Len(dialogs), rules)
    /\ request' = None
    /\ UNCHANGED app

InRules(i) == i \in DOMAIN settings.rules

\* Mutant: the list is not filled again.
ToggleKeepsRows(i) ==
    /\ Row(i)
    /\ Save(Rules(IF InRules(i) THEN [settings.rules EXCEPT ![i].enabled = ~Top.rows[i].enabled]
                  ELSE settings.rules))
    /\ request' = None
    /\ UNCHANGED <<app, dialogs>>

Toggle(i) ==
    /\ Row(i)
    /\ FillWith(IF InRules(i) THEN [settings.rules EXCEPT ![i].enabled = ~Top.rows[i].enabled]
                ELSE settings.rules)

\* move_rule
Swapped(i, j) ==
    IF InRules(i) /\ InRules(j)
    THEN [settings.rules EXCEPT ![i] = settings.rules[j], ![j] = settings.rules[i]]
    ELSE settings.rules

MoveUp(i)   == Row(i) /\ i > 1 /\ FillWith(Swapped(i, i - 1))
MoveDown(i) == Row(i) /\ i < Len(Top.rows) /\ FillWith(Swapped(i, i + 1))

RemoveRule(i) ==
    /\ Row(i)
    /\ FillWith(IF InRules(i) THEN RemoveAt(settings.rules, i) ELSE settings.rules)

\* The button that takes the rules over from Throne.  Where Throne has none it
\* only says so; where all of its rules are skipped the window still reads the
\* database back.  A failed write changes nothing; a failed reading leaves the
\* window with what it had.
ImportRoutes(throne) ==
    /\ TopIs("routes") /\ Step
    /\ throne # <<>>
    /\ \/ /\ database' = AfterImport(database, throne)
          /\ settings' = Read(database')
          /\ dialogs' = Rebuilt(dialogs, Len(dialogs), settings'.rules)
          /\ UNCHANGED faults
       \/ /\ Fault
          /\ database' \in {database, AfterImport(database, throne)}
          /\ UNCHANGED <<settings, dialogs>>
    /\ request' = None
    /\ UNCHANGED app

\* import_dialog: the groups and profiles come first, and may fail with the
\* rules left where they are.
ImportEverything(throne) ==
    /\ app = "up" /\ dialogs = <<>> /\ Step
    /\ \/ /\ database' = AfterImport(database, throne)
          /\ settings' = Read(database')
          /\ UNCHANGED faults
       \/ /\ Fault
          /\ database' \in {database, AfterImport(database, throne)}
          /\ UNCHANGED settings
    /\ request' = None
    /\ UNCHANGED <<app, dialogs>>

-----------------------------------------------------------------------------
(* The editor of one rule.  It keeps the place of the rule, 0 for a new    *)
(* one, and stands right above the list it was opened from.  was: the rule *)
(* it was opened for, recorded for the properties.                         *)

Editor(i, r) ==
    [k |-> "rule", index |-> i, under |-> Top.under, was |-> r,
     draft |-> IF r.conditions = <<>> THEN [r EXCEPT !.conditions = <<NewCondition>>] ELSE r]

AddRule == TopIs("routes") /\ Present(Editor(0, NewRule))

EditRule(i) ==
    /\ TopIs("routes") /\ i \in DOMAIN Top.rows
    /\ Present(Editor(i, IF InRules(i) THEN settings.rules[i] ELSE NewRule))

Draft == Top.draft

Redraft(r) ==
    /\ TopIs("rule") /\ Step
    /\ dialogs' = [dialogs EXCEPT ![Len(dialogs)].draft = r]
    /\ request' = None
    /\ UNCHANGED <<app, settings, database, faults>>

TypeCondition(i, c) ==
    TopIs("rule") /\ i \in DOMAIN Draft.conditions /\ Redraft([Draft EXCEPT !.conditions[i] = c])
AddCondition   == TopIs("rule") /\ Redraft([Draft EXCEPT !.conditions = Append(@, NewCondition)])
ChooseMode(m)  == TopIs("rule") /\ m # Draft.mode /\ Redraft([Draft EXCEPT !.mode = m])
ChooseAction(a) == TopIs("rule") /\ a # Draft.action /\ Redraft([Draft EXCEPT !.action = a])

\* The bin of a condition, when there are two or more.  The list of rows is
\* still borrowed by the `if let' that looks the row up, so the borrow_mut in
\* its body panics, inside a callback from C: the process aborts.
RemoveCondition ==
    /\ TopIs("rule") /\ Step
    /\ Len(Draft.conditions) > 1
    /\ app' = "aborted"
    /\ dialogs' = <<>>
    /\ request' = None
    /\ UNCHANGED <<settings, database, faults>>

\* The rule as the editor reads it: conditions with values, the name trimmed.
Edited == LET Trimmed(c) == When(Kept(c.values) # {}, <<[c EXCEPT !.values = Kept(@)]>>)
          IN  [Draft EXCEPT !.enabled = TRUE,
                            !.conditions = Joined([i \in DOMAIN @ |-> Trimmed(@[i])])]

\* The switch of an edited rule belongs to the list.
WithEdited(i) ==
    IF InRules(i) THEN [settings.rules EXCEPT ![i] = [Edited EXCEPT !.enabled = settings.rules[i].enabled]]
    ELSE Append(settings.rules, Edited)

SaveRule ==
    /\ TopIs("rule") /\ Step
    /\ Edited.conditions # <<>>
    /\ Save(Rules(WithEdited(Top.index)))
    /\ dialogs' = Rebuilt(Front(dialogs), Len(dialogs) - 1, settings'.rules)
    /\ request' = None
    /\ UNCHANGED app

-----------------------------------------------------------------------------
(* The text of rules, and the switches *)

OpenText == TopIs("routes") /\ Present([k |-> "text"])

\* The editor saves whatever parses as JSON.
SaveText(t) ==
    /\ TopIs("text") /\ Step
    /\ t.json # "invalid"
    /\ Save([settings EXCEPT !.custom = t])
    /\ dialogs' = Front(dialogs)
    /\ request' = None
    /\ UNCHANGED app

\* What each page of the preferences can change; a number or a text counts as
\* on when it is not the default.
ConnectionPage == {"mixed_port", "allow_lan", "sniffing", "tun_stack", "tun_mtu",
                   "tun_strict_route", "tun_ipv6", "close_to_tray", "start_minimized"}
NetworkPage    == {"dns_enabled", "dns_remote", "dns_direct", "dns_strategy", "fakedns",
                   "bypass_private", "test_url", "test_timeout_ms", "test_concurrency",
                   "auto_interval_secs", "auto_tolerance_ms", "auto_balance",
                   "speed_test_download", "speed_test_upload", "speed_test_timeout_ms"}
CorePage       == {"mux_enabled", "mux_protocol", "stats_enabled", "log_level",
                   "sub_auto_update", "sub_auto_update_minutes", "sub_user_agent",
                   "sub_send_hwid", "sub_custom_hwid_params"}

Flipped(f) == [settings EXCEPT !.on = IF f \in @ THEN @ \ {f} ELSE @ \cup {f}]

\* Mutant: the switch is not written.
EditUnsaved(f) ==
    /\ TopIs("prefs") /\ Step
    /\ settings' = Flipped(f)
    /\ request' = None
    /\ UNCHANGED <<app, database, dialogs, faults>>

EditSetting(f) ==
    /\ TopIs("prefs") /\ Step
    /\ f \in ConnectionPage \cup NetworkPage \cup CorePage
    /\ Save(Flipped(f))
    /\ request' = None
    /\ UNCHANGED <<app, dialogs>>

\* The mode switch of the main screen.
SwitchMode ==
    /\ app = "up" /\ dialogs = <<>> /\ Step
    /\ Save(Flipped("vpn"))
    /\ request' = None
    /\ UNCHANGED <<app, dialogs>>

-----------------------------------------------------------------------------
(* Connecting and testing, and the ends of the program *)

\* A request is taken with the settings of the window; the shortcuts for it
\* work with any dialog open.
Submit(req) ==
    /\ app = "up" /\ Step
    /\ request' = [purpose |-> req.purpose, profiles |-> req.profiles, ports |-> req.ports,
                   settings |-> settings]
    /\ UNCHANGED <<app, settings, database, dialogs, faults>>

\* Closing the window hides it where there is a tray, and saves.
Hide ==
    /\ app = "up" /\ Step
    /\ "close_to_tray" \in settings.on
    /\ Save(settings)
    /\ request' = None
    /\ UNCHANGED <<app, dialogs>>

\* shutdown saves the settings of the window, whatever the database holds.
Quit ==
    /\ app = "up"
    /\ app' = "quit"
    /\ Save(settings)
    /\ dialogs' = <<>>
    /\ request' = None
    /\ UNCHANGED steps

Killed ==
    /\ app = "up"
    /\ app' = "killed"
    /\ dialogs' = <<>>
    /\ request' = None
    /\ UNCHANGED <<settings, database, steps, faults>>

\* The next start reads the database.
StartProgram ==
    /\ app # "up" /\ Step
    /\ app' = "up"
    /\ settings' = Read(database)
    /\ request' = None
    /\ UNCHANGED <<database, dialogs, faults>>

Init ==
    /\ database \in Stored
    /\ settings = Read(database)
    /\ app = "up" /\ dialogs = <<>> /\ request = None
    /\ steps = 0 /\ faults = 0

Next ==
    \/ OpenRoutes \/ OpenPreferences \/ CloseTop \/ AddRule \/ OpenText
    \/ \E i \in 1..MaxSteps + Len(settings.rules) :
          Toggle(i) \/ MoveUp(i) \/ MoveDown(i) \/ RemoveRule(i) \/ EditRule(i)
    \/ \E t \in Throne : ImportRoutes(t) \/ ImportEverything(t)
    \/ \E c \in Typed, i \in 1..3 : TypeCondition(i, c)
    \/ AddCondition \/ RemoveCondition \/ SaveRule
    \/ \E m \in Modes : ChooseMode(m)
    \/ \E a \in Actions : ChooseAction(a)
    \/ \E t \in Texts : SaveText(t)
    \/ \E f \in Touched : EditSetting(f)
    \/ SwitchMode
    \/ \E r \in Requests : Submit(r)
    \/ Hide \/ Quit \/ Killed \/ StartProgram

Spec == Init /\ [][Next]_vars

-----------------------------------------------------------------------------
(* Properties *)

Dialogs ==
    [k : {"routes"}, rows : Seq(RouteRule), under : BOOLEAN]
    \cup [k : {"rule"}, index : Nat, under : BOOLEAN, was : RouteRule, draft : RouteRule]
    \cup [k : {"text", "prefs"}]

\* Every rule of the window, of a dialog and of the database has the shape its
\* readers expect, whatever place a stale row passes to a handler.
TypeOK ==
    /\ app \in {"up", "quit", "killed", "aborted"}
    /\ settings \in Settings
    /\ database \in Tables
    /\ dialogs \in Seq(Dialogs)
    /\ steps \in 0..MaxSteps /\ faults \in 0..MaxFaults

\* The dialogs stand over the window while the program is up; an editor stands
\* right above the list it was opened from, and every list and editor below
\* another list has been covered.
StackInv ==
    /\ app # "up" => dialogs = <<>>
    /\ \A n \in DOMAIN dialogs : dialogs[n].k = "rule" =>
          n > 1 /\ dialogs[n - 1].k = "routes" /\ dialogs[n].under = dialogs[n - 1].under
    /\ \A m, n \in DOMAIN dialogs :
          n < m /\ dialogs[m].k = "routes" /\ Listing(dialogs[n]) => dialogs[n].under

\* What was given to the core is a request with settings of the window.
Asked(q) == \E r \in Requests : q.purpose = r.purpose /\ q.profiles = r.profiles

RequestInv == request # None => Asked(request) /\ request.settings \in Settings

\* While the database answers, the window shows what the next start would read:
\* no edit, import or editor leaves the two apart (State::save_settings,
\* reload_settings).
SavedIsShown == app = "up" /\ faults = 0 => settings = Read(database)

Fresh(d, rules) ==
    /\ d.k = "routes" /\ ~d.under => d.rows = rules
    /\ d.k = "rule" /\ ~d.under /\ d.index > 0 => d.index \in DOMAIN rules /\ rules[d.index] = d.was

\* A list that no other list was opened over, and an editor opened from such a
\* list, show the rules as they are: the place they kept still is that of the
\* rule (routes.rs hands places, not rules, to its handlers).
FreshUnlessCovered == \A n \in DOMAIN dialogs : Fresh(dialogs[n], settings.rules)

\* The inductive invariant: what makes FreshUnlessCovered and SavedIsShown keep.
WindowInv == TypeOK /\ StackInv /\ SavedIsShown /\ FreshUnlessCovered

\* Importing from Throne takes no decision away from the rules that were saved.
ImportKeepsDecisions ==
    [][(\E t \in Throne : ImportRoutes(t) \/ ImportEverything(t)) =>
        \A conn \in Conns :
            LET before == Intended(Read(database).rules, conn)
            IN  before # "default" => Intended(Read(database').rules, conn) = before]_vars

Built == request # None /\ ~Refused(request, request.settings)
Config == build(request, request.settings)
ForTest == request.purpose = "test"

\* What the settings promise a connection: the rules of the user, in their
\* order, then the rules text, then the switch for private networks.
Promised(s, conn) ==
    LET own     == Intended(s.rules, conn)
        private == conn.private \/ <<"rule_set", GeositePrivate>> \in conn.facts
        rest    == IF "bypass_private" \in s.on /\ private THEN "direct" ELSE "proxy"
    IN  CASE own = "block"     -> "reject"
          [] own = "default"   -> Decided(s.custom.rules, rest, conn)
          [] OTHER             -> own

\* Outside tests a DNS query is taken over before any rule of the user
\* (route_section adds sniff, hijack-dns and resolve first).
Hijacked(conn) == conn.dns /\ ~ForTest

\* The generated rules decide every connection as the settings promise it, with
\* two exceptions: a DNS query goes to sing-box's own resolver whatever the
\* rules say of it, and a test goes directly where it would use the proxy.  So
\* nothing else that is added automatically comes between a connection and the
\* rule the user made for it (route_section, to_singbox, rewrite_proxy_outbound).
UserIntentDecides ==
    Built => LET route == Config.route IN \A conn \in Conns :
        LET promised == Promised(request.settings, conn)
        IN  Decided(route.rules, route.final, conn)
              = IF Hijacked(conn) THEN "hijack-dns"
                ELSE IF ForTest /\ promised = "proxy" THEN "direct" ELSE promised

Tags(seq) == {seq[i].tag : i \in DOMAIN seq}
Unique(seq) == \A i, j \in DOMAIN seq : seq[i].tag = seq[j].tag => i = j

OutboundTags(c) == {c.outbounds[i]["tag"] : i \in DOMAIN c.outbounds}

RoutedTo(rules) == {r.outbound : r \in {x \in ToSet(rules) : x.action = "route"}}

ListsOf(match) ==
    IF "parts" \notin DOMAIN match THEN {}
    ELSE UNION {i.values : i \in {x \in UNION ToSet(match.parts) : x.field = "rule_set"}}

Lists(rules) == UNION {ListsOf(r.match) : r \in ToSet(rules)}

\* The tags a configuration names and does not declare.
Dangling(c) ==
    LET selected == UNION {ToSet(o["outbounds"]) :
                              o \in {x \in ToSet(c.outbounds) : Has(x, "outbounds")}}
        detours  == {s.detour : s \in ToSet(c.dns.servers)} \ {Blank}
        download == {s.download_detour : s \in ToSet(c.route.rule_set)}
        servers  == RoutedTo(c.dns.rules) \cup c.dns.resolvers \cup c.route.resolver
    IN  ((RoutedTo(c.route.rules) \cup {c.route.final} \cup selected \cup detours \cup download)
            \ OutboundTags(c))
        \cup (servers \ Tags(c.dns.servers))
        \cup ((Lists(c.route.rules) \cup Lists(c.dns.rules)) \ Tags(c.route.rule_set))

\* Through the gate the port of a bridge leads to the inbound that takes its
\* password and to no other.  Not promised: that no probe gets a port an inbound
\* left, which was free when it looked.
GateLeadsOn(c) ==
    \A moved \in Injection(c.bridges, 1..2 * Cardinality(c.bridges)) :
        LET g == remapInbounds(c.bridges, moved)
        IN  \A b \in c.bridges : \E p \in g.pairs :
                /\ \A q \in g.pairs : q.gate = b.port <=> q = p
                /\ \A x \in g.inbounds : x.port = p.target <=> x.auth = b.auth

\* Every name a generated configuration uses leads to one declaration.  Three
\* names lead to none: the default resolver where there is no DNS service, a list
\* under an unknown name, which has no address, and what only the rules text
\* names.  geosite-private is declared twice when a rule of the user names it under
\* the switch for private networks.  For every profile that runs in Xray there is a
\* socks outbound, and behind its port one bridge that takes its password and leads
\* to an Xray outbound of its own, also when a gate stands between the two.
NamesLeadToOne ==
    Built => LET made == Config IN
        /\ Dangling(made) =
              (IF "dns_enabled" \in request.settings.on \/ ForTest THEN {} ELSE {"dns-direct"})
              \cup (UserLists(request.settings) \ Published)
              \cup (Lists(request.settings.custom.rules) \ Tags(made.route.rule_set))
              \cup (RoutedTo(request.settings.custom.rules) \ (OutboundTags(made) \cup {"proxy"}))
        /\ \A i, j \in DOMAIN made.outbounds :
              made.outbounds[i]["tag"] = made.outbounds[j]["tag"] => i = j
        /\ Unique(made.dns.servers)
        /\ \/ Unique(made.route.rule_set)
           \/ "bypass_private" \in request.settings.on /\ GeositePrivate \in UserLists(request.settings)
        /\ \A i \in DOMAIN made.tags : is_xray(request.profiles[i]) =>
              LET o == made.outbounds[i] IN \E b \in made.bridges :
                  /\ o["type"] = "socks" /\ o["server_port"] = b.port
                  /\ o["tag"] = made.tags[i] /\ b.to = o["tag"] /\ b.outbound["tag"] = b.to
                  /\ \A c \in made.bridges : c.auth = o["auth"] <=> c = b
        /\ GateFails(made.bridges) \/ GateLeadsOn(made)

\* routes.rs:538: a condition can be removed while it is not the last one.
RemovingIsSafe == app # "aborted"
=============================================================================
