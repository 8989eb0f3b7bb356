------------------------------- MODULE Generate -------------------------------
(***************************************************************************)
(* The configuration built from profiles and settings: generate.rs, the    *)
(* bridge to Xray of xray.rs and what both use of profile.rs, all in       *)
(* crates/config/src.                                                      *)
(*                                                                         *)
(* Of a configuration the model keeps what refers to what: outbounds, DNS  *)
(* servers, rules and lists under their tags, and the two ends of every    *)
(* bridge.  A profile is [kind, outbound]: kind.xray tells the types that  *)
(* begin with `xray'; an outbound, and each section of it, is a function   *)
(* from field names, so that an absent field is no element of its domain.  *)
(***************************************************************************)
EXTENDS RouteRules, Integers

CONSTANT Numbered(_)   \* the tag of the n-th of several profiles, from 0

GeositePrivate == "geosite-private"

Has(o, f) == f \in DOMAIN o
Str(o, f) == IF Has(o, f) THEN o[f] ELSE ""
Only(o, fields) == [f \in fields \cap DOMAIN o |-> o[f]]

\* json!({..}) is put together from single fields; of a field that is given twice
\* the first counts.  (As :> and @@ of TLC, with a definition the provers can use.)
f := v == [x \in {f} |-> v]
o ++ p == [x \in DOMAIN o \cup DOMAIN p |-> IF x \in DOMAIN o THEN o[x] ELSE p[x]]

\* Map::insert
Insert(o, f, v) == [x \in DOMAIN o \cup {f} |-> IF x = f THEN v ELSE o[x]]

-----------------------------------------------------------------------------
(* profile.rs *)

is_xray(p) == p.kind.xray
is_xray_native(p) == Has(p.outbound, "protocol") /\ ~Has(p.outbound, "type")

\* Profile::tagged; a profile in sing-box form that runs in Xray is shown as vless.
tagged(p, tag) ==
    LET out == Insert(p.outbound, "tag", tag)
    IN  IF is_xray(p) /\ Has(out, "type") THEN Insert(out, "type", "vless") ELSE out

-----------------------------------------------------------------------------
(* xray.rs *)

\* Mutant: the extra of xhttp is not passed on.
TransportFieldsFew(network) ==
    CASE network = "xhttp" -> {"path", "mode", "host"}
      [] network = "ws"    -> {"path", "headers"}
      [] OTHER             -> {}

\* What Xray is told of each transport; of the others only the name.
TransportFields(network) ==
    CASE network = "xhttp" -> {"path", "mode", "host", "extra"}
      [] network = "ws"    -> {"path", "headers"}
      [] network = "grpc"  -> {"service_name"}
      [] network = "http"  -> {"path", "host"}
      [] OTHER             -> {}

stream_settings(o) ==
    LET t    == IF Has(o, "transport") THEN o.transport ELSE "type" := "tcp"
        tls  == IF Has(o, "tls") THEN o.tls ELSE <<>>
        base == ("network" := t["type"]) ++ Only(t, TransportFields(t["type"]))
        fp   == IF Has(tls, "utls") THEN tls["utls"] ELSE "chrome"
        seen == ("server_name" := Str(tls, "server_name")) ++ ("utls" := fp)
    IN  IF ~Has(o, "tls") THEN base ++ ("security" := "none")
        ELSE IF Has(tls, "reality")
        THEN base ++ ("security" := "reality") ++ seen ++ Only(tls, {"reality"})
        ELSE base ++ ("security" := "tls") ++ seen ++ Only(tls, {"insecure", "alpn"})

\* to_xray_outbound fails for want of an address, a port or a UUID.
Convertible(p) == is_xray_native(p) \/ {"server", "server_port", "uuid"} \subseteq DOMAIN p.outbound

to_xray_outbound(p, tag) ==
    IF is_xray_native(p) THEN Insert(p.outbound, "tag", tag)
    ELSE Insert(("protocol" := "vless")
                ++ Only(p.outbound, {"server", "server_port", "uuid", "flow"})
                ++ stream_settings(p.outbound), "tag", tag)

\* Bridge::reserve and its two ends.  The password is a fresh UUID: here the
\* tag, which no other bridge of the configuration has.
socks_outbound(tag, port) ==
    [type |-> "socks", tag |-> tag, server_port |-> port, auth |-> tag]

Bridge(p, tag, port) ==
    [port |-> port, auth |-> tag, in |-> tag \o "-in", to |-> tag,
     outbound |-> to_xray_outbound(p, tag)]

-----------------------------------------------------------------------------
(* gate.go of core/internal/xray: the lazy form of a configuration.  Every *)
(* inbound moves to the port its probe got, moved[b], and the gate listens *)
(* on the port it leaves.  The probes are open together, so that no port   *)
(* is dealt twice.                                                         *)

remapInbounds(bridges, moved) ==
    [inbounds |-> {[b EXCEPT !.port = moved[b]] : b \in bridges},
     pairs    |-> {[gate |-> b.port, target |-> moved[b]] : b \in bridges}]

\* StartGate fails without an inbound, and where two listeners want one port.
GateFails(bridges) ==
    bridges = {} \/ \E b, c \in bridges : b # c /\ b.port = c.port

-----------------------------------------------------------------------------
(* generate.rs, sections.  Settings are [rules, custom, on]: on is the set *)
(* of the switches that are on.                                            *)

MuxTypes == {"vless", "vmess", "trojan", "shadowsocks"}

apply_mux(o, settings) ==
    IF "mux_enabled" \in settings.on /\ Str(o, "type") \in MuxTypes /\ Str(o, "flow") = ""
    THEN Insert(o, "multiplex", "enabled")
    ELSE o

auto_selector(tags) == [type |-> "auto-selector", tag |-> "proxy", outbounds |-> tags]

inbounds_section(settings) ==
    <<"mixed-in">> \o (IF "vpn" \in settings.on THEN <<"tun-in">> ELSE <<>>)

Anything   == [type |-> "all"]
DnsQuery   == [type |-> "dns"]
Addresses  == [type |-> "addresses"]
Private    == [type |-> "private"]
InList(n)  == Flat({[field |-> "rule_set", values |-> {n}]})

GRule(match, action, outbound) == [match |-> match, action |-> action, outbound |-> outbound]

DnsServers(settings) ==
    <<[tag |-> "dns-remote", detour |-> "proxy"], [tag |-> "dns-direct", detour |-> ""],
      [tag |-> "dns-local", detour |-> ""]>>
    \o When("fakedns" \in settings.on, <<[tag |-> "dns-fake", detour |-> ""]>>)

\* A DNS rule names the server under `outbound'.
dns_section(settings) ==
    LET fake == "fakedns" \in settings.on
        private == {"dns_routing", "bypass_private"} \subseteq settings.on
    IN  [servers |-> DnsServers(settings),
         resolvers |-> {"dns-local"},
         rules |-> When(fake, <<GRule(Addresses, "route", "dns-fake")>>)
                   \o When(private, <<GRule(InList(GeositePrivate), "route", "dns-direct")>>)
                   \o <<GRule(Anything, "route", "dns-remote")>>]

NoDns == [servers |-> <<>>, resolvers |-> {}, rules |-> <<>>]

UserRules(settings) == Joined([i \in DOMAIN settings.rules |-> to_singbox(settings.rules[i])])
UserLists(settings) == UNION {rule_sets(settings.rules[i]) : i \in DOMAIN settings.rules}

\* The rules text: blank, or JSON that must be an object or an array.
CustomFails(settings) == settings.custom.json \notin {"", "object", "array"}

\* rewrite_proxy_outbound
Rewritten(r) == IF r.outbound = "proxy" THEN [r EXCEPT !.outbound = "direct"] ELSE r

\* The rules that stand before those of the user.
Automatic(settings) ==
    When("sniffing" \in settings.on, <<GRule(Anything, "sniff", "")>>)
    \o <<GRule(DnsQuery, "hijack-dns", "")>>
    \o When("dns_strategy" \in settings.on, <<GRule(Anything, "resolve", "")>>)

PrivateRules == <<GRule(Private, "route", "direct"), GRule(InList(GeositePrivate), "route", "direct")>>

route_section(settings, for_test) ==
    LET detour == IF for_test THEN "direct" ELSE "proxy"
        bypass == "bypass_private" \in settings.on
        rules  == When(~for_test, Automatic(settings)) \o UserRules(settings)
                  \o settings.custom.rules \o When(bypass, PrivateRules)
        Declared(names) ==
            Joined([i \in DOMAIN names |-> rule_set_declaration(names[i], detour)])
    IN  [rules    |-> [i \in DOMAIN rules |-> IF for_test THEN Rewritten(rules[i]) ELSE rules[i]],
         final    |-> detour,
         resolver |-> IF for_test THEN {} ELSE {"dns-direct"},
         rule_set |-> Declared(SetToSeq(UserLists(settings)))
                      \o When(bypass, rule_set_declaration(GeositePrivate, detour))]

-----------------------------------------------------------------------------
(* generate.rs, build.  A request is [purpose, profiles, ports]: ports[i]  *)
(* is what free_port found when profiles[i] asked for one.                 *)

\* Mutant: every profile gets the tag of an only one.
TagOfAlone(purpose, i) == "proxy"

TagOf(purpose, i) == IF purpose = "single" THEN "proxy" ELSE Numbered(i - 1)

Refused(req, settings) ==
    \/ req.profiles = <<>>
    \/ \E i \in DOMAIN req.profiles : is_xray(req.profiles[i]) /\ ~Convertible(req.profiles[i])
    \/ CustomFails(settings)

build(req, settings) ==
    LET tags   == [i \in DOMAIN req.profiles |-> TagOf(req.purpose, i)]
        test   == req.purpose = "test"
        Out(i) == IF is_xray(req.profiles[i]) THEN socks_outbound(tags[i], req.ports[i])
                  ELSE apply_mux(tagged(req.profiles[i], tags[i]), settings)
    IN  [tags      |-> tags,
         outbounds |-> [i \in DOMAIN tags |-> Out(i)]
                       \o When(req.purpose = "auto", <<auto_selector(tags)>>)
                       \o <<[type |-> "direct", tag |-> "direct"]>>,
         inbounds  |-> When(~test, inbounds_section(settings)),
         dns       |-> IF "dns_enabled" \in settings.on /\ ~test THEN dns_section(settings) ELSE NoDns,
         route     |-> route_section(settings, test),
         bridges   |-> {Bridge(req.profiles[i], tags[i], req.ports[i]) :
                            i \in {j \in DOMAIN tags : is_xray(req.profiles[j])}}]

=============================================================================
