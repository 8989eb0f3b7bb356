-------------------------------- MODULE Exchange --------------------------------
(***************************************************************************)
(* Servers coming in and going out: links made from servers (share.rs),    *)
(* subscription bodies (subscription.rs), and what the interface does with *)
(* both: the dialog that adds servers, the copying of a link and the       *)
(* update of a subscription (crates/app/src/ui/dialogs.rs, ui/servers.rs,  *)
(* engine.rs).                                                             *)
(***************************************************************************)
EXTENDS Links

CONSTANTS
    XrayTypes,    \* the types that begin with `xray'
    Special,      \* the words with a character that share.rs escapes
    Offered,      \* the texts a user may bring, each a sequence of lines
    Bodies,       \* the bodies a panel may send
    MaxServers,   \* bound: servers in the group
    MaxBrought    \* bound: texts and bodies from outside

\* Texts have lines, and documents list entries.
ASSUME ExchangeAssumption ==
    /\ \A lines \in Offered : lines \in Seq(ToSet(lines))
    /\ \A body \in Bodies : /\ body.lines \in Seq(ToSet(body.lines))
                           /\ body.items \in Seq(ToSet(body.items))
    /\ MaxServers \in Nat /\ MaxBrought \in Nat

VARIABLES
    servers,   \* the profiles of one group, each with where it came from
    clipboard, \* a link, or the empty text
    brought    \* bound: texts and bodies from outside so far

exchangeVars == <<servers, clipboard, brought>>

-----------------------------------------------------------------------------
(* share.rs *)

\* Mutant: names and values are written as they are.
EscNothing(text) == text

esc(text) == [i \in DOMAIN text |-> IF text[i][1] \in Special THEN <<"%", text[i][1]>> ELSE text[i]]

JoinedBy(texts, s) ==
    IF texts = <<>> THEN <<>>
    ELSE FoldLeft(LAMBDA acc, t : acc \o Word(s) \o t, texts[1], Tail(texts))

Text(o, f) == IF Has(o, f) THEN o[f] ELSE <<>>
Part(o, f) == Text(o, f)
TextOr(o, f, default) == IF Has(o, f) THEN o[f] ELSE default

\* join: a pair is <<key, text>>; empty texts are left out.
join(pairs) ==
    LET Given(p) == p[2] # <<>>
        kept == SelectSeq(pairs, Given)
    IN  JoinedBy([i \in DOMAIN kept |-> Word(kept[i][1]) \o Word("=") \o esc(kept[i][2])], "&")

tls_query(o) ==
    LET tls == Part(o, "tls")
        reality == Has(tls, "reality")
    IN  IF ~Has(tls, "enabled") THEN <<<<"security", Word("none")>>>>
        ELSE <<<<"security", Word(IF reality THEN "reality" ELSE "tls")>>,
               <<"pbk", IF reality THEN tls["reality"].public_key ELSE <<>> >>,
               <<"sid", IF reality THEN tls["reality"].short_id ELSE <<>> >>,
               <<"sni", Text(tls, "server_name")>>, <<"fp", Text(tls, "utls")>>,
               <<"alpn", JoinedBy(Text(tls, "alpn"), ",")>>,
               <<"allowInsecure", IF Has(tls, "insecure") THEN Word("1") ELSE <<>> >>>>

\* Host of a WebSocket and host of another transport, where it is one text.
HostOf(t) == IF Has(t, "headers") THEN t["headers"]
             ELSE IF Str(t, "type") = "http" THEN <<>> ELSE Text(t, "host")

TransportQuery(t) ==
    LET path == <<"path", TextOr(t, "path", Word("/"))>>
    IN  CASE Str(t, "type") \in {"ws", "httpupgrade"} -> <<path, <<"host", HostOf(t)>>>>
          [] Str(t, "type") = "grpc"  -> <<<<"serviceName", Text(t, "service_name")>>>>
          [] Str(t, "type") = "http"  -> <<path, <<"host", JoinedBy(Text(t, "host"), ",")>>>>
          [] Str(t, "type") = "xhttp" -> <<path, <<"mode", TextOr(t, "mode", Word("auto"))>>,
                                           <<"host", Text(t, "host")>>>>
          [] OTHER -> <<>>

stream_query(o) ==
    LET t == Part(o, "transport")
    IN  tls_query(o)
        \o <<<<"type", Word(IF Has(t, "type") THEN t["type"] ELSE "tcp")>>>> \o TransportQuery(t)

base64(content, alphabet, padded) == <<<<content, alphabet, padded>>>>

\* The object inside a vmess link.
VmessPayload(p) ==
    LET o == p.outbound
        t == Part(o, "transport")
        tls == Part(o, "tls")
        net == IF ~Has(t, "type") THEN "tcp" ELSE IF t["type"] = "http" THEN "h2" ELSE t["type"]
    IN  [ps |-> p.name, add |-> o["server"], port |-> o["server_port"], id |-> Text(o, "uuid"),
         aid |-> TextOr(o, "alter_id", Word("0")), scy |-> TextOr(o, "security", Word("auto")),
         net |-> Word(net), host |-> HostOf(t),
         path |-> TextOr(t, "path", Text(t, "service_name")),
         tls |-> IF Has(tls, "enabled") THEN Word("tls") ELSE <<>>,
         sni |-> Text(tls, "server_name"), fp |-> Text(tls, "utls")]

\* Mutant: the two are swapped.
AuthSwapped(o) ==
    IF Has(o, "username") /\ Has(o, "password")
    THEN esc(o["password"]) \o Word(":") \o esc(o["username"]) \o Word("@") ELSE <<>>

Auth(o) ==
    IF Has(o, "username") /\ Has(o, "password")
    THEN esc(o["username"]) \o Word(":") \o esc(o["password"]) \o Word("@") ELSE <<>>

\* scheme://user@address?query#name
Link(scheme, user, p, query) ==
    Word(scheme) \o Word("://") \o user \o address(p.outbound)
    \o (IF query = <<>> THEN <<>> ELSE Word("?") \o query) \o Word("#") \o esc(p.name)

\* to_link, as a sequence that is empty for an error.
to_link(p) ==
    LET o    == p.outbound
        type == Str(o, "type")
        Pair(k, cond, text) == <<<<k, IF cond THEN text ELSE <<>> >>>>
        As(text) == esc(text) \o Word("@")
        obfs == Has(o, "obfs")
        quic == Has(o, "quic")
    IN  CASE type = "vless" ->
                <<Link("vless", As(Text(o, "uuid")), p,
                       join(stream_query(o) \o <<<<"flow", Text(o, "flow")>>>>))>>
          [] type = "vmess" ->
                <<Word("vmess") \o Word("://") \o base64(VmessPayload(p), "std", TRUE)>>
          [] type = "trojan" ->
                <<Link("trojan", As(Text(o, "password")), p, join(stream_query(o)))>>
          [] type = "shadowsocks" ->
                <<Link("ss", base64(Text(o, "method") \o Word(":") \o Text(o, "password"), "url", FALSE)
                             \o Word("@"), p, <<>>)>>
          [] type = "hysteria2" ->
                <<Link("hysteria2", As(Text(o, "password")), p,
                       join(tls_query(o) \o Pair("obfs", obfs, o["obfs"].type)
                            \o Pair("obfs-password", obfs, o["obfs"].password)))>>
          [] type = "tuic" ->
                <<Link("tuic", esc(Text(o, "uuid")) \o Word(":") \o As(Text(o, "password")), p,
                       join(tls_query(o)
                            \o <<<<"congestion_control", Text(o, "congestion_control")>>,
                                 <<"udp_relay_mode", Text(o, "udp_relay_mode")>>>>))>>
          [] type = "anytls" -> <<Link("anytls", As(Text(o, "password")), p, join(tls_query(o)))>>
          [] type = "naive" ->
                <<Link(IF quic THEN "naive+quic" ELSE "naive+https", Auth(o), p,
                       join(tls_query(o) \o Pair("uot", Has(o, "udp_over_tcp"), Word("1"))
                            \o <<<<"congestion_control", Text(o, "quic_congestion_control")>>>>))>>
          [] type = "socks" -> <<Link("socks5", Auth(o), p, <<>>)>>
          [] type = "http" ->
                <<Link(IF Has(o, "tls") THEN "https" ELSE "http", Auth(o), p, <<>>)>>
          [] OTHER -> <<>>

-----------------------------------------------------------------------------
(* subscription.rs.  A body is [form, lines, items, alphabet, padded]: form *)
(* is "links", "base64" of lines, "json" or "clash" with items, or "empty". *)

\* Profile::from_outbound of a sing-box outbound.
FromOutbound(o) ==
    [Profile(Text(o, "tag"), o) EXCEPT !.kind.xray = Str(o, "type") \in XrayTypes]

\* Outbounds that are no servers, or have no type: a native Xray one has none.
Service == {"direct", "block", "dns", "selector", "urltest", ""}

parse_json(outbounds) ==
    LET One(o) == When(Str(o, "type") \notin Service, <<FromOutbound(o)>>)
    IN  Joined([i \in DOMAIN outbounds |-> One(outbounds[i])])

ClashTls(p) ==
    LET opts == p["reality-opts"]
    IN  IF ~Has(p, "tls") /\ p["type"] \notin {"trojan", "hysteria2", "tuic"} THEN <<>>
        ELSE "tls" := (("enabled" := TRUE)
                       ++ Opt("server_name", Or(Text(p, "sni"), Text(p, "servername")))
                       ++ On("insecure", Has(p, "skip-cert-verify"))
                       ++ Opt("alpn", Text(p, "alpn"))
                       ++ Opt("utls", Text(p, "client-fingerprint"))
                       ++ (IF Has(p, "reality-opts")
                           THEN "reality" := [public_key |-> Text(opts, "public-key"),
                                              short_id |-> Text(opts, "short-id")]
                           ELSE <<>>))

ClashTransport(p) ==
    LET network == Str(p, "network")
        opts == Text(p, "ws-opts")
    IN  CASE network = "ws" ->
                "transport" := (("type" := "ws")
                    ++ (IF Has(p, "ws-opts") THEN "path" := Or(Text(opts, "path"), Word("/")) ELSE <<>>)
                    ++ Opt("headers", Text(opts, "Host")))
          [] network = "grpc" ->
                "transport" := (("type" := "grpc")
                    ++ ("service_name" := Text(Text(p, "grpc-opts"), "grpc-service-name")))
          [] network = "h2" -> "transport" := ("type" := "http")
          [] OTHER -> <<>>

\* Credentials; what is missing becomes the empty text.
ClashUser(p) ==
    LET login == IF Text(p, "username") = <<>> THEN <<>>
                 ELSE ("username" := p["username"]) ++ ("password" := Text(p, "password"))
        uuid == "uuid" := Text(p, "uuid")
        password == "password" := Text(p, "password")
        xudp == "packet_encoding" := "xudp"
    IN  CASE p["type"] = "vless"  -> uuid ++ Opt("flow", Text(p, "flow")) ++ xudp
          [] p["type"] = "vmess"  -> uuid ++ ("alter_id" := Or(Text(p, "alterId"), Word("0")))
                                     ++ ("security" := Or(Text(p, "cipher"), Word("auto"))) ++ xudp
          [] p["type"] = "trojan" -> password
          [] p["type"] = "ss"     -> ("method" := Text(p, "cipher")) ++ password
          [] p["type"] = "hysteria2" ->
                password ++ (IF ~Has(p, "obfs-password") THEN <<>>
                             ELSE "obfs" := [type |-> Or(Text(p, "obfs"), Word("salamander")),
                                             password |-> p["obfs-password"]])
          [] p["type"] = "tuic"   ->
                uuid ++ password
                ++ ("congestion_control" := Or(Text(p, "congestion-controller"), Word("bbr")))
          [] p["type"] = "socks5" -> ("version" := "5") ++ login
          [] p["type"] = "http"   -> login

\* The sing-box name of each type of Clash that is read.
ClashTypes == [vless |-> "vless", vmess |-> "vmess", trojan |-> "trojan", ss |-> "shadowsocks",
               hysteria2 |-> "hysteria2", tuic |-> "tuic", socks5 |-> "socks", http |-> "http"]

clash_proxy_to_outbound(p) ==
    IF Text(p, "server") = <<>> \/ NameIn(Text(p, "port")) \notin Ports
       \/ p["type"] \notin DOMAIN ClashTypes THEN <<>>
    ELSE <<("type" := ClashTypes[p["type"]]) ++ ("server" := p["server"]) ++ ("server_port" := p["port"])
           ++ ClashUser(p) ++ ClashTls(p) ++ ClashTransport(p)>>

parse_clash(proxies) ==
    LET One(p) == LET o == clash_proxy_to_outbound(p)
                  IN  [i \in DOMAIN o |-> Profile(Text(p, "name"), o[i])]
    IN  Joined([i \in DOMAIN proxies |-> One(proxies[i])])

\* The profiles of a body, whatever its form: a base64 body that does not
\* decode is one line without a scheme.
ProfilesOf(body) ==
    CASE body.form = "json"  -> parse_json(body.items)
      [] body.form = "clash" -> parse_clash(body.items)
      [] body.form = "links" -> parse_many(body.lines)
      [] body.form = "base64" /\ (body.alphabet # "url" \/ ~body.padded) -> parse_many(body.lines)
      [] OTHER -> <<>>

\* Whether subscription::parse fails.  JSON is never refused; a Clash document
\* only when it lists nothing.
Refuses(body) ==
    CASE body.form = "json"  -> FALSE
      [] body.form = "clash" -> body.items = <<>>
      [] OTHER -> ProfilesOf(body) = <<>>

-----------------------------------------------------------------------------
(* The interface *)

Bring == brought < MaxBrought /\ brought' = brought + 1

Come(profiles, from) == [i \in DOMAIN profiles |-> [profile |-> profiles[i], from |-> from]]

Fits(profiles) == Len(servers) + Len(profiles) <= MaxServers

\* The dialog: what parses is added, the rest is counted.
Add(profiles) ==
    /\ profiles # <<>> /\ Fits(profiles)
    /\ servers' = servers \o Come(profiles, "link")

AddLinks(lines) == Bring /\ Add(parse_many(lines)) /\ UNCHANGED clipboard

\* A link copied from the list is pasted into the dialog.
PasteLink ==
    /\ clipboard # <<>>
    /\ Add(parse_many(<<clipboard>>))
    /\ UNCHANGED <<clipboard, brought>>

CopyLink(i) ==
    LET link == to_link(servers[i].profile)
    IN  /\ link # <<>>
        /\ clipboard' = link[1]
        /\ UNCHANGED <<servers, brought>>

\* fetch_subscription and replace_group_profiles: the servers of the group are
\* those of the body, unless the body is refused.
Update(body) ==
    /\ Bring
    /\ ~Refuses(body) /\ Len(ProfilesOf(body)) <= MaxServers
    /\ servers' = Come(ProfilesOf(body), body.form)
    /\ UNCHANGED clipboard

ExchangeInit == servers = <<>> /\ clipboard = <<>> /\ brought = 0

ExchangeNext ==
    \/ \E lines \in Offered : AddLinks(lines)
    \/ PasteLink
    \/ \E i \in DOMAIN servers : CopyLink(i)
    \/ \E body \in Bodies : Update(body)

ExchangeSpec == ExchangeInit /\ [][ExchangeNext]_exchangeVars

-----------------------------------------------------------------------------
(* Properties *)

Without(o, f, members) ==
    IF Has(o, f) THEN [o EXCEPT ![f] = Only(@, DOMAIN @ \ members)] ELSE o

\* What share.rs writes of an outbound.  Against its own comment that a round trip
\* must produce the same outbound it leaves out members that link.rs reads from a
\* link: the early data of a WebSocket, the extra of xhttp, the plugin of
\* shadowsocks, the rates of hysteria2, and of vmess the alpn and the hosts of http.
\* The server name of an HTTPS proxy becomes its address, an empty path the root.
Carried(o) ==
    LET type == Str(o, "type")
        t == Without(Without(o, "transport", {"max_early_data", "extra"}), "tls",
                     IF type = "vmess" THEN {"alpn"} ELSE {})
        h == IF type = "vmess" /\ Str(Part(o, "transport"), "type") = "http"
             THEN Without(t, "transport", {"host"}) ELSE t
        r == IF Has(Part(o, "transport"), "path") /\ o["transport"]["path"] = <<>>
             THEN [h EXCEPT !["transport"]["path"] = Word("/")] ELSE h
        n == IF type = "http" /\ Has(o, "tls") THEN [r EXCEPT !["tls"]["server_name"] = o["server"]] ELSE r
    IN  Only(n, DOMAIN n \ {"plugin", "plugin_opts", "up_mbps", "down_mbps"})

\* The address was not taken whole.  One that parse_naive took with its brackets or
\* with a port nobody can read gains a pair of brackets at each copy (host_for_url).
Whole(p) == ~Holds(p.outbound["server"], "[") /\ ~Holds(p.outbound["server"], ":")

\* A server that came from a link and is copied and pasted keeps its name and all
\* of its outbound that share.rs writes (Carried), whatever the characters in it,
\* unless its address was taken whole (Whole).
CopyKeeps ==
    \A i \in DOMAIN servers :
        LET p == servers[i].profile
        IN  servers[i].from = "link" /\ Whole(p) =>
                parse(to_link(p)[1]) = <<[p EXCEPT !.outbound = Carried(@)]>>

\* Copying settles: a server that was copied and pasted once, from whatever form of
\* subscription, is not changed by the next copy, unless its address was taken
\* whole (Whole): that one changes again at every copy.
CopiesSettle ==
    \A i \in DOMAIN servers :
        LET link  == to_link(servers[i].profile)
            again == IF link = <<>> THEN <<>> ELSE parse(link[1])
        IN  again # <<>> /\ Whole(again[1]) => parse(to_link(again[1])[1]) = again

\* All a link says of a server that runs in Xray reaches Xray; only under
\* reality, `insecure' and the list of protocols do not.  A JSON document may hold
\* servers of that kind that no link makes.
XrayGetsAll ==
    \A i \in DOMAIN servers :
        LET p == servers[i].profile
            o == p.outbound
            x == to_xray_outbound(p, "t")
            t == Only(Part(o, "transport"), DOMAIN Part(o, "transport") \ {"type"})
            s == Only(Part(o, "tls"), DOMAIN Part(o, "tls") \ {"enabled"})
            lost == IF Has(s, "reality") THEN {"insecure", "alpn"} ELSE {}
            said == t ++ Only(s, DOMAIN s \ lost) ++ Only(o, {"server", "server_port", "uuid", "flow"})
        IN  is_xray(p) /\ servers[i].from # "json" =>
                Only(x, DOMAIN said) = said /\ x["network"] = o["transport"]["type"]

\* sing-box is not given the xhttp transport, which it does not have, unless a
\* trojan or vmess link asks for it or a JSON document, whose outbounds are taken
\* as they are; and what a link or Clash gives to Xray converts.
XhttpGoesToXray ==
    \A i \in DOMAIN servers :
        LET p == servers[i].profile
        IN  servers[i].from # "json" =>
            /\ Str(Part(p.outbound, "transport"), "type") = "xhttp" =>
                  is_xray(p) \/ p.outbound["type"] \in {"trojan", "vmess"}
            /\ is_xray(p) => Convertible(p)

-----------------------------------------------------------------------------
(* Why the last two hold: what is known of every server that a link or a   *)
(* Clash document brought, whatever was brought and copied before.         *)

XhttpMembers == {"type", "path", "mode", "host", "extra"}
TlsMembers   == {"enabled", "server_name", "insecure", "alpn", "utls", "reality"}

\* An outbound as parse_vless makes it of an xhttp link.
ForXray(o) ==
    /\ {"type", "server", "server_port", "uuid", "transport"} \subseteq DOMAIN o
    /\ o["transport"]["type"] = "xhttp"
    /\ "type" \in DOMAIN o["transport"] /\ DOMAIN o["transport"] \subseteq XhttpMembers
    /\ Has(o, "tls") => DOMAIN o["tls"] \subseteq TlsMembers

Converted(p) ==
    /\ is_xray(p) => ForXray(p.outbound)
    /\ Str(Part(p.outbound, "transport"), "type") = "xhttp" =>
          is_xray(p) \/ p.outbound["type"] \in {"trojan", "vmess"}

ExchangeInv ==
    /\ servers \in Seq(ToSet(servers))
    /\ \A i \in DOMAIN servers : servers[i].from # "json" => Converted(servers[i].profile)
=============================================================================
