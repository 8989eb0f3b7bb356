--------------------------------- MODULE Links ---------------------------------
(***************************************************************************)
(* Server links: crates/config/src/link.rs, and what it uses of            *)
(* profile.rs.                                                             *)
(*                                                                         *)
(* A text is a sequence of tokens.  A token is <<s>>, a word or a          *)
(* separator as it stands; <<"%", s>>, the same percent-encoded; or        *)
(* <<content, alphabet, padded>>, a piece of base64: the alphabet is "std" *)
(* or "url", or "both" when no character tells them apart.  The empty text *)
(* stands for an absent parameter, which the code treats alike.  A parser  *)
(* returns a sequence of one profile, or the empty one for an error.       *)
(***************************************************************************)
EXTENDS Generate

CONSTANTS
    Ports,      \* the words that parse as a u16 other than 0
    Numbers,    \* the words that parse as a u32
    Colons,     \* the words of an address that contain colons
    Values      \* the words that parse as JSON

T(words) == [i \in DOMAIN words |-> <<words[i]>>]
Word(s)  == <<<<s>>>>

\* The one word of a text, for texts that are compared with names.
NameIn(text) == IF Len(text) = 1 /\ Len(text[1]) = 1 THEN text[1][1] ELSE "?"

Places(text, s) == {i \in DOMAIN text : text[i] = <<s>>}
Holds(text, s)  == Places(text, s) # {}

\* split_once and rsplit_once at a place that was found.
Before(text, i) == SubSeq(text, 1, i - 1)
After(text, i)  == SubSeq(text, i + 1, Len(text))
FirstAt(text, s) == FirstOf(Places(text, s), 0)
LastAt(text, s)  == CHOOSE i \in Places(text, s) : \A j \in Places(text, s) : j <= i

\* Everything before the first s, and everything after it.
Head1(text, s) == IF Holds(text, s) THEN Before(text, FirstAt(text, s)) ELSE text
Tail1(text, s) == IF Holds(text, s) THEN After(text, FirstAt(text, s)) ELSE <<>>

Split(text, s) ==
    FoldLeft(LAMBDA acc, t : IF t = <<s>> THEN Append(acc, <<>>)
                             ELSE [acc EXCEPT ![Len(acc)] = Append(@, t)],
             <<<<>>>>, text)

NonEmpty(texts) == LET Some(t) == t # <<>> IN SelectSeq(texts, Some)

urldecode(text) == [i \in DOMAIN text |-> IF Len(text[i]) = 2 THEN <<text[i][2]>> ELSE text[i]]

\* decode_b64: the three engines; padded text in the URL alphabet is left out.
Decodes(text) ==
    /\ Len(text) = 1 /\ Len(text[1]) = 3
    /\ text[1][2] # "url" \/ ~text[1][3]
decode_b64(text) == text[1][1]

-----------------------------------------------------------------------------
(* Raw *)

\* Raw::parse of a link that has a scheme.
RawParse(link) ==
    LET rest  == Tail1(link, "://")
        front == Head1(rest, "#")
        Pair(p) == [key |-> urldecode(Head1(p, "=")), value |-> urldecode(Tail1(p, "="))]
        pairs == NonEmpty(Split(Tail1(front, "?"), "&"))
    IN  [scheme   |-> NameIn(Head1(link, "://")),
         body     |-> Head1(front, "?"),
         query    |-> [i \in DOMAIN pairs |-> Pair(pairs[i])],
         fragment |-> urldecode(Tail1(rest, "#"))]

q(raw, key) ==
    LET i == FirstOf({k \in DOMAIN raw.query : raw.query[k].key = Word(key)}, 0)
    IN  IF i = 0 THEN <<>> ELSE raw.query[i].value

Or(text, default) == IF text = <<>> THEN default ELSE text
q_or(raw, key, default) == Or(q(raw, key), default)
q_bool(raw, key) == q(raw, key) \in {Word("1"), Word("true"), Word("True")}

\* parse_port and split_host_port: a sequence of one [host, port], or none.
Address(host, port) ==
    IF NameIn(port) \in Ports THEN <<[host |-> host, port |-> port]>> ELSE <<>>

split_host_port(s) ==
    IF s # <<>> /\ s[1] = <<"[">>
    THEN LET tail == Tail1(s, "]")
         IN  IF Holds(s, "]") /\ tail # <<>> /\ tail[1] = <<":">>
             THEN Address(Tail(Head1(s, "]")), Tail(tail)) ELSE <<>>
    ELSE IF Holds(s, ":") /\ LastAt(s, ":") > 1
         THEN Address(Before(s, LastAt(s, ":")), After(s, LastAt(s, ":"))) ELSE <<>>

\* Raw::userinfo_host_port, its two parts.
User(body)     == IF Holds(body, "@") THEN Before(body, LastAt(body, "@")) ELSE <<>>
HostPort(body) == IF Holds(body, "@") THEN After(body, LastAt(body, "@")) ELSE body

-----------------------------------------------------------------------------
(* Sections of an outbound *)

Opt(member, text) == IF text = <<>> THEN <<>> ELSE member := text
On(member, cond)  == IF cond THEN member := TRUE ELSE <<>>

build_tls(raw, default_sni, has_reality) ==
    LET sni  == Or(q(raw, "sni"), Or(q(raw, "peer"), Or(q(raw, "host"), default_sni)))
        alpn == NonEmpty(Split(q(raw, "alpn"), ","))
    IN  ("enabled" := TRUE)
        ++ Opt("server_name", sni)
        ++ On("insecure", \E k \in {"allowInsecure", "insecure", "allow_insecure"} : q_bool(raw, k))
        ++ Opt("alpn", alpn)
        ++ Opt("utls", q_or(raw, "fp", IF has_reality THEN Word("chrome") ELSE <<>>))
        ++ (IF has_reality
            THEN "reality" := [public_key |-> q(raw, "pbk"), short_id |-> q(raw, "sid")]
            ELSE <<>>)

\* tls_from_query, as the member of an outbound.
tls_from_query(raw) ==
    LET has_reality == q(raw, "pbk") # <<>>
    IN  IF q_or(raw, "security", Word("none")) = Word("none") /\ ~has_reality THEN <<>>
        ELSE "tls" := build_tls(raw, <<>>, has_reality)

tls_always(raw, default_sni) ==
    "tls" := build_tls(raw, default_sni, q(raw, "pbk") # <<>>)

\* The path of a WebSocket may end in the amount of early data.
WsTransport(path, host, ed) ==
    LET in_path == NameIn(Tail1(path, "?ed="))
        early   == IF in_path \in Numbers THEN Word(in_path)
                   ELSE IF NameIn(ed) \in Numbers THEN ed ELSE <<>>
    IN  ("type" := "ws") ++ ("path" := Head1(path, "?ed=")) ++ Opt("headers", host)
        ++ Opt("max_early_data", early)

\* transport_from_query, as the member of an outbound.
transport_from_query(raw) ==
    LET kind == NameIn(q_or(raw, "type", Word("tcp")))
        host == q(raw, "host")
        path == q_or(raw, "path", Word("/"))
        extra == IF NameIn(q(raw, "extra")) \in Values THEN q(raw, "extra") ELSE <<>>
        Section(t) == "transport" := t
    IN  CASE kind = "ws" -> Section(WsTransport(path, host, q(raw, "ed")))
          [] kind = "grpc" ->
                Section(("type" := "grpc")
                        ++ ("service_name" := Or(q(raw, "serviceName"), q(raw, "path"))))
          [] kind \in {"http", "h2"} ->
                Section(("type" := "http") ++ ("path" := path)
                        ++ (IF host = <<>> THEN <<>> ELSE "host" := Split(host, ",")))
          [] kind = "httpupgrade" ->
                Section(("type" := kind) ++ ("path" := path) ++ Opt("host", host))
          [] kind \in {"xhttp", "splithttp"} ->
                Section(("type" := "xhttp") ++ ("path" := path)
                        ++ ("mode" := q_or(raw, "mode", Word("auto")))
                        ++ Opt("host", host) ++ Opt("extra", extra))
          [] OTHER -> <<>>

-----------------------------------------------------------------------------
(* Protocols.  Each takes the parsed link and its address. *)

Profile(name, outbound) == [kind |-> [xray |-> FALSE], name |-> name, outbound |-> outbound]

Outbound(type, at) == ("type" := type) ++ ("server" := at.host) ++ ("server_port" := at.port)

\* user:pass, where the code asks for both and a user that is not empty.
Login(userinfo) ==
    IF Holds(userinfo, ":") /\ Head1(userinfo, ":") # <<>>
    THEN ("username" := Head1(userinfo, ":")) ++ ("password" := Tail1(userinfo, ":"))
    ELSE <<>>

\* Mutant: the second name of xhttp is forgotten.
IsXhttpByOneName(raw) == q(raw, "type") = Word("xhttp")
IsXhttp(raw) == NameIn(q(raw, "type")) \in {"xhttp", "splithttp"}

parse_vless(raw, user, at) ==
    IF user = <<>> THEN <<>>
    ELSE <<[Profile(<<>>, Outbound("vless", at) ++ ("uuid" := user) ++ Opt("flow", q(raw, "flow"))
                          ++ ("packet_encoding" := "xudp")
                          ++ tls_from_query(raw) ++ transport_from_query(raw))
            EXCEPT !.kind.xray = IsXhttp(raw)]>>

parse_trojan(raw, user, at) ==
    IF user = <<>> THEN <<>>
    ELSE <<Profile(<<>>, Outbound("trojan", at) ++ ("password" := user)
                         ++ tls_always(raw, at.host) ++ transport_from_query(raw))>>

parse_hysteria2(raw, user, at) ==
    LET Rate(key) == IF NameIn(q(raw, key)) \in Numbers THEN q(raw, key) ELSE <<>>
        obfs == q(raw, "obfs-password")
    IN  <<Profile(<<>>, Outbound("hysteria2", at) ++ ("password" := user)
            ++ (IF obfs = <<>> THEN <<>>
                ELSE "obfs" := [type |-> q_or(raw, "obfs", Word("salamander")), password |-> obfs])
            ++ Opt("up_mbps", Rate("upmbps")) ++ Opt("down_mbps", Rate("downmbps"))
            ++ tls_always(raw, at.host))>>

parse_tuic(raw, user, at) ==
    IF Head1(user, ":") = <<>> THEN <<>>
    ELSE <<Profile(<<>>, Outbound("tuic", at)
            ++ ("uuid" := Head1(user, ":")) ++ ("password" := Tail1(user, ":"))
            ++ ("congestion_control" := q_or(raw, "congestion_control", Word("bbr")))
            ++ ("udp_relay_mode" := q_or(raw, "udp_relay_mode", Word("native")))
            ++ tls_always(raw, at.host))>>

parse_socks(user, at) ==
    <<Profile(<<>>, Outbound("socks", at) ++ ("version" := "5")
                    ++ Login(IF Decodes(user) THEN decode_b64(user) ELSE user))>>

parse_http(raw, user, at) ==
    <<Profile(<<>>, Outbound("http", at) ++ Login(user)
        ++ (IF raw.scheme = "https"
            THEN "tls" := (("enabled" := TRUE) ++ ("server_name" := q_or(raw, "sni", at.host)))
            ELSE <<>>))>>

parse_anytls(raw, user, at) ==
    <<Profile(<<>>, Outbound("anytls", at) ++ ("password" := user) ++ tls_always(raw, at.host))>>

\* An address that does not parse is taken whole, with the default port.
NaiveAddress(body) ==
    LET given == split_host_port(HostPort(body))
    IN  IF given # <<>> THEN given
        ELSE IF HostPort(body) = <<>> THEN <<>>
        ELSE <<[host |-> HostPort(body), port |-> Word("443")]>>

parse_naive(raw, user, at) ==
    LET quic == raw.scheme = "naive+quic"
    IN  <<Profile(<<>>, Outbound("naive", at) ++ Login(user) ++ On("quic", quic)
            ++ (IF quic THEN Opt("quic_congestion_control", q(raw, "congestion_control")) ELSE <<>>)
            ++ On("udp_over_tcp", q_bool(raw, "uot"))
            ++ tls_always(raw, at.host))>>

\* Both formats of ss: only the user part in base64, or plain, or all of it.
parse_shadowsocks(raw) ==
    LET whole == ~Holds(raw.body, "@")
        body  == IF ~whole THEN raw.body ELSE IF Decodes(raw.body) THEN decode_b64(raw.body) ELSE <<>>
        at    == split_host_port(HostPort(body))
        info  == User(body)
        login == IF whole THEN info ELSE IF Decodes(info) THEN decode_b64(info) ELSE urldecode(info)
        plugin == q(raw, "plugin")
    IN  IF ~Holds(body, "@") \/ at = <<>> \/ ~Holds(login, ":") THEN <<>>
        ELSE <<Profile(<<>>, Outbound("shadowsocks", at[1])
                ++ ("method" := Head1(login, ":")) ++ ("password" := Tail1(login, ":"))
                ++ Opt("plugin", Head1(plugin, ";")) ++ Opt("plugin_opts", Tail1(plugin, ";")))>>

\* vmess: base64 of a JSON object, here a function from its keys; transport and
\* encryption are read as if they were parameters of a link.
parse_vmess(payload) ==
    LET v == IF Decodes(payload) THEN decode_b64(payload) ELSE <<>>
        Get(k) == IF k \in DOMAIN v THEN v[k] ELSE <<>>
        Param(key, text) == [key |-> Word(key), value |-> text]
        synth == [scheme |-> "vmess", body |-> <<>>, fragment |-> <<>>,
                  query |-> <<Param("type", Get("net")), Param("host", Get("host")),
                              Param("path", Get("path")), Param("serviceName", Get("path")),
                              Param("security", Get("tls")), Param("sni", Or(Get("sni"), Get("host"))),
                              Param("alpn", Get("alpn")), Param("fp", Get("fp"))>>]
        at == Address(Get("add"), Get("port"))
    IN  IF at = <<>> \/ Get("add") = <<>> \/ Get("id") = <<>> THEN <<>>
        ELSE <<Profile(Get("ps"), Outbound("vmess", at[1]) ++ ("uuid" := Get("id"))
                ++ ("alter_id" := Or(Get("aid"), Word("0")))
                ++ ("security" := Or(Get("scy"), Word("auto")))
                ++ ("packet_encoding" := "xudp")
                ++ (IF NameIn(Get("tls")) \in {"tls", "reality"} THEN tls_from_query(synth) ELSE <<>>)
                ++ transport_from_query(synth))>>

-----------------------------------------------------------------------------
(* A link, and a list of them *)

host_for_url(host) ==
    IF \E i \in DOMAIN host : host[i][1] \in Colons \cup {":"}
    THEN <<<<"[">>>> \o host \o <<<<"]">>>> ELSE host

\* Profile::address
address(o) == host_for_url(o["server"]) \o Word(":") \o o["server_port"]

Protocol(raw, link) ==
    LET at   == IF raw.scheme \in {"naive+https", "naive+quic"} THEN NaiveAddress(raw.body)
                ELSE split_host_port(HostPort(raw.body))
        user == urldecode(User(raw.body))
    IN  CASE raw.scheme = "vmess" -> parse_vmess(Tail1(link, "://"))
          [] raw.scheme = "ss"    -> parse_shadowsocks(raw)
          [] at = <<>>            -> <<>>
          [] raw.scheme = "vless" -> parse_vless(raw, user, at[1])
          [] raw.scheme = "trojan" -> parse_trojan(raw, user, at[1])
          [] raw.scheme \in {"hysteria2", "hy2"} -> parse_hysteria2(raw, user, at[1])
          [] raw.scheme = "tuic"  -> parse_tuic(raw, user, at[1])
          [] raw.scheme \in {"socks", "socks5"} -> parse_socks(user, at[1])
          [] raw.scheme \in {"http", "https"}   -> parse_http(raw, user, at[1])
          [] raw.scheme = "anytls" -> parse_anytls(raw, user, at[1])
          [] raw.scheme \in {"naive+https", "naive+quic"} -> parse_naive(raw, user, at[1])
          [] OTHER -> <<>>

\* parse
parse(link) ==
    LET raw   == RawParse(link)
        found == IF Holds(link, "://") THEN Protocol(raw, link) ELSE <<>>
        Named(p) == [p EXCEPT !.name = Or(raw.fragment, Or(@, address(p.outbound)))]
    IN  [i \in DOMAIN found |-> Named(found[i])]

\* parse_many: the lines that parse; comments and empty lines are not errors.
parse_many(lines) == Joined([i \in DOMAIN lines |-> parse(lines[i])])

=============================================================================
