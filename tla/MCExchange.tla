------------------------------ MODULE MCExchange ------------------------------
(* Small values for Exchange: links with every combination of a few members. *)
EXTENDS Exchange

MCNumbered(n) == "p-" \o ToString(n)

Fed(words) == [key |-> words[1], value |-> T(Tail(words))]

\* A text as another program would escape it.
Quoted(text) == [i \in DOMAIN text |-> IF text[i][1] \in Special THEN <<"%", text[i][1]>> ELSE text[i]]

\* A link from decoded parts.
Made(scheme, user, host, params, name) ==
    LET Written(p) == Word(p.key) \o Word("=") \o Quoted(p.value)
        query == JoinedBy([i \in DOMAIN params |-> Written(params[i])], "&")
    IN  Word(scheme) \o Word("://") \o (IF user = <<>> THEN <<>> ELSE user \o Word("@")) \o host
        \o (IF query = <<>> THEN <<>> ELSE Word("?") \o query)
        \o (IF name = <<>> THEN <<>> ELSE Word("#") \o Quoted(name))

At(host) == T(<<host, ":", "443">>)
V6 == T(<<"[", "::1", "]", ":", "443">>)
Name == T(<<"a", "#", "&", "=">>)

Security == {<<>>, <<Fed(<<"security", "tls">>)>>,
             <<Fed(<<"security", "reality">>), Fed(<<"pbk", "key">>), Fed(<<"sid", "ba">>)>>}
Kinds == {<<>>, <<Fed(<<"type", "ws">>), Fed(<<"path", "/ws", "?ed=", "2048">>)>>,
          <<Fed(<<"type", "ws">>), Fed(<<"ed", "2048">>)>>,
          <<Fed(<<"type", "ws">>), Fed(<<"path", "?ed=", "2048">>)>>,
          <<Fed(<<"type", "grpc">>), Fed(<<"serviceName", "svc">>)>>,
          <<Fed(<<"type", "h2">>), Fed(<<"path", "/ws">>)>>,
          <<Fed(<<"type", "httpupgrade">>)>>, <<Fed(<<"type", "splithttp">>)>>,
          <<Fed(<<"type", "xhttp">>), Fed(<<"mode", "stream-one">>), Fed(<<"extra", "{}">>)>>}
More == <<Fed(<<"sni", "n">>), Fed(<<"host", "c", ",", "d">>), Fed(<<"fp", "firefox">>),
          Fed(<<"alpn", "h2", ",", "h3">>), Fed(<<"allowInsecure", "1">>)>>

\* Every subset of some parameters, in their order.
Some(pool) ==
    {Joined([i \in DOMAIN pool |-> IF i \in S THEN <<pool[i]>> ELSE <<>>]) : S \in SUBSET DOMAIN pool}
Streams == {s \o k \o m : s \in Security, k \in Kinds, m \in Some(More)}
Quic == Some(More \o <<Fed(<<"obfs", "salamander">>), Fed(<<"obfs-password", "zz", "&">>),
                        Fed(<<"upmbps", "2048">>)>>)
Flow == <<Fed(<<"flow", "xtls-rprx-vision">>)>>

Vmess(words, subset) ==
    [k \in {"add", "port", "id", "net", "tls"} \cup subset |->
        CASE k = "add" -> Word("h") [] k = "port" -> Word("443") [] k = "id" -> Word("u")
          [] k \in DOMAIN words -> Word(words[k])
          [] OTHER -> T(<<"x", ",", "y">>)]

VmessLinks ==
    {Word("vmess") \o Word("://") \o base64(Vmess([net |-> n, tls |-> t], s), "std", TRUE) :
        n \in {"tcp", "ws", "grpc", "h2", "splithttp"}, t \in {"tls", "none"},
        s \in SUBSET {"host", "path", "sni", "fp", "alpn", "ps"}}

Login2 == T(<<"u", ":", "p">>)
Escaped == Quoted(T(<<"p", "@", ":">>))
Plain == <<Fed(<<"plugin", "obfs", ";", "host">>)>>

Links ==
    {Made("vless", Word("u"), At("h"), s, Name) : s \in Streams}
    \cup {Made("vless", Word("u"), V6, Flow \o s, <<>>) : s \in Security}
    \cup {Made("trojan", Escaped, At("h"), s, Name) : s \in Streams}
    \cup {Made("hy2", Login2, V6, s, Name) : s \in Quic}
    \cup {Made("tuic", Login2, At("h"), s, Name) : s \in Some(More)}
    \cup {Made("anytls", Escaped, At("h"), s, <<>>) : s \in Some(More)}
    \cup {Made(x, Login2, a, s, Name) : x \in {"naive+https", "naive+quic", "socks", "http", "https"},
            a \in {At("h"), V6, T(<<"h">>), T(<<"[", "::1", "]">>), T(<<"h", ":", "99999">>)},
            s \in {<<>>, <<Fed(<<"sni", "n">>)>>, <<Fed(<<"uot", "1">>)>>,
                   <<Fed(<<"congestion_control", "bbr">>)>>}}
    \cup {Made("ss", u, At("h"), s, Name) : u \in {Login2, base64(Login2, "url", FALSE)}, s \in {<<>>, Plain}}
    \cup {Made("ss", <<>>, base64(Login2 \o Word("@") \o At("h"), "std", TRUE), <<>>, Name),
          Made("socks", base64(Login2, "both", FALSE), At("h"), <<>>, <<>>),
          Made("vless", <<>>, At("h"), <<>>, Name), Made("vless", Word("u"), T(<<"h">>), <<>>, Name)}
    \cup VmessLinks

MCOffered == {<<l>> : l \in Links} \cup {<<Word("junk"), Made("trojan", Escaped, At("h"), <<>>, <<>>)>>}

Clash(type, more) == ("type" :> type) @@ ("server" :> Word("h")) @@ ("port" :> Word("443")) @@ more

Proxies ==
    {Clash(t, c @@ m @@ n) :
        t \in {"vless", "vmess", "trojan", "ss", "hysteria2", "tuic", "socks5", "http", "snell"},
        c \in {<<>>, ("uuid" :> Word("u")) @@ ("password" :> Word("p")) @@ ("username" :> Word("u"))
                     @@ ("cipher" :> Word("m")) @@ ("name" :> Name)},
        m \in {<<>>, ("tls" :> TRUE) @@ ("skip-cert-verify" :> TRUE) @@ ("alpn" :> <<Word("h2")>>),
               ("tls" :> TRUE) @@ ("servername" :> Word("n"))
                 @@ ("reality-opts" :> ("public-key" :> Word("key")))},
        n \in {<<>>, "network" :> "ws", ("network" :> "ws") @@ ("ws-opts" :> ("Host" :> Word("c"))),
               "network" :> "grpc", "network" :> "h2"}}

Body(form, lines, items) ==
    [form |-> form, lines |-> lines, items |-> items, alphabet |-> "std", padded |-> TRUE]
Encoded(lines, alphabet, padded) ==
    [form |-> "base64", lines |-> lines, items |-> <<>>, alphabet |-> alphabet, padded |-> padded]

Good == Made("trojan", Escaped, At("h"), <<>>, Name)
Json == Outbound("vless", [host |-> Word("h"), port |-> Word("443")])
        @@ ("uuid" :> Word("u")) @@ ("tag" :> Name)

MCBodies ==
    {Body("clash", <<>>, <<p>>) : p \in Proxies}
    \cup {Body("clash", <<>>, <<>>), Body("empty", <<>>, <<>>),
          Body("json", <<>>, <<>>), Body("json", <<>>, <<"protocol" :> "vless">>),
          Body("json", <<>>, <<Json, "type" :> "selector">>),
          Body("json", <<>>, <<Json @@ ("transport" :> ("type" :> "xhttp")), "type" :> "xrayvless">>),
          Body("links", <<Good, Word("junk")>>, <<>>), Body("links", <<Word("junk")>>, <<>>)}
    \cup {Encoded(<<Good>>, a, p) : a \in {"std", "url", "both"}, p \in BOOLEAN}
=============================================================================
