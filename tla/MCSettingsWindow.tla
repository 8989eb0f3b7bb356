--------------------------- MODULE MCSettingsWindow ---------------------------
(* Small values for SettingsWindow. *)
EXTENDS SettingsWindow

MCNumbered(n) == "p-" \o ToString(n)

Cond(kind, values) == [kind |-> kind, values |-> values]
In(mode, rule) == [rule EXCEPT !.mode = mode]
Off(rule) == [rule EXCEPT !.enabled = FALSE]

Site    == Cond("domain_suffix", {"a.example"})
Russian == Cond("rule_set", {"geosite-ru"})
Web     == Cond("port", {"443", "80:90"})
App     == Cond("process", {"browser"})

Old == [name |-> "old", enabled |-> TRUE, conditions |-> <<>>, mode |-> "any",
        action |-> "block", kind |-> "ip_cidr", values |-> {"10.0.0.0/8"}]

Nothing == [json |-> "", rules |-> <<>>]
MCTexts == {Nothing, [json |-> "number", rules |-> <<>>], [json |-> "invalid", rules |-> <<>>],
            [json |-> "object", rules |-> <<GRule(InList("geosite-ru"), "route", "proxy")>>]}

MCStored ==
    {[rules |-> <<Rule("site", <<Site>>, "proxy"), Rule("either", <<Russian, Web>>, "direct")>>,
      custom |-> Nothing, on |-> {"sniffing", "dns_enabled", "dns_routing", "bypass_private"}],
     [rules |-> <<Old, In("all", Rule("both", <<Web, App>>, "proxy")), Off(Rule("off", <<Site>>, "block"))>>,
      custom |-> [json |-> "object", rules |-> <<GRule(InList("geosite-ru"), "route", "proxy")>>],
      on |-> {"dns_enabled", "dns_strategy", "fakedns", "mux_enabled", "vpn",
                "close_to_tray"}]}

FromThrone(name, unsupported, action, id, conditions) ==
    [name |-> name, unsupported |-> unsupported, action |-> action, outbound_id |-> id,
     conditions |-> conditions]

MCThrone ==
    {<<FromThrone("block", FALSE, "route", -3, <<Cond("domain", {}), Site>>),
       FromThrone("dns", TRUE, "route", -1, <<Site>>),
       FromThrone("one", FALSE, "route", 7, <<Site>>)>>,
     <<FromThrone("hijack", FALSE, "hijack-dns", -1, <<Russian>>)>>}

MCTyped == {NewCondition, Cond("rule_set", {"geosite-private", "mylist"}), Cond("port", {"443", Blank})}

MCConns ==
    {[facts |-> f, private |-> p, dns |-> FALSE] : p \in BOOLEAN,
        f \in {{}, {<<"domain_suffix", "a.example">>}, {<<"rule_set", "geosite-ru">>},
               {<<"port", "443">>}, {<<"port", "80:90">>, <<"process", "browser">>},
               {<<"ip_cidr", "10.0.0.0/8">>, <<"process", "browser">>},
               {<<"rule_set", "geosite-private">>},
               {<<"rule_set", "mylist">>, <<"domain_suffix", "a.example">>}}}
    \cup {[facts |-> f, private |-> FALSE, dns |-> TRUE] :
        f \in {{}, {<<"domain_suffix", "a.example">>}, {<<"port", "443">>}}}

Address == ("server" :> "s") @@ ("server_port" :> 443)
Vless   == Address @@ ("type" :> "vless") @@ ("uuid" :> "u")
Vision  == [kind |-> [xray |-> FALSE], outbound |-> Vless @@ ("flow" :> "xtls-rprx-vision")]
WebSocket ==
    [kind |-> [xray |-> FALSE],
     outbound |-> Vless @@ ("transport" :> ("type" :> "ws")) @@ ("tag" :> "own")]
Xhttp ==
    [kind |-> [xray |-> TRUE],
     outbound |-> Vless @@ ("transport" :> (("type" :> "xhttp") @@ ("path" :> "/")))
                        @@ ("tls" :> (("reality" :> "key") @@ ("server_name" :> "n")))]
Native == [kind |-> [xray |-> TRUE], outbound |-> ("protocol" :> "vless") @@ ("tag" :> "own")]
Broken == [kind |-> [xray |-> TRUE], outbound |-> Address @@ ("type" :> "vless")]

Request(purpose, profiles, ports) == [purpose |-> purpose, profiles |-> profiles, ports |-> ports]

MCRequests ==
    {Request("single", <<Vision>>, <<1>>), Request("single", <<Xhttp>>, <<1>>),
     Request("single", <<Broken>>, <<1>>), Request("auto", <<WebSocket, Native, Xhttp>>, <<1, 2, 3>>),
     Request("test", <<Xhttp, Native>>, <<1, 1>>), Request("test", <<Vision, WebSocket>>, <<1, 2>>)}
=============================================================================
