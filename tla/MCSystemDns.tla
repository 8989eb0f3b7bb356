----------------------------- MODULE MCSystemDns -----------------------------
(* Small values for SystemDns: lan is set by hand and lists IPv6 last, wifi has *)
(* DHCP, and usb has DHCP with nothing to offer but IPv6, which it lists first. *)
EXTENDS SystemDns, FiniteSets, TLC

CONSTANTS wifi, lan, usb

MCResolvers  == {"9.9.9.9", "8.8.8.8", "192.168.0.1"}
MCResolvers6 == {"fd00::1"}
MCInterfaces == {wifi, lan, usb}
MCManual  == (lan :> <<"9.9.9.9", "8.8.8.8">>) @@ [i \in {wifi, usb} |-> <<>>]
MCOffered == (usb :> <<>>) @@ [i \in {wifi, lan} |-> <<"192.168.0.1">>]
MCSix     == (wifi :> <<>>) @@ [i \in {lan, usb} |-> <<"fd00::1">>]
MCSixFirst == {wifi, usb}

\* A failed call takes the place of a step, and two cores at once are given fewer.
Within == steps + faults <= (IF Cardinality(running) > 1 THEN 2 ELSE 4)

MCAlike == Permutations(Cores) \cup Permutations(Requests)
=============================================================================
