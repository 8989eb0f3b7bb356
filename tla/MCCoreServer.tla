---------------------------- MODULE MCCoreServer ----------------------------
(***************************************************************************)
(* CoreServer on three Start or Stop requests, with one test or with two   *)
(* moves of the default route: enough for a Start over a running profile   *)
(* followed by a third request, and for a test or a move to fall into any  *)
(* step of any.  Tests and moves share nothing but what the requests       *)
(* write, so that no behaviour has both (Apart).                           *)
(***************************************************************************)
EXTENDS CoreServer, TLC

\* Every sidecar, with and without the extra process and the TUN, in
\* combinations that differ from one request to the next.
MCConfigs ==
    {[extra |-> TRUE,  xray |-> "eager", full |-> TRUE,  tun |-> TRUE],
     [extra |-> FALSE, xray |-> "lazy",  full |-> FALSE, tun |-> FALSE],
     [extra |-> FALSE, xray |-> "none",  full |-> TRUE,  tun |-> TRUE]}

Apart == changes = 0 \/ \A t \in Tests : test[t] = "idle"

Symmetry == Permutations(Requests) \cup Permutations(Interfaces)
=============================================================================
