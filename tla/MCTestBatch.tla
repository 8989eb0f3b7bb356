----------------------------- MODULE MCTestBatch -----------------------------
(***************************************************************************)
(* TestBatch with two batches of two tags that share a buffer, the speed   *)
(* querier or the context, under a limit that lets one tag wait and under  *)
(* one that does not bind.                                                 *)
(***************************************************************************)
EXTENDS TestBatch

CONSTANTS b1, b2

Req(k, n) == [kind |-> k, limit |-> n]

MCMixes == {[b \in {b1, b2} |-> IF b = b1 THEN m[1] ELSE m[2]] : m \in
    {<<Req("url", 1),     Req("url", 500)>>,
     <<Req("ip", 1),      Req("country", 1)>>,
     <<Req("country", 0), Req("speed", 0)>>,
     <<Req("speed", 0),   Req("speed", 0)>>}}
=============================================================================
