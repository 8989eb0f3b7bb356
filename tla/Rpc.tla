--------------------------------- MODULE Rpc ---------------------------------
(***************************************************************************)
(* What the channel between the client and the core promises to a caller   *)
(* of CoreClient: a request is executed by the core at most once, and an   *)
(* answer is the outcome of that very request.  An error promises nothing: *)
(* the request of a caller that was told so may still be executed later.   *)
(***************************************************************************)
CONSTANT Calls

VARIABLES
    caller,  \* what each caller knows
    outcome  \* what the core made of each request

vars == <<caller, outcome>>

Outcomes == {"ok", "error"}

Init ==
    /\ caller = [c \in Calls |-> "idle"]
    /\ outcome = [c \in Calls |-> "none"]

Ask(c) ==
    /\ caller[c] = "idle"
    /\ caller' = [caller EXCEPT ![c] = "waiting"]
    /\ UNCHANGED outcome

Execute(c) ==
    /\ caller[c] # "idle"
    /\ outcome[c] = "none"
    /\ \E o \in Outcomes : outcome' = [outcome EXCEPT ![c] = o]
    /\ UNCHANGED caller

Answer(c) ==
    /\ caller[c] = "waiting"
    /\ outcome[c] # "none"
    /\ caller' = [caller EXCEPT ![c] = outcome[c]]
    /\ UNCHANGED outcome

\* The channel broke, the client gave up waiting, or the answer was lost: any
\* number of callers may learn that at once.
Fail(C) ==
    /\ \A c \in C : caller[c] = "waiting"
    /\ caller' = [c \in Calls |-> IF c \in C THEN "failed" ELSE caller[c]]
    /\ UNCHANGED outcome

Next ==
    \/ \E c \in Calls : Ask(c) \/ Execute(c) \/ Answer(c)
    \/ \E C \in SUBSET Calls : Fail(C)

Spec == Init /\ [][Next]_vars
=============================================================================
