------------------------------ MODULE MCLibrary ------------------------------
(***************************************************************************)
(* Library with two servers and a subscription that brings them in either  *)
(* order, twice, or one of them alone.  A budget says which operations are *)
(* to meet: updates, tests and deletions; updates and a connection with    *)
(* traffic; connections and the mode switch.                               *)
(***************************************************************************)
EXTENDS Library

CONSTANTS A, B

MCLists == {<<A>>, <<B, A>>, <<A, A>>}

May(ops) == [k \in Spent |-> IF k \in DOMAIN ops THEN ops[k] ELSE 0]

MCBudgets ==
    {May([fetch |-> 2, test |-> 2, delete |-> 1]),
     May([fetch |-> 2, connect |-> 1, traffic |-> 1, add |-> 1]),
     May([connect |-> 2, switch |-> 2, traffic |-> 1, add |-> 2])}
=============================================================================
