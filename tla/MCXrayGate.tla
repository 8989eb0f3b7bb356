---------------------------- MODULE MCXrayGate ----------------------------
(***************************************************************************)
(* XrayGate with two connections and two instances: one connection comes   *)
(* in while the sweep that its predecessor made possible is under way, and *)
(* each of them can bring an instance up.                                  *)
(***************************************************************************)
EXTENDS XrayGate, TLC
=============================================================================
