---------------------------- MODULE MCIpcChannel ----------------------------
(***************************************************************************)
(* IpcChannel with three calls through a channel of one place: one call is *)
(* under way, one is queued and one waits for room when something breaks.  *)
(* There are as many request numbers as calls, so the numbers wrap.        *)
(***************************************************************************)
EXTENDS IpcChannel, TLC
=============================================================================
