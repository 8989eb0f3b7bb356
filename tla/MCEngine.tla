------------------------------ MODULE MCEngine ------------------------------
(***************************************************************************)
(* Engine with one test task and enough spawns and commands for a test to  *)
(* meet a connection that comes up, is replaced or goes down.              *)
(***************************************************************************)
EXTENDS Engine

\* Every system.  Privileges matter to the VPN mode alone: granted by the client's
\* rights on Linux and by the helper on macOS, never on Windows.
MCHosts == {[os |-> "linux",   elevated |-> TRUE],
            [os |-> "windows", elevated |-> TRUE],
            [os |-> "macos",   elevated |-> FALSE]}

MCLinux == {h \in MCHosts : h.os = "linux"}
=============================================================================
