------------------------------- MODULE MCDaemon -------------------------------
(* The daemon with two callers of its control socket and the CLI.          *)
EXTENDS Daemon
=============================================================================
