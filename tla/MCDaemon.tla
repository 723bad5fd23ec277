------------------------------- MODULE MCDaemon -------------------------------
(* Daemon with a few WebSocket clients, HTTP connections and signals.         *)
EXTENDS Daemon
===============================================================================
