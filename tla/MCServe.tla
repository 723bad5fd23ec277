-------------------------------- MODULE MCServe --------------------------------
(* The daemon from its start: a scan of three ports, then a few WebSocket     *)
(* clients, HTTP connections and signals.                                     *)
EXTENDS Serve
===============================================================================
