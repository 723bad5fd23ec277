--------------------------- MODULE MCSessionsPoller ---------------------------
(* SessionsPoller with one Claude session, a1, and one of another provider,   *)
(* b1: /snapshot lists the first only unless it is asked for all providers.   *)
EXTENDS SessionsPoller
CONSTANTS a1, b1
BothPids == {a1, b1}
DefaultOrAll == {{a1}, {a1, b1}}
TwoStatuses == {"idle", "working"}
===============================================================================
