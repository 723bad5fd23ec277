------------------------------ MODULE HttpRoutes ------------------------------
(* dispatchHttp of src/src/http/server.ts, by what a request comes to: a      *)
(* status, or "throws" when the listener's promise is rejected.               *)
EXTENDS Naturals

\* A Host header: a name, perhaps in brackets, perhaps with a port.
Host == [name : {"127.0.0.1", "localhost", "::1", "other"}, bracket : BOOLEAN,
         closed : BOOLEAN, port : BOOLEAN]
NoHost == [name |-> "", bracket |-> FALSE, closed |-> FALSE, port |-> FALSE]

\* What is left of the header when its port has been cut off.  Of "::1" without
\* brackets the last colon is taken for the one before the port.
BareName(host) ==
  CASE host.bracket -> IF host.closed THEN host.name ELSE ""
    [] ~host.bracket /\ host.name = "::1" /\ ~host.port -> ":"
    [] OTHER -> host.name

IsLoopbackHost(host) ==
  host # NoHost /\ BareName(host) \in {"127.0.0.1", "localhost", "::1"}

HttpRequest ==
  [method : {"GET", "HEAD", "POST"}, host : Host \union {NoHost},
   url : {"unparsable", "/", "/health", "/snapshot", "/sessions", "/audit",
          "/metrics", "other"},
   provider : {"all", "known", "unknown"}]

-----------------------------------------------------------------------------
(* The handlers, by what they can come to: "ok" or a throw.                  *)

\* The providers' discover() never rejects; an unknown name does.
DiscoverSessions(provider) == IF provider = "unknown" THEN {"throw"} ELSE {"ok"}
HandleSnapshot(req) == DiscoverSessions(req.provider)
HandleSessions(req) == DiscoverSessions(req.provider)
\* An audit log that is not there is an empty one; one that cannot be read throws.
HandleAudit(req) == {"ok", "throw"}
HandleHealth(req) == {"ok"}
\* The store may be closed or its file gone by the time its rows are read.
RenderPrometheus == {"ok", "throw"}
\* An audit log that cannot be measured is left out.
SafeAuditBytes == {"ok"}
HandleMetrics(req) == RenderPrometheus \union SafeAuditBytes

\* Mutant: the handlers are called outside the try block.
CaughtNot(outcome) == IF outcome = "throw" THEN "throws" ELSE "200"
\* catch (err) { return { status: 500 } }
Caught(outcome) == IF outcome = "throw" THEN "500" ELSE "200"

Routed(req) ==
  CASE req.url \in {"/", "/health"} -> {Caught(o) : o \in HandleHealth(req)}
    [] req.url = "/snapshot" -> {Caught(o) : o \in HandleSnapshot(req)}
    [] req.url = "/sessions" -> {Caught(o) : o \in HandleSessions(req)}
    [] req.url = "/audit" -> {Caught(o) : o \in HandleAudit(req)}
    [] req.url = "/metrics" -> {Caught(o) : o \in HandleMetrics(req)}
    [] OTHER -> {"404"}

\* The gates come first; parseQuery's new URL() is not in the try block.
DispatchHttp(req) ==
  CASE req.method \notin {"GET", "HEAD"} -> {"405"}
    [] req.method \in {"GET", "HEAD"} /\ ~IsLoopbackHost(req.host) -> {"403"}
    [] OTHER -> IF req.url = "unparsable" THEN {"throws"} ELSE Routed(req)

\* Requests that may end the process, since nobody handles their rejection.
Fatal == {req \in HttpRequest : "throws" \in DispatchHttp(req)}
=============================================================================
