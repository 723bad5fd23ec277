------------------------------ MODULE HttpDrain ------------------------------
(* The HTTP server of src/src/http/server.ts: requests in flight, and         *)
(* gracefulClose, which waits for them up to a deadline.  A connection is     *)
(* kept alive between requests and carries one request at a time.             *)
(*   "silent"  nothing, or part of a request, has come since it was accepted  *)
(*             or since its last response: Node does not count it as idle;    *)
(*   "idle"    a response is over and nothing has come since;                 *)
(*   "busy"    its request is being handled.                                  *)
EXTENDS Naturals, FiniteSets

CONSTANTS Conns,    \* connections
          MaxLate   \* bound: requests that come once the server is closing

ASSUME LateAssumption == MaxLate \in Nat

VARIABLES conn,       \* where each connection is
          listening,  \* the server accepts connections
          inflight,   \* the `inflight` set, by connection
          watched,    \* responses that have gracefulClose's `check` listener
          drain,      \* how far gracefulClose is
          late        \* history: requests that came since it began

httpVars == <<conn, listening, inflight, watched, drain, late>>

Busy == {c \in Conns : conn[c] = "busy"}

\* Shapes; inflight has exactly the responses that are not over.
HttpTypeOK ==
  /\ conn \in [Conns -> {"none", "silent", "idle", "busy", "ended"}]
  /\ listening \in BOOLEAN
  /\ inflight = Busy
  /\ watched \subseteq inflight
  /\ drain \in {"no", "waiting", "drained", "forced", "closed clean", "closed forced"}
  /\ late \in 0..MaxLate

HttpInit ==
  /\ conn = [c \in Conns |-> "none"]
  /\ listening = TRUE
  /\ inflight = {}
  /\ watched = {}
  /\ drain = "no"
  /\ late = 0

-----------------------------------------------------------------------------
Accept(c) ==
  /\ listening
  /\ conn[c] \in {"none", "ended"}
  /\ conn' = [conn EXCEPT ![c] = "silent"]
  /\ UNCHANGED <<listening, inflight, watched, drain, late>>

\* The first bytes of the next request; the rest may never come.
HalfRequest(c) ==
  /\ conn[c] = "idle"
  /\ conn' = [conn EXCEPT ![c] = "silent"]
  /\ UNCHANGED <<listening, inflight, watched, drain, late>>

\* The request listener: inflight.add(res), then dispatchHttp.  A connection
\* that was there before server.close() can still carry a request.
Arrive(c) ==
  /\ conn[c] \in {"silent", "idle"}
  /\ late' = IF drain = "no" THEN late ELSE late + 1
  /\ late' <= MaxLate
  /\ conn' = [conn EXCEPT ![c] = "busy"]
  /\ inflight' = inflight \union {c}
  /\ UNCHANGED <<listening, watched, drain>>

\* Mutant: the listener is on 'finish', which an aborted response never emits.
InflightAfterFinish(c, whole) == IF whole THEN inflight \ {c} ELSE inflight
\* res.once("close", () => inflight.delete(res))
InflightAfter(c, whole) == inflight \ {c}

\* Mutant: what is in flight is counted before the delete.
CheckTooEarly(c, left) ==
  drain = "waiting" /\ c \in watched /\ left \union {c} = {}
\* `check`, run after the delete: registered later on the same event.
Check(c, left) == drain = "waiting" /\ c \in watched /\ left = {}

\* The response of c emits 'close', complete or not; the connection goes on
\* or is over.
ResponseClosed(c, whole, next) ==
  /\ conn[c] = "busy"
  /\ conn' = [conn EXCEPT ![c] = next]
  /\ inflight' = InflightAfter(c, whole)
  /\ watched' = watched \ {c}
  /\ drain' = IF Check(c, inflight') THEN "drained" ELSE drain
  /\ UNCHANGED <<listening, late>>

Respond(c) == \E next \in {"idle", "ended"} : ResponseClosed(c, TRUE, next)
Abort(c) == ResponseClosed(c, FALSE, "ended")

\* The client closes the connection; an idle one keepAliveTimeout ends too.
Hangup(c) ==
  /\ conn[c] \in {"silent", "idle"}
  /\ conn' = [conn EXCEPT ![c] = "ended"]
  /\ UNCHANGED <<listening, inflight, watched, drain, late>>

\* server.close() ends the connections that are idle, and no others.
IdleEnded(c) == IF conn[c] = "idle" THEN "ended" ELSE conn[c]

\* gracefulClose: server.close() refuses new connections; responses in flight
\* at this moment get the `check` listener.
BeginHttpClose ==
  /\ drain = "no"
  /\ listening' = FALSE
  /\ conn' = [c \in Conns |-> IdleEnded(c)]
  /\ watched' = inflight
  /\ drain' = IF inflight = {} THEN "drained" ELSE "waiting"
  /\ UNCHANGED <<inflight, late>>

\* server.closeAllConnections()
Forced(c) == IF conn[c] \in {"silent", "idle", "busy"} THEN "ended" ELSE conn[c]

\* setTimeout(() => resolve(false), timeoutMs), then step 3 of gracefulClose;
\* the responses of the destroyed connections emit 'close'.
HttpDeadline ==
  /\ drain = "waiting"
  /\ drain' = "forced"
  /\ conn' = [c \in Conns |-> Forced(c)]
  /\ inflight' = {c \in inflight : conn'[c] = "busy"}
  /\ watched' = watched \intersect inflight'
  /\ UNCHANGED <<listening, late>>

\* await closePromise: every connection is over; the report is returned.
HttpClosed ==
  /\ drain \in {"drained", "forced"}
  /\ \A c \in Conns : conn[c] \in {"none", "ended"}
  /\ drain' = IF drain = "drained" THEN "closed clean" ELSE "closed forced"
  /\ UNCHANGED <<conn, listening, inflight, watched, late>>

HttpNext ==
  \/ BeginHttpClose \/ HttpDeadline \/ HttpClosed
  \/ \E c \in Conns :
       \/ Accept(c) \/ HalfRequest(c) \/ Arrive(c)
       \/ Respond(c) \/ Abort(c) \/ Hangup(c)

\* Timers fire.  A handler runs ps, tmux or lsof and may never come back; a
\* client may never send the rest of its request.  Node's own check for such
\* clients (headersTimeout) is stopped by server.close().
HttpFairness ==
  /\ WF_httpVars(HttpDeadline) /\ WF_httpVars(HttpClosed)
  /\ \A c \in Conns : WF_httpVars(conn[c] = "idle" /\ Hangup(c))

HttpSpec == HttpInit /\ [][HttpNext]_httpVars /\ HttpFairness

-----------------------------------------------------------------------------
\* index.ts:67: httpDrained is true when the requests in flight were over
\* before the timeout.  The wait is given up as timed out only while a
\* response is in flight.
TimeoutMeansBusy ==
  [][drain = "waiting" /\ drain' = "forced" => inflight # {}]_httpVars

\* A drain that is reported clean waited for every response that was in
\* flight when it began; and the wake-up is never lost among those: with no
\* later request, waiting means that one of them still is in flight.
DrainIsWatched ==
  /\ drain \in {"drained", "closed clean"} => watched = {}
  /\ drain = "waiting" /\ late = 0 => watched # {}
==============================================================================
