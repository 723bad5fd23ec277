------------------------------- MODULE Daemon -------------------------------
(* The daemon of src/src/http/index.ts as `agent-conductor serve` runs it:   *)
(* the WebSocket hub, the HTTP server and the sample store in one process,   *)
(* close(), which ends them in this order, and the signal handlers of        *)
(* src/src/cli/commands/serve.ts, which call close() and then process.exit.  *)
EXTENDS WsHub, HttpDrain

CONSTANTS Signals,     \* the SIGINT / SIGTERM deliveries of a run
          MaxSamples   \* bound: rows the poller writes

ASSUME SamplesAssumption == MaxSamples \in Nat

VARIABLES phase,     \* how far daemon.close() is
          store,     \* the sample store: "off" without --timeseries
          tick,      \* a poller tick is in flight
          written,   \* writtenCount
          reports,   \* what close() returned to each signal's handler
          exited,    \* process.exit(0) was called
          cut        \* responses in flight at that moment

ownVars == <<phase, store, tick, written, reports, exited, cut>>
vars == <<wsVars, httpVars, ownVars>>

\* A handler's report: "waiting" while its await is pending.
Report == [clean : BOOLEAN, samples : 0..MaxSamples]
NoReport == [clean |-> FALSE, samples |-> MaxSamples + 1]
Pending == [clean |-> TRUE, samples |-> MaxSamples + 1]

\* Shapes; the parts are closed in the order of close().
TypeOK ==
  /\ WsTypeOK /\ HttpTypeOK
  /\ phase \in {"up", "ws", "http", "closed"}
  /\ store \in {"off", "open", "closed"}
  /\ tick \in BOOLEAN
  /\ written \in 0..MaxSamples
  /\ reports \in [Signals -> Report \union {NoReport, Pending}]
  /\ exited \in BOOLEAN
  /\ cut \subseteq Conns
  /\ phase = "up" <=> wsClose = "no"
  /\ phase \in {"http", "closed"} <=> drain # "no"
  /\ store = "closed" => phase = "closed"

Init ==
  /\ WsInit /\ HttpInit
  /\ phase = "up"
  /\ store \in {"off", "open"}
  /\ tick = FALSE
  /\ written = 0
  /\ reports = [s \in Signals |-> NoReport]
  /\ exited = FALSE
  /\ cut = {}

-----------------------------------------------------------------------------
\* The parts go on by themselves as long as the process is there.
WsStep == ~exited /\ WsNext /\ ~BeginWsClose /\ UNCHANGED <<httpVars, ownVars>>
HttpStep ==
  ~exited /\ HttpNext /\ ~BeginHttpClose /\ UNCHANGED <<wsVars, ownVars>>

TickStart ==
  /\ ~exited /\ pollers /\ ~tick
  /\ tick' = TRUE
  /\ UNCHANGED <<wsVars, httpVars, phase, store, written, reports, exited, cut>>

\* Mutant: a sample is counted whether or not it could be written.
CountedAlways(n) == IF store = "off" THEN n ELSE n + 1
\* writeMany throws when the store is closed: the batch is dropped uncounted.
Counted(n) == IF store = "open" THEN n + 1 ELSE n

TickEnd ==
  /\ ~exited /\ tick
  /\ written < MaxSamples
  /\ tick' = FALSE
  /\ written' = Counted(written)
  /\ UNCHANGED <<wsVars, httpVars, phase, store, reports, exited, cut>>

\* process.exit(0): whatever is in flight is lost.
Exit == exited' = TRUE /\ cut' = inflight

\* The first signal: close() runs to the await of ws.close().
FirstSignal(s) ==
  /\ ~exited /\ phase = "up" /\ reports[s] = NoReport
  /\ BeginWsClose
  /\ phase' = "ws"
  /\ reports' = [reports EXCEPT ![s] = Pending]
  /\ UNCHANGED <<httpVars, store, tick, written, exited, cut>>

\* Another signal while `closed` is set: close() has no cachedReport yet and
\* makes one up; the handler prints it and exits.
LaterSignal(s) ==
  /\ ~exited /\ phase \in {"ws", "http"} /\ reports[s] = NoReport
  /\ reports' = [reports EXCEPT ![s] = [clean |-> TRUE, samples |-> written]]
  /\ Exit
  /\ UNCHANGED <<wsVars, httpVars, phase, store, tick, written>>

\* Mutant: gracefulClose does not wait for ws.close().
HttpMayCloseAtOnce == phase = "ws"
\* await ws.close(half)
HttpMayClose == phase = "ws" /\ wsClose = "done"

\* ws.close() is over: http.gracefulClose(half) begins.
CloseHttp ==
  /\ ~exited /\ HttpMayClose
  /\ BeginHttpClose
  /\ phase' = "http"
  /\ UNCHANGED <<wsVars, store, tick, written, reports, exited, cut>>

\* store.close()
StoreAfterClose(st) == IF st = "open" THEN "closed" ELSE st

\* gracefulClose is over: the store is closed and the report is made.
Finish ==
  /\ ~exited /\ phase = "http"
  /\ drain \in {"closed clean", "closed forced"}
  /\ phase' = "closed"
  /\ store' = StoreAfterClose(store)
  /\ reports' = [s \in Signals |->
                   IF reports[s] = Pending
                   THEN [clean |-> drain = "closed clean", samples |-> written]
                   ELSE reports[s]]
  /\ UNCHANGED <<wsVars, httpVars, tick, written, exited, cut>>

\* The handler that waited prints the report and exits.
LastExit ==
  /\ ~exited /\ phase = "closed"
  /\ Exit
  /\ UNCHANGED <<wsVars, httpVars, phase, store, tick, written, reports>>

Next ==
  \/ WsStep \/ HttpStep \/ TickStart \/ TickEnd
  \/ CloseHttp \/ Finish \/ LastExit
  \/ \E s \in Signals : FirstSignal(s) \/ LaterSignal(s)

\* Timers, sockets that were destroyed, and the awaits of close() itself.
\* Neither clients nor request handlers have to cooperate.
Fairness ==
  /\ WF_vars(~exited /\ WsDeadline /\ UNCHANGED <<httpVars, ownVars>>)
  /\ WF_vars(~exited /\ WssClosed /\ UNCHANGED <<httpVars, ownVars>>)
  /\ \A c \in Clients :
       WF_vars(/\ ~exited /\ client[c] = "doomed" /\ SocketClosed(c)
               /\ UNCHANGED <<httpVars, ownVars>>)
  /\ WF_vars(~exited /\ HttpDeadline /\ UNCHANGED <<wsVars, ownVars>>)
  /\ WF_vars(~exited /\ HttpClosed /\ UNCHANGED <<wsVars, ownVars>>)
  /\ \A c \in Conns :
       WF_vars(/\ ~exited /\ conn[c] = "idle" /\ Hangup(c)
               /\ UNCHANGED <<wsVars, ownVars>>)
  /\ WF_vars(CloseHttp) /\ WF_vars(Finish) /\ WF_vars(LastExit)

Spec == Init /\ [][Next]_vars /\ Fairness
-----------------------------------------------------------------------------
\* Nothing is closed while another part may use it: HTTP goes on until every
\* WebSocket is dismissed, the store until no response is in flight; and
\* (v0.5-spec AC8) a process whose close() came to its end exits with all of
\* them closed and no response cut off.
ClosedInOrder ==
  /\ ~listening => wsClose = "done"
  /\ store = "closed" => inflight = {}
  /\ exited /\ phase = "closed" => Connected = {} /\ store # "open" /\ cut = {}

\* index.ts:67: a report says httpDrained only if the drain came to its end.
ReportIsTrue ==
  \A s \in Signals :
    reports[s] \in Report /\ reports[s].clean => drain = "closed clean"

\* The number of samples reported is final: no tick that was still running
\* adds to it afterwards.
ReportCountsAll ==
  \A s \in Signals :
    reports[s] \in Report /\ phase = "closed" => reports[s].samples = written

\* After a clean drain a client keeps a connection open, or a handler that was
\* reached over it since then hangs.
HeldOpen == drain = "drained" /\ \E c \in Conns : conn[c] \in {"silent", "busy"}

\* One signal ends the process though clients and handlers hang, whatever the
\* deadlines cover; server.ts:478 is the one wait without a deadline, and only
\* a connection that is held open for ever behind a clean drain stretches it.
SignalEnds == phase # "up" ~> exited \/ []HeldOpen
=============================================================================
