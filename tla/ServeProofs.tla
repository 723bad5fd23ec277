----------------------------- MODULE ServeProofs -----------------------------
(* Theorems about Serve, for any numbers of clients, connections, signals,   *)
(* ports and requests.                                                       *)
EXTENDS Serve, TLAPS

\* The hub: who may join, and what is left when close() has ended.
WsInv ==
  /\ WsTypeOK
  /\ upgrades <=> wsClose = "no"
  /\ PollersFollowClients
  /\ wsClose = "done" => Connected = {}

\* The HTTP server: without a late request everything in flight is watched,
\* and a server that is closed has no connection left.
HttpInv ==
  /\ HttpTypeOK
  /\ listening <=> drain = "no"
  /\ drain # "waiting" => watched = {}
  /\ drain = "waiting" /\ late = 0 => watched = inflight /\ watched # {}
  /\ drain \in {"closed clean", "closed forced"} =>
       \A c \in Conns : conn[c] \in {"none", "ended"}

\* The daemon: close() is where its parts are, and no handler has a report
\* before the process exits or close() has ended.
DaemonInv ==
  /\ WsInv /\ HttpInv /\ TypeOK
  /\ phase \in {"http", "closed"} => wsClose = "done"
  /\ phase = "closed" =>
       store # "open" /\ drain \in {"closed clean", "closed forced"}
  /\ exited /\ phase = "closed" => cut = {}
  /\ ~exited /\ phase # "closed" => \A s \in Signals : reports[s] \notin Report
  /\ ReportCountsAll

\* The start: the scan has been through all ports below the present one, and
\* a port that a probe bound is lost only to somebody who took it since.
BootInv ==
  /\ ServeTypeOK
  /\ boot = "store" /\ ~explicit => port = FirstPort
  /\ boot \in {"probe", "probed"} => ~explicit
  /\ boot \in {"probe", "probed", "listen"} /\ ~explicit =>
       FirstPort..port - 1 \subseteq seen
  /\ boot = "probed" => port \notin taken
  /\ boot = "listen" /\ port \in taken => explicit \/ grabbed
  /\ cause # "none" => boot = "failed"
  /\ BootIsPredictable

\* Everything at once.
ServeInv == DaemonInv /\ BootInv /\ SurvivesRequests

-----------------------------------------------------------------------------
(* The hub.                                                                  *)

\* At first nobody is there and the listener is attached.
LEMMA WsInitInv == WsInit => WsInv
BY DEF WsInit, WsInv, WsTypeOK, PollersFollowClients, Connected, Socket

\* A client joins only while the listener is attached; its pollers are started.
LEMMA WsConnect ==
  ASSUME WsInv, NEW c \in Clients, Connect(c)
  PROVE  WsInv' /\ wsClose' = wsClose /\ wsClose = "no"
BY DEF WsInv, WsTypeOK, PollersFollowClients, Connected, Socket, Connect

\* A client that says good-bye stays connected, and one that returns is not yet.
LEMMA WsHandshake ==
  ASSUME WsInv, NEW c \in Clients, ClientCloses(c) \/ Return(c)
  PROVE  WsInv' /\ wsClose' = wsClose /\ Connected' = Connected
BY DEF WsInv, WsTypeOK, PollersFollowClients, Connected, Socket, ClientCloses,
       Return

\* The end of a socket takes its client out of every set it is in.
LEMMA WsSocketClosed ==
  ASSUME WsInv, NEW c \in Clients, SocketClosed(c)
  PROVE  /\ WsInv' /\ Connected' = Connected \ {c}
         /\ wsClose' = wsClose \/ (wsClose = "draining" /\ wsClose' = "drained")
<1>1. Connected' = Connected \ {c}
  BY DEF WsInv, WsTypeOK, Connected, Socket, SocketClosed
<1>2. wsClose' = wsClose \/ (wsClose = "draining" /\ wsClose' = "drained")
  BY DEF SocketClosed
<1>3. WsTypeOK'
  BY <1>1, <1>2 DEF WsInv, WsTypeOK, Socket, SocketClosed, StillAwaited,
     PollersAfter
<1>4. PollersFollowClients'
  BY <1>1, <1>2 DEF WsInv, WsTypeOK, PollersFollowClients, SocketClosed,
     PollersAfter
<1>5. QED
  BY <1>1, <1>2, <1>3, <1>4 DEF WsInv, SocketClosed

\* close() and its deadline keep every socket where it is counted.
LEMMA WsClosing ==
  ASSUME WsInv, BeginWsClose \/ WsDeadline \/ WssClosed
  PROVE  WsInv' /\ Connected' = Connected /\ wsClose' # "no"
<1>1. Connected' = Connected
  BY DEF WsInv, WsTypeOK, Connected, Socket, BeginWsClose, WsDeadline,
     WssClosed, Terminated
<1>2. CASE BeginWsClose
  BY <1>1, <1>2 DEF WsInv, WsTypeOK, PollersFollowClients, Socket,
     BeginWsClose, UpgradesOff
<1>3. CASE WsDeadline
  <2>1. client' \in [Clients -> Socket]
    BY <1>3 DEF WsInv, WsTypeOK, Socket, WsDeadline, Terminated
  <2>2. QED
    BY <1>1, <1>3, <2>1 DEF WsInv, WsTypeOK, PollersFollowClients, WsDeadline
<1>4. CASE WssClosed
  BY <1>1, <1>4 DEF WsInv, WsTypeOK, PollersFollowClients, WssClosed
<1>5. QED
  BY <1>2, <1>3, <1>4, <1>1

\* What a step of the hub by itself can do: it keeps the invariant, does not
\* begin close(), does not undo it, and lets nobody in while it goes on.
LEMMA WsAlone ==
  ASSUME WsInv, WsNext, ~BeginWsClose
  PROVE  /\ WsInv'
         /\ wsClose' = "no" <=> wsClose = "no"
         /\ wsClose = "done" => wsClose' = "done"
         /\ wsClose # "no" => Connected' \subseteq Connected
<1>1. CASE WsDeadline \/ WssClosed
  BY <1>1, WsClosing DEF WsDeadline, WssClosed
<1>2. CASE \E c \in Clients : Connect(c)
  BY <1>2, WsConnect
<1>3. CASE \E c \in Clients : ClientCloses(c) \/ Return(c)
  BY <1>3, WsHandshake
<1>4. CASE \E c \in Clients : SocketClosed(c)
  BY <1>4, WsSocketClosed
<1>5. QED
  BY <1>1, <1>2, <1>3, <1>4 DEF WsNext

\* A step elsewhere leaves the hub as it was.
LEMMA WsIdle ==
  ASSUME WsInv, UNCHANGED wsVars
  PROVE  WsInv' /\ Connected' = Connected /\ wsClose' = wsClose
BY DEF WsInv, wsVars, WsTypeOK, PollersFollowClients, Connected

-----------------------------------------------------------------------------
(* The HTTP server.                                                          *)

\* At first there is no connection and the server listens.
LEMMA HttpInitInv == HttpInit => HttpInv
BY LateAssumption DEF HttpInit, HttpInv, HttpTypeOK, Busy

\* A connection comes, goes or brings half a request: nothing is in flight on it.
LEMMA HttpIdleConn ==
  ASSUME HttpInv, NEW c \in Conns, Accept(c) \/ HalfRequest(c) \/ Hangup(c)
  PROVE  HttpInv' /\ drain' = drain
<1>1. Busy' = Busy
  BY DEF HttpInv, HttpTypeOK, Busy, Accept, HalfRequest, Hangup
<1>2. HttpTypeOK' /\ drain' = drain /\ UNCHANGED <<listening, watched, inflight, late>>
  BY <1>1 DEF HttpInv, HttpTypeOK, Accept, HalfRequest, Hangup
<1>3. drain \in {"closed clean", "closed forced"} =>
        \A d \in Conns : conn'[d] \in {"none", "ended"}
  BY DEF HttpInv, HttpTypeOK, Accept, HalfRequest, Hangup
<1>4. QED
  BY <1>2, <1>3 DEF HttpInv

\* A request that comes while the server is closing is counted as late.
LEMMA HttpArrive ==
  ASSUME HttpInv, NEW c \in Conns, Arrive(c)
  PROVE  HttpInv' /\ drain' = drain
<1>1. Busy' = Busy \union {c}
  BY DEF HttpInv, HttpTypeOK, Busy, Arrive
<1>2. late' \in 0..MaxLate /\ (drain # "no" => late' # 0)
  <2>1. late \in 0..MaxLate /\ late' <= MaxLate
    BY DEF HttpInv, HttpTypeOK, Arrive
  <2>2. late' = late \/ late' = late + 1
    BY DEF Arrive
  <2>3. drain # "no" => late' = late + 1
    BY DEF Arrive
  <2>4. QED
    BY LateAssumption, <2>1, <2>2, <2>3
<1>3. HttpTypeOK'
  BY <1>1, <1>2 DEF HttpInv, HttpTypeOK, Arrive
<1>4. drain \notin {"closed clean", "closed forced"}
  BY DEF HttpInv, Arrive
<1>5. QED
  BY <1>2, <1>3, <1>4 DEF HttpInv, HttpTypeOK, Arrive

\* The end of a response: the wait ends when it was the last one in flight and
\* a watched one.
LEMMA HttpResponse ==
  ASSUME HttpInv, NEW c \in Conns, NEW whole \in BOOLEAN,
         NEW next \in {"idle", "ended"}, ResponseClosed(c, whole, next)
  PROVE  /\ HttpInv'
         /\ drain' = drain \/ (drain = "waiting" /\ drain' = "drained")
<1>1. Busy' = Busy \ {c} /\ c \in Busy
  BY DEF HttpInv, HttpTypeOK, Busy, ResponseClosed
<1>2. /\ inflight' = inflight \ {c} /\ watched' = watched \ {c}
      /\ drain' = IF drain = "waiting" /\ c \in watched /\ inflight' = {}
                  THEN "drained" ELSE drain
      /\ listening' = listening /\ late' = late
      /\ conn' = [conn EXCEPT ![c] = next]
  BY DEF ResponseClosed, InflightAfter, Check
<1>3. drain \notin {"closed clean", "closed forced"}
  BY DEF HttpInv, ResponseClosed
<1>4. HttpTypeOK'
  BY <1>1, <1>2 DEF HttpInv, HttpTypeOK
<1>5. ASSUME drain' = "waiting", late' = 0
      PROVE  watched' = inflight' /\ watched' # {}
  BY <1>1, <1>2, <1>5 DEF HttpInv, HttpTypeOK
<1>6. drain' # "waiting" => watched' = {}
  BY <1>2, <1>4 DEF HttpInv, HttpTypeOK
<1>7. QED
  BY <1>2, <1>3, <1>4, <1>5, <1>6 DEF HttpInv

\* gracefulClose watches what is in flight when it begins.
LEMMA HttpBegin ==
  ASSUME HttpInv, BeginHttpClose
  PROVE  HttpInv' /\ drain' # "no"
<1>1. Busy' = Busy
  BY DEF HttpInv, HttpTypeOK, Busy, BeginHttpClose, IdleEnded
<1>2. HttpTypeOK'
  BY <1>1 DEF HttpInv, HttpTypeOK, BeginHttpClose, IdleEnded
<1>3. QED
  BY <1>2 DEF HttpInv, HttpTypeOK, BeginHttpClose, IdleEnded

\* The deadline destroys every connection and with it what is in flight.
LEMMA HttpForced ==
  ASSUME HttpInv, HttpDeadline
  PROVE  HttpInv' /\ drain' = "forced"
<1>1. Busy' = {} /\ inflight' = {} /\ watched' = {}
  BY DEF HttpInv, HttpTypeOK, Busy, HttpDeadline, Forced
<1>2. conn' \in [Conns -> {"none", "silent", "idle", "busy", "ended"}]
  BY DEF HttpInv, HttpTypeOK, HttpDeadline, Forced
<1>3. QED
  BY <1>1, <1>2 DEF HttpInv, HttpTypeOK, HttpDeadline

\* The report is returned once no connection is left.
LEMMA HttpReported ==
  ASSUME HttpInv, HttpClosed
  PROVE  /\ HttpInv' /\ drain \notin {"closed clean", "closed forced"}
         /\ drain' \in {"closed clean", "closed forced"}
BY DEF HttpInv, HttpTypeOK, Busy, HttpClosed

\* What a step of the server by itself can do: it keeps the invariant, begins
\* no close, ends none twice, and takes no request once it is closed.
LEMMA HttpAlone ==
  ASSUME HttpInv, HttpNext, ~BeginHttpClose
  PROVE  /\ HttpInv'
         /\ drain' = "no" <=> drain = "no"
         /\ drain \in {"closed clean", "closed forced"} => drain' = drain
<1>1. CASE HttpDeadline
  BY <1>1, HttpForced DEF HttpDeadline
<1>2. CASE HttpClosed
  BY <1>2, HttpReported DEF HttpClosed
<1>3. CASE \E c \in Conns : Accept(c) \/ HalfRequest(c) \/ Hangup(c)
  BY <1>3, HttpIdleConn
<1>4. CASE \E c \in Conns : Arrive(c)
  BY <1>4, HttpArrive
<1>5. CASE \E c \in Conns : Respond(c) \/ Abort(c)
  <2>1. PICK c \in Conns : Respond(c) \/ Abort(c)
    BY <1>5
  <2>2. \E whole \in BOOLEAN, next \in {"idle", "ended"} :
          ResponseClosed(c, whole, next)
    BY <2>1 DEF Respond, Abort
  <2>3. QED
    BY <2>2, HttpResponse
<1>6. QED
  BY <1>1, <1>2, <1>3, <1>4, <1>5 DEF HttpNext

\* A step elsewhere leaves the server as it was.
LEMMA HttpIdle ==
  ASSUME HttpInv, UNCHANGED httpVars
  PROVE  HttpInv' /\ drain' = drain
<1>1. UNCHANGED <<conn, listening, inflight, watched, drain, late>>
  BY DEF httpVars
<1>2. HttpTypeOK'
  BY <1>1 DEF HttpInv, HttpTypeOK, Busy
<1>3. QED
  BY <1>1, <1>2 DEF HttpInv

-----------------------------------------------------------------------------
(* The daemon.                                                               *)

\* At first all parts are up and no handler has been called.
LEMMA DaemonInit == Init => DaemonInv
<1> SUFFICES ASSUME Init
             PROVE  DaemonInv
  OBVIOUS
<1>1. WsInv /\ HttpInv
  BY WsInitInv, HttpInitInv DEF Init
<1>2. phase = "up" /\ wsClose = "no" /\ drain = "no" /\ ~exited /\ cut = {}
  BY DEF Init, WsInit, HttpInit
<1>3. /\ reports \in [Signals -> Report \union {NoReport, Pending}]
      /\ \A s \in Signals : reports[s] \notin Report
  BY SamplesAssumption DEF Init, Report, NoReport
<1>4. TypeOK
  <2>1. store \in {"off", "open"} /\ written = 0 /\ tick = FALSE
    BY DEF Init
  <2>2. exited = FALSE /\ 0 \in 0..MaxSamples
    BY SamplesAssumption DEF Init
  <2>3. QED
    BY <1>1, <1>2, <1>3, <2>1, <2>2 DEF TypeOK, WsInv, HttpInv
<1>5. QED
  BY <1>1, <1>2, <1>3, <1>4 DEF DaemonInv, ReportCountsAll

\* The steps of the parts by themselves.
LEMMA DaemonParts ==
  ASSUME DaemonInv, WsStep \/ HttpStep
  PROVE  DaemonInv'
<1>1. /\ ~exited
      /\ UNCHANGED <<phase, store, tick, written, reports, exited, cut>>
  BY DEF WsStep, HttpStep, ownVars
<1>2. CASE WsStep
  <2>1. UNCHANGED httpVars /\ WsNext /\ ~BeginWsClose
    BY <1>2 DEF WsStep
  <2>2. HttpInv' /\ drain' = drain
    BY <2>1, HttpIdle DEF DaemonInv
  <2>3. /\ WsInv'
        /\ wsClose' = "no" <=> wsClose = "no"
        /\ wsClose = "done" => wsClose' = "done"
    BY <2>1, WsAlone DEF DaemonInv
  <2>4. TypeOK'
    BY <1>1, <2>2, <2>3 DEF DaemonInv, TypeOK, WsInv, HttpInv
  <2>5. QED
    BY <1>1, <2>2, <2>3, <2>4 DEF DaemonInv, ReportCountsAll
<1>3. CASE HttpStep
  <2>1. UNCHANGED wsVars /\ HttpNext /\ ~BeginHttpClose
    BY <1>3 DEF HttpStep
  <2>2. WsInv' /\ wsClose' = wsClose
    BY <2>1, WsIdle DEF DaemonInv
  <2>3. /\ HttpInv'
        /\ drain' = "no" <=> drain = "no"
        /\ drain \in {"closed clean", "closed forced"} => drain' = drain
    BY <2>1, HttpAlone DEF DaemonInv
  <2>4. TypeOK'
    BY <1>1, <2>2, <2>3 DEF DaemonInv, TypeOK, WsInv, HttpInv
  <2>5. QED
    BY <1>1, <2>2, <2>3, <2>4 DEF DaemonInv, ReportCountsAll
<1>4. QED
  BY <1>2, <1>3

\* The poller: a sample that comes after store.close() is not counted.
LEMMA DaemonTicks ==
  ASSUME DaemonInv, TickStart \/ TickEnd
  PROVE  DaemonInv'
<1>1. UNCHANGED <<wsVars, httpVars, phase, store, reports, exited, cut>>
  BY DEF TickStart, TickEnd
<1>2. WsInv' /\ HttpInv' /\ wsClose' = wsClose /\ drain' = drain
  BY <1>1, WsIdle, HttpIdle DEF DaemonInv
<1>3. /\ written' \in 0..MaxSamples /\ tick' \in BOOLEAN
      /\ store # "open" => written' = written
  <2>1. CASE TickStart
    BY <2>1 DEF TickStart, DaemonInv, TypeOK
  <2>2. CASE TickEnd
    <3>1. written \in 0..MaxSamples /\ written < MaxSamples
      BY <2>2 DEF TickEnd, DaemonInv, TypeOK
    <3>2. /\ written' = IF store = "open" THEN written + 1 ELSE written
          /\ tick' = FALSE
      BY <2>2 DEF TickEnd, Counted
    <3>3. written + 1 \in 0..MaxSamples
      BY <3>1, SamplesAssumption
    <3>4. QED
      BY <3>1, <3>2, <3>3
  <2>3. QED
    BY <2>1, <2>2
<1>4. TypeOK'
  BY <1>1, <1>2, <1>3 DEF DaemonInv, TypeOK, WsInv, HttpInv
<1>5. ReportCountsAll'
  BY <1>1, <1>3 DEF DaemonInv, ReportCountsAll
<1>6. QED
  BY <1>1, <1>2, <1>4, <1>5 DEF DaemonInv

\* The first signal begins close(); its handler has no report yet.
LEMMA DaemonFirstSignal ==
  ASSUME DaemonInv, NEW s \in Signals, FirstSignal(s)
  PROVE  DaemonInv'
<1>1. /\ UNCHANGED <<httpVars, store, tick, written, exited, cut>>
      /\ phase = "up" /\ phase' = "ws" /\ ~exited /\ BeginWsClose
      /\ reports' = [reports EXCEPT ![s] = Pending]
  BY DEF FirstSignal
<1>2. WsInv' /\ HttpInv' /\ wsClose' # "no" /\ drain' = drain
  BY <1>1, WsClosing, HttpIdle DEF DaemonInv
<1>3. /\ reports' \in [Signals -> Report \union {NoReport, Pending}]
      /\ \A t \in Signals : reports'[t] \notin Report
  <2>1. Pending \notin Report
    BY SamplesAssumption DEF Pending, Report
  <2>2. QED
    BY <1>1, <2>1 DEF DaemonInv, TypeOK
<1>4. TypeOK'
  BY <1>1, <1>2, <1>3 DEF DaemonInv, TypeOK, WsInv, HttpInv
<1>5. QED
  BY <1>1, <1>2, <1>3, <1>4 DEF DaemonInv, ReportCountsAll

\* The handler of another signal makes up a report and ends the process, so
\* that close() never comes to its own.
LEMMA DaemonLaterSignal ==
  ASSUME DaemonInv, NEW s \in Signals, LaterSignal(s)
  PROVE  DaemonInv'
<1>1. /\ UNCHANGED <<wsVars, httpVars, phase, store, tick, written>>
      /\ phase \in {"ws", "http"} /\ exited' = TRUE /\ cut' = inflight
      /\ reports' = [reports EXCEPT ![s] = [clean |-> TRUE, samples |-> written]]
  BY DEF LaterSignal, Exit
<1>2. WsInv' /\ HttpInv' /\ wsClose' = wsClose /\ drain' = drain
  BY <1>1, WsIdle, HttpIdle DEF DaemonInv
<1>3. [clean |-> TRUE, samples |-> written] \in Report
  BY DEF DaemonInv, TypeOK, Report
<1>4. reports' \in [Signals -> Report \union {NoReport, Pending}]
  BY <1>1, <1>3 DEF DaemonInv, TypeOK
<1>5. cut' \subseteq Conns
  BY <1>1 DEF DaemonInv, HttpInv, HttpTypeOK, Busy
<1>6. TypeOK'
  BY <1>1, <1>2, <1>4, <1>5 DEF DaemonInv, TypeOK, WsInv, HttpInv
<1>7. QED
  BY <1>1, <1>2, <1>6 DEF DaemonInv, ReportCountsAll

\* HTTP is closed after the hub.
LEMMA DaemonCloseHttp ==
  ASSUME DaemonInv, CloseHttp
  PROVE  DaemonInv'
<1>1. /\ UNCHANGED <<wsVars, store, tick, written, reports, exited, cut>>
      /\ phase = "ws" /\ wsClose = "done" /\ phase' = "http" /\ ~exited
      /\ BeginHttpClose
  BY DEF CloseHttp, HttpMayClose
<1>2. WsInv' /\ HttpInv' /\ wsClose' = wsClose /\ drain' # "no"
  BY <1>1, WsIdle, HttpBegin DEF DaemonInv
<1>3. TypeOK'
  BY <1>1, <1>2 DEF DaemonInv, TypeOK, WsInv, HttpInv
<1>4. QED
  BY <1>1, <1>2, <1>3 DEF DaemonInv, ReportCountsAll

\* close() ends: the handlers that wait get the number as it stands, and the
\* store, closed now, cannot add to it.
LEMMA DaemonFinish ==
  ASSUME DaemonInv, Finish
  PROVE  DaemonInv'
<1> DEFINE report == [clean |-> drain = "closed clean", samples |-> written]
<1>1. /\ UNCHANGED <<wsVars, httpVars, tick, written, exited, cut>>
      /\ phase = "http" /\ phase' = "closed" /\ ~exited
      /\ drain \in {"closed clean", "closed forced"}
      /\ store' = StoreAfterClose(store)
      /\ reports' = [s \in Signals |->
                       IF reports[s] = Pending THEN report ELSE reports[s]]
  BY DEF Finish
<1>2. WsInv' /\ HttpInv' /\ wsClose' = wsClose /\ drain' = drain
  BY <1>1, WsIdle, HttpIdle DEF DaemonInv
<1>3. store' \in {"off", "closed"}
  BY <1>1 DEF StoreAfterClose, DaemonInv, TypeOK
<1>4. report \in Report
  BY DEF DaemonInv, TypeOK, Report
<1>5. reports' \in [Signals -> Report \union {NoReport, Pending}]
  BY <1>1, <1>4 DEF DaemonInv, TypeOK
<1>6. TypeOK'
  BY <1>1, <1>2, <1>3, <1>5 DEF DaemonInv, TypeOK, WsInv, HttpInv
<1>7. ASSUME NEW s \in Signals, reports'[s] \in Report
      PROVE  reports'[s].samples = written'
  <2>1. reports[s] \notin Report
    BY <1>1 DEF DaemonInv
  <2>2. reports'[s] = report
    BY <1>1, <1>7, <2>1
  <2>3. report.samples = written
    OBVIOUS
  <2>4. QED
    BY <1>1, <2>2, <2>3
<1>8. QED
  BY <1>1, <1>2, <1>3, <1>6, <1>7 DEF DaemonInv, ReportCountsAll

\* The process ends after close(), with nothing in flight.
LEMMA DaemonLastExit ==
  ASSUME DaemonInv, LastExit
  PROVE  DaemonInv'
<1>1. /\ UNCHANGED <<wsVars, httpVars, phase, store, tick, written, reports>>
      /\ phase = "closed" /\ exited' = TRUE /\ cut' = inflight
  BY DEF LastExit, Exit
<1>2. WsInv' /\ HttpInv' /\ wsClose' = wsClose /\ drain' = drain
  BY <1>1, WsIdle, HttpIdle DEF DaemonInv
<1>3. cut' = {}
  BY <1>1 DEF DaemonInv, HttpInv, HttpTypeOK, Busy
<1>4. TypeOK'
  BY <1>1, <1>2, <1>3 DEF DaemonInv, TypeOK, WsInv, HttpInv
<1>5. QED
  BY <1>1, <1>2, <1>3, <1>4 DEF DaemonInv, ReportCountsAll

\* Every step of the daemon keeps what is true of it.
LEMMA DaemonStep ==
  ASSUME DaemonInv, Next
  PROVE  DaemonInv'
<1>1. CASE WsStep \/ HttpStep
  BY <1>1, DaemonParts
<1>2. CASE TickStart \/ TickEnd
  BY <1>2, DaemonTicks
<1>3. CASE CloseHttp \/ Finish \/ LastExit
  BY <1>3, DaemonCloseHttp, DaemonFinish, DaemonLastExit
<1>4. CASE \E s \in Signals : FirstSignal(s) \/ LaterSignal(s)
  BY <1>4, DaemonFirstSignal, DaemonLaterSignal
<1>5. QED
  BY <1>1, <1>2, <1>3, <1>4 DEF Next

\* A step that is not the daemon's leaves it as it was.
LEMMA DaemonIdle ==
  ASSUME DaemonInv, UNCHANGED vars
  PROVE  DaemonInv' /\ Connected' = Connected /\ inflight' = inflight
<1>1. /\ UNCHANGED <<wsVars, httpVars>>
      /\ UNCHANGED <<phase, store, tick, written, reports, exited, cut>>
  BY DEF vars, ownVars
<1>2. /\ WsInv' /\ HttpInv' /\ wsClose' = wsClose /\ drain' = drain
      /\ Connected' = Connected
  BY <1>1, WsIdle, HttpIdle DEF DaemonInv
<1>3. TypeOK'
  BY <1>1, <1>2 DEF DaemonInv, TypeOK, WsInv, HttpInv
<1>4. inflight' = inflight
  BY <1>1 DEF httpVars
<1>5. QED
  BY <1>1, <1>2, <1>3, <1>4 DEF DaemonInv, ReportCountsAll

\* What is proved of the daemon is what its run checks.
LEMMA DaemonSafe ==
  DaemonInv => PollersFollowClients /\ DrainIsWatched /\ ClosedInOrder /\ ReportCountsAll
<1> SUFFICES ASSUME DaemonInv
             PROVE  /\ PollersFollowClients /\ DrainIsWatched
                    /\ ClosedInOrder /\ ReportCountsAll
  OBVIOUS
<1>1. DrainIsWatched
  BY DEF DaemonInv, HttpInv, DrainIsWatched
<1>2. ~listening => wsClose = "done"
  BY DEF DaemonInv, HttpInv, TypeOK
<1>3. phase = "closed" => store # "open" /\ inflight = {} /\ Connected = {}
  BY DEF DaemonInv, WsInv, HttpInv, HttpTypeOK, Busy
<1>4. ClosedInOrder
  BY <1>2, <1>3 DEF DaemonInv, TypeOK, ClosedInOrder
<1>5. QED
  BY <1>1, <1>4 DEF DaemonInv, WsInv

\* A daemon that is closing stays so, and before that nothing but a signal's
\* handler ends the process.
LEMMA DaemonExits ==
  ASSUME Next
  PROVE  /\ phase # "up" => phase' # "up"
         /\ exited' = exited \/ phase' # "up"
<1>1. CASE WsStep \/ HttpStep
  BY <1>1 DEF WsStep, HttpStep, ownVars
<1>2. CASE TickStart \/ TickEnd \/ CloseHttp \/ Finish \/ LastExit
  BY <1>2 DEF TickStart, TickEnd, CloseHttp, Finish, LastExit
<1>3. CASE \E s \in Signals : FirstSignal(s) \/ LaterSignal(s)
  BY <1>3 DEF FirstSignal, LaterSignal
<1>4. QED
  BY <1>1, <1>2, <1>3 DEF Next

-----------------------------------------------------------------------------
(* The start, and the process from its start to its end.                     *)

\* Only a URL that cannot be parsed makes a request fatal: a method or a host
\* that is refused is answered before, and what a handler throws is caught.
LEMMA FatalIsUnparsable == FatalUrls \subseteq {TRUE}
<1>1. ASSUME NEW req \in HttpRequest, req.url # "unparsable"
      PROVE  "throws" \notin DispatchHttp(req)
  <2>1. \A o : Caught(o) \in {"200", "500"}
    BY DEF Caught
  <2>2. \A S : "throws" \notin {Caught(o) : o \in S}
    BY <2>1
  <2>3. "throws" \notin Routed(req)
    BY <2>2 DEF Routed
  <2>4. QED
    BY <1>1, <2>3 DEF DispatchHttp
<1>2. QED
  BY <1>1 DEF FatalUrls, Fatal

\* At first nothing has been tried.
LEMMA ServeInitInv == ServeInit => ServeInv
<1> SUFFICES ASSUME ServeInit
             PROVE  ServeInv
  OBVIOUS
<1>1. DaemonInv
  BY DaemonInit DEF ServeInit
<1>2. Connected = {} /\ inflight = {} /\ exited = FALSE
  BY DEF ServeInit, Init, WsInit, HttpInit, Connected
<1>3. ServeTypeOK
  <2>1. port \in FirstPort..LastPort + 1
    BY PortsAssumption DEF ServeInit, Ports
  <2>2. 0 \in 0..MaxMoves
    BY PortsAssumption
  <2>3. QED
    BY <1>1, <1>2, <2>1, <2>2 DEF ServeInit, ServeTypeOK, DaemonInv
<1>4. BootInv
  BY <1>3 DEF ServeInit, BootInv, BootIsPredictable
<1>5. QED
  BY <1>1, <1>2, <1>4 DEF ServeInv, SurvivesRequests

\* The store is opened, or its constructor throws.
LEMMA BootOpenStore ==
  ASSUME ServeInv, BootStep, OpenStore
  PROVE  BootInv'
<1>1. TypeOK' /\ Connected' = Connected /\ inflight' = inflight
  BY DaemonIdle DEF ServeInv, BootStep, DaemonInv
<1>2. UNCHANGED <<explicit, port, taken, moves, seen, grabbed, badUrl>>
  BY DEF OpenStore
<1>3. CASE boot = "store" /\ boot' = "failed" /\ cause' = "store"
  BY <1>1, <1>2, <1>3 DEF ServeInv, BootInv, ServeTypeOK, BootIsPredictable
<1>4. CASE /\ boot = "store" /\ cause' = cause
           /\ boot' = IF explicit THEN "listen" ELSE "probe"
  BY <1>1, <1>2, <1>4, PortsAssumption
     DEF ServeInv, BootInv, ServeTypeOK, BootIsPredictable, Ports
<1>5. QED
  BY <1>3, <1>4 DEF OpenStore, Fail

\* A probe goes on to the next port, binds this one, or the scan fails.
LEMMA BootTryPort ==
  ASSUME ServeInv, BootStep, TryPort
  PROVE  BootInv'
<1>1. TypeOK' /\ Connected' = Connected /\ inflight' = inflight
  BY DaemonIdle DEF ServeInv, BootStep, DaemonInv
<1>2. UNCHANGED <<explicit, taken, moves, grabbed, badUrl>> /\ boot = "probe"
  BY DEF TryPort
<1>3. /\ port \in FirstPort..LastPort + 1 /\ FirstPort \in Nat /\ LastPort \in Nat
      /\ seen \subseteq Ports /\ FirstPort..port - 1 \subseteq seen /\ ~explicit
  BY <1>2, PortsAssumption DEF ServeInv, BootInv, ServeTypeOK
<1>4. CASE /\ ~(port > LastPort) /\ port \in taken /\ port' = port + 1
           /\ seen' = seen \union {port} /\ UNCHANGED <<boot, cause>>
  <2>1. port' \in FirstPort..LastPort + 1 /\ FirstPort..port' - 1 \subseteq seen'
    BY <1>3, <1>4
  <2>2. seen' \subseteq Ports
    BY <1>3, <1>4 DEF Ports
  <2>3. QED
    BY <1>1, <1>2, <1>3, <1>4, <2>1, <2>2
       DEF ServeInv, BootInv, ServeTypeOK, BootIsPredictable
<1>5. CASE /\ port > LastPort /\ boot' = "failed" /\ cause' = "range"
           /\ UNCHANGED <<port, seen>>
  <2>1. seen = Ports
    <3>1. port - 1 = LastPort
      BY <1>3, <1>5
    <3>2. QED
      BY <1>3, <3>1 DEF Ports
  <2>2. QED
    BY <1>1, <1>2, <1>5, <2>1
       DEF ServeInv, BootInv, ServeTypeOK, BootIsPredictable
<1>6. CASE /\ port \notin taken /\ boot' = "probed"
           /\ UNCHANGED <<port, seen, cause>>
  BY <1>1, <1>2, <1>3, <1>6
     DEF ServeInv, BootInv, ServeTypeOK, BootIsPredictable
<1>7. CASE boot' = "failed" /\ cause' = "error" /\ UNCHANGED <<port, seen>>
  BY <1>1, <1>2, <1>7 DEF ServeInv, BootInv, ServeTypeOK, BootIsPredictable
<1>8. QED
  BY <1>4, <1>5, <1>6, <1>7 DEF TryPort, PastRange, Fail

\* Between the end of the probe and listen() the port is anybody's.
LEMMA BootListen ==
  ASSUME ServeInv, BootStep, ProbeClosed \/ Listen
  PROVE  BootInv'
<1>1. TypeOK' /\ Connected' = Connected /\ inflight' = inflight
  BY DaemonIdle DEF ServeInv, BootStep, DaemonInv
<1>2. CASE ProbeClosed
  BY <1>1, <1>2
     DEF ServeInv, BootInv, ServeTypeOK, BootIsPredictable, ProbeClosed
<1>3. CASE Listen /\ boot' = "up"
  <2>1. /\ UNCHANGED <<port, badUrl, cause>> /\ cause = "none"
        /\ explicit' = FALSE /\ taken' = {} /\ moves' = 0 /\ seen' = {}
        /\ grabbed' = FALSE
    BY <1>3 DEF Listen, Forget, Fail, ServeInv, BootInv
  <2>2. 0 \in 0..MaxMoves
    BY PortsAssumption
  <2>3. QED
    BY <1>1, <1>3, <2>1, <2>2
       DEF ServeInv, BootInv, ServeTypeOK, BootIsPredictable
<1>4. CASE Listen /\ boot' # "up"
  BY <1>1, <1>4
     DEF ServeInv, BootInv, ServeTypeOK, BootIsPredictable, Listen, Fail
<1>5. QED
  BY <1>2, <1>3, <1>4

\* Others take and free ports, but not the one that is bound by the probe.
LEMMA BootOthersMove ==
  ASSUME ServeInv, OthersMove
  PROVE  BootInv'
<1>1. TypeOK' /\ Connected' = Connected /\ inflight' = inflight
  BY DaemonIdle DEF ServeInv, OthersMove, DaemonInv
<1>2. UNCHANGED <<boot, explicit, port, seen, cause, badUrl>>
  BY DEF OthersMove
<1>3. moves' \in 0..MaxMoves
  <2>1. moves \in 0..MaxMoves /\ moves < MaxMoves /\ moves' = moves + 1
    BY DEF ServeInv, BootInv, ServeTypeOK, OthersMove
  <2>2. QED
    BY <2>1, PortsAssumption
<1>4. /\ taken' \subseteq Ports /\ grabbed' \in BOOLEAN
      /\ boot = "probed" => port \notin taken'
      /\ boot = "listen" /\ port \in taken' => explicit \/ grabbed'
      /\ grabbed => grabbed'
  <2>1. PICK p \in Ports :
          \/ /\ p \notin taken /\ ~(boot = "probed" /\ p = port)
             /\ taken' = taken \union {p}
             /\ grabbed' = (grabbed \/ (boot = "listen" /\ p = port))
          \/ p \in taken /\ taken' = taken \ {p} /\ UNCHANGED grabbed
    BY DEF OthersMove
  <2>2. QED
    BY <2>1 DEF ServeInv, BootInv, ServeTypeOK
<1>5. QED
  BY <1>1, <1>2, <1>3, <1>4
     DEF ServeInv, BootInv, ServeTypeOK, BootIsPredictable

\* Every step, the last one of a start that fails and a fatal request included.
LEMMA ServeStep ==
  ASSUME ServeInv, ServeNext
  PROVE  ServeInv'
<1>1. CASE boot = "up" /\ Next /\ UNCHANGED bootVars
  <2>1. DaemonInv'
    BY <1>1, DaemonStep DEF ServeInv
  <2>2. UNCHANGED <<boot, explicit, port, taken, moves, seen, grabbed, cause, badUrl>>
    BY <1>1 DEF bootVars
  <2>3. BootInv'
    BY <1>1, <2>1, <2>2
       DEF ServeInv, DaemonInv, BootInv, ServeTypeOK, BootIsPredictable
  <2>4. SurvivesRequests'
    BY <1>1, <2>2, DaemonExits DEF ServeInv, SurvivesRequests
  <2>5. QED
    BY <2>1, <2>3, <2>4 DEF ServeInv
<1>2. CASE BootStep \/ OthersMove
  <2>1. DaemonInv'
    BY <1>2, DaemonIdle DEF ServeInv, BootStep, OthersMove
  <2>2. BootInv'
    BY <1>2, BootOpenStore, BootTryPort, BootListen, BootOthersMove DEF BootStep
  <2>3. exited' = exited /\ ~exited
    BY <1>2 DEF BootStep, OthersMove, vars, ownVars
  <2>4. QED
    BY <2>1, <2>2, <2>3 DEF ServeInv, SurvivesRequests
<1>3. CASE BootEnds \/ \E c \in Conns : Unhandled(c)
  <2>1. /\ UNCHANGED <<wsVars, httpVars, phase, store, tick, written, reports>>
        /\ exited' = TRUE /\ cut' = inflight
        /\ UNCHANGED <<boot, explicit, port, taken, moves, seen, grabbed, cause>>
    BY <1>3 DEF BootEnds, Unhandled, Exit, bootVars
  <2>2. badUrl' \in BOOLEAN /\ (boot = "up" => badUrl')
    BY <1>3, FatalIsUnparsable
       DEF BootEnds, Unhandled, Booting, bootVars, ServeInv, BootInv, ServeTypeOK
  <2>3. WsInv' /\ HttpInv' /\ wsClose' = wsClose /\ drain' = drain
    BY <2>1, WsIdle, HttpIdle DEF ServeInv, DaemonInv
  <2>4. cut' \subseteq Conns /\ (phase = "closed" => cut' = {})
    BY <2>1 DEF ServeInv, DaemonInv, HttpInv, HttpTypeOK, Busy
  <2>5. TypeOK'
    BY <2>1, <2>3, <2>4 DEF ServeInv, DaemonInv, TypeOK, WsInv, HttpInv
  <2>6. DaemonInv'
    BY <2>1, <2>3, <2>4, <2>5 DEF ServeInv, DaemonInv, ReportCountsAll
  <2>7. Connected' = Connected /\ inflight' = inflight
    BY <2>1, WsIdle DEF ServeInv, DaemonInv, httpVars
  <2>8. BootInv'
    BY <2>1, <2>2, <2>5, <2>7 DEF ServeInv, BootInv, ServeTypeOK, BootIsPredictable
  <2>9. QED
    BY <2>1, <2>2, <2>6, <2>8 DEF ServeInv, SurvivesRequests
<1>4. QED
  BY <1>1, <1>2, <1>3 DEF ServeNext

\* A step that changes nothing.
LEMMA ServeIdle ==
  ASSUME ServeInv, UNCHANGED serveVars
  PROVE  ServeInv'
<1>1. /\ UNCHANGED vars
      /\ UNCHANGED <<boot, explicit, port, taken, moves, seen, grabbed, cause, badUrl>>
  BY DEF serveVars, bootVars
<1>2. DaemonInv' /\ Connected' = Connected /\ inflight' = inflight
  BY <1>1, DaemonIdle DEF ServeInv
<1>3. exited' = exited /\ phase' = phase
  BY <1>1 DEF vars, ownVars
<1>4. BootInv'
  BY <1>1, <1>2 DEF ServeInv, DaemonInv, BootInv, ServeTypeOK, BootIsPredictable
<1>5. QED
  BY <1>1, <1>2, <1>3, <1>4 DEF ServeInv, SurvivesRequests

\* The inductive invariant holds in every reachable state.
THEOREM ServeInvariant == ServeSpec => []ServeInv
<1>1. ServeInit => ServeInv
  BY ServeInitInv
<1>2. ServeInv /\ [ServeNext]_serveVars => ServeInv'
  BY ServeStep, ServeIdle
<1>3. QED
  BY <1>1, <1>2, PTL DEF ServeSpec

\* The shapes of the whole process; a daemon that is not up has nobody connected.
THEOREM ServeTypeCorrect == ServeSpec => []ServeTypeOK
<1>1. ServeInv => ServeTypeOK
  BY DEF ServeInv, BootInv
<1>2. QED
  BY <1>1, ServeInvariant, PTL

\* The pollers run exactly while a client is subscribed and close() has not
\* begun (maybeStopPollers and ensurePollersRunning of ws.ts).
THEOREM PollersAreRight == ServeSpec => []PollersFollowClients
<1>1. ServeInv => PollersFollowClients
  BY DaemonSafe DEF ServeInv
<1>2. QED
  BY <1>1, ServeInvariant, PTL

\* gracefulClose waited for every response in flight when it began, and never
\* misses the last of them when no request comes after it.
THEOREM DrainIsSafe == ServeSpec => []DrainIsWatched
<1>1. ServeInv => DrainIsWatched
  BY DaemonSafe DEF ServeInv
<1>2. QED
  BY <1>1, ServeInvariant, PTL

\* close() of index.ts closes HTTP after the sockets and the store after HTTP,
\* and a process that exits after it leaves nothing behind.
THEOREM CloseIsOrdered == ServeSpec => []ClosedInOrder
<1>1. ServeInv => ClosedInOrder
  BY DaemonSafe DEF ServeInv
<1>2. QED
  BY <1>1, ServeInvariant, PTL

\* No sample is written after close() has reported their number.
THEOREM ReportsAreFinal == ServeSpec => []ReportCountsAll
<1>1. ServeInv => ReportCountsAll
  BY DaemonSafe DEF ServeInv
<1>2. QED
  BY <1>1, ServeInvariant, PTL

\* The port scan takes the first free port, and fails only when it must.
THEOREM ScanIsPredictable == ServeSpec => []BootIsPredictable
<1>1. ServeInv => BootIsPredictable
  BY DEF ServeInv, BootInv
<1>2. QED
  BY <1>1, ServeInvariant, PTL

\* No request ends the process unless its URL cannot be parsed.
THEOREM RequestsAreSurvived == ServeSpec => []SurvivesRequests
<1>1. ServeInv => SurvivesRequests
  BY DEF ServeInv
<1>2. QED
  BY <1>1, ServeInvariant, PTL

\* Once close() of ws.ts has begun, no step lets a client in.
THEOREM NobodyJoinsLate == ServeSpec => NoneJoinsLate
<1> DEFINE Kept == wsClose # "no" => Connected' \subseteq Connected
<1>1. ServeInv /\ [ServeNext]_serveVars => [Kept]_wsVars
  <2> SUFFICES ASSUME ServeInv, [ServeNext]_serveVars, wsClose # "no"
               PROVE  Connected' \subseteq Connected
    OBVIOUS
  <2>1. WsInv
    BY DEF ServeInv, DaemonInv
  <2>2. CASE UNCHANGED wsVars
    BY <2>1, <2>2, WsIdle
  <2>3. CASE WsNext /\ ~BeginWsClose
    BY <2>1, <2>3, WsAlone
  <2>4. CASE BeginWsClose
    BY <2>4 DEF BeginWsClose
  <2>5. UNCHANGED wsVars \/ (WsNext /\ ~BeginWsClose) \/ BeginWsClose
    <3>1. CASE UNCHANGED serveVars
      BY <3>1 DEF serveVars, vars
    <3>2. CASE Next
      BY <3>2 DEF Next, WsStep, HttpStep, TickStart, TickEnd, CloseHttp, Finish,
         LastExit, FirstSignal, LaterSignal
    <3>3. CASE BootStep \/ OthersMove \/ BootEnds \/ \E c \in Conns : Unhandled(c)
      BY <3>3 DEF BootStep, OthersMove, BootEnds, Unhandled, vars
    <3>4. QED
      BY <3>1, <3>2, <3>3 DEF ServeNext
  <2>6. QED
    BY <2>2, <2>3, <2>4, <2>5
<1>2. QED
  BY <1>1, ServeInvariant, PTL DEF ServeSpec, NoneJoinsLate
==============================================================================
