-------------------------------- MODULE Serve --------------------------------
(* `agent-conductor serve` from its first line to its last: startDaemon opens *)
(* the store, picks a port and listens, while other processes take and free   *)
(* ports; then the daemon of module Daemon runs.  No signal handler is there  *)
(* until startDaemon has returned.                                            *)
EXTENDS Daemon, HttpRoutes

CONSTANTS FirstPort, LastPort, \* DEFAULT_PORT and PORT_SCAN_MAX
          MaxMoves             \* bound: ports taken or freed by others meanwhile

ASSUME PortsAssumption ==
  FirstPort \in Nat /\ LastPort \in Nat /\ FirstPort <= LastPort /\ MaxMoves \in Nat

VARIABLES boot,     \* how far startDaemon is
          explicit, \* --port was given
          port,     \* the port being tried, or bound
          taken,    \* ports that other processes listen on
          moves,    \* counts for the bound
          seen,     \* history: ports a probe found in use
          grabbed,  \* history: the port was taken after its probe was closed
          cause,    \* why startDaemon rejected
          badUrl    \* history: a request came whose URL cannot be parsed

bootVars == <<boot, explicit, port, taken, moves, seen, grabbed, cause, badUrl>>
serveVars == <<vars, bootVars>>

Ports == FirstPort..LastPort
Booting == boot \in {"store", "probe", "probed", "listen"}

\* Shapes; a daemon that is not up has nobody connected.
ServeTypeOK ==
  /\ TypeOK
  /\ boot \in {"store", "probe", "probed", "listen", "up", "failed"}
  /\ explicit \in BOOLEAN /\ grabbed \in BOOLEAN /\ badUrl \in BOOLEAN
  /\ port \in FirstPort..LastPort + 1
  /\ taken \subseteq Ports /\ seen \subseteq Ports
  /\ moves \in 0..MaxMoves
  /\ cause \in {"none", "store", "range", "busy", "error"}
  /\ boot # "up" => Connected = {} /\ inflight = {}

ServeInit ==
  /\ Init
  /\ boot = "store"
  /\ explicit \in BOOLEAN
  /\ port \in IF explicit THEN Ports ELSE {FirstPort}
  /\ taken \in SUBSET Ports
  /\ moves = 0 /\ seen = {} /\ grabbed = FALSE /\ cause = "none"
  /\ badUrl = FALSE

-----------------------------------------------------------------------------
\* Mutant: the error is noted and reject() is not called.
FailUnheard(why) == UNCHANGED boot /\ cause' = why
Fail(why) == boot' = "failed" /\ cause' = why

\* resolveTimeseries, and new TimeseriesStore when it says so, which may throw.
OpenStore ==
  /\ boot = "store"
  /\ \/ /\ boot' = IF explicit THEN "listen" ELSE "probe"
        /\ UNCHANGED cause
     \/ store = "open" /\ Fail("store")
  /\ UNCHANGED <<explicit, port, taken, moves, seen, grabbed, badUrl>>

\* Mutant: the last port is not tried.
PastRangeEarly(p) == p >= LastPort
\* p > max
PastRange(p) == p > LastPort

\* tryPort(p): out of range, in use, some other error, or bound by the probe.
TryPort ==
  /\ boot = "probe"
  /\ \/ PastRange(port) /\ Fail("range") /\ UNCHANGED <<port, seen>>
     \/ /\ ~PastRange(port) /\ port \in taken
        /\ port' = port + 1 /\ seen' = seen \union {port}
        /\ UNCHANGED <<boot, cause>>
     \/ /\ ~PastRange(port) /\ port \notin taken
        /\ boot' = "probed"
        /\ UNCHANGED <<port, seen, cause>>
     \/ ~PastRange(port) /\ Fail("error") /\ UNCHANGED <<port, seen>>
  /\ UNCHANGED <<explicit, taken, moves, grabbed, badUrl>>

\* probe.close(): from here on anybody may bind the port.
ProbeClosed ==
  /\ boot = "probed"
  /\ boot' = "listen"
  /\ UNCHANGED <<explicit, port, taken, moves, seen, grabbed, cause, badUrl>>

\* Once the port is bound nothing reads how it was found.
Forget ==
  /\ explicit' = FALSE /\ taken' = {} /\ moves' = 0
  /\ seen' = {} /\ grabbed' = FALSE

\* server.listen: bound, in use, or some other error.  The store stays open
\* when it fails.
Listen ==
  /\ boot = "listen"
  /\ \/ port \notin taken /\ boot' = "up" /\ Forget /\ UNCHANGED cause
     \/ /\ (port \in taken /\ Fail("busy")) \/ Fail("error")
        /\ UNCHANGED <<explicit, taken, moves, seen, grabbed>>
  /\ UNCHANGED <<port, badUrl>>

BootStep ==
  /\ ~exited
  /\ OpenStore \/ TryPort \/ ProbeClosed \/ Listen
  /\ UNCHANGED vars

\* Another process binds a port that is free, or frees one.
OthersMove ==
  /\ ~exited /\ Booting /\ moves < MaxMoves
  /\ moves' = moves + 1
  /\ \E p \in Ports :
       \/ /\ p \notin taken /\ ~(boot = "probed" /\ p = port)
          /\ taken' = taken \union {p}
          /\ grabbed' = (grabbed \/ (boot = "listen" /\ p = port))
       \/ p \in taken /\ taken' = taken \ {p} /\ UNCHANGED grabbed
  /\ UNCHANGED <<vars, boot, explicit, port, seen, cause, badUrl>>

\* startDaemon rejected (exit code 1), or a signal met no handler yet.
BootEnds ==
  /\ ~exited /\ (Booting \/ boot = "failed")
  /\ Exit
  /\ UNCHANGED <<wsVars, httpVars, phase, store, tick, written, reports, bootVars>>

\* Whether it was for its URL that a request was fatal.
FatalUrls == {req.url = "unparsable" : req \in Fatal}

\* A request whose dispatch rejects: nobody handles it and the process ends.
Unhandled(c) ==
  /\ ~exited /\ boot = "up" /\ conn[c] \in {"silent", "idle"}
  /\ badUrl' \in FatalUrls
  /\ Exit
  /\ UNCHANGED <<wsVars, httpVars, phase, store, tick, written, reports,
                 boot, explicit, port, taken, moves, seen, grabbed, cause>>

ServeNext ==
  \/ boot = "up" /\ Next /\ UNCHANGED bootVars
  \/ BootStep \/ OthersMove \/ BootEnds
  \/ \E c \in Conns : Unhandled(c)

\* The callbacks of listen() and close() come; a rejection ends the process.
ServeSpec ==
  /\ ServeInit /\ [][ServeNext]_serveVars /\ Fairness
  /\ WF_serveVars(BootStep) /\ WF_serveVars(boot = "failed" /\ BootEnds)
-----------------------------------------------------------------------------
\* server.ts:317-324: the port is the first free one, the same again when
\* nothing else has changed: all below it were in use when tried, the range is
\* given up only when all of it was, and listening on a port that the scan
\* found fails only when another process took it after the probe.
BootIsPredictable ==
  /\ boot = "listen" /\ ~explicit => FirstPort..port - 1 \subseteq seen
  /\ cause = "range" => seen = Ports
  /\ cause = "busy" => explicit \/ grabbed

\* startDaemon returns or rejects, and a process whose start failed ends.
BootSettles == Booting \/ boot = "failed" ~> boot = "up" \/ exited

\* Whatever a handler throws is answered with a 500: only a signal, a start
\* that failed, or a URL that cannot be parsed ends the process.
SurvivesRequests == exited => boot # "up" \/ phase # "up" \/ badUrl
=============================================================================
