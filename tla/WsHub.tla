-------------------------------- MODULE WsHub --------------------------------
(* attachWebSocket of src/src/http/ws.ts: clients of /events, the broadcaster *)
(* they subscribe to, the two pollers that run while somebody listens, and    *)
(* close(), which says good-bye with code 1001 and waits for an answer up to  *)
(* a deadline.                                                                *)
EXTENDS Naturals, FiniteSets

CONSTANT Clients

VARIABLES client,       \* where each client's socket is
          subscribers,  \* clients whose callback is in the broadcaster
          pollers,      \* stopReminders # null and stopSessions # null
          upgrades,     \* the 'upgrade' listener is attached to the server
          wsClose,      \* how far close() is
          awaited       \* clients whose 'close' still counts down `remaining`

wsVars == <<client, subscribers, pollers, upgrades, wsClose, awaited>>

\* "closing": a close frame was sent or received, the socket is still there;
\* "doomed": terminate() was called; "gone": the 'close' event was emitted.
Socket == {"away", "open", "closing", "doomed", "gone"}
\* wss.clients
Connected == {c \in Clients : client[c] \in {"open", "closing", "doomed"}}

\* Shapes; the broadcaster has exactly the callbacks of the open sockets.
WsTypeOK ==
  /\ client \in [Clients -> Socket]
  /\ subscribers = Connected
  /\ pollers \in BOOLEAN
  /\ upgrades \in BOOLEAN
  /\ wsClose \in {"no", "draining", "drained", "done"}
  /\ awaited \subseteq Connected

WsInit ==
  /\ client = [c \in Clients |-> "away"]
  /\ subscribers = {}
  /\ pollers = FALSE
  /\ upgrades = TRUE
  /\ wsClose = "no"
  /\ awaited = {}

-----------------------------------------------------------------------------
\* Mutant: the pollers are stopped before the client is unsubscribed.
PollersAfterStale(gone, before) == pollers /\ before # {}
\* maybeStopPollers, run after unsubscribe(): stop when nobody is left.
PollersAfter(gone, before) == pollers /\ before \ gone # {}

\* An upgrade request for /events from a loopback Host: hello, subscribe,
\* ensurePollersRunning.
Connect(c) ==
  /\ upgrades
  /\ client[c] = "away"
  /\ client' = [client EXCEPT ![c] = "open"]
  /\ subscribers' = subscribers \union {c}
  /\ pollers' = TRUE
  /\ UNCHANGED <<upgrades, wsClose, awaited>>

\* The client starts the closing handshake.
ClientCloses(c) ==
  /\ client[c] = "open"
  /\ client' = [client EXCEPT ![c] = "closing"]
  /\ UNCHANGED <<subscribers, pollers, upgrades, wsClose, awaited>>

\* c.once("close", done)
StillAwaited(c) == awaited \ {c}

\* The socket is gone (handshake complete, network error, terminate()):
\* 'close' is emitted, the connection handler cleans up, then `done` counts.
SocketClosed(c) ==
  /\ client[c] \in {"open", "closing", "doomed"}
  /\ client' = [client EXCEPT ![c] = "gone"]
  /\ subscribers' = subscribers \ {c}
  /\ pollers' = PollersAfter({c}, subscribers)
  /\ awaited' = StillAwaited(c)
  /\ wsClose' = IF wsClose = "draining" /\ awaited' = {} THEN "drained" ELSE wsClose
  /\ UNCHANGED upgrades

\* Mutant: the listener stays, a client can still join.
UpgradesKept(u) == u
\* http.off("upgrade", onUpgrade)
UpgradesOff(u) == FALSE

\* close(): no more upgrades, no more polling, 1001 to everyone connected.
BeginWsClose ==
  /\ wsClose = "no"
  /\ upgrades' = UpgradesOff(upgrades)
  /\ pollers' = FALSE
  /\ client' = [c \in Clients |-> IF client[c] = "open" THEN "closing" ELSE client[c]]
  /\ awaited' = Connected
  /\ wsClose' = IF Connected = {} THEN "drained" ELSE "draining"
  /\ UNCHANGED subscribers

\* Mutant: the deadline ends the wait and leaves the sockets alone.
NobodyTerminated(c) == client[c]
\* c.terminate() for everyone who is not CLOSED.
Terminated(c) == IF c \in Connected THEN "doomed" ELSE client[c]

\* setTimeout(..., timeoutMs) fires before everyone has answered.
WsDeadline ==
  /\ wsClose = "draining"
  /\ client' = [c \in Clients |-> Terminated(c)]
  /\ wsClose' = "drained"
  /\ UNCHANGED <<subscribers, pollers, upgrades, awaited>>

\* wss.close(cb): called back once the set of clients is empty.
WssClosed ==
  /\ wsClose = "drained"
  /\ Connected = {}
  /\ wsClose' = "done"
  /\ UNCHANGED <<client, subscribers, pollers, upgrades, awaited>>

\* A client that left can come again.
Return(c) ==
  /\ client[c] = "gone"
  /\ client' = [client EXCEPT ![c] = "away"]
  /\ UNCHANGED <<subscribers, pollers, upgrades, wsClose, awaited>>

WsNext ==
  \/ BeginWsClose \/ WsDeadline \/ WssClosed
  \/ \E c \in Clients :
       Connect(c) \/ ClientCloses(c) \/ SocketClosed(c) \/ Return(c)

\* The deadline fires and terminated sockets close.  Nothing is assumed of
\* clients: they may never answer the close frame.
WsFairness ==
  /\ WF_wsVars(WsDeadline) /\ WF_wsVars(WssClosed)
  /\ \A c \in Clients : WF_wsVars(client[c] = "doomed" /\ SocketClosed(c))

WsSpec == WsInit /\ [][WsNext]_wsVars /\ WsFairness
-----------------------------------------------------------------------------
\* The pollers run exactly while someone is subscribed, and never again once
\* close() has begun, although sockets are still open and closing then.
PollersFollowClients == pollers <=> subscribers # {} /\ wsClose = "no"

\* Once close() has been called nobody joins.
NoneJoinsLate ==
  [][wsClose # "no" => Connected' \subseteq Connected]_wsVars

\* close() ends, also when no client ever answers.
WsCloseEnds == wsClose # "no" ~> wsClose = "done"
=============================================================================
