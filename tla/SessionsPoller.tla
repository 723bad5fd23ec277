--------------------------- MODULE SessionsPoller ---------------------------
(* The sessions diff poller of src/src/http/ws.ts together with the two      *)
(* second status cache of src/src/sessions/refinedStatus.ts, which it shares *)
(* with the /snapshot route of the same process.                             *)
(*                                                                           *)
(* A task is one call in flight that ends in refinedStatusFor: a poller tick *)
(* or a snapshot request.  It awaits discover(), then either gets the cached *)
(* map at once or derives the statuses of its own list and stores them.      *)
EXTENDS Naturals, FiniteSets

CONSTANTS Pids,        \* process ids
          Status,      \* refined statuses, "idle" among them
          None,        \* no entry in a status map
          Filters,     \* the pids a ?provider= snapshot request can discover
          TickSlots,   \* bound: ticks in flight at a time
          RequestSlots, \* bound: snapshot requests in flight at a time
          MaxChanges,  \* bound: sessions starting, ending, changing status
          MaxStarts    \* bound: times the poller is started

ASSUME StatusAssumption == "idle" \in Status /\ None \notin Status
ASSUME FiltersAssumption == Filters \subseteq SUBSET Pids
ASSUME StartsAssumption == MaxStarts \in Nat /\ MaxChanges \in Nat

VARIABLES live,      \* pids of the running sessions
          status,    \* what the transcript of each pid says
          cache,     \* cache.statuses while younger than CACHE_TTL_MS, or None
          polling,   \* stopSessions # null: a client is connected
          gen,       \* how many pollers have been started; the last is current
          prev,      \* `prev` of each poller's closure
          tasks,     \* the calls in flight
          view,      \* what the present client knows from sessions:update
          fresh,     \* history: no older poller's tick ran when this one started
          shown,     \* history: pids that the last snapshot showed as idle,
                     \* while nothing had changed yet
          changes    \* counter for the bound

vars == <<live, status, cache, polling, gen, prev, tasks, view,
          fresh, shown, changes>>

Tasks == TickSlots \union RequestSlots
Map == [Pids -> Status \union {None}]
Empty == [p \in Pids |-> None]
Task == [kind : {"free", "tick", "snapshot"}, gen : 0..MaxStarts,
         step : {"discover", "derive", "store"},
         list : SUBSET Pids, filter : SUBSET Pids, got : Map]
Free == [kind |-> "free", gen |-> 0, step |-> "discover",
         list |-> {}, filter |-> {}, got |-> Empty]

\* Shapes of the variables; there is no tick before the first poller.
TypeOK ==
  /\ live \subseteq Pids
  /\ status \in [Pids -> Status]
  /\ cache \in Map \union {None}
  /\ polling \in BOOLEAN
  /\ gen \in 0..MaxStarts
  /\ prev \in [0..MaxStarts -> Map]
  /\ tasks \in [Tasks -> Task]
  /\ view \in Map
  /\ fresh \in BOOLEAN
  /\ shown \subseteq Pids
  /\ changes \in Nat
  /\ \A k \in Tasks : tasks[k].kind = "tick" => tasks[k].gen \in 1..gen

Init ==
  /\ live \in SUBSET Pids
  /\ status \in [Pids -> Status]
  /\ cache = None
  /\ polling = FALSE
  /\ gen = 0
  /\ prev = [g \in 0..MaxStarts |-> Empty]
  /\ tasks = [k \in Tasks |-> Free]
  /\ view = Empty
  /\ fresh = TRUE /\ shown = {}
  /\ changes = 0

-----------------------------------------------------------------------------
\* A session starts or ends, or its transcript takes it to another status.
Change ==
  /\ changes < MaxChanges
  /\ changes' = changes + 1
  /\ \E p \in Pids :
       \/ /\ live' = (IF p \in live THEN live \ {p} ELSE live \union {p})
          /\ UNCHANGED status
       \/ \E s \in Status \ {status[p]} :
            status' = [status EXCEPT ![p] = s] /\ UNCHANGED live
  /\ shown' = {}
  /\ UNCHANGED <<cache, polling, gen, prev, tasks, view, fresh>>

\* CACHE_TTL_MS have passed since cache.at.
Expire ==
  /\ cache # None
  /\ cache' = None
  /\ UNCHANGED <<live, status, polling, gen, prev, tasks, view, fresh,
                 shown, changes>>

-----------------------------------------------------------------------------
\* A call begins by awaiting discover() over the providers it asks for.
Begin(k, kind, g, filter) ==
  /\ tasks[k].kind = "free"
  /\ tasks' = [tasks EXCEPT ![k] = [Free EXCEPT !.kind = kind, !.gen = g,
                                                !.filter = filter]]

\* startSessionsDiffPoller for a client that knows nothing yet: a new closure
\* with an empty prev and a first tick at once.
Start ==
  /\ ~polling
  /\ gen < MaxStarts
  /\ gen' = gen + 1
  /\ polling' = TRUE
  /\ view' = Empty
  /\ fresh' = \A k \in Tasks : tasks[k].kind # "tick"
  /\ \E k \in TickSlots : Begin(k, "tick", gen + 1, Pids)
  /\ UNCHANGED <<live, status, cache, prev, shown, changes>>

\* stop(): stopped = true, clearInterval.  A tick past its first line goes on.
\* The client is gone, and what it knew with it.
Stop ==
  /\ polling
  /\ polling' = FALSE
  /\ view' = Empty /\ fresh' = TRUE
  /\ UNCHANGED <<live, status, cache, gen, prev, tasks, shown, changes>>

\* Mutant: neither the flag nor the timer is looked at.
MayTickAlways(on) == TRUE
\* setInterval(tick): only until stop(); `if (stopped) return`.
MayTick(on) == on

Interval ==
  /\ MayTick(polling)
  /\ \E k \in TickSlots : Begin(k, "tick", gen, Pids)
  /\ UNCHANGED <<live, status, cache, polling, gen, prev, view, fresh,
                 shown, changes>>

\* GET /snapshot, with or without ?provider=.
Request ==
  /\ \E k \in RequestSlots, f \in Filters : Begin(k, "snapshot", 0, f)
  /\ UNCHANGED <<live, status, cache, polling, gen, prev, view, fresh,
                 shown, changes>>

-----------------------------------------------------------------------------
\* Mutant: a pid that is missing from the list is compared with its last
\* status of any poller, not of this one.
PreviousOfOlder(g, p) == IF g > 1 /\ prev[g][p] = None THEN prev[g - 1][p]
                         ELSE prev[g][p]
\* prev.get(pid) ?? null
Previous(g, p) == prev[g][p]

\* Mutant: prev only ever grows, as if it were updated in place on change.
RememberedChanges(g, next) ==
  [p \in Pids |-> IF prev[g][p] # None THEN prev[g][p] ELSE next[p]]
\* prev = next
Remembered(g, next) == next

\* The pids of sessions:update events for the map `next`.
Deltas(g, next) == {p \in Pids : next[p] # None /\ Previous(g, p) # next[p]}

\* What a tick does once it has the status map: events, prev = next, with no
\* await between them.  (The samples it writes are SampleStore's.)
Report(g, next) ==
  /\ view' = [p \in Pids |-> IF polling /\ p \in Deltas(g, next)
                             THEN next[p] ELSE view[p]]
  /\ prev' = [prev EXCEPT ![g] = Remembered(g, next)]
  /\ UNCHANGED shown

\* composeSnapshot: a session the map does not have is shown as idle.
Reply(list, next) ==
  /\ shown' = {p \in list : changes = 0 /\ next[p] \in {None, "idle"}}
  /\ UNCHANGED <<view, prev>>

\* refinedStatusFor returned the map `next` to the call k.
Conclude(k, list, next) ==
  /\ tasks' = [tasks EXCEPT ![k] = Free]
  /\ \/ tasks[k].kind = "tick" /\ Report(tasks[k].gen, next)
     \/ tasks[k].kind = "snapshot" /\ Reply(list, next)

\* discover() resolves (a provider that fails lists nothing, one that cannot
\* inspect a process leaves it out) and refinedStatusFor looks at the cache
\* before anything else happens.
Discover(k) ==
  /\ tasks[k].kind # "free" /\ tasks[k].step = "discover"
  /\ \E found \in SUBSET (live \cap tasks[k].filter) :
       /\ \/ found = live \cap tasks[k].filter /\ UNCHANGED changes
          \/ changes < MaxChanges /\ changes' = changes + 1
       /\ \/ cache # None /\ Conclude(k, found, cache)
          \/ /\ cache = None
             /\ tasks' = [tasks EXCEPT ![k].step = "derive", ![k].list = found]
             /\ UNCHANGED <<view, prev, shown>>
  /\ UNCHANGED <<live, status, cache, polling, gen, fresh>>

\* The transcripts are read; one that cannot be read is an empty one, no read
\* rejects.  The map has the listed pids and no other.
Derive(k) ==
  /\ tasks[k].kind # "free" /\ tasks[k].step = "derive"
  /\ tasks' = [tasks EXCEPT ![k].step = "store",
                 ![k].got = [p \in Pids |-> IF p \in tasks[k].list
                                           THEN status[p] ELSE None]]
  /\ UNCHANGED <<live, status, cache, polling, gen, prev, view, fresh,
                 shown, changes>>

\* All of them are read: the cache is replaced, whatever was put there since
\* this call looked, and the caller goes on.
Store(k) ==
  /\ tasks[k].kind # "free" /\ tasks[k].step = "store"
  /\ cache' = tasks[k].got
  /\ Conclude(k, tasks[k].list, tasks[k].got)
  /\ UNCHANGED <<live, status, polling, gen, fresh, changes>>

Next ==
  \/ Change \/ Expire \/ Start \/ Stop \/ Interval \/ Request
  \/ \E k \in Tasks : Discover(k) \/ Derive(k) \/ Store(k)

\* Timers fire, the cache grows old and every await comes back; requests are
\* the clients' business.
Fairness ==
  /\ WF_vars(Interval) /\ WF_vars(Expire)
  /\ \A k \in Tasks : WF_vars(Discover(k) \/ Derive(k) \/ Store(k))

Spec == Init /\ [][Next]_vars /\ Fairness
-----------------------------------------------------------------------------
\* A client present since a start that no older tick outlived can rebuild the
\* poller's map from the events alone, whatever the cache handed out.
ClientKnowsPrev ==
  polling /\ fresh =>
    \A p \in Pids : prev[gen][p] # None => view[p] = prev[gen][p]

\* The snapshot requests in flight ask for p's provider, among others or not.
AskedWith(p) ==
  \A k \in RequestSlots : tasks[k].kind = "snapshot" => p \in tasks[k].filter

\* While a client stays, its poller comes to know each running session at its
\* true status once things stop changing, whatever requests fill the cache
\* they share; only requests for other providers, made for ever, keep a
\* session from it (refinedStatus.ts:51 asks the cache for its age alone).
CatchesUp ==
  \A p \in Pids :
    <>[](polling /\ AskedWith(p)) => <>[](p \in live => prev[gen][p] = status[p])

\* With no client left, background work dies out: no tick goes on for ever.
GoesQuiet == <>[]~polling => <>[](\A k \in Tasks : tasks[k].kind # "tick")

\* refinedStatus.ts:18 defines idle by the transcript; a snapshot says idle
\* only of a session whose transcript could be idle, here one whose status is
\* another one from beginning to end.
IdleIsDerived == \A p \in Pids :
  changes = 0 /\ p \in shown => status[p] = "idle"
=============================================================================
