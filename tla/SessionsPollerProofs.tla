------------------------- MODULE SessionsPollerProofs -------------------------
(* Theorems about module SessionsPoller, for any sessions, statuses, filters  *)
(* and calls in flight, and for any number of changes and restarts.           *)
EXTENDS SessionsPoller, TLAPS

\* A poller that runs has been started, and those still to come know nothing.
StartedOK ==
  /\ polling => gen \in 1..MaxStarts
  /\ \A g \in 0..MaxStarts : g > gen => prev[g] = Empty

\* No tick of an older poller is under way if none was when this one started.
TicksAreMine ==
  polling /\ fresh =>
    \A k \in Tasks : tasks[k].kind = "tick" => tasks[k].gen = gen

Inv == TypeOK /\ StartedOK /\ TicksAreMine /\ ClientKnowsPrev

-----------------------------------------------------------------------------
\* A status map knows nothing at first, and a task is free.
LEMMA Shapes == Empty \in Map /\ (MaxStarts \in Nat => Free \in Task)
<1>1. Empty \in Map
  BY DEF Empty, Map
<1>2. MaxStarts \in Nat => 0 \in 0..MaxStarts
  OBVIOUS
<1>3. QED
  BY <1>1, <1>2 DEF Free, Task

\* At first no client is connected and no call is in flight.
LEMMA InitOK == Init => Inv
<1> SUFFICES ASSUME Init
             PROVE  Inv
  OBVIOUS
<1>1. MaxStarts \in Nat /\ 0 \in 0..MaxStarts
  BY StartsAssumption
<1>2. TypeOK
  BY <1>1, Shapes DEF Init, TypeOK, Free
<1>3. StartedOK /\ TicksAreMine /\ ClientKnowsPrev
  BY <1>1 DEF Init, StartedOK, TicksAreMine, ClientKnowsPrev
<1>4. QED
  BY <1>2, <1>3 DEF Inv

\* Beginning a call occupies a free slot.
LEMMA BeginEffect ==
  ASSUME tasks \in [Tasks -> Task], NEW k \in Tasks, NEW kind \in {"tick", "snapshot"},
         NEW g \in 0..MaxStarts, NEW filter \in SUBSET Pids, Begin(k, kind, g, filter)
  PROVE  /\ tasks' \in [Tasks -> Task]
         /\ tasks'[k].kind = kind /\ tasks'[k].gen = g
         /\ \A j \in Tasks \ {k} : tasks'[j] = tasks[j]
<1> DEFINE new == [Free EXCEPT !.kind = kind, !.gen = g, !.filter = filter]
<1>1. new \in Task /\ new.kind = kind /\ new.gen = g
  <2>1. MaxStarts \in Nat
    BY StartsAssumption
  <2>2. QED
    BY <2>1, Shapes DEF Free, Task
<1>2. tasks' = [tasks EXCEPT ![k] = new]
  BY DEF Begin
<1> HIDE DEF new
<1>3. QED
  BY <1>1, <1>2

\* A session changes, or the cache grows old, or the last client leaves.
LEMMA AroundStep ==
  ASSUME Inv, Change \/ Expire \/ Stop
  PROVE  Inv'
<1>1. /\ UNCHANGED <<gen, prev, tasks>>
      /\ polling' => polling /\ UNCHANGED <<view, fresh>>
  BY DEF Change, Expire, Stop
<1>2. /\ live' \subseteq Pids /\ status' \in [Pids -> Status]
      /\ cache' \in Map \union {None} /\ polling' \in BOOLEAN /\ changes' \in Nat
  <2>1. CASE Change
    <3>1. live' \subseteq Pids /\ status' \in [Pids -> Status]
      BY <2>1 DEF Change, Inv, TypeOK
    <3>2. UNCHANGED <<cache, polling>> /\ changes' = changes + 1
      BY <2>1 DEF Change
    <3>3. QED
      BY <3>1, <3>2 DEF Inv, TypeOK
  <2>2. CASE Expire \/ Stop
    BY <2>2 DEF Expire, Stop, Inv, TypeOK
  <2>3. QED
    BY <2>1, <2>2
<1>3. view' \in Map /\ fresh' \in BOOLEAN /\ shown' \subseteq Pids
  BY Shapes DEF Change, Expire, Stop, Inv, TypeOK
<1>4. TypeOK'
  BY <1>1, <1>2, <1>3 DEF Inv, TypeOK
<1>5. StartedOK' /\ TicksAreMine' /\ ClientKnowsPrev'
  BY <1>1 DEF Inv, StartedOK, TicksAreMine, ClientKnowsPrev
<1>6. QED
  BY <1>4, <1>5 DEF Inv

\* The first client: a poller with an empty prev, for one who knows nothing.
LEMMA StartStep ==
  ASSUME Inv, Start
  PROVE  Inv'
<1>1. /\ gen \in 0..MaxStarts /\ MaxStarts \in Nat /\ gen < MaxStarts /\ gen' = gen + 1
      /\ polling' = TRUE /\ view' = Empty
      /\ UNCHANGED <<live, status, cache, prev, shown, changes>>
  BY StartsAssumption DEF Start, Inv, TypeOK
<1>2. PICK k \in TickSlots : Begin(k, "tick", gen + 1, Pids)
  BY DEF Start
<1>3. gen + 1 \in 0..MaxStarts /\ gen + 1 \in 1..MaxStarts /\ gen + 1 > gen
  BY <1>1
<1>4. k \in Tasks
  BY DEF Tasks
<1>5. /\ tasks' \in [Tasks -> Task]
      /\ tasks'[k].kind = "tick" /\ tasks'[k].gen = gen + 1
      /\ \A j \in Tasks \ {k} : tasks'[j] = tasks[j]
  BY <1>2, <1>3, <1>4, BeginEffect DEF Inv, TypeOK
<1>6. fresh' = \A j \in Tasks : tasks[j].kind # "tick"
  BY DEF Start
<1>7. fresh' \in BOOLEAN
  BY <1>6
<1>8. \A j \in Tasks : tasks'[j].kind = "tick" => tasks'[j].gen \in 1..gen'
  <2>1. \A n \in 1..gen : n \in 1..(gen + 1)
    BY <1>1
  <2>2. gen + 1 \in 1..(gen + 1)
    BY <1>1
  <2>3. QED
    BY <1>1, <1>5, <2>1, <2>2 DEF Inv, TypeOK
<1>9. TypeOK'
  BY <1>1, <1>3, <1>5, <1>7, <1>8, Shapes DEF Inv, TypeOK
<1>10. prev'[gen'] = Empty /\ \A g \in 0..MaxStarts : g > gen' => prev'[g] = Empty
  <2>1. \A g \in 0..MaxStarts : g > gen + 1 => g > gen
    BY <1>1
  <2>2. QED
    BY <1>1, <1>3, <2>1 DEF Inv, StartedOK
<1>11. StartedOK'
  BY <1>1, <1>3, <1>10 DEF StartedOK
<1>12. TicksAreMine'
  BY <1>1, <1>5, <1>6 DEF TicksAreMine
<1>13. ClientKnowsPrev'
  BY <1>1, <1>10 DEF ClientKnowsPrev
<1>14. QED
  BY <1>9, <1>11, <1>12, <1>13 DEF Inv

\* The timer of a poller that runs, and a request for a snapshot.
LEMMA AskStep ==
  ASSUME Inv, Interval \/ Request
  PROVE  Inv'
<1>1. UNCHANGED <<live, status, cache, polling, gen, prev, view, fresh, shown, changes>>
  BY DEF Interval, Request
<1>2. PICK k \in Tasks, kind \in {"tick", "snapshot"}, g \in 0..MaxStarts, f \in SUBSET Pids :
        /\ Begin(k, kind, g, f)
        /\ kind = "tick" => polling /\ g = gen
  <2>1. CASE Interval
    <3>1. gen \in 0..MaxStarts
      BY DEF Inv, TypeOK
    <3>2. QED
      BY <2>1, <3>1 DEF Interval, MayTick, Tasks
  <2>2. CASE Request
    <3>1. 0 \in 0..MaxStarts
      BY StartsAssumption
    <3>2. QED
      BY <2>2, <3>1, FiltersAssumption DEF Request, Tasks
  <2>3. QED
    BY <2>1, <2>2
<1>3. /\ tasks' \in [Tasks -> Task]
      /\ tasks'[k].kind = kind /\ tasks'[k].gen = g
      /\ \A j \in Tasks \ {k} : tasks'[j] = tasks[j]
  BY <1>2, BeginEffect DEF Inv, TypeOK
<1>4. kind = "tick" => g \in 1..gen
  BY <1>2 DEF Inv, StartedOK
<1>5. TypeOK'
  BY <1>1, <1>3, <1>4 DEF Inv, TypeOK
<1>6. TicksAreMine'
  BY <1>1, <1>2, <1>3 DEF Inv, TicksAreMine
<1>7. StartedOK' /\ ClientKnowsPrev'
  BY <1>1 DEF Inv, StartedOK, ClientKnowsPrev
<1>8. QED
  BY <1>5, <1>6, <1>7 DEF Inv

-----------------------------------------------------------------------------
\* A tick's report: what it tells the client is what is new, and what the
\* client is told is what the poller remembers.
LEMMA ReportStep ==
  ASSUME Inv, NEW g \in 1..gen, NEW next \in Map, Report(g, next),
         polling /\ fresh => g = gen, UNCHANGED <<polling, gen, fresh>>
  PROVE  /\ view' \in Map /\ prev' \in [0..MaxStarts -> Map] /\ shown' \subseteq Pids
         /\ StartedOK' /\ ClientKnowsPrev'
<1>1. /\ view' = [p \in Pids |-> IF polling /\ p \in Deltas(g, next)
                                THEN next[p] ELSE view[p]]
      /\ prev' = [prev EXCEPT ![g] = next] /\ shown' = shown
  BY DEF Report, Remembered
<1>2. /\ gen \in 0..MaxStarts /\ MaxStarts \in Nat /\ g \in 0..MaxStarts
      /\ \A h \in 0..MaxStarts : h > gen => h # g
  BY StartsAssumption DEF Inv, TypeOK
<1>3. /\ prev \in [0..MaxStarts -> Map] /\ view \in Map /\ shown \subseteq Pids
  BY DEF Inv, TypeOK
<1>4. /\ prev' \in [0..MaxStarts -> Map] /\ prev'[g] = next
      /\ \A h \in 0..MaxStarts : h # g => prev'[h] = prev[h]
  BY <1>1, <1>2, <1>3
<1>5. view' \in Map
  BY <1>1, <1>3 DEF Map
<1>6. StartedOK'
  BY <1>2, <1>4 DEF Inv, StartedOK
<1>7. ASSUME polling, fresh, NEW p \in Pids, prev'[gen][p] # None
      PROVE  view'[p] = prev'[gen][p]
  <2>1. g = gen /\ prev'[gen] = next /\ next[p] # None
    BY <1>4, <1>7
  <2>2. CASE prev[gen][p] # next[p]
    <3>1. p \in Deltas(g, next)
      BY <2>1, <2>2 DEF Deltas, Previous
    <3>2. QED
      BY <1>1, <1>7, <2>1, <3>1
  <2>3. CASE prev[gen][p] = next[p]
    <3>1. p \notin Deltas(g, next)
      BY <2>1, <2>3 DEF Deltas, Previous
    <3>2. view[p] = prev[gen][p]
      BY <1>7, <2>1, <2>3 DEF Inv, ClientKnowsPrev
    <3>3. QED
      BY <1>1, <2>1, <2>3, <3>1, <3>2
  <2>4. QED
    BY <2>2, <2>3
<1>8. ClientKnowsPrev'
  BY <1>7 DEF ClientKnowsPrev
<1>9. QED
  BY <1>1, <1>3, <1>4, <1>5, <1>6, <1>8

\* A call that ends with a status map: a tick reports, a snapshot replies.
LEMMA ConcludeStep ==
  ASSUME Inv, NEW k \in Tasks, NEW list \in SUBSET Pids, NEW next \in Map,
         Conclude(k, list, next), UNCHANGED <<live, status, polling, gen, fresh>>,
         cache' \in Map \union {None}, changes' \in Nat
  PROVE  Inv'
<1>1. /\ tasks' \in [Tasks -> Task] /\ tasks'[k] = Free
      /\ \A j \in Tasks \ {k} : tasks'[j] = tasks[j]
  <2>1. Free \in Task /\ tasks' = [tasks EXCEPT ![k] = Free]
    BY Shapes, StartsAssumption DEF Conclude
  <2>2. QED
    BY <2>1 DEF Inv, TypeOK
<1>2. \A j \in Tasks : tasks'[j].kind = "tick" => tasks[j].kind = "tick" /\ tasks'[j] = tasks[j]
  BY <1>1 DEF Free
<1>3. TicksAreMine'
  BY <1>2 DEF Inv, TicksAreMine
<1>4. /\ view' \in Map /\ prev' \in [0..MaxStarts -> Map] /\ shown' \subseteq Pids
      /\ StartedOK' /\ ClientKnowsPrev'
  <2>1. CASE tasks[k].kind = "tick" /\ Report(tasks[k].gen, next)
    <3>1. tasks[k].gen \in 1..gen /\ (polling /\ fresh => tasks[k].gen = gen)
      BY <2>1 DEF Inv, TypeOK, TicksAreMine
    <3>2. QED
      BY <2>1, <3>1, ReportStep
  <2>2. CASE Reply(list, next)
    BY <2>2 DEF Reply, Inv, TypeOK, StartedOK, ClientKnowsPrev
  <2>3. QED
    BY <2>1, <2>2 DEF Conclude
<1>5. TypeOK'
  BY <1>1, <1>2, <1>4 DEF Inv, TypeOK
<1>6. QED
  BY <1>3, <1>4, <1>5 DEF Inv

\* A call that goes on: its slot keeps its kind and its poller.
LEMMA GoOnStep ==
  ASSUME Inv, NEW k \in Tasks, tasks[k].kind # "free",
         tasks' \in [Tasks -> Task],
         tasks'[k].kind = tasks[k].kind /\ tasks'[k].gen = tasks[k].gen,
         \A j \in Tasks \ {k} : tasks'[j] = tasks[j],
         UNCHANGED <<live, status, cache, polling, gen, prev, view, fresh, shown>>,
         changes' \in Nat
  PROVE  Inv'
<1>1. TypeOK'
  BY DEF Inv, TypeOK
<1>2. StartedOK' /\ TicksAreMine' /\ ClientKnowsPrev'
  BY DEF Inv, StartedOK, TicksAreMine, ClientKnowsPrev
<1>3. QED
  BY <1>1, <1>2 DEF Inv

\* discover() comes back, and the cache answers or the transcripts are read.
LEMMA DiscoverStep ==
  ASSUME Inv, NEW k \in Tasks, Discover(k)
  PROVE  Inv'
<1>1. PICK found \in SUBSET (live \cap tasks[k].filter) :
        /\ \/ found = live \cap tasks[k].filter /\ UNCHANGED changes
           \/ changes < MaxChanges /\ changes' = changes + 1
        /\ \/ cache # None /\ Conclude(k, found, cache)
           \/ /\ cache = None
              /\ tasks' = [tasks EXCEPT ![k].step = "derive", ![k].list = found]
              /\ UNCHANGED <<view, prev, shown>>
  BY DEF Discover
<1>2. /\ UNCHANGED <<live, status, cache, polling, gen, fresh>>
      /\ tasks[k].kind # "free" /\ tasks[k] \in Task
      /\ changes \in Nat /\ cache \in Map \union {None} /\ found \in SUBSET Pids
  BY DEF Discover, Inv, TypeOK
<1>3. changes' \in Nat
  BY <1>1, <1>2
<1>4. CASE cache # None /\ Conclude(k, found, cache)
  BY <1>2, <1>3, <1>4, ConcludeStep
<1>5. CASE /\ tasks' = [tasks EXCEPT ![k].step = "derive", ![k].list = found]
           /\ UNCHANGED <<view, prev, shown>>
  <2>1. /\ tasks'[k] = [tasks[k] EXCEPT !.step = "derive", !.list = found]
        /\ \A j \in Tasks \ {k} : tasks'[j] = tasks[j]
        /\ DOMAIN tasks' = Tasks /\ tasks' = [j \in Tasks |-> tasks'[j]]
    BY <1>5 DEF Inv, TypeOK
  <2>2. tasks'[k] \in Task /\ tasks'[k].kind = tasks[k].kind /\ tasks'[k].gen = tasks[k].gen
    BY <1>2, <2>1 DEF Task
  <2>3. tasks' \in [Tasks -> Task]
    BY <2>1, <2>2 DEF Inv, TypeOK
  <2>4. QED
    BY <1>2, <1>3, <1>5, <2>1, <2>2, <2>3, GoOnStep
<1>6. QED
  BY <1>1, <1>4, <1>5

\* The transcripts are read.
LEMMA DeriveStep ==
  ASSUME Inv, NEW k \in Tasks, Derive(k)
  PROVE  Inv'
<1> DEFINE read == [p \in Pids |-> IF p \in tasks[k].list THEN status[p] ELSE None]
<1>1. /\ tasks' = [tasks EXCEPT ![k].step = "store", ![k].got = read]
      /\ UNCHANGED <<live, status, cache, polling, gen, prev, view, fresh, shown, changes>>
      /\ tasks[k].kind # "free" /\ tasks[k] \in Task
  BY DEF Derive, Inv, TypeOK
<1>2. read \in Map
  BY DEF Inv, TypeOK, Map
<1> HIDE DEF read
<1>3. /\ tasks'[k] = [tasks[k] EXCEPT !.step = "store", !.got = read]
      /\ \A j \in Tasks \ {k} : tasks'[j] = tasks[j]
      /\ DOMAIN tasks' = Tasks /\ tasks' = [j \in Tasks |-> tasks'[j]]
  BY <1>1 DEF Inv, TypeOK
<1>4. tasks'[k] \in Task /\ tasks'[k].kind = tasks[k].kind /\ tasks'[k].gen = tasks[k].gen
  BY <1>1, <1>2, <1>3 DEF Task
<1>5. tasks' \in [Tasks -> Task] /\ changes' \in Nat
  BY <1>1, <1>3, <1>4 DEF Inv, TypeOK
<1>6. QED
  BY <1>1, <1>3, <1>4, <1>5, GoOnStep

\* The map is cached and handed out.
LEMMA StoreStep ==
  ASSUME Inv, NEW k \in Tasks, Store(k)
  PROVE  Inv'
<1>1. tasks[k] \in Task /\ changes \in Nat
  BY DEF Inv, TypeOK
<1>2. tasks[k].got \in Map /\ tasks[k].list \in SUBSET Pids
  BY <1>1 DEF Task
<1>3. QED
  BY <1>1, <1>2, ConcludeStep DEF Store

-----------------------------------------------------------------------------
\* Every step keeps the invariant.
LEMMA InvStep == Inv /\ [Next]_vars => Inv'
<1>1. ASSUME Inv, UNCHANGED vars
      PROVE  Inv'
  BY <1>1 DEF vars, Inv, TypeOK, StartedOK, TicksAreMine, ClientKnowsPrev
<1>2. ASSUME Inv, Next
      PROVE  Inv'
  BY <1>2, AroundStep, StartStep, AskStep, DiscoverStep, DeriveStep, StoreStep DEF Next
<1>3. QED
  BY <1>1, <1>2

\* The inductive invariant of the poller.
THEOREM PollerInvariant == Spec => []Inv
BY InitOK, InvStep, PTL DEF Spec

\* The shapes of the variables; no tick is older than the first poller or newer
\* than the present one.
THEOREM PollerTypeCorrect == Spec => []TypeOK
<1>1. Inv => TypeOK
  BY DEF Inv
<1>2. QED
  BY <1>1, PollerInvariant, PTL

\* A client that no older tick disturbs can rebuild the poller's map from the
\* sessions:update events alone, whatever the cache hands out.
THEOREM ClientsKnow == Spec => []ClientKnowsPrev
<1>1. Inv => ClientKnowsPrev
  BY DEF Inv
<1>2. QED
  BY <1>1, PollerInvariant, PTL
===============================================================================
