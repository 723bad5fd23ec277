---------------------------- MODULE ReminderPoll ----------------------------
(* The Reminders polling loop, src/src/reminders/poll.ts: one module-wide    *)
(* timer, the last list seen, ticks that suspend in listTodos() and may      *)
(* overlap each other and a stop, and the events their diffs produce.        *)
(* The list itself belongs to Apple Reminders and changes by itself.         *)
EXTENDS Naturals, FiniteSets

CONSTANTS Todos,        \* ids of reminders
          Ticks,        \* bound: listTodos calls in flight at a time
          MaxRev,       \* bound: edits of a reminder's title, notes or due
          MaxChanges,   \* bound: changes of the list
          MaxStarts,    \* bound: calls of startReminderPolling
          MaxFailures   \* bound: listTodos calls that reject

ASSUME BoundsAssumption ==
  /\ MaxRev \in Nat /\ MaxChanges \in Nat
  /\ MaxStarts \in Nat /\ MaxFailures \in Nat

VARIABLES list,     \* the reminders there are
          running,  \* pollHandle # null
          prev,     \* prevState
          ticks,    \* the tick() calls in flight and what listTodos gave them
          view,     \* what a subscriber knows by applying every event it got
          fresh,    \* history: prevState was empty at the last start
          flips,    \* history: how often each reminder came to be completed
          told,     \* history: todo:completed events sent for each reminder
          changes, starts, failures   \* counters for the bounds

vars == <<list, running, prev, ticks, view, fresh, flips, told,
          changes, starts, failures>>

\* A reminder: completed or not, and which edit of title/notes/due it is at.
Todo == [done : BOOLEAN, rev : 0..MaxRev]
Absent == [done |-> FALSE, rev |-> MaxRev + 1]
Snapshot == [Todos -> Todo \union {Absent}]
Nothing == [t \in Todos |-> Absent]

Tick == [step : {"idle", "asked", "answered"}, got : Snapshot]
IdleTick == [step |-> "idle", got |-> Nothing]

\* Shapes of the variables; nothing is fetched before polling is started.
TypeOK ==
  /\ list \in Snapshot
  /\ running \in BOOLEAN
  /\ prev \in Snapshot
  /\ ticks \in [Ticks -> Tick]
  /\ view \in Snapshot
  /\ fresh \in BOOLEAN
  /\ flips \in [Todos -> Nat] /\ told \in [Todos -> Nat]
  /\ changes \in Nat /\ starts \in Nat /\ failures \in Nat
  /\ starts = 0 => ~running /\ \A k \in Ticks : ticks[k].step = "idle"

Init ==
  /\ list \in Snapshot
  /\ running = FALSE
  /\ prev = Nothing
  /\ ticks = [k \in Ticks |-> IdleTick]
  /\ view = Nothing
  /\ fresh = TRUE
  /\ flips = [t \in Todos |-> 0]
  /\ told = [t \in Todos |-> 0]
  /\ changes = 0 /\ starts = 0 /\ failures = 0

-----------------------------------------------------------------------------
(* diffTodos(prev, next): one event at most for each reminder in next.  A    *)
(* reminder that is gone produces none.                                      *)
Both(b, n) == {t \in Todos : b[t] # Absent /\ n[t] # Absent}

Added(b, n) == {t \in Todos : b[t] = Absent /\ n[t] # Absent}
Completed(b, n) == {t \in Both(b, n) : ~b[t].done /\ n[t].done}
\* Mutant: only open reminders are looked at for edits.
UpdatedWhenOpen(b, n) ==
  {t \in Both(b, n) \ Completed(b, n) : ~n[t].done /\ b[t].rev # n[t].rev}
Updated(b, n) ==
  {t \in Both(b, n) \ Completed(b, n) : b[t].rev # n[t].rev}

Events(b, n) == Added(b, n) \union Completed(b, n) \union Updated(b, n)

\* onEvent for every event of the diff: each carries the whole reminder.
Apply(v, b, n) == [t \in Todos |-> IF t \in Events(b, n) THEN n[t] ELSE v[t]]

-----------------------------------------------------------------------------
\* The environment: the user, a device or a todo call changes the list.
ChangeList ==
  /\ changes < MaxChanges
  /\ changes' = changes + 1
  /\ \E t \in Todos, s \in Todo \union {Absent} :
       /\ s # list[t]
       /\ list' = [list EXCEPT ![t] = s]
       /\ flips' = IF s.done /\ ~list[t].done
                   THEN [flips EXCEPT ![t] = @ + 1] ELSE flips
  /\ UNCHANGED <<running, prev, ticks, view, fresh, told, starts, failures>>

\* void tick(): execFile is started, its answer comes later.
Ask(k) == ticks[k].step = "idle" /\
          ticks' = [ticks EXCEPT ![k].step = "asked"]

\* startReminderPolling, for a subscriber that knows nothing yet; prevState is
\* left as it is and the first tick starts at once.
Start ==
  /\ ~running
  /\ starts < MaxStarts
  /\ starts' = starts + 1
  /\ running' = TRUE
  /\ view' = Nothing
  /\ fresh' = (prev = Nothing)
  /\ \E k \in Ticks : Ask(k)
  /\ UNCHANGED <<list, prev, flips, told, changes, failures>>

\* Mutant: the timer is set when the module is loaded and never cleared.
TimerAlwaysSet(r) == TRUE
\* There is a timer between setInterval and clearInterval.
TimerSet(r) == r

\* The interval fires, whether or not an earlier tick is still waiting.
Interval ==
  /\ TimerSet(running)
  /\ \E k \in Ticks : Ask(k)
  /\ UNCHANGED <<list, running, prev, view, fresh, flips, told,
                 changes, starts, failures>>

\* stopReminderPolling.  Ticks in flight are not cancelled.
Stop ==
  /\ running
  /\ running' = FALSE
  /\ prev' = Nothing
  /\ UNCHANGED <<list, ticks, view, fresh, flips, told,
                 changes, starts, failures>>

\* remindctl reads the list.
Answer(k) ==
  /\ ticks[k].step = "asked"
  /\ ticks' = [ticks EXCEPT ![k] = [step |-> "answered", got |-> list]]
  /\ UNCHANGED <<list, running, prev, view, fresh, flips, told,
                 changes, starts, failures>>

\* execFile or JSON.parse rejects: the tick ends without touching prevState.
Fail(k) ==
  /\ ticks[k].step = "asked"
  /\ failures < MaxFailures
  /\ failures' = failures + 1
  /\ ticks' = [ticks EXCEPT ![k] = IdleTick]
  /\ UNCHANGED <<list, running, prev, view, fresh, flips, told,
                 changes, starts>>

\* Mutant: the list is remembered only when it produced events.
RememberedIfEvents(b, n) == IF Events(b, n) = {} THEN b ELSE n
\* prevState = next
Remembered(b, n) == n

\* listTodos resolves: diff, remember, emit, with no await in between.  The
\* events go to the onEvent of the start that launched the tick; those of the
\* hub (ws.ts:235-240) all send to one broadcaster, so the subscriber gets them.
Deliver(k) ==
  /\ ticks[k].step = "answered"
  /\ LET next == ticks[k].got
     IN  /\ view' = Apply(view, prev, next)
         /\ told' = [t \in Todos |->
                       IF t \in Completed(prev, next) THEN told[t] + 1 ELSE told[t]]
         /\ prev' = Remembered(prev, next)
  /\ ticks' = [ticks EXCEPT ![k] = IdleTick]
  /\ UNCHANGED <<list, running, fresh, flips, changes, starts, failures>>

Next ==
  \/ ChangeList \/ Start \/ Interval \/ Stop
  \/ \E k \in Ticks : Answer(k) \/ Fail(k) \/ Deliver(k)

\* The interval keeps firing and every child process exits in the end.
Fairness ==
  /\ WF_vars(Interval)
  /\ \A k \in Ticks : WF_vars(Answer(k) \/ Fail(k)) /\ WF_vars(Deliver(k))

Spec == Init /\ [][Next]_vars /\ Fairness
-----------------------------------------------------------------------------
\* A subscriber that applies the events it receives knows every reminder of
\* prevState at its latest edit, and as completed when it is, in whatever
\* order overlapping ticks deliver, if polling began from an empty prevState.
\* (A completion that is taken back produces no event: the view may show it.)
SubscriberKnowsPrev ==
  running /\ fresh =>
    \A t \in Todos : prev[t] # Absent =>
      /\ view[t] # Absent
      /\ view[t].rev = prev[t].rev
      /\ prev[t].done => view[t].done

\* poll.ts:9 sends todo:completed when completed flips false -> true: never
\* more often than that really happened.
NoPhantomCompletion == \A t \in Todos : told[t] <= flips[t]

\* The poller catches up with the list once the list stops changing, through
\* failures and overlaps.
CatchesUp == <>[]running => <>[](prev = list)
=============================================================================
