------------------------------- MODULE TodoStore -------------------------------
(* src/src/reminders/cli.ts as its callers use it: list, add and complete, by *)
(* the library (which first asks getActiveCli), by `agent-conductor todos`    *)
(* (which first asks probeAuth) and by the MCP tools (which ask nobody).  The *)
(* todos are in Apple Reminders, behind a CLI, or in a JSON file that is read *)
(* as a whole, changed and written back, without a lock and not atomically,   *)
(* by any process that runs the library.  Every entry has a title of its own, *)
(* so that lists, of which nothing here depends on the order, are sets.       *)
EXTENDS Naturals, FiniteSetsExt

CONSTANTS NCalls,    \* bound: calls; they begin in the order of their numbers
          MaxTime,   \* bound: milliseconds that pass
          Machines   \* the sets of Candidates that may be installed

Candidates == <<"remindctl", "apple-reminders-cli", "ekctl">>

VARIABLES installed,  \* the CLIs this machine has
          reminders,  \* the todos in Apple Reminders
          file,       \* todos.json
          calls,      \* the calls and how far they are
          now,        \* Date.now()
          disturbed,  \* history: two rewrites overlapped, or one was cut off
          flapped     \* history: the probe of an installed CLI failed

vars == <<installed, reminders, file, calls, now, disturbed, flapped>>

Calls == 1..NCalls

\* An entry.  The title tells which call added it.  An id of the file is
\* `local-${Date.now()}`; Reminders gives every entry an id of its own.
LocalId(t) == t
ReminderId(c) == MaxTime + c
UnknownId == MaxTime + NCalls + 1
Entry(id, c) == [id |-> id, title |-> c, done |-> FALSE]

\* What is in the file: a JSON array, nothing, or bytes JSON.parse rejects.
Whole(entries) == [state |-> "whole", entries |-> entries]
Missing == [state |-> "missing", entries |-> {}]
Empty == [state |-> "empty", entries |-> {}]
Garbage == [state |-> "garbage", entries |-> {}]

NoCall == [step |-> "idle", op |-> "list", target |-> UnknownId, cli |-> "remindctl",
           todos |-> {}, before |-> {}]

Init ==
  /\ installed \in Machines
  /\ reminders = {} /\ file = Missing
  /\ calls = [c \in Calls |-> NoCall]
  /\ now = 0 /\ disturbed = FALSE /\ flapped = FALSE

Tick ==
  /\ now < MaxTime
  /\ now' = now + 1
  /\ UNCHANGED <<installed, reminders, file, calls, disturbed, flapped>>
-----------------------------------------------------------------------------
Ended(step) == {c \in Calls : calls[c].step = step}
KnownIds ==
  {UnknownId} \union {e.id : e \in reminders}
    \union UNION {{e.id : e \in calls[c].todos} : c \in Ended("ok")}

\* A call begins: library callers probe for a CLI, the command for its
\* authorization, the MCP tools run remindctl.
Start(c) ==
  /\ calls[c].step = "idle"
  /\ c > 1 => calls[c - 1].step # "idle"
  /\ \E first \in {"probe", "auth", "exec"}, op \in {"list", "add", "complete"} :
       \E id \in IF op = "complete" THEN KnownIds ELSE {UnknownId} :
         calls' = [calls EXCEPT ![c] =
                     [NoCall EXCEPT !.step = first, !.op = op, !.target = id,
                                    !.before = IF op = "list" THEN Ended("ok") ELSE {}]]
  /\ UNCHANGED <<installed, reminders, file, now, disturbed, flapped>>

\* The first of the candidates that answers --version; any failure of the
\* probe counts as absence.
GetActiveCli(answering) ==
  LET there == {i \in 1..3 : Candidates[i] \in answering}
  IN  IF there = {} THEN "fallback-file" ELSE Candidates[Min(there)]

Probe(c) ==
  /\ calls[c].step = "probe"
  /\ \E answering \in SUBSET installed :
       LET cli == GetActiveCli(answering) IN
         /\ calls' = [calls EXCEPT ![c].cli = cli,
                        ![c].step = IF cli = "fallback-file" THEN "read" ELSE "exec"]
         /\ flapped' = (flapped \/ cli # GetActiveCli(installed))
  /\ UNCHANGED <<installed, reminders, file, now, disturbed>>

Finish(c, step) == calls' = [calls EXCEPT ![c].step = step]
\* The call rejects or is cut off, with nothing to show.
Lose(c, step) == calls' = [calls EXCEPT ![c] = [NoCall EXCEPT !.step = step,
                             !.op = calls[c].op, !.target = calls[c].target]]

\* probeAuth: whatever goes wrong means "not authorized", exit code 3.
ProbeAuth(c) ==
  /\ calls[c].step = "auth"
  /\ \/ "remindctl" \in installed /\ Finish(c, "exec")
     \/ Lose(c, "refused")
  /\ UNCHANGED <<installed, reminders, file, now, disturbed, flapped>>

\* Mutant: every todo of the list is marked.
MarkedAll(e, id) == [e EXCEPT !.done = TRUE]
\* t.id === id ? { ...t, completed: true } : t
Marked(e, id) == IF e.id = id THEN [e EXCEPT !.done = TRUE] ELSE e

\* What the binary does for listTodos, addTodo and completeTodo.
Exec(c) ==
  /\ calls[c].step = "exec" /\ calls[c].cli \in installed
  /\ CASE calls[c].op = "list" ->
            /\ calls' = [calls EXCEPT ![c].step = "ok", ![c].todos = reminders]
            /\ UNCHANGED reminders
       [] calls[c].op = "add" ->
            /\ reminders' = reminders \union {Entry(ReminderId(c), c)}
            /\ calls' = [calls EXCEPT ![c].step = "ok",
                                      ![c].todos = {Entry(ReminderId(c), c)}]
       [] calls[c].op = "complete" ->
            /\ \E e \in reminders : e.id = calls[c].target
            /\ reminders' = {Marked(e, calls[c].target) : e \in reminders}
            /\ Finish(c, "ok")
  /\ UNCHANGED <<installed, file, now, disturbed, flapped>>

\* The binary is missing, fails, or does not know the id: the call rejects.
ExecFails(c) ==
  /\ calls[c].step = "exec"
  /\ Lose(c, "failed")
  /\ UNCHANGED <<installed, reminders, file, now, disturbed, flapped>>
-----------------------------------------------------------------------------
\* Calls that have read the file and are going to write it.
Rewriting == {c \in Calls : calls[c].step \in {"open", "write"}}

\* Mutant: the new todo is all that is written.
WithNewOnly(todos, e) == {e}
\* [...todos, newTodo]
WithNew(todos, e) == todos \union {e}

\* What addTodo and completeTodo make of the todos they read; completing an id
\* that is not there changes nothing and is ok.
Changed(c, todos) ==
  IF calls[c].op = "add" THEN WithNew(todos, Entry(LocalId(now), c))
  ELSE {Marked(e, calls[c].target) : e \in todos}

\* readFile and JSON.parse; what cannot be read or parsed is an empty list.
Read(c) ==
  /\ calls[c].step = "read"
  /\ calls' = [calls EXCEPT
       ![c].todos = IF calls[c].op = "list" THEN file.entries ELSE Changed(c, file.entries),
       ![c].step = IF calls[c].op = "list" THEN "ok" ELSE "open",
       ![c].before = IF file.state \in {"whole", "missing"} THEN @ ELSE {}]
  /\ disturbed' = (disturbed \/ (calls[c].op # "list" /\ Rewriting # {}))
  /\ UNCHANGED <<installed, reminders, file, now, flapped>>

\* writeFile opens the file, which truncates it.
Open(c) ==
  /\ calls[c].step = "open"
  /\ \/ file' = Empty /\ Finish(c, "write")
     \/ UNCHANGED file /\ Lose(c, "failed")
  /\ UNCHANGED <<installed, reminders, now, disturbed, flapped>>

\* The bytes are written over what another call has written since; if they are
\* fewer, its last bytes remain behind them.
Write(c) ==
  /\ calls[c].step = "write"
  /\ file' \in {Whole(calls[c].todos)} \union (IF file = Empty THEN {} ELSE {Garbage})
  /\ Finish(c, "ok")
  /\ UNCHANGED <<installed, reminders, now, disturbed, flapped>>

\* The disk is full.
WriteFails(c) ==
  /\ calls[c].step = "write"
  /\ file' \in {file, Garbage}
  /\ disturbed' = TRUE
  /\ Lose(c, "failed")
  /\ UNCHANGED <<installed, reminders, now, flapped>>

\* The calling process ends, with the file as it is at this moment.
Killed(c) ==
  /\ calls[c].step \in {"probe", "auth", "exec", "read", "open", "write"}
  /\ disturbed' = (disturbed \/ calls[c].step = "write")
  /\ Lose(c, "dead")
  /\ UNCHANGED <<installed, reminders, file, now, flapped>>

Next ==
  \/ Tick
  \/ \E c \in Calls :
       \/ Start(c) \/ Probe(c) \/ ProbeAuth(c) \/ Exec(c) \/ ExecFails(c)
       \/ Read(c) \/ Open(c) \/ Write(c) \/ WriteFails(c) \/ Killed(c)

Spec == Init /\ [][Next]_vars
-----------------------------------------------------------------------------
FromFile(c) == calls[c].cli = "fallback-file"

\* Whoever lists after an add or a complete was answered ok finds what was
\* added, and as done what was completed, unless rewrites of the file
\* overlapped, one was cut off or under way, or a probe failed and the two
\* calls went to different stores.
ReadsItsWrites ==
  \A l \in Ended("ok") :
    calls[l].op = "list" /\ ~disturbed =>
      \A c \in calls[l].before :
        ~flapped \/ FromFile(c) = FromFile(l) =>
          /\ calls[c].op = "add" => \E e \in calls[l].todos : e.title = c
          /\ calls[c].op = "complete" =>
               \A e \in calls[c].todos : e.done => e \in calls[l].todos

\* Whatever overlaps and is cut off, nothing appears in the file or in a list
\* that no call has added, and nothing as done whose id no call has completed.
NothingMadeUp ==
  \A e \in reminders \union file.entries \union UNION {calls[c].todos : c \in Calls} :
    /\ calls[e.title].op = "add"
    /\ e.done => \E c \in Calls : calls[c].op = "complete" /\ calls[c].target = e.id
=============================================================================
