------------------------------ MODULE AuditLog ------------------------------
(* appendAudit of src/src/tmux/audit.ts: the append-only JSONL file of       *)
(* delivered injections, its per-process promise queue and its rotation.     *)
(* Every process that can inject (one stdio MCP server per editor window,    *)
(* each `agent-conductor inject`) has a queue of its own; the directory is   *)
(* shared.  Entry number i is the i-th call made by anyone.                  *)
EXTENDS Naturals, Sequences, FiniteSets

CONSTANTS Procs,      \* processes sharing one audit directory
          Limit,      \* ROTATE_BYTES, in lines
          MaxCalls,   \* bound: calls made in a behaviour
          MaxTicks    \* bound: milliseconds that pass by themselves

ASSUME LimitAssumption == Limit \in Nat
ASSUME BoundsAssumption == MaxCalls \in Nat /\ MaxTicks \in Nat

VARIABLES calls,      \* calls of appendAudit so far
          queue,      \* writeQueue of each process, the running job first
          pc,         \* where the running job of each process is suspended
          stamp,      \* Date.now() a job put in the name of its archive
          file,       \* lines of audit.jsonl; <<>> stands for no file too
          archives,   \* audit.jsonl.<at> files: records [at, lines]
          now,        \* wall clock, in milliseconds
          written,    \* calls whose appendFile succeeded
          dropped     \* calls settled (or abandoned) without a line

vars == <<calls, queue, pc, stamp, file, archives, now, written, dropped>>

Steps == {"idle", "stat", "rename", "append"}
Entry == 1..MaxCalls
Lines(s) == {s[i] : i \in DOMAIN s}

\* Shapes of the variables; a call is settled one way only.
TypeOK ==
  /\ calls \in 0..MaxCalls
  /\ queue \in [Procs -> Seq(Entry)]
  /\ pc \in [Procs -> Steps]
  /\ stamp \in [Procs -> Nat]
  /\ file \in Seq(Entry)
  /\ archives \subseteq [at : Nat, lines : Seq(Entry)]
  /\ now \in Nat
  /\ written \subseteq Entry
  /\ dropped \subseteq Entry
  /\ written \cap dropped = {}

Init ==
  /\ calls = 0
  /\ queue = [p \in Procs |-> <<>>]
  /\ pc = [p \in Procs |-> "idle"]
  /\ stamp = [p \in Procs |-> 0]
  /\ file = <<>>
  /\ archives = {}
  /\ now = 0
  /\ written = {}
  /\ dropped = {}

-----------------------------------------------------------------------------
\* Mutant: a call that finds the queue busy is put in front of it.
EnqueueFirst(q, e) == IF q = <<>> THEN <<e>> ELSE <<Head(q), e>> \o Tail(q)
\* writeQueue = writeQueue.then(job): the job runs after all earlier ones.
Enqueue(q, e) == Append(q, e)

\* Mutant: >= for >.
RotationDueEarly(f) == Len(f) >= Limit
\* if (st.size > ROTATE_BYTES)
RotationDue(f) == Len(f) > Limit

\* Mutant: the archive has a fixed name.
ArchiveNameFixed(t) == 0
\* `${path}.${Date.now()}`
ArchiveName(t) == t

\* fs.rename replaces a file that already has the new name; renaming a file
\* that is not there fails, and the catch around it goes on.
Renamed(as, f, at) ==
  IF f = <<>> THEN as
  ELSE {a \in as : a.at # at} \union {[at |-> at, lines |-> f]}

\* Mutant: without .catch a rejected job leaves the queue rejected: no later
\* job of this process runs.
QueueAfterFailureStuck(q) == q
\* .catch(() => undefined): a failed job is settled like any other.
QueueAfterFailure(q) == Tail(q)

-----------------------------------------------------------------------------
\* appendAudit(entry) called in process p.
Submit(p) ==
  /\ calls < MaxCalls
  /\ calls' = calls + 1
  /\ queue' = [queue EXCEPT ![p] = Enqueue(@, calls + 1)]
  /\ UNCHANGED <<pc, stamp, file, archives, now, written, dropped>>

\* The head of the queue starts: mkdir(dir, {recursive: true}).
StartJob(p) ==
  /\ pc[p] = "idle"
  /\ queue[p] # <<>>
  /\ pc' = [pc EXCEPT ![p] = "stat"]
  /\ UNCHANGED <<calls, queue, stamp, file, archives, now, written, dropped>>

\* fs.stat answers; over the limit, the archive's name is made at once.
Stat(p) ==
  /\ pc[p] = "stat"
  /\ IF RotationDue(file)
     THEN /\ pc' = [pc EXCEPT ![p] = "rename"]
          /\ stamp' = [stamp EXCEPT ![p] = ArchiveName(now)]
     ELSE /\ pc' = [pc EXCEPT ![p] = "append"]
          /\ UNCHANGED stamp
  /\ UNCHANGED <<calls, queue, file, archives, now, written, dropped>>

\* fs.rename(path, archive).
Rename(p) ==
  /\ pc[p] = "rename"
  /\ pc' = [pc EXCEPT ![p] = "append"]
  /\ archives' = Renamed(archives, file, stamp[p])
  /\ file' = <<>>
  /\ UNCHANGED <<calls, queue, stamp, now, written, dropped>>

\* stat or rename rejects: the inner catch goes straight to the append.
SkipRotation(p) ==
  /\ pc[p] \in {"stat", "rename"}
  /\ pc' = [pc EXCEPT ![p] = "append"]
  /\ UNCHANGED <<calls, queue, stamp, file, archives, now, written, dropped>>

\* fs.appendFile succeeds and the caller's promise resolves.  Ten megabytes
\* are not written in one millisecond: the line that takes the file over the
\* limit comes at a later time than the file's beginning.
AppendLine(p) ==
  /\ pc[p] = "append"
  /\ pc' = [pc EXCEPT ![p] = "idle"]
  /\ file' = Append(file, Head(queue[p]))
  /\ written' = written \union {Head(queue[p])}
  /\ queue' = [queue EXCEPT ![p] = Tail(@)]
  /\ now' = IF Len(file') > Limit THEN now + 1 ELSE now
  /\ UNCHANGED <<calls, stamp, archives, dropped>>

\* mkdir or appendFile rejects; the caller's promise resolves all the same.
FailJob(p) ==
  /\ pc[p] \in {"idle", "append"}
  /\ queue[p] # <<>>
  /\ pc' = [pc EXCEPT ![p] = "idle"]
  /\ dropped' = dropped \union {Head(queue[p])}
  /\ queue' = [queue EXCEPT ![p] = QueueAfterFailure(@)]
  /\ UNCHANGED <<calls, stamp, file, archives, now, written>>

\* The process exits (stdin EOF, process.exit, a crash) with jobs queued and
\* is started again later.
Exit(p) ==
  /\ queue[p] # <<>>
  /\ pc' = [pc EXCEPT ![p] = "idle"]
  /\ dropped' = dropped \union Lines(queue[p])
  /\ queue' = [queue EXCEPT ![p] = <<>>]
  /\ UNCHANGED <<calls, stamp, file, archives, now, written>>

Tick ==
  /\ now < MaxTicks
  /\ now' = now + 1
  /\ UNCHANGED <<calls, queue, pc, stamp, file, archives, written, dropped>>

Job(p) == StartJob(p) \/ Stat(p) \/ Rename(p) \/ SkipRotation(p)
            \/ AppendLine(p) \/ FailJob(p)

Next == (\E p \in Procs : Submit(p) \/ Job(p) \/ Exit(p)) \/ Tick

\* File operations come back and the event loop runs their continuations.
Fairness == \A p \in Procs : WF_vars(Job(p))

Spec == Init /\ [][Next]_vars /\ Fairness
-----------------------------------------------------------------------------
\* No line whose append succeeded disappears: rotation only moves lines, and
\* no archive is overwritten by a later one.
NothingLost ==
  \A e \in written : \/ e \in Lines(file)
                     \/ \E a \in archives : e \in Lines(a.lines)

\* audit.ts:7-9 says two appends never both see the file over the limit and
\* rotate twice: an archive always holds more than the limit.
NoDoubleRotation == \A a \in archives : Len(a.lines) > Limit

\* A call that is queued is settled sooner or later, also when the file
\* system refuses an earlier one: a failure does not wedge the queue.
Settles ==
  \A e \in Entry : e <= calls ~> e \in written \union dropped
=============================================================================
