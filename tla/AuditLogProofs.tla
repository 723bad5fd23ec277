--------------------------- MODULE AuditLogProofs ---------------------------
(* Theorems about AuditLog, for any number of processes, calls and any limit, *)
(* about what the readers of AuditTail see, and that a single writer's files  *)
(* implement AppendOnlyLog.                                                   *)
EXTENDS AuditTail, AuditLogRefinement, SequenceTheorems, FiniteSetTheorems, TLAPS

\* Who waits: the queues hold calls that are made and not settled, each once.
QueuesInv ==
  /\ \A p \in Procs : pc[p] # "idle" => queue[p] # <<>>
  /\ written \subseteq 1..calls
  /\ dropped \subseteq 1..calls
  /\ \A p \in Procs : \A i \in 1..Len(queue[p]) :
        /\ queue[p][i] <= calls
        /\ queue[p][i] \notin written
        /\ queue[p][i] \notin dropped
  /\ \A p, q \in Procs : \A i \in 1..Len(queue[p]), j \in 1..Len(queue[q]) :
        queue[p][i] = queue[q][j] => p = q /\ i = j

\* One process writes to the directory.
OneWriter == \A p, q \in Procs : p = q

\* What a single writer knows between its stat and its rename: the file is
\* still over the limit and the new name is later than every archive's.
RotationInv ==
  /\ \A p \in Procs : pc[p] = "rename" =>
        /\ Len(file) > Limit
        /\ stamp[p] <= now
        /\ \A a \in archives : a.at < stamp[p]
  /\ Len(file) > Limit => \A a \in archives : a.at < now
  /\ \A a \in archives : a.at <= now

-----------------------------------------------------------------------------
\* The head of a queue is one of its entries, and the tail has the others.
LEMMA HeadTail ==
  ASSUME NEW q \in Seq(Entry), q # <<>>
  PROVE  /\ Head(q) \in Entry
         /\ Tail(q) \in Seq(Entry)
         /\ Len(q) \in Nat \ {0}
         /\ Head(q) = q[1]
         /\ Len(Tail(q)) = Len(q) - 1
         /\ \A i \in 1..Len(Tail(q)) : Tail(q)[i] = q[i + 1]
  OBVIOUS

\* Appending adds one entry at the end.
LEMMA AppendFacts ==
  ASSUME NEW q \in Seq(Entry), NEW e \in Entry
  PROVE  /\ Append(q, e) \in Seq(Entry)
         /\ Len(q) \in Nat
         /\ Len(Append(q, e)) = Len(q) + 1
         /\ \A i \in 1..Len(q) : Append(q, e)[i] = q[i]
         /\ Append(q, e)[Len(q) + 1] = e
         /\ Append(q, e) # <<>>
  OBVIOUS

\* The shapes and the queues, for any number of writers.
SafeInv == TypeOK /\ QueuesInv

\* At the start no call is queued and every file is empty.
LEMMA SafeInit == Init => SafeInv
  BY BoundsAssumption DEF Init, SafeInv, TypeOK, QueuesInv, Steps, Entry

\* appendAudit puts a new call at the end of its process's queue, where it is
\* the only one of its name.
LEMMA SafeSubmit ==
  ASSUME SafeInv, NEW p \in Procs, Submit(p)
  PROVE  SafeInv'
<1> DEFINE e == calls + 1
<1>1. /\ e \in Entry /\ e \in Nat /\ calls \in Nat
      /\ queue[p] \in Seq(Entry)
      /\ queue' = [queue EXCEPT ![p] = Append(queue[p], e)]
  BY BoundsAssumption DEF SafeInv, TypeOK, Submit, Entry, Enqueue
<1>2. /\ queue'[p] = Append(queue[p], e)
      /\ \A q \in Procs : q # p => queue'[q] = queue[q]
  BY <1>1 DEF SafeInv, TypeOK
<1>3. TypeOK'
  <2>1. Append(queue[p], e) \in Seq(Entry)
    BY <1>1, AppendFacts
  <2>2. queue' \in [Procs -> Seq(Entry)]
    BY <1>1, <2>1 DEF SafeInv, TypeOK
  <2>3. calls' \in 0..MaxCalls
    BY BoundsAssumption DEF SafeInv, TypeOK, Submit
  <2>4. QED
    BY <2>2, <2>3 DEF SafeInv, TypeOK, Submit
<1>4. ASSUME NEW q \in Procs, NEW i \in 1..Len(queue'[q])
      PROVE  \/ q = p /\ i = Len(queue[p]) + 1 /\ queue'[q][i] = e
             \/ i \in 1..Len(queue[q]) /\ queue'[q][i] = queue[q][i]
  BY <1>1, <1>2, AppendFacts
<1>5. \A q \in Procs : pc'[q] # "idle" => queue'[q] # <<>>
  BY <1>1, <1>2, AppendFacts DEF SafeInv, QueuesInv, Submit
<1>6. \A q \in Procs : \A i \in 1..Len(queue'[q]) :
        /\ queue'[q][i] <= calls'
        /\ queue'[q][i] \notin written'
        /\ queue'[q][i] \notin dropped'
  <2>1. calls' = e /\ written' = written /\ dropped' = dropped
    BY DEF Submit
  <2>2. e \notin written /\ e \notin dropped
    BY <1>1 DEF SafeInv, QueuesInv
  <2>3. ASSUME NEW q \in Procs, NEW i \in 1..Len(queue[q])
        PROVE  queue[q][i] <= e /\ queue[q][i] \in Nat
    <3>1. queue[q] \in Seq(Entry)
      BY DEF SafeInv, TypeOK
    <3>2. queue[q][i] \in Entry
      BY <2>3, <3>1
    <3>3. queue[q][i] <= calls
      BY <2>3 DEF SafeInv, QueuesInv
    <3>4. QED
      BY <1>1, <3>2, <3>3 DEF Entry
  <2>4. ASSUME NEW q \in Procs, NEW i \in 1..Len(queue'[q])
        PROVE  /\ queue'[q][i] <= e
               /\ queue'[q][i] \notin written
               /\ queue'[q][i] \notin dropped
    <3>1. CASE q = p /\ i = Len(queue[p]) + 1 /\ queue'[q][i] = e
      BY <1>1, <2>2, <3>1
    <3>2. CASE i \in 1..Len(queue[q]) /\ queue'[q][i] = queue[q][i]
      BY <2>3, <3>2 DEF SafeInv, QueuesInv
    <3>3. QED
      BY <1>4, <2>4, <3>1, <3>2
  <2>5. QED
    BY <2>1, <2>4
<1>7. \A q, r \in Procs : \A i \in 1..Len(queue'[q]), j \in 1..Len(queue'[r]) :
        queue'[q][i] = queue'[r][j] => q = r /\ i = j
  BY <1>1, <1>4 DEF SafeInv, QueuesInv, TypeOK, Entry
<1>8. written' \subseteq 1..calls' /\ dropped' \subseteq 1..calls'
  BY <1>1 DEF SafeInv, QueuesInv, Submit
<1>9. QED
  BY <1>3, <1>5, <1>6, <1>7, <1>8 DEF SafeInv, QueuesInv

\* What a job that takes the head off its queue and settles it preserves.
LEMMA SafeSettle ==
  ASSUME SafeInv, NEW p \in Procs, queue[p] # <<>>,
         queue' = [queue EXCEPT ![p] = Tail(@)],
         calls' = calls,
         pc' = [pc EXCEPT ![p] = "idle"],
         \/ written' = written \union {Head(queue[p])} /\ dropped' = dropped
         \/ dropped' = dropped \union {Head(queue[p])} /\ written' = written
  PROVE  /\ QueuesInv'
         /\ queue' \in [Procs -> Seq(Entry)]
         /\ pc' \in [Procs -> Steps]
         /\ written' \subseteq Entry /\ dropped' \subseteq Entry
         /\ written' \cap dropped' = {}
<1> DEFINE h == Head(queue[p])
<1>1. /\ queue[p] \in Seq(Entry)
      /\ h \in Entry
      /\ h = queue[p][1]
      /\ Tail(queue[p]) \in Seq(Entry)
      /\ Len(queue[p]) \in Nat \ {0}
      /\ Len(Tail(queue[p])) = Len(queue[p]) - 1
      /\ \A i \in 1..Len(Tail(queue[p])) : Tail(queue[p])[i] = queue[p][i + 1]
  BY HeadTail DEF SafeInv, TypeOK
<1>2. /\ queue'[p] = Tail(queue[p])
      /\ \A q \in Procs : q # p => queue'[q] = queue[q]
  BY DEF SafeInv, TypeOK
<1>3. ASSUME NEW q \in Procs, NEW i \in 1..Len(queue'[q])
      PROVE  \/ /\ q = p /\ i + 1 \in 1..Len(queue[p])
                /\ queue'[q][i] = queue[p][i + 1]
             \/ q # p /\ i \in 1..Len(queue[q]) /\ queue'[q][i] = queue[q][i]
  <2>1. CASE q = p
    <3>1. i \in 1..Len(Tail(queue[p]))
      BY <1>2, <1>3, <2>1
    <3>2. i + 1 \in 1..Len(queue[p])
      BY <1>1, <3>1
    <3>3. queue'[q][i] = queue[p][i + 1]
      BY <1>1, <1>2, <2>1, <3>1
    <3>4. QED
      BY <2>1, <3>2, <3>3
  <2>2. CASE q # p
    BY <1>2, <1>3, <2>2
  <2>3. QED
    BY <2>1, <2>2
<1>4. h \in 1..calls /\ h \notin written /\ h \notin dropped
  BY <1>1 DEF SafeInv, QueuesInv, TypeOK, Entry
<1>5. \A q \in Procs : \A i \in 1..Len(queue'[q]) : queue'[q][i] # h
  <2>1. ASSUME NEW q \in Procs, NEW i \in 1..Len(queue'[q])
        PROVE  queue'[q][i] # h
    <3>1. 1 \in 1..Len(queue[p])
      BY <1>1
    <3>2. CASE q = p
      <4>1. i + 1 # 1
        OBVIOUS
      <4>2. QED
        BY <1>1, <1>3, <2>1, <3>1, <3>2, <4>1 DEF SafeInv, QueuesInv
    <3>3. CASE q # p
      BY <1>1, <1>3, <2>1, <3>1, <3>3 DEF SafeInv, QueuesInv
    <3>4. QED
      BY <3>2, <3>3
  <2>2. QED
    BY <2>1
<1>6. \A q \in Procs : \A i \in 1..Len(queue'[q]) :
        /\ queue'[q][i] <= calls'
        /\ queue'[q][i] \notin written'
        /\ queue'[q][i] \notin dropped'
  BY <1>3, <1>5 DEF SafeInv, QueuesInv
<1>7. \A q, r \in Procs : \A i \in 1..Len(queue'[q]), j \in 1..Len(queue'[r]) :
        queue'[q][i] = queue'[r][j] => q = r /\ i = j
  <2>1. ASSUME NEW q \in Procs, NEW r \in Procs,
               NEW i \in 1..Len(queue'[q]), NEW j \in 1..Len(queue'[r]),
               queue'[q][i] = queue'[r][j]
        PROVE  q = r /\ i = j
    <3>1. PICK k \in 1..Len(queue[q]) :
            /\ queue'[q][i] = queue[q][k]
            /\ k = IF q = p THEN i + 1 ELSE i
      BY <1>3, <2>1
    <3>2. PICK l \in 1..Len(queue[r]) :
            /\ queue'[r][j] = queue[r][l]
            /\ l = IF r = p THEN j + 1 ELSE j
      BY <1>3, <2>1
    <3>3. q = r /\ k = l
      BY <2>1, <3>1, <3>2 DEF SafeInv, QueuesInv
    <3>4. QED
      BY <3>1, <3>2, <3>3
  <2>2. QED
    BY <2>1
<1>8. /\ written' \subseteq 1..calls' /\ dropped' \subseteq 1..calls'
      /\ written' \cap dropped' = {}
  <2>0. /\ written \subseteq 1..calls /\ dropped \subseteq 1..calls
        /\ written \cap dropped = {} /\ calls' = calls
    BY DEF SafeInv, QueuesInv, TypeOK
  <2>1. CASE written' = written \union {h} /\ dropped' = dropped
    BY <1>4, <2>0, <2>1
  <2>2. CASE dropped' = dropped \union {h} /\ written' = written
    BY <1>4, <2>0, <2>2
  <2>3. QED
    BY <2>1, <2>2
<1>9. \A q \in Procs : pc'[q] # "idle" => queue'[q] # <<>>
  BY <1>2 DEF SafeInv, QueuesInv, TypeOK
<1>10. QueuesInv'
  BY <1>6, <1>7, <1>8, <1>9 DEF QueuesInv
<1>11. /\ queue' \in [Procs -> Seq(Entry)]
       /\ pc' \in [Procs -> Steps]
       /\ written' \subseteq Entry /\ dropped' \subseteq Entry
  BY <1>1 DEF SafeInv, TypeOK, Steps
<1>12. QED
  BY <1>8, <1>10, <1>11

\* The append moves the head of a queue to the file: it was waiting, now it is
\* written and settled.
LEMMA SafeAppendLine ==
  ASSUME SafeInv, NEW p \in Procs, AppendLine(p)
  PROVE  SafeInv'
<1>1. queue[p] # <<>>
  BY DEF SafeInv, QueuesInv, AppendLine
<1>2. QueuesInv' /\ queue' \in [Procs -> Seq(Entry)] /\ pc' \in [Procs -> Steps]
      /\ written' \subseteq Entry /\ dropped' \subseteq Entry
      /\ written' \cap dropped' = {}
  BY <1>1, SafeSettle DEF AppendLine
<1>3. file' \in Seq(Entry)
  BY <1>1, HeadTail, AppendFacts DEF SafeInv, TypeOK, AppendLine
<1>4. now' \in Nat
  BY DEF SafeInv, TypeOK, AppendLine
<1>5. QED
  BY <1>2, <1>3, <1>4 DEF SafeInv, TypeOK, AppendLine

\* A file operation that throws settles the head of the queue without a line.
LEMMA SafeFailJob ==
  ASSUME SafeInv, NEW p \in Procs, FailJob(p)
  PROVE  SafeInv'
<1>1. QueuesInv' /\ queue' \in [Procs -> Seq(Entry)] /\ pc' \in [Procs -> Steps]
      /\ written' \subseteq Entry /\ dropped' \subseteq Entry
      /\ written' \cap dropped' = {}
  BY SafeSettle DEF FailJob, QueueAfterFailure
<1>2. QED
  BY <1>1 DEF SafeInv, TypeOK, FailJob

\* An exit drops a queue; its calls are settled as lost and the job is over.
LEMMA SafeExit ==
  ASSUME SafeInv, NEW p \in Procs, Exit(p)
  PROVE  SafeInv'
<1>1. /\ queue'[p] = <<>>
      /\ \A q \in Procs : q # p => queue'[q] = queue[q]
      /\ queue' \in [Procs -> Seq(Entry)]
      /\ pc' = [pc EXCEPT ![p] = "idle"]
  BY DEF SafeInv, TypeOK, Exit
<1>2. /\ queue[p] \in Seq(Entry)
      /\ Lines(queue[p]) \subseteq Entry
      /\ Lines(queue[p]) = {queue[p][i] : i \in 1..Len(queue[p])}
  BY DEF SafeInv, TypeOK, Lines
<1>3. /\ Lines(queue[p]) \subseteq 1..calls
      /\ Lines(queue[p]) \cap written = {}
  BY <1>2 DEF SafeInv, QueuesInv, TypeOK, Entry
<1>4. \A q \in Procs : q # p =>
        \A i \in 1..Len(queue[q]) : queue[q][i] \notin Lines(queue[p])
  BY <1>2 DEF SafeInv, QueuesInv
<1>5. TypeOK'
  BY <1>1, <1>2, <1>3 DEF SafeInv, TypeOK, Exit, Steps
<1>6. \A q \in Procs : pc'[q] # "idle" => queue'[q] # <<>>
  BY <1>1 DEF SafeInv, QueuesInv, TypeOK
<1>7. \A q \in Procs : \A i \in 1..Len(queue'[q]) :
        q # p /\ i \in 1..Len(queue[q]) /\ queue'[q][i] = queue[q][i]
  BY <1>1
<1>8. \A q \in Procs : \A i \in 1..Len(queue'[q]) :
        /\ queue'[q][i] <= calls'
        /\ queue'[q][i] \notin written'
        /\ queue'[q][i] \notin dropped'
  BY <1>4, <1>7 DEF SafeInv, QueuesInv, Exit
<1>9. \A q, r \in Procs : \A i \in 1..Len(queue'[q]), j \in 1..Len(queue'[r]) :
        queue'[q][i] = queue'[r][j] => q = r /\ i = j
  BY <1>7 DEF SafeInv, QueuesInv
<1>10. written' \subseteq 1..calls' /\ dropped' \subseteq 1..calls'
  BY <1>3 DEF SafeInv, QueuesInv, Exit
<1>11. QED
  BY <1>5, <1>6, <1>8, <1>9, <1>10 DEF SafeInv, QueuesInv

\* Who waits does not change while the queues and the settled calls stay as
\* they are and no job begins.
LEMMA QueuesKept ==
  ASSUME QueuesInv, UNCHANGED <<calls, queue, written, dropped>>,
         \A q \in Procs : pc'[q] # "idle" => queue[q] # <<>>
  PROVE  QueuesInv'
<1>1. calls' = calls /\ queue' = queue /\ written' = written /\ dropped' = dropped
  OBVIOUS
<1>2. \A q \in Procs : pc'[q] # "idle" => queue'[q] # <<>>
  BY <1>1
<1>3. QED
  BY <1>1, <1>2 DEF QueuesInv

\* Steps of a job between its start and its append leave the queues alone.
LEMMA SafeMove ==
  ASSUME SafeInv, NEW p \in Procs,
         StartJob(p) \/ Stat(p) \/ Rename(p) \/ SkipRotation(p)
  PROVE  SafeInv'
<1>1. UNCHANGED <<calls, queue, now, written, dropped>>
  BY DEF StartJob, Stat, Rename, SkipRotation
<1>2. queue[p] # <<>>
  BY DEF SafeInv, QueuesInv, StartJob, Stat, Rename, SkipRotation
<1>3. /\ pc' \in [Procs -> Steps]
      /\ \A q \in Procs \ {p} : pc'[q] = pc[q]
  BY DEF SafeInv, TypeOK, Steps, StartJob, Stat, Rename, SkipRotation
<1>4. QueuesInv'
  BY <1>1, <1>2, <1>3, QueuesKept DEF SafeInv, QueuesInv
<1>5. stamp' \in [Procs -> Nat]
  BY DEF SafeInv, TypeOK, ArchiveName, StartJob, Stat, Rename, SkipRotation
<1>6. /\ file' \in Seq(Entry)
      /\ archives' \subseteq [at : Nat, lines : Seq(Entry)]
  <2>1. CASE Rename(p)
    BY <2>1 DEF SafeInv, TypeOK, Rename, Renamed
  <2>2. CASE ~Rename(p)
    BY <2>2 DEF SafeInv, TypeOK, StartJob, Stat, SkipRotation
  <2>3. QED
    BY <2>1, <2>2
<1>7. TypeOK'
  BY <1>1, <1>3, <1>5, <1>6 DEF SafeInv, TypeOK
<1>8. QED
  BY <1>4, <1>7 DEF SafeInv

\* Every step of appendAudit's callers, of its jobs and of the clock keeps SafeInv.
LEMMA SafeStep == SafeInv /\ [Next]_vars => SafeInv'
<1> SUFFICES ASSUME SafeInv, [Next]_vars
             PROVE  SafeInv'
  OBVIOUS
<1>1. ASSUME NEW p \in Procs, Submit(p)
      PROVE  SafeInv'
  BY <1>1, SafeSubmit
<1>2. ASSUME NEW p \in Procs, Job(p)
      PROVE  SafeInv'
  BY <1>2, SafeMove, SafeAppendLine, SafeFailJob DEF Job
<1>3. ASSUME NEW p \in Procs, Exit(p)
      PROVE  SafeInv'
  BY <1>3, SafeExit
<1>4. CASE Tick
  <2>1. QueuesInv'
    BY <1>4, QueuesKept DEF SafeInv, QueuesInv, Tick
  <2>2. TypeOK'
    BY <1>4 DEF SafeInv, TypeOK, Tick
  <2>3. QED
    BY <2>1, <2>2 DEF SafeInv
<1>5. CASE UNCHANGED vars
  <2>1. QueuesInv'
    BY <1>5, QueuesKept DEF SafeInv, QueuesInv, vars
  <2>2. TypeOK'
    BY <1>5 DEF SafeInv, TypeOK, vars
  <2>3. QED
    BY <2>1, <2>2 DEF SafeInv
<1>6. QED
  BY <1>1, <1>2, <1>3, <1>4, <1>5 DEF Next

\* However many processes append, every variable keeps its shape and no call
\* of appendAudit is both written and given up.
THEOREM AuditTypeCorrect == Spec => []TypeOK
<1>1. SafeInv => TypeOK
  BY DEF SafeInv
<1>2. QED
  BY SafeInit, SafeStep, <1>1, PTL DEF Spec

-----------------------------------------------------------------------------
\* The single writer: rotation and retention together.
WriterInv == RotationInv /\ NothingLost /\ NoDoubleRotation

\* The rotation invariant of a single writer holds before the first call.
LEMMA WriterInit == Init => WriterInv
  BY LimitAssumption DEF Init, WriterInv, RotationInv, NothingLost,
                         NoDoubleRotation

\* stat: only a file that is over the limit sends a job to the rename.
LEMMA WriterStat ==
  ASSUME SafeInv, WriterInv, OneWriter, NEW p \in Procs, Stat(p)
  PROVE  WriterInv'
<1>1. \A q \in Procs : q = p
  BY DEF OneWriter
<1>2. now \in Nat /\ stamp \in [Procs -> Nat] /\ pc \in [Procs -> Steps]
      /\ archives \subseteq [at : Nat, lines : Seq(Entry)]
  BY DEF SafeInv, TypeOK
<1>3. pc'[p] = "rename" => Len(file) > Limit /\ stamp'[p] = now
  BY <1>2 DEF Stat, RotationDue, ArchiveName
<1>4. RotationInv'
  BY <1>1, <1>2, <1>3 DEF WriterInv, RotationInv, Stat
<1>5. NothingLost' /\ NoDoubleRotation'
  BY DEF WriterInv, NothingLost, NoDoubleRotation, Stat, Lines
<1>6. QED
  BY <1>4, <1>5 DEF WriterInv

\* The rename: its time stamp is later than those of all archives, so that the
\* file becomes an archive of its own, and nothing is overwritten.
LEMMA WriterRename ==
  ASSUME SafeInv, WriterInv, OneWriter, NEW p \in Procs, Rename(p)
  PROVE  WriterInv'
<1> DEFINE new == [at |-> stamp[p], lines |-> file]
<1>1. /\ Len(file) > Limit /\ stamp[p] <= now
      /\ \A a \in archives : a.at < stamp[p]
      /\ stamp[p] \in Nat /\ now \in Nat /\ file \in Seq(Entry)
      /\ archives \subseteq [at : Nat, lines : Seq(Entry)]
      /\ pc' = [pc EXCEPT ![p] = "append"] /\ pc \in [Procs -> Steps]
      /\ file' = <<>> /\ now' = now /\ written' = written
  BY DEF SafeInv, TypeOK, WriterInv, RotationInv, Rename
<1>2. file # <<>>
  BY <1>1, LimitAssumption
<1>3. \A a \in archives : a.at # stamp[p]
  BY <1>1
<1>4. archives' = archives \union {new}
  BY <1>2, <1>3 DEF Rename, Renamed
<1>5. RotationInv'
  <2>1. \A q \in Procs : pc'[q] # "rename"
    BY <1>1 DEF OneWriter
  <2>2. ~ (Len(file') > Limit)
    BY <1>1, LimitAssumption
  <2>3. \A a \in archives' : a.at <= now'
    BY <1>1, <1>4 DEF WriterInv, RotationInv
  <2>4. QED
    BY <2>1, <2>2, <2>3 DEF RotationInv
<1>6. NothingLost'
  <2>1. ASSUME NEW e \in written
        PROVE  \E a \in archives' : e \in Lines(a.lines)
    <3>1. CASE e \in Lines(file)
      <4>1. new \in archives' /\ new.lines = file
        BY <1>4
      <4>2. QED
        BY <3>1, <4>1
    <3>2. CASE \E a \in archives : e \in Lines(a.lines)
      BY <1>4, <3>2
    <3>3. QED
      BY <3>1, <3>2 DEF WriterInv, NothingLost
  <2>2. QED
    BY <1>1, <2>1 DEF NothingLost
<1>7. NoDoubleRotation'
  BY <1>1, <1>4 DEF WriterInv, NoDoubleRotation
<1>8. QED
  BY <1>5, <1>6, <1>7 DEF WriterInv

\* The append adds a line to the live file and leaves the archives alone.
LEMMA WriterAppend ==
  ASSUME SafeInv, WriterInv, OneWriter, NEW p \in Procs, AppendLine(p)
  PROVE  WriterInv'
<1> DEFINE e == Head(queue[p])
<1>1. queue[p] # <<>> /\ queue[p] \in Seq(Entry) /\ e \in Entry
  BY HeadTail DEF SafeInv, QueuesInv, TypeOK, AppendLine
<1>2. /\ file \in Seq(Entry) /\ now \in Nat /\ pc \in [Procs -> Steps]
      /\ archives \subseteq [at : Nat, lines : Seq(Entry)]
      /\ file' = Append(file, e) /\ archives' = archives
      /\ written' = written \union {e}
      /\ now' = IF Len(file') > Limit THEN now + 1 ELSE now
  BY DEF SafeInv, TypeOK, AppendLine
<1>3. \A q \in Procs : pc'[q] # "rename"
  BY <1>2 DEF OneWriter, AppendLine
<1>4. RotationInv'
  <2>1. \A a \in archives : a.at \in Nat /\ a.at <= now
    BY <1>2 DEF WriterInv, RotationInv
  <2>2. \A a \in archives' : a.at <= now'
    BY <1>2, <2>1
  <2>3. Len(file') > Limit => \A a \in archives' : a.at < now'
    BY <1>2, <2>1
  <2>4. QED
    BY <1>3, <2>2, <2>3 DEF RotationInv
<1>5. Lines(file') = Lines(file) \union {e}
  BY <1>1, <1>2 DEF Lines
<1>6. NothingLost' /\ NoDoubleRotation'
  BY <1>2, <1>5 DEF WriterInv, NothingLost, NoDoubleRotation
<1>7. QED
  BY <1>4, <1>6 DEF WriterInv

\* Every step of a single writer keeps the rotation invariant.
LEMMA WriterStep ==
  SafeInv /\ WriterInv /\ OneWriter /\ [Next]_vars => WriterInv'
<1> SUFFICES ASSUME SafeInv, WriterInv, OneWriter, [Next]_vars
             PROVE  WriterInv'
  OBVIOUS
<1> USE DEF WriterInv, NothingLost, NoDoubleRotation, Lines
<1>1. ASSUME NEW p \in Procs, Submit(p)
      PROVE  WriterInv'
  BY <1>1 DEF RotationInv, Submit
<1>2. ASSUME NEW p \in Procs, StartJob(p)
      PROVE  WriterInv'
  BY <1>2 DEF RotationInv, StartJob, SafeInv, TypeOK
<1>3. ASSUME NEW p \in Procs, SkipRotation(p)
      PROVE  WriterInv'
  BY <1>3 DEF RotationInv, SkipRotation, SafeInv, TypeOK
<1>4. ASSUME NEW p \in Procs, FailJob(p)
      PROVE  WriterInv'
  BY <1>4 DEF RotationInv, FailJob, SafeInv, TypeOK
<1>5. ASSUME NEW p \in Procs, Exit(p)
      PROVE  WriterInv'
  BY <1>5 DEF RotationInv, Exit, SafeInv, TypeOK
<1>6. CASE Tick
  <2>1. RotationInv'
    <3>1. now' = now + 1 /\ now \in Nat /\ file' = file /\ archives' = archives
          /\ stamp' = stamp /\ pc' = pc /\ stamp \in [Procs -> Nat]
          /\ archives \subseteq [at : Nat, lines : Seq(Entry)]
      BY <1>6 DEF Tick, SafeInv, TypeOK
    <3>2. \A a \in archives : a.at \in Nat
      BY <3>1
    <3>3. QED
      BY <3>1, <3>2 DEF RotationInv
  <2>2. NothingLost' /\ NoDoubleRotation'
    BY <1>6 DEF Tick
  <2>3. QED
    BY <2>1, <2>2
<1>7. CASE UNCHANGED vars
  BY <1>7 DEF RotationInv, vars
<1>8. QED
  BY <1>1, <1>2, <1>3, <1>4, <1>5, <1>6, <1>7, WriterStat, WriterRename,
     WriterAppend DEF Next, Job

\* With one writing process, no line is ever lost to a rotation, whatever the
\* limit, the number of calls, the failures and the restarts.
THEOREM AuditNothingLost == OneWriter /\ Spec => []NothingLost
<1>1. WriterInv => NothingLost
  BY DEF WriterInv
<1>2. OneWriter => OneWriter'
  BY DEF OneWriter
<1>3. QED
  BY SafeInit, SafeStep, WriterInit, WriterStep, <1>1, <1>2, PTL DEF Spec

\* With one writing process, only a file over the limit is rotated: the check
\* made before the rename still holds at the rename.
THEOREM AuditNoDoubleRotation == OneWriter /\ Spec => []NoDoubleRotation
<1>1. WriterInv => NoDoubleRotation
  BY DEF WriterInv
<1>2. OneWriter => OneWriter'
  BY DEF OneWriter
<1>3. QED
  BY SafeInit, SafeStep, WriterInit, WriterStep, <1>1, <1>2, PTL DEF Spec

-----------------------------------------------------------------------------
(* What the readers see.                                                     *)

\* With a single writer the calls are settled in the order in which they were
\* made: whatever is in the file is newer than what went before it, and older
\* than what waits.
OrderInv ==
  /\ \A i, j \in DOMAIN file : i < j => file[i] < file[j]
  /\ Lines(file) \subseteq written
  /\ \A e \in written : e \notin Lines(file) => \A i \in DOMAIN file : e < file[i]
  /\ \A p \in Procs : \A i, j \in DOMAIN queue[p] : i < j => queue[p][i] < queue[p][j]
  /\ \A p \in Procs : \A i \in DOMAIN queue[p] : \A e \in written : e < queue[p][i]

\* The entries of a sequence of entries can be compared.
LEMMA EntriesAreNumbers ==
  /\ Entry \subseteq Nat
  /\ \A s \in Seq(Entry) : \A i \in DOMAIN s : s[i] \in Nat
<1>1. Entry \subseteq Nat
  BY BoundsAssumption DEF Entry
<1>2. ASSUME NEW s \in Seq(Entry), NEW i \in DOMAIN s
      PROVE  s[i] \in Entry
  OBVIOUS
<1>3. QED
  BY <1>1, <1>2

\* Nothing is in the file or waits at first.
LEMMA OrderInit == Init => OrderInv
BY DEF Init, OrderInv, Lines

\* A new call is newer than all the others.
LEMMA OrderSubmit ==
  ASSUME SafeInv, OrderInv, NEW p \in Procs, Submit(p)
  PROVE  OrderInv'
<1> DEFINE n == calls + 1
<1>1. /\ queue \in [Procs -> Seq(Entry)] /\ calls \in Nat /\ n \in Entry
      /\ queue' = [queue EXCEPT ![p] = Append(queue[p], n)]
      /\ UNCHANGED <<file, written>>
  BY BoundsAssumption DEF SafeInv, TypeOK, Submit, Enqueue, Entry
<1>2. /\ queue'[p] = Append(queue[p], n)
      /\ \A q \in Procs : q # p => queue'[q] = queue[q]
      /\ queue[p] \in Seq(Entry)
  BY <1>1
<1>3. /\ \A i \in DOMAIN queue[p] : queue[p][i] < n
      /\ \A e \in written : e < n
  <2>1. \A k \in Nat : k <= calls => k < n
    BY <1>1
  <2>2. ASSUME NEW i \in DOMAIN queue[p]
        PROVE  queue[p][i] < n
    <3>1. queue[p][i] \in Nat
      BY <1>2, EntriesAreNumbers
    <3>2. i \in 1..Len(queue[p])
      BY <1>2
    <3>3. queue[p][i] <= calls
      BY <3>2 DEF SafeInv, QueuesInv
    <3>4. QED
      BY <2>1, <3>1, <3>3
  <2>3. \A e \in written : e <= calls /\ e \in Nat
    <3>1. written \subseteq 1..calls
      BY DEF SafeInv, QueuesInv
    <3>2. QED
      BY <1>1, <3>1
  <2>4. QED
    BY <2>1, <2>2, <2>3
<1>4. \A i \in DOMAIN queue'[p] :
        \/ i \in DOMAIN queue[p] /\ queue'[p][i] = queue[p][i] /\ i < Len(queue[p]) + 1
        \/ i = Len(queue[p]) + 1 /\ queue'[p][i] = n
  BY <1>1, <1>2, AppendFacts
<1> HIDE DEF n
<1>5. \A q \in Procs : \A i, j \in DOMAIN queue'[q] : i < j => queue'[q][i] < queue'[q][j]
  <2>1. ASSUME NEW i \in DOMAIN queue'[p], NEW j \in DOMAIN queue'[p], i < j
        PROVE  queue'[p][i] < queue'[p][j]
    <3>1. Len(queue[p]) \in Nat /\ DOMAIN queue[p] = 1..Len(queue[p])
      BY <1>2
    <3>2. i \in DOMAIN queue[p] /\ queue'[p][i] = queue[p][i]
      BY <1>4, <2>1, <3>1
    <3>3. QED
      BY <1>3, <1>4, <2>1, <3>2 DEF OrderInv
  <2>2. QED
    BY <1>2, <2>1 DEF OrderInv
<1>6. \A q \in Procs : \A i \in DOMAIN queue'[q] : \A e \in written : e < queue'[q][i]
  BY <1>2, <1>3, <1>4 DEF OrderInv
<1>7. QED
  BY <1>1, <1>5, <1>6 DEF OrderInv

\* What leaves the head of a queue, or the whole queue, leaves it in order.
LEMMA OrderShorter ==
  ASSUME SafeInv, OrderInv, OneWriter, NEW p \in Procs, UNCHANGED <<file, written>>,
         queue[p] # <<>>,
         \/ queue' = [queue EXCEPT ![p] = Tail(@)]
         \/ queue' = [queue EXCEPT ![p] = <<>>]
  PROVE  OrderInv'
<1>1. queue \in [Procs -> Seq(Entry)] /\ queue[p] \in Seq(Entry) /\ \A q \in Procs : q = p
  BY DEF SafeInv, TypeOK, OneWriter
<1>2. CASE queue' = [queue EXCEPT ![p] = <<>>]
  BY <1>1, <1>2 DEF OrderInv
<1>3. CASE queue' = [queue EXCEPT ![p] = Tail(@)]
  <2>1. queue'[p] = Tail(queue[p])
    BY <1>1, <1>3
  <2>2. \A i \in DOMAIN queue'[p] : /\ i \in Nat /\ i + 1 \in DOMAIN queue[p]
                                    /\ queue'[p][i] = queue[p][i + 1]
    BY <1>1, <2>1, HeadTail
  <2>3. QED
    BY <1>1, <2>2 DEF OrderInv
<1>4. QED
  BY <1>2, <1>3

\* The line that is added is newer than all lines, and older than what waits.
LEMMA OrderAppend ==
  ASSUME SafeInv, OrderInv, OneWriter, NEW p \in Procs, AppendLine(p)
  PROVE  OrderInv'
<1> DEFINE h == Head(queue[p])
<1>1. /\ queue \in [Procs -> Seq(Entry)] /\ queue[p] \in Seq(Entry) /\ \A q \in Procs : q = p
      /\ queue[p] # <<>> /\ file \in Seq(Entry) /\ written \subseteq Entry
      /\ file' = Append(file, h) /\ written' = written \union {h}
      /\ queue' = [queue EXCEPT ![p] = Tail(@)]
  BY DEF SafeInv, QueuesInv, TypeOK, OneWriter, AppendLine
<1>2. /\ h \in Entry /\ h = queue[p][1] /\ 1 \in DOMAIN queue[p]
      /\ queue'[p] = Tail(queue[p])
      /\ \A i \in DOMAIN queue'[p] : /\ i \in Nat /\ i > 0 /\ i + 1 \in DOMAIN queue[p]
                                     /\ queue'[p][i] = queue[p][i + 1]
  BY <1>1, HeadTail
<1> HIDE DEF h
<1>3. \A e \in written : e < h
  BY <1>2 DEF OrderInv
<1>4. /\ DOMAIN file' = DOMAIN file \union {Len(file) + 1} /\ file'[Len(file) + 1] = h
      /\ \A i \in DOMAIN file : file'[i] = file[i] /\ i < Len(file) + 1 /\ i \in Nat
      /\ Len(file) \in Nat
  BY <1>1, <1>2, AppendFacts
<1>5. \A i \in DOMAIN file : file[i] \in written
  BY DEF OrderInv, Lines
<1>6. Lines(file') = Lines(file) \union {h}
  BY <1>4 DEF Lines
<1>7. \A i, j \in DOMAIN file' : i < j => file'[i] < file'[j]
  <2>1. ASSUME NEW i \in DOMAIN file', NEW j \in DOMAIN file', i < j
        PROVE  file'[i] < file'[j]
    <3>1. i \in DOMAIN file
      BY <1>4, <2>1
    <3>2. QED
      BY <1>3, <1>4, <1>5, <2>1, <3>1 DEF OrderInv
  <2>2. QED
    BY <2>1
<1>8. Lines(file') \subseteq written'
  BY <1>1, <1>6 DEF OrderInv
<1>9. \A e \in written' : e \notin Lines(file') => \A i \in DOMAIN file' : e < file'[i]
  BY <1>1, <1>3, <1>4, <1>6 DEF OrderInv
<1>10. \A i, j \in DOMAIN queue'[p] : i < j => queue'[p][i] < queue'[p][j]
  BY <1>2 DEF OrderInv
<1>11. \A i \in DOMAIN queue'[p] : \A e \in written' : e < queue'[p][i]
  <2>1. \A i \in DOMAIN queue'[p] : h < queue'[p][i]
    BY <1>2 DEF OrderInv
  <2>2. QED
    BY <1>1, <1>2, <2>1 DEF OrderInv
<1>12. QED
  BY <1>1, <1>7, <1>8, <1>9, <1>10, <1>11 DEF OrderInv

\* Every step keeps the order.
LEMMA OrderStep == SafeInv /\ OrderInv /\ OneWriter /\ [Next]_vars => OrderInv'
<1> SUFFICES ASSUME SafeInv, OrderInv, OneWriter, [Next]_vars
             PROVE  OrderInv'
  OBVIOUS
<1>1. ASSUME NEW p \in Procs, StartJob(p) \/ Stat(p) \/ SkipRotation(p)
      PROVE  OrderInv'
  BY <1>1 DEF StartJob, Stat, SkipRotation, OrderInv, Lines
<1>2. ASSUME NEW p \in Procs, Rename(p)
      PROVE  OrderInv'
  BY <1>2 DEF Rename, OrderInv, Lines
<1>3. ASSUME NEW p \in Procs, FailJob(p) \/ Exit(p)
      PROVE  OrderInv'
  BY <1>3, OrderShorter DEF FailJob, QueueAfterFailure, Exit
<1>4. CASE Tick \/ UNCHANGED vars
  BY <1>4 DEF Tick, vars, OrderInv, Lines
<1>5. QED
  BY <1>1, <1>2, <1>3, <1>4, OrderSubmit, OrderAppend DEF Next, Job

\* Every view is an end of the file.
LEMMA SliceIsSuffix ==
  ASSUME NEW s \in Seq(Entry), NEW n \in Int
  PROVE  \E d \in Nat :
           /\ DOMAIN Slice(s, n) = 1..(Len(s) - d)
           /\ Slice(s, n) # <<>> => d < Len(s) /\ Head(Slice(s, n)) = s[d + 1]
           /\ \A i \in 1..(Len(s) - d) : d + i \in 1..Len(s) /\ Slice(s, n)[i] = s[d + i]
<1> DEFINE first == IF n > 0 THEN IF Len(s) < n THEN 1 ELSE Len(s) - n + 1 ELSE 1 - n
           d == first - 1
           v == SubSeq(s, first, Len(s))
<1>1. Len(s) \in Nat /\ first \in Int /\ d \in Nat /\ first = d + 1
  OBVIOUS
<1>2. Slice(s, n) = v
  BY DEF Slice
<1> HIDE DEF first, d
<1>3. \A i \in first..Len(s) : s[i] \in Entry
  BY <1>1
<1>4. /\ v \in Seq(Entry) /\ Len(v) = IF first <= Len(s) THEN Len(s) - first + 1 ELSE 0
      /\ \A i \in 1..(Len(s) - first + 1) : v[i] = s[first + i - 1]
  BY <1>1, <1>3, SubSeqProperties
<1> HIDE DEF v
<1>5. DOMAIN v = 1..(Len(s) - d)
  <2>1. CASE first <= Len(s)
    <3>1. Len(v) = Len(s) - d
      BY <1>1, <1>4, <2>1
    <3>2. QED
      BY <1>4, <3>1
  <2>2. CASE ~(first <= Len(s))
    <3>1. Len(v) = 0 /\ 1..(Len(s) - d) = {}
      BY <1>1, <1>4, <2>2
    <3>2. QED
      BY <1>4, <3>1
  <2>3. QED
    BY <2>1, <2>2
<1>6. \A i \in 1..(Len(s) - d) : d + i \in 1..Len(s) /\ v[i] = s[d + i]
  <2>1. ASSUME NEW i \in 1..(Len(s) - d)
        PROVE  /\ i \in 1..(Len(s) - first + 1) /\ first + i - 1 = d + i
               /\ d + i \in 1..Len(s)
    BY <1>1, <2>1
  <2>2. QED
    BY <1>4, <2>1
<1>7. v # <<>> => d < Len(s) /\ Head(v) = s[d + 1]
  <2>1. SUFFICES ASSUME v # <<>>
                 PROVE  d < Len(s) /\ Head(v) = s[d + 1]
    OBVIOUS
  <2>2. 1 \in DOMAIN v /\ Head(v) = v[1]
    BY <1>4, <2>1
  <2>3. QED
    BY <1>1, <1>5, <1>6, <2>2
<1>8. QED
  BY <1>1, <1>2, <1>5, <1>6, <1>7

\* An end of the file has its lines in order, and all the newest ones.
LEMMA SuffixIsNewest ==
  ASSUME OrderInv, file \in Seq(Entry), written \subseteq Entry, NEW n \in Int
  PROVE  /\ \A i, j \in DOMAIN Slice(file, n) : i < j => Slice(file, n)[i] < Slice(file, n)[j]
         /\ Slice(file, n) # <<>> =>
              {e \in written : e >= Head(Slice(file, n))} = Lines(Slice(file, n))
<1> DEFINE v == Slice(file, n)
<1>1. PICK d \in Nat :
        /\ DOMAIN v = 1..(Len(file) - d)
        /\ v # <<>> => d < Len(file) /\ Head(v) = file[d + 1]
        /\ \A i \in 1..(Len(file) - d) : d + i \in 1..Len(file) /\ v[i] = file[d + i]
  BY SliceIsSuffix
<1> HIDE DEF v
<1>2. Len(file) \in Nat /\ DOMAIN file = 1..Len(file)
  OBVIOUS
<1>3. ASSUME NEW i \in DOMAIN v, NEW j \in DOMAIN v, i < j
      PROVE  v[i] < v[j]
  <2>1. d + i < d + j /\ d + i \in DOMAIN file /\ d + j \in DOMAIN file
    BY <1>1, <1>2, <1>3
  <2>2. QED
    BY <1>1, <1>3, <2>1 DEF OrderInv
<1>4. ASSUME v # <<>>
      PROVE  {e \in written : e >= Head(v)} = Lines(v)
  <2>1. d + 1 \in DOMAIN file /\ Head(v) = file[d + 1]
    BY <1>1, <1>2, <1>4
  <2>2. ASSUME NEW e \in written, e >= Head(v)
        PROVE  e \in Lines(v)
    <3>1. e \in Lines(file)
      <4>1. e \in Nat /\ file[d + 1] \in Nat
        BY <2>1, EntriesAreNumbers
      <4>2. e \notin Lines(file) => e < file[d + 1]
        BY <2>1 DEF OrderInv
      <4>3. QED
        BY <2>1, <2>2, <4>1, <4>2
    <3>2. PICK k \in DOMAIN file : file[k] = e
      BY <3>1 DEF Lines
    <3>3. ~(k < d + 1)
      <4>1. e \in Nat /\ file[d + 1] \in Nat
        BY <2>1, EntriesAreNumbers
      <4>2. k < d + 1 => file[k] < file[d + 1]
        BY <2>1 DEF OrderInv
      <4>3. QED
        BY <2>1, <2>2, <3>2, <4>1, <4>2
    <3>4. k - d \in 1..(Len(file) - d) /\ d + (k - d) = k
      BY <1>2, <3>3
    <3>5. v[k - d] = e /\ k - d \in DOMAIN v
      BY <1>1, <3>2, <3>4
    <3>6. QED
      BY <3>5 DEF Lines
  <2>3. ASSUME NEW i \in DOMAIN v
        PROVE  v[i] \in written /\ v[i] >= Head(v)
    <3>1. d + i \in DOMAIN file /\ v[i] = file[d + i] /\ i \in 1..(Len(file) - d)
      BY <1>1, <1>2
    <3>2. file[d + i] \in written /\ file[d + i] \in Nat /\ file[d + 1] \in Nat
      BY <2>1, <3>1, EntriesAreNumbers DEF OrderInv, Lines
    <3>3. d + 1 < d + i \/ d + 1 = d + i
      BY <3>1
    <3>4. file[d + 1] < file[d + i] \/ file[d + 1] = file[d + i]
      BY <2>1, <3>1, <3>3 DEF OrderInv
    <3>5. QED
      BY <2>1, <3>1, <3>2, <3>4
  <2>4. QED
    BY <2>2, <2>3 DEF Lines
<1>5. QED
  BY <1>3, <1>4 DEF v

\* The order of the file is enough for every view.
LEMMA OrderShows == SafeInv /\ OrderInv => TailIsNewest
<1> SUFFICES ASSUME SafeInv, OrderInv, NEW view \in Views
             PROVE  /\ \A i, j \in DOMAIN view : i < j => view[i] < view[j]
                    /\ view # <<>> => {e \in written : e >= Head(view)} = Lines(view)
  BY DEF TailIsNewest
<1>1. PICK t \in Tails : view \in {HandleAudit(t), AuditTailTool(t), AuditCmd(t)}
  BY DEF Views
<1>2. t \in Int /\ DefaultTail \in Int
  BY BoundsAssumption DEF Tails, DefaultTail
<1>3. \E n \in Int : view = Slice(file, n)
  BY <1>1, <1>2 DEF HandleAudit, AuditTailTool, AuditCmd
<1>4. file \in Seq(Entry) /\ written \subseteq Entry
  BY DEF SafeInv, TypeOK
<1>5. QED
  BY <1>3, <1>4, SuffixIsNewest

\* commands/audit.ts:13: with one writing process every reader shows the newest
\* lines, each once and in the order of the calls, whatever tail it asks for,
\* through rotations, failures and restarts.
THEOREM AuditTailIsNewest == OneWriter /\ Spec => []TailIsNewest
<1>1. OneWriter => OneWriter'
  BY DEF OneWriter
<1>2. QED
  BY SafeInit, SafeStep, OrderInit, OrderStep, OrderShows, <1>1, PTL DEF Spec

-----------------------------------------------------------------------------
(* The refinement of AppendOnlyLog.                                          *)

\* With a single writer the archives in the order of their names, and the live
\* file after them, hold the calls in the order in which they were made.
ChainInv ==
  /\ \A a, b \in archives : a.at = b.at => a = b
  /\ \A a \in archives : \A i, j \in DOMAIN a.lines : i < j => a.lines[i] < a.lines[j]
  /\ \A a, b \in archives : a.at < b.at =>
       \A e \in Lines(a.lines), f \in Lines(b.lines) : e < f
  /\ \A a \in archives : \A e \in Lines(a.lines), f \in Lines(file) : e < f
  /\ \A a \in archives : Lines(a.lines) \subseteq written

\* There are no archives at first.
LEMMA ChainInit == Init => ChainInv
BY DEF Init, ChainInv

\* The rename puts the lines of the live file after those of all archives.
LEMMA ChainRename ==
  ASSUME SafeInv, WriterInv, OrderInv, ChainInv, NEW p \in Procs, Rename(p)
  PROVE  ChainInv'
<1> DEFINE new == [at |-> stamp[p], lines |-> file]
<1>1. /\ \A a \in archives : a.at < stamp[p]
      /\ stamp[p] \in Nat /\ file \in Seq(Entry) /\ Len(file) > Limit
      /\ archives \subseteq [at : Nat, lines : Seq(Entry)]
      /\ file' = <<>> /\ written' = written
  BY DEF SafeInv, TypeOK, WriterInv, RotationInv, Rename
<1>2. file # <<>> /\ \A a \in archives : a.at # stamp[p] /\ ~(stamp[p] < a.at)
  BY <1>1, LimitAssumption
<1>3. archives' = archives \union {new} /\ new.at = stamp[p] /\ new.lines = file
  BY <1>2 DEF Rename, Renamed
<1> HIDE DEF new
<1>4. Lines(file') = {}
  BY <1>1 DEF Lines
<1>5. ~(new.at < new.at)
  BY <1>1, <1>3
<1>6. \A a, b \in archives' : a.at = b.at => a = b
  BY <1>2, <1>3 DEF ChainInv
<1>7. \A a \in archives' : \A i, j \in DOMAIN a.lines : i < j => a.lines[i] < a.lines[j]
  BY <1>3 DEF ChainInv, OrderInv
<1>8. \A a, b \in archives' : a.at < b.at =>
        \A e \in Lines(a.lines), f \in Lines(b.lines) : e < f
  BY <1>2, <1>3, <1>5 DEF ChainInv
<1>9. \A a \in archives' : Lines(a.lines) \subseteq written'
  BY <1>1, <1>3 DEF ChainInv, OrderInv
<1>10. QED
  BY <1>4, <1>6, <1>7, <1>8, <1>9 DEF ChainInv

\* A line that is added is newer than those of all archives.
LEMMA ChainAppend ==
  ASSUME SafeInv, OrderInv, ChainInv, NEW p \in Procs, AppendLine(p)
  PROVE  ChainInv'
<1> DEFINE h == Head(queue[p])
<1>1. /\ queue[p] \in Seq(Entry) /\ queue[p] # <<>> /\ file \in Seq(Entry)
      /\ file' = Append(file, h) /\ written' = written \union {h} /\ archives' = archives
  BY DEF SafeInv, QueuesInv, TypeOK, AppendLine
<1>2. h \in Entry /\ h = queue[p][1] /\ 1 \in DOMAIN queue[p]
  BY <1>1, HeadTail
<1> HIDE DEF h
<1>3. \A e \in written : e < h
  BY <1>2 DEF OrderInv
<1>4. Lines(file') = Lines(file) \union {h}
  BY <1>1, <1>2, AppendFacts DEF Lines
<1>5. \A a \in archives : \A e \in Lines(a.lines) : e < h
  BY <1>3 DEF ChainInv
<1>6. QED
  BY <1>1, <1>4, <1>5 DEF ChainInv

\* Every step of a single writer keeps the order of the files.
LEMMA ChainStep ==
  SafeInv /\ WriterInv /\ OrderInv /\ ChainInv /\ OneWriter /\ [Next]_vars => ChainInv'
<1> SUFFICES ASSUME SafeInv, WriterInv, OrderInv, ChainInv, OneWriter, [Next]_vars
             PROVE  ChainInv'
  OBVIOUS
<1>1. ASSUME UNCHANGED <<archives, file, written>>
      PROVE  ChainInv'
  BY <1>1 DEF ChainInv, Lines
<1>2. ASSUME NEW p \in Procs,
             Submit(p) \/ StartJob(p) \/ Stat(p) \/ SkipRotation(p) \/ FailJob(p) \/ Exit(p)
      PROVE  ChainInv'
  BY <1>1, <1>2 DEF Submit, StartJob, Stat, SkipRotation, FailJob, Exit
<1>3. CASE Tick \/ UNCHANGED vars
  BY <1>1, <1>3 DEF Tick, vars
<1>4. QED
  BY <1>2, <1>3, ChainRename, ChainAppend DEF Next, Job

\* What is known of the files of a single writer.
LogInv == SafeInv /\ WriterInv /\ OrderInv /\ ChainInv

\* LogInv holds at first, and every step of a single writer keeps it.
LEMMA LogIsKept ==
  /\ Init => LogInv
  /\ OneWriter /\ LogInv /\ [Next]_vars => LogInv'
<1>1. Init => LogInv
  BY SafeInit, WriterInit, OrderInit, ChainInit DEF LogInv
<1>2. OneWriter /\ LogInv /\ [Next]_vars => LogInv'
  BY SafeStep, WriterStep, OrderStep, ChainStep DEF LogInv
<1>3. QED
  BY <1>1, <1>2

\* The same of all files, the live one among them.
LEMMA FilesFacts ==
  ASSUME LogInv
  PROVE  /\ Files \subseteq [at : Nat, lines : Seq(Entry)]
         /\ \A a, b \in Files : a.at = b.at => a = b
         /\ \A a \in Files : \A i, j \in DOMAIN a.lines : i < j => a.lines[i] < a.lines[j]
         /\ \A a, b \in Files : a.at < b.at =>
              \A e \in Lines(a.lines), f \in Lines(b.lines) : e < f
<1> DEFINE live == [at |-> now + 1, lines |-> file]
<1>1. /\ archives \subseteq [at : Nat, lines : Seq(Entry)] /\ now \in Nat
      /\ file \in Seq(Entry) /\ \A a \in archives : a.at <= now
  BY DEF LogInv, SafeInv, TypeOK, WriterInv, RotationInv
<1>2. /\ live \in [at : Nat, lines : Seq(Entry)] /\ live.lines = file
      /\ ~(live.at < live.at)
      /\ \A a \in archives : a.at # live.at /\ ~(live.at < a.at)
  <2>1. live.at = now + 1 /\ live.at \in Nat
    BY <1>1
  <2>2. \A a \in archives : a.at \in Nat
    BY <1>1
  <2>3. QED
    BY <1>1, <2>1, <2>2
<1>3. Files = archives \union {live}
  BY DEF Files
<1> HIDE DEF live
<1>4. QED
  BY <1>1, <1>2, <1>3 DEF LogInv, ChainInv, OrderInv

\* Lines are met in the order in which the calls were made.
LEMMA MetIsOlder ==
  ASSUME LogInv, NEW e \in Found, NEW f \in Found
  PROVE  MetBefore(e, f) <=> e < f
<1>1. \A a \in Files : \A i \in DOMAIN a.lines :
        a.at \in Nat /\ a.lines \in Seq(Entry) /\ a.lines[i] \in Nat /\ i \in Nat
        /\ a.lines[i] \in Lines(a.lines)
  BY FilesFacts, EntriesAreNumbers DEF Lines
<1>2. ASSUME MetBefore(e, f)
      PROVE  e < f
  <2>1. PICK a \in Files, b \in Files : \E i \in DOMAIN a.lines, j \in DOMAIN b.lines :
          a.lines[i] = e /\ b.lines[j] = f /\ (a.at < b.at \/ (a = b /\ i < j))
    BY <1>2 DEF MetBefore
  <2>2. PICK i \in DOMAIN a.lines, j \in DOMAIN b.lines :
          a.lines[i] = e /\ b.lines[j] = f /\ (a.at < b.at \/ (a = b /\ i < j))
    BY <2>1
  <2>3. QED
    BY <1>1, <2>2, FilesFacts
<1>3. ASSUME e < f
      PROVE  MetBefore(e, f)
  <2>1. PICK a \in Files : \E i \in DOMAIN a.lines : a.lines[i] = e
    BY DEF Found, Lines
  <2>2. PICK b \in Files : \E j \in DOMAIN b.lines : b.lines[j] = f
    BY DEF Found, Lines
  <2>3. PICK i \in DOMAIN a.lines : a.lines[i] = e
    BY <2>1
  <2>4. PICK j \in DOMAIN b.lines : b.lines[j] = f
    BY <2>2
  <2>5. /\ e \in Nat /\ f \in Nat /\ ~(f < e) /\ e # f
        /\ a.at \in Nat /\ b.at \in Nat /\ i \in Nat /\ j \in Nat
        /\ e \in Lines(a.lines) /\ f \in Lines(b.lines)
    BY <1>1, <1>3, <2>3, <2>4
  <2>6. ~(b.at < a.at)
    BY <2>5, FilesFacts
  <2>7. a.at < b.at \/ a = b
    BY <2>5, <2>6, FilesFacts
  <2>8. a = b => i < j
    <3>1. a = b => ~(j < i)
      BY <2>3, <2>4, <2>5, FilesFacts
    <3>2. a = b => i # j
      BY <2>3, <2>4, <2>5
    <3>3. QED
      BY <2>5, <3>1, <3>2
  <2>9. QED
    BY <2>3, <2>4, <2>7, <2>8 DEF MetBefore
<1>4. QED
  BY <1>2, <1>3

\* The sequence of a set of calls, oldest first.
Place(S, n) == {e \in S : Cardinality({f \in S : f < e}) = n}
InOrder(S) == [i \in 1..Cardinality(S) |-> CHOOSE e \in Place(S, i - 1) : TRUE]

\* What a reader finds is a finite set of calls, in the order of the calls.
LEMMA RetainedInOrder ==
  ASSUME LogInv
  PROVE  /\ Found \subseteq written /\ IsFiniteSet(Found)
         /\ Retained = InOrder(Found)
<1>1. Found \subseteq written
  BY DEF Found, Files, LogInv, ChainInv, OrderInv
<1>2. IsFiniteSet(Found)
  <2>1. written \subseteq 1..MaxCalls /\ IsFiniteSet(1..MaxCalls)
    BY BoundsAssumption, FS_Interval DEF LogInv, SafeInv, TypeOK, Entry
  <2>2. QED
    BY <1>1, <2>1, FS_Subset
<1>3. \A n : After(n) = Place(Found, n)
  <2>1. \A e \in Found : {f \in Found : MetBefore(f, e)} = {f \in Found : f < e}
    BY MetIsOlder
  <2>2. QED
    BY <2>1 DEF After, Place
<1>4. Retained = InOrder(Found)
  BY <1>3 DEF Retained, InOrder
<1>5. QED
  BY <1>1, <1>2, <1>4

\* A call that is newer than all others is last in their sequence.
LEMMA InOrderAppend ==
  ASSUME NEW S \in SUBSET Nat, IsFiniteSet(S), NEW h \in Nat, \A e \in S : e < h
  PROVE  InOrder(S \union {h}) = Append(InOrder(S), h)
<1> DEFINE T == S \union {h}
           n == Cardinality(S)
<1>1. n \in Nat /\ Cardinality(T) = n + 1 /\ h \notin S
  <2>1. h \notin S
    BY DEF T
  <2>2. QED
    BY <2>1, FS_CardinalityType, FS_AddElement
<1>2. {f \in T : f < h} = S
  <2>1. ~(h < h)
    OBVIOUS
  <2>2. QED
    BY <2>1
<1>3. \A e \in S : {f \in T : f < e} = {f \in S : f < e}
  <2>1. \A e \in S : ~(h < e)
    OBVIOUS
  <2>2. QED
    BY <2>1
<1>4. \A e \in S : Cardinality({f \in S : f < e}) \in Nat /\ Cardinality({f \in S : f < e}) < n
  <2>1. ASSUME NEW e \in S
        PROVE  Cardinality({f \in S : f < e}) \in Nat /\ Cardinality({f \in S : f < e}) < n
    <3> DEFINE B == {f \in S : f < e}
    <3>1. B \subseteq S /\ e \notin B
      OBVIOUS
    <3> HIDE DEF B
    <3>2. IsFiniteSet(B) /\ Cardinality(B) <= n /\ Cardinality(B) # n
      BY <2>1, <3>1, FS_Subset
    <3>3. Cardinality(B) \in Nat
      BY <3>2, FS_CardinalityType
    <3>4. QED
      BY <1>1, <3>2, <3>3 DEF B
  <2>2. QED
    BY <2>1
<1>5. Place(T, n) = {h}
  <2>1. \A e \in S : Cardinality({f \in T : f < e}) # n
    BY <1>1, <1>3, <1>4
  <2>2. Cardinality({f \in T : f < h}) = n
    BY <1>2
  <2>3. QED
    BY <2>1, <2>2 DEF Place
<1>6. ASSUME NEW k, k # n
      PROVE  Place(T, k) = Place(S, k)
  BY <1>1, <1>2, <1>3, <1>6 DEF Place
<1> HIDE DEF n, T
<1>7. InOrder(T) = [i \in 1..n + 1 |-> IF i = n + 1 THEN h ELSE InOrder(S)[i]]
  <2>1. \A i \in 1..n + 1 : i # n + 1 => i \in 1..n /\ i - 1 # n
    BY <1>1
  <2>2. (CHOOSE e \in Place(T, n) : TRUE) = h
    BY <1>5
  <2>3. ASSUME NEW i \in 1..n + 1
        PROVE  (CHOOSE e \in Place(T, i - 1) : TRUE) = IF i = n + 1 THEN h ELSE InOrder(S)[i]
    <3>1. CASE i = n + 1
      <4>1. i - 1 = n
        BY <1>1, <3>1
      <4>2. QED
        BY <2>2, <3>1, <4>1
    <3>2. CASE i # n + 1
      <4>1. i \in 1..Cardinality(S) /\ i - 1 # n
        BY <2>1, <3>2 DEF n
      <4>2. Place(T, i - 1) = Place(S, i - 1)
        BY <1>6, <4>1
      <4>3. InOrder(S)[i] = CHOOSE e \in Place(S, i - 1) : TRUE
        BY <4>1 DEF InOrder
      <4>4. QED
        BY <3>2, <4>2, <4>3
    <3>3. QED
      BY <3>1, <3>2
  <2>4. \A i \in 1..n + 1 :
          InOrder(T)[i] = IF i = n + 1 THEN h ELSE InOrder(S)[i]
    BY <1>1, <2>3 DEF InOrder
  <2>5. InOrder(T) = [i \in 1..n + 1 |-> InOrder(T)[i]]
    BY <1>1 DEF InOrder
  <2>6. QED
    BY <2>4, <2>5
<1> DEFINE q == InOrder(S)
           R == {q[i] : i \in 1..n} \union {h}
<1>8. q = [i \in 1..n |-> q[i]]
  BY DEF InOrder, n
<1> HIDE DEF q
<1>9. q \in [1..n -> R] /\ h \in R
  BY <1>8
<1> HIDE DEF R
<1>10. q \in Seq(R) /\ Len(q) = n
  BY <1>1, <1>9
<1>11. Append(q, h) = [i \in 1..n + 1 |-> IF i = n + 1 THEN h ELSE q[i]]
  <2>1. /\ Append(q, h) \in [1..n + 1 -> R]
        /\ \A i \in 1..n : Append(q, h)[i] = q[i]
        /\ Append(q, h)[n + 1] = h
    <3> DEFINE t == Append(q, h)
    <3>1. /\ t \in Seq(R) /\ Len(t) = n + 1
          /\ \A i \in 1..n : t[i] = q[i]
          /\ t[n + 1] = h
      BY <1>9, <1>10, AppendProperties
    <3> HIDE DEF t
    <3>2. t \in [1..n + 1 -> R]
      BY <3>1, LenProperties
    <3>3. QED
      BY <3>1, <3>2 DEF t
  <2>2. \A i \in 1..n + 1 : i # n + 1 => i \in 1..n
    BY <1>1
  <2>3. QED
    BY <2>1, <2>2
<1>12. QED
  BY <1>7, <1>11 DEF T, q

\* What a reader finds, after a step.
LEMMA FoundSteps ==
  ASSUME LogInv, LogInv'
  PROVE  /\ UNCHANGED <<archives, file>> => Found' = Found
         /\ \A p \in Procs : Rename(p) => Found' = Found
         /\ \A p \in Procs : AppendLine(p) => Found' = Found \union {Head(queue[p])}
<1>1. Found = Lines(file) \union UNION {Lines(a.lines) : a \in archives}
  <2> DEFINE live == [at |-> now + 1, lines |-> file]
  <2>1. live.lines = file /\ Files = archives \union {live}
    BY DEF Files
  <2> HIDE DEF live
  <2>2. QED
    BY <2>1 DEF Found
<1>2. Found' = Lines(file') \union UNION {Lines(a.lines) : a \in archives'}
  <2> DEFINE live == [at |-> now' + 1, lines |-> file']
  <2>1. live.lines = file' /\ Files' = archives' \union {live}
    BY DEF Files
  <2> HIDE DEF live
  <2>2. QED
    BY <2>1 DEF Found, Lines
<1>3. ASSUME UNCHANGED <<archives, file>>
      PROVE  Found' = Found
  BY <1>1, <1>2, <1>3
<1>4. ASSUME NEW p \in Procs, Rename(p)
      PROVE  Found' = Found
  <2> DEFINE new == [at |-> stamp[p], lines |-> file]
  <2>1. /\ Len(file) > Limit /\ file' = <<>> /\ stamp[p] \in Nat
        /\ \A a \in archives : a.at < stamp[p]
        /\ archives \subseteq [at : Nat, lines : Seq(Entry)]
    BY <1>4 DEF LogInv, SafeInv, TypeOK, WriterInv, RotationInv, Rename
  <2>2. file # <<>> /\ \A a \in archives : a.at # stamp[p]
    BY <2>1, LimitAssumption
  <2>3. archives' = archives \union {new} /\ new.lines = file
    BY <1>4, <2>2 DEF Rename, Renamed
  <2> HIDE DEF new
  <2>4. Lines(file') = {}
    BY <2>1 DEF Lines
  <2>5. QED
    BY <1>1, <1>2, <2>3, <2>4
<1>5. ASSUME NEW p \in Procs, AppendLine(p)
      PROVE  Found' = Found \union {Head(queue[p])}
  <2> DEFINE h == Head(queue[p])
  <2>1. /\ queue[p] \in Seq(Entry) /\ queue[p] # <<>> /\ file \in Seq(Entry)
        /\ file' = Append(file, h) /\ archives' = archives
    BY <1>5 DEF LogInv, SafeInv, QueuesInv, TypeOK, AppendLine
  <2>2. h \in Entry
    BY <2>1, HeadTail
  <2> HIDE DEF h
  <2>3. Lines(file') = Lines(file) \union {h}
    BY <2>1, <2>2, AppendFacts DEF Lines
  <2>4. QED
    BY <1>1, <1>2, <2>1, <2>3 DEF h
<1>6. QED
  BY <1>3, <1>4, <1>5

\* The log that is read: a step leaves it alone, or adds the head of the queue.
LEMMA RetainedSteps ==
  ASSUME LogInv, LogInv'
  PROVE  /\ UNCHANGED <<archives, file>> => Retained' = Retained
         /\ \A p \in Procs : Rename(p) => Retained' = Retained
         /\ \A p \in Procs : AppendLine(p) => Retained' = Append(Retained, Head(queue[p]))
<1>1. /\ Found \subseteq written /\ IsFiniteSet(Found) /\ Retained = InOrder(Found)
      /\ Retained' = InOrder(Found')
  <2>1. LogInv => /\ Found \subseteq written /\ IsFiniteSet(Found)
                  /\ Retained = InOrder(Found)
    BY RetainedInOrder
  <2>2. (LogInv => Retained = InOrder(Found))'
    BY RetainedInOrder, PTL
  <2>3. QED
    BY <2>1, <2>2 DEF InOrder, Place
<1>2. ASSUME NEW p \in Procs, AppendLine(p)
      PROVE  Retained' = Append(Retained, Head(queue[p]))
  <2> DEFINE h == Head(queue[p])
  <2>1. queue[p] \in Seq(Entry) /\ queue[p] # <<>> /\ written \subseteq Entry
    BY <1>2 DEF LogInv, SafeInv, QueuesInv, TypeOK, AppendLine
  <2>2. h \in Entry /\ h = queue[p][1] /\ 1 \in DOMAIN queue[p]
    BY <2>1, HeadTail
  <2> HIDE DEF h
  <2>3. \A e \in written : e < h
    BY <2>2 DEF LogInv, OrderInv
  <2>4. Found \subseteq Nat /\ h \in Nat /\ \A e \in Found : e < h
    BY <1>1, <2>1, <2>2, <2>3, EntriesAreNumbers
  <2>5. InOrder(Found \union {h}) = Append(InOrder(Found), h)
    BY <1>1, <2>4, InOrderAppend
  <2>6. Found' = Found \union {h}
    BY <1>2, FoundSteps DEF h
  <2>7. QED
    BY <1>1, <2>5, <2>6 DEF h
<1>3. QED
  BY <1>1, <1>2, FoundSteps

\* There is a process, and only one.
SoleWriter == OneWriter /\ Procs # {}

\* A step of the writer is a step of the log that calls are appended to, or
\* leaves that log as it is: rotation, failures of it and the clock do not show.
LEMMA LogSteps ==
  ASSUME SoleWriter, LogInv, LogInv', [Next]_vars
  PROVE  [Abstract!LogNext]_(Abstract!logVars)
<1> USE DEF Abstract!logVars
<1>1. TheWriter \in Procs /\ \A p \in Procs : p = TheWriter
  BY DEF SoleWriter, OneWriter, TheWriter
<1>2. queue \in [Procs -> Seq(Entry)]
  BY DEF LogInv, SafeInv, TypeOK
<1>3. ASSUME UNCHANGED <<calls, queue>>, Retained' = Retained
      PROVE  UNCHANGED Abstract!logVars
  BY <1>3
<1>4. CASE \E p \in Procs : StartJob(p) \/ Stat(p) \/ SkipRotation(p)
  BY <1>3, <1>4, RetainedSteps DEF StartJob, Stat, SkipRotation
<1>5. CASE Tick \/ UNCHANGED vars
  BY <1>3, <1>5, RetainedSteps DEF Tick, vars
<1>6. CASE \E p \in Procs : Rename(p)
  BY <1>3, <1>6, RetainedSteps DEF Rename
<1>7. CASE \E p \in Procs : Submit(p)
  <2>1. Abstract!Call
    BY <1>1, <1>2, <1>7, RetainedSteps DEF Submit, Enqueue, Abstract!Call
  <2>2. QED
    BY <2>1 DEF Abstract!LogNext
<1>8. CASE \E p \in Procs : AppendLine(p)
  <2>1. AppendLine(TheWriter) /\ queue[TheWriter] # <<>>
    BY <1>1, <1>8 DEF LogInv, SafeInv, QueuesInv, AppendLine
  <2>2. Retained' = Append(Retained, Head(queue[TheWriter]))
    BY <1>1, <2>1, RetainedSteps
  <2>3. Abstract!Commit
    BY <1>1, <1>2, <2>1, <2>2 DEF AppendLine, Abstract!Commit
  <2>4. QED
    BY <2>3 DEF Abstract!LogNext
<1>9. CASE \E p \in Procs : FailJob(p)
  <2>1. Abstract!GiveUp
    BY <1>1, <1>2, <1>9, RetainedSteps DEF FailJob, QueueAfterFailure, Abstract!GiveUp
  <2>2. QED
    BY <2>1 DEF Abstract!LogNext
<1>10. CASE \E p \in Procs : Exit(p)
  <2>1. Abstract!Abandon
    BY <1>1, <1>2, <1>10, RetainedSteps DEF Exit, Abstract!Abandon
  <2>2. QED
    BY <2>1 DEF Abstract!LogNext
<1>11. QED
  BY <1>4, <1>5, <1>6, <1>7, <1>8, <1>9, <1>10 DEF Next, Job

\* audit.ts:1-9: one writing process's file and archives, read in the order of
\* their names, are one log that only grows, by whole lines in the order of the
\* calls; whatever is rotated, fails or is restarted, no line moves in it.
THEOREM AuditIsAppendOnly == SoleWriter /\ Spec => Abstract!LogSafety
<1>1. SoleWriter => SoleWriter' /\ OneWriter
  BY DEF SoleWriter, OneWriter
<1>2. SoleWriter /\ Init => Abstract!LogInit
  <2> SUFFICES ASSUME SoleWriter, Init
               PROVE  Abstract!LogInit
    OBVIOUS
  <2>1. TheWriter \in Procs
    BY DEF SoleWriter, TheWriter
  <2>2. calls = 0 /\ queue[TheWriter] = <<>>
    BY <2>1 DEF Init
  <2>3. Found = {}
    BY DEF Init, Found, Files, Lines
  <2>4. Cardinality(Found) = 0
    BY <2>3, FS_EmptySet
  <2>5. Retained = <<>>
    BY <2>4 DEF Retained
  <2>6. QED
    BY <2>2, <2>5 DEF Abstract!LogInit
<1>3. SoleWriter /\ LogInv /\ LogInv' /\ [Next]_vars => [Abstract!LogNext]_(Abstract!logVars)
  BY LogSteps
<1>4. QED
  BY <1>1, <1>2, <1>3, LogIsKept, PTL DEF Spec, Abstract!LogSafety
=============================================================================
