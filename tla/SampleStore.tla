----------------------------- MODULE SampleStore -----------------------------
(* The samples table of src/src/timeseries/store.ts as the diff pollers of    *)
(* one or more daemons fill it and prune it, and the figures /metrics derives *)
(* from it (src/src/timeseries/prometheus.ts).  SQLite runs one statement or  *)
(* transaction at a time; between two statements another process may write.   *)
EXTENDS Naturals, Sequences, FiniteSets, Functions

CONSTANTS Daemons,      \* processes that have the database open
          Pids,         \* sessions
          Statuses,     \* the refined statuses a session can have
          MaxRows,      \* TimeseriesStoreOptions.maxRows
          PruneBatch,   \* PRUNE_BATCH
          MaxTime,      \* bound: milliseconds
          MaxIds,       \* bound: rows ever written
          MaxFailures   \* bound: statements that throw, and killed processes

ASSUME SizeAssumption == MaxRows \in Nat /\ PruneBatch \in Nat \ {0}
ASSUME SessionsAssumption == IsFiniteSet(Pids)
ASSUME BoundAssumption == MaxTime \in Nat /\ MaxIds \in Nat /\ MaxFailures \in Nat

VARIABLES rows,     \* the table in order of id
          nextId,   \* AUTOINCREMENT: larger than any id ever given
          now,      \* Date.now()
          step,     \* where each daemon is in a tick's writeMany and prune
          batch,    \* how many rows its next DELETE takes
          counter,  \* samplesWritten of each daemon, 0 at boot
          boot,     \* history: nextId when the daemon was started
          capped,   \* history: its last prune returned
          seen,     \* history: the status map of each daemon's last batch
          failures  \* counter for the bound

vars == <<rows, nextId, now, step, batch, counter, boot, capped, seen, failures>>

Row == [id : 1..MaxIds, ts : 0..MaxTime, pid : Pids, status : Statuses]

\* The map of refinedStatusFor: sessions that are not running are not in it.
StatusMap == UNION {[live -> Statuses] : live \in SUBSET Pids}

\* Shapes; a daemon that is about to delete has something to delete.
TypeOK ==
  /\ rows \in Seq(Row)
  /\ nextId \in 1..(MaxIds + 1)
  /\ now \in 0..MaxTime
  /\ step \in [Daemons -> {"idle", "count", "delete"}]
  /\ batch \in [Daemons -> 0..PruneBatch]
  /\ counter \in [Daemons -> 0..MaxIds]
  /\ boot \in [Daemons -> 1..(MaxIds + 1)]
  /\ capped \in [Daemons -> BOOLEAN]
  /\ seen \in [Daemons -> StatusMap]
  /\ failures \in Nat
  /\ \A d \in Daemons : step[d] = "delete" => batch[d] > 0

Init ==
  /\ rows = <<>>
  /\ nextId = 1
  /\ now = 0
  /\ step = [d \in Daemons |-> "idle"]
  /\ batch = [d \in Daemons |-> 0]
  /\ counter = [d \in Daemons |-> 0]
  /\ boot = [d \in Daemons |-> 1]
  /\ capped = [d \in Daemons |-> FALSE]
  /\ seen = [d \in Daemons |-> <<>>]
  /\ failures = 0

-----------------------------------------------------------------------------
Clock ==
  /\ now < MaxTime
  /\ now' = now + 1
  /\ UNCHANGED <<rows, nextId, step, batch, counter, boot, capped, seen, failures>>

\* One row for every session of the status map, all with the same Date.now(),
\* inserted in some order.
Samples(map) ==
  LET Orders == {o \in [1..Cardinality(DOMAIN map) -> DOMAIN map] : IsInjective(o)}
  IN  {[i \in DOMAIN o |-> [id |-> nextId + i - 1, ts |-> now,
                            pid |-> o[i], status |-> map[o[i]]]] : o \in Orders}

\* Mutant: the counter goes up once for each batch.
CountedOnce(d, n) == counter[d] + 1
\* onSampleWritten, once for each row written.
Counted(d, n) == counter[d] + n

\* The tick of d writes its batch: writeMany in one transaction (when it throws
\* nothing has changed), then the counter, then prune() begins.  An empty map
\* writes nothing and prunes nothing.
WriteMany(d) ==
  /\ step[d] = "idle"
  /\ \E map \in StatusMap :
       LET n == Cardinality(DOMAIN map) IN
       /\ n > 0
       /\ nextId + n <= MaxIds + 1
       /\ \E s \in Samples(map) : rows' = rows \o s
       /\ nextId' = nextId + n
       /\ counter' = [counter EXCEPT ![d] = Counted(d, n)]
       /\ seen' = [seen EXCEPT ![d] = map]
  /\ step' = [step EXCEPT ![d] = "count"]
  /\ capped' = [capped EXCEPT ![d] = FALSE]
  /\ UNCHANGED <<now, batch, boot, failures>>

\* count <= this.maxRows ends the loop.
Over(n) == n > MaxRows

\* Mutant: a whole batch is deleted, however few rows are over the cap.
WholeBatch(over) == PruneBatch
\* Mutant: only full batches are deleted; what is left over is never.
FullBatches(over) == IF over < PruneBatch THEN 0 ELSE PruneBatch
\* Math.min(PRUNE_BATCH, over)
BatchFor(over) == IF over < PruneBatch THEN over ELSE PruneBatch

\* SELECT COUNT(*), then either the loop ends or the batch is settled.
CountRows(d) ==
  /\ step[d] = "count"
  /\ \/ /\ Over(Len(rows))
        /\ step' = [step EXCEPT ![d] = "delete"]
        /\ batch' = [batch EXCEPT ![d] = BatchFor(Len(rows) - MaxRows)]
        /\ UNCHANGED capped
     \/ /\ ~Over(Len(rows))
        /\ step' = [step EXCEPT ![d] = "idle"]
        /\ capped' = [capped EXCEPT ![d] = TRUE]
        /\ UNCHANGED batch
  /\ UNCHANGED <<rows, nextId, now, counter, boot, seen, failures>>

\* Mutant: the newest rows go.
WithoutNewest(n) == SubSeq(rows, 1, Len(rows) - n)
\* ORDER BY id ASC LIMIT @batch; LIMIT may exceed what is there.
WithoutOldest(n) == SubSeq(rows, n + 1, Len(rows))

\* DELETE.  The loop ends if it changed nothing: a batch of zero, or another
\* process has emptied the table.
DeleteBatch(d) ==
  /\ step[d] = "delete"
  /\ rows' = WithoutOldest(batch[d])
  /\ step' = [step EXCEPT ![d] = IF rows' = rows THEN "idle" ELSE "count"]
  /\ capped' = [capped EXCEPT ![d] = (rows' = rows)]
  /\ UNCHANGED <<nextId, now, batch, counter, boot, seen, failures>>

\* A statement of prune() throws (locked, disk full): the tick's catch drops it.
PruneFails(d) ==
  /\ step[d] # "idle"
  /\ failures < MaxFailures
  /\ failures' = failures + 1
  /\ step' = [step EXCEPT ![d] = "idle"]
  /\ UNCHANGED <<rows, nextId, now, batch, counter, boot, capped, seen>>

\* The daemon is killed at any point and started again on the same file.
Restart(d) ==
  /\ failures < MaxFailures
  /\ failures' = failures + 1
  /\ step' = [step EXCEPT ![d] = "idle"]
  /\ counter' = [counter EXCEPT ![d] = 0]
  /\ boot' = [boot EXCEPT ![d] = nextId]
  /\ capped' = [capped EXCEPT ![d] = FALSE]
  /\ UNCHANGED <<rows, nextId, now, batch, seen>>

Next ==
  \/ Clock
  \/ \E d \in Daemons :
       WriteMany(d) \/ CountRows(d) \/ DeleteBatch(d) \/ PruneFails(d) \/ Restart(d)

Spec == Init /\ [][Next]_vars

-----------------------------------------------------------------------------
\* latestPerPid: the join keeps every row that has its pid's largest ts.
Of(p) == {i \in DOMAIN rows : rows[i].pid = p}
\* Mutant: the join is on the pid alone.
LatestOnPid(p) == Of(p)
Latest(p) == {i \in Of(p) : \A j \in Of(p) : rows[j].ts <= rows[i].ts}

\* aggregateSessions, for one provider: rows of latestPerPid in each status.
Gauge(status) ==
  Cardinality({i \in DOMAIN rows : i \in Latest(rows[i].pid) /\ rows[i].status = status})
-----------------------------------------------------------------------------
\* The table is always the most recent part of everything ever written: a
\* prune, however it was interrupted, never drops a row and keeps an older one;
\* and one that returned, by either way out of its loop, has left no more rows
\* than the cap.
NewestKept ==
  /\ \A i \in DOMAIN rows : rows[i].id = nextId - Len(rows) + i - 1
  /\ \A d \in Daemons : capped[d] => Len(rows) <= MaxRows

\* store.ts:172-175: a prune ends at the cap and not below it.  With all the
\* failures and restarts in between, a table that reached the cap stays there.
StaysAtCap == [][Len(rows) >= MaxRows => Len(rows') >= MaxRows]_vars

\* prometheus.ts:12-13: samples_total counts the rows added since boot, pruned
\* or not, for the only daemon there is.
CounterIsExact == \A d \in Daemons : counter[d] = nextId - boot[d]

\* prometheus.ts:9-11: the gauge counts every session of the last batch in its
\* status, however much the prune has taken away, if the cap leaves room for
\* one row each; and it counts nothing twice but rows of one millisecond, which
\* tie.  (A session that ended is counted until its rows are pruned.)
GaugeIsCurrent ==
  LET newest(status) ==
        {i \in DOMAIN rows : /\ \A j \in Of(rows[i].pid) : j <= i
                             /\ rows[i].status = status}
      tie == \E i, j \in DOMAIN rows :
               i # j /\ rows[i].pid = rows[j].pid /\ rows[i].ts = rows[j].ts
  IN \A st \in Statuses :
       /\ ~tie => Gauge(st) = Cardinality(newest(st))
       /\ Cardinality(Pids) <= MaxRows =>
            \A d \in Daemons :
              Gauge(st) >= Cardinality({p \in DOMAIN seen[d] : seen[d][p] = st})
=============================================================================
