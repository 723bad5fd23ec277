-------------------------- MODULE SampleStoreProofs --------------------------
(* Theorems about SampleStore, for any cap, batch size, number of sessions   *)
(* and statuses; some for any number of daemons, some for the only one.      *)
EXTENDS SampleStore, FiniteSetTheorems, TLAPS

\* What holds with any number of daemons: the table is in order of id and of
\* time and ends with the row written last; no daemon has counted more rows
\* than were written since it was started.
TableInv ==
  /\ TypeOK
  /\ \A i \in 1..Len(rows) : rows[i].id = nextId - Len(rows) + i - 1
  /\ \A i, j \in 1..Len(rows) : i <= j => rows[i].ts <= rows[j].ts
  /\ \A i \in 1..Len(rows) : rows[i].ts <= now
  /\ \A d \in Daemons : counter[d] + boot[d] <= nextId

\* One daemon has the database open.
OneDaemon == \A d, e \in Daemons : d = e

\* The rows of the last batch are among the newest MaxRows.
LastBatchKept(d) ==
  \A p \in DOMAIN seen[d] : \E i \in 1..Len(rows) :
    /\ i > Len(rows) - MaxRows
    /\ rows[i].pid = p /\ rows[i].status = seen[d][p]
    /\ \A j \in 1..Len(rows) : rows[j].ts <= rows[i].ts

\* What the only daemon knows of the table between its statements.
OnlyInv ==
  \A d \in Daemons :
    /\ capped[d] => Len(rows) <= MaxRows
    /\ counter[d] = nextId - boot[d]
    /\ step[d] = "delete" => Len(rows) - batch[d] >= MaxRows
    /\ Cardinality(Pids) <= MaxRows => LastBatchKept(d)

-----------------------------------------------------------------------------
\* The sessions of a status map are finitely many, and no more than there are.
LEMMA MapIsFinite ==
  ASSUME NEW map \in StatusMap
  PROVE  /\ DOMAIN map \subseteq Pids /\ IsFiniteSet(DOMAIN map)
         /\ \A p \in DOMAIN map : map[p] \in Statuses
         /\ Cardinality(DOMAIN map) \in Nat
         /\ Cardinality(Pids) \in Nat
         /\ Cardinality(DOMAIN map) <= Cardinality(Pids)
<1>1. PICK live \in SUBSET Pids : map \in [live -> Statuses]
  BY DEF StatusMap
<1>2. DOMAIN map = live /\ \A p \in DOMAIN map : map[p] \in Statuses
  BY <1>1
<1>3. QED
  BY <1>1, <1>2, SessionsAssumption, FS_Subset, FS_CardinalityType

\* An injection of as many indices as there are sessions reaches all of them.
LEMMA OrderIsOnto ==
  ASSUME NEW S, IsFiniteSet(S), NEW o \in [1..Cardinality(S) -> S], IsInjective(o)
  PROVE  \A p \in S : \E i \in 1..Cardinality(S) : o[i] = p
<1>1. Cardinality(S) \in Nat
  BY FS_CardinalityType
<1>2. Cardinality(1..Cardinality(S)) = Cardinality(S)
  BY <1>1, FS_Interval
<1>3. o \in Injection(1..Cardinality(S), S)
  BY DEF Injection
<1>4. o \in Surjection(1..Cardinality(S), S)
  BY <1>2, <1>3, FS_Injection
<1>5. QED
  BY <1>4 DEF Surjection

\* A batch has one row for each session, numbered on from the last row.
LEMMA SamplesFacts ==
  ASSUME TypeOK, NEW map \in StatusMap, NEW s \in Samples(map),
         nextId + Cardinality(DOMAIN map) <= MaxIds + 1
  PROVE  /\ s \in Seq(Row) /\ Len(s) = Cardinality(DOMAIN map)
         /\ \A i \in 1..Len(s) : s[i].id = nextId + i - 1 /\ s[i].ts = now
         /\ \A p \in DOMAIN map : \E i \in 1..Len(s) :
              s[i].pid = p /\ s[i].status = map[p]
<1> DEFINE n == Cardinality(DOMAIN map)
<1>1. PICK o \in [1..n -> DOMAIN map] :
        /\ IsInjective(o)
        /\ s = [i \in DOMAIN o |-> [id |-> nextId + i - 1, ts |-> now,
                                    pid |-> o[i], status |-> map[o[i]]]]
  BY DEF Samples
<1>2. n \in Nat /\ nextId \in Nat /\ nextId >= 1 /\ MaxIds \in Nat
  BY MapIsFinite, BoundAssumption DEF TypeOK
<1>3. s = [i \in 1..n |-> [id |-> nextId + i - 1, ts |-> now,
                           pid |-> o[i], status |-> map[o[i]]]]
  BY <1>1
<1>4. ASSUME NEW i \in 1..n
      PROVE  [id |-> nextId + i - 1, ts |-> now,
              pid |-> o[i], status |-> map[o[i]]] \in Row
  <2>1. nextId + i - 1 \in 1..MaxIds
    BY <1>2, <1>4
  <2>2. o[i] \in Pids /\ map[o[i]] \in Statuses
    BY <1>1, <1>4, MapIsFinite
  <2>3. QED
    BY <2>1, <2>2 DEF Row, TypeOK
<1>5. s \in Seq(Row) /\ Len(s) = n
  BY <1>2, <1>3, <1>4
<1>6. \A i \in 1..n : /\ s[i].id = nextId + i - 1 /\ s[i].ts = now
                      /\ s[i].pid = o[i] /\ s[i].status = map[o[i]]
  BY <1>3
<1>7. \A p \in DOMAIN map : \E i \in 1..n : o[i] = p
  BY <1>1, MapIsFinite, OrderIsOnto
<1>8. QED
  BY <1>5, <1>6, <1>7

\* What a batch at the end of the table leaves of it.
LEMMA ConcatFacts ==
  ASSUME NEW t \in Seq(Row), NEW s \in Seq(Row)
  PROVE  /\ t \o s \in Seq(Row) /\ Len(t \o s) = Len(t) + Len(s)
         /\ Len(t) \in Nat /\ Len(s) \in Nat
         /\ \A i \in 1..Len(t) : (t \o s)[i] = t[i]
         /\ \A i \in 1..Len(s) : (t \o s)[Len(t) + i] = s[i]
         /\ \A i \in 1..Len(t \o s) :
              \/ i \in 1..Len(t) /\ (t \o s)[i] = t[i]
              \/ i - Len(t) \in 1..Len(s) /\ (t \o s)[i] = s[i - Len(t)]
OBVIOUS

\* What a DELETE of the n oldest rows leaves: the others, n places earlier.
LEMMA DeleteFacts ==
  ASSUME NEW t \in Seq(Row), NEW n \in Nat
  PROVE  /\ SubSeq(t, n + 1, Len(t)) \in Seq(Row)
         /\ Len(t) \in Nat
         /\ Len(SubSeq(t, n + 1, Len(t))) = IF n <= Len(t) THEN Len(t) - n ELSE 0
         /\ \A i \in 1..Len(SubSeq(t, n + 1, Len(t))) :
              i + n \in 1..Len(t) /\ SubSeq(t, n + 1, Len(t))[i] = t[i + n]
OBVIOUS

\* The table is empty at first and every map is.
LEMMA TableInit == Init => TableInv
<1> SUFFICES ASSUME Init
             PROVE  TableInv
  OBVIOUS
<1>1. rows = <<>> /\ rows \in Seq(Row) /\ Len(rows) = 0
  BY DEF Init
<1>2. <<>> \in StatusMap
  <2>1. <<>> \in [{} -> Statuses]
    OBVIOUS
  <2>2. QED
    BY <2>1 DEF StatusMap
<1>3. /\ 1 \in 1..(MaxIds + 1) /\ 0 \in 0..MaxTime /\ 0 \in 0..PruneBatch
      /\ 0 \in 0..MaxIds
  BY SizeAssumption, BoundAssumption
<1>4. TypeOK
  BY <1>1, <1>2, <1>3 DEF Init, TypeOK
<1>5. QED
  BY <1>1, <1>4 DEF Init, TableInv

\* A batch is written at the end, later than every row that is there.
LEMMA TableWrite ==
  ASSUME TableInv, NEW d \in Daemons, WriteMany(d)
  PROVE  TableInv'
<1>1. PICK map \in StatusMap :
        LET n == Cardinality(DOMAIN map) IN
        /\ n > 0
        /\ nextId + n <= MaxIds + 1
        /\ \E s \in Samples(map) : rows' = rows \o s
        /\ nextId' = nextId + n
        /\ counter' = [counter EXCEPT ![d] = Counted(d, n)]
        /\ seen' = [seen EXCEPT ![d] = map]
  BY DEF WriteMany
<1> DEFINE n == Cardinality(DOMAIN map)
<1>2. PICK s \in Samples(map) : rows' = rows \o s
  BY <1>1
<1>3. /\ s \in Seq(Row) /\ Len(s) = n
      /\ \A i \in 1..Len(s) : s[i].id = nextId + i - 1 /\ s[i].ts = now
  BY <1>1, SamplesFacts DEF TableInv
<1>4. /\ n \in Nat /\ nextId \in 1..(MaxIds + 1) /\ MaxIds \in Nat /\ now \in Nat
      /\ rows \in Seq(Row) /\ Len(rows) \in Nat
      /\ nextId' = nextId + n /\ n > 0 /\ nextId + n <= MaxIds + 1
      /\ now' = now /\ boot' = boot
      /\ counter' = [counter EXCEPT ![d] = counter[d] + n]
  BY <1>1, MapIsFinite, BoundAssumption DEF TableInv, TypeOK, Counted, WriteMany
<1>5. /\ rows' \in Seq(Row) /\ Len(rows') = Len(rows) + n
      /\ \A i \in 1..Len(rows') :
           \/ i \in 1..Len(rows) /\ rows'[i] = rows[i]
           \/ i - Len(rows) \in 1..n /\ rows'[i] = s[i - Len(rows)]
  <2>1. /\ rows \o s \in Seq(Row) /\ Len(rows \o s) = Len(rows) + Len(s)
        /\ \A i \in 1..Len(rows \o s) :
             \/ i \in 1..Len(rows) /\ (rows \o s)[i] = rows[i]
             \/ i - Len(rows) \in 1..Len(s) /\ (rows \o s)[i] = s[i - Len(rows)]
    BY <1>3, <1>4, ConcatFacts
  <2>2. QED
    BY <1>2, <1>3, <2>1
<1>6. \A e \in Daemons :
        /\ counter[e] \in Nat /\ boot[e] \in Nat /\ boot[e] >= 1
        /\ counter[e] + boot[e] <= nextId
        /\ counter'[e] = IF e = d THEN counter[e] + n ELSE counter[e]
  BY <1>4 DEF TableInv, TypeOK
<1>7. \A e \in Daemons : counter'[e] + boot'[e] <= nextId' /\ counter'[e] \in 0..MaxIds
  BY <1>4, <1>6
<1>8. TypeOK'
  <2>1. counter' \in [Daemons -> 0..MaxIds]
    BY <1>4, <1>7 DEF TableInv, TypeOK
  <2>2. seen' \in [Daemons -> StatusMap]
    BY <1>1 DEF TableInv, TypeOK
  <2>3. nextId' \in 1..(MaxIds + 1)
    BY <1>4
  <2>4. QED
    BY <1>5, <2>1, <2>2, <2>3 DEF TableInv, TypeOK, WriteMany
<1>9. \A i \in 1..Len(rows') :
        /\ rows'[i].id = nextId' - Len(rows') + i - 1
        /\ rows'[i].ts <= now'
        /\ i \notin 1..Len(rows) => rows'[i].ts = now
  <2> SUFFICES ASSUME NEW i \in 1..Len(rows')
               PROVE  /\ rows'[i].id = nextId' - Len(rows') + i - 1
                      /\ rows'[i].ts <= now'
                      /\ i \notin 1..Len(rows) => rows'[i].ts = now
    OBVIOUS
  <2>1. CASE i \in 1..Len(rows) /\ rows'[i] = rows[i]
    <3>1. rows[i].id = nextId - Len(rows) + i - 1 /\ rows[i].ts <= now
      BY <2>1 DEF TableInv
    <3>2. nextId' - Len(rows') = nextId - Len(rows)
      BY <1>4, <1>5
    <3>3. QED
      BY <1>4, <2>1, <3>1, <3>2
  <2>2. CASE i - Len(rows) \in 1..n /\ rows'[i] = s[i - Len(rows)]
    <3>1. /\ rows'[i].id = nextId + (i - Len(rows)) - 1
          /\ rows'[i].ts = now
      BY <1>3, <2>2
    <3>2. QED
      BY <1>4, <1>5, <3>1
  <2>3. QED
    BY <1>5, <2>1, <2>2
<1>10. \A i, j \in 1..Len(rows') : i <= j => rows'[i].ts <= rows'[j].ts
  <2> SUFFICES ASSUME NEW i \in 1..Len(rows'), NEW j \in 1..Len(rows'), i <= j
               PROVE  rows'[i].ts <= rows'[j].ts
    OBVIOUS
  <2>1. CASE j \in 1..Len(rows)
    <3>1. i \in 1..Len(rows) /\ rows'[i] = rows[i] /\ rows'[j] = rows[j]
      BY <1>4, <1>5, <2>1
    <3>2. QED
      BY <2>1, <3>1 DEF TableInv
  <2>2. CASE j \notin 1..Len(rows)
    BY <1>4, <1>9, <2>2
  <2>3. QED
    BY <2>1, <2>2
<1>11. QED
  BY <1>7, <1>8, <1>9, <1>10 DEF TableInv

\* A DELETE takes rows from the front: the rest keep ids and order.
LEMMA TableDelete ==
  ASSUME TableInv, NEW d \in Daemons, DeleteBatch(d)
  PROVE  TableInv'
<1> DEFINE n == batch[d]
<1>1. /\ n \in Nat /\ rows \in Seq(Row) /\ Len(rows) \in Nat /\ nextId \in Nat
      /\ rows' = SubSeq(rows, n + 1, Len(rows))
      /\ UNCHANGED <<nextId, now, batch, counter, boot, seen, failures>>
  BY SizeAssumption DEF TableInv, TypeOK, DeleteBatch, WithoutOldest
<1>2. /\ rows' \in Seq(Row)
      /\ Len(rows') = IF n <= Len(rows) THEN Len(rows) - n ELSE 0
      /\ \A i \in 1..Len(rows') : i + n \in 1..Len(rows) /\ rows'[i] = rows[i + n]
  BY <1>1, DeleteFacts
<1>3. TypeOK'
  <2>1. (rows' = rows) \in BOOLEAN
    OBVIOUS
  <2>2. capped' \in [Daemons -> BOOLEAN]
    BY <2>1 DEF TableInv, TypeOK, DeleteBatch
  <2>3. step' \in [Daemons -> {"idle", "count", "delete"}] /\ step'[d] # "delete"
    BY DEF TableInv, TypeOK, DeleteBatch
  <2>4. \A e \in Daemons : step'[e] = "delete" => batch[e] > 0
    BY <2>3 DEF TableInv, TypeOK, DeleteBatch
  <2>5. QED
    BY <1>1, <1>2, <2>2, <2>3, <2>4 DEF TableInv, TypeOK
<1>4. \A i \in 1..Len(rows') :
        rows'[i].id = nextId' - Len(rows') + i - 1 /\ rows'[i].ts <= now'
  <2> SUFFICES ASSUME NEW i \in 1..Len(rows')
               PROVE  /\ rows'[i].id = nextId' - Len(rows') + i - 1
                      /\ rows'[i].ts <= now'
    OBVIOUS
  <2>1. n <= Len(rows) /\ Len(rows') = Len(rows) - n
    <3>1. i + n \in 1..Len(rows) /\ i \in 1..Len(rows') /\ n \in Nat /\ Len(rows) \in Nat
      BY <1>1, <1>2
    <3>2. Len(rows') = IF n <= Len(rows) THEN Len(rows) - n ELSE 0
      BY <1>2
    <3>3. n <= Len(rows)
      <4> HIDE DEF n
      <4>1. QED
        BY <3>1
    <3>4. QED
      BY <3>2, <3>3
  <2>2. /\ rows[i + n].id = nextId - Len(rows) + (i + n) - 1
        /\ rows[i + n].ts <= now
    BY <1>2 DEF TableInv
  <2>3. rows'[i] = rows[i + n] /\ nextId' = nextId /\ now' = now /\ i \in Nat
    <3>1. rows'[i] = rows[i + n] /\ Len(rows') \in Nat
      BY <1>2
    <3>2. nextId' = nextId /\ now' = now
      BY <1>1
    <3>3. QED
      BY <3>1, <3>2
  <2>4. nextId - Len(rows) + (i + n) - 1 = nextId - Len(rows') + i - 1
    <3>1. Len(rows) = Len(rows') + n /\ Len(rows') \in Nat
      BY <1>1, <2>1
    <3>2. nextId \in Nat /\ n \in Nat
      BY <1>1
    <3>3. QED
      BY <2>3, <3>1, <3>2
  <2>5. QED
    BY <2>2, <2>3, <2>4
<1>5. \A i, j \in 1..Len(rows') : i <= j => rows'[i].ts <= rows'[j].ts
  <2> SUFFICES ASSUME NEW i \in 1..Len(rows'), NEW j \in 1..Len(rows'), i <= j
               PROVE  rows'[i].ts <= rows'[j].ts
    OBVIOUS
  <2>1. i + n <= j + n /\ i + n \in 1..Len(rows) /\ j + n \in 1..Len(rows)
    BY <1>1, <1>2
  <2>2. QED
    BY <1>2, <2>1 DEF TableInv
<1>6. QED
  BY <1>1, <1>3, <1>4, <1>5 DEF TableInv

\* The other steps leave the table alone.
LEMMA TableKept ==
  ASSUME TableInv, NEW d \in Daemons, CountRows(d) \/ PruneFails(d) \/ Restart(d)
  PROVE  TableInv'
<1>1. UNCHANGED <<rows, nextId, now, seen>>
  BY DEF CountRows, PruneFails, Restart
<1>2. /\ step' \in [Daemons -> {"idle", "count", "delete"}]
      /\ capped' \in [Daemons -> BOOLEAN] /\ failures' \in Nat
  <2>1. CASE CountRows(d)
    BY <2>1 DEF TableInv, TypeOK, CountRows
  <2>2. CASE PruneFails(d)
    BY <2>2 DEF TableInv, TypeOK, PruneFails
  <2>3. CASE Restart(d)
    BY <2>3 DEF TableInv, TypeOK, Restart
  <2>4. QED
    BY <2>1, <2>2, <2>3
<1>3. /\ batch' \in [Daemons -> 0..PruneBatch]
      /\ \A e \in Daemons : step'[e] = "delete" => batch'[e] > 0
  <2>1. CASE CountRows(d) /\ Over(Len(rows))
    <3>1. Len(rows) \in Nat /\ Len(rows) > MaxRows
      BY <2>1 DEF TableInv, TypeOK, Over
    <3>2. /\ BatchFor(Len(rows) - MaxRows) \in 0..PruneBatch
          /\ BatchFor(Len(rows) - MaxRows) > 0
      BY <3>1, SizeAssumption DEF BatchFor
    <3>3. /\ batch' = [batch EXCEPT ![d] = BatchFor(Len(rows) - MaxRows)]
          /\ step' = [step EXCEPT ![d] = "delete"]
      BY <2>1 DEF CountRows
    <3>4. QED
      BY <3>2, <3>3 DEF TableInv, TypeOK
  <2>2. CASE ~(CountRows(d) /\ Over(Len(rows)))
    BY <2>2 DEF TableInv, TypeOK, CountRows, PruneFails, Restart
  <2>3. QED
    BY <2>1, <2>2
<1>4. /\ counter' \in [Daemons -> 0..MaxIds] /\ boot' \in [Daemons -> 1..(MaxIds + 1)]
      /\ \A e \in Daemons : counter'[e] + boot'[e] <= nextId'
  <2>1. CASE Restart(d)
    <3>1. /\ nextId \in 1..(MaxIds + 1) /\ 0 \in 0..MaxIds
          /\ counter' = [counter EXCEPT ![d] = 0]
          /\ boot' = [boot EXCEPT ![d] = nextId]
      BY <2>1, BoundAssumption DEF TableInv, TypeOK, Restart
    <3>2. QED
      BY <1>1, <3>1 DEF TableInv, TypeOK
  <2>2. CASE CountRows(d) \/ PruneFails(d)
    BY <1>1, <2>2 DEF TableInv, TypeOK, CountRows, PruneFails
  <2>3. QED
    BY <2>1, <2>2
<1>5. TypeOK'
  BY <1>1, <1>2, <1>3, <1>4 DEF TableInv, TypeOK
<1>6. QED
  BY <1>1, <1>4, <1>5 DEF TableInv

\* Time goes on, or nothing happens.
LEMMA TableClock ==
  ASSUME TableInv, Clock \/ UNCHANGED vars
  PROVE  TableInv'
<1>1. UNCHANGED <<rows, nextId, step, batch, counter, boot, capped, seen, failures>>
  BY DEF Clock, vars
<1>2. now' \in 0..MaxTime /\ now \in Nat /\ now' >= now
  BY BoundAssumption DEF Clock, vars, TableInv, TypeOK
<1>3. TypeOK'
  BY <1>1, <1>2 DEF TableInv, TypeOK
<1>4. \A i \in 1..Len(rows) : rows[i] \in Row
  BY DEF TableInv, TypeOK
<1>5. \A i \in 1..Len(rows) : rows[i].ts \in Nat
  BY <1>4, BoundAssumption DEF Row
<1>6. QED
  BY <1>1, <1>2, <1>3, <1>5 DEF TableInv

\* Every step keeps what holds with any number of daemons.
LEMMA TableStep == TableInv /\ [Next]_vars => TableInv'
BY TableWrite, TableDelete, TableKept, TableClock DEF Next

\* The table of any number of daemons.
THEOREM TableInvariant == Spec => []TableInv
BY TableInit, TableStep, PTL DEF Spec

\* The shapes, and that a DELETE always has something to take.
THEOREM StoreTypeCorrect == Spec => []TypeOK
<1>1. TableInv => TypeOK
  BY DEF TableInv
<1>2. QED
  BY <1>1, TableInvariant, PTL

-----------------------------------------------------------------------------
(* The only daemon.                                                          *)

\* No batch has been written yet.
LEMMA OnlyInit == Init => OnlyInv
<1> SUFFICES ASSUME Init, NEW d \in Daemons
             PROVE  /\ capped[d] => Len(rows) <= MaxRows
                    /\ counter[d] = nextId - boot[d]
                    /\ step[d] = "delete" => Len(rows) - batch[d] >= MaxRows
                    /\ LastBatchKept(d)
  BY DEF OnlyInv
<1>1. DOMAIN seen[d] = {}
  BY DEF Init
<1>2. QED
  BY <1>1 DEF Init, LastBatchKept

\* The batch just written is at the end and no row is later.
LEMMA OnlyWrite ==
  ASSUME TableInv, OneDaemon, OnlyInv, NEW d \in Daemons, WriteMany(d)
  PROVE  OnlyInv' /\ Len(rows') >= Len(rows)
<1>1. PICK map \in StatusMap :
        LET n == Cardinality(DOMAIN map) IN
        /\ n > 0
        /\ nextId + n <= MaxIds + 1
        /\ \E s \in Samples(map) : rows' = rows \o s
        /\ nextId' = nextId + n
        /\ counter' = [counter EXCEPT ![d] = Counted(d, n)]
        /\ seen' = [seen EXCEPT ![d] = map]
  BY DEF WriteMany
<1> DEFINE n == Cardinality(DOMAIN map)
<1>2. PICK s \in Samples(map) : rows' = rows \o s
  BY <1>1
<1>3. /\ s \in Seq(Row) /\ Len(s) = n
      /\ \A i \in 1..Len(s) : s[i].id = nextId + i - 1 /\ s[i].ts = now
      /\ \A p \in DOMAIN map : \E i \in 1..Len(s) :
           s[i].pid = p /\ s[i].status = map[p]
  BY <1>1, SamplesFacts DEF TableInv
<1>4. /\ n \in Nat /\ Cardinality(Pids) \in Nat /\ n <= Cardinality(Pids)
      /\ nextId \in Nat /\ now \in Nat /\ MaxRows \in Nat /\ boot[d] \in Nat
      /\ rows \in Seq(Row) /\ Len(rows) \in Nat
  BY MapIsFinite, SizeAssumption, BoundAssumption DEF TableInv, TypeOK
<1>5. Len(rows') = Len(rows) + n
  <2>1. Len(rows \o s) = Len(rows) + Len(s)
    BY <1>3, <1>4, ConcatFacts
  <2>2. QED
    BY <1>2, <1>3, <2>1
<1>6. /\ counter'[d] = counter[d] + n /\ boot'[d] = boot[d] /\ nextId' = nextId + n
      /\ step'[d] = "count" /\ capped'[d] = FALSE /\ seen'[d] = map
  BY <1>1 DEF TableInv, TypeOK, WriteMany, Counted
<1>7. counter'[d] = nextId' - boot'[d]
  BY <1>4, <1>6 DEF OnlyInv
<1>8. \A j \in 1..Len(rows') : rows'[j].ts <= now
  <2> SUFFICES ASSUME NEW j \in 1..Len(rows')
               PROVE  rows'[j].ts <= now
    OBVIOUS
  <2>1. \/ j \in 1..Len(rows) /\ rows'[j] = rows[j]
        \/ j - Len(rows) \in 1..Len(s) /\ rows'[j] = s[j - Len(rows)]
    BY <1>2, <1>3, <1>4, ConcatFacts
  <2>2. QED
    BY <1>3, <1>4, <2>1 DEF TableInv
<1>9. ASSUME Cardinality(Pids) <= MaxRows
      PROVE  LastBatchKept(d)'
  <2> SUFFICES ASSUME NEW p \in DOMAIN map
               PROVE  \E i \in 1..Len(rows') :
                        /\ i > Len(rows') - MaxRows
                        /\ rows'[i].pid = p /\ rows'[i].status = map[p]
                        /\ \A j \in 1..Len(rows') : rows'[j].ts <= rows'[i].ts
    BY <1>6 DEF LastBatchKept
  <2>1. PICK i \in 1..n : s[i].pid = p /\ s[i].status = map[p] /\ s[i].ts = now
    BY <1>3
  <2>2. rows'[Len(rows) + i] = s[i]
    BY <1>2, <1>3, <1>4, <2>1, ConcatFacts
  <2>3. Len(rows) + i \in 1..Len(rows') /\ Len(rows) + i > Len(rows') - MaxRows
    BY <1>4, <1>5, <1>9, <2>1
  <2>4. QED
    BY <1>8, <2>1, <2>2, <2>3
<1>10. QED
  BY <1>4, <1>5, <1>6, <1>7, <1>9 DEF OneDaemon, OnlyInv

\* A prune takes no row below the cap, and so none of the last batch if the cap
\* leaves room for one.
LEMMA OnlyDelete ==
  ASSUME TableInv, OneDaemon, OnlyInv, NEW d \in Daemons, DeleteBatch(d)
  PROVE  OnlyInv' /\ Len(rows') >= MaxRows
<1> DEFINE n == batch[d]
<1>1. /\ n \in Nat /\ rows \in Seq(Row) /\ Len(rows) \in Nat /\ MaxRows \in Nat
      /\ rows' = SubSeq(rows, n + 1, Len(rows))
      /\ UNCHANGED <<nextId, now, batch, counter, boot, seen, failures>>
      /\ step'[d] # "delete"
  BY SizeAssumption DEF TableInv, TypeOK, DeleteBatch, WithoutOldest
<1>2. Len(rows) - n >= MaxRows
  BY DEF OnlyInv, DeleteBatch
<1>3. /\ Len(rows') = Len(rows) - n /\ Len(rows') >= MaxRows
      /\ \A i \in 1..Len(rows') : i + n \in 1..Len(rows) /\ rows'[i] = rows[i + n]
  <2>1. n <= Len(rows)
    BY <1>1, <1>2
  <2>2. QED
    BY <1>1, <1>2, <2>1, DeleteFacts
<1>4. ~capped'[d]
  <2>1. n > 0
    BY DEF TableInv, TypeOK, DeleteBatch
  <2>2. Len(rows') # Len(rows)
    BY <1>1, <1>3, <2>1
  <2>3. capped'[d] = (rows' = rows)
    BY DEF TableInv, TypeOK, DeleteBatch
  <2>4. QED
    BY <2>2, <2>3
<1>5. ASSUME Cardinality(Pids) <= MaxRows
      PROVE  LastBatchKept(d)'
  <2> SUFFICES ASSUME NEW p \in DOMAIN seen[d]
               PROVE  \E i \in 1..Len(rows') :
                        /\ i > Len(rows') - MaxRows
                        /\ rows'[i].pid = p /\ rows'[i].status = seen[d][p]
                        /\ \A j \in 1..Len(rows') : rows'[j].ts <= rows'[i].ts
    BY <1>1 DEF LastBatchKept
  <2>1. PICK i \in 1..Len(rows) :
          /\ i > Len(rows) - MaxRows
          /\ rows[i].pid = p /\ rows[i].status = seen[d][p]
          /\ \A j \in 1..Len(rows) : rows[j].ts <= rows[i].ts
    BY <1>5 DEF OnlyInv, LastBatchKept
  <2>2. /\ i - n \in 1..Len(rows') /\ i - n > Len(rows') - MaxRows
        /\ (i - n) + n = i
    <3>1. i > n
      BY <1>1, <1>2, <2>1
    <3>2. /\ Len(rows') = Len(rows) - n /\ n \in Nat /\ Len(rows) \in Nat
          /\ MaxRows \in Nat /\ i \in 1..Len(rows)
      BY <1>1, <1>3
    <3>3. QED
      BY <2>1, <3>1, <3>2
  <2>3. rows'[i - n] = rows[i]
    BY <1>3, <2>2
  <2>4. \A j \in 1..Len(rows') : rows'[j].ts <= rows[i].ts
    BY <1>3, <2>1
  <2>5. QED
    BY <2>1, <2>2, <2>3, <2>4
<1>6. QED
  BY <1>1, <1>3, <1>4, <1>5 DEF OneDaemon, OnlyInv

\* SELECT COUNT(*): what is over the cap is not less than the batch settled on,
\* and a prune that ends here has nothing over it.
LEMMA OnlyCount ==
  ASSUME TableInv, OneDaemon, OnlyInv, NEW d \in Daemons, CountRows(d)
  PROVE  OnlyInv'
<1>1. /\ UNCHANGED <<rows, nextId, now, counter, boot, seen>>
      /\ Len(rows) \in Nat /\ MaxRows \in Nat /\ PruneBatch \in Nat
  BY SizeAssumption DEF TableInv, TypeOK, CountRows
<1>2. capped'[d] => Len(rows) <= MaxRows
  BY <1>1 DEF TableInv, TypeOK, OnlyInv, CountRows, Over
<1>3. step'[d] = "delete" => Len(rows) - batch'[d] >= MaxRows
  <2> SUFFICES ASSUME step'[d] = "delete"
               PROVE  Len(rows) - batch'[d] >= MaxRows
    OBVIOUS
  <2>1. Len(rows) > MaxRows /\ batch'[d] = BatchFor(Len(rows) - MaxRows)
    BY DEF TableInv, TypeOK, CountRows, Over
  <2>2. BatchFor(Len(rows) - MaxRows) <= Len(rows) - MaxRows
        /\ BatchFor(Len(rows) - MaxRows) \in Nat
    BY <1>1, <2>1 DEF BatchFor
  <2>3. QED
    BY <1>1, <2>1, <2>2
<1>4. LastBatchKept(d)' <=> LastBatchKept(d)
  BY <1>1 DEF LastBatchKept
<1>5. QED
  BY <1>1, <1>2, <1>3, <1>4 DEF OneDaemon, OnlyInv

\* A prune that fails and a daemon that is killed leave the table; the new
\* daemon counts from 0.
LEMMA OnlyFails ==
  ASSUME TableInv, OneDaemon, OnlyInv, NEW d \in Daemons, PruneFails(d) \/ Restart(d)
  PROVE  OnlyInv'
<1>1. UNCHANGED <<rows, nextId, now, batch, seen>> /\ nextId \in Nat
  BY DEF PruneFails, Restart, TableInv, TypeOK
<1>2. /\ step'[d] = "idle"
      /\ capped'[d] => capped[d]
      /\ counter'[d] = nextId - boot'[d]
  <2>1. CASE PruneFails(d)
    BY <2>1 DEF TableInv, TypeOK, OnlyInv, PruneFails
  <2>2. CASE Restart(d)
    BY <1>1, <2>2 DEF TableInv, TypeOK, Restart
  <2>3. QED
    BY <2>1, <2>2
<1>3. LastBatchKept(d)' <=> LastBatchKept(d)
  BY <1>1 DEF LastBatchKept
<1>4. QED
  BY <1>1, <1>2, <1>3 DEF OneDaemon, OnlyInv

\* Time goes on, or nothing happens.
LEMMA OnlyClock ==
  ASSUME OnlyInv, Clock \/ UNCHANGED vars
  PROVE  OnlyInv'
<1>1. UNCHANGED <<rows, nextId, step, batch, counter, boot, capped, seen>>
  BY DEF Clock, vars
<1>2. QED
  BY <1>1 DEF OnlyInv, LastBatchKept

\* No step of the only daemon takes a table that reached the cap below it.
LEMMA OnlyStep ==
  ASSUME TableInv, OneDaemon, OnlyInv, [Next]_vars
  PROVE  OnlyInv' /\ (Len(rows) >= MaxRows => Len(rows') >= MaxRows)
<1>1. CASE Clock \/ UNCHANGED vars
  BY <1>1, OnlyClock DEF Clock, vars
<1>2. ASSUME NEW d \in Daemons, WriteMany(d)
      PROVE  OnlyInv' /\ (Len(rows) >= MaxRows => Len(rows') >= MaxRows)
  <2>1. OnlyInv' /\ Len(rows') >= Len(rows)
    BY <1>2, OnlyWrite
  <2>2. TableInv'
    BY <1>2, TableWrite
  <2>3. rows \in Seq(Row) /\ rows' \in Seq(Row)
    BY <2>2, Zenon DEF TableInv, TypeOK
  <2>4. Len(rows) \in Nat /\ Len(rows') \in Nat
    BY <2>3
  <2>5. QED
    BY <2>1, <2>4, SizeAssumption
<1>3. ASSUME NEW d \in Daemons, DeleteBatch(d)
      PROVE  OnlyInv' /\ (Len(rows) >= MaxRows => Len(rows') >= MaxRows)
  BY <1>3, OnlyDelete
<1>4. ASSUME NEW d \in Daemons, CountRows(d) \/ PruneFails(d) \/ Restart(d)
      PROVE  OnlyInv' /\ (Len(rows) >= MaxRows => Len(rows') >= MaxRows)
  <2>1. rows' = rows
    BY <1>4 DEF CountRows, PruneFails, Restart
  <2>2. QED
    BY <1>4, <2>1, OnlyCount, OnlyFails
<1>5. QED
  BY <1>1, <1>2, <1>3, <1>4 DEF Next

\* What the only daemon knows of the table holds in every reachable state.
THEOREM OnlyInvariant == OneDaemon /\ Spec => []OnlyInv
<1>1. TableInv /\ OneDaemon /\ OnlyInv /\ [Next]_vars => OnlyInv'
  BY OnlyStep
<1>2. OneDaemon => OneDaemon'
  BY DEF OneDaemon
<1>3. QED
  BY OnlyInit, TableInvariant, <1>1, <1>2, PTL DEF Spec

\* The table is the newest part of all that was written (DELETE ... ORDER BY id
\* of prune()), and a prune that returned has left no more than maxRows.
THEOREM StoreKeepsNewest == OneDaemon /\ Spec => []NewestKept
<1>1. TableInv /\ OnlyInv => NewestKept
  <2> SUFFICES ASSUME TableInv, OnlyInv
               PROVE  NewestKept
    OBVIOUS
  <2>1. DOMAIN rows = 1..Len(rows)
    BY DEF TableInv, TypeOK
  <2>2. QED
    BY <2>1 DEF TableInv, OnlyInv, NewestKept
<1>2. QED
  BY <1>1, TableInvariant, OnlyInvariant, PTL

\* samplesWritten is the number of rows added since the daemon was started.
THEOREM StoreCountsExactly == OneDaemon /\ Spec => []CounterIsExact
<1>1. OnlyInv => CounterIsExact
  BY DEF OnlyInv, CounterIsExact
<1>2. QED
  BY <1>1, OnlyInvariant, PTL

\* Whatever fails or is restarted, a table that reached maxRows stays there.
THEOREM StoreStaysAtCap == OneDaemon /\ Spec => StaysAtCap
<1>1. /\ TableInv /\ OneDaemon /\ OnlyInv /\ [Next]_vars
      => [Len(rows) >= MaxRows => Len(rows') >= MaxRows]_vars
  BY OnlyStep
<1>2. OneDaemon => OneDaemon'
  BY DEF OneDaemon
<1>3. QED
  BY <1>1, <1>2, TableInvariant, OnlyInvariant, PTL DEF Spec, StaysAtCap

-----------------------------------------------------------------------------
(* The gauge of /metrics.                                                    *)

\* The rows a gauge counts, and the rows it ought to count.
Gauged(st) == {i \in DOMAIN rows : i \in Latest(rows[i].pid) /\ rows[i].status = st}
LastRows(st) == {i \in DOMAIN rows : /\ \A j \in Of(rows[i].pid) : j <= i
                                     /\ rows[i].status = st}
\* Two rows of one session in the same millisecond.
Tie == \E i, j \in DOMAIN rows :
         i # j /\ rows[i].pid = rows[j].pid /\ rows[i].ts = rows[j].ts

\* Time never runs backwards along the table: without a tie the row with the
\* largest ts of its session is the last one, and the other way round.
LEMMA LatestIsLast ==
  ASSUME TableInv, ~Tie, NEW st
  PROVE  Gauged(st) = LastRows(st)
<1>1. DOMAIN rows = 1..Len(rows) /\ Len(rows) \in Nat
  BY DEF TableInv, TypeOK
<1>2. \A i \in 1..Len(rows) : rows[i] \in Row /\ rows[i].ts \in Nat
  <2>1. \A i \in 1..Len(rows) : rows[i] \in Row
    BY DEF TableInv, TypeOK
  <2>2. QED
    BY <2>1, BoundAssumption DEF Row
<1>3. ASSUME NEW i \in 1..Len(rows), NEW j \in Of(rows[i].pid),
             i \in Latest(rows[i].pid)
      PROVE  j <= i
  <2> SUFFICES ASSUME i < j
               PROVE  FALSE
    BY <1>1 DEF Of
  <2>1. j \in 1..Len(rows) /\ rows[j].pid = rows[i].pid
    BY <1>1 DEF Of
  <2>2. rows[i].ts <= rows[j].ts
    BY <2>1 DEF TableInv
  <2>3. rows[j].ts <= rows[i].ts
    BY <1>3 DEF Latest
  <2>4. rows[i].ts = rows[j].ts
    BY <1>2, <2>1, <2>2, <2>3
  <2>5. QED
    BY <1>1, <2>1, <2>4 DEF Tie
<1>4. ASSUME NEW i \in 1..Len(rows), \A j \in Of(rows[i].pid) : j <= i
      PROVE  i \in Latest(rows[i].pid)
  <2>1. i \in Of(rows[i].pid)
    BY <1>1 DEF Of
  <2>2. ASSUME NEW j \in Of(rows[i].pid)
        PROVE  rows[j].ts <= rows[i].ts
    <3>1. j \in 1..Len(rows) /\ j <= i
      BY <1>1, <1>4 DEF Of
    <3>2. QED
      BY <3>1 DEF TableInv
  <2>3. QED
    BY <2>1, <2>2 DEF Latest
<1>5. QED
  BY <1>1, <1>3, <1>4 DEF Gauged, LastRows

\* Every session of the last batch has a row among those with the largest ts of
\* their session: the gauge of its status counts at least that one.
LEMMA BatchIsGauged ==
  ASSUME TableInv, NEW d \in Daemons, LastBatchKept(d), NEW st
  PROVE  Gauge(st) >= Cardinality({p \in DOMAIN seen[d] : seen[d][p] = st})
<1> DEFINE S == {p \in DOMAIN seen[d] : seen[d][p] = st}
           f == [p \in S |-> CHOOSE i \in Gauged(st) : rows[i].pid = p]
<1>1. DOMAIN rows = 1..Len(rows) /\ Len(rows) \in Nat
  BY DEF TableInv, TypeOK
<1>2. ASSUME NEW p \in S
      PROVE  \E i \in Gauged(st) : rows[i].pid = p
  <2>1. PICK i \in 1..Len(rows) :
          /\ rows[i].pid = p /\ rows[i].status = st
          /\ \A j \in 1..Len(rows) : rows[j].ts <= rows[i].ts
    BY <1>2 DEF LastBatchKept
  <2>2. i \in Latest(rows[i].pid)
    BY <1>1, <2>1 DEF Latest, Of
  <2>3. QED
    BY <1>1, <2>1, <2>2 DEF Gauged
<1>3. \A p \in S : f[p] \in Gauged(st) /\ rows[f[p]].pid = p
  BY <1>2
<1>4. f \in [S -> Gauged(st)]
  BY <1>3
<1>5. f \in Injection(S, Gauged(st))
  <2>1. \A p, q \in S : f[p] = f[q] => p = q
    BY <1>3
  <2>2. DOMAIN f = S
    OBVIOUS
  <2>3. QED
    BY <1>4, <2>1, <2>2 DEF Injection, IsInjective
<1>6. IsFiniteSet(Gauged(st))
  <2>1. IsFiniteSet(1..Len(rows)) /\ Gauged(st) \in SUBSET (1..Len(rows))
    BY <1>1, FS_Interval DEF Gauged
  <2>2. QED
    BY <2>1, FS_Subset
<1>7. IsFiniteSet(S) /\ Cardinality(S) <= Cardinality(Gauged(st))
  BY <1>5, <1>6, FS_Injection
<1>8. Cardinality(S) \in Nat /\ Cardinality(Gauged(st)) \in Nat
  BY <1>6, <1>7, FS_CardinalityType
<1>9. Gauge(st) = Cardinality(Gauged(st))
  BY DEF Gauge, Gauged
<1>10. QED
  BY <1>7, <1>8, <1>9

\* The gauge of each status counts every session of the last batch, whatever was
\* pruned, and without ties it counts each session's newest row alone.
THEOREM StoreGaugeIsCurrent == OneDaemon /\ Spec => []GaugeIsCurrent
<1>1. TableInv /\ OnlyInv => GaugeIsCurrent
  <2> SUFFICES ASSUME TableInv, OnlyInv
               PROVE  GaugeIsCurrent
    OBVIOUS
  <2>1. ASSUME ~Tie, NEW st \in Statuses
        PROVE  Gauge(st) = Cardinality(LastRows(st))
    BY <2>1, LatestIsLast DEF Gauge, Gauged
  <2>2. ASSUME Cardinality(Pids) <= MaxRows, NEW st \in Statuses, NEW d \in Daemons
        PROVE  Gauge(st) >= Cardinality({p \in DOMAIN seen[d] : seen[d][p] = st})
    BY <2>2, BatchIsGauged DEF OnlyInv
  <2>3. QED
    BY <2>1, <2>2 DEF GaugeIsCurrent, LastRows, Tie
<1>2. QED
  BY <1>1, TableInvariant, OnlyInvariant, PTL
==============================================================================
