---------------------------- MODULE RemindersProofs ----------------------------
(* Theorems about ReminderPoll, for any reminders and any number of ticks in  *)
(* flight at a time, and about the two halves of Reminders side by side.      *)
EXTENDS Reminders, TLAPS

Store == INSTANCE TodoStoreProofs

\* The poller's variables have their types before it is started.
LEMMA TypeInit == Init => TypeOK
<1>1. Nothing \in Snapshot /\ IdleTick \in Tick /\ IdleTick.step = "idle"
  BY DEF Tick, IdleTick, Nothing, Snapshot
<1>2. \A k \in Ticks : [x \in Ticks |-> IdleTick][k] = IdleTick
  OBVIOUS
<1> SUFFICES ASSUME Init PROVE TypeOK
  OBVIOUS
<1>4. ticks \in [Ticks -> Tick] /\ \A k \in Ticks : ticks[k].step = "idle"
  BY <1>1, <1>2 DEF Init
<1>5. told \in [Todos -> Nat] /\ flips \in [Todos -> Nat]
  BY DEF Init
<1>6. QED
  BY <1>1, <1>4, <1>5 DEF Init, TypeOK

\* Starting a tick leaves every other tick as it is.
LEMMA AskTypes ==
  ASSUME TypeOK, NEW k \in Ticks, Ask(k)
  PROVE  ticks' \in [Ticks -> Tick]
  BY DEF TypeOK, Ask, Tick

\* The continuation after `await listTodos` stores the list it was answered.
LEMMA DeliverTypes ==
  ASSUME TypeOK, NEW k \in Ticks, Deliver(k)
  PROVE  TypeOK'
<1>1. ticks[k].got \in Snapshot /\ IdleTick \in Tick
  BY DEF TypeOK, Tick, IdleTick, Nothing, Snapshot
<1>2. prev' \in Snapshot
  BY <1>1 DEF Deliver, Remembered
<1>3. view' \in Snapshot
  BY <1>1 DEF TypeOK, Deliver, Apply, Snapshot
<1>4. told' \in [Todos -> Nat]
  BY DEF TypeOK, Deliver
<1>5. ticks' \in [Ticks -> Tick]
  BY <1>1 DEF TypeOK, Deliver
<1>6. starts # 0
  BY DEF TypeOK, Deliver
<1>7. QED
  BY <1>2, <1>3, <1>4, <1>5, <1>6 DEF TypeOK, Deliver

\* Every step of the poller, its ticks and the list keeps the types.
LEMMA TypeStep == TypeOK /\ [Next]_vars => TypeOK'
<1> SUFFICES ASSUME TypeOK, [Next]_vars
             PROVE  TypeOK'
  OBVIOUS
<1>1. CASE ChangeList
  <2>1. list' \in Snapshot
    BY <1>1 DEF TypeOK, ChangeList, Snapshot
  <2>2. flips' \in [Todos -> Nat]
    BY <1>1 DEF TypeOK, ChangeList
  <2>3. QED
    BY <1>1, <2>1, <2>2 DEF TypeOK, ChangeList
<1>2. CASE Start
  <2>1. ticks' \in [Ticks -> Tick]
    BY <1>2, AskTypes DEF Start
  <2>2. view' \in Snapshot
    BY <1>2 DEF Start, Nothing, Snapshot
  <2>3. starts' \in Nat /\ starts' # 0
    BY <1>2 DEF Start, TypeOK
  <2>4. QED
    BY <1>2, <2>1, <2>2, <2>3 DEF TypeOK, Start
<1>3. CASE Interval
  <2>1. ticks' \in [Ticks -> Tick]
    BY <1>3, AskTypes DEF Interval
  <2>2. starts # 0
    BY <1>3 DEF Interval, TimerSet, TypeOK
  <2>3. QED
    BY <1>3, <2>1, <2>2 DEF TypeOK, Interval
<1>4. CASE Stop
  BY <1>4 DEF TypeOK, Stop, Nothing, Snapshot
<1>5. ASSUME NEW k \in Ticks, Answer(k)
      PROVE  TypeOK'
  <2>1. ticks' \in [Ticks -> Tick]
    BY <1>5 DEF TypeOK, Answer, Tick
  <2>2. starts # 0
    BY <1>5 DEF TypeOK, Answer
  <2>3. QED
    BY <1>5, <2>1, <2>2 DEF TypeOK, Answer
<1>6. ASSUME NEW k \in Ticks, Fail(k)
      PROVE  TypeOK'
  <2>1. IdleTick \in Tick
    BY DEF Tick, IdleTick, Nothing, Snapshot
  <2>2. ticks' \in [Ticks -> Tick]
    BY <1>6, <2>1 DEF TypeOK, Fail
  <2>3. starts # 0
    BY <1>6 DEF TypeOK, Fail
  <2>4. QED
    BY <1>6, <2>2, <2>3 DEF TypeOK, Fail
<1>7. ASSUME NEW k \in Ticks, Deliver(k)
      PROVE  TypeOK'
  BY <1>7, DeliverTypes
<1>8. CASE UNCHANGED vars
  BY <1>8 DEF TypeOK, vars
<1>9. QED
  BY <1>1, <1>2, <1>3, <1>4, <1>5, <1>6, <1>7, <1>8 DEF Next

\* Every variable keeps its shape, and nothing is fetched before a start.
THEOREM PollTypeCorrect == Spec => []TypeOK
  BY TypeInit, TypeStep, PTL DEF Spec

-----------------------------------------------------------------------------
\* The heart of it: applying diffTodos(prev, next) to a view that agrees with
\* prev gives a view that agrees with next, whatever the two lists are.
Agrees(v, p) ==
  \A t \in Todos : p[t] # Absent =>
    /\ v[t] # Absent
    /\ v[t].rev = p[t].rev
    /\ p[t].done => v[t].done

\* diffTodos: a view that agrees with the list `b` agrees with `n` once the
\* events of the difference between `b` and `n` have been applied to it.
LEMMA DiffKeepsAgreement ==
  ASSUME NEW v \in Snapshot, NEW b \in Snapshot, NEW n \in Snapshot,
         Agrees(v, b)
  PROVE  Agrees(Apply(v, b, n), n)
<1> SUFFICES ASSUME NEW t \in Todos, n[t] # Absent
             PROVE  LET w == Apply(v, b, n)[t]
                    IN  w # Absent /\ w.rev = n[t].rev /\ (n[t].done => w.done)
  BY DEF Agrees
<1>1. CASE t \in Events(b, n)
  BY <1>1 DEF Apply
<1>2. CASE t \notin Events(b, n)
  <2>1. b[t] # Absent
    BY <1>2 DEF Events, Added
  <2>2. t \in Both(b, n)
    BY <2>1 DEF Both
  <2>3. n[t].done => b[t].done
    BY <1>2, <2>2 DEF Events, Completed
  <2>4. b[t].rev = n[t].rev
    BY <1>2, <2>2 DEF Events, Updated
  <2>5. v[t] # Absent /\ v[t].rev = b[t].rev /\ (b[t].done => v[t].done)
    BY <2>1 DEF Agrees
  <2>6. Apply(v, b, n)[t] = v[t]
    BY <1>2 DEF Apply
  <2>7. QED
    BY <2>3, <2>4, <2>5, <2>6
<1>3. QED
  BY <1>1, <1>2

\* A view that knows nothing agrees with an empty list.
LEMMA NothingAgrees == \A v : Agrees(v, Nothing)
  BY DEF Agrees, Nothing

\* A delivery keeps a subscriber's view in agreement with prevState; every other
\* step leaves both alone or clears the agreement's premise.
LEMMA KnowsStep ==
  TypeOK /\ SubscriberKnowsPrev /\ [Next]_vars => SubscriberKnowsPrev'
<1> SUFFICES ASSUME TypeOK, running /\ fresh => Agrees(view, prev), [Next]_vars,
                    running', fresh'
             PROVE  Agrees(view', prev')
  BY DEF SubscriberKnowsPrev, Agrees
<1>1. CASE Start
  BY <1>1, NothingAgrees DEF Start
<1>2. CASE \E k \in Ticks : Deliver(k)
  <2>1. PICK k \in Ticks : Deliver(k)
    BY <1>2
  <2>2. /\ ticks[k].got \in Snapshot /\ prev \in Snapshot /\ view \in Snapshot
        /\ Agrees(view, prev)
        /\ view' = Apply(view, prev, ticks[k].got)
        /\ prev' = ticks[k].got
    BY <2>1 DEF Deliver, Remembered, TypeOK, Tick
  <2>3. QED
    BY <2>2, DiffKeepsAgreement
<1>3. CASE Stop
  BY <1>3 DEF Stop
<1>4. CASE ChangeList \/ Interval
           \/ (\E k \in Ticks : Answer(k) \/ Fail(k)) \/ UNCHANGED vars
  <2>1. view' = view /\ prev' = prev /\ running' = running /\ fresh' = fresh
    BY <1>4 DEF ChangeList, Interval, Answer, Fail, vars
  <2>2. QED
    BY <2>1
<1>5. QED
  BY <1>1, <1>2, <1>3, <1>4 DEF Next

\* A subscriber present since a clean start can rebuild the poller's list from
\* the events alone, whatever overlaps, failures and stops there were.
THEOREM PollSubscriberKnowsPrev == Spec => []SubscriberKnowsPrev
<1>1. Init => SubscriberKnowsPrev
  BY DEF Init, SubscriberKnowsPrev
<1>2. QED
  BY <1>1, TypeInit, TypeStep, KnowsStep, PTL DEF Spec

-----------------------------------------------------------------------------
(* Side by side: what holds of each half by itself holds of both.            *)

\* The calls of Reminders are those the theorems of TodoStoreProofs are about.
LEMMA SameCalls ==
  /\ Bridge!Init => Store!Init
  /\ Bridge!Next => Store!Next
  /\ Store!ReadsItsWrites => Bridge!ReadsItsWrites
  /\ Store!NothingMadeUp => Bridge!NothingMadeUp
<1>1. Bridge!Init => Store!Init
  BY DEF Bridge!Init, Store!Init, Bridge!Calls, Store!Calls, Bridge!NoCall,
     Store!NoCall, Bridge!UnknownId, Store!UnknownId, Bridge!Missing, Store!Missing
<1>2. ASSUME NEW c
      PROVE  /\ Bridge!Start(c) => Store!Start(c)
             /\ Bridge!Probe(c) => Store!Probe(c)
             /\ Bridge!ProbeAuth(c) => Store!ProbeAuth(c)
             /\ Bridge!Exec(c) => Store!Exec(c)
             /\ Bridge!ExecFails(c) => Store!ExecFails(c)
             /\ Bridge!Read(c) => Store!Read(c)
             /\ Bridge!Open(c) => Store!Open(c)
             /\ Bridge!Write(c) => Store!Write(c)
             /\ Bridge!WriteFails(c) => Store!WriteFails(c)
             /\ Bridge!Killed(c) => Store!Killed(c)
  <2>1. Bridge!Start(c) => Store!Start(c)
    BY DEF Bridge!Start, Store!Start, Bridge!KnownIds, Store!KnownIds, Bridge!Ended,
       Store!Ended, Bridge!Calls, Store!Calls, Bridge!UnknownId, Store!UnknownId,
       Bridge!NoCall, Store!NoCall
  <2>2. Bridge!Probe(c) => Store!Probe(c)
    BY DEF Bridge!Probe, Store!Probe, Bridge!GetActiveCli, Store!GetActiveCli,
       Bridge!Candidates, Store!Candidates, Bridge!Min, Store!Min
  <2>3. Bridge!ProbeAuth(c) => Store!ProbeAuth(c)
    BY DEF Bridge!ProbeAuth, Store!ProbeAuth, Bridge!Finish, Store!Finish, Bridge!Lose,
       Store!Lose, Bridge!NoCall, Store!NoCall, Bridge!UnknownId, Store!UnknownId
  <2>4. Bridge!Exec(c) => Store!Exec(c)
    BY DEF Bridge!Exec, Store!Exec, Bridge!Finish, Store!Finish, Bridge!Entry,
       Store!Entry, Bridge!ReminderId, Store!ReminderId, Bridge!Marked, Store!Marked
  <2>5. Bridge!ExecFails(c) => Store!ExecFails(c)
    BY DEF Bridge!ExecFails, Store!ExecFails, Bridge!Lose, Store!Lose, Bridge!NoCall,
       Store!NoCall, Bridge!UnknownId, Store!UnknownId
  <2>6. Bridge!Read(c) => Store!Read(c)
    BY DEF Bridge!Read, Store!Read, Bridge!Changed, Store!Changed, Bridge!WithNew,
       Store!WithNew, Bridge!Entry, Store!Entry, Bridge!LocalId, Store!LocalId,
       Bridge!Marked, Store!Marked, Bridge!Rewriting, Store!Rewriting, Bridge!Calls,
       Store!Calls
  <2>7. Bridge!Open(c) => Store!Open(c)
    BY DEF Bridge!Open, Store!Open, Bridge!Empty, Store!Empty, Bridge!Finish,
       Store!Finish, Bridge!Lose, Store!Lose, Bridge!NoCall, Store!NoCall,
       Bridge!UnknownId, Store!UnknownId
  <2>8. Bridge!Write(c) => Store!Write(c)
    BY DEF Bridge!Write, Store!Write, Bridge!Whole, Store!Whole, Bridge!Empty,
       Store!Empty, Bridge!Garbage, Store!Garbage, Bridge!Finish, Store!Finish
  <2>9. Bridge!WriteFails(c) => Store!WriteFails(c)
    BY DEF Bridge!WriteFails, Store!WriteFails, Bridge!Garbage, Store!Garbage,
       Bridge!Lose, Store!Lose, Bridge!NoCall, Store!NoCall, Bridge!UnknownId,
       Store!UnknownId
  <2>10. Bridge!Killed(c) => Store!Killed(c)
    BY DEF Bridge!Killed, Store!Killed, Bridge!Lose, Store!Lose, Bridge!NoCall,
       Store!NoCall, Bridge!UnknownId, Store!UnknownId
  <2>11. QED
    BY <2>1, <2>2, <2>3, <2>4, <2>5, <2>6, <2>7, <2>8, <2>9, <2>10
<1>3. Bridge!Tick => Store!Tick
  BY DEF Bridge!Tick, Store!Tick
<1>4. Bridge!Next => Store!Next
  BY <1>2, <1>3 DEF Bridge!Next, Store!Next, Bridge!Calls, Store!Calls
<1>5. Store!ReadsItsWrites => Bridge!ReadsItsWrites
  BY DEF Bridge!ReadsItsWrites, Store!ReadsItsWrites, Bridge!Ended, Store!Ended,
     Bridge!FromFile, Store!FromFile, Bridge!Calls, Store!Calls
<1>6. Store!NothingMadeUp => Bridge!NothingMadeUp
  BY DEF Bridge!NothingMadeUp, Store!NothingMadeUp, Bridge!Calls, Store!Calls
<1>7. QED
  BY <1>1, <1>4, <1>5, <1>6

\* A step of both is a step of the poller or none, and one of the calls or none.
LEMMA HalfSteps ==
  [BothNext]_<<vars, bridgeVars>> => [Next]_vars /\ [Store!Next]_(Store!vars)
BY SameCalls DEF BothNext, bridgeVars, Store!vars

\* The invariants of the poller and of the calls hold of both together.
THEOREM BothInvariant == BothSpec => [](TypeOK /\ SubscriberKnowsPrev /\ Store!StoreInv)
<1>1. Store!Bounds
  BY BridgeBounds DEF Store!Bounds
<1>2. BothInit => TypeOK /\ SubscriberKnowsPrev /\ Store!StoreInv
  <2>2. Init => TypeOK /\ SubscriberKnowsPrev
    BY TypeInit DEF Init, SubscriberKnowsPrev
  <2>3. QED
    BY <1>1, <2>2, SameCalls, Store!StoreStart DEF BothInit
<1>3. TypeOK /\ SubscriberKnowsPrev /\ Store!StoreInv /\ [BothNext]_<<vars, bridgeVars>> =>
        (TypeOK /\ SubscriberKnowsPrev /\ Store!StoreInv)'
  BY <1>1, HalfSteps, TypeStep, KnowsStep, Store!StoreStep
<1>4. QED
  BY <1>2, <1>3, PTL DEF BothSpec

\* The poller's variables keep their shapes beside the calls.
THEOREM BothTypeCorrect == BothSpec => []TypeOK
BY BothInvariant, PTL

\* A subscriber's view agrees with prevState beside the calls.
THEOREM BothSubscriberKnowsPrev == BothSpec => []SubscriberKnowsPrev
BY BothInvariant, PTL

\* A list shows what was added and completed before it began, by whichever
\* caller, unless rewrites overlapped or were cut off or a probe failed.
THEOREM ListsAreCurrent == BothSpec => []ReadsItsWrites
<1>1. Store!StoreInv => ReadsItsWrites
  BY SameCalls DEF Store!StoreInv, ReadsItsWrites
<1>2. QED
  BY <1>1, BothInvariant, PTL

\* Nothing is in a store or a list that no call has added, and nothing is done
\* that no call has completed, whatever overlaps, fails or is killed.
THEOREM TodosAreReal == BothSpec => []NothingMadeUp
<1>1. Store!StoreInv => NothingMadeUp
  BY SameCalls, Store!LegitIsEnough DEF NothingMadeUp
<1>2. QED
  BY <1>1, BothInvariant, PTL
================================================================================
