---------------------------- MODULE TodoStoreProofs ----------------------------
(* Theorems about module TodoStore, for any number of calls of any callers,   *)
(* on a machine with any of the three CLIs, over any stretch of time.         *)
EXTENDS TodoStore, TLAPS

\* What module Reminders assumes of the constants (BridgeBounds).
Bounds ==
  /\ NCalls \in Nat /\ MaxTime \in Nat
  /\ Machines \subseteq SUBSET {"remindctl", "apple-reminders-cli", "ekctl"}

\* The shapes of an entry, of a call and of todos.json.
Todo == [id : Nat, title : Calls, done : BOOLEAN]
Call == [step : {"idle", "probe", "auth", "exec", "read", "open", "write",
                 "ok", "failed", "refused", "dead"},
         op : {"list", "add", "complete"}, target : Nat,
         cli : {"remindctl", "apple-reminders-cli", "ekctl", "fallback-file"},
         todos : SUBSET Todo, before : SUBSET Calls]
File == [state : {"whole", "missing", "empty", "garbage"}, entries : SUBSET Todo]

TodoTypeOK ==
  /\ installed \subseteq {"remindctl", "apple-reminders-cli", "ekctl"}
  /\ reminders \subseteq Todo
  /\ file \in File
  /\ calls \in [Calls -> Call]
  /\ now \in Nat
  /\ disturbed \in BOOLEAN /\ flapped \in BOOLEAN

\* An entry that some call added; done only if some call completed its id.
Begun(c) == calls[c].step # "idle"
Legit(e) ==
  /\ Begun(e.title) /\ calls[e.title].op = "add"
  /\ e.done => \E c \in Calls : Begun(c) /\ calls[c].op = "complete" /\ calls[c].target = e.id
LegitOK ==
  /\ \A e \in reminders : Legit(e)
  /\ \A e \in file.entries : Legit(e)
  /\ \A c \in Calls : \A e \in calls[c].todos : Legit(e)

\* Which store a call is at, by its step, and what it carries.
CallOK(c) ==
  /\ calls[c].step \in {"idle", "probe", "auth", "exec"} =>
       ~FromFile(c) /\ calls[c].todos = {}
  /\ calls[c].step \in {"read", "open", "write"} => FromFile(c)
  /\ calls[c].step \in {"open", "write"} => calls[c].op # "list"
  /\ calls[c].step \in {"open", "write", "ok"} /\ FromFile(c) /\ calls[c].op = "add" =>
       \E e \in calls[c].todos : e.title = c
  /\ calls[c].step = "ok" /\ ~FromFile(c) =>
       /\ installed # {}
       /\ calls[c].op = "add" => \E e \in reminders : e.title = c
       /\ calls[c].op = "complete" => calls[c].todos = {}
  /\ calls[c].step \in {"read", "open", "write", "ok"} /\ FromFile(c) =>
       flapped \/ installed = {}
  /\ \A b \in calls[c].before : calls[b].step = "ok"
CallsOK == \A c \in Calls : CallOK(c)

\* Everything that calls on the file were answered ok for is among the entries.
Holds(entries) ==
  \A c \in Calls : calls[c].step = "ok" /\ FromFile(c) =>
    /\ calls[c].op = "add" => \E e \in entries : e.title = c
    /\ calls[c].op = "complete" => \A e \in calls[c].todos : e.done => e \in entries

\* As long as no two rewrites overlap and none is cut off, the only copy of
\* what was answered is in the file or, while it is truncated, in the memory
\* of the call that has truncated it.
FileOK ==
  ~disturbed =>
    /\ \A c, d \in Rewriting : c = d
    /\ \A c \in Rewriting : Holds(calls[c].todos)
    /\ \A c \in Calls : calls[c].step = "write" => file = Empty
    /\ (\A c \in Calls : calls[c].step # "write") =>
         file.state \in {"whole", "missing"} /\ Holds(file.entries)

StoreInv == TodoTypeOK /\ LegitOK /\ CallsOK /\ FileOK /\ ReadsItsWrites

-----------------------------------------------------------------------------
(* What every step of a call has in common.                                  *)

\* One call that has no answer yet goes on; the machine and the past stay.
Moves(c) ==
  /\ calls[c].step # "ok" /\ calls'[c].step # "idle"
  /\ calls' \in [Calls -> Call]
  /\ \A d \in Calls : d # c => calls'[d] = calls[d]
  /\ Begun(c) => calls'[c].op = calls[c].op /\ calls'[c].target = calls[c].target
  /\ installed' = installed
  /\ disturbed => disturbed'
  /\ flapped => flapped'

\* Holds(entries) in the next state, of the entries as they are now.
HoldsNext(entries) ==
  \A c \in Calls : calls'[c].step = "ok" /\ calls'[c].cli = "fallback-file" =>
    /\ calls'[c].op = "add" => \E e \in entries : e.title = c
    /\ calls'[c].op = "complete" => \A e \in calls'[c].todos : e.done => e \in entries

\* A list that has everything answered before it began.
Sees(l) ==
  \A c \in calls[l].before :
    ~flapped \/ FromFile(c) = FromFile(l) =>
      /\ calls[c].op = "add" => \E e \in calls[l].todos : e.title = c
      /\ calls[c].op = "complete" => \A e \in calls[c].todos : e.done => e \in calls[l].todos

\* The numbers of entries are numbers.
LEMMA IdTypes ==
  ASSUME Bounds, NEW c \in Calls
  PROVE  ReminderId(c) \in Nat
BY DEF Bounds, Calls, ReminderId

\* So is the one that nobody has.
LEMMA UnknownType == Bounds => UnknownId \in Nat
BY DEF Bounds, UnknownId

\* A call that has only begun has a type.
LEMMA NoCallType == ASSUME Bounds PROVE NoCall \in Call
<1>1. MaxTime + NCalls + 1 \in Nat
  BY DEF Bounds
<1>2. QED
  BY <1>1 DEF NoCall, Call, UnknownId

\* An entry that is done already does not change by being marked.
LEMMA MarkedType ==
  ASSUME NEW e \in Todo, NEW id
  PROVE  /\ Marked(e, id) \in Todo /\ Marked(e, id).title = e.title /\ Marked(e, id).id = e.id
         /\ e.done => Marked(e, id) = e
         /\ Marked(e, id).done => e.done \/ e.id = id
BY DEF Marked, Todo

\* getActiveCli finds a CLI that answers if there is one.
LEMMA ActiveCli ==
  ASSUME NEW answering \in SUBSET {"remindctl", "apple-reminders-cli", "ekctl"}
  PROVE  /\ answering = {} => GetActiveCli(answering) = "fallback-file"
         /\ answering # {} => GetActiveCli(answering) \in answering
<1> DEFINE there == {i \in 1..3 : Candidates[i] \in answering}
<1>1. /\ Candidates[1] = "remindctl" /\ Candidates[2] = "apple-reminders-cli"
      /\ Candidates[3] = "ekctl" /\ 1 \in 1..3 /\ 2 \in 1..3 /\ 3 \in 1..3
  BY DEF Candidates
<1>2. CASE answering = {}
  <2>1. there = {}
    BY <1>2
  <2>2. QED
    BY <1>2, <2>1 DEF GetActiveCli
<1>3. CASE answering # {}
  <2>1. there # {}
    BY <1>1, <1>3
  <2>2. Min(there) \in there
    <3>1. \E x \in there : \A y \in there : x <= y
      <4>1. there \in SUBSET {1, 2, 3}
        OBVIOUS
      <4> HIDE DEF there
      <4>2. 1 \in there \/ 2 \in there \/ 3 \in there
        BY <2>1, <4>1
      <4>3. QED
        BY <4>1, <4>2
    <3> HIDE DEF there
    <3>2. QED
      BY <3>1 DEF Min
  <2>3. Candidates[Min(there)] \in answering
    BY <2>2
  <2>4. QED
    BY <1>3, <2>1, <2>3 DEF GetActiveCli
<1>4. QED
  BY <1>2, <1>3

\* What a call marks is what some call added, and done by that call if not
\* before.
LEMMA MarkedLegit ==
  ASSUME NEW c \in Calls, Begun(c), calls[c].op = "complete", NEW e \in Todo, Legit(e)
  PROVE  /\ Marked(e, calls[c].target) \in Todo /\ Legit(Marked(e, calls[c].target))
         /\ Marked(e, calls[c].target).title = e.title
BY MarkedType DEF Legit

\* What calls added and completed they have added and completed for good.
LEMMA LegitMoves ==
  ASSUME TodoTypeOK, NEW c \in Calls, Moves(c), NEW e \in Todo, Legit(e)
  PROVE  Legit(e)'
<1>1. ASSUME NEW d \in Calls, Begun(d)
      PROVE  /\ Begun(d)' /\ calls'[d].op = calls[d].op /\ calls'[d].target = calls[d].target
  BY <1>1 DEF Moves, Begun
<1>2. e.title \in Calls
  BY DEF Todo
<1>3. QED
  BY <1>1, <1>2 DEF Legit

\* The calls that stay where they are are still there rightly.
LEMMA CallsMove ==
  ASSUME StoreInv, NEW c \in Calls, Moves(c), CallOK(c)',
         \A e \in reminders : \E f \in reminders' : f.title = e.title
  PROVE  CallsOK'
<1> SUFFICES ASSUME NEW d \in Calls, d # c
             PROVE  CallOK(d)'
  BY DEF CallsOK
<1>1. calls'[d] = calls[d] /\ CallOK(d) /\ calls[d].before \subseteq Calls
  BY DEF Moves, StoreInv, CallsOK, TodoTypeOK, Call
<1>2. FromFile(d)' = FromFile(d) /\ installed' = installed
  BY <1>1 DEF FromFile, Moves
<1>3. \A b \in calls[d].before : calls'[b].step = "ok"
  BY <1>1 DEF CallOK, Moves
<1>4. (\E e \in reminders : e.title = d) => \E e \in reminders' : e.title = d
  OBVIOUS
<1>5. flapped => flapped'
  BY DEF Moves
<1>6. QED
  BY <1>1, <1>2, <1>3, <1>4, <1>5 DEF CallOK

\* Entries that have everything still have it when a call goes on, if they
\* have what this call is answered.
LEMMA HoldsMove ==
  ASSUME NEW c \in Calls, Moves(c), NEW S, Holds(S),
         calls'[c].step = "ok" /\ calls'[c].cli = "fallback-file" =>
           /\ calls'[c].op = "add" => \E e \in S : e.title = c
           /\ calls'[c].op = "complete" => \A e \in calls'[c].todos : e.done => e \in S
  PROVE  HoldsNext(S)
BY DEF Moves, Holds, HoldsNext, FromFile

\* Lists that were answered stay as they are, and so do the calls before them.
LEMMA ReadsMove ==
  ASSUME StoreInv, NEW c \in Calls, Moves(c),
         calls'[c].step = "ok" /\ calls'[c].op = "list" /\ ~disturbed' => Sees(c)'
  PROVE  ReadsItsWrites'
<1> SUFFICES ASSUME NEW l \in Calls, calls'[l].step = "ok", calls'[l].op = "list",
                    ~disturbed'
             PROVE  Sees(l)'
  BY DEF ReadsItsWrites, Ended, Sees
<1>1. CASE l # c
  <2>1. calls'[l] = calls[l] /\ ~disturbed
    BY <1>1 DEF Moves
  <2>2. Sees(l)
    BY <2>1 DEF StoreInv, ReadsItsWrites, Ended, Sees
  <2>3. \A b \in calls[l].before : calls'[b] = calls[b]
    BY DEF Moves, StoreInv, CallsOK, CallOK, TodoTypeOK, Call
  <2>4. flapped => flapped'
    BY DEF Moves
  <2>5. QED
    BY <2>1, <2>2, <2>3, <2>4 DEF Sees, FromFile
<1>2. QED
  BY <1>1

\* The file is as good as it was when neither it changes nor who rewrites it.
LEMMA FileStays ==
  ASSUME StoreInv, NEW c \in Calls, Moves(c), file' = file, disturbed' = disturbed,
         calls[c].step \notin {"open", "write"}, calls'[c].step \notin {"open", "write"},
         calls'[c].step = "ok" /\ calls'[c].cli = "fallback-file" => calls'[c].op = "list"
  PROVE  FileOK'
<1> SUFFICES ASSUME ~disturbed'
             PROVE  FileOK'
  BY DEF FileOK
<1>1. Rewriting' = Rewriting /\ c \notin Rewriting
  BY DEF Rewriting, Moves
<1>2. \A d \in Rewriting : d \in Calls /\ calls'[d] = calls[d]
  BY <1>1 DEF Rewriting, Moves
<1>3. \A S : Holds(S) => HoldsNext(S)
  BY HoldsMove
<1>4. \A d \in Rewriting : HoldsNext(calls'[d].todos)
  BY <1>2, <1>3 DEF StoreInv, FileOK
<1>5. \A d \in Calls : calls'[d].step = "write" <=> calls[d].step = "write"
  BY DEF Moves
<1>6. (\A d \in Calls : calls'[d].step # "write") =>
        file.state \in {"whole", "missing"} /\ HoldsNext(file.entries)
  BY <1>3, <1>5 DEF StoreInv, FileOK
<1>7. \A d \in Calls : calls'[d].step = "write" => file' = Empty
  BY <1>5 DEF StoreInv, FileOK
<1>8. \A d \in Rewriting' : Holds(calls[d].todos)'
  BY <1>1, <1>4 DEF Holds, HoldsNext, FromFile
<1>9. HoldsNext(file.entries) => Holds(file.entries)'
  BY DEF Holds, HoldsNext, FromFile
<1>10. QED
  BY <1>1, <1>6, <1>7, <1>8, <1>9 DEF StoreInv, FileOK

\* A step of one call keeps the invariant if what it puts into the stores and
\* into the call's hands is legitimate by then, and it leaves the file in order.
LEMMA OneMoves ==
  ASSUME StoreInv, NEW c \in Calls, Moves(c), CallOK(c)', FileOK',
         reminders' \subseteq Todo, \A e \in reminders' : Legit(e),
         \A e \in reminders : \E f \in reminders' : f.title = e.title,
         file' \in File, \A e \in file'.entries : Legit(e),
         \A e \in calls'[c].todos : Legit(e),
         calls'[c].step = "ok" /\ calls'[c].op = "list" /\ ~disturbed' => Sees(c)',
         now' = now, disturbed' \in BOOLEAN, flapped' \in BOOLEAN
  PROVE  StoreInv'
<1>1. TodoTypeOK'
  BY DEF StoreInv, TodoTypeOK, Moves
<1>2. \A e \in Todo : Legit(e) => Legit(e)'
  BY LegitMoves DEF StoreInv
<1>3. \A d \in Calls : \A e \in calls'[d].todos : e \in Todo /\ Legit(e)
  BY DEF StoreInv, LegitOK, Moves, Call
<1>4. LegitOK'
  <2>1. \A e \in reminders' : Legit(e)'
    BY <1>2
  <2>2. \A e \in file'.entries : Legit(e)'
    BY <1>2 DEF File
  <2>3. \A d \in Calls : \A e \in calls'[d].todos : Legit(e)'
    BY <1>2, <1>3
  <2>4. QED
    BY <2>1, <2>2, <2>3 DEF LegitOK
<1>5. CallsOK'
  BY CallsMove
<1>6. ReadsItsWrites'
  BY ReadsMove
<1>7. QED
  BY <1>1, <1>4, <1>5, <1>6 DEF StoreInv

-----------------------------------------------------------------------------
(* The steps of a call that do not write the file.                           *)

\* The stores stay as they are, and so does who rewrites the file.
LEMMA StoresStay ==
  ASSUME StoreInv, NEW c \in Calls, Moves(c), UNCHANGED <<reminders, file, now, disturbed>>,
         flapped' \in BOOLEAN,
         calls[c].step \notin {"open", "write"}, calls'[c].step \notin {"open", "write"},
         calls'[c].step = "ok" /\ calls'[c].cli = "fallback-file" => calls'[c].op = "list",
         calls'[c].step = "ok" /\ calls'[c].op = "list" /\ ~disturbed' => Sees(c)',
         \A e \in calls'[c].todos : Legit(e),
         CallOK(c)'
  PROVE  StoreInv'
<1>1. /\ reminders' \subseteq Todo /\ \A e \in reminders' : Legit(e)
      /\ file' \in File /\ \A e \in file'.entries : Legit(e)
      /\ disturbed' \in BOOLEAN
  BY DEF StoreInv, TodoTypeOK, LegitOK
<1>2. \A e \in reminders : \E f \in reminders' : f.title = e.title
  OBVIOUS
<1>3. FileOK'
  BY FileStays
<1>4. QED
  BY <1>1, <1>2, <1>3, OneMoves

\* A call begins, knowing nothing and after the answers there are.
LEMMA StartStep ==
  ASSUME Bounds, StoreInv, NEW c \in Calls, Start(c)
  PROVE  StoreInv'
<1>1. PICK first \in {"probe", "auth", "exec"}, op \in {"list", "add", "complete"} :
        \E id \in IF op = "complete" THEN KnownIds ELSE {UnknownId} :
          calls' = [calls EXCEPT ![c] =
                      [NoCall EXCEPT !.step = first, !.op = op, !.target = id,
                                     !.before = IF op = "list" THEN Ended("ok") ELSE {}]]
  BY DEF Start
<1>2. PICK id \in KnownIds \union {UnknownId} :
        calls' = [calls EXCEPT ![c] =
                    [NoCall EXCEPT !.step = first, !.op = op, !.target = id,
                                   !.before = IF op = "list" THEN Ended("ok") ELSE {}]]
  BY <1>1
<1>3. id \in Nat
  <2>1. \A e \in reminders : e.id \in Nat
    BY DEF StoreInv, TodoTypeOK, Todo
  <2>2. \A d \in Calls : \A e \in calls[d].todos : e.id \in Nat
    BY DEF StoreInv, TodoTypeOK, Call, Todo
  <2>3. Ended("ok") \subseteq Calls
    BY DEF Ended
  <2>4. QED
    BY <2>1, <2>2, <2>3, UnknownType DEF KnownIds
<1> DEFINE before == IF op = "list" THEN Ended("ok") ELSE {}
           new == [NoCall EXCEPT !.step = first, !.op = op, !.target = id, !.before = before]
<1>4. before \subseteq Ended("ok") /\ before \in SUBSET Calls
  BY DEF Ended
<1>5. /\ new \in Call /\ new.step = first /\ new.todos = {} /\ new.before = before
      /\ new.cli = "remindctl"
  <2> HIDE DEF before
  <2>1. QED
    BY <1>3, <1>4, NoCallType DEF Call, NoCall
<1>6. /\ calls[c].step = "idle" /\ calls \in [Calls -> Call]
      /\ UNCHANGED <<installed, reminders, file, now, disturbed, flapped>>
      /\ flapped \in BOOLEAN
  BY DEF Start, StoreInv, TodoTypeOK
<1> HIDE DEF new
<1>7. calls'[c] = new
  BY <1>2, <1>6 DEF new
<1>8. Moves(c)
  BY <1>2, <1>5, <1>6, <1>7 DEF Moves, Begun, new
<1>9. CallOK(c)'
  <2>1. \A b \in new.before : calls[b].step = "ok" /\ b \in Calls /\ b # c
    BY <1>4, <1>5, <1>6 DEF Ended
  <2>2. \A b \in new.before : calls'[b].step = "ok"
    BY <1>8, <2>1 DEF Moves
  <2>3. QED
    BY <1>5, <1>7, <2>2 DEF CallOK, FromFile
<1>10. QED
  BY <1>5, <1>6, <1>7, <1>8, <1>9, StoresStay

\* A call that is lost carries nothing.
LEMMA LoseShape ==
  ASSUME Bounds, TodoTypeOK, NEW c \in Calls, NEW step \in {"failed", "refused", "dead"},
         Lose(c, step)
  PROVE  /\ calls' \in [Calls -> Call]
         /\ \A d \in Calls : d # c => calls'[d] = calls[d]
         /\ calls'[c].step = step /\ calls'[c].op = calls[c].op
         /\ calls'[c].target = calls[c].target
         /\ calls'[c].todos = {} /\ calls'[c].before = {} /\ calls'[c].cli = "remindctl"
<1> DEFINE new == [NoCall EXCEPT !.step = step, !.op = calls[c].op, !.target = calls[c].target]
<1>1. calls \in [Calls -> Call] /\ calls[c] \in Call /\ calls' = [calls EXCEPT ![c] = new]
  BY DEF TodoTypeOK, Lose
<1>2. /\ new \in Call /\ new.step = step /\ new.op = calls[c].op /\ new.target = calls[c].target
      /\ new.todos = {} /\ new.before = {} /\ new.cli = "remindctl"
  BY <1>1, NoCallType DEF Call, NoCall
<1> HIDE DEF new
<1>3. QED
  BY <1>1, <1>2

\* A call is lost before it opens the file.
LEMMA LostStep ==
  ASSUME Bounds, StoreInv, NEW c \in Calls, NEW step \in {"failed", "refused", "dead"},
         Lose(c, step), calls[c].step \in {"probe", "auth", "exec", "read"},
         UNCHANGED <<installed, reminders, file, now, disturbed, flapped>>
  PROVE  StoreInv'
<1>1. /\ calls' \in [Calls -> Call]
      /\ \A d \in Calls : d # c => calls'[d] = calls[d]
      /\ calls'[c].step = step /\ calls'[c].op = calls[c].op
      /\ calls'[c].target = calls[c].target
      /\ calls'[c].todos = {} /\ calls'[c].before = {} /\ calls'[c].cli = "remindctl"
  BY LoseShape DEF StoreInv
<1>2. Moves(c)
  BY <1>1 DEF Moves
<1>3. CallOK(c)'
  BY <1>1 DEF CallOK, FromFile
<1>4. flapped' \in BOOLEAN
  BY DEF StoreInv, TodoTypeOK
<1>5. QED
  BY <1>1, <1>2, <1>3, <1>4, StoresStay

\* The probe sends the call to a CLI or, as if there were none, to the file.
LEMMA ProbeStep ==
  ASSUME Bounds, StoreInv, NEW c \in Calls, Probe(c)
  PROVE  StoreInv'
<1>1. PICK answering \in SUBSET installed :
        LET cli == GetActiveCli(answering) IN
          /\ calls' = [calls EXCEPT ![c].cli = cli,
                         ![c].step = IF cli = "fallback-file" THEN "read" ELSE "exec"]
          /\ flapped' = (flapped \/ cli # GetActiveCli(installed))
  BY DEF Probe
<1> DEFINE cli == GetActiveCli(answering)
           step == IF cli = "fallback-file" THEN "read" ELSE "exec"
           new == [calls[c] EXCEPT !.cli = cli, !.step = step]
<1>2. /\ calls[c].step = "probe" /\ calls \in [Calls -> Call] /\ calls[c] \in Call
      /\ UNCHANGED <<installed, reminders, file, now, disturbed>>
      /\ installed \in SUBSET {"remindctl", "apple-reminders-cli", "ekctl"}
      /\ CallOK(c) /\ flapped \in BOOLEAN
  BY DEF Probe, StoreInv, TodoTypeOK, CallsOK
<1>3. /\ cli \in {"remindctl", "apple-reminders-cli", "ekctl", "fallback-file"}
      /\ cli = "fallback-file" /\ cli = GetActiveCli(installed) => installed = {}
  BY <1>2, ActiveCli
<1>4. calls' = [calls EXCEPT ![c] = new] /\ flapped' = (flapped \/ cli # GetActiveCli(installed))
  BY <1>1, <1>2
<1> HIDE DEF cli
<1>5. /\ new \in Call /\ new.cli = cli /\ new.step = step /\ new.todos = calls[c].todos
      /\ new.before = calls[c].before /\ new.op = calls[c].op /\ new.target = calls[c].target
  BY <1>2, <1>3 DEF Call
<1> HIDE DEF new
<1>6. calls'[c] = new
  BY <1>2, <1>4
<1>7. Moves(c)
  BY <1>2, <1>4, <1>5, <1>6 DEF Moves, Begun
<1>8. calls[c].todos = {} /\ \A b \in calls[c].before : calls[b].step = "ok" /\ b \in Calls /\ b # c
  BY <1>2 DEF CallOK, Call
<1>9. \A b \in calls[c].before : calls'[b].step = "ok"
  BY <1>7, <1>8 DEF Moves
<1>10. CallOK(c)'
  BY <1>2, <1>3, <1>4, <1>5, <1>6, <1>8, <1>9 DEF CallOK, FromFile
<1>11. flapped' \in BOOLEAN
  BY <1>2, <1>4
<1>12. QED
  BY <1>2, <1>5, <1>6, <1>7, <1>8, <1>10, <1>11, StoresStay

\* A call that goes on carries what it carried.
LEMMA FinishShape ==
  ASSUME TodoTypeOK, NEW c \in Calls, NEW step \in {"exec", "write", "ok"}, Finish(c, step)
  PROVE  /\ calls' \in [Calls -> Call]
         /\ \A d \in Calls : d # c => calls'[d] = calls[d]
         /\ calls'[c].step = step /\ calls'[c].op = calls[c].op
         /\ calls'[c].target = calls[c].target /\ calls'[c].cli = calls[c].cli
         /\ calls'[c].todos = calls[c].todos /\ calls'[c].before = calls[c].before
<1> DEFINE new == [calls[c] EXCEPT !.step = step]
<1>1. calls \in [Calls -> Call] /\ calls[c] \in Call /\ calls' = [calls EXCEPT ![c] = new]
  BY DEF TodoTypeOK, Finish
<1>2. /\ new \in Call /\ new.step = step /\ new.op = calls[c].op /\ new.target = calls[c].target
      /\ new.todos = calls[c].todos /\ new.before = calls[c].before /\ new.cli = calls[c].cli
  BY <1>1 DEF Call
<1> HIDE DEF new
<1>3. QED
  BY <1>1, <1>2

\* The command is authorized, or gives up.
LEMMA ProbeAuthStep ==
  ASSUME Bounds, StoreInv, NEW c \in Calls, ProbeAuth(c)
  PROVE  StoreInv'
<1>1. /\ calls[c].step = "auth" /\ TodoTypeOK /\ CallOK(c) /\ calls[c] \in Call
      /\ UNCHANGED <<installed, reminders, file, now, disturbed, flapped>>
      /\ flapped \in BOOLEAN
  BY DEF ProbeAuth, StoreInv, TodoTypeOK, CallsOK
<1>2. CASE Lose(c, "refused")
  BY <1>1, <1>2, LostStep
<1>3. CASE Finish(c, "exec")
  <2>1. /\ calls' \in [Calls -> Call]
        /\ \A d \in Calls : d # c => calls'[d] = calls[d]
        /\ calls'[c].step = "exec" /\ calls'[c].op = calls[c].op
        /\ calls'[c].target = calls[c].target /\ calls'[c].cli = calls[c].cli
        /\ calls'[c].todos = calls[c].todos /\ calls'[c].before = calls[c].before
    BY <1>1, <1>3, FinishShape
  <2>2. Moves(c)
    BY <1>1, <2>1 DEF Moves
  <2>3. calls[c].todos = {} /\ \A b \in calls[c].before : calls[b].step = "ok" /\ b # c /\ b \in Calls
    BY <1>1 DEF CallOK, Call
  <2>4. CallOK(c)'
    BY <1>1, <2>1, <2>3 DEF CallOK, FromFile
  <2>5. QED
    BY <1>1, <2>1, <2>2, <2>3, <2>4, StoresStay
<1>4. QED
  BY <1>2, <1>3 DEF ProbeAuth

\* The binary fails.
LEMMA ExecFailsStep ==
  ASSUME Bounds, StoreInv, NEW c \in Calls, ExecFails(c)
  PROVE  StoreInv'
BY LostStep DEF ExecFails

\* Whatever two calls were answered came from one store, unless a probe failed.
LEMMA OneStore ==
  ASSUME StoreInv, NEW b \in Calls, calls[b].step = "ok", ~flapped
  PROVE  FromFile(b) <=> installed = {}
BY DEF StoreInv, CallsOK, CallOK

\* What c's binary has done is in the list in Apple Reminders.
LEMMA ExecStep ==
  ASSUME Bounds, StoreInv, NEW c \in Calls, Exec(c)
  PROVE  StoreInv'
<1>1. /\ calls[c].step = "exec" /\ calls[c].cli \in installed /\ TodoTypeOK
      /\ CallOK(c) /\ calls \in [Calls -> Call] /\ calls[c] \in Call
      /\ UNCHANGED <<installed, file, now, disturbed, flapped>>
      /\ reminders \subseteq Todo /\ \A e \in reminders : Legit(e)
      /\ disturbed \in BOOLEAN /\ flapped \in BOOLEAN
  BY DEF Exec, StoreInv, TodoTypeOK, CallsOK, LegitOK
<1>2. ~FromFile(c) /\ calls[c].todos = {} /\ calls[c].op \in {"list", "add", "complete"}
  BY <1>1 DEF CallOK, Call
<1>3. \A b \in calls[c].before : calls[b].step = "ok" /\ b # c /\ b \in Calls
  BY <1>1 DEF CallOK, Call
<1>4. file \in File /\ \A e \in file.entries : Legit(e)
  BY DEF StoreInv, TodoTypeOK, LegitOK
<1>5. CASE calls[c].op = "list"
  <2> DEFINE new == [calls[c] EXCEPT !.step = "ok", !.todos = reminders]
  <2>1. calls' = [calls EXCEPT ![c] = new] /\ reminders' = reminders
    BY <1>1, <1>5 DEF Exec
  <2>2. /\ new \in Call /\ new.step = "ok" /\ new.todos = reminders /\ new.op = "list"
        /\ new.target = calls[c].target /\ new.cli = calls[c].cli
        /\ new.before = calls[c].before
    BY <1>1, <1>5 DEF Call
  <2> HIDE DEF new
  <2>3. calls'[c] = new
    BY <1>1, <2>1
  <2>4. Moves(c)
    BY <1>1, <1>5, <2>1, <2>2, <2>3 DEF Moves
  <2>5. \A b \in calls[c].before : calls'[b] = calls[b]
    BY <1>3, <2>4 DEF Moves
  <2>6. CallOK(c)'
    BY <1>1, <1>2, <1>3, <2>2, <2>3, <2>5 DEF CallOK, FromFile
  <2>7. Sees(c)'
    <3>1. SUFFICES ASSUME NEW b \in calls[c].before, ~flapped \/ FromFile(b) = FromFile(c)
                   PROVE  /\ calls[b].op = "add" => \E e \in reminders : e.title = b
                          /\ calls[b].op = "complete" => calls[b].todos = {}
      BY <1>1, <2>2, <2>3, <2>5 DEF Sees, FromFile
    <3>2. calls[b].step = "ok" /\ b \in Calls /\ installed # {}
      BY <1>1, <1>3
    <3>3. ~FromFile(b)
      BY <1>2, <3>1, <3>2, OneStore
    <3>4. QED
      BY <3>2, <3>3 DEF StoreInv, CallsOK, CallOK
  <2>8. QED
    BY <1>1, <1>2, <2>1, <2>2, <2>3, <2>4, <2>6, <2>7, StoresStay DEF FromFile
<1>6. CASE calls[c].op = "add"
  <2> DEFINE entry == Entry(ReminderId(c), c)
             new == [calls[c] EXCEPT !.step = "ok", !.todos = {entry}]
  <2>1. calls' = [calls EXCEPT ![c] = new] /\ reminders' = reminders \union {entry}
    BY <1>1, <1>6 DEF Exec
  <2>2. entry \in Todo /\ entry.title = c /\ ~entry.done
    BY IdTypes DEF Entry, Todo
  <2> HIDE DEF entry
  <2>3. /\ new \in Call /\ new.step = "ok" /\ new.todos = {entry} /\ new.op = "add"
        /\ new.target = calls[c].target /\ new.cli = calls[c].cli
        /\ new.before = calls[c].before
    BY <1>1, <1>6, <2>2 DEF Call
  <2> HIDE DEF new
  <2>4. calls'[c] = new
    BY <1>1, <2>1
  <2>5. Moves(c)
    BY <1>1, <1>6, <2>1, <2>3, <2>4 DEF Moves
  <2>6. \A b \in calls[c].before : calls'[b] = calls[b]
    BY <1>3, <2>5 DEF Moves
  <2>7. CallOK(c)'
    BY <1>1, <1>2, <1>3, <2>1, <2>2, <2>3, <2>4, <2>6 DEF CallOK, FromFile
  <2>8. Legit(entry)
    BY <1>1, <1>6, <2>2 DEF Legit, Begun
  <2>9. FileOK'
    BY <1>1, <1>2, <2>3, <2>4, <2>5, FileStays DEF FromFile
  <2>10. QED
    BY <1>1, <1>4, <2>1, <2>2, <2>3, <2>4, <2>5, <2>7, <2>8, <2>9, OneMoves
<1>7. CASE calls[c].op = "complete"
  <2> DEFINE id == calls[c].target
  <2>1. Finish(c, "ok") /\ reminders' = {Marked(e, id) : e \in reminders}
    BY <1>1, <1>7 DEF Exec
  <2>2. /\ calls' \in [Calls -> Call]
        /\ \A d \in Calls : d # c => calls'[d] = calls[d]
        /\ calls'[c].step = "ok" /\ calls'[c].op = calls[c].op
        /\ calls'[c].target = calls[c].target /\ calls'[c].cli = calls[c].cli
        /\ calls'[c].todos = calls[c].todos /\ calls'[c].before = calls[c].before
    BY <1>1, <2>1, FinishShape
  <2>3. Moves(c)
    BY <1>1, <2>2 DEF Moves
  <2>4. \A b \in calls[c].before : calls'[b] = calls[b]
    BY <1>3, <2>3 DEF Moves
  <2>5. CallOK(c)'
    BY <1>1, <1>2, <1>3, <1>7, <2>2, <2>4 DEF CallOK, FromFile
  <2>6. \A e \in reminders : /\ Marked(e, id) \in Todo /\ Legit(Marked(e, id))
                             /\ Marked(e, id).title = e.title
    BY <1>1, <1>7, MarkedLegit DEF Begun
  <2>7. /\ reminders' \subseteq Todo /\ \A e \in reminders' : Legit(e)
        /\ \A e \in reminders : \E f \in reminders' : f.title = e.title
    BY <2>1, <2>6
  <2>8. FileOK'
    BY <1>1, <1>2, <2>2, <2>3, FileStays DEF FromFile
  <2>9. QED
    BY <1>1, <1>2, <1>4, <1>7, <2>2, <2>3, <2>5, <2>7, <2>8, OneMoves
<1>8. QED
  BY <1>2, <1>5, <1>6, <1>7

-----------------------------------------------------------------------------
(* The steps of a call that read and write the file.                         *)

\* An entry of the file is a todo some call added.
LEMMA FileEntries ==
  ASSUME StoreInv
  PROVE  file \in File /\ \A e \in file.entries : e \in Todo /\ Legit(e)
BY DEF StoreInv, TodoTypeOK, LegitOK, File

\* A list reads the file.
LEMMA ReadListStep ==
  ASSUME Bounds, StoreInv, NEW c \in Calls, Read(c), calls[c].op = "list"
  PROVE  StoreInv'
<1> DEFINE kept == IF file.state \in {"whole", "missing"} THEN calls[c].before ELSE {}
           new == [calls[c] EXCEPT !.todos = file.entries, !.step = "ok", !.before = kept]
<1>1. /\ calls[c].step = "read" /\ CallOK(c) /\ calls \in [Calls -> Call] /\ calls[c] \in Call
      /\ UNCHANGED <<installed, reminders, file, now, flapped>> /\ disturbed' = disturbed
      /\ disturbed \in BOOLEAN /\ flapped \in BOOLEAN
  BY DEF Read, StoreInv, TodoTypeOK, CallsOK
<1>2. file \in File /\ \A e \in file.entries : e \in Todo /\ Legit(e)
  BY FileEntries
<1>3. calls' = [calls EXCEPT ![c] = new]
  BY DEF Read
<1>4. kept \subseteq calls[c].before /\ kept \subseteq Calls
  BY <1>1 DEF Call
<1>5. /\ new \in Call /\ new.step = "ok" /\ new.todos = file.entries /\ new.op = "list"
      /\ new.target = calls[c].target /\ new.cli = calls[c].cli /\ new.before = kept
  <2> HIDE DEF kept
  <2>1. QED
    BY <1>1, <1>2, <1>4 DEF Call, File
<1> HIDE DEF new
<1>6. calls'[c] = new
  BY <1>1, <1>3
<1>7. Moves(c)
  BY <1>1, <1>3, <1>5, <1>6 DEF Moves
<1>8. \A b \in kept : calls[b].step = "ok" /\ b # c /\ calls'[b] = calls[b]
  BY <1>1, <1>4, <1>7 DEF CallOK, Moves
<1>9. FromFile(c)
  BY <1>1 DEF CallOK
<1>10. CallOK(c)'
  BY <1>1, <1>5, <1>6, <1>8, <1>9 DEF CallOK, FromFile
<1>11. ASSUME ~disturbed
       PROVE  Sees(c)'
  <2>1. SUFFICES ASSUME NEW b \in kept, ~flapped \/ FromFile(b) = FromFile(c)
                 PROVE  /\ calls[b].op = "add" => \E e \in file.entries : e.title = b
                        /\ calls[b].op = "complete" =>
                             \A e \in calls[b].todos : e.done => e \in file.entries
    BY <1>1, <1>5, <1>6, <1>8 DEF Sees, FromFile
  <2>2. calls[b].step = "ok" /\ b \in Calls
    BY <1>4, <1>8
  <2>3. FromFile(b)
    <3>1. ~flapped => installed = {}
      BY <1>1, <1>9 DEF CallOK
    <3>2. QED
      BY <1>9, <2>1, <2>2, <3>1, OneStore
  <2>4. file.state \in {"whole", "missing"} /\ file # Empty
    BY DEF Empty
  <2>5. \A d \in Calls : calls[d].step # "write"
    BY <1>11, <2>4 DEF StoreInv, FileOK
  <2>6. Holds(file.entries)
    BY <1>11, <2>5 DEF StoreInv, FileOK
  <2>7. QED
    BY <2>2, <2>3, <2>6 DEF Holds
<1>12. QED
  BY <1>1, <1>2, <1>5, <1>6, <1>7, <1>10, <1>11, StoresStay

\* Every answer there is stays, and so does what has everything answered.
LEMMA HoldsStays ==
  ASSUME NEW c \in Calls, Moves(c), calls'[c].step # "ok"
  PROVE  \A S : Holds(S) => HoldsNext(S)
BY HoldsMove

\* A call that will rewrite the file reads it and changes what it read.
LEMMA ReadChangeStep ==
  ASSUME Bounds, StoreInv, NEW c \in Calls, Read(c), calls[c].op # "list"
  PROVE  StoreInv'
<1> DEFINE kept == IF file.state \in {"whole", "missing"} THEN calls[c].before ELSE {}
           todos == Changed(c, file.entries)
           new == [calls[c] EXCEPT !.todos = todos, !.step = "open", !.before = kept]
<1>1. /\ calls[c].step = "read" /\ CallOK(c) /\ calls \in [Calls -> Call] /\ calls[c] \in Call
      /\ UNCHANGED <<installed, reminders, file, now, flapped>>
      /\ disturbed' = (disturbed \/ Rewriting # {})
      /\ disturbed \in BOOLEAN /\ flapped \in BOOLEAN /\ now \in Nat
      /\ reminders \subseteq Todo /\ \A e \in reminders : Legit(e)
  BY DEF Read, StoreInv, TodoTypeOK, CallsOK, LegitOK
<1>2. file \in File /\ \A e \in file.entries : e \in Todo /\ Legit(e)
  BY FileEntries
<1>3. calls' = [calls EXCEPT ![c] = new]
  BY DEF Read
<1>4. kept \subseteq calls[c].before /\ kept \subseteq Calls
  BY <1>1 DEF Call
<1>5. calls[c].op \in {"add", "complete"} /\ Begun(c) /\ FromFile(c)
  BY <1>1 DEF Call, Begun, CallOK
<1>6. /\ \A e \in todos : e \in Todo /\ Legit(e)
      /\ calls[c].op = "add" => \E e \in todos : e.title = c
      /\ \A e \in file.entries : \E f \in todos : f.title = e.title
      /\ \A e \in file.entries : e.done => e \in todos
  <2>1. CASE calls[c].op = "add"
    <3> DEFINE entry == Entry(LocalId(now), c)
    <3>1. entry \in Todo /\ entry.title = c /\ ~entry.done
      BY <1>1 DEF Entry, LocalId, Todo
    <3>2. todos = file.entries \union {entry}
      BY <2>1 DEF Changed, WithNew
    <3> HIDE DEF entry
    <3>3. Legit(entry)
      BY <1>5, <2>1, <3>1 DEF Legit
    <3> HIDE DEF todos
    <3>4. QED
      BY <1>2, <3>1, <3>2, <3>3
  <2>2. CASE calls[c].op = "complete"
    <3> DEFINE id == calls[c].target
    <3>1. todos = {Marked(e, id) : e \in file.entries}
      BY <2>2 DEF Changed
    <3>2. \A e \in file.entries : /\ Marked(e, id) \in Todo /\ Legit(Marked(e, id))
                                  /\ Marked(e, id).title = e.title
                                  /\ e.done => Marked(e, id) = e
      BY <1>2, <1>5, <2>2, MarkedLegit, MarkedType
    <3> HIDE DEF todos
    <3>3. QED
      BY <2>2, <3>1, <3>2
  <2>3. QED
    BY <1>5, <2>1, <2>2
<1>7. /\ new \in Call /\ new.step = "open" /\ new.todos = todos /\ new.op = calls[c].op
      /\ new.target = calls[c].target /\ new.cli = calls[c].cli /\ new.before = kept
  <2> HIDE DEF kept, todos
  <2>1. QED
    BY <1>1, <1>4, <1>6 DEF Call
<1> HIDE DEF new, todos, kept
<1>8. calls'[c] = new
  BY <1>1, <1>3
<1>9. Moves(c)
  BY <1>1, <1>3, <1>7, <1>8 DEF Moves
<1>10. \A b \in kept : calls[b].step = "ok" /\ b # c /\ calls'[b] = calls[b]
  BY <1>1, <1>4, <1>9 DEF CallOK, Moves
<1>11. CallOK(c)'
  BY <1>1, <1>5, <1>6, <1>7, <1>8, <1>10 DEF CallOK, FromFile
<1>12. FileOK'
  <2>1. SUFFICES ASSUME ~disturbed, Rewriting = {}
                 PROVE  FileOK'
    BY <1>1 DEF FileOK
  <2>2. \A d \in Calls : calls[d].step \notin {"open", "write"}
    BY <2>1 DEF Rewriting
  <2>3. file.state \in {"whole", "missing"} /\ Holds(file.entries)
    BY <2>1, <2>2 DEF StoreInv, FileOK
  <2>4. Rewriting' = {c} /\ \A d \in Calls : calls'[d].step # "write"
    BY <1>7, <1>8, <1>9, <2>2 DEF Rewriting, Moves
  <2>5. Holds(todos)
    BY <1>6, <2>3 DEF Holds
  <2>6. HoldsNext(todos) /\ HoldsNext(file.entries)
    BY <1>7, <1>8, <1>9, <2>3, <2>5, HoldsStays
  <2>7. Holds(calls[c].todos)' /\ Holds(file.entries)'
    BY <1>1, <1>7, <1>8, <2>6 DEF Holds, HoldsNext, FromFile
  <2>8. QED
    BY <1>1, <2>3, <2>4, <2>7 DEF FileOK
<1>13. \A e \in reminders : \E f \in reminders' : f.title = e.title
  BY <1>1
<1>14. QED
  BY <1>1, <1>2, <1>6, <1>7, <1>8, <1>9, <1>11, <1>12, <1>13, OneMoves

\* A call is lost: the file is in order if it had not been truncated.
LEMMA LostOnFile ==
  ASSUME Bounds, StoreInv, NEW c \in Calls, NEW step \in {"failed", "refused", "dead"},
         Lose(c, step), calls[c].step \in {"open", "write"},
         UNCHANGED <<installed, reminders, now, flapped>>,
         file' \in File, \A e \in file'.entries : Legit(e),
         disturbed' \in BOOLEAN, disturbed => disturbed',
         ~disturbed' => calls[c].step = "open" /\ file' = file
  PROVE  StoreInv'
<1>1. /\ calls' \in [Calls -> Call]
      /\ \A d \in Calls : d # c => calls'[d] = calls[d]
      /\ calls'[c].step = step /\ calls'[c].op = calls[c].op
      /\ calls'[c].target = calls[c].target
      /\ calls'[c].todos = {} /\ calls'[c].before = {} /\ calls'[c].cli = "remindctl"
  BY LoseShape DEF StoreInv
<1>2. Moves(c)
  BY <1>1 DEF Moves
<1>3. CallOK(c)'
  BY <1>1 DEF CallOK, FromFile
<1>4. flapped' \in BOOLEAN /\ reminders' \subseteq Todo /\ \A e \in reminders' : Legit(e)
  BY DEF StoreInv, TodoTypeOK, LegitOK
<1>5. FileOK'
  <2>1. SUFFICES ASSUME ~disturbed', ~disturbed, calls[c].step = "open", file' = file
                 PROVE  FileOK'
    BY DEF FileOK
  <2>2. c \in Rewriting
    BY <2>1 DEF Rewriting
  <2>3. \A d \in Calls : d # c => calls[d].step \notin {"open", "write"}
    BY <2>1, <2>2 DEF StoreInv, FileOK, Rewriting
  <2>4. file.state \in {"whole", "missing"} /\ Holds(file.entries)
    BY <2>1, <2>3 DEF StoreInv, FileOK
  <2>5. Rewriting' = {}
    BY <1>1, <2>3 DEF Rewriting
  <2>6. HoldsNext(file.entries)
    BY <1>1, <1>2, <2>4, HoldsStays
  <2>7. Holds(file.entries)'
    BY <2>1, <2>6 DEF Holds, HoldsNext, FromFile
  <2>8. \A d \in Calls : calls'[d].step # "write"
    BY <2>5 DEF Rewriting
  <2>9. QED
    BY <2>1, <2>4, <2>5, <2>7, <2>8 DEF FileOK
<1>6. \A e \in reminders : \E f \in reminders' : f.title = e.title
  OBVIOUS
<1>7. QED
  BY <1>1, <1>2, <1>3, <1>4, <1>5, <1>6, OneMoves

\* writeFile truncates the file, or cannot open it.
LEMMA OpenStep ==
  ASSUME Bounds, StoreInv, NEW c \in Calls, Open(c)
  PROVE  StoreInv'
<1>1. /\ calls[c].step = "open" /\ CallOK(c) /\ TodoTypeOK /\ calls[c] \in Call
      /\ UNCHANGED <<installed, reminders, now, disturbed, flapped>>
      /\ disturbed \in BOOLEAN /\ flapped \in BOOLEAN
      /\ reminders \subseteq Todo /\ \A e \in reminders : Legit(e)
  BY DEF Open, StoreInv, TodoTypeOK, CallsOK, LegitOK
<1>2. file \in File /\ \A e \in file.entries : e \in Todo /\ Legit(e)
  BY FileEntries
<1>3. CASE file' = file /\ Lose(c, "failed")
  BY <1>1, <1>2, <1>3, LostOnFile
<1>4. CASE file' = Empty /\ Finish(c, "write")
  <2>1. /\ calls' \in [Calls -> Call]
        /\ \A d \in Calls : d # c => calls'[d] = calls[d]
        /\ calls'[c].step = "write" /\ calls'[c].op = calls[c].op
        /\ calls'[c].target = calls[c].target /\ calls'[c].cli = calls[c].cli
        /\ calls'[c].todos = calls[c].todos /\ calls'[c].before = calls[c].before
    BY <1>1, <1>4, FinishShape
  <2>2. Moves(c)
    BY <1>1, <2>1 DEF Moves
  <2>3. \A b \in calls[c].before : calls[b].step = "ok" /\ b # c /\ calls'[b] = calls[b]
    BY <1>1, <2>2 DEF CallOK, Call, Moves
  <2>4. CallOK(c)'
    BY <1>1, <2>1, <2>3 DEF CallOK, FromFile
  <2>5. Empty \in File /\ Empty.entries = {}
    BY DEF Empty, File
  <2>6. FileOK'
    <3>1. SUFFICES ASSUME ~disturbed
                   PROVE  FileOK'
      BY <1>1 DEF FileOK
    <3>2. c \in Rewriting
      BY <1>1 DEF Rewriting
    <3>3. Holds(calls[c].todos) /\ \A d \in Rewriting : d = c
      BY <3>1, <3>2 DEF StoreInv, FileOK
    <3>4. HoldsNext(calls[c].todos)
      BY <2>1, <2>2, <3>3, HoldsStays
    <3>5. Holds(calls[c].todos)'
      BY <2>1, <3>4 DEF Holds, HoldsNext, FromFile
    <3>6. Rewriting' = {c}
      BY <2>1, <3>3 DEF Rewriting
    <3>7. QED
      BY <1>4, <2>1, <3>5, <3>6 DEF FileOK
  <2>7. \A e \in calls[c].todos : Legit(e)
    BY DEF StoreInv, LegitOK
  <2>8. \A e \in reminders : \E f \in reminders' : f.title = e.title
    BY <1>1
  <2>9. QED
    BY <1>1, <1>4, <2>1, <2>2, <2>4, <2>5, <2>6, <2>7, <2>8, OneMoves
<1>5. QED
  BY <1>3, <1>4 DEF Open

\* The bytes are in the file and the call is answered.
LEMMA WriteStep ==
  ASSUME Bounds, StoreInv, NEW c \in Calls, Write(c)
  PROVE  StoreInv'
<1>1. /\ calls[c].step = "write" /\ CallOK(c) /\ TodoTypeOK /\ calls[c] \in Call
      /\ UNCHANGED <<installed, reminders, now, disturbed, flapped>>
      /\ disturbed \in BOOLEAN /\ flapped \in BOOLEAN
      /\ reminders \subseteq Todo /\ \A e \in reminders : Legit(e)
      /\ Finish(c, "ok")
  BY DEF Write, StoreInv, TodoTypeOK, CallsOK, LegitOK
<1>2. file' = Whole(calls[c].todos) \/ (file # Empty /\ file' = Garbage)
  BY DEF Write
<1>3. \A e \in calls[c].todos : e \in Todo /\ Legit(e)
  BY <1>1 DEF StoreInv, LegitOK, Call
<1>4. file' \in File /\ \A e \in file'.entries : Legit(e)
  BY <1>2, <1>3 DEF Whole, Garbage, File
<1>5. /\ calls' \in [Calls -> Call]
      /\ \A d \in Calls : d # c => calls'[d] = calls[d]
      /\ calls'[c].step = "ok" /\ calls'[c].op = calls[c].op
      /\ calls'[c].target = calls[c].target /\ calls'[c].cli = calls[c].cli
      /\ calls'[c].todos = calls[c].todos /\ calls'[c].before = calls[c].before
  BY <1>1, FinishShape
<1>6. Moves(c)
  BY <1>1, <1>5 DEF Moves
<1>7. \A b \in calls[c].before : calls[b].step = "ok" /\ b # c /\ calls'[b] = calls[b]
  BY <1>1, <1>6 DEF CallOK, Call, Moves
<1>8. FromFile(c) /\ calls[c].op # "list"
  BY <1>1 DEF CallOK
<1>9. CallOK(c)'
  BY <1>1, <1>5, <1>7, <1>8 DEF CallOK, FromFile
<1>10. FileOK'
  <2>1. SUFFICES ASSUME ~disturbed
                 PROVE  FileOK'
    BY <1>1 DEF FileOK
  <2>2. c \in Rewriting
    BY <1>1 DEF Rewriting
  <2>3. file = Empty /\ Holds(calls[c].todos) /\ \A d \in Rewriting : d = c
    BY <1>1, <2>1, <2>2 DEF StoreInv, FileOK
  <2>4. file' = Whole(calls[c].todos)
    BY <1>2, <2>3
  <2>5. calls[c].op = "add" => \E e \in calls[c].todos : e.title = c
    BY <1>1, <1>8 DEF CallOK
  <2>6. HoldsNext(calls[c].todos)
    BY <1>5, <1>6, <2>3, <2>5, HoldsMove
  <2>7. file'.state = "whole" /\ file'.entries = calls[c].todos
    BY <2>4 DEF Whole
  <2>8. Holds(file.entries)'
    BY <2>6, <2>7 DEF Holds, HoldsNext, FromFile
  <2>9. Rewriting' = {} /\ \A d \in Calls : calls'[d].step # "write"
    BY <1>5, <2>3 DEF Rewriting
  <2>10. QED
    BY <2>7, <2>8, <2>9 DEF FileOK
<1>11. \A e \in reminders : \E f \in reminders' : f.title = e.title
  BY <1>1
<1>12. QED
  BY <1>1, <1>3, <1>4, <1>5, <1>6, <1>8, <1>9, <1>10, <1>11, OneMoves

\* The disk is full: what is in the file is nobody's promise any more.
LEMMA WriteFailsStep ==
  ASSUME Bounds, StoreInv, NEW c \in Calls, WriteFails(c)
  PROVE  StoreInv'
<1>1. Garbage \in File /\ Garbage.entries = {}
  BY DEF Garbage, File
<1>2. file' \in File /\ \A e \in file'.entries : Legit(e)
  BY <1>1, FileEntries DEF WriteFails
<1>3. QED
  BY <1>2, LostOnFile DEF WriteFails

\* The calling process ends.
LEMMA KilledStep ==
  ASSUME Bounds, StoreInv, NEW c \in Calls, Killed(c)
  PROVE  StoreInv'
<1>1. /\ Lose(c, "dead") /\ UNCHANGED <<installed, reminders, file, now, flapped>>
      /\ disturbed' = (disturbed \/ calls[c].step = "write")
      /\ disturbed \in BOOLEAN
  BY DEF Killed, StoreInv, TodoTypeOK
<1>2. CASE calls[c].step \in {"probe", "auth", "exec", "read"}
  <2>1. disturbed' = disturbed
    BY <1>1, <1>2
  <2>2. QED
    BY <1>1, <1>2, <2>1, LostStep
<1>3. CASE calls[c].step \in {"open", "write"}
  <2>1. file' \in File /\ \A e \in file'.entries : Legit(e)
    BY <1>1, FileEntries
  <2>2. /\ disturbed' \in BOOLEAN /\ disturbed => disturbed'
        /\ ~disturbed' => calls[c].step = "open" /\ file' = file
    BY <1>1, <1>3
  <2>3. QED
    BY <1>1, <1>3, <2>1, <2>2, LostOnFile
<1>4. QED
  BY <1>2, <1>3 DEF Killed

-----------------------------------------------------------------------------
(* The theorems.                                                             *)

\* No call has begun and there is no todo yet.
LEMMA StoreStart == Bounds /\ Init => StoreInv
<1> SUFFICES ASSUME Bounds, Init
             PROVE  StoreInv
  OBVIOUS
<1>1. /\ \A c \in Calls : calls[c] = NoCall
      /\ calls \in [Calls -> Call]
  BY NoCallType DEF Init
<1>2. \A c \in Calls : /\ calls[c].step = "idle" /\ calls[c].todos = {} /\ calls[c].before = {}
                       /\ calls[c].cli = "remindctl"
  BY <1>1 DEF NoCall
<1>3. TodoTypeOK
  <2>1. Missing \in File
    BY DEF Missing, File
  <2>2. installed \subseteq {"remindctl", "apple-reminders-cli", "ekctl"}
    BY DEF Init, Bounds
  <2>3. QED
    BY <1>1, <2>1, <2>2 DEF Init, TodoTypeOK
<1>4. LegitOK /\ CallsOK
  BY <1>2 DEF Init, LegitOK, CallsOK, CallOK, FromFile, Missing
<1>5. FileOK
  BY <1>2 DEF Init, FileOK, Missing, Holds, Rewriting
<1>6. ReadsItsWrites
  BY <1>2 DEF ReadsItsWrites, Ended
<1>7. QED
  BY <1>3, <1>4, <1>5, <1>6 DEF StoreInv

\* Time passes, or nothing happens.
LEMMA StoreIdles ==
  ASSUME StoreInv, now' \in Nat,
         UNCHANGED <<installed, reminders, file, calls, disturbed, flapped>>
  PROVE  StoreInv'
<1>1. TodoTypeOK'
  BY DEF StoreInv, TodoTypeOK
<1>2. LegitOK' /\ CallsOK'
  BY DEF StoreInv, LegitOK, Legit, Begun, CallsOK, CallOK, FromFile
<1>3. FileOK'
  BY DEF StoreInv, FileOK, Holds, FromFile, Rewriting
<1>4. ReadsItsWrites'
  BY DEF StoreInv, ReadsItsWrites, Ended, FromFile
<1>5. QED
  BY <1>1, <1>2, <1>3, <1>4 DEF StoreInv

\* Every step keeps the invariant.
LEMMA StoreStep == Bounds /\ StoreInv /\ [Next]_vars => StoreInv'
<1> SUFFICES ASSUME Bounds, StoreInv, [Next]_vars
             PROVE  StoreInv'
  OBVIOUS
<1>1. CASE Tick \/ UNCHANGED vars
  <2>1. now \in Nat
    BY DEF StoreInv, TodoTypeOK
  <2>2. now' \in Nat /\ UNCHANGED <<installed, reminders, file, calls, disturbed, flapped>>
    BY <1>1, <2>1 DEF Tick, vars
  <2>3. QED
    BY <2>2, StoreIdles
<1>2. ASSUME NEW c \in Calls, Read(c)
      PROVE  StoreInv'
  BY <1>2, ReadListStep, ReadChangeStep
<1>3. QED
  BY <1>1, <1>2, StartStep, ProbeStep, ProbeAuthStep, ExecStep, ExecFailsStep, OpenStep,
     WriteStep, WriteFailsStep, KilledStep DEF Next

\* The invariant says that nothing is made up.
LEMMA LegitIsEnough == StoreInv => NothingMadeUp
<1>1. StoreInv => \A e \in reminders \union file.entries
                           \union UNION {calls[c].todos : c \in Calls} : Legit(e)
  BY DEF StoreInv, LegitOK
<1>2. QED
  BY <1>1 DEF NothingMadeUp, Legit

\* The inductive invariant of the calls and of the two stores.
THEOREM StoreInvariant == Bounds /\ Spec => []StoreInv
<1>1. Bounds => Bounds'
  BY DEF Bounds
<1>2. QED
  BY <1>1, StoreStart, StoreStep, PTL DEF Spec

\* A list shows what was added and completed before it began, by whichever
\* caller, unless rewrites overlapped or were cut off or a probe failed.
THEOREM ListsAreCurrent == Bounds /\ Spec => []ReadsItsWrites
<1>1. StoreInv => ReadsItsWrites
  BY DEF StoreInv
<1>2. QED
  BY <1>1, StoreInvariant, PTL

\* Nothing is in a store or a list that no call has added, and nothing is done
\* that no call has completed, whatever overlaps, fails or is killed.
THEOREM TodosAreReal == Bounds /\ Spec => []NothingMadeUp
BY LegitIsEnough, StoreInvariant, PTL
===============================================================================
