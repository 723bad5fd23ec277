------------------------------ MODULE Transcript ------------------------------
(* deriveRefinedStatus (src/src/sessions/refinedStatus.ts) reading, with the  *)
(* helpers of src/src/jsonl/parser.ts, a JSONL transcript that a running      *)
(* session appends to: two reads of the file's tail and a stat, each at a     *)
(* moment of its own.  A line may be on disk in part only, and a read may     *)
(* fail.  The session has a transcript, and it stays where it is: one without *)
(* is idle (line 33), and only the stat of a file that was removed fails.     *)
EXTENDS Naturals, Sequences, SequencesExt

CONSTANTS Tools,       \* tool_use ids
          Window,      \* lines that fit in the 256 KB tail
          Threshold,   \* IDLE_THRESHOLD_MS, in units of time
          MaxDerive,   \* a derivation takes no longer than this
          MaxLines,    \* bound: length of the transcript
          MaxFailures  \* bound: reads that fail

\* No line is longer than the tail.
ASSUME WindowAssumption == Window \in Nat \ {0}
ASSUME BoundAssumption == MaxLines \in Nat /\ MaxFailures \in Nat
ASSUME TimeAssumption == Threshold \in Nat /\ MaxDerive \in Nat /\ MaxDerive < Threshold

VARIABLES lines,    \* the complete lines of the file
          partial,  \* a line that has been written only in part, or NoLine
          age,      \* time since the last write, up to Threshold
          reader,   \* the derivation: its step and what it has read
          verdict,  \* the status derived last
          failures  \* counter for the bound

vars == <<lines, partial, age, reader, verdict, failures>>

\* Assistant turns that call a tool, that end the turn or that go on, with a
\* text that may ask for an approval; user turns with a tool's result and others.
Line == [kind : {"use", "result"}, tool : Tools] \union
        [kind : {"end", "more"}, asks : BOOLEAN] \union
        [kind : {"user"}]
NoLine == [kind |-> "none"]

Reader == [step : 0..3, last : {"none", "end", "other"}, pending : SUBSET Tools,
           fresh : BOOLEAN, spent : 0..MaxDerive]
Rest == [step |-> 0, last |-> "none", pending |-> {}, fresh |-> FALSE, spent |-> 0]
Status == {"tool_pending", "awaiting_user_input", "working", "idle"}

\* Shapes; nothing is left over from a derivation that is done.
TypeOK ==
  /\ lines \in Seq(Line)
  /\ partial \in Line \union {NoLine}
  /\ age \in 0..Threshold
  /\ reader \in Reader
  /\ verdict \in Status \union {"none"}
  /\ failures \in 0..MaxFailures
  /\ reader.step = 0 => reader = Rest

Init ==
  /\ lines = <<>> /\ partial = NoLine
  /\ age = 0
  /\ reader = Rest
  /\ verdict = "none"
  /\ failures = 0

-----------------------------------------------------------------------------
Used(s) == {l.tool : l \in {m \in ToSet(s) : m.kind = "use"}}
Answered(s) == {l.tool : l \in {m \in ToSet(s) : m.kind = "result"}}

\* What a session writes next: the result of a tool that was called, the end
\* of a turn when none is open, anything else at any time.
Possible(l) ==
  CASE l.kind = "use" -> l.tool \notin Used(lines)
    [] l.kind = "result" -> l.tool \in Used(lines) \ Answered(lines)
    [] l.kind = "end" -> Used(lines) \subseteq Answered(lines)
    [] OTHER -> TRUE

\* The session appends a line, at one go or in two writes.
Write ==
  /\ age' = 0
  /\ \/ /\ partial = NoLine /\ Len(lines) < MaxLines
        /\ \E l \in Line :
             /\ Possible(l)
             /\ \/ lines' = Append(lines, l) /\ UNCHANGED partial
                \/ partial' = l /\ UNCHANGED lines
     \/ partial # NoLine /\ lines' = Append(lines, partial) /\ partial' = NoLine
  /\ UNCHANGED <<reader, verdict, failures>>

\* Time passes, for the file and for a derivation that is under way.
Tick ==
  /\ age < Threshold \/ reader.step # 0
  /\ age' = IF age < Threshold THEN age + 1 ELSE age
  /\ \/ reader.step = 0 /\ UNCHANGED reader
     \/ /\ reader.step # 0 /\ reader.spent < MaxDerive
        /\ reader' = [reader EXCEPT !.spent = @ + 1]
  /\ UNCHANGED <<lines, partial, verdict, failures>>

-----------------------------------------------------------------------------
\* Mutant: the window is at the beginning of the file.
HeadLines(s) == SubSeq(s, 1, IF Len(s) < Window THEN Len(s) ELSE Window)
\* The trailing bytes: lines that the window cuts, or that are not complete,
\* do not parse and are skipped.
TailLines(s) == SubSeq(s, IF Len(s) < Window THEN 1 ELSE Len(s) - Window + 1, Len(s))

\* readJsonlTailLines resolves to t: a file that cannot be opened or read now
\* is like an empty one.
ReadTail(t) ==
  \/ t = TailLines(lines) /\ UNCHANGED failures
  \/ t = <<>> /\ failures < MaxFailures /\ failures' = failures + 1
Tails == {TailLines(lines), <<>>}

\* The places of the assistant's lines.
Turns(s) == {i \in DOMAIN s : s[i].kind \in {"use", "end", "more"}}
StopReason(turn) == IF turn.kind = "end" THEN "end" ELSE "other"

\* Mutant: the tail is walked forwards.
FirstAssistantTurn(s) ==
  IF Turns(s) = {} THEN "none" ELSE StopReason(s[Min(Turns(s))])
\* extractLastAssistantTurn: the stop_reason of the last assistant line.
LastAssistantTurn(s) ==
  IF Turns(s) = {} THEN "none" ELSE StopReason(s[Max(Turns(s))])

\* extractPendingToolUses: every call of the tail that has no result in it.
PendingToolUses(s) == Used(s) \ Answered(s)

\* Mutant: the file's age is taken first.
OrderStatFirst == <<"stat", "last", "pending">>
Order == <<"last", "pending", "stat">>
At(what) == reader.step # 0 /\ Order[reader.step] = what

Derive ==
  /\ reader.step = 0
  /\ reader' = [Rest EXCEPT !.step = 1]
  /\ UNCHANGED <<lines, partial, age, verdict, failures>>

\* The chain of ifs.  "crashed" needs opts.pidAlive, which no caller passes.
Verdict(r) ==
  IF r.pending # {} THEN "tool_pending"
  ELSE IF r.last = "end" /\ ~r.fresh THEN "awaiting_user_input"
  ELSE IF r.fresh THEN "working" ELSE "idle"

\* Mutant: what was read is kept for the next derivation.
KeptAfter(r) == [r EXCEPT !.step = 0]
\* Everything read is local to the call.
ClearedAfter(r) == Rest

\* Go on to the next read, or return.
Advance(r) ==
  IF r.step = Len(Order)
  THEN reader' = ClearedAfter(r) /\ verdict' = Verdict(r)
  ELSE reader' = [r EXCEPT !.step = @ + 1] /\ UNCHANGED verdict

ReadLast ==
  /\ At("last")
  /\ \E t \in Tails :
       ReadTail(t) /\ Advance([reader EXCEPT !.last = LastAssistantTurn(t)])
  /\ UNCHANGED <<lines, partial, age>>

ReadPending ==
  /\ At("pending")
  /\ \E t \in Tails :
       ReadTail(t) /\ Advance([reader EXCEPT !.pending = PendingToolUses(t)])
  /\ UNCHANGED <<lines, partial, age>>

\* `if (pending.length > 0) return` comes before the stat.
ReturnPending ==
  /\ At("stat") /\ reader.pending # {}
  /\ reader' = ClearedAfter(reader)
  /\ verdict' = "tool_pending"
  /\ UNCHANGED <<lines, partial, age, failures>>

ReadStat ==
  /\ At("stat") /\ reader.pending = {}
  /\ Advance([reader EXCEPT !.fresh = age < Threshold])
  /\ UNCHANGED <<lines, partial, age, failures>>

Next == Write \/ Tick \/ Derive \/ ReadLast \/ ReadPending \/ ReturnPending \/ ReadStat

\* Somebody polls, reads come back, time passes; the session may stop writing.
Spec ==
  /\ Init /\ [][Next]_vars
  /\ WF_vars(Tick) /\ WF_vars(Derive)
  /\ WF_vars(ReadLast \/ ReadPending \/ ReturnPending \/ ReadStat)
-----------------------------------------------------------------------------
\* refinedStatus.ts:15-16: a session is reported as waiting for its user only
\* if, at that very moment, its transcript ends in a finished turn and no tool
\* is open, although the turn and the tools were read earlier and apart, and
\* either read may have failed.
AwaitingIsCurrent ==
  [][reader.step # 0 /\ reader'.step = 0 /\ verdict' = "awaiting_user_input" =>
       /\ LastAssistantTurn(lines) = "end"
       /\ PendingToolUses(lines) = {}]_vars

\* A tool found pending really was: no window onto the file and no line that
\* is half written makes an answered call look open.
PendingIsReal ==
  [][reader'.pending # reader.pending =>
       reader'.pending \subseteq PendingToolUses(lines)]_vars

\* A session that has finished its turn for good is reported as waiting, once
\* reads stop failing.
FinishedIsNoticed ==
  <>[](Len(lines) > 0 /\ lines[Len(lines)].kind = "end" /\ partial = NoLine)
    => <>[](verdict = "awaiting_user_input")
===============================================================================
