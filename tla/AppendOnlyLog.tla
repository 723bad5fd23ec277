---------------------------- MODULE AppendOnlyLog ----------------------------
(* What a caller of appendAudit may count on, with the file system left out: *)
(* calls are taken in the order they were made, each one is either added at  *)
(* the end of the log or given up, and a line that is in the log stays there *)
(* in its place.  Entry number i is the i-th call.                           *)
EXTENDS Naturals, Sequences

CONSTANT MaxCalls   \* bound on the calls a run makes

VARIABLES calls,    \* number of calls made so far
          waiting,  \* calls not yet settled, in call order
          log       \* the lines a reader of the log can reach, oldest first

logVars == <<calls, waiting, log>>

LogInit == calls = 0 /\ waiting = <<>> /\ log = <<>>

Call == /\ calls < MaxCalls
        /\ calls' = calls + 1
        /\ waiting' = Append(waiting, calls + 1)
        /\ UNCHANGED log

Commit == /\ waiting # <<>>
          /\ log' = Append(log, Head(waiting))
          /\ waiting' = Tail(waiting)
          /\ UNCHANGED calls

GiveUp == /\ waiting # <<>>
          /\ waiting' = Tail(waiting)
          /\ UNCHANGED <<calls, log>>

\* The process ends with calls still queued.
Abandon == waiting' = <<>> /\ UNCHANGED <<calls, log>>

LogNext == Call \/ Commit \/ GiveUp \/ Abandon

\* What is written and when; and that a call is not forgotten.
LogSafety == LogInit /\ [][LogNext]_logVars
LogSpec == LogSafety /\ WF_logVars(Commit \/ GiveUp)
=============================================================================
