-------------------------- MODULE AuditLogRefinement --------------------------
(* One process's audit log implements AppendOnlyLog: the log of the abstract  *)
(* specification is all archives in the order of their time stamps, then the  *)
(* live file.                                                                 *)
EXTENDS AuditLog

\* The archives by name, and the live file after them.
Files == archives \union {[at |-> now + 1, lines |-> file]}

\* The lines somebody finds who reads all files.
Found == UNION {Lines(f.lines) : f \in Files}

\* Whoever reads the files in the order of their names meets e before f.
MetBefore(e, f) ==
  \E a, b \in Files : \E i \in DOMAIN a.lines, j \in DOMAIN b.lines :
    /\ a.lines[i] = e /\ b.lines[j] = f
    /\ a.at < b.at \/ (a = b /\ i < j)

\* The lines before which n others are met.
After(n) == {e \in Found : Cardinality({f \in Found : MetBefore(f, e)}) = n}

\* Everything a reader finds, in the order in which it is met.
Retained == [i \in 1..Cardinality(Found) |-> CHOOSE e \in After(i - 1) : TRUE]

TheWriter == CHOOSE p \in Procs : TRUE

Abstract == INSTANCE AppendOnlyLog
              WITH waiting <- queue[TheWriter], log <- Retained

\* Rotation is invisible: with one writer the file and its archives behave as
\* one log that only grows, in call order, with lines dropped but never moved.
ImplementsLog == Abstract!LogSpec
==============================================================================
