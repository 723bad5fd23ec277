------------------------------ MODULE AuditTail ------------------------------
(* The three readers of the audit log: GET /audit, the MCP tool audit_tail    *)
(* and `agent-conductor audit`.  Each reads audit.jsonl in one go, skips what *)
(* is not yet a line, and shows a tail of it; archives are not read.          *)
EXTENDS AuditLog, Integers

\* The default, which also stands for a `tail` that is not a number.
DefaultTail == 20
\* The `tail` argument of a request, bounded.
Tails == (-1)..(MaxCalls + 1) \union {DefaultTail}

\* Mutant: the entries are counted from the front.
SliceFront(s, n) == SubSeq(s, 1, IF n \in 0..Len(s) THEN n ELSE Len(s))
\* entries.slice(-n): the last n; all of them for 0; without the first for -1.
Slice(s, n) ==
  IF n > 0 THEN SubSeq(s, IF Len(s) < n THEN 1 ELSE Len(s) - n + 1, Len(s))
  ELSE SubSeq(s, 1 - n, Len(s))

\* Number.isFinite(tail) && tail > 0 ? Math.floor(tail) : 20
HandleAudit(tail) == Slice(file, IF tail > 0 THEN tail ELSE DefaultTail)

\* numberArg(args, "tail") ?? 20
AuditTailTool(tail) == Slice(file, tail)

\* flagInt(args, "tail") ?? 20
AuditCmd(tail) == Slice(file, tail)

Views == UNION {{HandleAudit(t), AuditTailTool(t), AuditCmd(t)} : t \in Tails}

\* commands/audit.ts:13 "Show the tail of the audit log": whatever is asked for,
\* through rotations, failures and restarts, a reader sees calls in the order
\* in which they were made, each once, and nothing newer is left out.
TailIsNewest ==
  \A view \in Views :
    /\ \A i, j \in DOMAIN view : i < j => view[i] < view[j]
    /\ view # <<>> => {e \in written : e >= Head(view)} = Lines(view)
==============================================================================
