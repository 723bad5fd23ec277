------------------------------- MODULE McpServer -------------------------------
(* The MCP server of src/src/mcp: lines of JSON-RPC on stdin, answers on      *)
(* stdout, every request dispatched as soon as its line is read, whatever is  *)
(* still running.  What needs no I/O is answered in the microtasks that       *)
(* follow the chunk of input; a tool that awaits something is answered when   *)
(* it ends; the process exits on EOF.  The inject tool is that of Inject.     *)
EXTENDS Inject, Sequences, SequencesExt

CONSTANTS Requests, \* ids of messages; those that may be inject calls are in Mcp
          MaxWork   \* bound: messages read and other calls begun

ASSUME RequestsAssumption == Requests \intersect Calls = Mcp /\ MaxWork \in Nat

VARIABLES received, \* every message read, and how it is to be answered
          soon,     \* dispatch() has its answer, which awaits a microtask
          later,    \* so do calls whose handler threw: one microtask more
          doomed,   \* a rejection that nobody handles is pending
          answers   \* what has been written to stdout

mcpVars == <<received, soon, later, doomed, answers>>
vars == <<injectVars, mcpVars>>

\* A result, a tool result with isError, or a JSON-RPC error.
Outcome == {"result", "isError", "error"}
Class == Outcome \union {"parse", "none", "refused", "crash", "tool", "sure", "inject"}
ReceivedIds == {received[i].id : i \in DOMAIN received}

\* Shapes; nothing is both waiting for a microtask and answered.
TypeOK ==
  /\ InjectTypeOK
  /\ \A m \in ToSet(received) : m.id \in Requests /\ m.class \in Class
  /\ \A a \in ToSet(answers) : a.id \in Requests /\ a.outcome \in Outcome
  /\ \A a \in ToSet(soon \o later) :
       a.id \in ReceivedIds /\ a.id \notin {b.id : b \in ToSet(answers)}
  /\ doomed \in BOOLEAN

McpInit ==
  /\ InjectInit
  /\ received = <<>> /\ soon = <<>> /\ later = <<>> /\ answers = <<>>
  /\ doomed = FALSE

Answer(r, outcome) == [id |-> r, outcome |-> outcome]
-----------------------------------------------------------------------------
(* The tools, by what a call with given arguments comes to: "refused" throws *)
(* before the handler's first await, "sure" gives a result after some I/O,   *)
(* "tool" a result or an error.                                              *)

\* discover() and buildSnapshot() swallow every failure of ps, lsof, git, tmux
\* and of the transcripts; only the provider's name can be wrong.
SnapshotTool(provider) == IF provider = "unknown" THEN "refused" ELSE "sure"
SessionsTool(provider) == IF provider = "unknown" THEN "refused" ELSE "sure"

\* readJsonlTailLines and extractLastAssistantTurn give nothing for a file
\* that cannot be read.
TranscriptTool(path) == IF path = "missing" THEN "refused" ELSE "sure"

\* remindctl may be missing, unauthorized, or give what JSON.parse rejects.
TodosListTool(list) == "tool"
TodosAddTool(title) == IF title = "missing" THEN "refused" ELSE "tool"
TodosCompleteTool(id) == IF id = "missing" THEN "refused" ELSE "tool"

\* A log that does not exist is an empty one; other failures are thrown.
AuditTailTool(log) == IF log = "unreadable" THEN "tool" ELSE "sure"

\* pid, text and approve === true are required.
InjectTool(args) == IF args = "complete" THEN "inject" ELSE "refused"

\* findTool(params.name) and its handler, for every kind of argument.
ToolClasses ==
  {SnapshotTool(p) : p \in {"all", "known", "unknown"}}
    \union {SessionsTool(p) : p \in {"all", "known", "unknown"}}
    \union {TranscriptTool(p) : p \in {"missing", "given"}}
    \union {TodosListTool(l) : l \in {"given", "default"}}
    \union {TodosAddTool(t) : t \in {"missing", "given"}}
    \union {TodosCompleteTool(i) : i \in {"missing", "given"}}
    \union {AuditTailTool(f) : f \in {"readable", "absent", "unreadable"}}
    \union {InjectTool(a) : a \in {"incomplete", "unapproved", "complete"}}

(* dispatch(req), by method; hasId tells a request from a notification.      *)
Initialize(hasId) == IF hasId THEN "result" ELSE "none"
Initialized(hasId) == "none"
Ping(hasId) == IF hasId THEN "result" ELSE "none"
ToolsList(hasId) == "result"
UnknownMethod(hasId) == "error"
InvalidEnvelope(hasId) == "error"
UnknownTool(hasId) == "error"

\* A line that is the JSON value null makes dispatch() throw, and the handler
\* of that throw as well, so nobody handles the rejection.
NullLine == "crash"

Dispatch ==
  ToolClasses \union {NullLine}
    \union UNION {{Initialize(h), Initialized(h), Ping(h), ToolsList(h),
                   UnknownMethod(h), InvalidEnvelope(h), UnknownTool(h)} : h \in BOOLEAN}
-----------------------------------------------------------------------------
Answered == {answers[i].id : i \in DOMAIN answers}

\* Microtasks run before anything else is read or resumed.
Quiet == soon = <<>> /\ later = <<>> /\ ~doomed

\* A line of the chunk being read, or of the next one, is dispatched up to the
\* handler's first await.
Line(r, class) ==
  /\ ~ended /\ r \notin ReceivedIds
  /\ received' = Append(received, [id |-> r, class |-> class])
  /\ soon' = IF class \in {"result", "error"}
             THEN Append(soon, Answer(r, class)) ELSE soon
  /\ later' = IF class = "refused" THEN Append(later, Answer(r, "isError")) ELSE later
  /\ doomed' = (doomed \/ class = "crash")
  /\ IF class = "inject" THEN Request(r, "mcp") ELSE UNCHANGED call
  /\ UNCHANGED <<process, cwd, typed, audited, ended, answers>>

\* JSON.parse throws: the answer is written on the spot, ahead of the answers
\* to earlier lines of the chunk.
ParseError(r) ==
  /\ ~ended /\ r \notin ReceivedIds
  /\ received' = Append(received, [id |-> r, class |-> "parse"])
  /\ answers' = Append(answers, Answer(r, "error"))
  /\ UNCHANGED <<injectVars, soon, later, doomed>>

\* The chunk is done: first the answers that dispatch() returned, then those of
\* handlers that threw; then a rejection that nobody handles ends the process.
Microtasks ==
  /\ ~ended /\ ~Quiet
  /\ answers' = answers \o soon \o later
  /\ soon' = <<>> /\ later' = <<>> /\ doomed' = FALSE
  /\ IF doomed THEN ServerExits ELSE UNCHANGED injectVars
  /\ UNCHANGED received

\* A tool's last await comes back.
ToolEnds(m) ==
  /\ ~ended /\ Quiet
  /\ m.class \in {"tool", "sure"} /\ m.id \notin Answered
  /\ \E outcome \in {"result"} \union (IF m.class = "tool" THEN {"isError"} ELSE {}) :
       answers' = Append(answers, Answer(m.id, outcome))
  /\ UNCHANGED <<injectVars, received, soon, later, doomed>>

\* A step of an inject call; its last one is answered in the same burst.
InjectStep(c) ==
  /\ Quiet
  /\ CallStep(c)
  /\ answers' = CASE call'[c].step = "ok" -> Append(answers, Answer(c, "result"))
                  [] call'[c].step = "error" -> Append(answers, Answer(c, "isError"))
                  [] OTHER -> answers
  /\ UNCHANGED <<received, soon, later, doomed>>

\* Mutant: the process exits as soon as it sees the end of its input.
MayCloseAtOnce == TRUE
\* The end of stdin is an I/O event of its own, after the microtasks.
MayClose == Quiet

\* stdin closes and runStdioServer's promise resolves: the process exits, with
\* whatever calls it still runs.
Eof ==
  /\ MayClose
  /\ ServerExits
  /\ UNCHANGED mcpVars

Serve ==
  \/ Microtasks
  \/ \E m \in ToSet(received) : ToolEnds(m)
  \/ \E c \in Mcp : InjectStep(c)

Work == Len(received) + Cardinality({c \in Calls \ Mcp : call[c].step # "idle"})

Next ==
  \/ Outside /\ UNCHANGED mcpVars
  \/ /\ Work < MaxWork
     /\ \E c \in Calls \ Mcp : Start(c)
     /\ UNCHANGED mcpVars
  \/ \E r \in Requests :
       /\ Work < MaxWork
       /\ \/ ParseError(r)
          \/ \E class \in Dispatch : (class = "inject" => r \in Mcp) /\ Line(r, class)
  \/ Serve \/ Eof

Spec == McpInit /\ [][Next]_vars
-----------------------------------------------------------------------------
\* What a client and the audit log are told of an inject call is what happened
\* to the pane, so that a call that failed may be made again: a result means
\* typed or a dry run, isError means nothing was typed, an audit line typed.
TellsTheTruth ==
  /\ audited \subseteq typed
  /\ \A a \in ToSet(answers) : a.id \in Calls /\ call[a.id].step # "idle" =>
       /\ a.outcome = "result" => a.id \in typed \/ call[a.id].dry
       /\ a.outcome = "isError" => a.id \notin typed

\* commands/mcp.ts:48-50 pipes a handshake into the server and closes stdin at
\* once: whatever needs no I/O is answered although the process exits on EOF.
PipedIsAnswered ==
  ended => \A m \in ToSet(received) :
    m.class \in Outcome \union {"parse", "refused"} => m.id \in Answered
=============================================================================
