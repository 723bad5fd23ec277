-------------------------------- MODULE Inject --------------------------------
(* Concurrent calls of the inject tool (src/src/mcp/tools.ts), of             *)
(* `agent-conductor inject` (src/src/cli/commands/inject.ts) and of a         *)
(* provider's inject() from a program that uses the library                   *)
(* (src/src/providers).  Each finds the pane of a pid, checks the working     *)
(* directory of its session against every other session (a provider does      *)
(* not), types into the pane and then appends to the audit log, with an await *)
(* before each of these steps.  Sessions start and end by themselves and the  *)
(* calling process may exit at any await.                                     *)
EXTENDS CwdLock

CONSTANTS Pids,        \* processes in tmux panes
          Claude,      \* those that claudeCodeProvider.discover() recognises
          Calls,       \* inject calls
          Mcp,         \* the calls of one MCP server
          PsAnswers,   \* ps never fails
          LsofAnswers, \* lsof never times out
          Here         \* the working directory of the caller itself

ASSUME CallersAssumption ==
  Pids # {} /\ Claude \subseteq Pids /\ Mcp \subseteq Calls
ASSUME ListingAssumption ==
  PsAnswers \in BOOLEAN /\ LsofAnswers \in BOOLEAN /\ Here \in Dirs

VARIABLES process,  \* each pid: not started, alive, ended
          cwd,      \* the working directory of each pid
          call,     \* each call: its arguments, its step, what it discovered
          typed,    \* history: calls whose keys reached tmux
          audited,  \* history: calls that have a line in the audit log
          ended     \* the process of the MCP server has exited

injectVars == <<process, cwd, call, typed, audited, ended>>

Live == {p \in Pids : process[p] = "alive"}
Unlisted == [p \in Pids |-> NoDir]

\* "ok" and "error" are the answers, "dead" a call whose process exited.
Step == {"idle", "new", "pane", "check", "dry", "send", "typed", "ok", "error",
         "dead"}
Over == {"ok", "error", "dead"}
Call == [step : Step, via : {"mcp", "cli", "library"}, pid : Pids,
         force : BOOLEAN, dry : BOOLEAN, found : [Pids -> Dirs \union {NoDir}]]
NoCall == [step |-> "idle", via |-> "mcp", pid |-> CHOOSE p \in Pids : TRUE,
           force |-> FALSE, dry |-> FALSE, found |-> Unlisted]

\* Shapes; there is no audit line for a dry run or for a call that only began.
InjectTypeOK ==
  /\ process \in [Pids -> {"future", "alive", "ended"}]
  /\ cwd \in [Pids -> Dirs]
  /\ call \in [Calls -> Call]
  /\ typed \subseteq Calls /\ audited \subseteq Calls
  /\ ended \in BOOLEAN
  /\ \A c \in audited : ~call[c].dry /\ call[c].step \in {"typed", "ok", "error", "dead"}

InjectInit ==
  /\ process \in [Pids -> {"future", "alive"}]
  /\ cwd \in [Pids -> Dirs]
  /\ call = [c \in Calls |-> NoCall]
  /\ typed = {} /\ audited = {} /\ ended = FALSE

Begin(p) ==
  /\ process[p] = "future"
  /\ process' = [process EXCEPT ![p] = "alive"]
  /\ UNCHANGED <<cwd, call, typed, audited, ended>>

End(p) ==
  /\ process[p] = "alive"
  /\ process' = [process EXCEPT ![p] = "ended"]
  /\ UNCHANGED <<cwd, call, typed, audited, ended>>

-----------------------------------------------------------------------------
Goto(c, step) == call' = [call EXCEPT ![c].step = step]
At(c, step) == call[c].step = step /\ (c \in Mcp => ~ended)

\* A call begins; inject() of a provider has neither a force nor a dry-run flag.
Request(c, via) ==
  /\ At(c, "idle")
  /\ \E p \in Pids, force, dry \in BOOLEAN :
       /\ via = "library" => ~force /\ ~dry
       /\ call' = [call EXCEPT ![c] = [step |-> "new", via |-> via, pid |-> p,
                                     force |-> force, dry |-> dry,
                                     found |-> Unlisted]]

\* A CLI process is started, or a library user calls provider.inject().
Start(c) ==
  /\ c \notin Mcp
  /\ \E via \in {"cli", "library"} : Request(c, via)
  /\ UNCHANGED <<process, cwd, typed, audited, ended>>

\* findPaneForPid: the process is found under tmux, or the call is refused
\* (also when tmux or ps fails).
FindPane(c) ==
  /\ At(c, "new") /\ call[c].via # "library"
  /\ \/ call[c].pid \in Live /\ Goto(c, "pane")
     \/ Goto(c, "error")
  /\ UNCHANGED <<process, cwd, typed, audited, ended>>

\* provider.inject(): findPaneForPid, and then the keys are sent unchecked.
ProviderInject(c) ==
  /\ At(c, "new") /\ call[c].via = "library"
  /\ \/ call[c].pid \in Live /\ Goto(c, "send")
     \/ Goto(c, "error")
  /\ UNCHANGED <<process, cwd, typed, audited, ended>>

\* listAllProcesses: what ps shows, or nothing at all when it fails.
Processes == {Live} \union (IF PsAnswers THEN {} ELSE {{}})

\* cwdOf(p) ?? process.cwd(): the directory lsof gives or else the caller's.
CwdOf(p) == {cwd[p]} \union (IF LsofAnswers THEN {} ELSE {Here})

\* What discover() can list: every Claude process among them.  lsof runs for one
\* after the other, with an await each; the step stands at the moment of ps.  A
\* directory is the same later on, and one whose process ends before its turn
\* is no live session's.
Listings ==
  {f \in [Pids -> Dirs \union {NoDir}] :
     \E listed \in Processes : \A p \in Pids :
       IF p \in listed \intersect Claude THEN f[p] \in CwdOf(p) ELSE f[p] = NoDir}

Discover(c) ==
  /\ At(c, "pane")
  /\ \E f \in Listings :
       call' = [call EXCEPT ![c].step = "check", ![c].found = f]
  /\ UNCHANGED <<process, cwd, typed, audited, ended>>

\* me && some other session of the list conflicts with me.cwd
Collides(c) ==
  LET f == call[c].found IN
    /\ f[call[c].pid] # NoDir
    /\ \E p \in Pids \ {call[c].pid} :
         f[p] # NoDir /\ DetectConflict(f[call[c].pid], f[p])

\* Mutant: the dry-run flag is forgotten.
AfterCheckSend(c) == "send"
\* A dry run neither types nor audits.
AfterCheck(c) == IF call[c].dry THEN "dry" ELSE "send"

\* The loop of detectConflict calls over the listed sessions, unless forced;
\* the list is not used again.
Check(c) ==
  /\ At(c, "check")
  /\ call' = [call EXCEPT
       ![c].step = IF ~call[c].force /\ Collides(c) THEN "error" ELSE AfterCheck(c),
       ![c].found = Unlisted]
  /\ UNCHANGED <<process, cwd, typed, audited, ended>>

DryRun(c) ==
  /\ At(c, "dry")
  /\ Goto(c, "ok")
  /\ UNCHANGED <<process, cwd, typed, audited, ended>>

\* tmux send-keys types into the pane, or fails (the pane is gone) and the
\* call throws.
SendKeys(c) ==
  /\ At(c, "send")
  /\ \/ Goto(c, "typed") /\ typed' = typed \union {c}
     \/ Goto(c, "error") /\ UNCHANGED typed
  /\ UNCHANGED <<process, cwd, audited, ended>>

\* await sendKeys(...) has come back.
MayAudit(c) == At(c, "typed")

\* Mutant: a failed append is thrown.
AfterAuditThrown(written) == IF written THEN "ok" ELSE "error"
\* appendAudit swallows its failures.
AfterAudit(written) == "ok"

\* appendAudit: the line is written or not; either way the call answers ok.
AppendAudit(c) ==
  /\ MayAudit(c)
  /\ \E written \in BOOLEAN :
       /\ Goto(c, AfterAudit(written))
       /\ audited' = IF written THEN audited \union {c} ELSE audited
  /\ UNCHANGED <<process, cwd, typed, ended>>

\* The process of the MCP server exits and cuts off its calls.
ServerExits ==
  /\ ~ended
  /\ ended' = TRUE
  /\ call' = [c \in Calls |->
                IF c \in Mcp /\ call[c].step \notin Over \union {"idle"}
                THEN [call[c] EXCEPT !.step = "dead"] ELSE call[c]]
  /\ UNCHANGED <<process, cwd, typed, audited>>

\* Ctrl-C ends a CLI call, or the program that uses the library.
Interrupt(c) ==
  /\ c \notin Mcp /\ call[c].step \notin Over \union {"idle"}
  /\ Goto(c, "dead")
  /\ UNCHANGED <<process, cwd, typed, audited, ended>>

\* A step of a call that is under way.
CallStep(c) ==
  \/ FindPane(c) \/ ProviderInject(c) \/ Discover(c) \/ Check(c) \/ DryRun(c)
  \/ SendKeys(c) \/ AppendAudit(c)

\* What goes on without the MCP server.
Outside ==
  \/ \E p \in Pids : Begin(p) \/ End(p)
  \/ \E c \in Calls \ Mcp : CallStep(c) \/ Interrupt(c)
-----------------------------------------------------------------------------
\* Calls that passed the check without force and are still at it.
Approved ==
  {c \in Calls : /\ ~call[c].force /\ call[c].via # "library"
                /\ call[c].step \in {"send", "typed"}}

\* tools.ts:275, lock.ts:7-9: the lock is enforced unless force is given.  Two
\* calls for different sessions that both run are never approved together when
\* the sessions' directories conflict, whatever started in between.
ApprovedApart ==
  \A c, d \in Approved :
    call[c].pid # call[d].pid /\ {call[c].pid, call[d].pid} \subseteq Live =>
      ~DetectConflict(cwd[call[c].pid], cwd[call[d].pid])
=============================================================================
