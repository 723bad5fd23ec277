----------------------------- MODULE InjectProofs -----------------------------
(* Theorems about the inject calls of module Inject and the MCP server that  *)
(* runs some of them, for any processes, directories, calls and messages.    *)
EXTENDS McpServer, TLAPS

\* What a call has done to its pane and to the audit log, by its step.
CallOK(c) ==
  /\ call[c].via = "library" => ~call[c].force /\ ~call[c].dry
  /\ call[c].step \in {"send", "typed"} => ~call[c].dry
  /\ call[c].step = "dry" => call[c].dry
  /\ call[c].step \in {"idle", "new", "pane", "check", "dry", "send", "error"} =>
       c \notin typed
  /\ call[c].step = "typed" => c \in typed
  /\ call[c].step = "ok" => c \in typed \/ call[c].dry
  /\ c \in audited => c \in typed

CallsInv == InjectTypeOK /\ \A c \in Calls : CallOK(c)

\* Everything that a step can do to the calls.
InjectEffect ==
  \/ UNCHANGED injectVars
  \/ \E p \in Pids : Begin(p) \/ End(p)
  \/ \E c \in Calls : CallStep(c)
  \/ \E c \in Calls \ Mcp : Interrupt(c)
  \/ ServerExits
  \/ \E c \in Calls, via \in {"mcp", "cli", "library"} :
       Request(c, via) /\ UNCHANGED <<process, cwd, typed, audited, ended>>

Message == [id : Requests, class : Class]
Reply == [id : Requests, outcome : Outcome]
Waiting == ToSet(soon) \union ToSet(later)

\* A message is an inject call if and only if its call has begun, and none has
\* begun unheard.
HeardOK ==
  /\ \A m \in ToSet(received) :
       m.id \in Mcp => (m.class = "inject" <=> call[m.id].step # "idle")
  /\ \A c \in Mcp \ ReceivedIds : call[c].step = "idle"

\* What needs no I/O waits for its answer or has it.
AtOnceOK ==
  \A m \in ToSet(received) :
    m.class \in Outcome \union {"parse", "refused"} =>
      m.id \in Answered \union {a.id : a \in Waiting}

\* Answers that wait for a microtask are the first ones to their messages, and
\* inject calls do not wait there.
WaitingOK ==
  \A a \in Waiting :
    a.id \in ReceivedIds \ Answered /\ (a.id \in Mcp => call[a.id].step = "idle")

\* An inject call that was answered has ended that way.
SaidOK ==
  \A a \in ToSet(answers) :
    /\ a.id \in ReceivedIds
    /\ a.id \in Mcp /\ call[a.id].step # "idle" =>
         /\ a.outcome = "result" => call[a.id].step = "ok"
         /\ a.outcome = "isError" => call[a.id].step = "error"

\* Nothing waits any more when the process has exited.
McpInv ==
  /\ received \in Seq(Message)
  /\ soon \in Seq(Reply) /\ later \in Seq(Reply) /\ answers \in Seq(Reply)
  /\ doomed \in BOOLEAN
  /\ HeardOK /\ AtOnceOK /\ WaitingOK /\ SaidOK
  /\ ended => Waiting = {}

\* The lock's promise needs a list with every session: ps and lsof answer and
\* discover() recognises the sessions that are injected into.
EverySessionIsListed == PsAnswers /\ LsofAnswers /\ Claude = Pids

\* Calls that are held to the lock, from their list of sessions to their keys.
Locked ==
  {c \in Calls : /\ ~call[c].force /\ call[c].via # "library"
                /\ call[c].step \in {"check", "send", "typed"}}

\* c has a list with both sessions and has not compared them yet.
Sees(c, d) ==
  /\ call[c].step = "check"
  /\ call[c].found[call[c].pid] = cwd[call[c].pid]
  /\ call[c].found[call[d].pid] = cwd[call[d].pid]

\* A session that was found does not start again; and of two calls that are
\* held to the lock one sees the other, unless their sessions may both be
\* typed into.
LockInv ==
  /\ \A c \in Calls : call[c].via # "library" /\ call[c].step \in {"pane", "check", "send", "typed"} =>
       process[call[c].pid] # "future"
  /\ \A c, d \in Locked :
       call[c].pid # call[d].pid /\ {call[c].pid, call[d].pid} \subseteq Live =>
         \/ Sees(c, d) \/ Sees(d, c)
         \/ ~DetectConflict(cwd[call[c].pid], cwd[call[d].pid])

-----------------------------------------------------------------------------
(* The calls.                                                                *)

\* A new step changes nothing else of a call, and no other call.
LEMMA GotoFacts ==
  ASSUME call \in [Calls -> Call], NEW c \in Calls, NEW s \in Step, Goto(c, s)
  PROVE  /\ call' \in [Calls -> Call]
         /\ call'[c] = [call[c] EXCEPT !.step = s]
         /\ call'[c].step = s /\ call'[c].via = call[c].via /\ call'[c].pid = call[c].pid
         /\ call'[c].force = call[c].force /\ call'[c].dry = call[c].dry
         /\ call'[c].found = call[c].found
         /\ \A d \in Calls \ {c} : call'[d] = call[d]
BY DEF Goto, Call

\* Whatever happens to the sessions, the calls are as before.
LEMMA CallsOfOthers ==
  ASSUME CallsInv, NEW p \in Pids, Begin(p) \/ End(p)
  PROVE  CallsInv'
<1>1. UNCHANGED <<cwd, call, typed, audited, ended>>
  BY DEF Begin, End
<1>2. process' \in [Pids -> {"future", "alive", "ended"}]
  BY DEF CallsInv, InjectTypeOK, Begin, End
<1>3. QED
  BY <1>1, <1>2 DEF CallsInv, InjectTypeOK, CallOK

\* A call is requested once, and nothing has been typed for it.
LEMMA CallsRequest ==
  ASSUME CallsInv, NEW c \in Calls, NEW via \in {"mcp", "cli", "library"},
         Request(c, via), UNCHANGED <<process, cwd, typed, audited, ended>>
  PROVE  CallsInv'
<1>1. PICK p \in Pids, force \in BOOLEAN, dry \in BOOLEAN :
        /\ via = "library" => ~force /\ ~dry
        /\ call' = [call EXCEPT ![c] = [step |-> "new", via |-> via, pid |-> p,
                                      force |-> force, dry |-> dry,
                                      found |-> Unlisted]]
  BY DEF Request
<1>2. call[c].step = "idle"
  BY DEF Request, At
<1>3. Unlisted \in [Pids -> Dirs \union {NoDir}]
  BY DEF Unlisted
<1>4. /\ call' \in [Calls -> Call]
      /\ call'[c] = [step |-> "new", via |-> via, pid |-> p, force |-> force,
                     dry |-> dry, found |-> Unlisted]
      /\ \A d \in Calls \ {c} : call'[d] = call[d]
  BY <1>1, <1>3 DEF CallsInv, InjectTypeOK, Call, Step
<1>5. c \notin audited /\ c \notin typed
  BY <1>2 DEF CallsInv, InjectTypeOK, CallOK
<1>6. InjectTypeOK'
  BY <1>4, <1>5 DEF CallsInv, InjectTypeOK
<1>7. \A d \in Calls : CallOK(d)'
  BY <1>1, <1>4, <1>5 DEF CallsInv, CallOK
<1>8. QED
  BY <1>6, <1>7 DEF CallsInv

\* A step of one call keeps what holds of the calls if it does for this one.
LEMMA CallsOneStep ==
  ASSUME CallsInv, NEW c \in Calls,
         call' \in [Calls -> Call], \A d \in Calls \ {c} : call'[d] = call[d],
         typed' \in {typed, typed \union {c}}, audited' \in {audited, audited \union {c}},
         UNCHANGED <<process, cwd, ended>>,
         CallOK(c)',
         c \in audited' => /\ ~call'[c].dry
                          /\ call'[c].step \in {"typed", "ok", "error", "dead"}
  PROVE  CallsInv'
<1>1. InjectTypeOK'
  BY DEF CallsInv, InjectTypeOK
<1>2. ASSUME NEW d \in Calls \ {c}
      PROVE  CallOK(d)'
  BY <1>2 DEF CallsInv, CallOK
<1>3. QED
  BY <1>1, <1>2 DEF CallsInv

\* The steps before the keys: the pane is found or not, or a dry run ends.
LEMMA CallsLook ==
  ASSUME CallsInv, NEW c \in Calls, FindPane(c) \/ ProviderInject(c) \/ DryRun(c)
  PROVE  CallsInv'
<1>1. UNCHANGED <<process, cwd, typed, audited, ended>>
  BY DEF FindPane, ProviderInject, DryRun
<1>2. PICK s \in {"pane", "send", "ok", "error"} :
        /\ Goto(c, s)
        /\ \/ call[c].step = "new" /\ s \in {"pane", "error"}
           \/ call[c].step = "new" /\ call[c].via = "library" /\ s = "send"
           \/ call[c].step = "dry" /\ s = "ok"
  BY DEF FindPane, ProviderInject, DryRun, At
<1>3. /\ call' \in [Calls -> Call] /\ \A d \in Calls \ {c} : call'[d] = call[d]
      /\ call'[c].step = s /\ call'[c].via = call[c].via
      /\ call'[c].force = call[c].force /\ call'[c].dry = call[c].dry
  BY <1>2, GotoFacts DEF CallsInv, InjectTypeOK, Step
<1>4. CallOK(c)' /\ c \notin audited
  BY <1>1, <1>2, <1>3 DEF CallsInv, InjectTypeOK, CallOK
<1>5. QED
  BY <1>1, <1>3, <1>4, CallsOneStep

\* A step of a call changes its step and its list, nothing else of any call.
LEMMA StepShape ==
  ASSUME CallsInv, NEW c \in Calls, CallStep(c)
  PROVE  \E s \in Step \ {"idle"}, f \in [Pids -> Dirs \union {NoDir}] :
           call' = [call EXCEPT ![c].step = s, ![c].found = f]
<1>1. call \in [Calls -> Call] /\ call[c] \in Call
  BY DEF CallsInv, InjectTypeOK
<1>2. ASSUME NEW s \in Step \ {"idle"}, Goto(c, s)
      PROVE  call' = [call EXCEPT ![c].step = s, ![c].found = call[c].found]
  BY <1>1, <1>2 DEF Goto, Call
<1>3. CASE \E s \in Step \ {"idle"} : Goto(c, s)
  BY <1>1, <1>2, <1>3 DEF Call
<1>4. CASE Discover(c)
  BY <1>4 DEF Discover, Listings, Step
<1>5. CASE Check(c)
  <2>1. Unlisted \in [Pids -> Dirs \union {NoDir}]
    BY DEF Unlisted
  <2> DEFINE s == IF ~call[c].force /\ Collides(c) THEN "error" ELSE AfterCheck(c)
  <2>2. s \in Step \ {"idle"}
    BY DEF AfterCheck, Step
  <2>3. call' = [call EXCEPT ![c].step = s, ![c].found = Unlisted]
    BY <1>5 DEF Check
  <2>4. QED
    BY <2>1, <2>2, <2>3
<1>6. QED
  BY <1>3, <1>4, <1>5 DEF CallStep, FindPane, ProviderInject, DryRun, SendKeys, AppendAudit,
     AfterAudit, Step

\* A list is taken, and used once.
LEMMA CallsCheck ==
  ASSUME CallsInv, NEW c \in Calls, Discover(c) \/ Check(c)
  PROVE  CallsInv'
<1>1. UNCHANGED <<process, cwd, typed, audited, ended>>
  BY DEF Discover, Check
<1>2. PICK s \in {"check", "error", "dry", "send"}, f \in [Pids -> Dirs \union {NoDir}] :
        /\ call' = [call EXCEPT ![c].step = s, ![c].found = f]
        /\ \/ call[c].step = "pane" /\ s = "check"
           \/ call[c].step = "check" /\ s = "error"
           \/ call[c].step = "check" /\ s = AfterCheck(c)
  <2>1. CASE Discover(c)
    BY <2>1 DEF Discover, At, Listings
  <2>2. CASE Check(c)
    <3>1. Unlisted \in [Pids -> Dirs \union {NoDir}]
      BY DEF Unlisted
    <3>2. AfterCheck(c) \in {"dry", "send"}
      BY DEF AfterCheck
    <3>3. QED
      BY <2>2, <3>1, <3>2 DEF Check, At
  <2>3. QED
    BY <2>1, <2>2
<1>3. /\ call' \in [Calls -> Call] /\ \A d \in Calls \ {c} : call'[d] = call[d]
      /\ call'[c].step = s /\ call'[c].via = call[c].via
      /\ call'[c].force = call[c].force /\ call'[c].dry = call[c].dry
  <2>1. call \in [Calls -> Call] /\ call[c] \in Call
    BY DEF CallsInv, InjectTypeOK
  <2>2. /\ call'[c] = [call[c] EXCEPT !.step = s, !.found = f]
        /\ \A d \in Calls \ {c} : call'[d] = call[d]
        /\ DOMAIN call' = Calls /\ call' = [d \in Calls |-> call'[d]]
    BY <1>2, <2>1
  <2>3. call'[c] \in Call
    BY <2>1, <2>2 DEF Call, Step
  <2>4. /\ call'[c].step = s /\ call'[c].via = call[c].via
        /\ call'[c].force = call[c].force /\ call'[c].dry = call[c].dry
    BY <2>1, <2>2 DEF Call
  <2>5. QED
    BY <2>1, <2>2, <2>3, <2>4
<1>4. CallOK(c)' /\ c \notin audited
  BY <1>1, <1>2, <1>3 DEF CallsInv, InjectTypeOK, CallOK, AfterCheck
<1>5. QED
  BY <1>1, <1>3, <1>4, CallsOneStep

\* The keys reach the pane, or the call fails.
LEMMA CallsSend ==
  ASSUME CallsInv, NEW c \in Calls, SendKeys(c)
  PROVE  CallsInv'
<1>1. UNCHANGED <<process, cwd, audited, ended>> /\ call[c].step = "send"
  BY DEF SendKeys, At
<1>2. PICK s \in {"typed", "error"} :
        Goto(c, s) /\ typed' = IF s = "typed" THEN typed \union {c} ELSE typed
  BY DEF SendKeys
<1>3. /\ call' \in [Calls -> Call] /\ \A d \in Calls \ {c} : call'[d] = call[d]
      /\ call'[c].step = s /\ call'[c].via = call[c].via
      /\ call'[c].force = call[c].force /\ call'[c].dry = call[c].dry
  BY <1>2, GotoFacts DEF CallsInv, InjectTypeOK, Step
<1>4. CallOK(c)' /\ c \notin audited
  BY <1>1, <1>2, <1>3 DEF CallsInv, InjectTypeOK, CallOK
<1>5. QED
  BY <1>1, <1>2, <1>3, <1>4, CallsOneStep

\* The line is written or not, for a call whose keys were typed.
LEMMA CallsAudit ==
  ASSUME CallsInv, NEW c \in Calls, AppendAudit(c)
  PROVE  CallsInv'
<1>1. UNCHANGED <<process, cwd, typed, ended>> /\ call[c].step = "typed"
  BY DEF AppendAudit, MayAudit, At
<1>2. Goto(c, "ok") /\ audited' \in {audited, audited \union {c}}
  BY DEF AppendAudit, AfterAudit
<1>3. /\ call' \in [Calls -> Call] /\ \A d \in Calls \ {c} : call'[d] = call[d]
      /\ call'[c].step = "ok" /\ call'[c].via = call[c].via
      /\ call'[c].force = call[c].force /\ call'[c].dry = call[c].dry
  BY <1>2, GotoFacts DEF CallsInv, InjectTypeOK, Step
<1>4. CallOK(c)' /\ ~call'[c].dry
  BY <1>1, <1>2, <1>3 DEF CallsInv, InjectTypeOK, CallOK
<1>5. QED
  BY <1>1, <1>2, <1>3, <1>4, CallsOneStep

\* A call that is cut off has typed or not; nothing more is said of it.
LEMMA CallsCutOff ==
  ASSUME CallsInv, ServerExits \/ \E c \in Calls \ Mcp : Interrupt(c)
  PROVE  CallsInv'
<1>1. UNCHANGED <<process, cwd, typed, audited>> /\ ended' \in BOOLEAN
  BY DEF ServerExits, Interrupt, CallsInv, InjectTypeOK
<1>2. /\ call' \in [Calls -> Call]
      /\ \A d \in Calls : \/ call'[d] = call[d]
                         \/ call'[d] = [call[d] EXCEPT !.step = "dead"]
  <2>1. CASE ServerExits
    BY <2>1 DEF ServerExits, CallsInv, InjectTypeOK, Call, Step
  <2>2. ASSUME NEW c \in Calls \ Mcp, Interrupt(c)
        PROVE  /\ call' \in [Calls -> Call]
               /\ \A d \in Calls : \/ call'[d] = call[d]
                                  \/ call'[d] = [call[d] EXCEPT !.step = "dead"]
    BY <2>2, GotoFacts DEF Interrupt, CallsInv, InjectTypeOK, Step
  <2>3. QED
    BY <2>1, <2>2
<1>3. InjectTypeOK'
  BY <1>1, <1>2 DEF CallsInv, InjectTypeOK, Call
<1>4. ASSUME NEW d \in Calls
      PROVE  CallOK(d)'
  <2>1. CASE call'[d] = call[d]
    BY <1>1, <2>1 DEF CallsInv, CallOK
  <2>2. CASE call'[d] = [call[d] EXCEPT !.step = "dead"]
    <3>1. /\ call'[d].step = "dead" /\ call'[d].via = call[d].via
          /\ call'[d].force = call[d].force /\ call'[d].dry = call[d].dry
      BY <2>2 DEF CallsInv, InjectTypeOK, Call
    <3>2. QED
      BY <1>1, <3>1 DEF CallsInv, CallOK
  <2>3. QED
    BY <1>2, <2>1, <2>2
<1>5. QED
  BY <1>3, <1>4 DEF CallsInv

\* Whatever happens to the calls keeps what holds of them.
LEMMA CallsStep ==
  ASSUME CallsInv, InjectEffect
  PROVE  CallsInv'
<1>1. CASE UNCHANGED injectVars
  BY <1>1 DEF injectVars, CallsInv, InjectTypeOK, CallOK
<1>2. ASSUME NEW c \in Calls, CallStep(c)
      PROVE  CallsInv'
  BY <1>2, CallsLook, CallsCheck, CallsSend, CallsAudit DEF CallStep
<1>3. QED
  BY <1>1, <1>2, CallsOfOthers, CallsRequest, CallsCutOff DEF InjectEffect

\* At first no call has begun.
LEMMA CallsInit == InjectInit => CallsInv
<1> SUFFICES ASSUME InjectInit
             PROVE  CallsInv
  OBVIOUS
<1>1. NoCall \in Call /\ NoCall.step = "idle" /\ NoCall.via = "mcp"
  <2>1. (CHOOSE p \in Pids : TRUE) \in Pids
    BY CallersAssumption
  <2>2. QED
    BY <2>1 DEF NoCall, Call, Step, Unlisted
<1>2. QED
  BY <1>1 DEF InjectInit, CallsInv, InjectTypeOK, CallOK

-----------------------------------------------------------------------------
(* The lock.                                                                 *)

\* detectConflict does not care which directory comes first.
LEMMA ConflictIsMutual ==
  ASSUME NEW a, NEW b
  PROVE  DetectConflict(a, b) <=> DetectConflict(b, a)
BY DEF DetectConflict, Nested, SeparateRoots

\* What a step of one call must show: what the call itself keeps to.
LEMMA LockOneStep ==
  ASSUME LockInv, NEW c \in Calls, \A d \in Calls \ {c} : call'[d] = call[d],
         UNCHANGED <<process, cwd>>,
         call'[c].via # "library" /\ call'[c].step \in {"pane", "check", "send", "typed"} =>
           process[call'[c].pid] # "future",
         ASSUME NEW d \in Locked \ {c}, c \in Locked', call'[c].pid # call[d].pid,
                {call'[c].pid, call[d].pid} \subseteq Live
         PROVE  \/ Sees(c, d)' \/ Sees(d, c)'
                \/ ~DetectConflict(cwd[call'[c].pid], cwd[call[d].pid])
  PROVE  LockInv'
<1>1. Live' = Live
  BY DEF Live
<1>2. \A d \in Calls \ {c} : d \in Locked' <=> d \in Locked
  BY DEF Locked
<1>3. ASSUME NEW d \in Locked', NEW e \in Locked', call'[d].pid # call'[e].pid,
             {call'[d].pid, call'[e].pid} \subseteq Live
      PROVE  \/ Sees(d, e)' \/ Sees(e, d)'
             \/ ~DetectConflict(cwd'[call'[d].pid], cwd'[call'[e].pid])
  <2>1. d \in Calls /\ e \in Calls
    BY DEF Locked
  <2>2. CASE d = c
    <3>1. e \in Locked \ {c} /\ call'[e] = call[e]
      BY <1>2, <1>3, <2>1, <2>2
    <3>2. QED
      BY <1>3, <2>2, <3>1
  <2>3. CASE e = c
    <3>1. d \in Locked \ {c} /\ call'[d] = call[d]
      BY <1>2, <1>3, <2>1, <2>3
    <3>2. \/ Sees(c, d)' \/ Sees(d, c)'
          \/ ~DetectConflict(cwd[call'[c].pid], cwd[call[d].pid])
      BY <1>3, <2>3, <3>1
    <3>3. QED
      BY <2>3, <3>1, <3>2, ConflictIsMutual
  <2>4. CASE d # c /\ e # c
    <3>1. d \in Locked /\ e \in Locked /\ call'[d] = call[d] /\ call'[e] = call[e]
      BY <1>2, <2>1, <2>4
    <3>2. \/ Sees(d, e) \/ Sees(e, d)
          \/ ~DetectConflict(cwd[call[d].pid], cwd[call[e].pid])
      BY <1>3, <3>1 DEF LockInv
    <3>3. QED
      BY <3>1, <3>2 DEF Sees
  <2>5. QED
    BY <2>2, <2>3, <2>4
<1>4. \A d \in Calls : call'[d].via # "library" /\ call'[d].step \in {"pane", "check", "send", "typed"} =>
        process'[call'[d].pid] # "future"
  BY DEF LockInv
<1>5. QED
  BY <1>1, <1>3, <1>4 DEF LockInv

\* A session that begins was never found before.
LEMMA LockOfSessions ==
  ASSUME CallsInv, LockInv, NEW p \in Pids, Begin(p) \/ End(p)
  PROVE  LockInv'
<1>1. UNCHANGED <<cwd, call, typed, audited, ended>>
  BY DEF Begin, End
<1>2. \A q \in Pids : /\ process'[q] = "future" => process[q] = "future"
                      /\ q \in Live' /\ process[q] # "future" => q \in Live
  BY DEF CallsInv, InjectTypeOK, Begin, End, Live
<1>3. \A c \in Calls : call[c].pid \in Pids
  BY DEF CallsInv, InjectTypeOK, Call
<1>4. Locked' = Locked /\ \A c, d \in Calls : Sees(c, d)' <=> Sees(c, d)
  BY <1>1 DEF Locked, Sees
<1>5. \A c \in Locked : c \in Calls /\ (call[c].pid \in Live' => call[c].pid \in Live)
  <2> SUFFICES ASSUME NEW c \in Locked
               PROVE  c \in Calls /\ (call[c].pid \in Live' => call[c].pid \in Live)
    OBVIOUS
  <2>1. /\ c \in Calls /\ call[c].via # "library"
        /\ call[c].step \in {"pane", "check", "send", "typed"}
    BY DEF Locked
  <2>2. process[call[c].pid] # "future"
    BY <2>1 DEF LockInv
  <2>3. QED
    BY <1>2, <1>3, <2>1, <2>2
<1>6. \A c \in Calls : call'[c].via # "library" /\ call'[c].step \in {"pane", "check", "send", "typed"} =>
        process'[call'[c].pid] # "future"
  BY <1>1, <1>2, <1>3 DEF LockInv
<1>7. ASSUME NEW c \in Locked, NEW d \in Locked, call[c].pid # call[d].pid,
             {call[c].pid, call[d].pid} \subseteq Live'
      PROVE  \/ Sees(c, d)' \/ Sees(d, c)'
             \/ ~DetectConflict(cwd'[call[c].pid], cwd'[call[d].pid])
  <2>1. \/ Sees(c, d) \/ Sees(d, c)
        \/ ~DetectConflict(cwd[call[c].pid], cwd[call[d].pid])
    BY <1>5, <1>7 DEF LockInv
  <2>2. QED
    BY <1>1, <1>4, <1>5, <2>1
<1>8. QED
  BY <1>1, <1>4, <1>6, <1>7 DEF LockInv

\* A list shows every session that runs, with its directory.
LEMMA ListingIsComplete ==
  ASSUME EverySessionIsListed, NEW f \in Listings, NEW p \in Live
  PROVE  f[p] = cwd[p]
<1>1. p \in Pids /\ Processes = {Live} /\ CwdOf(p) = {cwd[p]} /\ p \in Claude
  BY DEF EverySessionIsListed, Processes, CwdOf, Live
<1>2. QED
  BY <1>1 DEF Listings

\* A call takes its list: it sees every other one whose session runs.
LEMMA LockDiscover ==
  ASSUME EverySessionIsListed, CallsInv, LockInv, NEW c \in Calls, Discover(c)
  PROVE  LockInv'
<1>1. PICK f \in Listings :
        call' = [call EXCEPT ![c].step = "check", ![c].found = f]
  BY DEF Discover
<1>2. UNCHANGED <<process, cwd>> /\ call[c].step = "pane"
  BY DEF Discover, At
<1>3. /\ \A d \in Calls \ {c} : call'[d] = call[d]
      /\ call'[c].step = "check" /\ call'[c].found = f
      /\ call'[c].pid = call[c].pid /\ call'[c].via = call[c].via
  <2>1. call \in [Calls -> Call] /\ call[c] \in Call
    BY DEF CallsInv, InjectTypeOK
  <2>2. /\ call'[c] = [call[c] EXCEPT !.step = "check", !.found = f]
        /\ \A d \in Calls \ {c} : call'[d] = call[d]
    BY <1>1, <2>1
  <2>3. QED
    BY <2>1, <2>2 DEF Call
<1>4. call[c].via # "library" => process[call[c].pid] # "future"
  BY <1>2 DEF LockInv
<1>5. ASSUME NEW d \in Locked \ {c}, {call'[c].pid, call[d].pid} \subseteq Live
      PROVE  Sees(c, d)'
  <2>1. f[call[c].pid] = cwd[call[c].pid] /\ f[call[d].pid] = cwd[call[d].pid]
    BY <1>3, <1>5, ListingIsComplete
  <2>2. call'[d] = call[d]
    BY <1>3 DEF Locked
  <2>3. QED
    BY <1>2, <1>3, <2>1, <2>2 DEF Sees
<1>6. QED
  BY <1>2, <1>3, <1>4, <1>5, LockOneStep

\* A call compares: it goes on only if no session that it saw is in its way.
LEMMA LockCheck ==
  ASSUME CallsInv, LockInv, NEW c \in Calls, Check(c)
  PROVE  LockInv'
<1> DEFINE s == IF ~call[c].force /\ Collides(c) THEN "error" ELSE AfterCheck(c)
<1>1. /\ call' = [call EXCEPT ![c].step = s, ![c].found = Unlisted]
      /\ UNCHANGED <<process, cwd>> /\ call[c].step = "check"
  BY DEF Check, At
<1>2. /\ \A d \in Calls \ {c} : call'[d] = call[d]
      /\ call'[c].step = s /\ call'[c].force = call[c].force
      /\ call'[c].pid = call[c].pid /\ call'[c].via = call[c].via
  <2>1. call \in [Calls -> Call] /\ call[c] \in Call
    BY DEF CallsInv, InjectTypeOK
  <2>2. /\ call'[c] = [call[c] EXCEPT !.step = s, !.found = Unlisted]
        /\ \A d \in Calls \ {c} : call'[d] = call[d]
    BY <1>1, <2>1
  <2>3. QED
    BY <2>1, <2>2 DEF Call
<1>3. call[c].via # "library" => process[call[c].pid] # "future"
  BY <1>1 DEF LockInv
<1>4. ASSUME NEW d \in Locked \ {c}, c \in Locked', call'[c].pid # call[d].pid,
             {call'[c].pid, call[d].pid} \subseteq Live
      PROVE  \/ Sees(c, d)' \/ Sees(d, c)'
             \/ ~DetectConflict(cwd[call'[c].pid], cwd[call[d].pid])
  <2>1. d \in Calls /\ call'[d] = call[d]
    BY <1>2 DEF Locked
  <2>2. c \in Locked /\ s # "error" /\ ~Collides(c)
    BY <1>1, <1>2, <1>4 DEF Locked
  <2>3. \/ Sees(c, d) \/ Sees(d, c)
        \/ ~DetectConflict(cwd[call[c].pid], cwd[call[d].pid])
    BY <1>2, <1>4, <2>2 DEF LockInv
  <2>4. CASE Sees(c, d)
    <3>1. /\ call[d].pid \in Pids \ {call[c].pid}
          /\ cwd[call[c].pid] # NoDir /\ cwd[call[d].pid] # NoDir
      BY <1>2, <1>4, <2>1, TreeAssumption DEF CallsInv, InjectTypeOK, Call
    <3>2. QED
      BY <1>2, <2>2, <2>4, <3>1 DEF Sees, Collides
  <2>5. CASE Sees(d, c)
    BY <1>1, <1>2, <2>1, <2>5 DEF Sees
  <2>6. QED
    BY <1>2, <2>3, <2>4, <2>5
<1>5. QED
  BY <1>1, <1>2, <1>3, <1>4, LockOneStep

\* The keys are sent: nothing changes between the calls that are held to it.
LEMMA LockSend ==
  ASSUME CallsInv, LockInv, NEW c \in Calls, SendKeys(c)
  PROVE  LockInv'
<1>1. PICK s \in {"typed", "error"} : Goto(c, s)
  BY DEF SendKeys
<1>2. UNCHANGED <<process, cwd>> /\ call[c].step = "send"
  BY DEF SendKeys, At
<1>3. /\ \A d \in Calls \ {c} : call'[d] = call[d]
      /\ call'[c].step = s /\ call'[c].via = call[c].via
      /\ call'[c].pid = call[c].pid /\ call'[c].force = call[c].force
  BY <1>1, GotoFacts DEF CallsInv, InjectTypeOK, Step
<1>4. call[c].via # "library" => process[call[c].pid] # "future"
  BY <1>2 DEF LockInv
<1>5. ASSUME NEW d \in Locked \ {c}, c \in Locked', call'[c].pid # call[d].pid,
             {call'[c].pid, call[d].pid} \subseteq Live
      PROVE  \/ Sees(c, d)' \/ Sees(d, c)'
             \/ ~DetectConflict(cwd[call'[c].pid], cwd[call[d].pid])
  <2>1. c \in Locked /\ d \in Calls /\ call'[d] = call[d]
    BY <1>2, <1>3, <1>5 DEF Locked
  <2>2. \/ Sees(c, d) \/ Sees(d, c)
        \/ ~DetectConflict(cwd[call[c].pid], cwd[call[d].pid])
    BY <1>3, <1>5, <2>1 DEF LockInv
  <2>3. QED
    BY <1>2, <1>3, <2>1, <2>2 DEF Sees
<1>6. QED
  BY <1>2, <1>3, <1>4, <1>5, LockOneStep

\* Steps that end with a call that is not held to the lock.
LEMMA LockNotHeld ==
  ASSUME CallsInv, LockInv, NEW c \in Calls,
         \/ FindPane(c) \/ ProviderInject(c) \/ DryRun(c) \/ AppendAudit(c)
         \/ Interrupt(c)
  PROVE  LockInv'
<1>1. UNCHANGED <<process, cwd>>
  BY DEF FindPane, ProviderInject, DryRun, AppendAudit, Interrupt
<1>2. PICK s \in {"pane", "send", "ok", "error", "dead"} :
        /\ Goto(c, s)
        /\ s = "pane" => call[c].pid \in Live
        /\ s = "send" => call[c].via = "library"
  BY DEF FindPane, ProviderInject, DryRun, AppendAudit, AfterAudit, Interrupt
<1>3. /\ \A d \in Calls \ {c} : call'[d] = call[d]
      /\ call'[c].step = s /\ call'[c].via = call[c].via
      /\ call'[c].pid = call[c].pid
  BY <1>2, GotoFacts DEF CallsInv, InjectTypeOK, Step
<1>4. c \notin Locked'
  BY <1>2, <1>3 DEF Locked
<1>5. call'[c].via # "library" /\ call'[c].step \in {"pane", "check", "send", "typed"} =>
        process[call'[c].pid] # "future"
  BY <1>2, <1>3 DEF Live
<1>6. QED
  BY <1>1, <1>3, <1>4, <1>5, LockOneStep

\* A call that is requested is not held to the lock yet.
LEMMA LockRequest ==
  ASSUME CallsInv, LockInv, NEW c \in Calls, NEW via, Request(c, via),
         UNCHANGED <<process, cwd, typed, audited, ended>>
  PROVE  LockInv'
<1>1. /\ \A d \in Calls \ {c} : call'[d] = call[d]
      /\ call'[c].step = "new"
  BY DEF Request, CallsInv, InjectTypeOK
<1>2. c \notin Locked'
  BY <1>1 DEF Locked
<1>3. QED
  BY <1>1, <1>2, LockOneStep

\* The exit of the server takes calls away.
LEMMA LockExit ==
  ASSUME CallsInv, LockInv, ServerExits
  PROVE  LockInv'
<1>1. UNCHANGED <<process, cwd>> /\ Live' = Live
  BY DEF ServerExits, Live
<1>2. \A d \in Calls : call'[d] = call[d] \/ call'[d].step = "dead"
  BY DEF ServerExits, CallsInv, InjectTypeOK, Call
<1>3. \A d \in Locked' : d \in Locked /\ d \in Calls /\ call'[d] = call[d]
  BY <1>2 DEF Locked
<1>4. \A c, d \in Locked' : Sees(c, d)' <=> Sees(c, d)
  BY <1>1, <1>3 DEF Sees
<1>5. QED
  BY <1>1, <1>2, <1>3, <1>4 DEF LockInv

\* Whatever happens, of two calls one sees the other.
LEMMA LockStep ==
  ASSUME EverySessionIsListed, CallsInv, LockInv, InjectEffect
  PROVE  LockInv'
<1>1. CASE UNCHANGED injectVars
  BY <1>1 DEF injectVars, LockInv, Locked, Sees, Live
<1>2. ASSUME NEW c \in Calls, CallStep(c)
      PROVE  LockInv'
  BY <1>2, LockDiscover, LockCheck, LockSend, LockNotHeld DEF CallStep
<1>3. CASE \E p \in Pids : Begin(p) \/ End(p)
  BY <1>3, LockOfSessions
<1>4. CASE \E c \in Calls \ Mcp : Interrupt(c)
  BY <1>4, LockNotHeld
<1>5. QED
  BY <1>1, <1>2, <1>3, <1>4, LockRequest, LockExit DEF InjectEffect

\* At first no call has a list.
LEMMA LockInit == InjectInit => LockInv
BY DEF InjectInit, LockInv, Locked, NoCall

\* Two calls past the check, for sessions that both run, are not in conflict.
LEMMA LockSafe == CallsInv /\ LockInv => ApprovedApart
<1> SUFFICES ASSUME CallsInv, LockInv, NEW c \in Approved, NEW d \in Approved,
                    call[c].pid # call[d].pid,
                    {call[c].pid, call[d].pid} \subseteq Live
             PROVE  ~DetectConflict(cwd[call[c].pid], cwd[call[d].pid])
  BY DEF ApprovedApart
<1>1. c \in Locked /\ d \in Locked /\ ~Sees(c, d) /\ ~Sees(d, c)
  BY DEF Approved, Locked, Sees
<1>2. QED
  BY <1>1 DEF LockInv

-----------------------------------------------------------------------------
(* The server.                                                               *)

\* A step of the server or of its surroundings does nothing else to the calls.
LEMMA NextEffect == Next => InjectEffect
<1>1. CASE Outside
  BY <1>1, CallersAssumption DEF Outside, InjectEffect
<1>2. ASSUME NEW c \in Calls \ Mcp, Start(c)
      PROVE  InjectEffect
  BY <1>2 DEF Start, InjectEffect
<1>3. ASSUME NEW r \in Requests, NEW class, class = "inject" => r \in Mcp,
             Line(r, class)
      PROVE  InjectEffect
  <2>1. CASE class = "inject"
    <3>1. r \in Calls /\ Request(r, "mcp")
      BY <1>3, <2>1, CallersAssumption DEF Line
    <3>2. UNCHANGED <<process, cwd, typed, audited, ended>>
      BY <1>3 DEF Line
    <3>3. QED
      BY <3>1, <3>2 DEF InjectEffect
  <2>2. CASE class # "inject"
    BY <1>3, <2>2 DEF Line, InjectEffect, injectVars
  <2>3. QED
    BY <2>1, <2>2
<1>4. CASE Serve
  BY <1>4, CallersAssumption DEF Serve, Microtasks, ToolEnds, InjectStep, InjectEffect
<1>5. CASE Eof
  BY <1>5 DEF Eof, InjectEffect
<1>6. ASSUME NEW r \in Requests, ParseError(r)
      PROVE  InjectEffect
  BY <1>6 DEF ParseError, InjectEffect
<1>7. QED
  BY <1>1, <1>2, <1>3, <1>4, <1>5, <1>6 DEF Next

\* What holds of the calls is an invariant of the server and its surroundings.
THEOREM CallsInvariant == Spec => []CallsInv
<1>1. McpInit => CallsInv
  BY CallsInit DEF McpInit
<1>2. CallsInv /\ [Next]_vars => CallsInv'
  <2>1. UNCHANGED vars => InjectEffect
    BY DEF vars, InjectEffect
  <2>2. QED
    BY <2>1, NextEffect, CallsStep
<1>3. QED
  BY <1>1, <1>2, PTL DEF Spec

\* tools.ts:275, lock.ts:7-9: two calls that the lock lets through are never
\* both under way for sessions whose directories conflict, if every session is
\* listed.
THEOREM LockHolds == EverySessionIsListed /\ Spec => []ApprovedApart
<1>1. McpInit => LockInv
  BY LockInit DEF McpInit
<1>2. EverySessionIsListed /\ CallsInv /\ LockInv /\ [Next]_vars => LockInv'
  <2>1. UNCHANGED vars => InjectEffect
    BY DEF vars, InjectEffect
  <2>2. QED
    BY <2>1, NextEffect, LockStep
<1>3. EverySessionIsListed => EverySessionIsListed'
  BY DEF EverySessionIsListed
<1>4. QED
  BY <1>1, <1>2, <1>3, CallsInvariant, LockSafe, PTL DEF Spec

\* The elements of a sequence with one more, or with another one behind it.
LEMMA ToSetAppend ==
  ASSUME NEW S, NEW s \in Seq(S), NEW e \in S
  PROVE  Append(s, e) \in Seq(S) /\ ToSet(Append(s, e)) = ToSet(s) \union {e}
<1>1. /\ Append(s, e) \in Seq(S) /\ DOMAIN Append(s, e) = DOMAIN s \union {Len(s) + 1}
      /\ Append(s, e)[Len(s) + 1] = e /\ \A i \in DOMAIN s : Append(s, e)[i] = s[i]
  OBVIOUS
<1>2. QED
  BY <1>1 DEF ToSet

\* The same for two sequences.
LEMMA ToSetConcat ==
  ASSUME NEW S, NEW s \in Seq(S), NEW t \in Seq(S)
  PROVE  s \o t \in Seq(S) /\ ToSet(s \o t) = ToSet(s) \union ToSet(t)
<1>1. /\ s \o t \in Seq(S) /\ Len(s) \in Nat /\ Len(t) \in Nat
      /\ DOMAIN s = 1..Len(s) /\ DOMAIN t = 1..Len(t)
      /\ DOMAIN (s \o t) = 1..(Len(s) + Len(t))
      /\ \A i \in DOMAIN s : (s \o t)[i] = s[i]
      /\ \A i \in DOMAIN t : (s \o t)[Len(s) + i] = t[i]
  OBVIOUS
<1>2. \A i \in DOMAIN s : i \in DOMAIN (s \o t)
  BY <1>1
<1>3. \A i \in DOMAIN t : Len(s) + i \in DOMAIN (s \o t)
  BY <1>1
<1>4. ASSUME NEW i \in DOMAIN (s \o t), i \notin DOMAIN s
      PROVE  i - Len(s) \in DOMAIN t /\ i = Len(s) + (i - Len(s))
  BY <1>1, <1>4
<1>5. ToSet(s \o t) \subseteq ToSet(s) \union ToSet(t)
  BY <1>1, <1>4 DEF ToSet
<1>6. ToSet(s) \union ToSet(t) \subseteq ToSet(s \o t)
  BY <1>1, <1>2, <1>3 DEF ToSet
<1>7. QED
  BY <1>1, <1>5, <1>6

\* The elements of a sequence over S are in S.
LEMMA ToSetElements ==
  ASSUME NEW S, NEW s \in Seq(S)
  PROVE  ToSet(s) \subseteq S
BY DEF ToSet

\* The ids in a sequence are those of its elements.
LEMMA IdsOfSet ==
  ASSUME NEW s
  PROVE  {s[i].id : i \in DOMAIN s} = {m.id : m \in ToSet(s)}
BY DEF ToSet

\* What happens to the calls beside the server's own messages: none of its
\* calls begins, and none that has its answer changes it.
LEMMA McpKept ==
  ASSUME McpInv, UNCHANGED mcpVars,
         \A c \in Mcp : /\ call'[c].step = "idle" <=> call[c].step = "idle"
                        /\ call[c].step \in {"ok", "error"} =>
                             call'[c].step = call[c].step,
         ended' => ended \/ Waiting = {}
  PROVE  McpInv'
<1>1. UNCHANGED <<received, soon, later, answers, doomed, Waiting, ReceivedIds, Answered>>
  BY DEF mcpVars, Waiting, ReceivedIds, Answered
<1>2. HeardOK' /\ WaitingOK'
  BY <1>1 DEF McpInv, HeardOK, WaitingOK
<1>3. AtOnceOK'
  BY <1>1 DEF McpInv, AtOnceOK
<1>4. SaidOK'
  BY <1>1 DEF McpInv, SaidOK
<1>5. QED
  BY <1>1, <1>2, <1>3, <1>4 DEF McpInv

\* The exit of the process and its calls.
LEMMA ExitKeepsAnswers ==
  ASSUME CallsInv, ServerExits
  PROVE  \A c \in Mcp : /\ call'[c].step = "idle" <=> call[c].step = "idle"
                        /\ call[c].step \in {"ok", "error"} =>
                             call'[c].step = call[c].step
BY CallersAssumption DEF ServerExits, CallsInv, InjectTypeOK, Call, Over

\* What other processes do does not touch the server's calls.
LEMMA OthersKeepCalls ==
  ASSUME CallsInv, Outside \/ \E c \in Calls \ Mcp : Start(c)
  PROVE  ended' = ended /\ \A c \in Mcp : call'[c] = call[c]
<1>1. ASSUME NEW p \in Pids, Begin(p) \/ End(p)
      PROVE  ended' = ended /\ \A c \in Mcp : call'[c] = call[c]
  BY <1>1 DEF Begin, End
<1>2. ASSUME NEW d \in Calls \ Mcp, CallStep(d) \/ Interrupt(d) \/ Start(d)
      PROVE  ended' = ended /\ \A c \in Mcp : call'[c] = call[c]
  <2>1. ended' = ended
    BY <1>2 DEF CallStep, FindPane, ProviderInject, Discover, Check, DryRun, SendKeys,
       AppendAudit, Interrupt, Start
  <2>2. \E new : call' = [call EXCEPT ![d] = new]
    BY <1>2 DEF CallStep, FindPane, ProviderInject, Discover, Check, DryRun, SendKeys,
       AppendAudit, Interrupt, Start, Request, Goto
  <2>3. QED
    BY <2>1, <2>2, CallersAssumption DEF CallsInv, InjectTypeOK
<1>3. QED
  BY <1>1, <1>2 DEF Outside

\* A message that is read: its id is new, so that nothing was said of it and
\* no call was begun for it.
LEMMA NewMessage ==
  ASSUME McpInv, NEW r \in Requests \ ReceivedIds
  PROVE  /\ r \notin Answered /\ r \notin {a.id : a \in Waiting}
         /\ r \in Mcp => call[r].step = "idle"
<1>1. Answered = {a.id : a \in ToSet(answers)}
  BY IdsOfSet DEF Answered
<1>2. QED
  BY <1>1 DEF McpInv, HeardOK, WaitingOK, SaidOK

\* What happens to the parts of the invariant that do not depend on how the
\* message is treated.
LEMMA HeardOneMore ==
  ASSUME McpInv, NEW r \in Requests \ ReceivedIds, NEW class \in Class,
         received' = Append(received, [id |-> r, class |-> class])
  PROVE  /\ received' \in Seq(Message)
         /\ ToSet(received') = ToSet(received) \union {[id |-> r, class |-> class]}
         /\ ReceivedIds' = ReceivedIds \union {r}
<1>1. [id |-> r, class |-> class] \in Message
  BY DEF Message
<1>2. /\ received' \in Seq(Message)
      /\ ToSet(received') = ToSet(received) \union {[id |-> r, class |-> class]}
  BY <1>1, ToSetAppend DEF McpInv
<1>3. /\ ReceivedIds = {m.id : m \in ToSet(received)}
      /\ ReceivedIds' = {m.id : m \in ToSet(received')}
  BY IdsOfSet DEF ReceivedIds
<1>4. QED
  BY <1>2, <1>3

\* An answer has the id of its message.
LEMMA AnswerIsReply ==
  ASSUME NEW r, NEW outcome \in Outcome
  PROVE  /\ r \in Requests => Answer(r, outcome) \in Reply
         /\ Answer(r, outcome).id = r /\ Answer(r, outcome).outcome = outcome
BY DEF Answer, Reply

\* A line that does not parse is answered at once.
LEMMA McpParseError ==
  ASSUME McpInv, NEW r \in Requests, ParseError(r)
  PROVE  McpInv'
<1>1. /\ UNCHANGED <<call, ended, soon, later, doomed, Waiting>> /\ r \notin ReceivedIds
      /\ received' = Append(received, [id |-> r, class |-> "parse"])
      /\ answers' = Append(answers, Answer(r, "error"))
  BY DEF ParseError, injectVars, Waiting
<1>2. /\ received' \in Seq(Message)
      /\ ToSet(received') = ToSet(received) \union {[id |-> r, class |-> "parse"]}
      /\ ReceivedIds' = ReceivedIds \union {r}
  BY <1>1, HeardOneMore DEF Class
<1>3. /\ answers' \in Seq(Reply)
      /\ ToSet(answers') = ToSet(answers) \union {Answer(r, "error")}
  BY <1>1, AnswerIsReply, ToSetAppend DEF McpInv, Outcome
<1>4. Answered' = Answered \union {r}
  <2>1. Answered = {a.id : a \in ToSet(answers)} /\ Answered' = {a.id : a \in ToSet(answers')}
    BY IdsOfSet DEF Answered
  <2>2. QED
    BY <1>3, <2>1, AnswerIsReply DEF Outcome
<1>5. /\ r \notin {a.id : a \in Waiting}
      /\ r \in Mcp => call[r].step = "idle"
  BY <1>1, NewMessage
<1>6. HeardOK'
  BY <1>1, <1>2, <1>5 DEF McpInv, HeardOK
<1>7. AtOnceOK'
  BY <1>1, <1>2, <1>4 DEF McpInv, AtOnceOK
<1>8. WaitingOK'
  BY <1>1, <1>2, <1>4, <1>5 DEF McpInv, WaitingOK
<1>9. SaidOK'
  BY <1>1, <1>2, <1>3, <1>5 DEF McpInv, SaidOK, Answer
<1>10. QED
  BY <1>1, <1>2, <1>3, <1>6, <1>7, <1>8, <1>9 DEF McpInv

\* dispatch() is never through with a message that it leaves unanswered for
\* no other reason than an error.
LEMMA DispatchClasses == Dispatch \subseteq Class \ {"isError", "parse"}
<1>1. ToolClasses \subseteq {"refused", "sure", "tool", "inject"}
  BY DEF ToolClasses, SnapshotTool, SessionsTool, TranscriptTool, TodosListTool,
     TodosAddTool, TodosCompleteTool, AuditTailTool, InjectTool
<1>2. \A h \in BOOLEAN :
        {Initialize(h), Initialized(h), Ping(h), ToolsList(h),
         UnknownMethod(h), InvalidEnvelope(h), UnknownTool(h)} \subseteq
           {"result", "none", "error"}
  BY DEF Initialize, Initialized, Ping, ToolsList, UnknownMethod, InvalidEnvelope,
     UnknownTool
<1>3. Dispatch \subseteq {"refused", "sure", "tool", "inject", "result", "none", "error", "crash"}
  <2> DEFINE Answers(h) == {Initialize(h), Initialized(h), Ping(h), ToolsList(h),
                            UnknownMethod(h), InvalidEnvelope(h), UnknownTool(h)}
  <2>1. ASSUME NEW d \in Dispatch
        PROVE  d \in ToolClasses \/ d = NullLine \/ \E h \in BOOLEAN : d \in Answers(h)
    BY <2>1 DEF Dispatch
  <2>2. \A h \in BOOLEAN : Answers(h) \subseteq {"result", "none", "error"}
    BY <1>2
  <2> HIDE DEF Answers
  <2>3. QED
    BY <1>1, <2>1, <2>2 DEF NullLine
<1>4. QED
  BY <1>3 DEF Class, Outcome

\* A line is dispatched: its answer waits for a microtask, or its call begins,
\* or it runs a tool, or it is one that gets no answer.
LEMMA McpLine ==
  ASSUME CallsInv, McpInv, NEW r \in Requests, NEW class \in Dispatch,
         class = "inject" => r \in Mcp, Line(r, class)
  PROVE  McpInv'
<1>1. /\ ~ended /\ r \notin ReceivedIds
      /\ received' = Append(received, [id |-> r, class |-> class])
      /\ soon' = (IF class \in {"result", "error"}
                 THEN Append(soon, Answer(r, class)) ELSE soon)
      /\ later' = (IF class = "refused" THEN Append(later, Answer(r, "isError")) ELSE later)
      /\ doomed' = (doomed \/ class = "crash")
      /\ IF class = "inject" THEN Request(r, "mcp") ELSE UNCHANGED call
      /\ UNCHANGED <<ended, answers, Answered>>
  BY DEF Line, Answered
<1>2. class \in Class /\ class \notin {"isError", "parse"}
  BY DispatchClasses
<1>3. /\ received' \in Seq(Message)
      /\ ToSet(received') = ToSet(received) \union {[id |-> r, class |-> class]}
      /\ ReceivedIds' = ReceivedIds \union {r}
  BY <1>1, <1>2, HeardOneMore
<1>4. /\ r \notin Answered /\ r \notin {a.id : a \in Waiting}
      /\ r \in Mcp => call[r].step = "idle"
  BY <1>1, NewMessage
<1>5. /\ soon' \in Seq(Reply)
      /\ ToSet(soon') = ToSet(soon) \union
           (IF class \in {"result", "error"} THEN {Answer(r, class)} ELSE {})
  <2>1. CASE class \in {"result", "error"}
    BY <1>1, <2>1, AnswerIsReply, ToSetAppend DEF McpInv, Outcome
  <2>2. CASE class \notin {"result", "error"}
    BY <1>1, <2>2 DEF McpInv
  <2>3. QED
    BY <2>1, <2>2
<1>6. /\ later' \in Seq(Reply)
      /\ ToSet(later') = ToSet(later) \union
           (IF class = "refused" THEN {Answer(r, "isError")} ELSE {})
  <2>1. CASE class = "refused"
    BY <1>1, <2>1, AnswerIsReply, ToSetAppend DEF McpInv, Outcome
  <2>2. CASE class # "refused"
    BY <1>1, <2>2 DEF McpInv
  <2>3. QED
    BY <2>1, <2>2
<1>7. \A d \in Mcp : /\ d # r => call'[d] = call[d]
                     /\ d = r => (call'[d].step = "idle" <=> class # "inject")
  <2>1. CASE class = "inject"
    BY <1>1, <1>4, <2>1, CallersAssumption DEF Request, CallsInv, InjectTypeOK
  <2>2. CASE class # "inject"
    BY <1>1, <1>4, <2>2
  <2>3. QED
    BY <2>1, <2>2
<1>8. HeardOK'
  <2>1. \A m \in ToSet(received) : m.id # r
    <3>1. ReceivedIds = {m.id : m \in ToSet(received)}
      BY IdsOfSet DEF ReceivedIds
    <3>2. QED
      BY <1>1, <3>1
  <2>2. \A m \in ToSet(received') :
          m.id \in Mcp => (m.class = "inject" <=> call'[m.id].step # "idle")
    BY <1>3, <1>7, <2>1 DEF McpInv, HeardOK
  <2>3. \A c \in Mcp \ ReceivedIds' : call'[c].step = "idle"
    BY <1>3, <1>7 DEF McpInv, HeardOK
  <2>4. QED
    BY <2>2, <2>3 DEF HeardOK
<1>9. Waiting' = Waiting \union
        (IF class \in {"result", "error"} THEN {Answer(r, class)}
         ELSE IF class = "refused" THEN {Answer(r, "isError")} ELSE {})
  BY <1>5, <1>6 DEF Waiting
<1>10. AtOnceOK'
  <2>1. ASSUME NEW m \in ToSet(received'),
               m.class \in Outcome \union {"parse", "refused"}
        PROVE  m.id \in Answered \union {a.id : a \in Waiting'}
    <3>1. CASE m \in ToSet(received)
      BY <1>9, <2>1, <3>1 DEF McpInv, AtOnceOK
    <3>2. CASE m = [id |-> r, class |-> class]
      <4>1. class \in {"result", "error", "refused"}
        BY <1>2, <2>1, <3>2 DEF Outcome
      <4>2. \E a \in Waiting' : a.id = r
        BY <1>9, <4>1, AnswerIsReply DEF Outcome
      <4>3. QED
        BY <3>2, <4>2
    <3>3. QED
      BY <1>3, <3>1, <3>2
  <2>2. QED
    BY <1>1, <2>1 DEF AtOnceOK
<1>11. WaitingOK'
  <2>1. \A a \in Waiting : a.id \in ReceivedIds \ Answered /\ a.id # r
    BY <1>4 DEF McpInv, WaitingOK
  <2>2. \A a \in Waiting' \ Waiting : a.id = r /\ class # "inject"
    BY <1>9 DEF Answer
  <2>3. QED
    BY <1>1, <1>3, <1>4, <1>7, <2>1, <2>2 DEF McpInv, WaitingOK
<1>12. SaidOK'
  <2>1. \A a \in ToSet(answers) : a.id # r
    BY <1>1 DEF McpInv, SaidOK
  <2>2. QED
    BY <1>1, <1>3, <1>7, <2>1 DEF McpInv, SaidOK
<1>13. doomed' \in BOOLEAN
  BY <1>1 DEF McpInv
<1>14. QED
  BY <1>1, <1>3, <1>5, <1>6, <1>8, <1>10, <1>11, <1>12, <1>13 DEF McpInv

\* The chunk is done: all that waited is said, and the process may exit.
LEMMA McpMicrotasks ==
  ASSUME CallsInv, McpInv, Microtasks
  PROVE  McpInv'
<1>1. /\ answers' = answers \o soon \o later
      /\ soon' = <<>> /\ later' = <<>> /\ doomed' = FALSE
      /\ UNCHANGED <<received, ReceivedIds>>
  BY DEF Microtasks, ReceivedIds
<1>2. \A c \in Mcp : /\ call'[c].step = "idle" <=> call[c].step = "idle"
                     /\ call[c].step \in {"ok", "error"} => call'[c].step = call[c].step
  BY ExitKeepsAnswers DEF Microtasks, injectVars
<1>3. /\ soon' \in Seq(Reply) /\ later' \in Seq(Reply) /\ Waiting' = {}
  BY <1>1 DEF Waiting, ToSet
<1>4. answers' \in Seq(Reply) /\ ToSet(answers') = ToSet(answers) \union Waiting
  <2>1. /\ answers \o soon \in Seq(Reply)
        /\ ToSet(answers \o soon) = ToSet(answers) \union ToSet(soon)
    BY ToSetConcat DEF McpInv
  <2>2. /\ (answers \o soon) \o later \in Seq(Reply)
        /\ ToSet((answers \o soon) \o later) = ToSet(answers \o soon) \union ToSet(later)
    <3> DEFINE first == answers \o soon
    <3>1. first \in Seq(Reply) /\ later \in Seq(Reply)
      BY <2>1 DEF McpInv
    <3> HIDE DEF first
    <3>2. first \o later \in Seq(Reply) /\ ToSet(first \o later) = ToSet(first) \union ToSet(later)
      BY <3>1, ToSetConcat
    <3>3. QED
      BY <3>2 DEF first
  <2>3. QED
    BY <1>1, <2>1, <2>2 DEF Waiting
<1>5. Answered' = Answered \union {a.id : a \in Waiting}
  <2>1. Answered = {a.id : a \in ToSet(answers)} /\ Answered' = {a.id : a \in ToSet(answers')}
    BY IdsOfSet DEF Answered
  <2>2. QED
    BY <1>4, <2>1
<1>6. HeardOK'
  BY <1>1, <1>2 DEF McpInv, HeardOK
<1>7. AtOnceOK'
  BY <1>1, <1>3, <1>5 DEF McpInv, AtOnceOK
<1>8. SaidOK'
  BY <1>1, <1>2, <1>4 DEF McpInv, SaidOK, WaitingOK
<1>9. QED
  BY <1>1, <1>3, <1>4, <1>6, <1>7, <1>8 DEF McpInv, WaitingOK

\* An answer is added while none waits.
LEMMA McpAnswer ==
  ASSUME McpInv, Quiet, UNCHANGED <<received, soon, later, doomed, ended>>,
         NEW r \in ReceivedIds \intersect Requests, NEW outcome \in Outcome,
         answers' = Append(answers, Answer(r, outcome))
  PROVE  /\ answers' \in Seq(Reply)
         /\ ToSet(answers') = ToSet(answers) \union {Answer(r, outcome)}
         /\ Answered' = Answered \union {r}
         /\ Waiting' = {} /\ AtOnceOK' /\ WaitingOK'
<1>1. /\ answers' \in Seq(Reply)
      /\ ToSet(answers') = ToSet(answers) \union {Answer(r, outcome)}
  BY AnswerIsReply, ToSetAppend DEF McpInv
<1>2. Answered' = Answered \union {r}
  <2>1. Answered = {a.id : a \in ToSet(answers)} /\ Answered' = {a.id : a \in ToSet(answers')}
    BY IdsOfSet DEF Answered
  <2>2. QED
    BY <1>1, <2>1, AnswerIsReply
<1>3. Waiting = {} /\ Waiting' = {}
  BY DEF Quiet, Waiting, ToSet
<1>4. AtOnceOK'
  BY <1>2, <1>3 DEF McpInv, AtOnceOK
<1>5. QED
  BY <1>1, <1>2, <1>3, <1>4 DEF WaitingOK

\* A tool that is not an inject call answers.
LEMMA McpToolEnds ==
  ASSUME McpInv, NEW m \in ToSet(received), ToolEnds(m)
  PROVE  McpInv'
<1>1. /\ Quiet /\ m.class \in {"tool", "sure"}
      /\ UNCHANGED <<call, ended, received, soon, later, doomed, ReceivedIds>>
  BY DEF ToolEnds, injectVars, ReceivedIds
<1>2. PICK outcome \in Outcome : answers' = Append(answers, Answer(m.id, outcome))
  BY DEF ToolEnds, Outcome
<1>3. m.id \in ReceivedIds /\ m.id \in Requests
  <2>1. ReceivedIds = {n.id : n \in ToSet(received)}
    BY IdsOfSet DEF ReceivedIds
  <2>2. m \in Message
    BY DEF McpInv, ToSet
  <2>3. QED
    BY <2>1, <2>2 DEF Message
<1>4. m.id \in Mcp => call[m.id].step = "idle"
  BY <1>1 DEF McpInv, HeardOK
<1>5. /\ answers' \in Seq(Reply)
      /\ ToSet(answers') = ToSet(answers) \union {Answer(m.id, outcome)}
      /\ Waiting' = {} /\ AtOnceOK' /\ WaitingOK'
  BY <1>1, <1>2, <1>3, McpAnswer
<1>6. HeardOK'
  BY <1>1 DEF McpInv, HeardOK
<1>7. SaidOK'
  BY <1>1, <1>3, <1>4, <1>5, AnswerIsReply DEF McpInv, SaidOK
<1>8. QED
  BY <1>1, <1>5, <1>6, <1>7 DEF McpInv

\* An inject call of the server takes a step; only its last one is answered.
LEMMA McpInjectStep ==
  ASSUME CallsInv, McpInv, NEW c \in Mcp, InjectStep(c)
  PROVE  McpInv'
<1>1. /\ Quiet /\ CallStep(c) /\ c \in Calls
      /\ UNCHANGED <<ended, received, soon, later, doomed, ReceivedIds, Waiting>>
  BY CallersAssumption DEF InjectStep, CallStep, FindPane, ProviderInject, Discover, Check,
     DryRun, SendKeys, AppendAudit, ReceivedIds, Waiting
<1>2. PICK s \in Step \ {"idle"}, f \in [Pids -> Dirs \union {NoDir}] :
        call' = [call EXCEPT ![c].step = s, ![c].found = f]
  BY <1>1, StepShape
<1>3. call[c].step \notin {"idle", "ok", "error", "dead"}
  BY <1>1 DEF CallStep, FindPane, ProviderInject, Discover, Check, DryRun, SendKeys,
     AppendAudit, MayAudit, At
<1>4. call'[c].step = s /\ \A d \in Mcp \ {c} : call'[d] = call[d]
  BY <1>1, <1>2, CallersAssumption DEF CallsInv, InjectTypeOK, Call
<1>5. c \in ReceivedIds /\ c \in Requests
  BY <1>3, RequestsAssumption DEF McpInv, HeardOK
<1>6. HeardOK'
  BY <1>1, <1>3, <1>4 DEF McpInv, HeardOK
<1>7. \A a \in ToSet(answers) : a.id = c => a.outcome \notin {"result", "isError"}
  BY <1>3 DEF McpInv, SaidOK
<1>8. \A a \in ToSet(answers) :
        /\ a.id \in ReceivedIds'
        /\ a.id \in Mcp /\ call'[a.id].step # "idle" =>
             /\ a.outcome = "result" => call'[a.id].step = "ok"
             /\ a.outcome = "isError" => call'[a.id].step = "error"
  BY <1>1, <1>4, <1>7 DEF McpInv, SaidOK
<1>9. CASE s \notin {"ok", "error"}
  <2>1. UNCHANGED <<answers, Answered>>
    BY <1>4, <1>9 DEF InjectStep, Answered
  <2>2. AtOnceOK' /\ WaitingOK'
    <3>1. Waiting' = {}
      BY <1>1 DEF Quiet, Waiting, ToSet
    <3>2. QED
      BY <1>1, <2>1, <3>1 DEF McpInv, AtOnceOK, WaitingOK
  <2>3. SaidOK'
    BY <1>8, <2>1 DEF SaidOK
  <2>4. QED
    BY <1>1, <1>6, <2>1, <2>2, <2>3 DEF McpInv
<1>10. CASE s \in {"ok", "error"}
  <2> DEFINE outcome == IF s = "ok" THEN "result" ELSE "isError"
  <2>1. outcome \in Outcome
    BY DEF Outcome
  <2>2. answers' = Append(answers, Answer(c, outcome))
    BY <1>4, <1>10 DEF InjectStep
  <2>3. /\ answers' \in Seq(Reply)
        /\ ToSet(answers') = ToSet(answers) \union {Answer(c, outcome)}
        /\ Waiting' = {} /\ AtOnceOK' /\ WaitingOK'
    <3> HIDE DEF outcome
    <3>1. QED
      BY <1>1, <1>5, <2>1, <2>2, McpAnswer
  <2>4. /\ Answer(c, outcome).id = c /\ Answer(c, outcome).outcome = outcome
        /\ outcome = "result" => s = "ok"
        /\ outcome = "isError" => s = "error"
    BY <1>10, <2>1, AnswerIsReply
  <2>5. SaidOK'
    <3> HIDE DEF outcome
    <3>1. QED
      BY <1>1, <1>4, <1>5, <1>8, <2>3, <2>4 DEF SaidOK
  <2>6. QED
    BY <1>1, <1>6, <2>3, <2>5 DEF McpInv
<1>11. QED
  BY <1>9, <1>10

\* Whatever happens keeps what holds of the messages.
LEMMA McpStep ==
  ASSUME CallsInv, McpInv, Next
  PROVE  McpInv'
<1>1. CASE Outside /\ UNCHANGED mcpVars
  BY <1>1, OthersKeepCalls, McpKept
<1>2. ASSUME NEW c \in Calls \ Mcp, Start(c), UNCHANGED mcpVars
      PROVE  McpInv'
  BY <1>2, OthersKeepCalls, McpKept
<1>3. CASE Eof
  <2>1. Waiting = {} /\ UNCHANGED mcpVars /\ ServerExits
    BY <1>3 DEF Eof, MayClose, Quiet, Waiting, ToSet
  <2>2. QED
    BY <2>1, ExitKeepsAnswers, McpKept
<1>4. CASE Serve
  BY <1>4, McpMicrotasks, McpToolEnds, McpInjectStep DEF Serve
<1>5. ASSUME NEW r \in Requests, \/ ParseError(r)
                                 \/ \E class \in Dispatch :
                                      (class = "inject" => r \in Mcp) /\ Line(r, class)
      PROVE  McpInv'
  BY <1>5, McpParseError, McpLine
<1>6. QED
  BY <1>1, <1>2, <1>3, <1>4, <1>5 DEF Next

\* At first nothing has been read.
LEMMA McpStart == McpInit => McpInv
<1> SUFFICES ASSUME McpInit
             PROVE  McpInv
  OBVIOUS
<1>1. ToSet(<<>>) = {}
  BY DEF ToSet
<1>2. \A c \in Mcp : call[c].step = "idle"
  BY CallersAssumption DEF McpInit, InjectInit, NoCall
<1>3. QED
  <2>1. Waiting = {} /\ ToSet(received) = {} /\ ToSet(answers) = {}
    BY <1>1 DEF McpInit, Waiting
  <2>2. HeardOK /\ AtOnceOK /\ WaitingOK /\ SaidOK
    BY <1>2, <2>1 DEF HeardOK, AtOnceOK, WaitingOK, SaidOK
  <2>3. doomed \in BOOLEAN
    BY DEF McpInit
  <2>4. received \in Seq(Message) /\ soon \in Seq(Reply) /\ later \in Seq(Reply) /\ answers \in Seq(Reply)
    BY DEF McpInit
  <2>5. QED
    BY <2>1, <2>2, <2>3, <2>4 DEF McpInv

\* What holds of the messages and the answers is an invariant.
THEOREM McpInvariant == Spec => []McpInv
<1>1. CallsInv /\ McpInv /\ [Next]_vars => McpInv'
  <2>1. ASSUME McpInv, UNCHANGED vars
        PROVE  McpInv'
    BY <2>1, McpKept DEF vars, injectVars
  <2>2. QED
    BY <2>1, McpStep
<1>2. QED
  BY <1>1, McpStart, CallsInvariant, PTL DEF Spec

\* The shapes of the calls, of the messages and of the answers.
THEOREM McpTypeCorrect == Spec => []TypeOK
<1>1. CallsInv /\ McpInv => TypeOK
  <2> SUFFICES ASSUME CallsInv, McpInv
               PROVE  TypeOK
    OBVIOUS
  <2>1. \A m \in ToSet(received) : m.id \in Requests /\ m.class \in Class
    BY ToSetElements DEF McpInv, Message
  <2>2. \A a \in ToSet(answers) : a.id \in Requests /\ a.outcome \in Outcome
    BY ToSetElements DEF McpInv, Reply
  <2>3. ToSet(soon \o later) = Waiting
    BY ToSetConcat DEF McpInv, Waiting
  <2>4. Answered = {b.id : b \in ToSet(answers)}
    BY IdsOfSet DEF Answered
  <2>5. QED
    BY <2>1, <2>2, <2>3, <2>4 DEF TypeOK, CallsInv, McpInv, WaitingOK
<1>2. QED
  BY <1>1, CallsInvariant, McpInvariant, PTL

\* What a client and the audit log are told of an inject call is what happened
\* to the pane: a result means typed or a dry run, isError that nothing was
\* typed, an audit line that something was.
THEOREM AnswersAreTrue == Spec => []TellsTheTruth
<1>1. CallsInv /\ McpInv => TellsTheTruth
  <2> SUFFICES ASSUME CallsInv, McpInv
               PROVE  TellsTheTruth
    OBVIOUS
  <2>1. audited \subseteq typed
    BY DEF CallsInv, InjectTypeOK, CallOK
  <2>2. ASSUME NEW a \in ToSet(answers), a.id \in Calls, call[a.id].step # "idle"
        PROVE  /\ a.outcome = "result" => a.id \in typed \/ call[a.id].dry
               /\ a.outcome = "isError" => a.id \notin typed
    <3>1. a \in Reply
      BY DEF McpInv, ToSet
    <3>2. a.id \in Mcp
      BY <2>2, <3>1, RequestsAssumption DEF Reply
    <3>3. /\ a.outcome = "result" => call[a.id].step = "ok"
          /\ a.outcome = "isError" => call[a.id].step = "error"
      BY <2>2, <3>2 DEF McpInv, SaidOK
    <3>4. CallOK(a.id)
      BY <2>2 DEF CallsInv
    <3>5. QED
      BY <3>3, <3>4 DEF CallOK
  <2>3. QED
    BY <2>1, <2>2 DEF TellsTheTruth
<1>2. QED
  BY <1>1, CallsInvariant, McpInvariant, PTL

\* commands/mcp.ts:48-50: what needs no I/O has been answered when the process
\* exits on the end of its input.
THEOREM PipesAreAnswered == Spec => []PipedIsAnswered
<1>1. McpInv => PipedIsAnswered
  BY DEF McpInv, AtOnceOK, PipedIsAnswered
<1>2. QED
  BY <1>1, McpInvariant, PTL
==============================================================================
