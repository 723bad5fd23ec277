------------------------------- MODULE Snapshot -------------------------------
(* buildSnapshot (src/src/sessions/snapshot.ts) for one session: the status   *)
(* that refinedStatusFor derives or has cached, the last assistant turn, read *)
(* later, and what suggestNext (src/src/sessions/suggest.ts) makes of both,   *)
(* later still.  Derivations start only through the cache, one at a time      *)
(* (SessionsPoller has several at once).                                      *)
EXTENDS Transcript

CONSTANTS CacheTTL,   \* CACHE_TTL_MS, in units of time
          MaxCompose  \* a snapshot takes no longer than this after its status

\* Two seconds of cache and what ps, lsof and tmux take are less than 30.
ASSUME ComposeAssumption ==
  /\ CacheTTL \in Nat \ {0} /\ MaxCompose \in Nat
  /\ CacheTTL + MaxCompose <= Threshold

VARIABLES cacheAge,  \* time since the verdict was cached, up to CacheTTL
          snap,      \* the snapshot under way
          suggested  \* the suggestion of the last snapshot

snapshotVars == <<vars, cacheAge, snap, suggested>>

Snap == [step : {"none", "deriving", "text", "compose"},
         status : Status \union {"none"}, asks : BOOLEAN, spent : 0..MaxCompose]
NoSnap == [step |-> "none", status |-> "none", asks |-> FALSE, spent |-> 0]
Composing == snap.step \in {"text", "compose"}
Suggestion == [action : {"inject y", "inject ok", "none"},
               confidence : {"high", "low"}]
NoSuggestion == [action |-> "none", confidence |-> "low"]

\* Shapes; a snapshot that waits for the derivation has one to wait for.
SnapshotTypeOK ==
  /\ TypeOK
  /\ cacheAge \in 0..CacheTTL
  /\ snap \in Snap
  /\ suggested \in Suggestion
  /\ snap.step = "deriving" => reader.step # 0
  /\ Composing <=> snap.status # "none"
  /\ snap.asks => snap.step = "compose"

SnapshotInit ==
  /\ Init
  /\ cacheAge = CacheTTL
  /\ snap = NoSnap
  /\ suggested = NoSuggestion

-----------------------------------------------------------------------------
\* Mutant: what is in the cache is good for ever.
CacheHeldForever == verdict # "none"
\* cache && Date.now() - cache.at < CACHE_TTL_MS
CacheHeld == verdict # "none" /\ cacheAge < CacheTTL

\* Somebody else, a poller or a request, asks for the status.
OthersAsk ==
  /\ ~CacheHeld /\ Derive
  /\ UNCHANGED <<cacheAge, snap, suggested>>

\* buildSnapshot awaits refinedStatusFor: the cache answers, or a derivation
\* of its own.
BeginSnapshot ==
  /\ snap.step = "none"
  /\ \/ /\ CacheHeld
        /\ snap' = [NoSnap EXCEPT !.step = "text", !.status = verdict]
        /\ UNCHANGED vars
     \/ /\ ~CacheHeld /\ Derive
        /\ snap' = [NoSnap EXCEPT !.step = "deriving"]
  /\ suggested' = NoSuggestion
  /\ UNCHANGED cacheAge

\* The derivation's reads; when it returns it is cached, and the snapshot that
\* started it goes on with it.
DeriveStep ==
  /\ ReadLast \/ ReadPending \/ ReturnPending \/ ReadStat
  /\ \/ reader'.step # 0 /\ UNCHANGED <<cacheAge, snap>>
     \/ /\ reader'.step = 0
        /\ cacheAge' = 0
        /\ snap' = IF snap.step = "deriving"
                   THEN [snap EXCEPT !.step = "text", !.status = verdict']
                   ELSE snap
  /\ UNCHANGED suggested

\* last_assistant_summary: the last assistant turn of the tail, by whether its
\* first text looks like an approval prompt; a call of a tool has no text.
LastAsks(s) ==
  Turns(s) # {} /\ LET turn == s[Max(Turns(s))] IN turn.kind # "use" /\ turn.asks

\* suggestNext; nothing derives "crashed".
SuggestNext(status, asks) ==
  CASE status = "awaiting_user_input" ->
         IF asks THEN [action |-> "inject y", confidence |-> "high"]
         ELSE [action |-> "inject ok", confidence |-> "low"]
    [] status \in {"tool_pending", "working"} ->
         [action |-> "none", confidence |-> "high"]
    [] status = "idle" -> NoSuggestion

\* extractLastAssistantTurn(...).catch(() => null)
ReadText ==
  /\ snap.step = "text"
  /\ \E t \in Tails :
       /\ ReadTail(t)
       /\ snap' = [snap EXCEPT !.step = "compose", !.asks = LastAsks(t)]
  /\ UNCHANGED <<lines, partial, age, reader, verdict, cacheAge, suggested>>

\* composeSnapshot, after the awaits for the conflicts and for tmux.
Compose ==
  /\ snap.step = "compose"
  /\ suggested' = SuggestNext(snap.status, snap.asks)
  /\ snap' = NoSnap
  /\ UNCHANGED <<vars, cacheAge>>

\* Time passes for the file, the cache and whatever is under way.
SnapshotTick ==
  /\ ~Composing \/ snap.spent < MaxCompose
  /\ \/ Tick
     \/ /\ age = Threshold /\ reader.step = 0
        /\ cacheAge < CacheTTL \/ Composing
        /\ UNCHANGED vars
  /\ cacheAge' = IF cacheAge < CacheTTL THEN cacheAge + 1 ELSE cacheAge
  /\ snap' = IF Composing THEN [snap EXCEPT !.spent = @ + 1] ELSE snap
  /\ UNCHANGED suggested

SnapshotWrite == Write /\ UNCHANGED <<cacheAge, snap, suggested>>

SnapshotNext ==
  \/ SnapshotWrite \/ SnapshotTick \/ OthersAsk
  \/ BeginSnapshot \/ DeriveStep \/ ReadText \/ Compose

\* Somebody polls, reads come back, time passes; the session may stop writing.
SnapshotSpec ==
  /\ SnapshotInit /\ [][SnapshotNext]_snapshotVars
  /\ WF_snapshotVars(SnapshotTick) /\ WF_snapshotVars(OthersAsk)
  /\ WF_snapshotVars(DeriveStep)
  /\ WF_snapshotVars(ReadText) /\ WF_snapshotVars(Compose)
-----------------------------------------------------------------------------
\* buildTranscript: the last `limit` turns of the tail, of both roles.
BuildTranscript(s, limit) ==
  LET turns == TailLines(s)
  IN  SubSeq(turns, IF Len(turns) < limit THEN 1 ELSE Len(turns) - limit + 1, Len(turns))

\* suggest.ts:9-10: what an auto-pilot may inject (high confidence, "y") answers
\* a question.  The status may be as old as the cache, the text is read later
\* and both are used later still; yet if the file is quiet when the suggestion
\* is made, its last assistant turn is finished, asks, and no tool is open, and
\* so a reader of the transcript sees it.  (While the file is being written it
\* may not be.)
QuietApprovalIsRight ==
  [][snap.step = "compose" /\ snap'.step = "none" /\ suggested'.action = "inject y"
       /\ age = Threshold =>
       /\ suggested'.confidence = "high"
       /\ LastAssistantTurn(BuildTranscript(lines, Window)) = "end"
       /\ LastAsks(BuildTranscript(lines, Window))
       /\ PendingToolUses(lines) = {}]_snapshotVars
===============================================================================
