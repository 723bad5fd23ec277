# agent-conductor in TLA+

agent-conductor watches AI coding sessions that run in tmux panes: it finds
their processes, reads the tail of their JSONL transcripts, derives a status,
suggests a next step, types into their panes under a directory lock and keeps
an audit log. A daemon serves this over HTTP and WebSocket, an MCP server over
stdio, and a reminders bridge polls Apple Reminders. Everything is TypeScript on
one event loop per process, so the interesting interleavings are those between
`await`s, between processes that share a file, and with the sessions, clients
and operating system outside.

The modules here are translated from `src/src/`; `PROJECT.json` maps each
definition to the lines it stands for.

## The system and its hard parts

| Component | State it keeps | Operations | Who it interacts with |
|---|---|---|---|
| audit log (`tmux/audit.ts`) | `writeQueue`, `audit.jsonl`, archives | `appendAudit` | MCP `inject`, CLI `inject`, providers; the file is shared by all their processes |
| reminders poller (`reminders/poll.ts`) | `pollHandle`, `prevState` | start, stop, tick, diff | `listTodos`; the WebSocket hub that starts and stops it |
| sessions diff poller (`http/ws.ts`) | `stopped`, `prev` of each poller | tick, stop | discovery, the status cache, broadcaster, sample store |
| status cache (`sessions/refinedStatus.ts`) | `cache` of two seconds | `refinedStatusFor` | the diff poller and every `/snapshot` request |
| refined status (`refinedStatus.ts`, `jsonl/parser.ts`) | none; reads a file that is being written | `deriveRefinedStatus` | transcripts |
| WebSocket hub (`http/ws.ts`) | clients, subscribers, poller handles | upgrade, close event, `close()` | clients, pollers |
| HTTP server (`http/server.ts`) | its port, `inflight`, connections | `pickPort`, listen, request, routes, response close, `gracefulClose` | clients; other processes that take ports; the readers behind the routes |
| daemon (`http/index.ts`, `cli/commands/serve.ts`) | `closed`, `cachedReport`, `writtenCount` | `startDaemon`, `close`, signals | all of the above |
| sample store, metrics (`timeseries/*.ts`) | the `samples` table | `writeMany`, `prune`, `latestPerPid` | the diff poller, `/metrics`, other daemons on the file |
| inject (`mcp/tools.ts`, `cli/commands/inject.ts`, `providers/*.ts`, `tmux/tmuxMap.ts`) | none of its own | one call: pane, discovery, lock, keys, audit | tmux, `ps`, `lsof`, the lock, the audit log |
| cwd lock (`sessions/lock.ts`) | none | `findGitRoot`, `detectConflict` | the file system |
| snapshot (`sessions/snapshot.ts`, `suggest.ts`) | none | `buildSnapshot`, `composeSnapshot` | the status cache, parser, lock, tmux |
| reminders CLI (`reminders/cli.ts`, `cli/commands/todos.ts`) | `todos.json` in the fallback | `getActiveCli`, `probeAuth`, `listTodos`, `addTodo`, `completeTodo` | `remindctl` and its substitutes; other processes that write the file |
| MCP server (`mcp/server.ts`, `protocol.ts`, `tools.ts`) | the calls under way | line, dispatch, tool, EOF | its client over stdio; discovery, reminders, transcripts, inject, audit log |
| discovery (`discovery/*.ts`), providers | none | `discover` | `ps`, `lsof` |
| CLI front end | none | argument parsing, rendering | everything |

What is hard to test in it, and which properties are aimed at it, is listed
under "hazards" in `PROJECT.json`. In short: timers start work while older work
of the same kind still awaits an answer; a value is read before an `await` and
used after it; a two second cache is shared by callers that ask different
questions; shutdown races clients, handlers, deadlines and a second signal;
files and tables are shared by processes; a prune loop, a rotation or the
rewriting of a file is interrupted half-way; a program that fails (`ps`, `lsof`,
`--version`) is taken for one that has nothing to say; and a process ends while
it still owes an answer.

## Modules

| Module | Models | Notes on the correspondence |
|---|---|---|
| `AppendOnlyLog` | the promise of `appendAudit` | abstract: calls taken in order, each one appended at the end or given up |
| `AuditLog` | `tmux/audit.ts` | `pc` is the await a job stands at: mkdir, stat, rename, append. `queue` is the promise chain with its head running. Any file operation may fail; a process may exit |
| `AuditLogRefinement` | — | the refinement mapping: the lines in the order in which somebody meets them who reads the archives by name and then the live file |
| `AuditTail` | `handleAudit`, `audit_tail`, `agent-conductor audit` | the three readers as functions of the live file; extends `AuditLog` |
| `AuditLogProofs` | — | theorems about `AuditLog`, `AuditTail` and `AuditLogRefinement` |
| `ReminderPoll` | `reminders/poll.ts` | a tick is `asked` (awaits `listTodos`) or `answered`; `Deliver` is everything after the await. `view` is what a subscriber knows by applying the events |
| `TodoStore` | `reminders/cli.ts`, `todosCmd` | a call goes from a probe to a run of the CLI, or to read, open (which truncates) and write of the file; it may fail or be killed at each. Titles are unique and nothing depends on the order of todos, so a list is a set |
| `TodoStoreProofs` | — | theorems about `TodoStore` |
| `Reminders` | — | `ReminderPoll` and an instance of `TodoStore` |
| `RemindersProofs` | — | theorems about `ReminderPoll` and about both halves together |
| `SessionsPoller` | diff poller, status cache, `/snapshot` | a task is one call of `refinedStatusFor` with the discovery before it; `Conclude` is what its caller does with the map |
| `WsHub` | `attachWebSocket` | connection, close event, `close()` with its deadline |
| `HttpDrain` | `startHttpServer`, `gracefulClose` | a connection is silent (nothing or half a request has come: for Node it is not idle), busy, or idle after a response; one request at a time; a response may be aborted; `watched` are the responses that carry the `check` listener |
| `HttpRoutes` | `isLoopbackHost`, `dispatchHttp` and its handlers | operators from a request to the statuses it can come to, or to a rejection |
| `Daemon` | `startDaemon`, `close()`, `exitOn` | extends `WsHub` and `HttpDrain`, adds the store, a tick in flight, the signals and `process.exit` |
| `Serve` | `serveCmd`, `pickPort`, listen, unhandled rejections | extends `Daemon` and `HttpRoutes`: how a daemon comes up among processes that take ports, and what else than a signal ends it |
| `SampleStore` | `timeseries/store.ts` as the pollers use it, `sessions_total` | one action per SQL statement or transaction; rows carry id, ts, pid and status |
| `CwdLock` | `sessions/lock.ts` | operators over a directory tree after `realpath` |
| `Inject` | `injectTool`, `injectCmd`, `inject()` of a provider | one action per await of a call; extends `CwdLock`; sessions start and end freely |
| `McpServer` | `runStdioServer`, `dispatch`, the tools by outcome | extends `Inject`; `soon` and `later` are answers one and two microtasks away, written before any other I/O; the tool `inject` is `Inject`'s call |
| `Transcript` | `deriveRefinedStatus`, the tail readers | a session writes while a derivation makes its three reads |
| `Snapshot` | `buildSnapshot`, `refinedStatusFor`'s cache, `suggestNext` | extends `Transcript`: a status that is cached or derived, a text that is read later, and what is suggested from both later still |
| `ServeProofs`, `SampleStoreProofs`, `InjectProofs`, `SessionsPollerProofs`, `SnapshotProofs` | — | theorems about the modules of these names and those they extend (`InjectProofs` also about `McpServer` and `CwdLock`) |
| `MC*` | — | instances for TLC |

Names follow the source where they can. In every module a definition called
`XAlways`, `XStale`, … with a comment "Mutant:" before the definition it mutates
is a plausible bug in it and is used by nothing else.

## Runs

All runs finish within two minutes. Deadlock is not checked: each of these
systems may rightly come to rest (the process has exited, the bound on changes
is reached, all calls are over).

**`audit`** — one writing process, a limit of one line, six calls, two clock
ticks. Rotation happens several times, with and without a failing file
operation, and the process may exit with calls queued and begin again.
`NothingLost`: no appended line disappears. `NoDoubleRotation`: an archive is
never one that was just begun. `TailIsNewest`: whatever `tail` a reader asks
for, from -1 to more than there is, it sees a run of the newest lines in order,
with no gap. `Settles`: a failing call does not wedge the queue.
`ImplementsLog`: rotation is invisible, the log only grows, in order.

**`reminders`** — the two halves of the component side by side.
*Poller*: one reminder (reminders do not affect each other), two ticks in
flight, two starts, three changes, one rejected `listTodos`.
`SubscriberKnowsPrev`: whoever applies the events can rebuild `prevState`.
`CatchesUp`: the poller catches up once the list rests.
*Calls*: three of them, by the library, the command or an MCP tool, on a machine
with no CLI (the file) or with two of the three; probes, runs, reads and writes
may fail, a caller may be killed between any two of them, and two ids may fall
on one millisecond. `ReadsItsWrites`: whoever lists after an `add` or
`complete` was answered sees it, unless two rewrites overlapped, one was cut off
or under way, or a probe failed and the two calls went to different stores; each
of these exceptions is needed.
`NothingMadeUp`: whatever overlaps and is cut off, no todo appears that nobody
added, and none is done whose id nobody completed. Three calls let two writers
and a reader meet, and let one caller write, another destroy and a third look.
**`reminders_overlap`** (violation) — `NoPhantomCompletion` fails: two
overlapping ticks are delivered in the opposite order of their answers, and a
completion is announced that did not happen.

**`sessions`** — two sessions of two providers, two calls in flight (two ticks, or
a tick and a request, for one provider or for all), two starts of the poller,
one change (a failed discovery counts as one). Two calls let each order of
filling and finding the cache happen, among ticks and between a tick and a
request that fills it with another list. `ClientKnowsPrev`: a client can
rebuild the poller's map from its events, whatever the cache handed out, unless
a tick of an older poller outlived the start. `CatchesUp`: a poller that goes on
comes to know each running session at its true status, unless requests that
leave the session's provider out come for ever (`AskedWith`): the cache then is
always one without it. The exception is needed: with `<>[]polling` as the only
hypothesis the property fails. `GoesQuiet`.
**`sessions_snapshot`** (violation) — `IdleIsDerived` fails: `/snapshot` for one
provider fills the cache, `/snapshot` for all of them within two seconds is
answered from it and shows a working session of another provider as idle.

**`daemon`** — `serve` from its first line: three ports to scan while others take
and free ports twice, then two WebSocket clients, three HTTP connections, two
signals, two requests that come after the drain began, one sample, and requests
of every shape of `HttpRequest`. `BootIsPredictable`: every port below the one
found was in use when it was tried, the range is given up only when all of it
was, and listening on a port that the scan found fails only if it was taken in
between. `BootSettles`: `startDaemon` comes to an end and a process whose start
failed exits, also when a signal comes before there is a handler.
`SurvivesRequests`: no request ends the process, except one whose target
`new URL()` rejects. `PollersFollowClients`, `NoneJoinsLate`, `DrainIsWatched`
(no lost wake-up among the responses the drain found, and a clean drain waited
for each of them), `ClosedInOrder`, `ReportCountsAll` and `SignalEnds`: one
signal is enough to end the process though clients never answer and handlers
never return, unless a connection is held open for ever behind a clean drain
(`HeldOpen`; see the divergences). **`http_wakeup`** (violation) — `TimeoutMeansBusy` fails: a request on a
kept-alive connection overlaps the last watched response, nothing checks again
when it ends, and the drain times out with nothing in flight.
**`daemon_report`** (violation) — `ReportIsTrue` fails: a second signal is told
`httpDrained: true` while the first `close()` is still under way.

**`store`** — one daemon, two sessions in two statuses, a cap of two rows,
batches of up to two, five rows written, two failures or restarts.
`NewestKept`: the table is always the most recent part of what was written, and
at most the cap after a prune that returned. `StaysAtCap`: a prune does
not go below the cap. `GaugeIsCurrent`: `sessions_total` counts every session of
the last status map under its status of that tick, whatever was pruned, if the
cap has room for a row of each; and it counts nothing twice but rows of one
millisecond. `CounterIsExact`. Nothing is said of a prune ending: each turn of
its loop deletes a row or is the last (`store.ts:187`), and no other action of
the daemon comes between two turns.

**`inject`** — an MCP server with up to two messages of any kind, one of which
may be an `inject`, and a call of the CLI or of a library user; two sessions in
a repository with a package directory and a nested worktree.
`ApprovedApart`: two unforced calls are never both past the lock for conflicting
directories, whatever starts or ends between their steps. `TellsTheTruth`: a
client that is told `isError` knows that nothing was typed and may try again,
one that gets a result that it was typed (or was a dry run), and the log never
shows an injection that did not happen. `PipedIsAnswered`: a client that writes
its messages and closes its end at once, as the help of `agent-conductor mcp`
does, gets every answer that needs no I/O, also when a JSON `null` among them
ends the server. Two messages are enough to put an answer that is due now beside
one that is due later, a parse error, or the end. **`inject_lsof`** (violation) —
`ApprovedApart` fails when `lsof` does not answer: the session then counts as
working in the caller's own directory.

**`transcript`** — two tools, three lines, a window of two lines, a cache of one
unit of time, one unit between a snapshot's status and its end, an age
threshold of two, and one read that fails and finds nothing. `AwaitingIsCurrent`: although the last turn, the open tools
and the age are read at three moments, "awaiting" is true at the moment it is
reported. `PendingIsReal`: neither the window nor a half-written line makes an
answered tool look open. `FinishedIsNoticed`. `QuietApprovalIsRight`: a "y" that
a snapshot suggests with high confidence while the file is quiet answers a
question that is the last thing the session said, though the status may come
from the cache and the text was read later. (While the session writes it may
not: the status is then one of a moment before.)

Two of anything that interleaves shows every order of two; the third connection
of `daemon` lets a late request meet two watched responses. Every counter that
is bounded is a constant named `Max…` and appears in a guard.

## Fairness and assumptions

Timers fire, the loop runs the continuation of an await that has come back,
child processes exit (they have timeouts, or are assumed to for `remindctl`),
the callbacks of `listen` and `close` come,
and a socket that was terminated emits `close`. Nothing is assumed of clients:
they need not answer a close frame, hang up, send the rest of a request or stop
asking, and request handlers need not return. A connection that is idle after a
response is ended by `keepAliveTimeout` (the fairness of `Hangup` is for these
alone). One that has sent nothing or half a request is not: `server.close()`
ends only idle connections and stops the check for `headersTimeout`. Hence
`SignalEnds` excepts connections that are held open for ever after a drain
that was clean. The store's specification has no fairness, since its run checks
no liveness.

Assumptions that are visible as constants: `LsofAnswers` and `PsAnswers` (the
`inject` run), `CacheTTL + MaxCompose <= Threshold` (the cache and the rest of a
snapshot take less than thirty seconds), `CacheTTL > 0` (it is two seconds; with
none a snapshot that takes all of the thirty could still be wrong) and
`MaxDerive < Threshold` (a derivation takes less than the thirty seconds after
which a transcript counts as old; with a slower one `AwaitingIsCurrent` does not
hold). The clock does not go back. `Claude` is all of `Pids` in the runs; a pid that the Claude Code
discovery does not list is not subject to the lock at all.

## Proofs

Every invariant and every action property that a passing run checks is a
theorem, and so is the safety part of the refinement. TLC shows them on one
small instance; the theorems hold for all values of the constants that the named
assumptions allow. Each proof follows one pattern: an inductive invariant (also
checked by TLC on the run's instance before it was proved), a lemma for each
action or group of actions that keeps it, and the property as a consequence.

**`AuditLogProofs`**, for any set of processes, limit and bounds.

- `AuditTypeCorrect`: `TypeOK` alone is not inductive, because the head of a
  queue is appended to the file and must be known to be there and to be a call
  not yet settled. `SafeInv` adds `QueuesInv` (a job that is past its start has
  a non-empty queue; queues hold distinct unsettled calls, each in one place).
- `AuditNothingLost`, `AuditNoDoubleRotation`: with `OneWriter` (at most one
  process; with two the second fails, see below). `RotationInv` strengthens
  them: a job that is about to rename stands before a file that is over the
  limit, and its stamp is later than that of any archive.
- `AuditTailIsNewest`: `OrderInv` says that calls are settled in the order in
  which they were made. The lemma `SliceIsSuffix` says of `slice(-n)` for every
  integer `n` what part of a sequence it is.
- `AuditIsAppendOnly`: with `SoleWriter` (exactly one process) every behaviour
  implements `AppendOnlyLog`'s safety part. `ChainInv` says that archives by name
  and the live file after them hold increasing numbers. `MetIsOlder` concludes
  that the order of reading is that of the calls, so that an append adds its line at the
  end of what is read (`InOrderAppend`) and a rename changes nothing
  (`RetainedSteps`); `LogSteps` maps each action to `Call`, `Commit`, `GiveUp`,
  `Abandon` or a stuttering step.

**`ServeProofs`**, for any clients, connections, signals, ports and requests.
`ServeInv` is a conjunction by component. `WsInv`: the listener is attached
until `close()` begins, and nobody is connected when it has ended. `HttpInv`:
the server listens until the drain begins; without a late request exactly the
responses in flight are watched. `DaemonInv`: where `close()` is tells where its
parts are. `BootInv`: the scan has been through all lower ports, and a port that
was bound by a probe is lost only to somebody who took it since. The theorems
are `ServeTypeCorrect`, `PollersAreRight`, `DrainIsSafe`, `CloseIsOrdered`,
`ReportsAreFinal`, `ScanIsPredictable`, `RequestsAreSurvived` and, an action
property, `NobodyJoinsLate`.

**`SampleStoreProofs`**, for any cap, batch size and statuses and any finite set
of sessions. `StoreTypeCorrect` holds with any number of daemons: the table is
in order of id and time (`TableInv`). The others assume `OneDaemon`, without
which `StaysAtCap` fails (see below): `OnlyInv` says that a `DELETE` under way
leaves at least the cap, that the rows of the last batch are among the newest,
and what the counter counts. `StoreKeepsNewest`, `StoreCountsExactly`,
`StoreStaysAtCap`, `StoreGaugeIsCurrent`.

**`InjectProofs`**, for any processes, directories, calls and messages.
`LockHolds` assumes `EverySessionIsListed` (`ps` and `lsof` answer and every
session is recognised by discovery; the run `inject_lsof` shows why). Its
invariant `LockInv`: of two calls past their discovery for live sessions, one
has the other's session in its list and has not compared them yet, or their
directories do not conflict. It rests on the fact that a session that is missing
in a list started after it was made, and lists the other. `AnswersAreTrue`,
`PipesAreAnswered` and `McpTypeCorrect` need no hypothesis; `McpInv` says that
whatever needs no I/O waits for its answer or has it, and that an answered
`inject` ended as it was said.

**`SessionsPollerProofs`**, for any sessions, statuses, filters and calls in
flight: `PollerTypeCorrect`, `ClientsKnow`. What makes the latter inductive is
`TicksAreMine`: if no older tick was under way when a poller started, all ticks
are its own.

**`SnapshotProofs`**, for transcripts of any length, any tools, window and
threshold: `SnapshotTypeCorrect`, `WaitingIsCurrent`, `PendingIsOpen`,
`ApprovalIsRight`. `SnapInv` says how a transcript may look (`LinesOK`: a result
comes after its call, a turn ends when its calls have results) and compares
three clocks with the age of the file: whatever was read, cached or handed to a
snapshot is still so if the last write is older than that.

**`TodoStoreProofs`, `RemindersProofs`**, for any number of calls and ticks.
`PollTypeCorrect` and `PollSubscriberKnowsPrev` are about the poller alone; the
heart is `DiffKeepsAgreement`: a view that agrees with a list `b`, after the
events of `diffTodos(b, n)`, agrees with `n`. No assumption on the order of
delivery is needed, since a tick diffs against what is remembered when it is
delivered. `StoreInvariant`: the only copy of what was answered is in the file
or, while it is truncated, in the memory of the call that truncated it. The four
theorems of `BothSpec` (`BothTypeCorrect`, `BothSubscriberKnowsPrev`,
`ListsAreCurrent`, `TodosAreReal`) put the halves together: `HalfSteps` says that
every step is one of each half or leaves it alone.

The assumptions are named in the modules that declare the constants: bounds are
natural numbers, a batch has at least one row, sessions are finitely many, the
MCP server's calls are calls, and the inequalities above.

Only model-checked: the liveness properties `Settles`, `CatchesUp`, `GoesQuiet`,
`BootSettles`, `SignalEnds` and `FinishedIsNoticed`, and with them
the fairness conjunct of `ImplementsLog`, since reasoning about fairness needs
`ENABLED`, which the prover does not support. The five violations are TLC's too.

## Other divergences met while modelling

They follow from what the modules say, or lie outside them; no run is kept for
them.

- Two processes that inject at once both find `audit.jsonl` over the limit, and
  the second archives the file the first has just begun
  (`tmux/audit.ts:43-46`; the comment at 7-9 excludes double rotation). With
  `Procs` of two elements `NoDoubleRotation` fails.
- Two daemons on one database count the same surplus and both delete it
  (`timeseries/store.ts:181-185`): with two `Daemons` `StaysAtCap` fails.
- Rows of one millisecond tie in `latestPerPid`, so a session may count twice in
  the gauge; sessions that ended count until their rows are pruned, where
  `timeseries/prometheus.ts:9-11` says "live sessions". A clock that is set back
  makes an old row the latest.
- `todos_total` is documented as a metric, but `startDaemon` never supplies it.
- `ps` that fails gives an empty list (`discovery/ps.ts:22`), and a session that
  is not listed is not subject to the lock: with `PsAnswers = FALSE`
  `ApprovedApart` fails as it does for `lsof`.
- A pid that the cached map holds and this tick's discovery does not is sampled
  under provider `unknown` (`http/ws.ts:152`).
- Repeated `/snapshot` requests for one provider keep filling the cache with a map
  in which the sessions of the others are missing, and the poller does not hear
  of them for as long as that goes on (`refinedStatus.ts:51` asks only for the
  age): `CatchesUp` without `AskedWith` fails.
- A tick that suspended before `stop()` reports to the clients of the next
  poller, and one of `reminders/poll.ts` fills `prevState` after it was cleared.
- After a clean drain `gracefulClose` skips `closeAllConnections` and waits for
  `server.close()` without a deadline (`http/server.ts:474-478`). One client that
  has connected and sent nothing, or half a request, is not in `inflight` and
  not idle for Node, so the drain is clean at once and the process stays until
  that client goes; so does a late request whose handler hangs. AC8 in
  `docs/v0.5-spec.md:126-129` has the daemon exit within two seconds. `SignalEnds`
  without `HeldOpen` fails.
- The keys are typed before the audit line is appended, and a failed append is
  swallowed: an injection may lack its line.
- `lock.ts:6-9` says that no two sessions of one repository are approved
  together; its own decision rules and the code let sibling directories pass.
- The MCP `transcript` tool passes its `limit`, described as a number of lines,
  to `readJsonlTailLines` as a number of bytes (`mcp/tools.ts:183`).
- The MCP `inject` tool's `dryRun` is described as "audit-only"; the code writes
  no audit line (`mcp/tools.ts:292`, `345-356`).
- `tools/list`, unknown methods, bad parameters and tool calls are answered also
  when they are notifications (`mcp/server.ts:89-129`); `initialized` with an id
  is not answered. A line that is JSON `null` ends the server (`:186`).
- `listTodos` rejects when `remindctl` is missing or unauthorized, where the
  README (line 206) and the `todos_list` tool (`mcp/tools.ts:195`) promise
  `{authorized: false}`.
- `getActiveCli` takes any failure of a probe for absence, so that a caller may
  alternate between Reminders and the file, whose todos are never merged.
- Two callers of the fallback file lose an update, and one that reads while
  another has truncated it writes back an empty list (`reminders/cli.ts:221-236`).
- A request target that `new URL()` rejects ends the daemon
  (`http/server.ts:125`, outside the `try`); the Host header `::1` without
  brackets is refused.
- A daemon whose `listen` fails has opened its store and does not close it.
- `last_assistant_summary` is cut to 200 characters before the question mark at
  its end is looked for, so that a long question is no approval prompt
  (`sessions/snapshot.ts:176`, `suggest.ts:27`); `proceed\?` and `continue\?` are
  followed by a word boundary and match only when a letter comes right after.
- Two sessions in one directory are both given the newest transcript there
  (`discovery/claude-code.ts:61-83`), and with it one status and one suggestion.
- The readers of the audit log do not read archives: just after a rotation the
  tail is shorter than was asked for. `--tail 0` shows everything, `--tail -1`
  everything but the first entry.

## Abstractions inside the modelled parts

Where a definition is coarser than its lines, and why no property depends on it:

- `ReminderPoll.Deliver` sends to the present subscriber. The code sends to the
  `onEvent` of the start that launched the tick; all of the hub's
  (`ws.ts:235-240`) send to one broadcaster.
- `CwdLock` knows only directories that exist. If `realpath` of one fails there
  is no conflict (`lock.ts:48-52`) and no root (`27-31`): a session whose
  directory was removed is not protected, and `ApprovedApart` does not cover it.
- `Inject.Listings` is one step, at the moment of `ps`. The code then runs `lsof`
  for one pid after the other (`claude-code.ts:98-128`). A session that begins
  in between is not listed by the code either, a session keeps its directory, and
  one that ends before its turn gets the caller's directory, which can only
  refuse a call more, or concern a session that is over.
- `Snapshot` has one derivation at a time; two callers that miss the cache
  together derive twice (`refinedStatus.ts:51-57`). Each derivation's own result
  is subject to `AwaitingIsCurrent`, and `SessionsPoller` has the concurrent
  case, in which the older map may be the one that stays.
- `Transcript` has a session with a transcript that stays where it is; one
  without is idle at once (`refinedStatus.ts:33`), and the stat of a removed file
  makes it infinitely old (`39-40`). A read that fails is a read of nothing, as
  in `parser.ts:49-50`, and each of the three reads may fail. No line is longer
  than the tail (256 KB), so that the last line is always in it.
- The text of a turn is whether it looks like an approval prompt.

## Plan

Modelled, in the order of importance: the audit log with its abstraction and its
readers; the two pollers; the daemon from its start to its exit; the store and
its gauge; inject with its lock and the MCP server around it; the status
derivation and the snapshots made of it; the todo calls. Proved: all safety
properties of the runs. What is left:

1. What remains true without the hypotheses of the proofs: of the audit log with
   several writers, of the store with several daemons, of the lock when `lsof`
   is silent.
2. An abstract specification of the lock (at most one approved call for each
   conflicting pair) and of the drain, and that `Inject` and `HttpDrain`
   implement them.
3. Torn lines in `AuditLog`, which need a file that is read by bytes.

## Not modelled

- Argument parsing and rendering of the CLI, the bodies of HTTP answers and tool
  results, the exposition text: sequential, without state, and no property here
  depends on them.
- The extractors of `jsonl/parser.ts` that only programs using the library call
  (tool events, compactions, token and turn counts): pure functions of a file.
- `reminders/metadata.ts` (a line of notes) and the lists of Reminders: the todo
  calls carry them along.
- The walk over parent processes in `findPaneForPid`: its outcome, a pane or
  none, is in `Inject`.
- Which transcript belongs to a session, the process patterns of discovery and
  the provider registry. `aider.ts` and `cursor-cli.ts` are stubs but for
  `inject()`, which is that of the Claude Code provider.
- `dist/`, `examples/` and tests: generated or illustrative.
