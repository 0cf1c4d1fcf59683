# Token Monitor: a verification development in TLA+

Token Monitor is a Windows daemon in Go that watches the AI tools of one user
(the Antigravity IDE, Codex, Claude Code, and anything that talks to Gemini
through its local proxy), records how many tokens each response used, and shows
the figures on a dashboard. These modules model the part of it in which
goroutines, files that other programs write, and a process that may stop at any
time have to agree on one set of figures.

The modules are translated from the code in `src/`. Line numbers below and in
`PROJECT.json` are those of that code. `PROJECT.json` maps every definition to
the lines it models, and lists the runs, the mutants, the hazards, the findings
and the theorems.

## 1. The system

| component | source | state | operations | modelled in |
|---|---|---|---|---|
| async buffer | `collector/buffer.go` | a Go channel of 1000 events, the worker's batch of up to 100, a context | `Push`, the worker's select and drain, `Stop`, `FlushDirect`, `FlushAgentTasksDirect` | `AsyncBuffer`, `BufferSystem` |
| local tailer | `collector/tailer.go` | byte offset per transcript, `currentModel`, `t.mu` | `initOffsets`, `pollLoop`/`scanAndIngest`/`readNewLines`, `processTranscriptLine`, `BackfillAllHistory` | `LocalTailer`, `Pipeline` |
| proxy interceptor | `collector/proxy.go` | none of its own: a handler and a parser goroutine per request | `ServeHTTP`, `modifyResponse`, `parseAndRecordMetadata` | `Lifecycle`, `Pipeline` |
| usage store and rollup | `storage/repository.go`, `storage/db.go`, `collector/models.go` | tables `token_usage_logs`, `token_usage_hourly_rollup`, `agent_fleet_telemetry` | `InsertUsageBatch`, `InsertAgentTaskBatch`, `RollupHourlyMetrics`, the reports | `TokenStore` (the writes) |
| process lifecycle | `main.go` | the goroutines, the stop signal, one context of 5 s | start, and the shutdown in order | `Lifecycle` |
| backups | `storage/backup.go` | one file per day, a temporary file, the file to restore from | `CreateBackup`, `PerformAutoBackup`, `copyFileAtomic`, `PruneOldBackups` | `Backup` |
| Codex monitor | `collector/codex_monitor.go`, `codex_stream.go` | a parsed session per file with its stream state, `lastError`, `filesDiscovered` | `refresh`, `readCodexSession`, `dashboard` | `CodexMonitor` (the refresh), `Dashboards` (what is shown of a range) |
| Claude monitor | `collector/claude_monitor.go` | a parsed session per file with size and time, `lastError` | `Refresh`, `parseClaudeSessionFile`, `Dashboard` | `ClaudeMonitor` (the refresh), `Dashboards` (what is shown of a range) |
| agent fleet telemetry | `storage/repository.go`, `collector/tailer.go` | the status of each tool call against the clock | `createAgentTasks`, `InsertAgentTaskBatch`, the 2-minute sweep of `GetAgentFleetSummary` and `GetAntigravityProjectStats` | `AgentFleet` |
| project statistics and leaderboard | `storage/repository.go`, `web/handler.go` | none of their own: a request reads four sources one after the other | `GetAntigravityProjectStats`, `GetProjectsLeaderboard` | `Leaderboard`; prices are a constant |
| configuration, account detector | `config/config.go`, `storage/detector.go` | none after start-up | defaults, `ParseSubscriptionTimes`, protobuf decoding | not modelled |
| web handlers | `web/handler.go` | none | JSON over the storage and the monitors; one that pushes an event, one that starts a backfill, one that refreshes | those, and the leaderboard's |
| service wrapper, dashboard page | `winsvc.go`, `web/static` | none of interest | forwarding of the stop; rendering | not modelled |

How they interact:

- The IDE appends to `transcript.jsonl` without any lock. The **poll loop** reads
  what is new, pushes one event per model response into the buffer and writes the
  tool calls to the storage directly. The **backfill** (a goroutine at start-up,
  and `/api/sync/history`) reads every transcript from its beginning and writes
  everything directly. The two exclude each other by `t.mu`.
- The **proxy** copies the upstream's answer to its client and leaves the parsing
  to a goroutine that pushes an event and that nobody joins.
- The **buffer's worker** turns events into transactions. A failed transaction
  loses its batch. A full channel loses the event.
- The log has a partial unique index for the keys `CHAT_<conversation>_<step>`;
  it alone makes all the repeated reading harmless. The proxy's events have no
  such key. The **rollup** recomputes the hourly groups from the log.
- `main` **stops** the tailer, the proxy, the dashboard, the rollup, the buffer,
  makes a last backup and closes the database, in this order. The periodic backup,
  the backfill, the parser goroutines and the rollup are not waited for.
- Codex writes its session files without a lock while **`refresh`** (one at a time,
  under `refreshMu`) scans them; `mu` makes the publication one step.
- Claude Code does the same to its own files, and **`Refresh`** of the other monitor,
  called by its ticker and by `/api/claude/refresh`, reads a changed file again from its
  first line and publishes each file as soon as it is parsed.
- No line of a transcript says that a **tool call** has ended. The tailer stores a call as
  RUNNING if its line is younger than 45 s when it is parsed; a request for the summary or the
  leaderboard completes what has been running for 2 minutes and then counts, in a second
  statement, what is active; the graph and the Gantt chart show the table as it is.
- A request for the **leaderboard** reads the usage log, the fleet, the published Codex
  sessions and the published Claude sessions, each with its own idea of the range and its own
  call of `time.Now()`, while all four change. It adds them up by project and ranks these.

What is hard to test here: the order of these goroutines; a file that grows,
shrinks or is replaced between two calls that look at it; a crash between a commit,
an offset and a rename; a failing write, open or copy whose error is dropped; and
a shutdown in which half of the goroutines are still running. The list
`hazards` in `PROJECT.json` has each at its line, with the properties that watch it
or the reason why none does.

What makes each component correct:

- *buffer*: an accepted event is handed over once and in order; `Stop` drains what was
  accepted before it; the worker always returns.
- *tailer and store*: one row per response however often it is read; a response is lost
  on the poll path only for a known reason; a backfill without a failure repairs all of
  them; the poll loop catches up; the rollup agrees with the log.
- *lifecycle*: shutdown ends whatever the peers do; only events of goroutines that are
  not joined can be lost; the last backup has everything.
- *backup*: the restore file is complete and never gets older; pruning keeps the newest.
- *Codex monitor*: incremental reading gives what reading once would give; each response
  with an id is billed once, and one without as often as it is said; `READY` never hides lines
  the scan found; a full refresh repairs.
- *Claude monitor*: a file that is skipped has nothing unread; what is shown of a growing file
  never shrinks; after a refresh the sessions are those on disk; a pause lets it catch up.
- *agent fleet*: the last call of a step is not completed too early and a completed one does not
  run again without a reason that can be named; the views agree after a sweep; no call runs for ever.
- *leaderboard*: nothing is counted twice; nothing from before the range, and nothing of the
  range left out, but for reasons that can be named (section 6); ranks are 1 to n by each
  criterion; charts run in the order of time.

## 2. The modules

Modules are composed by `EXTENDS`, each action of the outer module naming the action of
the inner one and what it leaves alone.

```
EventSink   <--implements--  BufferSystem --> AsyncBuffer
                             Lifecycle -----> AsyncBuffer
UsageLedger <--implements--  Pipeline --> LocalTailer --> AsyncBuffer, TokenStore
Leaderboard --> Dashboards
Backup      CodexMonitor      ClaudeMonitor      AgentFleet
```

**`AsyncBuffer`** is the channel and the worker: `chan` is `eventChan`, `batch` the slice,
`pc` the place in `worker()` (the outer select, the draining select, or a flush called from
one of them), `cancelled` the context. Go's `select` takes any ready case, so `TakeEvent`,
`Tick` and `SeeCancel` compete. `Push` looks at the channel alone, also after `Stop`.

**`EventSink`** is what the buffer promises: a lossy first-in first-out sink that closes only
when everything accepted before the request has been handed over.

**`BufferSystem`** adds producers, a writer that may fail, `Stop`, and the history needed to
state the promise: `accepted`, `handed`, `lostAt`, `refused`, `stopMark`.

**`TokenStore`** is the effect of the three writing transactions. `logs[k][m]` counts the rows
of event `k` billed to model `m`, so that a duplicate and a row that changed its model are
both visible; `ReplaceRow` is `INSERT OR REPLACE` under the partial index. The token amounts
add nothing to this and are left out.

**`LocalTailer`** has one action per system call that another program can come between:
`PollStat`, one of `PollFragment`/`PollOther`/`PollResponse` per line, `PollEOF` or
`PollOpenFails`, and for the backfill `FillLine`, `FillNextFile`, `FillOpenFails`, `FillEnd`.
A transcript is measured in half lines, the smallest unit at which a torn line shows.
`Restart` is `initOffsets` on a transcript touched or not touched in the last 30 minutes.

**`Pipeline`** runs the tailer, the proxy, the buffer, the store, the rollup and a crash
together. `excused` records which losses of the poll path the code has a visible reason for,
`synced` up to where a backfill without a failure has come, `left` which models a row was
taken away from.

**`UsageLedger`** is what `Pipeline` promises a reader of the log: the books of an accountant who
is told of events while they happen. An event is `taken` off the desk (an offset is past its
line), is `coming` (in the channel or the worker's batch), `booked` (a row of the log) or `lost`
(written off). Nothing booked is taken back; whatever was taken is one of the other three; a
transaction succeeds or fails as a whole; only a restart forgets what is coming. `Ledger` in
`Pipeline` is the mapping, `ImplementsLedger` the claim. `EventSink` speaks of the order in which
one buffer hands over, `UsageLedger` of events that may reach the log twice and by two ways.

**`Lifecycle`** is the shutdown. `main` is the call that `main()` is in; `handler` and `parser`
are the goroutines of a request; each step of `main` has the guard of the call it returns from.

**`Backup`** has one action per file operation of `PerformAutoBackup`, for two callers, with
the rules of Windows for files that are open, a crash at any step, and two days.

**`CodexMonitor`** has Codex as one process (append, half a line, truncate and rewrite, replace
under the same name, delete, compaction) and one action per step of a scan (collect, take over
unread, open and stat, one line, final stat, publish). `truth` is a history variable: what
parsing the first `n` lines of a file in one go gives, and how many tokens they used; `born`
is when the content of a file began, which the code does not know: it has the hashes of the
lines at both ends of what it read. Files are found in the order of their times (`Rank`). A usage
record may bear no response id (`Nameless`); the code cannot tell its replay from a new response,
and `again` keeps what such replays say a second time. `SessionOf` says which files are of one
session: `SourceStatus` looks at the errors of the one that is shown.

**`ClaudeMonitor`** has the refreshers (the ticker, the web handler), each with the step of
`Refresh` it is at, and Claude Code, which may append, write half a line, write a file anew,
remove it or remove the directory between any two of them. A line is the time it was written
at, so that two versions of a file can be told apart; what parsing makes of the lines is a
function of them and left out. A clock of writes gives each version its own `ModTime`.

**`AgentFleet`** keeps times as ages in whole seconds, as SQL compares them, up to one more than
`SweepAge`: `age` of each step, the ages
of the rows parsed and not yet written (`batch`) and of those in the table (`fleet`). `Tick`
adds one to all of them and may come between parsing, writing, sweeping and counting. The poll
loop writes each step at once, the backfill when it has `TasksEvery` rows; a refused write
drops the rows. `held` and `tidy` are history variables: for how long a parsed row has waited,
and whether the last sweep still holds. A step whose `created_at` cannot be read is dated
`time.Now()` in local time and compared with UTC, so it is `Zone` in the future. The leaderboard
subtracts from a `now` with a fraction: `BoardActive` says what it calls active with and without one.

**`Dashboards`** is what `dashboard` and `Dashboard` of the two monitors make of the sessions
they have published: the choice among the Codex files of one session, the rows of a range,
Claude's limit on them, and the keys of the time series. A figure is the *set* of the lines
that were added up in it; that nothing is lost or doubled is then a statement about sets, and
holds for any amounts. Agents write lines, sessions are copied to a second file and a refresh
publishes any changed files (Codex: several in one step; Claude: one). The calendar is given by
constants that say when the local and the UTC day of a time began, and what 7 and 30 days before it
are in the local calendar (`WeekAgo`, `MonthAgo`): the fixed length (`Week`, `Month`), or up to
`ClockChange` more or less. `RangeStart` is the range by its name, with fixed lengths; the cutoffs of
the two monitors and SQL's condition (`AgentTimeCondition`) are each translated from their own code.

**`Leaderboard`** is one request on top of that. Its sums count the members of unions, so that they
can be reasoned about without induction. `req.at` is the source it reads next, so that
time passes, lines are written and sessions published between any two reads; either query may
fail it. What the database holds is in whole seconds (`Truncated`), and a task in the zone that its
step was dated in (`Ahead`); SQL compares both with the second of UTC that a range begins in. `ProjectOf` and `Price` are constants of a row or file. `since` is when the range began as
it was asked for, and `missed` the usage a source had as it was read and did not give; both are
history variables. `Items`, `Beats`, `PercentOfTop` and `TopConsumer` are the answer.

The `MC*` modules give the constants their values.

## 3. The runs

All pass with no error found, except the two that are meant to show a violation.

| run | what it asks | size |
|---|---|---|
| `buffer` | conservation and order, drain, refinement of `EventSink`, delivery, termination of `Stop` | 4 events, channel 2, batch 2 |
| `pipeline` | one transcript of two responses and a proxy event: one row per event, no unexplained loss, backfill repairs, refinement of `UsageLedger`, catching up | 192,162 states |
| `pipeline_two` | two transcripts, two models, a tool call, the rollup | 747,465 states |
| `lifecycle` | the shutdown with two lines, a request and a post | 2 lines, channel 1, batch 2 |
| `backup` | two callers, two days, two commits, one file kept | all interleavings |
| `codex` | two session files, three writes, one failure, everything Codex may do | 1,774,559 states, symmetric in the files |
| `codex_live` | one of the two files read, failing reads: the newest is caught up with, and READY hides nothing | 2 writes, 2 failures, 93,316 states |
| `claude` | two session files of which one is looked at, ticker and handler, three writes, one refusal of the system | 129,980 states |
| `fleet` | status of tool calls against the clock: earned, views agree, ghosts end | two dated steps and one without a date, 566,558 states |
| `leaderboard` | requests for today, a day and a week: counted once, within the range, only the row limit and the calendar hide, ranks, order of charts | two Codex files of one session, two Claude sessions of which one row is shown, one row of the log and one of the fleet, 2,377,109 states |
| `pipeline_doubled`, `lifecycle_zero_loss` | claims of the documentation that the code does not keep (section 6); the second without posts, so that the event lost is one of the proxy's parser | violated |

Why these bounds are enough to be of interest. Batches fill up both before and during the
drain and wait for the ticker (batch 2 of up to 4 events); the channel fills up under every
producer (capacity 1 or 2); a backfill writes both in the middle and at the end
(`FlushEvery` 2 of 2 events, `TasksEvery` 2 of 1 call); a restart lands in the middle of a
line, before it and at the end (`Lookback` of one half line); a backup can be older than
another and the database younger than both; a Codex file can be known, replaced and grown
past its old size within three writes, and a window of one line at each end lets the hashes
match while the middle is unread. Three writes let a Claude file be remembered, written anew
and grown to its old size, and two refreshers race for it. With `Recent` 1 and `SweepAge` 2 a call can be parsed as running,
overtaken by a sweep while a backfill of `TasksEvery` 3 still holds its row, and set running
again by it; a step of two calls shows that only the last one runs. Three lines at three times
(`Moments` 4, 6 and 9, each in a local day of its own, the last in another UTC day than the first
two) let a session be copied and go on in either file, be published old or new, leave the
range between two reads, or be hidden by the newer of two Claude sessions (`MaxRows` 1). Of the
ranges "today" is cut at midnight, "1d" is one that the monitors disagree about, and "7d" one that
Codex reckons by the calendar: by `ClockChange` 3 more or less than `Week`, so that in the week before
6 it hides a line and in the week before 9 it takes one too many. Seconds two long (`OneSecond`) let a row be
dated before it was written, and a task dated 2 ahead of UTC (`Ahead`) pass for a newer one.
Every exception that `WithinRange` and `OnlyLimitsHide` name is reached in this run. A bounded number of crashes, backfills, writes and
failures (`MaxRestarts`, `MaxFills`, `MaxVersion`, `MaxDay`, `MaxWrites`, `MaxLines`, `MaxFailures`)
keeps the state spaces finite; no property depends on reaching the bound.

Deadlock is checked in `backup`, `codex`, `codex_live`, `claude`, `fleet` and `leaderboard`. It is off in the buffer, the
pipeline and the lifecycle, which really stop: the worker returns and producers have nothing
left to push, the scripts are written to their end, the process exits.

Types are checked by the `pipeline` run only: for every other module `TypeCorrect` of its proof
module establishes them for all values.

Each property of a passing run has a mutant in the module it is about (`X_Mutant` beside `X`),
a plausible bug of that code, under which the same run finds the property violated.

## 4. Fairness

- `BufferSystem`, `Pipeline`, `Lifecycle`: weak fairness of the worker as a whole. Its goroutine
  is always runnable when a case of its select is ready, and a write returns (SQLite gives up
  after its busy timeout). No producer is obliged to push.
- `Pipeline`: weak fairness of the poll loop, because a ticker starts it, and of a backfill that
  has been started; nothing is assumed about the IDE, the proxy, the rollup or crashes.
- `Lifecycle`: weak fairness of `main` after the signal, of the worker, of a scan that has begun
  and of time (`Expire`). The one strong fairness is that of `PollReturns`: the poll loop's
  select finds its context done each time it comes round, but may take the ticker instead, and
  Go chooses between ready cases at random. No handler, parser or upstream is fair, and nobody
  has to send the signal.
- `CodexMonitor`: weak fairness of the steps of a scan and of its start by the ticker. Nothing is
  assumed about Codex.
- `ClaudeMonitor`: weak fairness of each refresh that has begun, and of the beginning of one by
  whichever refresher: the ticker comes round. Nothing is assumed about Claude Code.
- `AgentFleet`: weak fairness of time, of a reader that has something to do, and of a request for
  the summary - the page asks for it while it is open. A sweep that fails is asked for again. The
  start of a backfill and the IDE are not fair.
- `Leaderboard` states no fairness: it has no liveness property, a request is sequential code.

## 5. The proofs

TLAPS checks every theorem below for all values of the constants that satisfy the
assumptions beside their declarations (capacity and batch size at least 1, as
`NewAsyncBuffer` ensures; finitely many keys and models, transcripts that are sequences of lines; `MaxFiles` at least 1, as `Refresh` ensures; `Recent` positive and at most `SweepAge`; `Window` at least 1; a calendar that is monotone and differs from fixed lengths by at most `ClockChange`; midnights, a `Day`, `Week` and `Month` are whole seconds apart; `MaxKeep`, `MaxVersion`,
`MaxDay`, `NumFiles` and the bounds natural numbers).

- **`BufferSystemProofs`**: `TypeCorrect`, `NothingLostBeforeTheWriter` (`FifoConservation`),
  `StopDrainsTheBuffer` (`StopDrains`), and `BufferImplementsSink`: each step of `BufferSystem`
  is a step of `EventSink` or changes nothing of it. Conservation is inductive by itself, the
  drain is not: it needs `WorkerInv`, which says in which places of the worker the context is
  known to be cancelled and in which the batch is not empty, and `MarkInv`, that a stop mark
  exists exactly when the context is cancelled and that the last flush hands over everything
  accepted before it. The module begins with lemmas about the buffer by itself: receiving keeps
  the order of batch and channel, and each step of the worker keeps the types and the bounds.
- **`PipelineProofs`**: `TypeCorrect` (`TypeOK`), `OneRow` (`OneRowPerEvent`), `Skipped`
  (`NothingSkipped`), `Backfilled` (`BackfillComplete`), `RollupIsExact` (`RollupExact`) and
  `PipelineImplementsLedger` (`ImplementsLedger`), for any transcripts, thresholds, buffer, and
  number of backfills and restarts. No property is inductive as it is checked. `TypeInv` adds where each reader
  may stand: the poll loop begins in the middle of a line only where its offset is, the
  backfill never. `RowInv` adds to the log what is in the buffer and in the backfill's hands, all of
  it of complete lines. `SkipInv` extends `NothingSkipped` to the line that an offset cuts in two
  and to the lines the poll loop has passed since it statted the file. `SyncInv` says what a
  running backfill has read so far and that it is in the log or in its hands. `RollInv` says that
  a rollup row without log rows belongs to a model in `left`. The refinement needs all but the
  last two, and `SentInv`, that an event of the proxy is stored, in the buffer or excused; it has one lemma per
  action (`AppendRefines`, `ProxyRefines`, `ResponseRefines`, ..., `CrashRefines`), each naming the step
  of the ledger it is. Rows and batches are folds of the community modules, which `CHOOSE` a recursive
  function; that this function exists is proved first (`FoldExists`), by an induction over a *set*
  of numbers (`NatSetInduction`), which needs no operator for a parameter, and from it
  when a sum is 0 and when it has one summand (`SumFacts`), and what a batch does to the log
  (`UsageBatch`).
- **`LifecycleProofs`**: `TypeCorrect`, `OnlyStragglersLost` (`LossOnlyFromStragglers`) and
  `LastBackupHasAll` (`FinalBackupIsLast`), after the same few lemmas about the buffer. The invariant is the conjunction of `TypeOK`, the
  worker's part, `Conserved` (an accepted event is written, in the batch or in the channel),
  `Stopped` (what has returned by each stage of `main`), `Left` (whose events may still be in the
  channel when the worker has returned) and `Saved` (the snapshot is what was written). The
  heart of it is `Left`: an event found in the channel after the drain was pushed by a goroutine
  that was alive after `main` had stopped waiting.
- **`BackupProofs`**: `TypeCorrect`, `LoneBackupRestorable` (`RestorableAlone`), `NeverBack`
  (`NeverGoesBack`), `RenameBrings` (`RenameTakes`) and `PruneKeeps` (`PruneKeepsNewest`). The
  invariant `Alone` adds that without an overlap at most one caller is at work, that what it
  vacuums is no older than the latest file, that what it copies is the complete file of its day,
  and that a temporary file about to be renamed is a copy of that. `FewAreKept` counts what
  pruning leaves: the earliest day that stays has fewer than `MaxKeep` after it.
- **`ClaudeMonitorProofs`**: `TypeCorrect` (with `FirstFilesBound`, that a walk finds at most
  `MaxFiles`, by an injection into the ranks), `SkipIsSound` (`Accurate`),
  `NothingTakenBack` (`NeverShrinks`) and `Refreshed` (`RefreshIsCurrent`). `Accurate` needs `Past` (no remembered time is in the
  future) and `Reading` (what has been read of a file not written since its stat is how that
  file begins); it holds without `refreshMu`. `NeverShrinks` needs the lock (`Alone`): the session
  that is shown stays the same while its successor is read, and `Successor` and `Rooted` say that
  the successor begins with it - unless the file was written anew, when no line of it is as old
  as those that are shown. `Refreshed` needs the lock as well, and `Current`: a file the refresh is done
  with, and that was not written since it began, is remembered with the time it has on disk.
- **`AgentFleetProofs`**: `TypeCorrect`, `StatusFollowsTime` (`StatusIsEarned`) and `ViewsAgree`
  (`AnswerAgrees`), for any transcript and any thresholds with `Recent` at most `SweepAge`. The
  invariant `Statuses` says that a dated row is as old as its step wherever it is (`Ages`), that a
  completed last call is `Recent` old (`Earned`; a call that another one of its step followed is written
as completed at any age, and the property says only that it never runs), and that a pending row which still says RUNNING
  for a call completed in the table is older than `SweepAge` (`Overtaken`): when it was parsed it was
  younger than `Recent`, so it has been held for longer than the difference. `Swept` carries the
  promise of a sweep to the count; what the leaderboard calls active differs from that by calls that
are exactly `SweepAge` old, if its `now` is past the second, and by no others.
- **`LeaderboardProofs`**: `TypeCorrect`, `EveryLineOnce` (`CountedOnce`), `NothingFromBefore`
  (`WithinRange`), `NothingLeftOut` (`OnlyLimitsHide`), `Ranked` (`RankedRight`) and `ChartsInOrder` (`SeriesInOrder`), for
  any lines, files, sessions, projects, ranges and calendar. The sources only have what was
  written (`SourcesOK`), and what they do between two reads changes no time a line already has
  (`Later`). The figures a request has come from the sources it has been to (`Phases`), from each
  row, file or Codex session once (`Apart`), and are of the place they name (`Belongs`);
  `WithinInv` carries the cut-offs, which only move on, and `HiddenInv` why something is missing; each
names the exceptions of one source. `SQLCutoff` compares the condition of SQL, in whole seconds, with the
range it stands for, `LogInRange`, `TaskInRange` and `CodexRowInRange` the rows of each source with it.
  That a session has a chosen file (`LatestChosen`) is the well-foundedness of the numbers that
  order paths; that a cut list has `MaxRows` rows of as many sessions (`AsManyFigures`) a
  bijection. For the ranks, `FiniteInv` says that what was read is finite, and `OrderRanks` that
  counting what comes before an element of a finite, strictly ordered set numbers it from 1.
- **`CodexMonitorProofs`**: `TypeCorrect`, `Incremental` (`IncrementalIsFull`), `Billed`
  (`BilledOnce`), `Ready` (`ReadyIsComplete`) and `Heals` (`FullHeals`), for any number of files,
  limit, window and writes. Parsing is never unfolded: `truth` has its result line by line, and
  `ParseAgrees` says that two parses that differ only in errors still do after one more line.
  `Honest` relates a file to its truth (in particular what is billed to what was used and said again) and is kept
  by whatever Codex does, which is one of three things to a file: it goes on (`Kept`), begins anew
  (`Anew`) or is gone. `Sound` is the heart of it: a session says what its content says as long
  as that is the content on disk, and afterwards the time of its first hashed line lies before
  the new content - so that hashes which match cannot be those of another content, and a
  continued session continues the right one (`CloneReads`). The scan in progress carries the
  same promise line by line (`Reading`). `Ready` needs three facts more: two remembered states
  of a file with one `ModTime` are the same state (`Alike`), an untorn session has read all its
  file had when it was opened (`Enough`), and what was found is no newer than what is on disk
  (`AtLeast`). `FoundIsThere` shows that ranking by time is a bijection, so that what a scan
  finds is a sequence at all.

Every safety invariant, action property and refinement that a passing run checks is stated by one
of these theorems. What is only model-checked is liveness, because the prover handles neither
fairness nor `ENABLED`: `AcceptedIsHanded` and `StopTerminates` of the buffer, `CatchesUp` and
`BufferedIsStored` of the pipeline, `ShutdownTerminates` of the lifecycle,
`CatchesUp` of the Codex monitor, `CatchesUp` of the Claude monitor and `GhostsEnd` of the fleet.

## 6. Where the documentation and the code differ

- `pipeline_doubled`. "Figures are never doubled"
  (`docs/TokenMonitor_Core_Logic_and_DataFlow.md:635`). The log keeps this promise
  (`OneRowPerEvent`), the rollup does not: it never removes a group. When the backfill replaces a
  row that the poll loop had billed to another model - `currentModel` is shared by all
  conversations - the old group keeps its figures. `RollupExact` says that this is the only way.
- `lifecycle_zero_loss`. "Zero data loss on shutdown" (`:629`). The proxy's parser goroutines are
  not joined, and `Push` accepts events after the worker has returned. The run has no post of the
  dashboard, whose handler can lose an event in another way (the Shutdowns' context has expired).
  `LossOnlyFromStragglers` says what is true instead, and is proved.

Differences that no run shows, met while modelling:

- The restore file "can simply be copied back" (`README.md:26`). Main's final backup does not
  wait for a periodic one; if they overlap, the periodic one may have copied an incomplete file
  of the day and renamed it. No property watches this: those of `Backup` are stated without an overlap. `RestorableAlone`, proved, says that an overlap is necessary.
- The rows of the Claude dashboard are cut to `MaxSessionRows` before the leaderboard sums them.
  `docs/TokenMonitor_Core_Logic_and_DataFlow.md:1238` says that the sums of all three providers
  are taken without the limit, through `DashboardForAggregation`, which only the Codex monitor has;
  `docs/TokenMonitor_Configuration_Guide.md:125-126` that the limit is one of display. `OnlyLimitsHide`, proved, names the limit as one of
  the two reasons for which usage is missing; the other is Codex's calendar, below.
- The Claude dashboard does not know the ranges "1d" and "month", and takes them for "all"; its
  turns and tool calls are of all time whatever the range. `WithinRange`, proved, names these
  exceptions and the three that follow.
- The Codex monitor goes back 7 and 30 days by the local calendar (`AddDate`, `codex_monitor.go:987`,
  `:991`), SQL and the Claude monitor by a number of hours. Across a change of the clock its week and
  month begin up to that change (an hour) earlier or later than the others': its lines of that hour are counted
  although older than the range, or left out although within it.
- A step without a readable date is dated `time.Now()` (`tailer.go:307`) and `started_at` is written
  in whatever zone that is (`:605`, `:635`), while `parseAgentTimeCondition` compares it with UTC
  (`repository.go:1038-1044`): such a task is counted in a range that began up to the offset of the local
  zone after it; west of UTC it is missing from one that it belongs to.
- Rows of the log and tasks are dated in whole seconds and compared with a range that begins in a
  whole second: one from the fraction before the range is counted.
- A task that is exactly two minutes old in whole seconds is not swept (`repository.go:2641`), is active in the
  summary (`:1086`) and running in the graph, but over for the leaderboard, which compares
  `now` with its fraction (`:2783`). `AnswerAgrees`, proved, says that the views differ in nothing else.
- A usage record without a response id is billed again each time it is replayed
  (`codex_monitor.go:529`), as the tests expect (`codex_audit_test.go:139-157`,
  `codex_stream_test.go:67-98`). `BilledOnce`, proved, bounds what is billed by what was used and
  what such replays say again.
- The points of a Claude chart of a day are named by the hour alone and sorted by name, in UTC: the
  hours of the two UTC days that a local day spans are mixed. `SeriesInOrder` claims order for the
  longer ranges only.
- A request that runs across midnight takes "today" of one day from some sources and of the next
  from others; `OnlyLimitsHide` is stated for the range at its end, `WithinRange` for that at its
  start.

## 7. Assumptions, and what is left out

- A crash is that of the process. Under `synchronous=NORMAL` a power failure may also take back
  committed transactions; this is not modelled.
- `winsvc.go` builds on Windows only, and so does `main`; the file rules of `Backup` and
  of the monitors (an open file is not removed or replaced) are those of Windows with Go's
  `os.Open`.
- The IDE only appends to a transcript. Truncation of a transcript is listed as a hazard. A step
  index is that of one line of its transcript. There are finitely many keys and models, and no
  key of the proxy is one of a transcript: `IDEAppends` and `ProxyRecords` make no others.
- Codex: the session ID of a file's parse does not change while it is written; a session file is not edited in the middle; new content begins with half a line, a
  line that says nothing, or a response; a usage record without the thread's total is not
  written after the `token_count` of the same response; all files collected by a scan are
  statted at one moment. A file that is truncated *while* it is read and grows past the statted
  size again deceives the code; the properties exclude such a session (`torn`).
- Claude Code: two writes to a file never have the same `ModTime`; a file that is written anew
  while it is read is seen at the granularity of lines; the walk sees the directory at one
  moment. A parse that an error cut short is remembered as whole (`scanner.Err` is not looked
  at); the properties except such a session (`cut`) until its file changes.
- The IDE dates its steps in UTC (`Z`); with an offset in `created_at` a dated step would be stored in
  that zone's time as an undated one is in the local zone's. The local clock is not behind UTC
  (`Zone` at least 0; behind it, an undated call would be completed by the first sweep). The fleet's
  ages are in whole seconds, also the 45 s that the tailer compares at nanoseconds, and told
  apart only up to the sweep.
- A line of a transcript is within the scanner's limit of 10 MB: beyond it the backfill would stop
  reading without an error (`tailer.go:371`, `:425`), and `BackfillComplete` would not notice.
- Leaderboard: a Claude line is in one file, a line of Codex in files of one session; the names of
  projects are distinct and given by a constant; a file's session never changes; the copy of
  published Codex sessions and the clock read for its range are one step, and so are each query and its
  `now`; a transcript's zone is
  UTC; the local clock changes by at most `ClockChange` within a range. All projects of a file have one name.
- The sweep runs when somebody asks: `docs/TokenMonitor_Core_Logic_and_DataFlow.md:659` speaks of a
  periodic goroutine, which the code does not have, and the comment at `repository.go:2635` of
  45 s where the statement says 2 minutes. `GhostsEnd` is therefore stated for a page somebody
  looks at.
- Not modelled: `Stop` of the two monitors, the series by model, rate limits and graphs of their
  dashboards; how a project is found from a path; cached and thinking tokens, shares and savings
  of the leaderboard; token estimation, roles and task summaries in the tailer; packets and
  timeline of the fleet; the other queries of the dashboard; prices; start-up and migration; the
  account detector's decoding; the page itself. What is left there computes a value from its
  arguments in one step, with strings and floating-point amounts that a model would have to
  spell out.

## 8. Plan

In this order, most important first.

1. *Done*: `AsyncBuffer`, `EventSink`, `BufferSystem` and their proofs; `TokenStore`,
   `LocalTailer`, `UsageLedger`, `Pipeline` and their proofs; `Lifecycle`, `Backup` and theirs; `CodexMonitor`,
   `ClaudeMonitor`, `AgentFleet` and their proofs; `Dashboards`, `Leaderboard` and their proofs.
2. Theorems: that the sessions `Dashboards` publishes are those that `CodexMonitor` and
   `ClaudeMonitor` publish (a refinement, for which the two would have to keep the times of single
   lines).
3. The truncation of a transcript in `LocalTailer`, as the hazard at `tailer.go:189` describes it.
4. `ParseSubscriptionTimes`, `decodeVarint` and `CalculateTokensCostUSD` as operators with a
   reference definition. They are sequential functions that a table of unit tests covers well,
   which is why they come last.
