# Formal models of the pull-request dashboard

This directory holds TLA+ models of the dashboard server in `src/server`, the
TLC configurations that check them on small instances, and TLAPS proofs of the
properties that matter most.  Every definition is translated from the source;
`PROJECT.json` maps each one to the lines it stands for.

Tools: `tlc -workers 2 -config X.cfg M` checks a run, `tlapm M.tla` checks the
proofs of a module.

1. The system
2. The plan and where it stands
3. Module by module: state, actions, code
4. The runs: properties, bounds, fairness
5. What the violations show
6. What is proved
7. Where the code and its comments part (known deviations)
8. What is not modelled

## 1. The system

One Node process watches the pull requests of a few GitHub owners from their
first commit to production.  It keeps what it shows in memory, keeps what it
learns in SQLite, and calls GitHub through one client per installation.

| Part | State | Operations | Interacts with | Correct when |
|---|---|---|---|---|
| Poller, scheduling (`poller.ts` 3103-3227) | `running`, `generation`, `timers`, `inFlight`, `pauseUntil`, `staleSince` | `start`, `stop`, `reconfigure`, `nudge`, four self-re-arming chains | boot, webhooks, settings, clients | one chain each, no stale timer, one run per cycle, a rate limit pauses every chain |
| Poller, ingestion (706-1280, 2564-2745) | `prs`, `stages`, `queueEntries`, `queueEnqueuedAt`, `firstGreenAt` | sweep, detail and queue cycles, `pruneCaches` | GitHub searches, history | no merge lost, no open row dropped, the board converges |
| Check rollup (`normalize.ts`, `estimator/`) | none | deduplication, required set, progress, waits, stage | every view | only the latest run of the required workflow counts |
| Queue view (`estimator/queue.ts`, `buildQueueView`) | none | trains, progress, merge estimates, health | board, notifier | an entry rides one train, order is kept |
| Deploy cycle (1282-1480) | `envShas`, `seenNotLive`, `propagating`, throttles | health, ancestry per record, gap samples | health URLs, compare API or clone, history, notifier | announced and sampled once per merge |
| In-repository configuration and derived data (1482-1960) | file configurations, derived graphs, discovered paths, pools, scheduled runs, retry throttles | refresh with backoff, adopt, persist, restore | GitHub, history `meta` | memory and database agree; an outage is no removal |
| History store (`history.ts`) | SQLite tables | synchronous inserts, upserts, folds and aggregates | poller, metrics | no row counted twice, folds are whole |
| Notifier and hourly scans (`notifier.ts`, `regression.ts`, `starvation.ts`) | `active` debounce keys | `observe`, repository feeds, `prodLive`, `prune` | poller, host command, webhook sink | one announcement per episode |
| Runner routing (`runner-routing.ts`) | `lastPushedHash`, `deletedOnce`, `inFlight` | `init`, `tick` | `gh variable set/delete`, poller updates | the remembered hash is the live one |
| Authentication (`auth.ts`, `client-router.ts`, `github.ts`) | cached tokens, shared fetches, installation map, clients, budgets | `get`, `refresh`, one retry after a 401 | GitHub, `gh` | a rejected token is replaced by a newer one |
| Settings (`config.ts`, `backend.ts`, `api.ts`) | the file, the live `config` | read-modify-write, hot-apply, hand edits | everything above | the operator's keys survive; what is accepted boots |
| Writing to GitHub (`pr-actions.ts`, `scaffold-pr.ts`) | none | ready-merge, demotion and promotion proposals | GitHub | success means done; a proposal is whole |
| Pipeline model (`pipeline-model/`, `protection-map.ts`) | none | static graph, gating closure, derived matrix | workspace | a required check is recognised as one |
| Workspace (`core/`) | model cache, audit, quarantines, policies | edits, simulation, candidates, draft pull requests | GitHub | stale requests refused, gates kept |
| Frames, snapshot, self-health (`buildState`, `api.ts`, `core/live`) | memoised state, summaries, ages | emit, keepalive, connect, watchdog | browsers | a connected browser shows the board |
| Digest (`digest.ts`) | one timer | arm, fire, stop | history, notifier | one per local day |
| Metrics, costs, candidates (`metrics.ts`, `estimator/`) | none | figures per window, prices, suggestions, runner plan | metrics tab, cost lane, runner routing | charts show what they count; figures explain the bill; suggestions keep gates |
| Webhooks (`webhooks.ts`) | none | `routeEvent` | poller `nudge` | each delivery nudges its cycles |
| Backfill, frontend views, packaging | throttles, React state | one-shot jobs, rendering | | not modelled |

What makes it hard: JavaScript runs to completion between awaits, but every
GitHub request is an await, and the sweep, detail and queue cycles, the webhook
nudges, the hot-applied settings and the boot sequence all work on the same
maps in between.  Requests fail one owner or one page at a time, answers are
applied late, and a restart empties everything but SQLite.  Much of what is
shown is inferred from lists GitHub gives in any order with old runs among the
new ones.  `PROJECT.json` lists the hazards at their lines, each with the
properties that would catch it going wrong.

## 2. The plan and where it stands

| Order | Modules | State of the work |
|---|---|---|
| 1 | `PollerTimers`, abstract `PeriodicTasks` | modelled, checked, proved, refinement proved |
| 2 | `PollerIngest` | modelled, checked, its safety proved |
| 3 | `RunnerRouting` | modelled, checked, its safety proved |
| 4 | `Credentials` | modelled, checked, its safety proved |
| 5 | `WorkflowGraph`, `CheckRollup`, `CommitChecks`, `MergeQueue` | modelled, checked, proved |
| 6 | `Notifier`, `Alerts` | modelled, checked, the episodes proved |
| 7 | `Deploys` | modelled, checked, proved |
| 8 | `HistoryTables`, `History`, `RepoData` | modelled, checked, proved |
| 9 | `Settings` | modelled and checked, one violation, its safety proved |
| 10 | `PipelineModel`, `PipelineEdits`, `Workspace` | modelled, checked, proved |
| 11 | `Actions` | modelled, checked, proved |
| 12 | `Frames`, `Pacing` | modelled, checked, proved |
| 13 | `Metrics`, `Costs`, `Candidates`, `Digest` | modelled, checked, proved |
| later | counts of queue-wait samples | open |

How they compose.  `PollerTimers` decides when a cycle runs, `Pacing` how far
away its next timer is, and `PollerIngest`, `Deploys` and `RepoData` what a
cycle does to the data.  They are checked apart: the data modules leave a cycle
free to begin whenever its latch is, which `PollerTimers` shows to be the only
constraint, and no answer of a request depends on which chain asked.
`RunnerRouting` is driven by the poller's `update` event; its target repository
never changes (`config.ts:440` allows the default only), so that the cached inputs are
always its own.  `Credentials` is what every request of the other modules goes
through; there it shows as an answer or a failure.  `Alerts` and `Deploys`
extend `Notifier`, `RepoData` extends `History`, `Workspace` extends
`PipelineEdits` and `PipelineModel`, `Candidates`, `CheckRollup` and
`MergeQueue` extend `WorkflowGraph`, and `Metrics` extends `History` and instantiates
`CheckRollup`.

## 3. Module by module

### PollerTimers, PeriodicTasks

`timers[c][g]` counts the armed timers of chain `c` created by generation `g`
(`start`'s `gen`); `runs` are the `runCycle` calls in progress, each with the
chain that re-arms when it settles, the generation that launched it and the
latch it holds.  `StartPoller` is `startPoller` of `backend.ts` (the boot sweep,
then `start`), `Reconfigure` is `stop` and `start` in one stretch, `TimerFires`
the timer callback, `CycleEnds`/`Proceed`/`Settle` the three places where a
run's promise is resumed.  A run that finds its latch taken is over at once, as
in `withLatch`.  `Nudge` is a webhook delivery: `RouteEvent` says which cycles
an event asks for and a run of their union is one call.  Timers may fire at any
time; delays belong to `Pacing`.

`PeriodicTasks` is the abstract specification: a set of tasks switched on and
off together, each waiting or busy.  `PollerTimers` implements it under the
mapping `TaskState`.

### Pacing

Time is a number.  `due[c]` is the instant chain `c`'s timer is armed for, or
that it is off or at work; `ChainRuns` is the timer going off, `ChainArms` the
re-arming with `NextDelay` (`nextDelayMs`), `Answered` what `guard` and
`notePause` make of an answer, with the budget the client reports.
`RetrySeconds`, `RateLimited` and `Penalty` are `github.ts`.  A configuration is
a record of intervals and floor; switching it keeps the armed timers.

### PollerIngest

GitHub is a state per pull request (`gh`); every cycle asks at one step and
applies the answer at a later one.  `prs`, `stages`, `entries`, `enqueuedAt`
and `firstGreen` are the poller's maps, `rows` the table `merged_prs`.  Times
are sets: `window` is what `merged:>=lastSweep` would match, `fresh` the merges
since the running sweep began, so that moving `lastSweep` to the start of the
sweep is `window' = fresh`.  The sweep is one search per owner, its follow-up
pages, and the end that prunes only when every owner answered in full.  Each page
is answered from the list of that moment: `PageAt(S, n)` is page `n` of what the
search finds then, in GitHub's order (`Order`, which does not change), and the
cursor is a place in that list.  A pull request that leaves a page already read
moves the rest forward, so that one of them is on neither page; `sweep.missed`, a
history variable, collects these and the ones beyond the cap.  The detail and
queue cycles apply their answers node by node.  `ToggleExclude` is a hot-applied
change of `exclude`, `Restart` a crash and a boot.

### RunnerRouting

A gh call is started by one step (`Tick`), takes effect in a second (`Lands`,
or `Lost` without effect) and is handled in a third (`DeleteSettles`,
`WriteSettles`); configuration changes, new plans and restarts fall between
them.  `Swallows` says whether `deleteVar` hides its errors, as `backend.ts`
wires it; `Ambiguous` whether a call reported as failed may have taken effect.

### Credentials

`cached` and `inflight` are the fields of the token source, `fetches` the runs
of gh or mints in progress, each under the caller that began it, `calls` the
requests of `github.ts` with their `retried` parameter.  `source` is fixed in
`Init`: gh or App.  A fetch is answered in one step (`FetchSucceeds`,
`FetchFails`) and settles in a later one (`FetchSettles`), which clears
`inflight`, caches the token and resumes everyone who awaited that fetch: one
drain of the microtask queue.  `Rejected` is a 401 and what follows it in
`refresh`.  `Login`, `Revoke` and `Ages` are the outside world.  A call's
`floor` is no state of the code: it records how new the retry's token has to be.

### WorkflowGraph, CheckRollup, CommitChecks, MergeQueue

`WorkflowGraph` is `required-checks.ts` and `critical-path.ts` as operators on a
parsed workflow file: the needs closure of the rollup job, which nodes run on
which event, runner labels, timeouts, discovery of the file, and earliest,
latest and critical nodes.  An `if:` expression is the two sets of events it
compares the event name with.

`CheckRollup` follows a list of check runs through the code in its order:
superseded runs are dropped, jobs of one name in one workflow aggregated, the required
population selected and completed by the history, progress estimated, waits
inferred, and the stage of the row classified.  It also holds what is learned
from the list.

`CommitChecks` is the life of a commit's check runs on GitHub (`Trigger`,
`Starts`, `Completes`, `RerunFailed`, `Tick`); `Snapshot` is what
`mapRollupContexts` reads at any moment.

`MergeQueue` is `estimator/queue.ts` and the queue view: which train covers an
entry, what is ahead, its estimate, the culprit of a failed train, and the
health classification.

### Notifier, Alerts

A debounce key is a record of subject and type.  Each feed of `notifier.ts` is a
pair of operators: the keys after it, and the keys it fires.  `Alerts` composes
them with the poller's caches and scans: `QueueCycle`, `SweepEnds` (emit and
prune), `ScanDurationRegressions`, `ScanRunnerStarvation`, `CheckBudgets`,
configuration changes and restarts.  The measured series are an outside world
that moves between scans.

### Deploys

`merged`, `tip` and `expired` are the world; `rows` and `sampled` the database;
`cycle` is the deploy cycle with what is left of its loop.  `HealthAnswered`
begins an environment, `AncestryAnswered` and `AncestryFails` are one record
(with its throttle, live mark, notification and gap sample), `EnvDone` the end
of the loop.  `SweepRecords` is the merge ingestion's upsert, `DeploysPrune` and
`DeployRestart` empty maps.  `MergedStage` and `ChainEntries` are the board.
`Orphans` are commits an environment never contains (squashed elsewhere).

### HistoryTables, History, RepoData

A database is a record of tables, a table with a unique key a set of rows, one
without a sequence.  `HistoryTables` has the keys, the statements and the
migrations; `History` the methods of `HistoryStore`: operators from a database
to a database or an answer.  Every statement is synchronous, so a call is part
of the action that makes it.

`RepoData` composes them with the poller's per-repository caches: the
configuration file and its aliases, the workflow graph, the discovered path,
learned pools and scheduled runs, each with its retry throttle
(`RefreshRepoConfigs`, `Rederive`, `LearnPoolsFromChecks`, `LearnPushPools`,
`RefreshScheduled`, `RestorePersisted`).  A throttle counts minutes down.
`RepoSpec` has all lanes over one database, for the proofs; TLC runs them apart.

### Settings

`configFile` is the file (whether it parses and what it sets), `live` the
process's configuration or `Down`, `byHand` the operator's last edits.  `Put`
and `PutRouting` are the two routes: validate, merge into the file, write, load
the whole, hot-apply.  `Boot`, `ProcessEnds`, `HandEdit`, `Corrupted` and
`Repaired` surround them.  A value of the wrong type or range is the value
`bad`.

### PipelineModel, PipelineEdits, Workspace

`PipelineModel` derives the static graph of the parsed workflow files (reusable
workflows, matrices, guards), the closure that gates a merge, and the matrix of
checks by tiers with what was observed.  `PipelineEdits` are the edits of a
file, the legality and simulation of moves, and the candidate a list of
mutations projects to.  `Workspace` is a request from derivation to draft pull
request: `Derive`, `Prepare*`, `CheckPin`, `CreateRef`, `CreateCommit`,
`CreatePr`, between which others push and merge and each call may fail.

### Actions

`requests[s]` is a request with the step it awaits.  `ready-merge` looks the pull
request up, marks it ready and arms auto-merge; a proposal reads the default
branch, creates a branch, a commit and a draft.  `Answers` gives the status the
route ends in; `CallFails` a failure with or without effect.  People close,
edit and merge meanwhile, and the installation's mapping may change.

### Frames

`held` is what the cycles know, `lastState` the memoised state, `emitted` the
last signature, `browsers` what each shows, whether it is connected and how long
it has heard nothing.  `CycleEnds` applies a cycle and emits, `Pass` lets a unit
of time go by, repeating the frame at the keepalive and running the watchdogs.
`cost` is a summary with its age.

### Metrics, Costs, Candidates, Digest

`Metrics` is computeMetrics over a database of `History` and a set of merged rows:
a query is a window, a bucket and an instant, a figure that may be null a set of at
most one.  `SweepBucketPeaks` is the sweep line of the concurrency chart;
`ProjectInputs` and `ComputeRunnerPlan` make the runner plan of the same rows.
`Costs` prices jobs (flat, metadata and bill-derived rates) and sums the metrics
sections and the cost lane; dollars are exact fractions.  `Candidates` are the
suggestions to demote and promote checks.  `Digest` is the daily timer over days
of 23 to 25 hours with restarts and late timers.

### MC modules

`MCPollerTimers`, `MCPollerIngest` and `MCRunnerRouting` give instances, the first
with symmetry.  `MCPollerPages` starts the poller over a merge queue that is there
already and bounds what happens to two sweeps.  `MCBackend` runs either the token
sources or the routing controller, which share no state.  `MCModels` has one
initial state per input of a pure algorithm, and the life of a commit.  `MCServices` runs one lane of services per behaviour: the
lanes share only the database and the notifier, in which each has rows and keys
of its own, so taking them apart loses no interleaving.  `MCPipelines` holds the
example pipelines, `MCMetrics` the histories of the metrics tab and what its figures
are to be.

## 4. The runs

Deadlock is checked, except in `timers`, `timers_live`, `ingest_paged`, `models`,
`services`, `quarantine` and `accepted_patch`: these stop where the bound on
generations, slots, commits, cycles, faults or time is reached, and the pure models have no steps at all.

| Run | Properties | Bounds |
|---|---|---|
| `timers` | `TimersAreCurrent`, `OneChainEach`, `LatchesAreOwned`, `ImplementsPeriodicTasks` | three chains (the sweep, a hot detail and a hot queue chain), six runs at once, three generations: a hot-apply (two generations) on top of a start, with old cycles, nudges and the boot sweep still in flight |
| `timers_live` | `ChainsKeepTicking`, `ConfigurationTakesEffect` | the sweep chain, whose run is a sweep followed by a detail cycle; four runs, so that a restart meets a run of the generation before while kicks, boot sweeps and nudges contend for both latches |
| `ingest` | `PruneKeepsStamps`, `MergesAreRecorded`, `BoardConverges` | one pull request, restarts, exclusion: the maps are keyed by pull request and rows do not interact except through pages and failing owners, so every interleaving of the three cycles with one life is there; follow-up pages are the matter of `ingest_paged` |
| `ingest_paged` | `OpenRowsSurvive` | three pull requests of one owner on pages of one node with a cap of two pages, and an owner without any: two in the merge queue when the process starts, the third opened during the run. Two sweeps (one that gathers rows, one that may prune them), one detail and one queue cycle beside them, two moves on GitHub (one opens a pull request or takes one out of the list between two pages), one exclusion; any owner and any page may fail. So the list moves between two pages, is longer than the cap, and queue entries protect what the pages do not show; the proof has no bounds |
| `merged_page` | violation of `NoMergeLost` | two merges on pages of one node |
| `ready_news` | violation of `ReadyIsNews` | one pull request |
| `backend` | `NobodyAwaitsTheDead`, `RetryIsFresh`, `NewestIsCached`, `RejectedTokensGo`, `HashIsLive`, `PlanConverges` | tokens: two requests at once, four tokens, both sources: a slow fetch from before a login, a refresh and a second 401 overlap; the proofs cover any number. Routing: three maps; the wiring of `backend.ts`; restarts |
| `kill_switch` | violation of `KillSwitchConverges` | routing as in `backend`, two maps |
| `models` | `ActivityNeverHidesAJob`, `FiguresAreExact`, `NoStaleVerdict`, `ReadyIsGreen`, `WaitsAreReal`, `LegalPlansKeepGates`, `QueueOrderIsKept`, `SuggestionsKeepGates`, `BillIsExplained` | a rollup with two jobs under every combination of needs and guards; every graph of four nodes with weights 0 to 2, cycles included; plans of one or two moves on sixteen pipelines; queues of four entries on two trains; two shards under three events; three jobs of two repositories with four sets of bills; three jobs of any length and outcome after three back to back, starting before or in a window of three hours, on one or two pools; two merges of any life in, before or at the edge of the window, with and without queue, runner and eject rows, asked in buckets of an hour and of a day (a day has six units, an hour two, so that every instant of a window is reached); a commit with two shards, two runs or attempts, and three instants |
| `services` | the fourteen below | see below |
| `quarantine` | violation of `QuarantinesSpareGates` | as `accepted_patch`; a quarantine names any check and any job of the two repositories |
| `accepted_patch` | violation of `AcceptedPatchBoots` | as `services`, with room for one more recorded change of a knob |

`services` runs one lane per behaviour:

| Lane | Property | Bounds, and why they are enough |
|---|---|---|
| queue, series, pools, budgets | `KeysAreEpisodes` | two series, pools and budget kinds: one that leaves the scan while another stays |
| deploys | `OncePerMerge` | two merges and one expiry; both environments |
| config, workflow, runnerPools, scheduled | `PersistedIsLoaded` | a missing, broken and two valid files, two paths; a refresh, a change or an outage, and a restart in any order |
| alias, runnerPools | `RenameMovesAll` | three check samples that clash or not, chained aliases |
| retries | `RetriesAreNotIncidents` | four results of one check on three commits, with and without a known attempt |
| settings | `HandWrittenSurvives` | two hand edits in a row after any requests; App mode complete or not, embedded or not |
| workspace | `StaleRequestsAreRefused`, `MergesKeepGates` | two repositories' shapes, three commits (base, push, merge), one pull request open at a time; any file unreadable |
| ready, proposals | `ReadyMeansMerging`, `ProposalsAreWhole` | two overlapping requests with an older one behind them, both spellings of a check; two installations |
| frames | `BrowsersShowTheBoard`, `HealthFollowsTheCycles` | two contents, a keepalive of 2, an interval of 2, staleness after 4, one browser (they do not interact) |
| digest | `DigestIsDaily` | six days of which one is longer and one shorter, two faults |
| pacing | `PauseIsKept` | two chains, one client, four instants, five answers: exhausted, low and ample budgets, a limit in the body and in the status |

Each lane is checked against all the properties; the table names the one it is
for.  The run has 1.7 million states, `models` 0.7 million.

Fairness, where a property is about what must happen:

* `timers_live`: an armed timer expires, a microtask runs, and a cycle ends.
  The last rests on every request being answered or failing: `github.ts` and
  `auth.ts` set no timeout, so it is the 300-second header and body timeouts of
  Node's fetch that justify it.  A fetch that outlives them would hold its latch
  for good.
* `ingest`: the chains keep every cycle coming (`PollerTimers`), the full detail
  cycle is not shut out for good by the hot one (strong fairness), outages and
  crashes end.
* `backend`, `kill_switch`: the poller emits an update in every keepalive
  window, a gh call ends (it is given no timeout), and calls stop failing.
* `backend`, tokens: the cycles keep sending requests, a fetch and a request end,
  and neither fails every time.

Each property has a mutant in `PROJECT.json`: a plausible bug of the code
(definitions marked "Variant (not the code)") under which its run fails.

## 5. What the violations show

* `merged_page`: a failed follow-up page of the merged search is not reported
  to its caller, `lastSweep` moves on and those merges are lost.
* `ready_news`: a placeholder row reads as CI in progress, so a pull request
  that has long been green is announced as just gone green when its first
  detail answer arrives, after every restart.
* `kill_switch`: `deleteVar` hides every error as "already absent", so one
  failed delete leaves the variable live with routing off.
* `quarantine`: `/quarantine` takes a check and a job from the browser and compares
  them nowhere.  The refusal of required gates looks at the check, the edit changes
  the job: a check that gates nothing, with the job of a gate, makes the gate
  tolerate its failures.
* `accepted_patch`: `notifications.enabled` without a command or webhook passes
  the validation of the patch, is written to the file and only then refused by
  `loadConfig`: the response is an error, the file stays, and the next boot
  fails.

## 6. What is proved

Every theorem holds for any value of the constants, from the assumptions the
modules state by name.  Each proof about a specification shows that an inductive
invariant holds initially, that every step keeps it, and that it implies the
property; a theorem about a pure algorithm is about any input.

| Module | Theorems | For any | Inductive invariant, and why the property alone is not enough |
|---|---|---|---|
| `PollerTimersProofs` | `TypeCorrect`, `NoStaleTimer`, `NoChainDuplicatedOrLost`, `LatchesExclusive`, `ChainsArePeriodicTasks` | chains among the code's four, finite slots, generations | `IInv` adds `RunsAreSound`: no run comes from a generation that has not begun, a settled run belongs to a chain, a run past its first cycle has a second to go on to. `Settle` re-arms a chain by the generation its run carries, and only knowing that no second run and no timer carries the same one makes the result a single chain |
| `PollerIngestProofs` | `TypesHold`, `OpenRowsStay`, `FewPrsKeepTheirRows`, `OnlyMergedPagesLose`, `StampsSurviveOnePage` | pull requests, repositories, page sizes, caps | `Typed` types every cycle by what its step may hold. `SeesOpen`: a pull request open since the sweep began is seen, on a page at hand, from the cursor on, of an owner yet to be asked, or `missed`; `SeesMerged` the same for merges; `StampsHold` for what a stamp waits for. A row is pruned only at the end of a sweep, so each has to follow a pull request through all pages |
| `RepoProofs` | `RestartsLoseNothing`, `RenamesLoseNothing`, `RetriesAreToldApart` | files, aliases, checks, jobs, runs, histories | `RepoInv`: `HistInv` (rows are rows of their tables, a run of a check is recorded once), `MemoryIsPersisted` (a value in memory is the one value of its key), `BaselineIsRecorded` (the rows of changes are dated in the order of the cycles, and the last one of a knob holds what it is compared with). Without the dates a restart could load an older value of a knob |
| `ModelsProofs` | `BoardIsUpToDate`, `GreenIsComplete`, `WaitsAreMeasured` | shards, runs, re-runs, times | `CommitInv`: what GitHub lists of a commit is the jobs of its runs, each attempt once and older attempts done, the rollup job after its tests; `queuedAt` is the last completion before it. The code sees only the list, so everything it infers rests on the shape lists can have |
| `ModelsProofs` | `NoJobIsHidden`, `SuggestionsAreSafe`, `QueueIsOrdered`, `LegalPlansAreSafe` | workflow file; statistics; queue; pipeline, rules and plan | no steps: the theorems are about the operators. `LegalPlansAreSafe` rests on the closed form of a plan (a check runs where the last move of its cell puts it), shown by induction over the moves |
| `ServicesProofs` | `PaceTyped`, `PauseHolds` | chains, clients, intervals, answers | `ArmedBeyond`: an armed chain that has run since the pause was last extended is armed for its end or later; `Sparse`; `StaleSince` |
| `ServicesProofs` | `BoardIsShown`, `HealthIsTimely` | browsers, intervals | `lastState` is what was emitted; `Sighted`: who is connected has been shown a frame; `AgesAgree`: a frame is as old as the last cycle, or older by less than one keepalive |
| `ServicesProofs` | `MergesAreAnnouncedOnce` | pull requests, orphans | `CycleIsOpen`: a record under way belongs to an environment whose commit is known; `AnnouncedOnce` and `SampledOnce`: whatever was announced or sampled has its live stamp, in this or an earlier process. A live stamp is written once, so it makes both edges |
| `ServicesProofs` | `EpisodesAreKeyed` | series, pools, budget kinds | `Known` adds the type of the scan's memory; keys of two alerts are told apart by their type, and `prune` spares the keys of series and pools |
| `ServicesProofs` | `DigestsAreDaily` | calendars of days up to an hour longer or shorter, digest hours, faults | `ArmedAhead`: an armed timer is for today or tomorrow, and on a day without a fault at the hour of the digest; `Settled`: such a day either has its digest and the timer is beyond it, or is today, still without one. That a day is a day at all (`DayIs`) needs the midnights to be in order, by counting |
| `ServicesProofs` | `CredentialsTyped`, `NoDeadPromise`, `RetriesAreFresh`, `MintsAreShared` | requests, tokens, both sources | `Promises` relates fetches and those who await them, `Past` orders tokens, `Mints` says that an App mint which was answered but has not settled carries a token nobody has used, `Floors` that what a refreshing call awaits is, or will be, new enough |
| `OperatorProofs` | `HashCorrect`, `OneCallAtATime` | maps; `HashCorrect` assumes that a call reported as failed had no effect | `Agree`: while a call is out, one that succeeded left its map behind, and until then the hash is that of the variable |
| `OperatorProofs` | `HandsOff`, `FilesWithSinksBoot` | edits, request bodies, routings | `SettingsInv`: a process that runs has a configuration it could boot with, with owners. A write checks more than a boot, but replaces owners and drops what it cannot read, so acceptance has to be shown not to depend on either |
| `OperatorProofs` | `SuccessMeansMerging`, `ProposalsStayWhole` | overlapping requests | `Sound`: `RightStep` (a request is at a step of its own kind) and `Remembers` (what a request remembers of the pull request never outruns what is true of it); `Whole`: a branch is at its base or holds the one document its name says |
| `WorkspaceProofs` | `NoStaleDrafts` | repositories, requests, losses, rules | `WorkspaceInv`: a request whose base is the head knows of no move (`KnowsMoves`), and one past its pin rests on nothing that moved (`PinsHold`) unless it writes prefixes |
| `WorkspaceProofs` | `GatesSurvive` | repositories, requests, losses, rules | `GatesInv`: the head, every commit and every pull request are repositories of the assumed kind, a request past its derivation writes what keeps the gates of its base, it branches at that base, and a pull request keeps the gates of its base. That a write keeps gates is the larger part: see below |
| `FiguresProofs` | `BillsAreExplained`, `SlacksAreExact` | ledgers; graphs of jobs | no steps. Rates and dollars have different denominators; `Worth` takes them to one, and the sum of a partition is that of its parts. A slack has a closed form: a node may finish as late as every path below it allows, and the longest path is as long as a rank |
| `FiguresProofs` | `PeaksExact`, `PlanFollows`, `WindowsMeet`, `SectionsCountAlike`, `FiguresExact` | queries, histories, pools, merges | no steps. `SweptUpTo`: after the events up to an instant the sweep line holds the count of that instant and the peaks of the buckets before it. The plan, the windows and the sections count the same rows in two ways: `PartsCount` says that the parts of a finite set count what it counts |
| `FiguresProofs` | `RecordingKeepsHistories` | databases, calls | `IsStored`: rows have the key of their table, an attempt completes once, tables are finite. This is what the figures need, kept by each call that records a job, a wait, an eject or a run of a group |

`ChainsArePeriodicTasks` is the refinement: each action of `PollerTimers` maps to
a step of `PeriodicTasks` or a stutter.

What the theorems take for granted, beyond the named assumptions:

* `PollerIngestProofs`.  Where TLC finds a violation, the theorem names its only
  cause.  `OpenRowsStay` assumes nothing: `OpenRowsSurvive` itself names the rows
  that slipped across a page boundary or lie beyond the cap.  `FewPrs`: no
  repository has more pull requests than a page, and then no row goes at all.
  `MergedCapHolds`: no owner has more pages of merges than the poller reads.
  `EveryPageAnswers`: no follow-up page of merges
  fails (the finding of `merged_page`).  `OpenFitsAPage`: open pull requests are
  one page per owner, since one that merges between two pages is pruned with its
  stamps (section 7).
* `RepoProofs`.  `World` says that lists are finite, that a check names a run
  GitHub has, that times are numbers, and that aliases are `ForwardAliases`: no
  pair renames to a name that it, or a pair before it, has given up.
  `repo-config.ts` drops pairs that rename a name to itself, and the old names
  are keys of a mapping; a file that lists `b: c` before `a: b` gets a history
  of `a` under `b`, and is outside the theorem.  `RepoSpec` has every lane of
  `services` in one specification.
* `ModelsProofs`.  `WorkflowFile`: the file parses and has its rollup job (others
  have no graph).  `CheckCounts`: counts are numbers.  `IsQueue`: positions and
  numbers are unique, and a train is contiguous, as GitHub's merge queue builds
  them.  `IsPlan`: a plan is a sequence of moves between tiers.
* `GatesSurvive`.  `IsRepository`: a repository has finitely many files, only the
  rollup is triggered by the merge queue, the ids of a file's jobs differ (they are
  the keys of a mapping), jobs of the rollup show different names, and none calls
  the rollup itself.  `IsRequestBody`: a candidate is a list of the mutations that
  `applyMutation` knows; a quarantine may pair any check with any job.  What such a
  pairing may expose is in the property (`Exposed`), and is the finding of
  `quarantine`.  The pipelines and requests of `services` meet both.
* `FiguresProofs`.  `IsLedger`: finitely many rows and bills, minutes and dollars
  are numbers, no pool is called "fleet".  `IsGraph`: finitely many jobs, weights
  are numbers.  `IsQuery`, `IsFullQuery`: one of the windows and buckets of the
  tab, and a window that does not begin before time 0.  `IsFleet`: the key of a duration is
  its name, event and time (the UNIQUE constraint of the table), and an attempt of a
  check on a commit completes once (GitHub does not complete a run twice;
  `CompletesOnce` where it is recorded).  `IsHistory`: tables are finite, times are
  numbers, board samples are in time order.  `IsMerges`: finitely many, none
  deployed to production before it was merged.  `RecordingKeepsHistories` shows
  that recording keeps all of it but the order of the board samples, and every
  input of `models` meets these.
* `HandsOff`, `FilesWithSinksBoot`, `NoStaleDrafts`, `GatesSurvive` and the three
  theorems of `RepoProofs` quantify over the inputs that the lanes of `services`
  choose from; those lanes are instances.

How a write keeps the gates (`WorkspaceProofs`).  `GatesAre` gives the required gates
of a repository in closed form, without the graph: the checks that the jobs of the
rollup show which run in the queue, are needed by the rollup job directly or through
others, and are not conditional.  `ModelIs` and `GraphIs` get there through the
fetched files and the nodes of the derivation.  `RenderEdits` and the lemmas after it
say that an edit of any kind adds no job, and keeps name, calls, matrix and tolerance
of those it leaves (a quarantine makes its own job tolerant); `OverridesEdit` carries
that over the mutations of a candidate, by counting.  A candidate is applied only if
it loses no gate that the derivation saw;
`CandidateKeeps` shows that this holds of the gates of the whole repository, also
those behind files that could not be read when it was validated.  `QuarantineKeeps`
has it, for the gates of the check's own job, from the refusal of required checks.  The clause on tolerance is about gates
there were before: a job that tolerates failures may come to gate when it is moved
into the queue.

The folds of the models (`FoldSet`, `FoldLeft`) are defined by a CHOOSE of a
recursive function, whose existence the library's theorems give only for an
operator parameter.  `RepoProofs` shows it for the three folds that write the
database: one recursion over the subsets of a finite set (`Unfolds`), which
exists (`FoldExists`, by counting up the sizes of subsets) and carries what
holds of no element to all (`FoldInduction`).  `ModelsProofs` does the same for
sums over checks and for the fold of a plan, `WorkspaceProofs` for the fold that joins
the nodes of the jobs (`Flattened`), and `FiguresProofs` for sums (`SumIs`,
`SumOfParts`) and for functions that recurse along a rank (`Recursion`), such as the
longest path of a graph.

What the proofs changed in the models.  `CommitAssumption` names what the life of a
commit needs of its constants, `CellOf` what the matrix holds of one cell.
`ModelOf`, `EditsFor`, `Projections`, `NeedsOf` and `NeedsClosure` name parts of
what a request derives, `Overrides` applies the mutations by a recursive function,
and the tolerance clause of `MergesKeepGates` is the one above.  `DigestAssumption`
now asks for days of three hours or more and a calendar of two (with two hours a
shortened day has no hour to send at), and `Midnight` is a recursive function.
The windows of `Metrics` are one function (`WindowDays`), `Mark` is written without
`@@`, and `RowsSince` of `History` keeps the positions of rows.  The properties of
`MCMetrics` take the query, the database and the merges as parameters, its units and
limits are constants of the run, and two queries are asked, in buckets of an hour and
of a day.  `ApplyCheckAliases` passes over pairs that are folded already inside its fold, as
the loop of `applyCheckAliases` does; `RecordPools`, `RepoNext` and `TotalSecs`
name what was written in place.

Only model-checked, and why:

* everything under fairness (`ChainsKeepTicking`, `ConfigurationTakesEffect`,
  `MergesAreRecorded`, `BoardConverges`, `PlanConverges`, `RejectedTokensGo`) is
  out of the prover's reach.  Every other property of a passing run, invariant or
  action property, is stated by a theorem;
* that board samples are in time order, which `IsHistory` asks for and
  `recordStateCounts` sees to: it thins the samples with `SelectSeq`, which is
  recursive.

## 7. Where the code and its comments part

The five violations of section 5, and what the models and the reading behind
them showed without a run of its own.

Poller and history
* A queue wait is recorded twice when a late detail answer brings a merged row
  and its enqueue time back.  A pull request that merges between two pages of
  the open search is pruned with its stamps.  Rows of an excluded repository stay
  while they are queued, and its queue entries are refetched only until the
  prune.
* The open set is not always complete (`poller.ts:746` says it must be): a pull
  request that moves forward across the boundary of a page already read, because
  another left the list meanwhile, and those past the page cap (`poller.ts:469`)
  are pruned as gone unless they are in the merge queue.  The first comes back
  with the next sweep.
* One owner's success clears `staleSince` for all, while the contained successes
  of the deploy cycle do not.  The rate-limit pause is kept by the timers armed
  after it: one armed before, kicks of hot-applies and nudges still call GitHub,
  a run goes on asking after a rate-limited answer, and a restart forgets it.  The
  `ratelimited` event has no listener.  A limit in the middle of the scheduled
  refresh skips the refresh of its cache.
* One failing ancestry check ends the whole deploy cycle.  qa and prod at one
  commit share the throttle key; `propagating` is per pull request for all
  environments; an outage of the health URL after `seenNotLive` inflates the
  recorded gap.
* A fold of aliases can collide in `check_durations` and `runner_waits`
  (`history.ts:781-782` says "a rename can never collide"); it throws out of the
  refresh and ends the deploy cycle with the throttle armed for a day.
  `observedPoolKeys` keeps the old name until a restart.  A workflow path that was
  discovered is preferred to one pinned later.  A mapping that lists `b: c` before
  `a: b` leaves the history of `a` under `b`.
* A change made to a knob while the process is down is not recorded if it never
  changed before: its baseline is not persisted.
* `recordMainFromOid` reads cancelled and running pushes as green;
  `recordMainCommit` with a null `mergedAt` overwrites a known one;
  `latestScheduledRuns` returns two rows for ties; a failure after an
  earlier-attempt success on one commit is neither flake nor incident; resolving a
  flake in the middle of a streak splits an incident in two.

Rollup and queue
* Ready is shown too soon when the missing expected check weighs less than half a
  percent.  `extractRunnerWaits` does not scope the check itself by workflow, and
  waits after a re-run include the gap.  `splitOidChecks` keeps only the run with
  the largest id.  An activity of only one event is unsound for `== 'X' || other`.
* `queueStage` and `mergeEtaSimFor` count covered queued entries as queued ahead.
  UNKNOWN mergeability can hold a stale queue or parked stage.  A queued detail
  answer that comes late makes a sample for the wrong estimate.  A workflow impact
  is cached per head against an older base.

Notifications, settings, authentication
* Two feeds of one key re-fire on every emit.  The key of a stalled queue survives
  an emptied or pruned queue, and a removed budget never clears its own
  (`notifier.ts:285-286`).  An event type that is switched off still marks its
  condition as announced.
* The metrics memo (20 s) and the protection-map cache (5 min) ignore changes of
  configuration.  An embedded host with an inline App key can never save: both
  writers load without that key, answer 500, and leave the file written.
* `HashIsLive` assumes that a failed gh call did nothing; a call that hangs keeps
  `inFlight` for good.  An empty list of installations keeps the old mapping, and
  replaced clients stay in the minimum of budgets (`client-router.ts:71`).  When a
  gh refresh discards the fetch in flight, two 401s run gh twice; retries are
  still fresh.
* A hot-apply's immediate sweep is dropped while an older one holds the latch; the
  next tick applies it (`ConfigurationTakesEffect`).
* The comment on `mergeStateStatus` (`pr-actions.ts:41`) and the matching of
  `isCleanStatus` are looser than what they say; an answer of already armed can be
  stale.  `scaffold-pr` never throws `PermissionError`, so the 403 branch is dead.
  A proposal that fails leaves its branch, and its retry is answered 502; two
  slugs of more than sixty characters collide.

Workspace and metrics
* `legality.ts:6-10`: `/draft-pr` validates one cell, but the edit restricts the
  job to only the target event; the backend never passes `liveRequired`, and
  `projectCandidate` ignores it.  Two candidates may jointly drop a gate.  An
  unparseable raw edit is not refused (`candidate.ts:49-50`).
* `CREATE_REF` and `CREATE_PR` carry no owner and go to the first one's client.
  `/prefixes` opens without `checkPin`, and a failed read of the file counts as
  absent, so its other keys are dropped.  `/quarantine` checks one name and edits
  another (section 5).  A degraded model is cached for five minutes; the head may move between
  `checkPin` and `createRef`; a failed commit leaves its branch, and a lost answer a
  pull request without an audit row.
* The self-health measures emitted frames.  Browsers give up after 90 s of silence, frames repeat after 60 s.
* A pool with hosted and other rows is priced from the configuration while its
  other rows count in the fleet's denominator; the first day of the window is billed whole and counted in
  part; the rows of excluded repositories are left out of the minutes (comment at
  `metrics.ts` 1241).  A chart of reclaims places jobs where they start and reclaims
  where they end, and a flake that is not the first row of its run has no place in
  the flake trend of a bucket in which no run begins.  The two lists of candidates are disjoint only below 300 runs,
  and match names differently.
* A day of 25 hours leaves one hour in no digest, one of 23 has one in two; a clock
  step back or a late timer sends twice or leaves a gap; a restart over the due
  hour and a failed send lose the day.

## 8. What is not modelled

* Wall-clock pacing of requests is a number in `Pacing` and absent elsewhere.
* Floating-point statistics: the ETA-accuracy tracker and calibration section,
  `ejectProbability`, the batch advisor, lane health, forecasts, flake summary and recommendations are
  outside what TLC evaluates.  Medians and percentiles are taken over integers.
* Counts of queue-wait samples and the size of maps (`PollerIngest` keeps sets).
* Text: the digest, alert messages, audit log, prompts and changelogs.
* YAML, `if:` expressions and paths beyond what decides a branch; the lint of
  workflow files and the diff of a workflow-touching head.
* Signing of App requests, the manifest exchange of the setup script, reading the
  webhook secret, request parsing.
* Delivery to commands, webhooks and browser notifications: fire and forget.
* Backfill: one pass over recent merges, whose inserts are those of the sweep.
* React views, packaging, installation scripts.
