------------------------------- MODULE History -------------------------------
(***************************************************************************)
(* HistoryStore (src/server/history.ts): what its methods accept, write    *)
(* and answer, over the tables of HistoryTables.  An operator that writes  *)
(* takes a database and is the database after it; one that is refused      *)
(* leaves it as it was.                                                    *)
(***************************************************************************)
EXTENDS HistoryTables

CONSTANTS
  Minute, Day,    \* in units of time
  SeriesLimit,    \* LIMIT of the duration series (20), of its tail (50), ...
  FreshMin,       \* DURATION_FRESH_MIN
  FallbackLimit   \* DURATION_FALLBACK_LIMIT
ASSUME HistoryAssumption ==
  {Minute, Day, SeriesLimit, FreshMin, FallbackLimit} \subseteq Nat \ {0}

FreshDays == 14
NoStat == [n |-> 0]

(***************************************************************************)
(* Check durations.                                                        *)
(***************************************************************************)
\* Only a check that ran for some time; the first row of a key stays.
RecordCheckDuration(db, name, event, started, at, conclusion, sha, attempt, run) ==
  IF started = 0 \/ at = 0 \/ at <= started THEN db
  ELSE InsertOrIgnore(db, "durations",
         [name |-> name, event |-> event, secs |-> at - started, at |-> at,
          conclusion |-> conclusion, sha |-> sha, attempt |-> attempt,
          started |-> started, run |-> run])

\* The samples an estimate is made of: the newest ones within two weeks of the
\* newest of them, or, when that leaves too few, the last of any age.
RecentDurations(db, name, event) ==
  LET rows  == NewestRows(Successes(db, name, event), SeriesLimit)
      fresh == IF rows = {} THEN {}
               ELSE Since(rows, Max({r.at : r \in rows}) - FreshDays * Day)
  IN IF Cardinality(fresh) >= FreshMin THEN fresh ELSE NewestRows(rows, FallbackLimit)

Secs(r) == r.secs
ExpectedDuration(db, name, event) ==
  LET rows == RecentDurations(db, name, event)
  IN IF rows = {} THEN NoStat
     ELSE [n |-> Cardinality(rows), p10 |-> Percentile(rows, Secs, 10),
           p50 |-> Percentile(rows, Secs, 50), p90 |-> Percentile(rows, Secs, 90)]
DurationP99(db, name, event) ==
  LET rows == NewestRows(Successes(db, name, event), 50)
  IN IF rows = {} THEN NoStat ELSE [n |-> Cardinality(rows), p99 |-> Percentile(rows, Secs, 99)]
ExpectedSet(db, event, now) == NamesPassing(db, event, now - FreshDays * Day)

\* A row from before the column has its start derived from its length.
StartOf(r) == IF r.started # 0 THEN r.started ELSE r.at - r.secs
CheckIntervals(db, since) ==
  {[name |-> r.name, event |-> r.event, from |-> StartOf(r), to |-> r.at] :
     r \in Since(db.durations, since)}
CostRows(db, since) ==
  {[name |-> r.name, event |-> r.event, sha |-> r.sha, run |-> r.run, from |-> StartOf(r),
    secs |-> r.secs, attempt |-> r.attempt] : r \in Since(db.durations, since)}

(***************************************************************************)
(* Retries: a failure that the same commit overcame is a flake, a          *)
(* cancellation that it overcame is a reclaimed runner.                    *)
(***************************************************************************)
\* Variant (not the code): any later success of the check resolves a failure.
ResolvesAnyCommit(s, f) == s.name = f.name /\ s.event = f.event /\ s.conclusion = "SUCCESS" /\ s.at > f.at

\* By attempt when both are known, by time otherwise.
Resolves(s, f) ==
  /\ <<s.name, s.event, s.sha, s.conclusion>> = <<f.name, f.event, f.sha, "SUCCESS">>
  /\ IF s.attempt # 0 /\ f.attempt # 0 THEN s.attempt > f.attempt ELSE s.at > f.at
FlakeRows(db, since) ==
  LET rows == Identifiable(db, since)
  IN {f \in rows : f.conclusion \in Failing /\ \E s \in rows : Resolves(s, f)}
\* A row without an attempt is a run of its own.
RunOf(r) == <<r.sha, r.attempt, IF r.attempt = 0 THEN r.at ELSE 0>>
FlakeStats(db, since) ==
  {[name |-> s[1], event |-> s[2],
    flakes |-> Cardinality({f \in FlakeRows(db, since) : <<f.name, f.event>> = s}),
    runs   |-> Cardinality({RunOf(r) : r \in {q \in Identifiable(db, since) : <<q.name, q.event>> = s}})] :
     s \in {<<r.name, r.event>> : r \in Identifiable(db, since)}}

ReclaimRows(db, since) ==
  LET rows == Identifiable(db, since)
  IN {c \in rows : /\ c.conclusion = "CANCELLED" /\ c.attempt # 0
                   /\ \E s \in rows : s.attempt # 0 /\ Resolves(s, c)}

RegressionCandidates(db, depth) ==
  {[name |-> s[1], event |-> s[2], newest |-> NewestOf(db, s)] : s \in DeepSeries(db, depth)}
RecentSamples(db, name, event, limit) == NewestRows(Successes(db, name, event), limit)

(***************************************************************************)
(* Renamed checks: every pair of the aliases is folded into the history    *)
(* once, in one transaction for all pending pairs.                         *)
(***************************************************************************)
Renamed(r, to) == [r EXCEPT !.name = to]
RenameCollides(db, table, from, to) ==
  \E r \in db[table] : r.name = from /\ Clashes(db, table, Renamed(r, to)) # {}
\* UPDATE: durations and runner waits.
MoveRows(rows, from, to) == {IF r.name = from THEN Renamed(r, to) ELSE r : r \in rows}
\* UPDATE OR IGNORE, then DELETE: the row the new name has already learned stays.
MoveOrDrop(db, table, from, to) ==
  {r \in db[table] : r.name # from}
    \cup {Renamed(r, to) : r \in {q \in db[table] : /\ q.name = from
                                                    /\ Clashes(db, table, Renamed(q, to)) = {}}}
FoldAlias(db, pair) ==
  LET from == pair[1]
      to   == pair[2]
  IN InsertOrIgnore(
       [db EXCEPT !.durations   = MoveRows(@, from, to),
                  !.runnerWaits = MoveRows(@, from, to),
                  !.pools       = MoveOrDrop(db, "pools", from, to),
                  !.failures    = MoveOrDrop(db, "failures", from, to)],
       "aliases", [old |-> from, new |-> to])
\* A moved row that collides with one of the new name fails the transaction.
FoldOrFail(acc, pair) ==
  IF ~acc.ok \/ \E t \in {"durations", "runnerWaits"} : RenameCollides(acc.db, t, pair[1], pair[2])
  THEN [ok |-> FALSE, db |-> acc.db]
  ELSE [ok |-> TRUE, db |-> FoldAlias(acc.db, pair)]

\* Variant (not the code): what was folded before a collision is kept.
ApplyWithoutTransaction(db, aliases) == FoldLeft(FoldOrFail, [ok |-> TRUE, db |-> db], aliases)

ApplyCheckAliases(db, aliases) ==
  LET already(p) == [old |-> p[1], new |-> p[2]] \in db.aliases
      moved == FoldLeft(LAMBDA acc, p : IF already(p) THEN acc ELSE FoldOrFail(acc, p),
                        [ok |-> TRUE, db |-> db], aliases)
  IN IF moved.ok THEN moved ELSE [ok |-> FALSE, db |-> db]

(***************************************************************************)
(* Merge groups.                                                           *)
(***************************************************************************)
RecordGroupRun(db, secs, at) ==
  IF secs <= 0 THEN db ELSE InsertOrIgnore(db, "groupRuns", [secs |-> secs, at |-> at])
GroupRunSamples(db) == NewestRows(db.groupRuns, SeriesLimit)
MedianGroupRun(db) == IF db.groupRuns = {} THEN 0 ELSE Middle(GroupRunSamples(db), Secs)
CountGroupRuns(db, since) == Cardinality(Since(db.groupRuns, since))
\* A group with several failing checks is one eject.
CountGroupEjects(db, since) == Cardinality({r.sha : r \in Since(db.failures, since)})
RecordGroupFailure(db, name, sha, at, conclusion) ==
  IF None \in {name, sha} \/ at = 0 THEN db
  ELSE InsertOrIgnore(db, "failures", [name |-> name, sha |-> sha, at |-> at, conclusion |-> conclusion])
\* Once per database: the rows from before groups and pushes were told apart.
PruneConflatedGroupStatsOnce(db) ==
  IF \E r \in db.meta : r.key = "deconflation" THEN db
  ELSE Upsert([db EXCEPT !.groupRuns = {}, !.failures = {}], "meta",
              [key |-> "deconflation", value |-> "done"])

(***************************************************************************)
(* The main branch.                                                        *)
(***************************************************************************)
RecordMainCommit(db, sha, merged, conclusion, completed, now) ==
  Upsert(db, "mains", [sha |-> sha, merged |-> merged, conclusion |-> conclusion,
                       completed |-> completed, observed |-> now])
MainWindow == 7
MainRows(db, now) == RecentCommits(db, now - MainWindow * Day, SeriesLimit)
OrderedMains(db, now) == SetToSortSeq(MainRows(db, now), LAMBDA a, b : CommitAt(a) > CommitAt(b))
\* One red over a green is a watch, two in a row are red, no verdict is blind.
MainLaneHealth(db, now) ==
  LET rows == OrderedMains(db, now)
      red(i) == Len(rows) >= i /\ rows[i].conclusion \in Failing
  IN CASE rows = <<>> -> "idle"
       [] red(1) -> IF red(2) THEN "red" ELSE "amber"
       [] OTHER  -> IF rows[1].conclusion = None THEN "blind" ELSE "green"
MainCommitSeries(db, now) ==
  LET rows   == OrderedMains(db, now)
      greens == {i \in DOMAIN rows : rows[i].conclusion = "SUCCESS"}
      point(c) == CASE c = None -> "none" [] c \in Failing -> "bad" [] OTHER -> "ok"
  IN [points    |-> Reverse([i \in DOMAIN rows |-> point(rows[i].conclusion)]),
      lastGreen |-> IF greens = {} THEN None ELSE rows[Min(greens)].sha]

RecordScheduledRun(db, run) == Upsert(db, "scheduled", run)
LatestScheduledRuns(db, days, now) == LatestRuns(db, now - days * Day)

(***************************************************************************)
(* Configuration, quarantines, meta.                                       *)
(***************************************************************************)
RecordConfigChange(db, at, field, old, new) ==
  InsertOrIgnore(db, "changes", [at |-> at, field |-> field, old |-> old, new |-> new])
ConfigChangesSince(db, since) == Since(db.changes, since)
LatestConfigValues(db) ==
  [f \in {r.field : r \in db.changes} |-> (CHOOSE r \in LatestChange(db, f) : TRUE).new]
\* A second quarantine moves the end, not the beginning.
RecordQuarantine(db, name, until, reason, created) ==
  IF None \in {name, until} \/ 0 \in {until, created} THEN db
  ELSE LET there == {r \in db.quarantines : r.name = name}
           since == IF there = {} THEN created ELSE (CHOOSE r \in there : TRUE).created
       IN Upsert(db, "quarantines", [name |-> name, until |-> until, reason |-> reason, created |-> since])
ActiveQuarantines(db, now) == {r \in db.quarantines : r.until > now}
SetMeta(db, key, value) == Upsert(db, "meta", [key |-> key, value |-> value])
DeleteMeta(db, key) == [db EXCEPT !.meta = {r \in @ : r.key # key}]
GetMeta(db, key) ==
  LET rows == {r \in db.meta : r.key = key}
  IN IF rows = {} THEN None ELSE (CHOOSE r \in rows : TRUE).value

(***************************************************************************)
(* Waits, pools, predictions, samples of the board, money.                 *)
(***************************************************************************)
RecordQueueWait(db, wait, at) ==
  IF wait <= 0 THEN db ELSE AppendRow(db, "queueWaits", [secs |-> wait, at |-> at])
MedianQueueWait(db) ==
  LET rows == LastRows(db.queueWaits, SeriesLimit)
  IN IF rows = <<>> THEN 0 ELSE Middle(DOMAIN rows, LAMBDA i : rows[i].secs)
\* A wait of nothing is a sample too: a warm runner.
RecordRunnerWait(db, name, event, wait, started, pool) ==
  IF wait < 0 THEN db
  ELSE InsertOrIgnore(db, "runnerWaits",
         [name |-> name, event |-> event, wait |-> wait, started |-> started, pool |-> pool])
Waited(r) == r.wait
\* The median of the check's own waits, or none.
ExpectedRunnerWait(db, name, event) ==
  LET rows == NewestWaits(WaitsOf(db, name, event), SeriesLimit)
  IN IF rows = {} THEN NoStat ELSE [n |-> Cardinality(rows), p50 |-> Middle(rows, Waited)]
ExpectedRunnerWaitForEvent(db, event) ==
  LET rows == NewestWaits({r \in db.runnerWaits : r.event = event}, 50)
  IN IF Cardinality(rows) < 3 THEN NoStat ELSE [n |-> Cardinality(rows), p50 |-> Middle(rows, Waited)]
PoolWaitsSince(db, since) == {r \in db.runnerWaits : r.started >= since /\ r.pool # None}

RecordObservedPool(db, name, event, pool, hosted, now) ==
  Upsert(db, "pools", [name |-> name, event |-> event, pool |-> pool, hosted |-> hosted, seen |-> now])
ObservedPool(db, name, event) == {r \in db.pools : r.name = name /\ r.event = event}
\* Another event of the same job runs on the same pool, except in a merge group.
ObservedPoolWithFallback(db, name, event) ==
  LET siblings == {r \in db.pools : r.name = name /\ r.event # "merge_group"}
      newest   == {r \in siblings : \A s \in siblings : s.seen <= r.seen}
  IN CASE ObservedPool(db, name, event) # {} -> ObservedPool(db, name, event)
       [] ObservedPool(db, name, event) = {} /\ event = "merge_group" -> {}
       [] OTHER -> IF newest = {} THEN {} ELSE {CHOOSE r \in newest : TRUE}

\* Only an actual stage counts: at least a minute and a twentieth of the prediction.
RecordEtaAccuracy(db, stage, predicted, actual, at) ==
  IF predicted < 0 \/ actual <= 0 \/ actual < Minute \/ 20 * actual < predicted THEN db
  ELSE AppendRow(db, "etas", [stage |-> stage, predicted |-> predicted, actual |-> actual, at |-> at])
\* The ninetieth percentile of actual over predicted, in percent; from ten rows on.
CalibrationFactor(db, stage) ==
  LET usable == LastRows(SelectSeq(db.etas, LAMBDA r : r.stage = stage /\ r.predicted > 0), 30)
      ratio(i) == (100 * usable[i].actual) \div usable[i].predicted
  IN IF Len(usable) < 10 THEN 0 ELSE Percentile(DOMAIN usable, ratio, 90)

\* At most one sample of the board in a quarter of an hour; each new one drops
\* those that are older than ninety days.
SampleSpacing == 15 * Minute
RecordStateSample(db, at, counts) ==
  IF db.states # <<>> /\ at - Max({r.at : r \in ToSet(db.states)}) < SampleSpacing THEN db
  ELSE [db EXCEPT !.states = SelectSeq(Append(@, [at |-> at, counts |-> counts]),
                                       LAMBDA r : r.at >= at - 90 * Day)]
\* The rows of a table without a key, in their places.
RowsSince(rows, since) == [i \in {j \in DOMAIN rows : rows[j].at >= since} |-> rows[i]]
StateSamplesSince(db, since) == RowsSince(db.states, since)
EtaAccuracySince(db, since)  == RowsSince(db.etas, since)
QueueWaitsSince(db, since)   == RowsSince(db.queueWaits, since)
GroupRunsSince(db, since)    == Since(db.groupRuns, since)
GroupFailuresSince(db, since) == Since(db.failures, since)
RunnerWaitsSince(db, since)  == {r \in db.runnerWaits : r.started >= since}
CheckDurationsSince(db, since) == {r \in Since(db.durations, since) : r.conclusion = "SUCCESS"}
MergeGroupChecksSince(db, since) == GroupChecks(db, since)
UpsertCostActual(db, scope, date, dollars) ==
  Upsert(db, "actuals", [scope |-> scope, date |-> date, dollars |-> dollars])
CostActualsSince(db, date) == {r \in db.actuals : r.date >= date}
===============================================================================
