---------------------------- MODULE HistoryTables ----------------------------
(***************************************************************************)
(* The tables of the history database (src/server/history.ts) for one      *)
(* repository: their unique keys, the statements that write them and the   *)
(* ones that read them.  A database is a record of tables.  A table with a *)
(* unique key is a set of rows, a table without one a sequence of rows in  *)
(* the order of insertion.                                                 *)
(*                                                                         *)
(* Times and durations are integers; 0 is a null time, attempt or run      *)
(* number, "none" a null string.                                           *)
(***************************************************************************)
EXTENDS Integers, FiniteSets, FiniteSetsExt, SequencesExt

None == "none"
Failing == {"FAILURE", "TIMED_OUT", "STARTUP_FAILURE"}

EmptyDb ==
  [durations |-> {}, runnerWaits |-> {}, pools |-> {}, failures |-> {}, aliases |-> {},
   groupRuns |-> {}, changes |-> {}, quarantines |-> {}, mains |-> {}, scheduled |-> {},
   actuals |-> {}, meta |-> {}, queueWaits |-> <<>>, etas |-> <<>>, states |-> <<>>]

\* The UNIQUE and PRIMARY KEY clauses.
UniqueKey(table, r) ==
  CASE table = "durations"   -> <<r.name, r.event, r.at>>
    [] table = "runnerWaits" -> <<r.name, r.event, r.started>>
    [] table = "pools"       -> <<r.name, r.event>>
    [] table = "failures"    -> <<r.sha, r.name>>
    [] table = "aliases"     -> <<r.old, r.new>>
    [] table = "groupRuns"   -> r.at
    [] table = "changes"     -> <<r.at, r.field>>
    [] table = "quarantines" -> r.name
    [] table = "mains"       -> r.sha
    [] table = "scheduled"   -> <<r.workflow, r.id, r.attempt>>
    [] table = "actuals"     -> <<r.scope, r.date>>
    [] table = "meta"        -> r.key

Clashes(db, table, row) == {r \in db[table] : UniqueKey(table, r) = UniqueKey(table, row)}
InsertOrIgnore(db, table, row) ==
  IF Clashes(db, table, row) # {} THEN db ELSE [db EXCEPT ![table] = @ \cup {row}]
Upsert(db, table, row) ==
  [db EXCEPT ![table] = (@ \ Clashes(db, table, row)) \cup {row}]
AppendRow(db, table, row) == [db EXCEPT ![table] = Append(@, row)]

\* ALTER TABLE ... ADD COLUMN: a row from before the column reads as null; a
\* column that is there already is left alone.
AddColumnIfMissing(rows, column, null) ==
  {IF column \in DOMAIN r THEN r
   ELSE [c \in DOMAIN r \cup {column} |-> IF c = column THEN null ELSE r[c]] : r \in rows}

\* What opening an older database does to it.
Migrated(db) ==
  LET shas     == AddColumnIfMissing(db.durations, "sha", None)
      attempts == AddColumnIfMissing(shas, "attempt", 0)
      starts   == AddColumnIfMissing(attempts, "started", 0)
  IN [db EXCEPT !.durations   = AddColumnIfMissing(starts, "run", 0),
                !.runnerWaits = AddColumnIfMissing(@, "pool", None),
                !.failures    = AddColumnIfMissing(@, "conclusion", None)]

(***************************************************************************)
(* Reading.                                                                *)
(***************************************************************************)
Since(rows, t) == {r \in rows : r.at >= t}
\* ORDER BY at DESC LIMIT n: equal times are all in or all out of the model's
\* result; within one series times are unique.
NewestRows(rows, n) == {r \in rows : Cardinality({s \in rows : s.at > r.at}) < n}
LastRows(s, n) == SubSeq(s, IF Len(s) > n THEN Len(s) - n + 1 ELSE 1, Len(s))

\* The p-th percentile of a column: the least value with at least p percent of
\* the rows at or below it; Middle is median(), the lower one.
Percentile(rows, Value(_), p) ==
  LET rank == (p * Cardinality(rows) + 99) \div 100
  IN Min({v \in {Value(r) : r \in rows} : Cardinality({r \in rows : Value(r) <= v}) >= rank})
Middle(rows, Value(_)) ==
  LET rank == (Cardinality(rows) + 1) \div 2
  IN Min({v \in {Value(r) : r \in rows} : Cardinality({r \in rows : Value(r) <= v}) >= rank})

Successes(db, name, event) ==
  {r \in db.durations : r.name = name /\ r.event = event /\ r.conclusion = "SUCCESS"}
NamesPassing(db, event, cutoff) ==
  {r.name : r \in {d \in Since(db.durations, cutoff) : d.event = event /\ d.conclusion = "SUCCESS"}}
GroupChecks(db, since) == {r \in Since(db.durations, since) : r.event = "merge_group"}
WaitsOf(db, name, event) ==
  {r \in db.runnerWaits : r.name = name /\ r.event = event}
\* runner_waits is read by started_at.
NewestWaits(rows, n) == {r \in rows : Cardinality({s \in rows : s.started > r.started}) < n}

\* The last value recorded per field; ties only within one timestamp.
LatestChange(db, field) ==
  {r \in db.changes : r.field = field /\ \A s \in db.changes : s.field = field => s.at <= r.at}

\* A commit without a merge time is placed by when it was observed.
CommitAt(r) == IF r.merged # 0 THEN r.merged ELSE r.observed
RecentCommits(db, cutoff, n) ==
  LET recent == {r \in db.mains : CommitAt(r) >= cutoff}
  IN {r \in recent : Cardinality({s \in recent : CommitAt(s) > CommitAt(r)}) < n}

\* Of each workflow the newest run, and of that run the newest attempt; two runs
\* created in the same second are both kept.
LatestRuns(db, cutoff) ==
  LET recent == {r \in db.scheduled : r.created # 0 /\ r.created >= cutoff}
  IN {r \in recent : ~\E s \in recent :
        /\ s.workflow = r.workflow
        /\ s.created > r.created \/ (s.created = r.created /\ s.attempt > r.attempt)}

\* Rows that can take part in the detection of flakes and reclaims.
Identifiable(db, since) == {r \in Since(db.durations, since) : r.sha # None}
\* Rows with a verdict: a cancelled job has none.
Judged(db, since) == {r \in Identifiable(db, since) : r.conclusion # "CANCELLED"}

TotalSecs(rows) == MapThenSumSet(LAMBDA r : r.secs, rows)
\* One group per (check, event): runs are told apart by commit and attempt.
SuccessStat(db, since, name, event) ==
  LET rows == {r \in Judged(db, since) : r.name = name /\ r.event = event}
  IN [total   |-> Cardinality({<<r.sha, r.attempt>> : r \in rows}),
      failing |-> Cardinality({<<r.sha, r.attempt>> : r \in {s \in rows : s.conclusion \in Failing}}),
      secs    |-> TotalSecs(rows)]

\* Variant (not the code): a commit counts as failing although it passed later.
FailedForGoodEver(rows, sha) ==
  \E r \in rows : r.sha = sha /\ r.conclusion \in Failing

FailedForGood(rows, sha) ==
  /\ \E r \in rows : r.sha = sha /\ r.conclusion \in Failing
  /\ ~\E r \in rows : r.sha = sha /\ r.conclusion = "SUCCESS"

\* Consecutive failing commits, in the order of their first verdicts, are one
\* incident: the rising edges.
Incidents(db, since, name, event) ==
  LET rows     == {r \in Judged(db, since) : r.name = name /\ r.event = event}
      shas     == {r.sha : r \in rows}
      firstAt(s) == Min({r.at : r \in {q \in rows : q.sha = s}})
      before(s)  == {q \in shas : firstAt(q) < firstAt(s)}
      previous(s) == CHOOSE q \in before(s) : \A o \in before(s) : firstAt(o) <= firstAt(q)
  IN Cardinality({s \in shas : /\ FailedForGood(rows, s)
                               /\ before(s) # {} => ~FailedForGood(rows, previous(s))})

\* Series deep enough for the step test, with their newest sample.
SeriesOf(db) == {<<r.name, r.event>> : r \in db.durations}
DeepSeries(db, depth) ==
  {s \in SeriesOf(db) : Cardinality(Successes(db, s[1], s[2])) >= depth}
NewestOf(db, s) == Max({r.at : r \in Successes(db, s[1], s[2])})
===============================================================================
