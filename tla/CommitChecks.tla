----------------------------- MODULE CommitChecks -----------------------------
(***************************************************************************)
(* The check runs of one commit as GitHub Actions produces them, and what  *)
(* the poller reads out of the list at any moment (mapRollupContexts in    *)
(* src/server/map.ts, then CheckRollup).                                   *)
(*                                                                         *)
(* A test matrix of Shards gates the rollup job ci.  The workflow may be   *)
(* triggered again on the same commit (a new run), and the failed jobs of  *)
(* a run may be run again (a new attempt of the same run): the list keeps  *)
(* the old check runs next to the new ones.  A check of another workflow,  *)
(* whose name starts with the same prefix, may stand beside them.          *)
(***************************************************************************)
EXTENDS CheckRollup

\* MaxGenerations bounds the runs and attempts together, MaxTime the clock.
CONSTANTS Shards, MaxGenerations, MaxTime
ASSUME CommitAssumption ==
  /\ Shards # {} /\ IsFiniteSet(Shards) /\ "ci" \notin Shards /\ "gate" \notin Shards
  /\ {MaxGenerations, MaxTime} \subseteq Nat \ {0}

VARIABLES
  listed,     \* the check runs GitHub lists on the commit
  queuedAt,   \* when GitHub put a check run in the queue: what the list does not say
  clock

commitVars == <<listed, queuedAt, clock>>

TestName == <<"test">>
CiName   == <<"ci">>
Gate     == <<"ci", "gate">>
Jobs     == Shards \cup {"ci"}

CommitGraph ==
  [nodes |-> [n \in {TestName, CiName} |->
                [needs    |-> IF n = CiName THEN {TestName} ELSE {},
                 activity |-> Always, runsOn |-> {"linux"}, timeout |-> NoTimeout]],
   workflow |-> "CI"]

CheckOf(job, run, attempt) ==
  [raw |-> job, name |-> IF job = "ci" THEN CiName ELSE TestName,
   workflow |-> "CI", event |-> "pull_request", run |-> run, id |-> run,
   attempt |-> attempt, status |-> "QUEUED", conclusion |-> NoConclusion,
   started |-> 0, completed |-> 0, created |-> 1, required |-> FALSE]

GateFailed == [CheckOf("gate", 1, 1) EXCEPT
  !.name = Gate, !.workflow = "Auto-merge", !.status = "COMPLETED",
  !.conclusion = "FAILURE", !.started = 1, !.completed = 1]

KeyOf(c) == <<c.raw, c.run, c.attempt>>
LatestRun == Maximum({c.run : c \in {d \in listed : d.workflow = "CI"}}, 0)
\* The last attempt of every job of a run.
Current(run) == {c \in listed : /\ c.workflow = "CI" /\ c.run = run
                                /\ \A d \in listed : d.raw = c.raw /\ d.run = run
                                                     => d.attempt <= c.attempt}

CommitInit == /\ listed \in {{}, {GateFailed}}
              /\ queuedAt = <<>>
              /\ clock = 1

Generations == {<<c.run, c.attempt>> : c \in {d \in listed : d.workflow = "CI"}}
MayStartOne == Cardinality(Generations) < MaxGenerations

Add(new, base) ==
  /\ listed' = base \cup new
  /\ queuedAt' = [k \in DOMAIN queuedAt \cup {KeyOf(c) : c \in new} |->
                    IF k \in DOMAIN queuedAt THEN queuedAt[k] ELSE clock]
  /\ UNCHANGED clock

\* A label or a re-open triggers the workflow: a new run.  The old one is left as
\* it is: what it could still report, it could also have reported before.
Trigger ==
  /\ MayStartOne
  /\ Add({CheckOf(s, LatestRun + 1, 1) : s \in Shards}, listed)

Starts(c) == /\ c.status = "QUEUED"
             /\ listed' = (listed \ {c}) \cup
                          {[c EXCEPT !.status = "IN_PROGRESS", !.started = clock]}
             /\ UNCHANGED <<queuedAt, clock>>

\* The rollup job runs whatever its needs concluded (if: always()), as soon as
\* the last of them has finished; it reports their failure.
Verdict(tests) ==
  IF \A d \in tests : d.conclusion = "SUCCESS" THEN {"SUCCESS", "CANCELLED"}
  ELSE {"FAILURE", "CANCELLED"}

Completes(c, conclusion) ==
  LET done   == [c EXCEPT !.status = "COMPLETED", !.conclusion = conclusion,
                          !.completed = clock]
      tests  == {d \in Current(c.run) : d.raw \in Shards}
      last   == c.raw \in Shards /\ \A d \in tests \ {c} : Completed(d)
  IN /\ c.status = "IN_PROGRESS"
     /\ c.raw = "ci" => conclusion \in Verdict(tests)
     /\ Add(IF last THEN {CheckOf("ci", c.run, c.attempt)} ELSE {},
            (listed \ {c}) \cup {done})

\* Re-run failed jobs: the jobs that did not succeed, in a new attempt.
RerunFailed(run) ==
  LET current == Current(run)
      top     == Max({c.attempt : c \in current})
      again   == {c \in current : c.raw \in Shards /\ c.conclusion # "SUCCESS"}
  IN /\ {c.raw : c \in current} = Jobs
     /\ \A c \in current : Completed(c)
     /\ again # {}
     /\ MayStartOne
     /\ Add({CheckOf(c.raw, run, top + 1) : c \in again}, listed)

Tick == clock < MaxTime /\ clock' = clock + 1 /\ UNCHANGED <<listed, queuedAt>>

CommitNext ==
  \/ Trigger
  \/ \E c \in Current(LatestRun) : Starts(c)
  \/ \E c \in Current(LatestRun), k \in {"SUCCESS", "FAILURE", "CANCELLED"} : Completes(c, k)
  \/ RerunFailed(LatestRun)
  \/ Tick

CommitSpec == CommitInit /\ [][CommitNext]_commitVars

(***************************************************************************)
(* What the board says.                                                    *)
(***************************************************************************)
Gates    == DOMAIN CommitGraph.nodes
Read     == DedupeChecks(listed)
Required == RequiredChecks(Read, Gates, CommitGraph.workflow)
\* The medians of the repository's history.
Median   == [n \in Gates |-> [p50 |-> 2, p90 |-> 2, samples |-> <<>>]]
Expected == ExpectedNames(DOMAIN Median, Read, Gates, CommitGraph.workflow, FALSE)
CiProgress == ComputeProgress(Required, Expected, Median, [n \in Gates |-> 0], clock)
Snapshot == [draft |-> FALSE, mergeState |-> "CLEAN", armed |-> FALSE]
Shown    == ClassifyOpen(Snapshot, NoStage, CiProgress, Required)

(***************************************************************************)
(* Properties.                                                             *)
(***************************************************************************)
\* The board reads a commit as failed exactly when a job of its latest run, in
\* its latest attempt, has failed and the family it belongs to is done: never
\* because of an older run, an older attempt, a cancelled job or the check of
\* another workflow (dropSupersededRuns, latestRunMembers, requiredChecks,
\* classify).
NoStaleVerdict ==
  LET jobs == Current(LatestRun)
      done(c) == \A d \in jobs : d.name = c.name => Completed(d)
  IN Shown.stage = "parked" <=> \E c \in jobs : Failed(c) /\ done(c)

\* A commit is only shown as ready when every job of its latest run succeeded:
\* a run that has not produced its rollup check yet is not taken for a green
\* one (the expected set of the history in classify and computeProgress).
ReadyIsGreen ==
  LET jobs == Current(LatestRun)
  IN Shown.stage = "ready" =>
       {c.raw : c \in jobs} = Jobs /\ \A c \in jobs : c.conclusion = "SUCCESS"

\* In a run without re-runs the wait of the rollup job, live while it is queued
\* and learned once it has started, is the time it really sat in the queue,
\* although the list only says when the checks it needs finished (classifyWait;
\* extractRunnerWaits as used by ingestCheckSet).  A check of another workflow is
\* left out: the code learns a wait from it all the same.
WaitsAreReal ==
  LET jobs  == Current(LatestRun)
      own   == {c \in Read : c.workflow = "CI"}
      live(c)    == ClassifyWait(c, Read, CommitGraph, clock)
      samples    == RunnerWaitSamples(own, CommitGraph, 7200)
  IN (\A c \in jobs : c.attempt = 1) =>
       /\ \A c \in own : c.raw = "ci" /\ live(c).kind = "runner" =>
                          live(c).secs = clock - queuedAt[KeyOf(c)]
       /\ \A s \in samples : \E c \in jobs :
            c.name = s.name /\ c.started = s.at /\ s.wait = s.at - queuedAt[KeyOf(c)]

\* A learned duration lies within one attempt: it never spans the gap before a
\* re-run (latestRunMembers and aggregateFamily, recorded by ingestCheckSet).
DurationsAreWithinAnAttempt ==
  \A s \in DurationSamples(Required, CommitGraph, 14400) :
    s.completed # 0 =>
      \E c, d \in Current(LatestRun) :
        /\ {c.name, d.name} = {s.name} /\ c.attempt = d.attempt
        /\ c.started = s.started /\ d.completed = s.completed
=============================================================================
