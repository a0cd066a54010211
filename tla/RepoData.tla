------------------------------- MODULE RepoData -------------------------------
(***************************************************************************)
(* What the poller (src/server/poller.ts) keeps per repository besides its *)
(* pull requests: the in-repo configuration and its aliases, the derived   *)
(* workflow graph and the discovered workflow file, learned runner pools   *)
(* and the runs of scheduled workflows.  Each is fetched rarely, held in   *)
(* memory, persisted, and restored by the next process.                    *)
(*                                                                         *)
(* One repository.  A throttle counts the minutes until the next attempt.  *)
(***************************************************************************)
EXTENDS History

CONSTANTS MaxChanges    \* Bound: rows of config_changes.

VARIABLES
  file,         \* GitHub: the in-repo configuration file
  workflows,    \* GitHub: path |-> what the file there defines
  access,       \* GitHub: does a request see the repository?
  instance,     \* the instance configuration of the repository
  setAside,     \* the instance configuration: is the repository setAside?
  hist,         \* the database
  fileConfig,   \* Poller.repoFileConfigs
  baseline,     \* Poller.lastConfigSnapshot
  graph,        \* Poller.derivedGraph, derivedPrefixes, derivedWorkflowName
  found,        \* Poller.discoveredWorkflowPath
  observedKeys, \* Poller.observedPoolKeys
  recent,       \* Poller.recentlyFetchedRunIds
  scheduledFiles, \* Poller.discoveredScheduled
  scheduledCache, \* Poller.scheduledCache: what the lane shows
  retry         \* the RetryThrottles, by what they throttle

repoVars == <<file, workflows, access, instance, setAside, hist, fileConfig, baseline,
              graph, found, observedKeys, recent, scheduledFiles, scheduledCache, retry>>
remote   == <<file, workflows, access>>
chosen   == <<instance, setAside>>
lane     == <<scheduledFiles, scheduledCache>>
learned  == <<observedKeys, recent, lane>>

(***************************************************************************)
(* RetryThrottle: a success holds for long, failures back off.             *)
(***************************************************************************)
LongWait == 1440
FreshThrottle == [wait |-> 0, failures |-> 0]
Due(t)       == t.wait = 0
Succeeded(t) == [wait |-> LongWait, failures |-> 0]
\* A fifth failure waits as long as the fourth: counting stops there.
FailedOnce(t) == [wait |-> Min({2^t.failures, 10}), failures |-> Min({t.failures + 1, 4})]
Throttles == {"config", "derive", "pushPools", "discovery", "scheduled"}

(***************************************************************************)
(* The layers of the configuration.                                        *)
(***************************************************************************)
Fields == {"batchSize", "workflowPath"}
Content(kind, batch, path, aliases) ==
  [kind |-> kind, batchSize |-> batch, workflowPath |-> path, aliases |-> aliases]
NoFile == Content("absent", None, None, <<>>)
Broken == Content("broken", None, None, <<>>)
DefaultOf == [batchSize |-> "6", workflowPath |-> "ci.yml"]

\* Instance override, in-repo file, default.
SettingsFor(field) ==
  CASE instance[field] # None -> instance[field]
    [] instance[field] = None /\ fileConfig[field] # None -> fileConfig[field]
    [] OTHER -> DefaultOf[field]
WorkflowPathPinned == instance.workflowPath # None \/ fileConfig.workflowPath # None

RepoInit ==
  /\ file = NoFile /\ workflows \in [{"ci.yml", "main.yml"} -> {"none", "other", "rollup"}]
  /\ access = "ok" /\ setAside = FALSE
  /\ instance = [batchSize |-> None, workflowPath |-> None, clone |-> FALSE]
  /\ hist = EmptyDb /\ fileConfig = NoFile /\ baseline = [f \in {} |-> None]
  /\ graph = {} /\ found = None /\ observedKeys = {} /\ recent = {}
  /\ scheduledFiles = {} /\ scheduledCache = "idle"
  /\ retry = [t \in Throttles |-> FreshThrottle]

(***************************************************************************)
(* Outside.                                                                *)
(***************************************************************************)
Moves(moved) == moved /\ UNCHANGED <<chosen, hist, fileConfig, baseline, graph, found, learned, retry>>
FileMoves(contents) == \E c \in contents \ {file} : Moves(file' = c /\ UNCHANGED <<workflows, access>>)
WorkflowMoves == \E p \in DOMAIN workflows, k \in {"none", "other", "rollup"} :
  Moves(workflows' = [workflows EXCEPT ![p] = k] /\ UNCHANGED <<file, access>>)
AccessMoves == \E a \in {"ok", "hidden", "down"} \ {access} :
  Moves(access' = a /\ UNCHANGED <<file, workflows>>)
InstanceMoves(choices) ==
  /\ instance' \in choices \ {instance}
  /\ UNCHANGED <<remote, setAside, hist, fileConfig, baseline, graph, found, learned, retry>>
ExcludeMoves ==
  /\ setAside' = ~setAside
  /\ UNCHANGED <<remote, instance, hist, fileConfig, baseline, graph, found, learned, retry>>
\* The short waits run out, or all of them.
WaitsRunOut(longest) ==
  /\ retry' = [t \in Throttles |->
                 IF retry[t].wait <= longest THEN [retry[t] EXCEPT !.wait = 0] ELSE retry[t]]
  /\ retry' # retry
  /\ UNCHANGED <<remote, chosen, hist, fileConfig, baseline, graph, found, learned>>

(***************************************************************************)
(* refreshRepoConfigs.                                                     *)
(***************************************************************************)
\* Variant (not the code): only the memory forgets a file that was removed.
FileGoneInMemory == fileConfig' = NoFile /\ hist' = hist

FileGone == fileConfig' = NoFile /\ hist' = DeleteMeta(hist, "repoConfig")
FileLoaded ==
  /\ fileConfig' = file
  /\ hist' = ApplyCheckAliases(SetMeta(hist, "repoConfig", file), file.aliases).db
\* A file that cannot be parsed, like a repository that cannot be seen, leaves
\* everything; only the former counts as a success.
RefreshRepoConfigs ==
  /\ ~setAside /\ Due(retry["config"])
  /\ retry' = [retry EXCEPT !["config"] = IF access = "ok" THEN Succeeded(@) ELSE FailedOnce(@)]
  /\ IF access = "ok" /\ file.kind = "absent" THEN FileGone
     ELSE IF access = "ok" /\ file.kind = "config" THEN FileLoaded
     ELSE UNCHANGED <<fileConfig, hist>>
  /\ UNCHANGED <<remote, chosen, baseline, graph, found, learned>>

\* detectConfigChanges: a knob that moved since the last cycle is a row; one
\* that is seen for the first time is not.
DetectConfigChanges ==
  LET moved == {f \in DOMAIN baseline : baseline[f] # SettingsFor(f)}
      at    == 1 + Cardinality(hist.changes)
      row(f) == [at |-> at, field |-> f, old |-> baseline[f], new |-> SettingsFor(f)]
  IN /\ ~setAside
     /\ Cardinality(hist.changes) + Cardinality(moved) <= MaxChanges
     /\ hist' = [hist EXCEPT !.changes = @ \cup {row(f) : f \in moved}]
     /\ baseline' = [f \in Fields |-> SettingsFor(f)]
     /\ UNCHANGED <<remote, chosen, fileConfig, graph, found, learned, retry>>

(***************************************************************************)
(* The workflow graph: maybeRederivePrefixes.                              *)
(***************************************************************************)
GraphOf(path) == {[from |-> path, full |-> workflows[path] = "rollup"]}
\* adoptDerivedGraph: cached and persisted.
Adopt(path) == graph' = GraphOf(path)
AdoptedIn(db, path) == SetMeta(db, "ciGraph", GraphOf(path))

\* discoverWorkflow: the conventional name first, then the alphabet.
RollupPaths == {p \in DOMAIN workflows : workflows[p] = "rollup"}
Discovered == IF SettingsFor("workflowPath") \in RollupPaths THEN SettingsFor("workflowPath")
              ELSE CHOOSE p \in RollupPaths : TRUE
MayDiscover == ~instance.clone /\ ~WorkflowPathPinned

\* Variant (not the code): a discovered path is remembered by this process only.
RememberedIn(db, path) == AdoptedIn(db, path)

DiscoveredIn(db, path) == AdoptedIn(SetMeta(db, "discoveredWorkflowPath", path), path)

Rederive ==
  LET path == IF found # None THEN found ELSE SettingsFor("workflowPath")
      fails == retry' = [retry EXCEPT !["derive"] = FailedOnce(@)]
      answers == retry' = [retry EXCEPT !["derive"] = Succeeded(@)]
  IN /\ ~setAside /\ Due(retry["derive"])
     /\ \/ access # "ok" /\ fails /\ UNCHANGED <<graph, found, hist>>
        \/ /\ access = "ok" /\ workflows[path] = "rollup" /\ answers
           /\ Adopt(path) /\ hist' = AdoptedIn(hist, path) /\ UNCHANGED found
        \/ /\ access = "ok" /\ workflows[path] # "rollup" /\ MayDiscover /\ RollupPaths # {} /\ answers
           /\ found' = Discovered /\ Adopt(Discovered) /\ hist' = DiscoveredIn(hist, Discovered)
        \* the listing of the files fails, after the success of the read was noted
        \/ /\ access = "ok" /\ workflows[path] # "rollup" /\ MayDiscover
           /\ retry' = [retry EXCEPT !["derive"] = FailedOnce(Succeeded(@))] /\ UNCHANGED <<graph, found, hist>>
        \* nothing to discover: the rollup alone, or what was known
        \/ /\ access = "ok" /\ workflows[path] # "rollup" /\ (MayDiscover => RollupPaths = {}) /\ answers
           /\ IF workflows[path] = "other" THEN Adopt(path) /\ hist' = AdoptedIn(hist, path)
              ELSE UNCHANGED <<graph, hist>>
           /\ UNCHANGED found
     /\ UNCHANGED <<remote, chosen, fileConfig, baseline, learned>>

(***************************************************************************)
(* Runner pools (src/server/pool-learning.ts, pool-resolve.ts).  A job is  *)
(* [caller, child, labels, group]; child is none for a job of the workflow *)
(* itself.  A pool is the set of labels that identify it.                  *)
(***************************************************************************)
GenericLabels == {"self-hosted", "linux"}
HostedImages  == {"ubuntu-latest"}
UnknownPool == {"unknown"}
ResolveJobPool(job) ==
  LET own == job.labels \ GenericLabels
  IN [pool   |-> IF own # {} THEN own ELSE IF job.group # None THEN {job.group} ELSE UnknownPool,
      hosted |-> job.group = "GitHub Actions" \/ job.labels \cap HostedImages # {}]

\* A job that calls a workflow runs where its children run.
ResolveJobs(jobs) ==
  LET pool(j) == ResolveJobPool(j)
      known == {j \in jobs : pool(j).pool # UnknownPool}
      callers == {j.caller : j \in {k \in known : k.child # None}}
                   \ {j.caller : j \in {k \in known : k.child = None}}
      children(c) == {j \in known : j.caller = c /\ j.child # None}
  IN {[name |-> <<j.caller, j.child>>, pool |-> pool(j).pool, hosted |-> pool(j).hosted] :
        j \in {k \in jobs : k.child # None \/ k.caller \notin callers}}
     \cup {[name |-> <<c, None>>, pool |-> UNION {pool(j).pool : j \in children(c)},
            hosted |-> \E j \in children(c) : pool(j).hosted] : c \in callers}

\* The runs whose jobs are fetched now: of checks not mapped yet, not fetched of
\* late, and not more than the cap.
MaxJobsFetches == 8
MaxPushRuns    == 3
Batches(runs, cap) ==
  {S \in SUBSET runs : Cardinality(S) = Min({cap, Cardinality(runs)})}
RunsToFetch(checks) ==
  {c.run : c \in {d \in checks : /\ d.run # 0 /\ <<d.name, d.event>> \notin observedKeys
                                 /\ d.run \notin recent}}

RecordPools(db, event, pools, now) ==
  FoldSet(LAMBDA p, d : RecordObservedPool(d, p.name[1], event, p.pool, p.hosted, now), db, pools)

\* fetchAndRecordPools: only what was answered is recorded and not asked again
\* (for an hour); a failure, or a rate limit that ends the batch, leaves it.
FetchPools(runs, jobsOf, event, now) ==
  \E answered \in SUBSET runs :
    LET pools == UNION {ResolveJobs(jobsOf[r]) : r \in answered}
    IN /\ hist' = RecordPools(hist, event, {p \in pools : p.name[2] = None}, now)
       /\ observedKeys' = observedKeys \cup {<<p.name[1], event>> : p \in {q \in pools : q.name[2] = None}}
       /\ recent' = recent \cup answered

LearnPoolsFromChecks(checks, jobsOf, event, now) ==
  /\ RunsToFetch(checks) # {}
  /\ \E runs \in Batches(RunsToFetch(checks), MaxJobsFetches) : FetchPools(runs, jobsOf, event, now)
  /\ UNCHANGED <<remote, chosen, fileConfig, baseline, graph, found, lane, retry>>

\* The runs of pushes are listed first: an answered list is not asked for again
\* for a while, whatever becomes of the jobs.
LearnPushPools(runs, jobsOf, now) ==
  /\ ~setAside /\ Due(retry["pushPools"]) /\ access = "ok"
  /\ retry' = [retry EXCEPT !["pushPools"] = Succeeded(@)]
  /\ \E batch \in Batches(runs \ recent, MaxPushRuns) : FetchPools(batch, jobsOf, "push", now)
  /\ UNCHANGED <<remote, chosen, fileConfig, baseline, graph, found, lane>>

RecentRunsExpire ==
  /\ recent # {} /\ recent' = {}
  /\ UNCHANGED <<remote, chosen, hist, fileConfig, baseline, graph, found, observedKeys, lane, retry>>

(***************************************************************************)
(* Scheduled workflows (src/server/scheduled.ts).                          *)
(***************************************************************************)
ScheduledLaneStatus(runs, discovered) ==
  CASE discovered = 0 -> "idle"
    [] discovered > 0 /\ runs = {} -> "blind"
    [] \E r \in runs : r.conclusion \in Failing -> "red"
    [] OTHER -> IF \A r \in runs : r.conclusion = "SUCCESS" THEN "green" ELSE "amber"
\* The files with a schedule among their triggers; one that cannot be parsed is
\* scanned for the word below its triggers.
ParseScheduledWorkflows(files) ==
  {f.path : f \in {g \in files : IF g.parses THEN "schedule" \in g.on ELSE g.scanned}}

RecordScheduledRuns(db, answers) == FoldSet(LAMBDA r, d : RecordScheduledRun(d, r), db, answers)

\* Once a day the files, then once an hour the runs of each; only when all have
\* answered is the repository left alone for the hour.
Discovery(files, known, throttle) ==
  \/ ~Due(retry["discovery"]) /\ known = scheduledFiles /\ throttle = retry["discovery"]
  \/ Due(retry["discovery"]) /\ known = ParseScheduledWorkflows(files) /\ throttle = Succeeded(retry["discovery"])
  \/ Due(retry["discovery"]) /\ known = scheduledFiles /\ throttle = FailedOnce(retry["discovery"])
RefreshScheduled(files, runsOf, now) ==
  /\ ~setAside
  /\ \E known \in {scheduledFiles, ParseScheduledWorkflows(files)},
        throttle \in {retry["discovery"], Succeeded(retry["discovery"]), FailedOnce(retry["discovery"])} :
       LET polls == Due(retry["scheduled"]) /\ known # {} IN
       /\ Discovery(files, known, throttle)
       /\ scheduledFiles' = known
       /\ \E answered \in IF polls THEN SUBSET known ELSE {{}} :
            /\ hist' = RecordScheduledRuns(hist, UNION {runsOf[w] : w \in answered})
            /\ retry' = [retry EXCEPT
                 !["discovery"] = throttle,
                 !["scheduled"] = CASE ~polls -> @
                                    [] polls /\ answered = known -> Succeeded(@)
                                    [] OTHER -> FailedOnce(@)]
       /\ scheduledCache' = ScheduledLaneStatus(LatestScheduledRuns(hist', 7, now), Cardinality(known))
  /\ UNCHANGED <<remote, chosen, fileConfig, baseline, graph, found, observedKeys, recent>>

\* A rate limit ends the refresh of every repository: what was recorded stays,
\* no throttle is armed for the runs, and the lane is not computed again.
RefreshScheduledPaused(runsOf) ==
  /\ ~setAside /\ ~Due(retry["discovery"]) /\ Due(retry["scheduled"])
  /\ \E answered \in (SUBSET scheduledFiles) \ {scheduledFiles} :
       hist' = RecordScheduledRuns(hist, UNION {runsOf[w] : w \in answered})
  /\ UNCHANGED <<remote, chosen, fileConfig, baseline, graph, found, learned, retry>>

(***************************************************************************)
(* What the sweep and the detail cycle learn of a check that ran.          *)
(***************************************************************************)
\* A check that takes a unit of time, after a wait for a runner since the start.
CheckRan(name, at, conclusion, sha, attempt) ==
  /\ hist' = RecordRunnerWait(
               RecordCheckDuration(hist, name, "pull_request", at - 1, at, conclusion, sha, attempt, 1),
               name, "pull_request", at - 1, at - 1, None)
  /\ UNCHANGED <<remote, chosen, fileConfig, baseline, graph, found, learned, retry>>
GroupFailed(name, at, sha) ==
  /\ hist' = RecordGroupFailure(hist, name, sha, at, "FAILURE")
  /\ UNCHANGED <<remote, chosen, fileConfig, baseline, graph, found, learned, retry>>

(***************************************************************************)
(* A restart: restorePersisted.                                            *)
(***************************************************************************)

RestoredBaseline == LatestConfigValues(hist)
Persisted(key) == {r.value : r \in {q \in hist.meta : q.key = key}}
RestoredConfig == IF Persisted("repoConfig") = {} THEN NoFile ELSE CHOOSE c \in Persisted("repoConfig") : TRUE
RestoredGraph  == UNION Persisted("ciGraph")
RestorePersisted ==
  /\ fileConfig' = RestoredConfig
  /\ graph' = RestoredGraph /\ found' = GetMeta(hist, "discoveredWorkflowPath")
  /\ baseline' = RestoredBaseline
  /\ observedKeys' = {<<r.name, r.event>> : r \in hist.pools} /\ recent' = {}
  /\ scheduledFiles' = {} /\ scheduledCache' = "idle"
  /\ retry' = [t \in Throttles |-> FreshThrottle]
  /\ UNCHANGED <<remote, chosen, hist>>

\* The steps of the poller for one repository, with what they are given: the files,
\* instance configurations, checks, jobs and runs that GitHub and people come up with.
RepoNext(world) ==
  \/ FileMoves(world.contents) \/ WorkflowMoves \/ AccessMoves
  \/ InstanceMoves(world.choices) \/ ExcludeMoves
  \/ WaitsRunOut(10) \/ WaitsRunOut(LongWait)
  \/ RefreshRepoConfigs \/ DetectConfigChanges \/ Rederive
  \/ RecentRunsExpire \/ RestorePersisted
  \/ RefreshScheduledPaused(world.runsOf)
  \/ \E now \in world.times :
       \/ RefreshScheduled(world.files, world.runsOf, now)
       \/ LearnPushPools(DOMAIN world.jobsOf, world.jobsOf, now)
       \/ \E checks \in SUBSET world.checks, event \in world.events :
            LearnPoolsFromChecks(checks, world.jobsOf, event, now)
  \/ \E c \in world.ran : CheckRan(c.name, c.at, c.conclusion, c.sha, c.attempt)
  \/ \E c \in world.failed : GroupFailed(c.name, c.at, c.sha)
RepoSpec(world) == RepoInit /\ [][RepoNext(world)]_repoVars

-------------------------------------------------------------------------------
\* What a restart would load is what this process holds, however files, access
\* and pins change in between: an outage never costs a configuration or a graph
\* that was known, a file that was removed does not come back, and the knobs whose
\* changes are recorded are compared with the value they last had.
PersistedIsLoaded ==
  /\ RestoredConfig = fileConfig
  /\ RestoredGraph = graph
  /\ GetMeta(hist, "discoveredWorkflowPath") = found
  /\ \A f \in DOMAIN RestoredBaseline : f \in DOMAIN baseline /\ RestoredBaseline[f] = baseline[f]

\* A fold moves the whole history of the old name and loses none of it, or it
\* does nothing at all; a name is folded once (applyCheckAliases).
RenameMovesAll ==
  [][LET folded == hist'.aliases \ hist.aliases
         olds   == {a.old : a \in folded}
         kept(rows) == {<<r.event, r.at, r.secs, r.sha>> : r \in rows}
     IN /\ folded # {} =>
             /\ \A r \in hist'.durations \cup hist'.runnerWaits \cup hist'.pools \cup hist'.failures :
                  r.name \notin olds
             /\ kept(hist'.durations) = kept(hist.durations)
             /\ Cardinality(hist'.durations) = Cardinality(hist.durations)
             /\ {r.event : r \in hist'.pools} = {r.event : r \in hist.pools}
             /\ {r.sha : r \in hist'.failures} = {r.sha : r \in hist.failures}
        /\ fileConfig' # fileConfig /\ folded = {} =>
             UNCHANGED <<hist.durations, hist.runnerWaits, hist.pools, hist.failures>>]_repoVars

\* What the retries of a check overcame is told apart from what was broken: a
\* commit whose failure or cancellation counts as a flake or as a reclaimed runner
\* is in no incident, and the incidents are streaks: there is one exactly if some
\* commit failed for good, and never more than the other commits can separate
\* (flakeStatsByRepo, reclaimEventsByRepo, failureIncidentsByRepo).
RetriesAreNotIncidents ==
  \A s \in SeriesOf(hist) :
    LET rows == {r \in Judged(hist, 0) : <<r.name, r.event>> = s}
        shas == {r.sha : r \in rows}
        bad  == {c \in shas : FailedForGood(rows, c)}
        count == Incidents(hist, 0, s[1], s[2])
    IN /\ count = 0 <=> bad = {}
       /\ count <= 1 + Cardinality(shas \ bad)
       /\ \A f \in FlakeRows(hist, 0) \cup ReclaimRows(hist, 0) : <<f.name, f.event>> = s => f.sha \notin bad
       /\ SuccessStat(hist, 0, s[1], s[2]).failing = 0 =>
            count = 0 /\ \A f \in FlakeRows(hist, 0) : <<f.name, f.event>> # s
===============================================================================
