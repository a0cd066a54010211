------------------------------ MODULE MCServices ------------------------------
(***************************************************************************)
(* The services around the pull requests, each by itself (they share only  *)
(* the database and the notifier, in which each has rows and keys of its   *)
(* own): a behaviour exercises one lane, chosen at the start.              *)
(***************************************************************************)
EXTENDS Alerts, Deploys, RepoData, Settings, Workspace, Actions, Frames, Digest, Pacing, MCPipelines

CONSTANTS MaxCommits, MaxTime
VARIABLE part
serviceVars == <<part, alertVars, deployVars, repoVars, settingVars, workspaceVars, actionVars, frameVars, digestVars, pacingVars>>

Config(batch, path, aliases) == Content("config", batch, path, aliases)
Instance(batch, path, clone) == [batchSize |-> batch, workflowPath |-> path, clone |-> clone]
Folds == {Config(None, None, <<<<"old", "new">>>>),
          Config(None, None, <<<<"old", "new">>, <<"new", "newest">>>>)}
Check(r) == IF r = 1 THEN "old" ELSE "new"
Jobs == [r \in {1, 2} |-> {[caller |-> Check(r), child |-> IF r = 2 THEN "unit" ELSE None,
                             labels |-> {"linux", IF r = 1 THEN "spot" ELSE "big"}, group |-> None]}]
Files == {[path |-> "nightly", parses |-> TRUE, on |-> {"schedule"}, scanned |-> FALSE],
          [path |-> "weekly", parses |-> FALSE, on |-> {}, scanned |-> TRUE],
          [path |-> "ci", parses |-> TRUE, on |-> {"push"}, scanned |-> TRUE]}
RunsOf == [w \in {f.path : f \in Files} |->
             {[workflow |-> w, id |-> 1, attempt |-> a, created |-> 1,
               conclusion |-> IF w = "nightly" /\ a = 1 THEN "FAILURE" ELSE "SUCCESS"] : a \in {1, 2}}]

ConfigLane ==
  \/ FileMoves({NoFile, Broken, Config("2", None, <<>>), Config("4", "main.yml", <<>>)})
  \/ AccessMoves \/ InstanceMoves({Instance(b, None, FALSE) : b \in {None, "8"}})
  \/ ExcludeMoves \/ WaitsRunOut(LongWait)
  \/ RefreshRepoConfigs \/ DetectConfigChanges \/ RestorePersisted
WorkflowLane ==
  \/ WorkflowMoves \/ AccessMoves
  \/ InstanceMoves({Instance(None, p, c) : p \in {None, "main.yml"}, c \in BOOLEAN})
  \/ WaitsRunOut(10) \/ WaitsRunOut(LongWait) \/ Rederive \/ RestorePersisted
AliasLane ==
  \/ FileMoves(Folds)
  \/ (\E c \in {<<"old", 2>>, <<"old", 4>>, <<"new", 2>>} : CheckRan(c[1], c[2], "SUCCESS", "a", 1))
  \/ (\E n \in {"old", "new"} : GroupFailed(n, 2, "g"))
  \/ WaitsRunOut(LongWait) \/ RefreshRepoConfigs
RunnerPoolLane ==
  \/ FileMoves({Config(None, None, <<<<"old", "new">>>>)})
  \/ (\E r \in {1, 2} :
        LearnPoolsFromChecks({[name |-> Check(r), event |-> "pull_request", run |-> r]}, Jobs, "pull_request", 1))
  \/ LearnPushPools({1, 2}, Jobs, 2) \/ RecentRunsExpire
  \/ WaitsRunOut(LongWait) \/ RefreshRepoConfigs \/ RestorePersisted
ScheduledLane ==
  \/ RefreshScheduled(Files, RunsOf, 1) \/ RefreshScheduledPaused(RunsOf)
  \/ WaitsRunOut(10) \/ WaitsRunOut(LongWait) \/ ExcludeMoves \/ RestorePersisted
RetryLane ==
  /\ Cardinality(hist.durations) < 4
  /\ \E sha \in {"a", "b", "c"}, c \in {"SUCCESS", "FAILURE", "CANCELLED"}, known \in BOOLEAN :
       LET before == {r \in hist.durations : r.sha = sha}
       IN CheckRan("unit", 2 * (Cardinality(hist.durations) + 1), c, sha,
                   IF known THEN Cardinality(before) + 1 ELSE 0)

Edits == {<<"notifications.command", "cmd">>, <<"notifications.command", Missing>>,
          <<"tokenSource", "app">>, <<"tokenSource", Missing>>, <<"app.appId", "1">>,
          <<"runnerRouting.targetRepo", "bad">>, <<"owners", Missing>>}
Bodies == {"notifications.enabled" :> "true", "notifications.enabled" :> "false",
           "owners" :> "a" @@ "intervals.hotMs" :> "b", "tokenSource" :> "gh", "retentionDays" :> "bad",
           "owners" :> "empty"}
SettingsLane == SettingsNext(Edits, Bodies, {"runnerRouting.enabled" :> "true"})

Guarded(n, guard) == RepoFiles(n, {"unit"}, guard, "_checks.yml")
Repositories == {Guarded({"affected"}, NoGuard), Guarded({"affected", "checks"}, Only("merge_group"))}
Unit == Name("unit", Nil, 0)
Affected == Name("affected", Nil, 0)
Asks ==
  {[kind |-> "quarantine", check |-> c, job |-> j] : c \in {Unit, Affected}, j \in {"unit", "affected"}}
    \cup {[kind |-> "tier", check |-> Affected, job |-> "affected", from |-> "pr", event |-> "push"]}
    \cup {[kind |-> "prefixes"]}
    \cup {[kind |-> "candidate", mutations |-> <<[op |-> o, job |-> j]>>] :
            o \in {"remove", "shift-left"}, j \in {"checks", "unit", "affected"}}
WorkspaceLane ==
  /\ WorkspaceNext(Asks, Repositories, {{}, {"_checks.yml"}, {"ci.yml"}}, {{"rule"}})
  /\ Len(commits') <= MaxCommits /\ Cardinality(pulls') <= 1 /\ Cardinality(auditRows') <= 1
  /\ Len(commits') = MaxCommits => request' = NoRequest  \* the last commit is a merge
  /\ policies' # policies => Len(commits) = MaxCommits    \* no other step reads them

\* Only qa is rolled back.
DeployLane == DeployNext /\ tip["prod"] <= tip'["prod"]

Lint(spelling) == [check |-> "lint", spelling |-> spelling, event |-> "pull_request", caller |-> FALSE]
Propose(kind, fields, c) == [kind |-> kind, fields |-> fields, candidate |-> c]
ProposableChecks == {NoCandidate, Lint("Lint"), Lint("lint")}
ReadyLane == ActionNext({NoAsk, [NoAsk EXCEPT !.fields = {"repo"}]})
ProposalLane ==
  /\ ActionNext({Propose("demote", DemotionFields, Lint("Lint")), Propose("demote", DemotionFields, Lint("lint")),
                 Propose("promote", PromotionFields, Lint("lint")), Propose("promote", DemotionFields, Lint("lint"))})
  /\ target' = target

\* A long day, two ordinary ones, a short one.
DayLengths == <<5, 4, 4, 3, 4, 4>>

Pace(hot, explicit) ==
  [sweep |-> 2, hot |-> hot, deploy |-> 2, floor |-> 100, webhooks |-> ~explicit, explicit |-> explicit]
PaceChoices == {Pace(1, TRUE), Pace(1, FALSE)}
Response(status, after, errors, left, rest) ==
  [status |-> status, retryAfter |-> after, exhausted |-> after = 2, errors |-> errors, data |-> errors # "other",
   budget |-> left, rest |-> rest]
GithubResponses ==
  {Response(200, Unlimited, "none", 50, FALSE), Response(200, Unlimited, "none", 500, FALSE),
   Response(200, Unlimited, "RATE_LIMITED", 50, FALSE), Response(403, 2, "none", Unlimited, TRUE),
   Response(403, Unlimited, "none", Unlimited, TRUE)}
PacingLane == PacingNext /\ time' <= MaxTime

RepoLanes == {"config", "workflow", "alias", "runnerPools", "scheduled", "retries"}
Init ==
  /\ AlertInit /\ DeployInit /\ RepoInit /\ SettingsInit
  /\ WorkspaceInit(Repositories) /\ ActionInit /\ FrameInit /\ DigestInit /\ PacingInit
  /\ part \in {"queue", "series", "pools", "budgets", "deploys", "settings", "workspace", "ready", "proposals", "frames", "digest", "pacing"} \cup RepoLanes
  /\ part # "settings" => ~embedded
  /\ part # "workspace" => covered /\ commits[1] = Guarded({"affected"}, NoGuard)
  /\ part \notin {"ready", "proposals"} => ~appMode /\ mayWrite
  /\ appMode => part = "ready" /\ mayWrite
  /\ part # "ready" => ~target.draft /\ ~target.armed
  /\ part # "pacing" => pace.explicit
  /\ part # "frames" => held.content = "c1"
  /\ part # "workflow" => \A p \in DOMAIN workflows : workflows[p] = "none"
AlertSteps ==
  \/ part = "queue" /\ QueueLane
  \/ part = "series" /\ SeriesLane
  \/ part = "pools" /\ PoolLane
  \/ part = "budgets" /\ BudgetLane
RepoSteps ==
  \/ part = "config" /\ ConfigLane
  \/ part = "workflow" /\ WorkflowLane
  \/ part = "alias" /\ AliasLane
  \/ part = "runnerPools" /\ RunnerPoolLane
  \/ part = "scheduled" /\ ScheduledLane
  \/ part = "retries" /\ RetryLane
ActionSteps ==
  \/ part = "ready" /\ ReadyLane
  \/ part = "proposals" /\ ProposalLane
Next ==
  /\ UNCHANGED part
  /\ \/ AlertSteps /\ UNCHANGED <<deployVars, repoVars, settingVars, workspaceVars, actionVars, frameVars, digestVars, pacingVars>>
     \/ part = "deploys" /\ DeployLane /\ UNCHANGED <<alertVars, repoVars, settingVars, workspaceVars, actionVars, frameVars, digestVars, pacingVars>>
     \/ RepoSteps /\ UNCHANGED <<alertVars, deployVars, settingVars, workspaceVars, actionVars, frameVars, digestVars, pacingVars>>
     \/ part = "settings" /\ SettingsLane /\ UNCHANGED <<alertVars, deployVars, repoVars, workspaceVars, actionVars, frameVars, digestVars, pacingVars>>
     \/ part = "workspace" /\ WorkspaceLane /\ UNCHANGED <<alertVars, deployVars, repoVars, settingVars, actionVars, frameVars, digestVars, pacingVars>>
     \/ part \in {"ready", "proposals"} /\ ActionSteps /\ UNCHANGED <<alertVars, deployVars, repoVars, settingVars, workspaceVars, frameVars, digestVars, pacingVars>>
     \/ part = "frames" /\ FrameNext /\ UNCHANGED <<alertVars, deployVars, repoVars, settingVars, workspaceVars, actionVars, digestVars, pacingVars>>
     \/ part = "digest" /\ DigestNext /\ UNCHANGED <<alertVars, deployVars, repoVars, settingVars, workspaceVars, actionVars, frameVars, pacingVars>>
     \/ part = "pacing" /\ PacingLane /\ UNCHANGED <<alertVars, deployVars, repoVars, settingVars, workspaceVars, actionVars, frameVars, digestVars>>
Spec == Init /\ [][Next]_serviceVars
=============================================================================
