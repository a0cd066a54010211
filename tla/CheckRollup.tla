----------------------------- MODULE CheckRollup -----------------------------
(***************************************************************************)
(* From the check runs GitHub lists on a commit to what the board says of  *)
(* them: deduplication (src/server/normalize.ts), the required population, *)
(* progress, runner waits and the stage of a pull request                  *)
(* (src/server/estimator/*.ts), and what is learned from a check set       *)
(* (ingestCheckSet and its companions in src/server/poller.ts).            *)
(*                                                                         *)
(* Times are integers, 0 is a null timestamp or run number.  Null (-1) is  *)
(* a null number.  A rational average is rounded as Math.round does.       *)
(***************************************************************************)
EXTENDS Integers, WorkflowGraph

Null == -1
NoConclusion == "none"
NoWorkflow   == "none"
NoPrefixes   == {}

Completed(c)     == c.status = "COMPLETED"
Maximum(S, else) == IF S = {} THEN else ELSE Max(S)
Minimum(S, else) == IF S = {} THEN else ELSE Min(S)
SumOver(f, S)    == MapThenSumSet(LAMBDA x : f[x], S)
Rounded(n, d)    == (2 * n + d) \div (2 * d)

(***************************************************************************)
(* Deduplication.                                                          *)
(***************************************************************************)
Identified(c) == c.workflow # NoWorkflow /\ c.run # 0

\* Variant (not the code): runs are told apart by name only.
DropSupersededPerName(C) ==
  {c \in C : Identified(c) =>
     \A d \in C : Identified(d) /\ d.workflow = c.workflow /\ d.event = c.event
                  /\ d.name = c.name => d.run <= c.run}

\* Of each workflow and event only the latest run counts, also for names the
\* latest run has not produced yet.
DropSupersededRuns(C) ==
  {c \in C : Identified(c) =>
     \A d \in C : Identified(d) /\ d.workflow = c.workflow /\ d.event = c.event
                  => d.run <= c.run}

Newer(d, c) == \/ d.attempt > c.attempt
               \/ d.attempt = c.attempt /\ d.started > c.started

\* Within a family only the latest run, and of each raw name its last attempt.
LatestRunMembers(M) ==
  LET top    == Max({c.run : c \in M})
      latest == {c \in M : c.run = top}
  IN IF top = 0 THEN M
     ELSE {c \in latest : \A d \in latest : d.raw = c.raw => ~Newer(d, c)}

Severity(conclusion) ==
  CASE conclusion \in {"FAILURE", "TIMED_OUT", "STARTUP_FAILURE", "ACTION_REQUIRED"} -> 6
    [] conclusion = "CANCELLED" -> 5
    [] conclusion = "SUCCESS"   -> 2
    [] conclusion = "NEUTRAL"   -> 1
    [] conclusion = "SKIPPED"   -> 0
    [] OTHER                    -> 3

WorstConclusion(S) ==
  LET real == S \ {NoConclusion}
  IN IF real = {} THEN NoConclusion
     ELSE CHOOSE k \in real : \A l \in real : Severity(l) <= Severity(k)

\* Variant (not the code): a family is done with its first member.
AggregateFirst(M) ==
  LET done == {c \in M : Completed(c)}
  IN IF done = {} THEN CHOOSE c \in M : TRUE
     ELSE CHOOSE c \in done : \A d \in done : c.completed <= d.completed

\* One check for a matrix family: earliest start, latest finish once every
\* member finished, worst conclusion.  SKIPPED members carry no times.
AggregateFamily(M) ==
  LET survivor == CHOOSE c \in M : \A d \in M : d.started <= c.started
      live     == {c \in M : c.conclusion # "SKIPPED"}
      pool     == IF live = {} THEN M ELSE live
      started  == {c.started : c \in pool} \ {0}
      done     == \A c \in pool : Completed(c)
  IN IF Cardinality(M) = 1 THEN survivor
     ELSE [survivor EXCEPT
             !.started    = Minimum(started, 0),
             !.completed  = IF done /\ \A c \in pool : c.completed # 0
                            THEN Max({c.completed : c \in pool}) ELSE 0,
             !.status     = IF done THEN "COMPLETED"
                            ELSE IF started # {} THEN "IN_PROGRESS" ELSE @,
             !.conclusion = IF done THEN WorstConclusion({c.conclusion : c \in pool})
                            ELSE NoConclusion,
             !.created    = Minimum({c.created : c \in M} \ {0}, 0)]

SameFamily(c, d) == c.workflow = d.workflow /\ c.name = d.name /\ c.event = d.event

DedupeChecks(C) ==
  LET kept == DropSupersededRuns(C)
  IN {AggregateFamily(LatestRunMembers({d \in kept : SameFamily(c, d)})) : c \in kept}

\* The checks of a merge-group commit: its latest build, and the push build of
\* main that the same commit carries after the merge.
MergeGroupChecks(C) ==
  LET builds == {c \in C : c.event = "merge_group"}
      latest == Maximum({c.id : c \in builds}, 0)
  IN IF latest = 0 THEN builds ELSE {c \in builds : c.id = latest}

PushChecks(C) == {c \in C : c.event = "push"}

(***************************************************************************)
(* The required population.                                                *)
(***************************************************************************)
MatchesRequiredPrefix(name, prefixes) == MatchingPrefix(name, prefixes) # {}

\* A check of another workflow cannot match by prefix; one without a workflow may.
WorkflowScopeAllows(workflow, rollup) ==
  rollup = NoWorkflow \/ workflow = NoWorkflow \/ workflow = rollup

IsRequired(c, prefixes, rollup) ==
  c.required \/ (MatchesRequiredPrefix(c.name, prefixes) /\ WorkflowScopeAllows(c.workflow, rollup))

RequiredChecks(C, prefixes, rollup) ==
  LET ofPr == {c \in C : c.event # "merge_group"}
      req  == {c \in ofPr : IsRequired(c, prefixes, rollup)}
  IN IF req # {} THEN req ELSE IF prefixes # NoPrefixes THEN {} ELSE ofPr

NamesOf(C) == {c.name : c \in C}

Foreign(C, rollup) == NamesOf({c \in C : ~WorkflowScopeAllows(c.workflow, rollup)})

\* Variant (not the code): only what is already listed counts.
ExpectedSeen(history, C, prefixes, rollup, settled) ==
  history \cap NamesOf(RequiredChecks(C, prefixes, rollup))

\* The names of the history that a pull request still has to produce.  settled:
\* every live check finished more than EXPECTED_SET_STALE_MS ago.
ExpectedNames(history, C, prefixes, rollup, settled) ==
  LET req == NamesOf(RequiredChecks(C, prefixes, rollup))
  IN CASE prefixes # NoPrefixes ->
            {n \in history : \/ MatchesRequiredPrefix(n, prefixes) /\ n \notin Foreign(C, rollup)
                             \/ n \in req}
       [] prefixes = NoPrefixes /\ (\E c \in C : c.required) -> history \cap req
       [] OTHER -> IF settled /\ C # {} /\ (\A c \in C : Completed(c))
                   THEN history \cap NamesOf(C) ELSE history

\* The same scoping for the build of a merge group.
MergeGroupScope(history, C, prefixes, rollup) ==
  IF prefixes = NoPrefixes THEN [checks |-> C, expected |-> history]
  ELSE LET req == {c \in C : MatchesRequiredPrefix(c.name, prefixes)
                             /\ WorkflowScopeAllows(c.workflow, rollup)}
       IN [checks   |-> req,
           expected |-> {n \in history :
              \/ MatchesRequiredPrefix(n, prefixes) /\ n \notin Foreign(C, rollup)
              \/ n \in NamesOf(req)}]

(***************************************************************************)
(* Progress.  H maps a name to its history [p50, p90, samples] (samples in *)
(* ascending order), delay maps a name to its expected pickup wait.        *)
(***************************************************************************)
DefaultDuration == 60

LowerMedian(s) == s[(Len(s) - 1) \div 2 + 1]
Ninetieth(s)   == s[Min({Len(s), (9 * Len(s) + 9) \div 10})]

Fallback(H, names) ==
  LET known == SetToSortSeq({n \in names : n \in DOMAIN H},
                            LAMBDA a, b : H[a].p50 <= H[b].p50)
  IN IF known = <<>> THEN DefaultDuration ELSE H[LowerMedian(known)].p50

\* What one name contributes: its weight, 100 times its finished weight, the
\* remaining time at the median and at the ninetieth percentile.
Estimate(weight, finished, rem50, rem90, open, overdue) ==
  [weight |-> weight, finished |-> finished, rem50 |-> rem50, rem90 |-> rem90,
   open |-> open, overdue |-> overdue]

RunningEstimate(h, p50, p90, elapsed) ==
  LET later == SelectSeq(h.samples, LAMBDA v : v > elapsed)
      late  == 2 * elapsed > 3 * p50
      plain == Min({100 * elapsed, 97 * p50})
  IN CASE Len(h.samples) >= 5 /\ later = <<>> ->
            Estimate(p50, plain, 0, 0, TRUE, Len(h.samples) >= 10 \/ late)
       [] Len(h.samples) >= 5 /\ Len(later) >= 2 ->
            Estimate(p50, Min({(100 * p50 * elapsed) \div LowerMedian(later), 97 * p50}),
                     LowerMedian(later) - elapsed, Ninetieth(later) - elapsed, TRUE, FALSE)
       [] OTHER ->
            Estimate(p50, plain, Max({p50 - elapsed, 0}), Max({p90 - elapsed, 0}), TRUE, late)

EstimateFor(n, live, H, delay, now, fallback) ==
  LET h   == IF n \in DOMAIN H THEN H[n]
             ELSE [p50 |-> fallback, p90 |-> fallback, samples |-> <<>>]
      c   == CHOOSE d \in live : TRUE
      run == live # {} /\ c.status = "IN_PROGRESS" /\ c.started # 0
  IN IF live # {} /\ Completed(c) THEN Estimate(h.p50, 100 * h.p50, 0, 0, FALSE, FALSE)
     ELSE IF run THEN RunningEstimate(h, h.p50, h.p90, Max({now - c.started, 0}))
     ELSE Estimate(h.p50, 0, h.p50 + delay[n], h.p90 + delay[n], TRUE, FALSE)

Failing == {"FAILURE", "TIMED_OUT", "STARTUP_FAILURE", "ACTION_REQUIRED"}
Failed(c) == Completed(c) /\ c.conclusion \in Failing

Progress(percent, eta, high, overdue, failed) ==
  [percent |-> percent, eta |-> eta, high |-> high, overdue |-> overdue, failed |-> failed]

\* Of every name that counts; a skipped check does not.
Estimates(C, expected, H, delay, now) ==
  LET all    == expected \cup NamesOf(C)
      liveOf(n) == {c \in C : c.name = n}
  IN [n \in {m \in all : \A c \in liveOf(m) : c.conclusion # "SKIPPED"} |->
        EstimateFor(n, liveOf(n), H, delay, now, Fallback(H, all))]

ComputeProgress(C, expected, H, delay, now) ==
  LET est    == Estimates(C, expected, H, delay, now)
      names  == DOMAIN est
      weight == SumOver([n \in names |-> est[n].weight], names)
      done   == SumOver([n \in names |-> est[n].finished], names)
      percent == IF weight = 0 THEN 100 ELSE Rounded(done, weight)
      failed == \E c \in C : Failed(c)
      wide   == \E n \in names \cap DOMAIN H :
                  H[n].p50 > 0 /\ H[n].p90 > 2 * H[n].p50 /\ est[n].open
      eta    == Maximum({est[n].rem50 : n \in names}, 0)
  IN CASE \A n \in names : ~est[n].open -> Progress(100, 0, Null, FALSE, failed)
       [] \E n \in names : est[n].overdue -> Progress(percent, Null, Null, TRUE, failed)
       [] OTHER -> Progress(percent, eta,
                     IF wide THEN Maximum({est[n].rem90 : n \in names}, 0) ELSE Null,
                     FALSE, failed)

\* The displayed range is widened by the observed ratio (in percent) of actual
\* to predicted, never narrowed; small factors are not worth the churn.
Calibrated(stage, factor) ==
  LET high == Max({Rounded(stage.eta * factor, 100), stage.high})
  IN IF /\ factor # Null /\ factor > 115
        /\ stage.stage \in {"ci", "queue", "qa-deploy"}
        /\ stage.eta # Null /\ high > stage.eta
     THEN [stage EXCEPT !.high = high] ELSE stage

(***************************************************************************)
(* Waits: is a queued check blocked on another one or waiting for a runner?*)
(***************************************************************************)
QueuedStatuses == {"QUEUED", "PENDING", "REQUESTED", "WAITING"}
OkConclusions  == {"SUCCESS", "SKIPPED", "NEUTRAL"}
SatisfiesNeed(c) == Completed(c) /\ c.conclusion \in OkConclusions

\* The checks of the node a need names: the longest matching key must be it.
MatchingNeeded(prefix, check, C, graph) ==
  {c \in C \ {check} :
     /\ c.event = check.event
     /\ WorkflowScopeAllows(c.workflow, graph.workflow)
     /\ MatchingPrefix(c.name, DOMAIN graph.nodes) = {prefix}}

ActiveNeeds(check, graph) ==
  {p \in NeedsFor(graph, check.name) : NeedActiveFor(graph, p, check.event)}

\* Skipped needs satisfy but never anchor: their timestamps are placeholders.
Anchors(check, C, graph) ==
  {c.completed : c \in {d \in UNION {MatchingNeeded(p, check, C, graph) :
                                        p \in ActiveNeeds(check, graph)} :
                          d.conclusion # "SKIPPED"}}

\* kind "none" for a check that is not queued; a runner wait without an anchor
\* has no measure.
ClassifyWait(check, C, graph, now) ==
  LET needed  == [p \in ActiveNeeds(check, graph) |-> MatchingNeeded(p, check, C, graph)]
      blocked == \E p \in DOMAIN needed :
                   needed[p] = {} \/ \E c \in needed[p] : ~SatisfiesNeed(c)
      anchors == Anchors(check, C, graph) \ {0}
  IN CASE check.status \notin QueuedStatuses -> [kind |-> "none", secs |-> Null]
       [] \/ ~WorkflowScopeAllows(check.workflow, graph.workflow)
          \/ ~Known(graph, check.name)
          \/ NeedsFor(graph, check.name) = {} ->
            [kind |-> "unknown", secs |-> Null]
       [] blocked -> [kind |-> "blocked", secs |-> Null]
       [] OTHER -> [kind |-> "runner",
                    secs |-> IF anchors = {} THEN Null ELSE now - Max(anchors)]

(***************************************************************************)
(* What is learned from a check set.                                       *)
(***************************************************************************)
\* Pickup waits of started checks whose needs all carry a completion time.
\* MaxWait bounds a plausible wait (7200 s).
RunnerWaitSamples(C, graph, MaxWait) ==
  {[name |-> c.name, event |-> c.event, at |-> c.started,
    wait |-> c.started - Max(Anchors(c, C, graph))] :
     c \in {d \in C :
       /\ d.started # 0 /\ Known(graph, d.name) /\ NeedsFor(graph, d.name) # {}
       /\ \A p \in ActiveNeeds(d, graph) : MatchingNeeded(p, d, C, graph) # {}
       /\ Anchors(d, C, graph) # {} /\ 0 \notin Anchors(d, C, graph)
       /\ d.started - Max(Anchors(d, C, graph)) \in 0 .. (MaxWait - 1)}}

\* A success cannot outlive its timeout (a margin of one half), nor DurationCap
\* when its job sets none or belongs to another workflow.
PlausibleSuccess(c, graph, DurationCap) ==
  LET timeout == IF WorkflowScopeAllows(c.workflow, graph.workflow)
                 THEN TimeoutFor(graph, c.name) ELSE NoTimeout
      span    == c.completed - c.started
  IN (c.conclusion = "SUCCESS" /\ c.started # 0 /\ c.completed # 0) =>
       IF timeout = NoTimeout THEN span <= DurationCap ELSE 2 * span <= 3 * timeout

DurationSamples(C, graph, DurationCap) ==
  {[name |-> c.name, event |-> c.event, conclusion |-> c.conclusion,
    started |-> c.started, completed |-> c.completed] :
     c \in {d \in C : Completed(d) /\ PlausibleSuccess(d, graph, DurationCap)}}

\* The culprits of a merge-group build; a cancellation is a side effect.
FailingClass == {"FAILURE", "TIMED_OUT", "STARTUP_FAILURE"}
GroupFailures(C) ==
  {c.name : c \in {d \in C : Completed(d) /\ d.conclusion \in FailingClass /\ d.completed # 0}}

EjectReason(conclusion) ==
  CASE conclusion = "TIMED_OUT"       -> "timeout"
    [] conclusion = "FAILURE"         -> "test-fail"
    [] conclusion = "STARTUP_FAILURE" -> "infra"
    [] OTHER                          -> "unknown"

\* The reason to lead with; ties in this order.
DominantReason(count) ==
  LET order == <<"test-fail", "timeout", "infra", "unknown">>
      most  == {i \in DOMAIN order : \A j \in DOMAIN order : count[order[j]] <= count[order[i]]}
  IN IF \A r \in DOMAIN count : count[r] = 0 THEN "none" ELSE order[Min(most)]

\* The verdict of main from the push build: the worst conclusion so far.
MainSeverity(conclusion) ==
  CASE conclusion \in FailingClass -> 5 [] conclusion = "SUCCESS" -> 2
    [] conclusion = "NEUTRAL" -> 1 [] conclusion = "SKIPPED" -> 0 [] OTHER -> 3
MainVerdict(push) ==
  LET real == {c.conclusion : c \in push} \ {NoConclusion}
  IN IF real = {} THEN NoConclusion
     ELSE CHOOSE k \in real : \A l \in real : MainSeverity(l) <= MainSeverity(k)

\* A cancelled check whose commit already has a newer attempt under way.
RerunInProgress(c, C) ==
  /\ Completed(c) /\ c.conclusion = "CANCELLED" /\ c.attempt # 0
  /\ \E d \in C \ {c} : d.event = c.event /\ ~Completed(d) /\ d.attempt > c.attempt

\* Runner occupancy of a check set, and its priced part: rate maps a pool to a
\* price per unit of time, pools without one contribute time but no money.
PrCost(C, graph, rate, now) ==
  LET span(c) == (IF c.completed # 0 THEN c.completed ELSE now) - c.started
      counted == {c \in C : /\ c.started # 0 /\ span(c) > 0
                            /\ WorkflowScopeAllows(c.workflow, graph.workflow)}
      priced  == {c \in counted : PoolsFor(graph, c.name) \in DOMAIN rate}
      minutes == MapThenSumSet(LAMBDA c : span(c), counted)
      dollars == MapThenSumSet(LAMBDA c : span(c) * rate[PoolsFor(graph, c.name)], priced)
  IN IF counted = {} THEN [minutes |-> Null, dollars |-> Null, partial |-> FALSE]
     ELSE [minutes |-> minutes,
           dollars |-> IF DOMAIN rate = {} THEN Null ELSE dollars,
           partial |-> DOMAIN rate # {} /\ priced # counted]

(***************************************************************************)
(* The stage of a pull request (classify).  pr is a snapshot; queue is     *)
(* NotQueued or the result of the queue estimator; deploy says what is     *)
(* known of the environments of a merged pull request.                     *)
(***************************************************************************)
NoStage == [stage |-> "none", substate |-> "none", percent |-> Null,
            eta |-> Null, high |-> Null, overdue |-> FALSE]
Bare(stage, substate) == [NoStage EXCEPT !.stage = stage, !.substate = substate]
WithProgress(stage, substate, p) ==
  [stage |-> stage, substate |-> substate, percent |-> p.percent,
   eta |-> p.eta, high |-> p.high, overdue |-> p.overdue]

ClassifyMerged(pr, deploy) ==
  CASE pr.expired -> NoStage
    [] ~pr.expired /\ ~deploy.configured -> Bare("merged", "none")
    [] ~pr.expired /\ deploy.configured /\ deploy.prodLive = "yes" -> NoStage
    [] OTHER ->
         CASE deploy.qaLive = "yes"     -> Bare("awaiting-prod", "none")
           [] deploy.qaLive # "yes" /\ deploy.propagating -> Bare("qa-deploy", "propagating")
           [] deploy.qaLive = "unknown" /\ ~deploy.propagating -> Bare("qa-deploy", "unknown")
           [] OTHER -> [Bare("qa-deploy", "none") EXCEPT !.overdue = deploy.overdue]

ClassifyQueued(pr, queue) ==
  IF queue.unmergeable \/ pr.queue.state = "UNMERGEABLE"
  THEN Bare("queue", IF pr.mergeState = "DIRTY" THEN "unmergeable" ELSE "queue-blocked")
  ELSE [Bare("queue", IF queue.failed THEN "group-failed" ELSE "none") EXCEPT
          !.percent = queue.percent, !.eta = queue.eta, !.overdue = queue.overdue]

\* Not merged, not queued.  Mergeability UNKNOWN holds the previous stage.
ClassifyOpen(pr, prev, ci, req) ==
  CASE pr.draft -> Bare("parked", "draft")
    [] ~pr.draft /\ (\E c \in req : Failed(c)) -> Bare("parked", "ci-failed")
    [] OTHER ->
         IF \E c \in req : Completed(c) /\ c.conclusion = "CANCELLED"
         THEN WithProgress("ci", "retrying", ci)
         ELSE IF (\E c \in req : ~Completed(c)) \/ ci.percent < 100
         THEN WithProgress("ci", "none", ci)
         ELSE CASE pr.mergeState = "DIRTY" -> Bare("parked", "conflicting")
                [] pr.mergeState = "UNKNOWN" /\ prev # NoStage -> prev
                [] OTHER -> Bare("ready", IF pr.armed THEN "armed" ELSE "idle")
=============================================================================
