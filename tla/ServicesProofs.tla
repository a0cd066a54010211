----------------------------- MODULE ServicesProofs -----------------------------
(***************************************************************************)
(* What people are told, and how often: the alerts of the hourly scans and *)
(* the deploys of merged pull requests, both through the keys of the       *)
(* notifier, the daily digest, and the board in the browsers.  And what is *)
(* asked of GitHub: with which tokens, and how often.                      *)
(***************************************************************************)
EXTENDS Alerts, Deploys, Digest, Frames, Credentials, Pacing,
        FiniteSetTheorems, NaturalsInduction, WellFoundedInduction, TLAPS

(***************************************************************************)
(* The debounce keys of the repository-level alerts are the episodes the   *)
(* poller believes in, for any series, pools and budget kinds.  The four   *)
(* kinds of keys are told apart by their types, and a prune spares them;   *)
(* so each scan has to be looked at for its own keys only.                 *)
(***************************************************************************)
\* A pool is remembered as starving or not: what WasStarving looks up.
Known == starvation \in [DOMAIN starvation -> BOOLEAN]
AlertInv  == Known /\ KeysAreEpisodes

\* What keeps the keys of series and pools as they are.
SameEpisodes ==
  /\ UNCHANGED <<regressions, starvation>>
  /\ \A s \in Series : SlowKey(s) \in active' <=> SlowKey(s) \in active
  /\ \A p \in Pools : StarvedKey(p) \in active' <=> StarvedKey(p) \in active

\* Keys differ in their types, and those of one type in their subjects.
LEMMA KeysDiffer ==
  /\ \A s, t : SlowKey(s) = SlowKey(t) => s = t
  /\ \A p, q : StarvedKey(p) = StarvedKey(q) => p = q
  /\ \A s, p : SlowKey(s) # StarvedKey(p)
  /\ \A s : SlowKey(s) # StallKey /\ StarvedKey(s) # StallKey
  /\ \A s, k : SlowKey(s) # BreachKey(k) /\ StarvedKey(s) # BreachKey(k)
<1>1. \A s : /\ SlowKey(s).type = "duration-regression" /\ StarvedKey(s).type = "runner-starvation"
             /\ BreachKey(s).type = "budget-breach" /\ StallKey.type = "queue-stalled"
             /\ SlowKey(s).subject = s /\ StarvedKey(s).subject = s
  BY DEF SlowKey, StarvedKey, BreachKey, StallKey, Key
<1>. QED BY <1>1

\* A step that leaves the keys of series and pools alone keeps the invariant.
LEMMA OthersKeep == ASSUME AlertInv, SameEpisodes PROVE AlertInv'
  BY DEF AlertInv, SameEpisodes, Known, KeysAreEpisodes, WasStarving

\* A prune spares the keys of the repository-level types.
LEMMA PruneSpares ==
  ASSUME NEW live
  PROVE  /\ \A s : SlowKey(s) \in PrunedKeys(active, live) <=> SlowKey(s) \in active
         /\ \A p : StarvedKey(p) \in PrunedKeys(active, live) <=> StarvedKey(p) \in active
<1>1. \A s : SlowKey(s).type \in RepoTypes /\ StarvedKey(s).type \in RepoTypes
  BY DEF SlowKey, StarvedKey, Key, RepoTypes
<1>. QED BY <1>1 DEF PrunedKeys

LEMMA EmittedKeeps ==
  ASSUME NEW seen, Emitted(seen), UNCHANGED <<regressions, starvation>>
  PROVE  SameEpisodes
BY KeysDiffer DEF Emitted, FedKeys, SameEpisodes

\* Actions that feed nothing, or feed the merge queue and the budgets.
LEMMA OtherSteps ==
  ASSUME AlertInv,
         \/ QueueMoves \/ RowMoves \/ QueueCycle \/ SweepEnds \/ ToggleType
         \/ SamplesMove \/ WaitsMove \/ SpendMoves \/ ToggleExclude \/ SetBudgets \/ CheckBudgets
  PROVE  AlertInv'
<1>1. CASE \/ QueueMoves \/ SamplesMove \/ WaitsMove \/ SpendMoves
           \/ ToggleType \/ ToggleExclude \/ SetBudgets \/ RowMoves
  <2>1. UNCHANGED <<regressions, starvation, active>>
    BY <1>1 DEF QueueMoves, SamplesMove, WaitsMove, SpendMoves, ToggleType, ToggleExclude,
                SetBudgets, RowMoves, Outside, Saved, caches
  <2>. QED BY <2>1, OthersKeep DEF SameEpisodes
<1>2. CASE QueueCycle
  <2>. SUFFICES SameEpisodes BY OthersKeep
  <2>. QED BY <1>2, EmittedKeeps DEF QueueCycle
<1>3. CASE SweepEnds
  <2>. SUFFICES SameEpisodes BY OthersKeep
  <2>1. CASE entries' = Unset
    BY <1>3, <2>1, PruneSpares DEF SweepEnds, SameEpisodes
  <2>2. CASE entries' # Unset
    BY <1>3, <2>2, EmittedKeeps DEF SweepEnds
  <2>. QED BY <2>1, <2>2
<1>4. CASE CheckBudgets
  <2>1. UNCHANGED <<regressions, starvation>> BY <1>4 DEF CheckBudgets, caches
  <2>2. active' = (active \ {BreachKey(k) : k \in budgets \ over}) \cup {BreachKey(k) : k \in budgets \cap over}
    BY <1>4 DEF CheckBudgets
  <2>. QED BY <2>1, <2>2, KeysDiffer, OthersKeep DEF SameEpisodes
<1>. QED BY <1>1, <1>2, <1>3, <1>4

\* A series that is not slow any more, or is not looked at any more, is told to clear.
LEMMA RegressionStep == ASSUME AlertInv, ScanDurationRegressions PROVE AlertInv'
<1>1. UNCHANGED starvation /\ regressions' = Slow
  BY DEF ScanDurationRegressions
<1>2. active' = (active \ {SlowKey(s) : s \in ClearedRegressions}) \cup {SlowKey(s) : s \in Slow}
  BY DEF ScanDurationRegressions
<1>3. ASSUME NEW s \in Series PROVE SlowKey(s) \in active' <=> s \in regressions'
  <2>1. SlowKey(s) \in active' <=> s \in Slow \/ (SlowKey(s) \in active /\ s \notin ClearedRegressions)
    BY <1>2, KeysDiffer
  <2>2. s \in Slow \cup ClearedRegressions \/ s \notin regressions
    BY DEF ClearedRegressions
  <2>. QED BY <2>1, <2>2, <1>1 DEF AlertInv, KeysAreEpisodes
<1>4. ASSUME NEW p \in Pools PROVE StarvedKey(p) \in active' <=> StarvedKey(p) \in active
  BY <1>2, KeysDiffer
<1>. QED BY <1>1, <1>3, <1>4 DEF AlertInv, Known, KeysAreEpisodes, WasStarving

\* So is a pool whose waits are not evaluated any more.
LEMMA StarvationStep == ASSUME AlertInv, ScanRunnerStarvation PROVE AlertInv'
<1>1. UNCHANGED regressions /\ starvation' = [p \in Evaluated |-> p \in Starving]
  BY DEF ScanRunnerStarvation
<1>2. active' = (active \ {StarvedKey(p) : p \in FedPools \ Starving}) \cup {StarvedKey(p) : p \in Starving}
  BY DEF ScanRunnerStarvation
<1>3. Starving \subseteq Evaluated BY DEF Starving
<1>4. ASSUME NEW p \in Pools PROVE StarvedKey(p) \in active' <=> WasStarving(p)'
  <2>1. StarvedKey(p) \in active' <=> p \in Starving \/ (StarvedKey(p) \in active /\ p \notin FedPools)
    BY <1>2, KeysDiffer
  <2>2. StarvedKey(p) \in active => p \in FedPools
    BY DEF AlertInv, KeysAreEpisodes, WasStarving, FedPools
  <2>3. WasStarving(p)' <=> p \in Starving
    BY <1>1, <1>3 DEF WasStarving
  <2>. QED BY <2>1, <2>2, <2>3
<1>5. ASSUME NEW s \in Series PROVE SlowKey(s) \in active' <=> SlowKey(s) \in active
  BY <1>2, KeysDiffer
<1>6. Known' BY <1>1 DEF Known
<1>. QED BY <1>1, <1>4, <1>5, <1>6 DEF AlertInv, KeysAreEpisodes

LEMMA AlertStart == AlertInit => AlertInv
BY DEF AlertInit, AlertInv, Known, KeysAreEpisodes, WasStarving

LEMMA AlertStep == AlertInv /\ [AlertNext]_alertVars => AlertInv'
<1>. SUFFICES ASSUME AlertInv, [AlertNext]_alertVars PROVE AlertInv'
  OBVIOUS
<1>1. CASE AlertRestart
  BY <1>1 DEF AlertRestart, AlertInv, Known, KeysAreEpisodes, WasStarving
<1>2. CASE UNCHANGED alertVars
  BY <1>2, OthersKeep DEF alertVars, SameEpisodes
<1>. QED BY <1>1, <1>2, OtherSteps, RegressionStep, StarvationStep
         DEF AlertNext, QueueLane, SeriesLane, PoolLane, BudgetLane

\* In every order of scans, cycles, settings and restarts the debounce keys of series
\* and pools are the episodes under way: none is left behind to silence the next one,
\* none is lost to announce the same one twice.
THEOREM EpisodesAreKeyed == AlertSpec => []KeysAreEpisodes
<1>1. AlertInv => KeysAreEpisodes BY DEF AlertInv
<1>. QED BY <1>1, AlertStart, AlertStep, PTL DEF AlertSpec

(***************************************************************************)
(* For any number of pull requests and whichever of them an environment    *)
(* contains: nothing is announced or sampled twice, and the deploy lane    *)
(* and the board agree.  The live stamps in the database, written in the   *)
(* step that announces, are what makes it so.                              *)
(***************************************************************************)
MergedRow == [sha : BOOLEAN, qa : BOOLEAN, prod : BOOLEAN]
DeploysTyped ==
  /\ merged \in Nat /\ merged <= MaxPr
  /\ DOMAIN rows \subseteq Prs /\ rows \in [DOMAIN rows -> MergedRow]
  /\ cycle \in [env : {1, 2}, sha : Int, todo : SUBSET Prs, asking : {0} \cup Prs]
  /\ tip \in [EnvNames -> Nat]
  /\ shipped \in [Prs -> Nat]
\* What the cycle is still going to ask, and what it asks, is recorded and not live.
Stamped(pr, env) == pr \in DOMAIN rows /\ LiveIn(pr, env)
Awaited(pr) == pr \in DOMAIN rows /\ ~LiveIn(pr, Envs[cycle.env])
CycleIsOpen ==
  /\ \A pr \in cycle.todo : Awaited(pr)
  /\ cycle.asking # 0 => Awaited(cycle.asking) /\ cycle.asking \notin cycle.todo
\* What was announced or sampled is stamped.
AnnouncedOnce == \A pr \in Prs : shipped[pr] <= 1 /\ (shipped[pr] > 0 => Stamped(pr, "prod"))
SampledOnce == \A s \in sampled : s.n = 0 /\ Stamped(s.pr, "qa")
DeployInv == DeploysTyped /\ CycleIsOpen /\ AnnouncedOnce /\ SampledOnce

LEMMA Environments ==
  /\ Len(Envs) = 2 /\ Envs[1] = "qa" /\ Envs[2] = "prod"
  /\ NoCycle = [env |-> 1, sha |-> 0, todo |-> {}, asking |-> 0]
  /\ \A env \in {1, 2} : \E e \in {1, 2} : After(env) = [env |-> e, sha |-> 0, todo |-> {}, asking |-> 0]
<1>1. Len(Envs) = 2 /\ Envs[1] = "qa" /\ Envs[2] = "prod"
  BY DEF Envs
<1> QED BY <1>1 DEF NoCycle, Before, After

LEMMA DeployStart == DeployInit => DeployInv
<1> SUFFICES ASSUME DeployInit PROVE DeployInv
  OBVIOUS
<1>1. DOMAIN rows = {} /\ rows \in [DOMAIN rows -> MergedRow]
  BY DEF DeployInit
<1>2. cycle = [env |-> 1, sha |-> 0, todo |-> {}, asking |-> 0]
  BY Environments DEF DeployInit
<1>3. DeploysTyped
  BY <1>1, <1>2, DeploysAssumption DEF DeployInit, DeploysTyped, Prs, EnvNames
<1> QED BY <1>2, <1>3 DEF DeployInit, DeployInv, CycleIsOpen, AnnouncedOnce, SampledOnce

\* Rows that gain stamps, and keep theirs, keep what was announced and sampled stamped.
LEMMA StampsStay ==
  ASSUME DeployInv, UNCHANGED <<shipped, sampled>>, DOMAIN rows \subseteq DOMAIN rows',
         \A pr \in DOMAIN rows : (rows[pr].qa => rows'[pr].qa) /\ (rows[pr].prod => rows'[pr].prod)
  PROVE  AnnouncedOnce' /\ SampledOnce'
  BY DEF DeployInv, AnnouncedOnce, SampledOnce, Stamped, LiveIn

LEMMA SweepStep ==
  ASSUME DeployInv, NEW pr \in Prs, SweepRecords(pr)
  PROVE  DeployInv'
<1>1. PICK sha \in BOOLEAN :
        rows' = [p \in DOMAIN rows \cup {pr} |-> IF p = pr THEN Upserted(pr, sha) ELSE rows[p]]
  BY DEF SweepRecords
<1>2. UNCHANGED <<merged, tip, cycle, shipped, sampled>>
  BY DEF SweepRecords, world
<1> DEFINE known == rows[pr].sha \/ sha
<1>3. Upserted(pr, sha) \in MergedRow
      /\ (pr \in DOMAIN rows => Upserted(pr, sha).qa = rows[pr].qa /\ Upserted(pr, sha).prod = rows[pr].prod)
  <2>1. CASE pr \in DOMAIN rows
    <3>1. rows[pr] \in MergedRow /\ known \in BOOLEAN
      BY <2>1 DEF DeployInv, DeploysTyped, MergedRow
    <3>2. Upserted(pr, sha) = [rows[pr] EXCEPT !.sha = known]
      BY <2>1 DEF Upserted
    <3> HIDE DEF known
    <3> QED BY <2>1, <3>1, <3>2 DEF MergedRow
  <2>2. CASE pr \notin DOMAIN rows
    <3>1. Upserted(pr, sha) = [sha |-> sha, qa |-> FALSE, prod |-> FALSE]
      BY <2>2 DEF Upserted
    <3>2. sha \in BOOLEAN
      BY <1>1
    <3>3. [sha |-> sha, qa |-> FALSE, prod |-> FALSE] \in MergedRow
      BY <3>2 DEF MergedRow
    <3> QED BY <2>2, <3>1, <3>3
  <2> QED BY <2>1, <2>2
<1>4. DOMAIN rows' = DOMAIN rows \cup {pr} /\ rows'[pr] = Upserted(pr, sha)
      /\ \A p \in DOMAIN rows : p # pr => rows'[p] = rows[p]
  BY <1>1
<1>5. \A p \in DOMAIN rows : rows'[p].qa = rows[p].qa /\ rows'[p].prod = rows[p].prod
  BY <1>3, <1>4
<1>6. DeploysTyped'
  BY <1>1, <1>2, <1>3, <1>4 DEF DeployInv, DeploysTyped
<1>7. CycleIsOpen'
  BY <1>2, <1>4, <1>5 DEF DeployInv, CycleIsOpen, Awaited, LiveIn
<1>8. AnnouncedOnce' /\ SampledOnce'
  BY <1>2, <1>4, <1>5, StampsStay
<1> QED BY <1>6, <1>7, <1>8 DEF DeployInv

LEMMA AnswerStep ==
  ASSUME DeployInv, AncestryAnswered
  PROVE  DeployInv'
<1>1. PICK pr \in Prs, env \in {"qa", "prod"} :
        pr = cycle.asking /\ env = Envs[cycle.env] /\ pr \in DOMAIN rows /\ ~LiveIn(pr, env)
  BY Environments DEF DeployInv, DeploysTyped, CycleIsOpen, Awaited, AncestryAnswered
<1> DEFINE key == ShippedKey(pr)
           before == {s \in sampled : s.pr = pr}
           sample == [pr |-> pr, n |-> Cardinality(before)]
<1>2. PICK answer \in {"missing", "yes", "no"} :
        /\ rows' = IF answer = "yes" THEN MarkEnvLive(pr, env) ELSE rows
        /\ shipped' = IF answer = "yes" /\ env = "prod" /\ key \notin shippedKeys
                      THEN [shipped EXCEPT ![pr] = @ + 1] ELSE shipped
        /\ sampled' = IF answer = "yes" /\ GapSampled(pr, env) THEN sampled \cup {sample} ELSE sampled
  BY <1>1 DEF AncestryAnswered, AncestryAnswers
<1>3. cycle' = [cycle EXCEPT !.asking = 0] /\ UNCHANGED <<merged, tip>>
  BY DEF AncestryAnswered, world
<1>4. /\ cycle'.env = cycle.env /\ cycle'.todo = cycle.todo /\ cycle'.asking = 0
      /\ cycle' \in [env : {1, 2}, sha : Int, todo : SUBSET Prs, asking : {0} \cup Prs]
      /\ pr \notin cycle.todo
  BY <1>1, <1>3 DEF DeployInv, DeploysTyped, CycleIsOpen, AncestryAnswered
<1>5. /\ DOMAIN rows' = DOMAIN rows /\ rows' \in [DOMAIN rows -> MergedRow]
      /\ \A p \in DOMAIN rows : p # pr => rows'[p] = rows[p]
      /\ rows[pr].qa => rows'[pr].qa
      /\ rows[pr].prod => rows'[pr].prod
      /\ answer = "yes" => LiveIn(pr, env)'
  <2>1. CASE answer = "yes" /\ env = "qa"
    <3>1. rows' = [rows EXCEPT ![pr] = [rows[pr] EXCEPT !.qa = TRUE]]
      BY <1>2, <2>1 DEF MarkEnvLive
    <3>2. rows[pr] \in MergedRow
      BY <1>1 DEF DeployInv, DeploysTyped
    <3>3. [rows[pr] EXCEPT !.qa = TRUE] \in MergedRow
          /\ [rows[pr] EXCEPT !.qa = TRUE].prod = rows[pr].prod /\ [rows[pr] EXCEPT !.qa = TRUE].qa = TRUE
      BY <3>2 DEF MergedRow
    <3>4. rows'[pr] = [rows[pr] EXCEPT !.qa = TRUE] /\ \A p \in DOMAIN rows : p # pr => rows'[p] = rows[p]
      BY <1>1, <3>1 DEF DeployInv, DeploysTyped
    <3>5. DOMAIN rows' = DOMAIN rows /\ rows' \in [DOMAIN rows -> MergedRow]
      BY <1>1, <3>1, <3>3 DEF DeployInv, DeploysTyped
    <3> QED BY <2>1, <3>3, <3>4, <3>5 DEF LiveIn
  <2>2. CASE answer = "yes" /\ env = "prod"
    <3>1. rows' = [rows EXCEPT ![pr] = [rows[pr] EXCEPT !.prod = TRUE]]
      BY <1>2, <2>2 DEF MarkEnvLive
    <3>2. rows[pr] \in MergedRow
      BY <1>1 DEF DeployInv, DeploysTyped
    <3>3. [rows[pr] EXCEPT !.prod = TRUE] \in MergedRow
          /\ [rows[pr] EXCEPT !.prod = TRUE].qa = rows[pr].qa /\ [rows[pr] EXCEPT !.prod = TRUE].prod = TRUE
      BY <3>2 DEF MergedRow
    <3>4. rows'[pr] = [rows[pr] EXCEPT !.prod = TRUE] /\ \A p \in DOMAIN rows : p # pr => rows'[p] = rows[p]
      BY <1>1, <3>1 DEF DeployInv, DeploysTyped
    <3>5. DOMAIN rows' = DOMAIN rows /\ rows' \in [DOMAIN rows -> MergedRow]
      BY <1>1, <3>1, <3>3 DEF DeployInv, DeploysTyped
    <3> QED BY <2>2, <3>3, <3>4, <3>5 DEF LiveIn
  <2>3. CASE answer # "yes"
    BY <1>2, <2>3 DEF DeployInv, DeploysTyped
  <2> QED BY <1>1, <2>1, <2>2, <2>3
<1>6. DeploysTyped'
  BY <1>1, <1>2, <1>3, <1>4, <1>5 DEF DeployInv, DeploysTyped
<1>7. CycleIsOpen'
  BY <1>4, <1>5 DEF DeployInv, CycleIsOpen, Awaited, LiveIn
<1>8. AnnouncedOnce'
  <2>1. ASSUME NEW p \in Prs
        PROVE  shipped'[p] <= 1 /\ (shipped'[p] > 0 => Stamped(p, "prod")')
    <3>1. CASE p # pr
      BY <1>2, <1>5, <3>1 DEF DeployInv, DeploysTyped, AnnouncedOnce, Stamped, LiveIn
    <3>2. CASE p = pr /\ ~(answer = "yes" /\ env = "prod")
      BY <1>2, <1>5, <3>2 DEF DeployInv, DeploysTyped, AnnouncedOnce, Stamped, LiveIn
    <3>3. CASE p = pr /\ answer = "yes" /\ env = "prod"
      <4>1. shipped[pr] = 0
        BY <1>1, <3>3 DEF DeployInv, DeploysTyped, AnnouncedOnce, Stamped, LiveIn
      <4>2. shipped'[pr] \in {0, 1}
        BY <1>1, <1>2, <3>3, <4>1 DEF DeployInv, DeploysTyped
      <4> QED BY <1>1, <1>5, <3>3, <4>2 DEF Stamped
    <3> QED BY <3>1, <3>2, <3>3
  <2> QED BY <2>1 DEF AnnouncedOnce
<1>9. SampledOnce'
  <2>1. \A s \in sampled : Stamped(s.pr, "qa")'
    BY <1>5 DEF DeployInv, SampledOnce, Stamped, LiveIn
  <2>2. CASE answer = "yes" /\ GapSampled(pr, env)
    <3>1. env = "qa"
      BY <2>2 DEF GapSampled
    <3>2. before = {}
      BY <1>1, <3>1 DEF DeployInv, SampledOnce, Stamped
    <3>3. sample.n = 0 /\ sample.pr = pr
      BY <3>2, FS_EmptySet
    <3>4. Stamped(pr, "qa")'
      BY <1>1, <1>5, <2>2, <3>1 DEF Stamped
    <3>5. sampled' = sampled \cup {sample}
      BY <1>2, <2>2
    <3> HIDE DEF sample
    <3> QED BY <2>1, <3>3, <3>4, <3>5 DEF DeployInv, SampledOnce
  <2>3. CASE ~(answer = "yes" /\ GapSampled(pr, env))
    BY <1>2, <2>1, <2>3 DEF DeployInv, SampledOnce
  <2> QED BY <2>2, <2>3
<1> QED BY <1>6, <1>7, <1>8, <1>9 DEF DeployInv

\* The steps that leave the rows, the announcements and the samples alone.
LEMMA CycleSteps ==
  ASSUME DeployInv, UNCHANGED <<merged, rows, sampled, shipped>>, tip' = tip,
         cycle' \in [env : {1, 2}, sha : Int, todo : SUBSET Prs, asking : {0} \cup Prs],
         CycleIsOpen'
  PROVE  DeployInv'
  BY DEF DeployInv, DeploysTyped, AnnouncedOnce, SampledOnce, Stamped, LiveIn

LEMMA DeployStep ==
  ASSUME DeployInv, [DeployNext]_deployVars
  PROVE  DeployInv'
<1> DEFINE Fresh == cycle' \in [env : {1, 2}, sha : {0}, todo : {{}}, asking : {0}]
<1>1. ASSUME UNCHANGED <<merged, rows, sampled, shipped, tip>>, Fresh
      PROVE  DeployInv'
  BY <1>1, CycleSteps DEF CycleIsOpen, DeployInv
<1>2. CASE Merge \/ \E e \in EnvNames : RollOut(e)
  <2>1. UNCHANGED <<rows, sampled, shipped, cycle>>
    BY <1>2 DEF Merge, RollOut, store
  <2>2. merged' \in Nat /\ merged' <= MaxPr /\ tip' \in [EnvNames -> Nat]
    BY <1>2, DeploysAssumption DEF Merge, RollOut, world, DeployInv, DeploysTyped
  <2> QED BY <2>1, <2>2 DEF DeployInv, DeploysTyped, CycleIsOpen, Awaited, AnnouncedOnce, SampledOnce, Stamped, LiveIn
<1>3. CASE TimePasses \/ DeploysPrune \/ UNCHANGED deployVars
  <2>1. UNCHANGED <<merged, rows, sampled, shipped, cycle, tip>>
    BY <1>3 DEF TimePasses, DeploysPrune, deployVars, world, store
  <2> QED BY <2>1, CycleSteps DEF DeployInv, DeploysTyped, CycleIsOpen, Awaited, LiveIn
<1>4. CASE \E pr \in Prs : SweepRecords(pr)
  BY <1>4, SweepStep
<1>5. CASE HealthAnswered
  <2>1. UNCHANGED <<merged, rows, sampled, shipped, tip>>
    BY <1>5 DEF HealthAnswered, world, store
  <2>2. PICK sha \in {0, tip[Envs[cycle.env]]} :
          cycle' = IF sha = 0 THEN After(cycle.env)
                   ELSE [cycle EXCEPT !.sha = sha,
                                      !.todo = {pr \in Tracked : rows[pr].sha /\ ~LiveIn(pr, Envs[cycle.env])}]
    BY <1>5 DEF HealthAnswered
  <2>3. CASE sha = 0
    <3>1. Fresh
      BY <2>2, <2>3, Environments DEF DeployInv, DeploysTyped
    <3> QED BY <1>1, <2>1, <3>1
  <2>4. CASE sha # 0
    <3> DEFINE todo == {pr \in Tracked : rows[pr].sha /\ ~LiveIn(pr, Envs[cycle.env])}
    <3>1. todo \subseteq Prs /\ sha \in Int
      BY Environments DEF DeployInv, DeploysTyped, Tracked, EnvNames
    <3>2. \A pr \in todo : Awaited(pr)
      BY DEF Awaited, Tracked
    <3>3. cycle' = [cycle EXCEPT !.sha = sha, !.todo = todo] /\ cycle.asking = 0
      BY <1>5, <2>2, <2>4 DEF HealthAnswered
    <3> HIDE DEF todo
    <3>4. /\ cycle' \in [env : {1, 2}, sha : Int, todo : SUBSET Prs, asking : {0} \cup Prs]
          /\ cycle'.env = cycle.env /\ cycle'.todo = todo /\ cycle'.asking = 0
      BY <3>1, <3>3 DEF DeployInv, DeploysTyped
    <3>5. CycleIsOpen'
      BY <2>1, <3>2, <3>4 DEF CycleIsOpen, Awaited, LiveIn
    <3> QED BY <2>1, <3>4, <3>5, CycleSteps
  <2> QED BY <2>3, <2>4
<1>6. CASE NextRecord
  <2>1. UNCHANGED <<merged, rows, sampled, shipped, tip>>
    BY <1>6 DEF NextRecord, world, store
  <2>2. PICK pr \in cycle.todo :
          \/ cycle' = [cycle EXCEPT !.todo = cycle.todo \ {pr}]
          \/ cycle' = [cycle EXCEPT !.todo = cycle.todo \ {pr}, !.asking = pr]
    BY <1>6 DEF NextRecord, Newest
  <2>3. pr \in Prs /\ Awaited(pr) /\ cycle.asking = 0
    BY <1>6 DEF DeployInv, DeploysTyped, CycleIsOpen, NextRecord
  <2>4. /\ cycle' \in [env : {1, 2}, sha : Int, todo : SUBSET Prs, asking : {0} \cup Prs]
        /\ cycle'.env = cycle.env /\ cycle'.todo = cycle.todo \ {pr} /\ cycle'.asking \in {0, pr}
    BY <2>2, <2>3 DEF DeployInv, DeploysTyped
  <2>5. CycleIsOpen'
    BY <2>1, <2>3, <2>4 DEF DeployInv, CycleIsOpen, Awaited, LiveIn
  <2> QED BY <2>1, <2>4, <2>5, CycleSteps
<1>7. CASE EnvDone
  <2>1. UNCHANGED <<merged, rows, sampled, shipped, tip>> /\ Fresh
    BY <1>7, Environments DEF EnvDone, world, store, DeployInv, DeploysTyped
  <2> QED BY <1>1, <2>1
<1>8. CASE AncestryAnswered
  BY <1>8, AnswerStep
<1>9. CASE AncestryFails \/ DeployRestart
  <2>1. UNCHANGED <<merged, rows, sampled, shipped, tip>> /\ Fresh
    BY <1>9, Environments DEF AncestryFails, DeployRestart, world, store
  <2> QED BY <1>1, <2>1
<1> QED BY <1>2, <1>3, <1>4, <1>5, <1>6, <1>7, <1>8, <1>9 DEF DeployNext

\* The lane's arithmetic and the board's classification of a merged pull request are
\* the same partition, whatever is in the rows.
LEMMA LaneIsBoard ==
  ASSUME DeploysTyped, NEW pr \in Tracked
  PROVE  /\ pr \in AwaitingProd <=> MergedStage(pr) = "awaiting-prod"
         /\ pr \in AwaitingQa   <=> MergedStage(pr) \in {"propagating", "unknown", "qa-deploy"}
<1> DEFINE done == pr \in Superseded \/ rows[pr].prod
<1>1. pr \in InProd <=> rows[pr].prod
  BY DEF InProd
<1>2. CASE done
  BY <1>1, <1>2 DEF MergedStage, AwaitingProd, AwaitingQa
<1>3. CASE ~done /\ rows[pr].qa
  <2>1. MergedStage(pr) = "awaiting-prod"
    BY <1>1, <1>3 DEF MergedStage
  <2> QED BY <1>1, <1>3, <2>1 DEF AwaitingProd, AwaitingQa
<1>4. CASE ~done /\ ~rows[pr].qa
  <2>1. MergedStage(pr) \in {"propagating", "unknown", "qa-deploy"}
    BY <1>1, <1>4 DEF MergedStage
  <2> QED BY <1>1, <1>4, <2>1 DEF AwaitingProd, AwaitingQa
<1> QED BY <1>2, <1>3, <1>4

\* Whatever is merged, rolled out and back, pruned, expired, lost in a restart or asked
\* again: a merge is announced and sampled at most once, what was announced waits for
\* nothing, and the lane counts what the board shows (deployImpl, checkAncestry,
\* markEnvLive, upsertMergedPr, deploy-status.ts).
THEOREM MergesAreAnnouncedOnce == DeploySpec => []OncePerMerge
<1>1. DeployInv => OncePerMerge
  <2> SUFFICES ASSUME DeployInv PROVE OncePerMerge
    OBVIOUS
  <2>1. \A pr \in Prs : shipped[pr] > 0 => rows[pr].prod /\ pr \notin InFlight
    BY DEF DeployInv, AnnouncedOnce, Stamped, LiveIn, InFlight, Newest, ChainEntries, InProd
  <2>2. (\A pr \in Prs : shipped[pr] <= 1) /\ \A s \in sampled : s.n = 0
    BY DEF DeployInv, AnnouncedOnce, SampledOnce
  <2> QED BY <2>1, <2>2, LaneIsBoard DEF DeployInv, OncePerMerge
<1> QED BY <1>1, DeployStart, DeployStep, PTL DEF DeploySpec

(***************************************************************************)
(* The daily digest, over any calendar whose days are an hour shorter or   *)
(* longer at most.  DayOf needs the midnights to exist and to be in order, *)
(* both by counting.  The property speaks of days that are over; a day that*)
(* is not is settled by what its timer is going to do, and only because a  *)
(* timer is never armed for a day further off than tomorrow.               *)
(***************************************************************************)
\* The order of the numbers, as a set of pairs.
Below == {ss \in Nat \X Nat : ss[1] < ss[2]}

\* The smallest of a set of numbers is one of them.
LEMMA HasMin ==
  ASSUME NEW S, S \subseteq Nat, S # {}
  PROVE  Min(S) \in S /\ \A x \in S : Min(S) <= x
<1>1. IsWellFoundedOn(Below, Nat)
  BY NatLessThanWellFounded DEF OpToRel, Below
<1>2. \E b \in S : \A c \in S : ~ (<<c, b>> \in Below)
  BY <1>1, WFMin
<1>3. \A c, b \in Nat : c < b => <<c, b>> \in Below
  <2>. TAKE c, b \in Nat
  <2>1. <<c, b>>[1] = c /\ <<c, b>>[2] = b /\ <<c, b>> \in Nat \X Nat
    OBVIOUS
  <2>. QED BY <2>1 DEF Below
<1>4. \A b, c \in S : <<c, b>> \notin Below => b <= c
  BY <1>3
<1>. QED BY <1>2, <1>4 DEF Min

\* What is true of 0 and passes on to the next number is true of all.
LEMMA Counting ==
  ASSUME NEW good, good \subseteq Nat, 0 \in good, \A k \in good : k + 1 \in good
  PROVE  good = Nat
<1>. DEFINE bad == Nat \ good
<1>. SUFFICES ASSUME bad # {} PROVE FALSE
  OBVIOUS
<1>1. Min(bad) \in bad /\ \A k \in bad : Min(bad) <= k
  BY HasMin
<1>. DEFINE m == Min(bad)
<1>. HIDE DEF m
<1>2. m \in bad /\ \A k \in bad : m <= k
  BY <1>1 DEF m
<1>3. m \in Nat /\ m # 0
  BY <1>2
<1>4. m - 1 \in Nat /\ m - 1 \notin bad
  BY <1>2, <1>3
<1>. QED BY <1>2, <1>3, <1>4

\* The midnights exist: each is found from the one before.
LEMMA MidnightUnfolds ==
  \A d \in 1 .. Len(Lengths) + 1 :
    Midnight[d] = IF d = 1 THEN 0 ELSE Midnight[d - 1] + Lengths[d - 1]
<1>. DEFINE F(f, d) == IF d = 1 THEN 0 ELSE f[d - 1] + Lengths[d - 1]
            good == {k \in Nat : \E f : f = [d \in 1 .. k |-> F(f, d)]}
<1>1. 0 \in good
  <2>1. \A f : [d \in 1 .. 0 |-> F(f, d)] = [d \in {} |-> 0]
    OBVIOUS
  <2>. QED BY <2>1
<1>2. ASSUME NEW k \in good PROVE k + 1 \in good
  <2>1. k \in Nat
    OBVIOUS
  <2>2. PICK f : f = [d \in 1 .. k |-> F(f, d)]
    OBVIOUS
  <2>. DEFINE g == [d \in 1 .. k + 1 |-> F(f, d)]
  <2>3. \A d \in 1 .. k : g[d] = f[d]
    <3>1. \A d \in 1 .. k : f[d] = F(f, d)
      <4>. HIDE DEF F
      <4>. QED BY <2>2
    <3>. HIDE DEF F
    <3>. QED BY <2>1, <3>1
  <2>4. \A d \in 1 .. k + 1 : F(g, d) = F(f, d)
    <3>. TAKE d \in 1 .. k + 1
    <3>1. d # 1 => d - 1 \in 1 .. k
      BY <2>1
    <3>. HIDE DEF g
    <3>. QED BY <2>3, <3>1
  <2>5. g = [d \in 1 .. k + 1 |-> F(g, d)]
    <3>1. \A d \in 1 .. k + 1 : g[d] = F(g, d)
      BY <2>4
    <3>. HIDE DEF F
    <3>. QED BY <3>1
  <2>. HIDE DEF g, F
  <2>. QED BY <2>1, <2>5
<1>3. good = Nat
  <2>1. good \subseteq Nat
    OBVIOUS
  <2>. HIDE DEF good
  <2>. QED BY <1>1, <1>2, <2>1, Counting
<1>4. Len(Lengths) + 1 \in good
  <2>. HIDE DEF good
  <2>. QED BY <1>3, DigestAssumption
<1>5. PICK f : f = [d \in 1 .. Len(Lengths) + 1 |-> F(f, d)]
  BY <1>4
<1>6. Midnight = [d \in 1 .. Len(Lengths) + 1 |-> F(Midnight, d)]
  BY <1>5 DEF Midnight
<1>. HIDE DEF F
<1>7. \A d \in 1 .. Len(Lengths) + 1 : Midnight[d] = F(Midnight, d)
  BY <1>6
<1>. QED BY <1>7 DEF F

\* The days of the calendar.
Days == 1 .. Len(Lengths)

\* A day begins at midnight and lasts an hour more or less than the others at most.
LEMMA DaysFollow ==
  /\ Midnight[1] = 0
  /\ \A d \in 1 .. Len(Lengths) + 1 : Midnight[d] \in Nat
  /\ \A d \in Days : /\ Midnight[d + 1] = Midnight[d] + Lengths[d]
                     /\ Lengths[d] \in DayHours - 1 .. DayHours + 1
<1>0. Len(Lengths) \in Nat /\ Len(Lengths) > 1 /\ \A d \in Days : Lengths[d] \in DayHours - 1 .. DayHours + 1
  BY DigestAssumption DEF Days
<1>1. \A d \in Days : d + 1 \in 1 .. Len(Lengths) + 1 /\ d + 1 # 1 /\ (d + 1) - 1 = d
  BY <1>0 DEF Days
<1>2. \A d \in Days : Midnight[d + 1] = Midnight[d] + Lengths[d]
  BY <1>1, MidnightUnfolds
<1>3. Midnight[1] = 0
  BY <1>0, MidnightUnfolds
<1>. DEFINE good == {k \in Nat : k \in 0 .. Len(Lengths) => Midnight[k + 1] \in Nat}
<1>4. 0 \in good
  BY <1>3
<1>5. ASSUME NEW k \in good PROVE k + 1 \in good
  <2>. SUFFICES ASSUME k + 1 \in 0 .. Len(Lengths) PROVE Midnight[k + 2] \in Nat
    OBVIOUS
  <2>1. k \in Nat /\ k \in 0 .. Len(Lengths) /\ k + 1 \in Days
    BY <1>0 DEF Days
  <2>2. Midnight[k + 1] \in Nat
    BY <2>1
  <2>3. Midnight[(k + 1) + 1] = Midnight[k + 1] + Lengths[k + 1] /\ Lengths[k + 1] \in Nat
    BY <1>0, <1>2, <2>1, DigestAssumption
  <2>4. (k + 1) + 1 = k + 2
    BY <2>1
  <2>. QED BY <2>2, <2>3, <2>4
<1>6. good = Nat
  <2>1. good \subseteq Nat
    OBVIOUS
  <2>. HIDE DEF good
  <2>. QED BY <1>4, <1>5, <2>1, Counting
<1>7. ASSUME NEW d \in 1 .. Len(Lengths) + 1 PROVE Midnight[d] \in Nat
  <2>1. d - 1 \in Nat /\ d - 1 \in 0 .. Len(Lengths) /\ (d - 1) + 1 = d
    BY <1>0
  <2>2. d - 1 \in good
    BY <1>6, <2>1
  <2>3. Midnight[(d - 1) + 1] \in Nat
    BY <2>1, <2>2
  <2>. QED BY <2>1, <2>3
<1>. QED BY <1>0, <1>2, <1>3, <1>7

\* Later days begin later.
LEMMA DaysAreOrdered ==
  \A c, d \in 1 .. Len(Lengths) + 1 : c < d => Midnight[c] < Midnight[d]
<1>0. Len(Lengths) \in Nat /\ DayHours \in Nat /\ DayHours > 2
  BY DigestAssumption
<1>. DEFINE good == {k \in Nat : \A c \in Days :
                        c + k + 1 \in 1 .. Len(Lengths) + 1 => Midnight[c] < Midnight[c + k + 1]}
<1>1. 0 \in good
  <2>1. ASSUME NEW c \in Days PROVE Midnight[c] < Midnight[c + 0 + 1]
    <3>1. c \in 1 .. Len(Lengths) + 1 /\ c + 0 + 1 = c + 1
      BY <1>0 DEF Days
    <3>. QED BY <1>0, <3>1, DaysFollow
  <2>. QED BY <2>1
<1>2. ASSUME NEW k \in good PROVE k + 1 \in good
  <2>0. k \in Nat
    OBVIOUS
  <2>1. \A c \in Days : c + k + 1 \in 1 .. Len(Lengths) + 1 => Midnight[c] < Midnight[c + k + 1]
    OBVIOUS
  <2>2. ASSUME NEW c \in Days, c + (k + 1) + 1 \in 1 .. Len(Lengths) + 1
        PROVE  Midnight[c] < Midnight[c + (k + 1) + 1]
    <3>0. PICK d : d = c + k + 1
      OBVIOUS
    <3>1. /\ d \in Days /\ {c, d, d + 1} \subseteq 1 .. Len(Lengths) + 1
          /\ d + 1 = c + (k + 1) + 1
      BY <1>0, <2>0, <2>2, <3>0 DEF Days
    <3>2. Midnight[c] < Midnight[d]
      BY <2>1, <3>0, <3>1
    <3>. HIDE DEF good
    <3>3. {Midnight[c], Midnight[d], Midnight[d + 1]} \subseteq Nat
      BY <3>1, DaysFollow
    <3>4. Midnight[d + 1] = Midnight[d] + Lengths[d] /\ Lengths[d] \in DayHours - 1 .. DayHours + 1
      BY <3>1, DaysFollow
    <3>5. Midnight[d] < Midnight[d + 1]
      BY <1>0, <3>3, <3>4
    <3>. QED BY <3>1, <3>2, <3>3, <3>5
  <2>. QED BY <2>0, <2>2
<1>3. good = Nat
  <2>1. good \subseteq Nat
    OBVIOUS
  <2>. HIDE DEF good
  <2>. QED BY <1>1, <1>2, <2>1, Counting
<1>4. ASSUME NEW c \in 1 .. Len(Lengths) + 1, NEW d \in 1 .. Len(Lengths) + 1, c < d
      PROVE  Midnight[c] < Midnight[d]
  <2>1. d - c - 1 \in Nat /\ c \in Days /\ c + (d - c - 1) + 1 = d
    BY <1>0, <1>4 DEF Days
  <2>2. d - c - 1 \in good
    BY <1>3, <2>1
  <2>3. Midnight[c] < Midnight[c + (d - c - 1) + 1]
    BY <2>1, <2>2
  <2>. QED BY <2>1, <2>3
<1>. QED BY <1>4

\* An hour is of one day.
LEMMA DayIs ==
  ASSUME NEW t \in Int, NEW d \in Days, InDay(t, d)
  PROVE  DayOf(t) = d
<1>0. Len(Lengths) \in Nat /\ DOMAIN Lengths = Days
  BY DigestAssumption DEF Days
<1>1. ASSUME NEW e \in Days, InDay(t, e) PROVE e = d
  <2>1. \A c \in Days : c \in Nat /\ {c, c + 1} \subseteq 1 .. Len(Lengths) + 1
    BY <1>0 DEF Days
  <2>2. {Midnight[e], Midnight[e + 1], Midnight[d], Midnight[d + 1]} \subseteq Nat
    BY <2>1, DaysFollow
  <2>3. e < d => e + 1 = d \/ Midnight[e + 1] < Midnight[d]
    BY <2>1, DaysAreOrdered
  <2>4. d < e => d + 1 = e \/ Midnight[d + 1] < Midnight[e]
    BY <2>1, DaysAreOrdered
  <2>. QED BY <1>1, <2>1, <2>2, <2>3, <2>4 DEF InDay
<1>2. DayOf(t) \in Days /\ InDay(t, DayOf(t))
  BY <1>0, Zenon DEF DayOf
<1>. QED BY <1>1, <1>2

\* What is later is not of an earlier day.
LEMMA LaterDay ==
  ASSUME NEW t \in Int, NEW u \in Int, t <= u, NEW d \in Days, NEW e \in Days, InDay(t, d), InDay(u, e)
  PROVE  d <= e
<1>1. Len(Lengths) \in Nat
  BY DigestAssumption
<1>2. d \in Nat /\ e \in Nat /\ {d, d + 1, e, e + 1} \subseteq 1 .. Len(Lengths) + 1
  BY <1>1 DEF Days
<1>3. {Midnight[d], Midnight[e], Midnight[e + 1]} \subseteq Nat
  BY <1>2, DaysFollow
<1>4. e < d => e + 1 = d \/ Midnight[e + 1] < Midnight[d]
  BY <1>2, DaysAreOrdered
<1>. QED BY <1>2, <1>3, <1>4 DEF InDay

\* The next hour is of the same day or of the next.
LEMMA HourMoves ==
  ASSUME NEW t \in Int, NEW d \in Days, d < Len(Lengths), InDay(t, d)
  PROVE  \E e \in {d, d + 1} : InDay(t + 1, e) /\ DayOf(t + 1) = e
<1>1. Len(Lengths) \in Nat /\ DayHours \in Nat /\ DayHours > 2
  BY DigestAssumption
<1>2. d \in Nat /\ d + 1 \in Days /\ d + 1 \in 1 .. Len(Lengths) + 1 /\ (d + 1) + 1 \in 1 .. Len(Lengths) + 1
  BY <1>1 DEF Days
<1>3. {Midnight[d], Midnight[d + 1]} \subseteq Nat /\ Midnight[(d + 1) + 1] = Midnight[d + 1] + Lengths[d + 1]
      /\ Lengths[d + 1] \in Nat /\ Lengths[d + 1] > 1
  BY <1>1, <1>2, DaysFollow DEF Days
<1>4. InDay(t + 1, d) \/ InDay(t + 1, d + 1)
  BY <1>3 DEF InDay
<1>. QED BY <1>2, <1>4, DayIs

\* Every day has the hour of the digest, or a later one when the clocks skip it.
LEMMA FirstHourIs ==
  ASSUME NEW d \in Days, NEW h \in DigestHours
  PROVE  FirstHour(d, h) \in Nat /\ InDay(FirstHour(d, h), d) /\ DayOf(FirstHour(d, h)) = d
<1>1. Len(Lengths) \in Nat /\ DayHours \in Nat /\ DayHours > 2 /\ h \in Nat /\ h < DayHours
  BY DigestAssumption
<1>2. /\ Midnight[d] \in Nat /\ Midnight[d + 1] = Midnight[d] + Lengths[d]
      /\ Lengths[d] \in Nat /\ Lengths[d] >= DayHours - 1
      /\ Lengths[d] <= DayHours + 1
  BY <1>1, DaysFollow DEF Days
<1>. DEFINE hours == {t \in Midnight[d] .. Midnight[d + 1] - 1 : HourLabel(t) >= h}
            last  == Midnight[d + 1] - 1
<1>3. last \in Int /\ InDay(last, d)
  BY <1>1, <1>2 DEF InDay
<1>4. DayOf(last) = d
  BY <1>3, DayIs
<1>5. HourLabel(last) = DayHours - 1
  <2>1. last - Midnight[d] = Lengths[d] - 1
    BY <1>2
  <2>2. HourLabel(last) = IF Lengths[d] - 1 > 1 \/ (Lengths[d] - 1 = 1 /\ Lengths[d] - DayHours < 0)
                          THEN Lengths[d] - 1 - (Lengths[d] - DayHours) ELSE Lengths[d] - 1
    <3>. HIDE DEF last
    <3>. QED BY <1>4, <2>1 DEF HourLabel
  <2>. QED BY <1>1, <1>2, <2>2
<1>6. hours \subseteq Nat /\ last \in hours
  BY <1>1, <1>2, <1>5
<1>7. Min(hours) \in hours
  BY <1>6, HasMin
<1>8. FirstHour(d, h) \in hours
  BY <1>7 DEF FirstHour
<1>9. FirstHour(d, h) \in Nat /\ InDay(FirstHour(d, h), d)
  BY <1>2, <1>6, <1>8 DEF InDay
<1>. QED BY <1>9, DayIs

\* The next digest is at the hour of today or of tomorrow, and tomorrow's when today's is over.
LEMMA NextDigestIs ==
  ASSUME NEW now \in Int, NEW d \in Days, d < Len(Lengths), InDay(now, d), NEW h \in DigestHours,
         NEW t, t = NextDigest(now, h)
  PROVE  /\ t \in Nat /\ t > now
         /\ \E e \in {d, d + 1} : /\ InDay(t, e) /\ DayOf(t) = e /\ t = FirstHour(e, h)
                                  /\ FirstHour(d, h) <= now => e = d + 1
<1>1. Len(Lengths) \in Nat /\ d \in Nat /\ d + 1 \in Days /\ d + 1 \in 1 .. Len(Lengths) + 1
  BY DigestAssumption DEF Days
<1>2. DayOf(now) = d
  BY DayIs
<1>3. t = IF FirstHour(d, h) > now THEN FirstHour(d, h) ELSE FirstHour(d + 1, h)
  BY <1>2 DEF NextDigest
<1>4. \A e \in {d, d + 1} : FirstHour(e, h) \in Nat /\ InDay(FirstHour(e, h), e) /\ DayOf(FirstHour(e, h)) = e
  BY <1>1, FirstHourIs
<1>5. FirstHour(d + 1, h) > now
  <2>1. Midnight[d + 1] \in Nat
    BY <1>1, DaysFollow
  <2>. QED BY <1>4, <2>1 DEF InDay
<1>6. CASE FirstHour(d, h) > now
  BY <1>3, <1>4, <1>6
<1>7. CASE ~(FirstHour(d, h) > now)
  BY <1>3, <1>4, <1>5, <1>7
<1>. QED BY <1>6, <1>7

\* The digests of a day.
OfDay(d) == {t \in digests : DayOf(t) = d}
\* An instant of the calendar, before its last day; no digest is of a day to come.
DigestTyped ==
  /\ hour \in Int /\ faults \in Nat
  /\ DayOf(hour) \in Days /\ DayOf(hour) < Len(Lengths) /\ InDay(hour, DayOf(hour))
  /\ digestConfig \in [enabled : BOOLEAN, hourLocal : DigestHours]
  /\ \A t \in digests : DayOf(t) \in 1 .. DayOf(hour)
\* An armed timer is due today or tomorrow, at the hour of the digest unless that day is upset.
ArmedAhead ==
  digestTimer # Unarmed =>
    LET e == DayOf(digestTimer)
    IN /\ digestTimer \in Int /\ digestTimer >= hour
       /\ e \in {DayOf(hour), DayOf(hour) + 1} /\ InDay(digestTimer, e)
       /\ e \notin upset => digestTimer = FirstHour(e, digestConfig.hourLocal)
\* A day that is not upset has its digest and the timer is beyond it, or it is today, still without one.
Settled(d) ==
  \/ /\ \E h \in DigestHours : OfDay(d) = {FirstHour(d, h)} /\ (faults = 0 => h = digestConfig.hourLocal)
     /\ digestTimer = Unarmed \/ DayOf(digestTimer) > d
  \/ /\ d = DayOf(hour) /\ OfDay(d) = {}
     /\ digestTimer = Unarmed \/ DayOf(digestTimer) = d
DaysAreSettled == \A d \in 1 .. DayOf(hour) : d \notin upset => Settled(d)
DigestInv == DigestTyped /\ ArmedAhead /\ DaysAreSettled

\* The first timer is armed as every other one.
LEMMA DigestStarts == DigestInit => DigestInv
<1>. SUFFICES ASSUME DigestInit PROVE DigestInv
  OBVIOUS
<1>1. /\ Len(Lengths) \in Nat /\ Len(Lengths) > 1 /\ DayHours \in Nat /\ DayHours > 2
      /\ DigestHours \subseteq Nat /\ DigestHours # {}
  BY DigestAssumption
<1>2. Min(DigestHours) \in DigestHours
  BY <1>1, HasMin
<1>3. 1 \in Days /\ Midnight[1] = 0 /\ Midnight[1 + 1] = Lengths[1] /\ Lengths[1] \in Nat /\ Lengths[1] > 1
  BY <1>1, DaysFollow DEF Days
<1>4. InDay(0, 1)
  BY <1>3 DEF InDay
<1>5. DayOf(0) = 1
  BY <1>3, <1>4, DayIs
<1>6. DigestTyped
  BY <1>1, <1>2, <1>3, <1>4, <1>5 DEF DigestInit, DigestTyped
<1>7. ArmedAhead
  <2>1. PICK h, t : h = Min(DigestHours) /\ t = NextDigest(0, h)
    OBVIOUS
  <2>2. t \in Nat /\ t > 0 /\ \E e \in {1, 1 + 1} : InDay(t, e) /\ DayOf(t) = e /\ t = FirstHour(e, h)
    <3>1. 0 \in Int /\ 1 < Len(Lengths) /\ h \in DigestHours
      BY <1>1, <1>2, <2>1
    <3>. QED BY <1>3, <1>4, <2>1, <3>1, NextDigestIs
  <2>3. digestTimer = t /\ hour = 0 /\ digestConfig.hourLocal = h
    BY <2>1 DEF DigestInit
  <2>. QED BY <2>2, <2>3, <1>5 DEF ArmedAhead
<1>8. DaysAreSettled
  BY <1>5 DEF DigestInit, DaysAreSettled
<1>. QED BY <1>6, <1>7, <1>8 DEF DigestInv

\* A step that sends nothing and stays in the hour, but spoils the day it is in (and
\* only the timer's day when it touches the configuration).
LEMMA SpoiledDay ==
  ASSUME DigestInv, UNCHANGED <<hour, digests>>,
         faults' \in Nat, faults' >= faults, DayOf(hour) \in upset', upset \subseteq upset',
         digestConfig' \in [enabled : BOOLEAN, hourLocal : DigestHours],
         digestConfig' = digestConfig \/ faults' > 0, ArmedAhead',
         \A d \in 1 .. DayOf(hour) - 1 : digestTimer' # Unarmed => DayOf(digestTimer)' > d
  PROVE  DigestInv'
<1>. USE DEF DigestInv
<1>0. DayOf(hour)' = DayOf(hour) /\ \A d : OfDay(d)' = OfDay(d) /\ InDay(hour, d)' = InDay(hour, d)
  BY DEF OfDay
<1>1. DigestTyped'
  BY <1>0 DEF DigestTyped
<1>2. DaysAreSettled'
  <2>. SUFFICES ASSUME NEW d \in 1 .. DayOf(hour), d \notin upset' PROVE Settled(d)'
    BY <1>0 DEF DaysAreSettled
  <2>1. d \in Nat /\ DayOf(hour) \in Nat /\ d < DayOf(hour) /\ d \in 1 .. DayOf(hour) - 1 /\ d \notin upset
    BY DigestAssumption DEF DigestTyped, Days
  <2>2. Settled(d)
    BY <2>1 DEF DaysAreSettled
  <2>3. PICK h \in DigestHours : OfDay(d) = {FirstHour(d, h)} /\ (faults = 0 => h = digestConfig.hourLocal)
    BY <2>1, <2>2 DEF Settled
  <2>4. faults' = 0 => h = digestConfig'.hourLocal
    BY <2>3 DEF DigestTyped
  <2>5. OfDay(d)' = {FirstHour(d, h)}
    BY <1>0, <2>3
  <2>6. (digestTimer = Unarmed \/ DayOf(digestTimer) > d)'
    BY <2>1 DEF Unarmed
  <2>. QED BY <2>4, <2>5, <2>6 DEF Settled
<1>. QED BY <1>1, <1>2

\* Midnight passes only when nothing is due, so a day is left with its digest or upset.
LEMMA KeptByHour == DigestInv /\ HourPasses => DigestInv'
<1>. SUFFICES ASSUME DigestInv, HourPasses PROVE DigestInv'
  OBVIOUS
<1>. USE DEF DigestInv
<1>. DEFINE d == DayOf(hour)
<1>0. Len(Lengths) \in Nat
  BY DigestAssumption
<1>1. /\ d \in Nat /\ d >= 1 /\ d < Len(Lengths) - 1 /\ d \in Days
      /\ InDay(hour, d) /\ hour \in Int /\ hour' = hour + 1
  BY <1>0 DEF DigestTyped, Days, HourPasses
<1>. HIDE DEF d
<1>2. PICK e \in {d, d + 1} : InDay(hour + 1, e) /\ DayOf(hour + 1) = e
  BY <1>0, <1>1, HourMoves
<1>3. e \in Nat /\ e \in Days /\ e < Len(Lengths) /\ DayOf(hour') = e /\ InDay(hour', e)
  BY <1>0, <1>1, <1>2 DEF Days
<1>4. UNCHANGED <<digestConfig, digestTimer, digests, faults>>
  BY DEF HourPasses
<1>5. /\ upset \subseteq upset' /\ (digestTimer = Unarmed => d \in upset')
      /\ digestTimer # Unarmed => upset' = upset
  BY DEF HourPasses, d
<1>6. DigestTyped'
  <2>1. \A t \in digests' : DayOf(t) \in 1 .. e
    BY <1>0, <1>1, <1>2, <1>4 DEF DigestTyped, d
  <2>. QED BY <1>1, <1>3, <1>4, <2>1 DEF DigestTyped
<1>7. digestTimer # Unarmed => /\ digestTimer \in Int /\ digestTimer >= hour + 1
                               /\ DayOf(digestTimer) \in {d, d + 1} /\ DayOf(digestTimer) \in Days
                               /\ InDay(digestTimer, DayOf(digestTimer)) /\ DayOf(digestTimer) >= e
  <2>. SUFFICES ASSUME digestTimer # Unarmed
                PROVE /\ digestTimer \in Int /\ digestTimer >= hour + 1
                      /\ DayOf(digestTimer) \in {d, d + 1} /\ DayOf(digestTimer) \in Days
                      /\ InDay(digestTimer, DayOf(digestTimer)) /\ DayOf(digestTimer) >= e
    OBVIOUS
  <2>1. /\ digestTimer \in Int /\ digestTimer >= hour /\ digestTimer # hour
        /\ DayOf(digestTimer) \in {d, d + 1} /\ InDay(digestTimer, DayOf(digestTimer))
    BY DEF ArmedAhead, HourPasses, d
  <2>2. digestTimer >= hour + 1 /\ DayOf(digestTimer) \in Days
    BY <1>0, <1>1, <2>1 DEF Days
  <2>3. DayOf(digestTimer) >= e
    BY <1>1, <1>2, <1>3, <2>1, <2>2, LaterDay
  <2>. QED BY <2>1, <2>2, <2>3
<1>8. ArmedAhead'
  <2>. SUFFICES ASSUME digestTimer # Unarmed PROVE ArmedAhead'
    BY <1>4 DEF ArmedAhead
  <2>1. DayOf(digestTimer) \in {e, e + 1}
    BY <1>1, <1>2, <1>3, <1>7 DEF Days
  <2>2. DayOf(digestTimer) \notin upset => digestTimer = FirstHour(DayOf(digestTimer), digestConfig.hourLocal)
    BY DEF ArmedAhead
  <2>. QED BY <1>1, <1>3, <1>4, <1>5, <1>7, <2>1, <2>2 DEF ArmedAhead
<1>9. DaysAreSettled'
  <2>. SUFFICES ASSUME NEW c \in 1 .. e, c \notin upset' PROVE Settled(c)'
    BY <1>3 DEF DaysAreSettled
  <2>1. OfDay(c)' = OfDay(c) /\ c \notin upset /\ c \in Nat
    BY <1>3, <1>4, <1>5 DEF OfDay
  <2>2. CASE c <= d
    <3>1. Settled(c)
      BY <2>1, <2>2 DEF DaysAreSettled, d
    <3>2. CASE c = d /\ OfDay(c) = {} /\ (digestTimer = Unarmed \/ DayOf(digestTimer) = d)
      <4>1. digestTimer # Unarmed /\ DayOf(digestTimer) = d
        BY <1>5, <3>2
      <4>2. e = d
        BY <1>1, <1>2, <1>7, <4>1
      <4>. QED BY <1>3, <1>4, <2>1, <3>2, <4>2 DEF Settled
    <3>3. CASE /\ \E h \in DigestHours : OfDay(c) = {FirstHour(c, h)} /\ (faults = 0 => h = digestConfig.hourLocal)
               /\ digestTimer = Unarmed \/ DayOf(digestTimer) > c
      BY <1>4, <2>1, <3>3 DEF Settled
    <3>. QED BY <3>1, <3>2, <3>3 DEF Settled, d
  <2>3. CASE c > d
    <3>1. c = e /\ e = d + 1
      BY <1>1, <1>2, <2>1, <2>3
    <3>2. OfDay(c) = {}
      BY <1>1, <2>3 DEF OfDay, DigestTyped, d
    <3>3. digestTimer = Unarmed \/ DayOf(digestTimer) = c
      BY <1>1, <1>7, <3>1
    <3>. QED BY <1>3, <1>4, <2>1, <3>1, <3>2, <3>3 DEF Settled
  <2>. QED BY <1>1, <2>1, <2>2, <2>3
<1>. QED BY <1>6, <1>8, <1>9

\* A late timer spoils the day it was for and the one it goes off on.
LEMMA KeptByLateness == DigestInv /\ TimerIsLate => DigestInv'
<1>. SUFFICES ASSUME DigestInv, TimerIsLate PROVE DigestInv'
  OBVIOUS
<1>. USE DEF DigestInv
<1>. DEFINE d == DayOf(hour)
<1>0. Len(Lengths) \in Nat
  BY DigestAssumption
<1>1. /\ d \in Nat /\ d >= 1 /\ d < Len(Lengths) - 1 /\ d \in Days /\ InDay(hour, d) /\ hour \in Int
      /\ hour' = hour + 1 /\ digestTimer' = hour + 1
  BY <1>0 DEF DigestTyped, Days, TimerIsLate
<1>. HIDE DEF d
<1>2. PICK e \in {d, d + 1} : InDay(hour + 1, e) /\ DayOf(hour + 1) = e
  BY <1>0, <1>1, HourMoves
<1>3. e \in Nat /\ e \in Days /\ e < Len(Lengths) /\ DayOf(hour') = e /\ InDay(hour', e)
  BY <1>0, <1>1, <1>2 DEF Days
<1>4. UNCHANGED <<digestConfig, digests>> /\ faults' = faults + 1 /\ upset' = upset \cup {d, e}
  BY <1>2 DEF TimerIsLate, Faulty, d
<1>5. DigestTyped'
  <2>1. \A t \in digests' : DayOf(t) \in 1 .. e
    BY <1>0, <1>1, <1>2, <1>4 DEF DigestTyped, d
  <2>. QED BY <1>1, <1>3, <1>4, <2>1 DEF DigestTyped
<1>6. ArmedAhead'
  BY <1>1, <1>2, <1>3, <1>4 DEF ArmedAhead
<1>7. DaysAreSettled'
  <2>. SUFFICES ASSUME NEW c \in 1 .. e, c \notin upset' PROVE Settled(c)'
    BY <1>3 DEF DaysAreSettled
  <2>1. OfDay(c)' = OfDay(c) /\ c \notin upset /\ c \in Nat /\ c < d /\ c \in 1 .. d /\ c < e
    BY <1>1, <1>2, <1>3, <1>4 DEF OfDay
  <2>2. Settled(c)
    BY <2>1 DEF DaysAreSettled, d
  <2>3. \E h \in DigestHours : OfDay(c) = {FirstHour(c, h)}
    BY <2>1, <2>2 DEF Settled, d
  <2>4. DayOf(digestTimer') > c
    BY <1>1, <1>2, <1>3, <2>1
  <2>5. faults' # 0
    BY <1>4 DEF DigestTyped
  <2>. QED BY <2>1, <2>3, <2>4, <2>5 DEF Settled
<1>. QED BY <1>5, <1>6, <1>7

\* The digest that goes out is the day's only one, for the timer is then armed for tomorrow.
LEMMA KeptByFiring == DigestInv /\ DigestFires => DigestInv'
<1>. SUFFICES ASSUME DigestInv, DigestFires PROVE DigestInv'
  OBVIOUS
<1>. USE DEF DigestInv
<1>0. PICK d, h, t : d = DayOf(hour) /\ h = digestConfig.hourLocal /\ t = NextDigest(hour, h)
  OBVIOUS
<1>1. /\ d \in Nat /\ d \in Days /\ d < Len(Lengths) /\ InDay(hour, d)
      /\ hour \in Int /\ h \in DigestHours /\ faults \in Nat
  BY <1>0, DigestAssumption DEF DigestTyped, Days
<1>2. digestTimer = hour /\ hour \in Nat /\ digestTimer # Unarmed
  <2>1. Midnight[d] \in Nat
    BY <1>1, DaysFollow, DigestAssumption DEF Days
  <2>. QED BY <1>1, <2>1 DEF InDay, Unarmed, DigestFires
<1>3. /\ t \in Nat /\ t > hour
      /\ \E e \in {d, d + 1} : /\ InDay(t, e) /\ DayOf(t) = e /\ t = FirstHour(e, h)
                               /\ FirstHour(d, h) <= hour => e = d + 1
  BY <1>0, <1>1, NextDigestIs
<1>4. digestTimer' = t /\ UNCHANGED <<hour, digestConfig>> /\ DayOf(hour)' = d /\ digestConfig'.hourLocal = h
  BY <1>0 DEF DigestFires
<1>5. \/ digests' = digests \cup {hour} /\ UNCHANGED <<upset, faults>>
      \/ digests' = digests /\ faults' = faults + 1 /\ upset' = upset \cup {d}
  BY <1>0 DEF DigestFires, Faulty
<1>6. d \notin upset => hour = FirstHour(d, h)
  BY <1>0, <1>2 DEF ArmedAhead
<1>7. DigestTyped'
  <2>1. \A u \in digests' : DayOf(u) \in 1 .. d
    <3>1. \A u \in digests : DayOf(u) \in 1 .. d
      BY <1>0 DEF DigestTyped
    <3>2. DayOf(hour) \in 1 .. d
      BY <1>0, <1>1 DEF Days
    <3>. QED BY <1>5, <3>1, <3>2
  <2>2. faults' \in Nat
    BY <1>1, <1>5
  <2>. QED BY <1>4, <2>1, <2>2 DEF DigestTyped
<1>8. ArmedAhead'
  <2>1. t \in Int /\ t >= hour /\ DayOf(t) \in {d, d + 1} /\ InDay(t, DayOf(t)) /\ t = FirstHour(DayOf(t), h)
    BY <1>1, <1>3
  <2>. QED BY <1>4, <2>1 DEF ArmedAhead
<1>9. DaysAreSettled'
  <2>. SUFFICES ASSUME NEW c \in 1 .. d, c \notin upset' PROVE Settled(c)'
    BY <1>4 DEF DaysAreSettled
  <2>1. c \notin upset /\ c \in Nat
    BY <1>1, <1>5
  <2>2. Settled(c)
    BY <1>0, <2>1 DEF DaysAreSettled
  <2>3. digestTimer' # Unarmed
    BY <1>3, <1>4 DEF Unarmed
  <2>4. CASE c < d
    <3>1. OfDay(c)' = OfDay(c)
      BY <1>0, <1>5, <2>1, <2>4 DEF OfDay
    <3>2. PICK g \in DigestHours : OfDay(c) = {FirstHour(c, g)} /\ (faults = 0 => g = h)
      BY <1>0, <1>1, <2>1, <2>2, <2>4 DEF Settled
    <3>3. DayOf(digestTimer') > c
      BY <1>1, <1>3, <1>4, <2>1, <2>4
    <3>4. faults' = 0 => g = digestConfig'.hourLocal
      BY <1>1, <1>4, <1>5, <3>2
    <3>. QED BY <3>1, <3>2, <3>3, <3>4 DEF Settled
  <2>5. CASE c = d
    <3>1. digests' = digests \cup {hour} /\ hour = FirstHour(c, h)
      BY <1>5, <1>6, <2>1, <2>5
    <3>2. OfDay(c) = {}
      BY <1>0, <1>1, <1>2, <2>2, <2>5 DEF Settled
    <3>3. OfDay(c)' = {FirstHour(c, h)}
      BY <1>0, <2>5, <3>1, <3>2 DEF OfDay
    <3>4. DayOf(digestTimer') > c
      <4>1. FirstHour(d, h) <= hour
        BY <1>1, <2>5, <3>1
      <4>. QED BY <1>1, <1>3, <1>4, <2>5, <4>1
    <3>. QED BY <1>1, <1>4, <3>3, <3>4 DEF Settled
  <2>. QED BY <1>1, <2>1, <2>4, <2>5
<1>. QED BY <1>7, <1>8, <1>9

\* A start spoils the day: its digest may be out already, or its hour over.
LEMMA KeptByStart == DigestInv /\ DigestStart => DigestInv'
<1>. SUFFICES ASSUME DigestInv, DigestStart PROVE DigestInv'
  OBVIOUS
<1>0. PICK d, h, t : d = DayOf(hour) /\ h = digestConfig.hourLocal /\ t = NextDigest(hour, h)
  OBVIOUS
<1>1. /\ d \in Nat /\ d \in Days /\ d < Len(Lengths) /\ InDay(hour, d)
      /\ hour \in Int /\ h \in DigestHours /\ faults \in Nat
  BY <1>0, DigestAssumption DEF DigestInv, DigestTyped, Days
<1>2. t \in Nat /\ t > hour /\ \E e \in {d, d + 1} : InDay(t, e) /\ DayOf(t) = e /\ t = FirstHour(e, h)
  BY <1>0, <1>1, NextDigestIs
<1>3. digestTimer' = t /\ UNCHANGED <<hour, digestConfig, digests, faults>> /\ upset' = upset \cup {d}
      /\ DayOf(hour)' = d /\ digestConfig'.hourLocal = h
  BY <1>0 DEF DigestStart
<1>4. ArmedAhead'
  <2>1. t \in Int /\ t >= hour /\ DayOf(t) \in {d, d + 1} /\ InDay(t, DayOf(t)) /\ t = FirstHour(DayOf(t), h)
    BY <1>1, <1>2
  <2>. QED BY <1>3, <2>1 DEF ArmedAhead
<1>5. \A c \in 1 .. d - 1 : DayOf(digestTimer') > c
  BY <1>1, <1>2, <1>3
<1>6. digestConfig \in [enabled : BOOLEAN, hourLocal : DigestHours]
  BY DEF DigestInv, DigestTyped
<1>. QED BY <1>0, <1>1, <1>3, <1>4, <1>5, <1>6, SpoiledDay

\* So does a stop, and days to come have no timer until a start.
LEMMA KeptByStop == DigestInv /\ DigestStop => DigestInv'
<1>. SUFFICES ASSUME DigestInv, DigestStop PROVE DigestInv'
  OBVIOUS
<1>1. faults \in Nat /\ digestConfig \in [enabled : BOOLEAN, hourLocal : DigestHours]
  BY DEF DigestInv, DigestTyped
<1>2. digestTimer' = Unarmed /\ UNCHANGED <<hour, digestConfig, digests>> /\ faults' = faults + 1
      /\ upset' = upset \cup {DayOf(hour)}
  BY DEF DigestStop, Faulty
<1>3. ArmedAhead'
  BY <1>2 DEF ArmedAhead
<1>. QED BY <1>1, <1>2, <1>3, SpoiledDay

\* An armed timer keeps its hour when the hour of the digest changes: its day is spoiled.
LEMMA KeptByReconfiguration == DigestInv /\ DigestReconfigured => DigestInv'
<1>. SUFFICES ASSUME DigestInv, DigestReconfigured PROVE DigestInv'
  OBVIOUS
<1>0. Len(Lengths) \in Nat
  BY DigestAssumption
<1>1. faults \in Nat /\ DayOf(hour) \in Nat
  BY <1>0 DEF DigestInv, DigestTyped, Days
<1>2. UNCHANGED <<hour, digestTimer, digests>> /\ faults' = faults + 1
      /\ upset' = upset \cup {DayOf(hour), DayOf(hour) + 1}
      /\ digestConfig' \in [enabled : BOOLEAN, hourLocal : DigestHours]
  BY DEF DigestReconfigured, Faulty
<1>3. digestTimer # Unarmed => DayOf(digestTimer) \in {DayOf(hour), DayOf(hour) + 1}
  BY DEF DigestInv, ArmedAhead
<1>4. ArmedAhead'
  BY <1>2, <1>3 DEF DigestInv, ArmedAhead
<1>5. \A c \in 1 .. DayOf(hour) - 1 : digestTimer' # Unarmed => DayOf(digestTimer)' > c
  BY <1>1, <1>2, <1>3
<1>. QED BY <1>1, <1>2, <1>4, <1>5, SpoiledDay

\* Every step keeps the invariant.
LEMMA DigestStep == DigestInv /\ [DigestNext]_digestVars => DigestInv'
<1>1. DigestInv /\ UNCHANGED digestVars => DigestInv'
  BY DEF DigestInv, DigestTyped, ArmedAhead, DaysAreSettled, Settled, OfDay, digestVars
<1>. QED BY <1>1, KeptByHour, KeptByLateness, KeptByFiring, KeptByStart, KeptByStop, KeptByReconfiguration
         DEF DigestNext

\* A day without a fault has exactly one digest, at the configured local hour, also where
\* the clocks change, and between two such days every hour is in the window of a digest
\* (msUntilNextDigest, DigestScheduler).
THEOREM DigestsAreDaily == DigestSpec => []DigestIsDaily
<1>1. DigestInv => DigestIsDaily
  <2>. SUFFICES ASSUME DigestInv, NEW d \in 1 .. DayOf(hour), d \notin upset, Midnight[d + 1] <= hour
                PROVE  LET ofDay(e) == {t \in digests : DayOf(t) = e} IN
                       /\ ofDay(d) = {FirstHour(d, digestConfig.hourLocal)} \/ faults > 0
                       /\ \E t \in ofDay(d) : ofDay(d) = {t} /\ \E h \in DigestHours : t = FirstHour(d, h)
                       /\ d - 1 \notin upset /\ d > 1 =>
                            LET from == CHOOSE t \in ofDay(d - 1) : TRUE
                                to   == CHOOSE t \in ofDay(d) : TRUE
                            IN to - from = DayHours => \A t \in from .. to : \E s \in digests : t \in Window(s)
    BY DEF DigestIsDaily
  <2>0. Len(Lengths) \in Nat /\ DayHours \in Nat /\ DayHours > 2
    BY DigestAssumption
  <2>1. /\ faults \in Nat /\ hour \in Int /\ d \in Nat
        /\ DayOf(hour) \in Days /\ DayOf(hour) \in Nat /\ InDay(hour, DayOf(hour))
    BY <2>0 DEF DigestInv, DigestTyped, Days
  <2>2. d < DayOf(hour)
    <3>1. Midnight[d + 1] \in Nat /\ Midnight[DayOf(hour) + 1] \in Nat
      BY <2>0, <2>1, DaysFollow DEF Days
    <3>. QED BY <2>1, <3>1 DEF InDay
  <2>3. ASSUME NEW c \in 1 .. d, c \notin upset
        PROVE  \E h \in DigestHours : /\ OfDay(c) = {FirstHour(c, h)} /\ FirstHour(c, h) \in Nat
                                      /\ (faults = 0 => h = digestConfig.hourLocal)
    <3>1. c \in 1 .. DayOf(hour) /\ c # DayOf(hour) /\ c \in Days
      BY <2>0, <2>1, <2>2 DEF Days
    <3>2. Settled(c)
      BY <2>3, <3>1 DEF DigestInv, DaysAreSettled
    <3>3. PICK h \in DigestHours : OfDay(c) = {FirstHour(c, h)} /\ (faults = 0 => h = digestConfig.hourLocal)
      BY <3>1, <3>2 DEF Settled
    <3>. QED BY <3>1, <3>3, FirstHourIs
  <2>4. PICK h \in DigestHours : /\ OfDay(d) = {FirstHour(d, h)} /\ FirstHour(d, h) \in Nat
                                 /\ (faults = 0 => h = digestConfig.hourLocal)
    BY <2>1, <2>3
  <2>5. ASSUME d - 1 \notin upset, d > 1,
               NEW from, from = CHOOSE t \in OfDay(d - 1) : TRUE, NEW to, to = CHOOSE t \in OfDay(d) : TRUE,
               to - from = DayHours, NEW t \in from .. to
        PROVE  \E s \in digests : t \in Window(s)
    <3>1. PICK g \in DigestHours : OfDay(d - 1) = {FirstHour(d - 1, g)} /\ FirstHour(d - 1, g) \in Nat
      BY <2>1, <2>3, <2>5
    <3>2. from = FirstHour(d - 1, g) /\ to = FirstHour(d, h)
      BY <2>4, <2>5, <3>1
    <3>3. from \in Nat /\ to \in Nat /\ from \in digests /\ to \in digests
      BY <2>4, <3>1, <3>2 DEF OfDay
    <3>. HIDE <2>5
    <3>4. t = from \/ t \in Window(to)
      BY <2>0, <2>5, <3>3 DEF Window
    <3>5. from \in Window(from)
      BY <2>0, <3>3 DEF Window
    <3>. QED BY <3>3, <3>4, <3>5
  <2>6. OfDay(d) = {FirstHour(d, digestConfig.hourLocal)} \/ faults > 0
    BY <2>1, <2>4
  <2>7. \E t \in OfDay(d) : OfDay(d) = {t} /\ \E g \in DigestHours : t = FirstHour(d, g)
    BY <2>4
  <2>. QED BY <2>5, <2>6, <2>7 DEF OfDay
<1>. QED BY <1>1, DigestStarts, DigestStep, PTL DEF DigestSpec

(***************************************************************************)
(* For any number of browsers, contents and intervals: what the browsers   *)
(* show and what the tool says of its own health.                          *)
(***************************************************************************)
\* A browser that believes it is connected has been sent a frame.
Sighted == \A b \in Browsers : browsers[b].connected => browsers[b].shown # NoFrame
\* No frame is older than the last cycle, nor older by a keepalive or more.
AgesAgree == cycleAge <= frameAge /\ frameAge < cycleAge + Keepalive /\ frameAge <= StaleAfter + 1
FrameInv ==
  /\ FramesTyped /\ lastState = emitted
  /\ Sighted /\ BrowsersShowTheBoard /\ AgesAgree

LEMMA FrameStart == FrameInit => FrameInv
<1> SUFFICES ASSUME FrameInit PROVE FrameInv
  OBVIOUS
<1>1. /\ held \in [content : Contents, failing : BOOLEAN]
      /\ cost \in Caches(Contents)
      /\ lastState = emitted /\ emitted \in States
  BY FramesAssumption DEF FrameInit, Caches, States, NoFrame, NoCache
<1>2. browsers \in [Browsers -> [link : {"closed", "open", "lost"}, shown : States,
                                connected : BOOLEAN, stale : BOOLEAN, quiet : Nat]]
  BY <1>1 DEF FrameInit
<1>3. FramesTyped
  BY <1>1, <1>2, FramesAssumption DEF FrameInit, FramesTyped
<1>4. \A b \in Browsers : browsers[b].link = "closed" /\ browsers[b].connected = FALSE
  BY DEF FrameInit
<1>5. Sighted /\ BrowsersShowTheBoard
  BY <1>4 DEF Sighted, BrowsersShowTheBoard
<1>6. AgesAgree
  BY FramesAssumption DEF FrameInit, AgesAgree
<1> QED BY <1>1, <1>3, <1>5, <1>6 DEF FrameInv

\* Ages with one cap keep their order, and their distance does not grow.
LEMMA OlderKeepsOrder ==
  ASSUME NEW a \in Nat, NEW b \in Nat, NEW cap \in Nat, NEW k \in Nat \ {0}
  PROVE  /\ Older(a, cap) \in Nat /\ Older(a, cap) <= cap
         /\ a <= b => Older(a, cap) <= Older(b, cap)
         /\ a < b + k => Older(a, cap) < Older(b, cap) + k
  BY DEF Older

\* What a frame says is something.
LEMMA FrameSaysSomething ==
  ASSUME held' \in [content : Contents, failing : BOOLEAN], cost' \in Caches(Contents)
  PROVE  BuildState \in States /\ BuildState # NoFrame
  BY FramesAssumption DEF BuildState, States, NoFrame, Caches

LEMMA CycleStep ==
  ASSUME FrameInv, NEW sweep \in BOOLEAN, NEW ok \in BOOLEAN, CycleEnds(sweep, ok)
  PROVE  FrameInv'
<1> USE DEF FrameInv
<1>1. held' \in [content : Contents, failing : BOOLEAN]
  BY DEF CycleEnds, FramesTyped
<1>2. cost' \in Caches(Contents)
  BY <1>1 DEF CycleEnds, FramesTyped, RefreshCostSummary, Caches
<1>3. BuildState \in States /\ BuildState # NoFrame
  BY <1>1, <1>2, FrameSaysSomething
<1>4. cycleAge' = 0
  BY DEF CycleEnds
<1>7. CASE Skips(BuildState) /\ UNCHANGED <<emitted, frameAge, browsers>>
           /\ lastState' = BuildState
  <2>1. lastState' = lastState /\ frameAge < Keepalive
    BY <1>7 DEF Skips
  <2>2. FramesTyped'
    BY <1>1, <1>2, <1>3, <1>4, <1>7 DEF FramesTyped
  <2>3. (lastState = emitted)' /\ Sighted' /\ BrowsersShowTheBoard'
    BY <1>7, <2>1 DEF Sighted, BrowsersShowTheBoard
  <2>4. AgesAgree'
    BY <1>4, <1>7, <2>1, FramesAssumption DEF AgesAgree, FramesTyped
  <2> QED BY <2>2, <2>3, <2>4
<1>8. CASE /\ lastState' = BuildState /\ emitted' = BuildState /\ frameAge' = 0
           /\ Send(BuildState)
  <2>1. \A b \in Browsers :
          browsers'[b] = IF browsers[b].link = "open" THEN OnFrame(browsers[b], BuildState) ELSE browsers[b]
    BY <1>8 DEF Send
  <2>2. ASSUME NEW b \in Browsers, browsers[b].link = "open"
        PROVE  /\ browsers'[b].link = "open" /\ browsers'[b].shown = BuildState
               /\ browsers'[b].connected = TRUE /\ browsers'[b].stale = FALSE /\ browsers'[b].quiet = 0
               /\ browsers'[b] \in [link : {"closed", "open", "lost"}, shown : States,
                                    connected : BOOLEAN, stale : BOOLEAN, quiet : Nat]
    <3>1. browsers'[b] = OnFrame(browsers[b], BuildState)
      BY <2>1, <2>2
    <3>2. browsers'[b] = [link |-> "open", shown |-> BuildState, connected |-> TRUE, stale |-> FALSE, quiet |-> 0]
      BY <2>2, <3>1 DEF OnFrame
    <3> QED BY <1>3, <3>2
  <2>3. browsers' \in [Browsers -> [link : {"closed", "open", "lost"}, shown : States,
                                    connected : BOOLEAN, stale : BOOLEAN, quiet : Nat]]
    BY <1>8, <2>1, <2>2 DEF Send, FramesTyped
  <2>4. FramesTyped'
    BY <1>1, <1>2, <1>3, <1>4, <1>8, <2>3 DEF FramesTyped
  <2>5. Sighted'
    BY <1>3, <2>1, <2>2 DEF Sighted
  <2>6. BrowsersShowTheBoard'
    <3>1. \A b \in Browsers : browsers[b].link # "open" => browsers'[b] = browsers[b]
      BY <2>1
    <3>2. \A b \in Browsers : browsers[b].link = "open" =>
            browsers'[b].shown = lastState' /\ browsers'[b].quiet = 0
      BY <1>8, <2>2
    <3> QED BY <3>1, <3>2, FramesAssumption DEF BrowsersShowTheBoard
  <2>8. AgesAgree'
    BY <1>4, <1>8, FramesAssumption DEF AgesAgree
  <2> QED BY <1>8, <2>4, <2>5, <2>6, <2>8
<1> QED BY <1>7, <1>8 DEF CycleEnds, EmitUpdate

LEMMA PassStep ==
  ASSUME FrameInv, Pass
  PROVE  FrameInv'
<1> USE DEF FrameInv
<1> DEFINE Types == [link : {"closed", "open", "lost"}, shown : States,
                     connected : BOOLEAN, stale : BOOLEAN, quiet : Nat]
<1>1. UNCHANGED <<held, budget, lastState, emitted>>
  BY DEF Pass
<1>2. StaleAfter + 1 \in Nat /\ SummaryInterval \in Nat /\ Keepalive \in Nat \ {0} /\ BrowserStale \in Nat
  BY FramesAssumption
<1>3. /\ frameAge' = Older(frameAge, StaleAfter + 1) /\ cycleAge' = Older(cycleAge, StaleAfter + 1)
      /\ cost' = [cost EXCEPT !.age = Older(cost.age, SummaryInterval)]
  BY DEF Pass
<1>4. AgesAgree'
  BY <1>2, <1>3, OlderKeepsOrder DEF AgesAgree, FramesTyped
<1>7. ASSUME NEW b \in Browsers
      PROVE  /\ browsers'[b] \in Types /\ browsers'[b].link = browsers[b].link
             /\ browsers'[b].shown = browsers[b].shown /\ browsers'[b].connected = browsers[b].connected
             /\ browsers'[b] = browsers[b] \/
                  (browsers'[b].stale \/ browsers[b].shown = NoFrame \/ browsers'[b].quiet < BrowserStale)
  <2>1. CASE browsers[b].link = "closed"
    BY <2>1 DEF Pass, FramesTyped
  <2>2. CASE browsers[b].link # "closed"
    <3>1. browsers'[b] = Watchdog(browsers[b]) /\ browsers[b] \in Types
      BY <2>2 DEF Pass, FramesTyped
    <3>2. Older(browsers[b].quiet, BrowserStale) \in Nat
      BY <1>2, <3>1, OlderKeepsOrder
    <3> DEFINE quiet == Older(browsers[b].quiet, BrowserStale)
               stale == browsers[b].stale \/ (browsers[b].shown # NoFrame /\ quiet >= BrowserStale)
               x == [browsers[b] EXCEPT !.quiet = quiet]
    <3>3. browsers'[b] = [x EXCEPT !.stale = stale]
      BY <3>1 DEF Watchdog
    <3>4. x \in Types /\ x.link = browsers[b].link /\ x.shown = browsers[b].shown
          /\ x.connected = browsers[b].connected /\ x.quiet = quiet
      BY <3>1, <3>2
    <3>5. stale \in BOOLEAN
      BY <3>1
    <3>6. stale \/ browsers[b].shown = NoFrame \/ quiet < BrowserStale
      BY <1>2, <3>2
    <3> HIDE DEF x, stale, quiet
    <3>7. /\ browsers'[b] \in Types /\ browsers'[b].link = x.link /\ browsers'[b].shown = x.shown
          /\ browsers'[b].connected = x.connected /\ browsers'[b].quiet = x.quiet
          /\ browsers'[b].stale = stale
      BY <3>3, <3>4, <3>5
    <3> QED BY <3>4, <3>6, <3>7
  <2> QED BY <2>1, <2>2
<1>8. browsers' \in [Browsers -> Types]
  BY <1>7 DEF Pass
<1>9. FramesTyped'
  BY <1>1, <1>2, <1>3, <1>8, OlderKeepsOrder DEF FramesTyped, Caches
<1>10. Sighted'
  BY <1>1, <1>7 DEF Sighted
<1>11. BrowsersShowTheBoard'
  BY <1>1, <1>7 DEF BrowsersShowTheBoard, Sighted
<1> QED BY <1>1, <1>4, <1>9, <1>10, <1>11

LEMMA LinkStep ==
  ASSUME FrameInv, NEW b \in Browsers, Connect(b) \/ Disconnect(b)
  PROVE  FrameInv'
<1> USE DEF FrameInv
<1> DEFINE Types == [link : {"closed", "open", "lost"}, shown : States,
                     connected : BOOLEAN, stale : BOOLEAN, quiet : Nat]
<1>1. UNCHANGED <<held, cost, budget, lastState, emitted, frameAge, cycleAge>>
  BY DEF Connect, Disconnect
<1>2. AgesAgree' /\ (lastState = emitted)'
  BY <1>1 DEF AgesAgree
<1>3. \A d \in Browsers : d # b => browsers'[d] = browsers[d]
  BY DEF Connect, Disconnect, FramesTyped
<1>4. browsers[b] \in Types
  BY DEF FramesTyped
<1>5. CASE Connect(b)
  <2>1. GetState \in States /\ GetState # NoFrame /\ (lastState # NoFrame => GetState = lastState)
    BY FramesAssumption DEF GetState, FramesTyped, States, Caches, NoFrame
  <2>2. browsers'[b] = OnFrame([browsers[b] EXCEPT !.link = "open"], GetState)
    BY <1>5 DEF Connect, FramesTyped
  <2>3. /\ browsers'[b] \in Types /\ browsers'[b].shown = GetState /\ browsers'[b].quiet = 0
    BY <1>4, <2>1, <2>2 DEF OnFrame
  <2>4. browsers' \in [Browsers -> Types]
    BY <1>3, <1>5, <2>3 DEF Connect, FramesTyped
  <2>5. FramesTyped'
    BY <1>1, <2>4 DEF FramesTyped
  <2>6. Sighted'
    BY <1>3, <2>1, <2>3 DEF Sighted
  <2>7. BrowsersShowTheBoard'
    BY <1>1, <1>3, <2>1, <2>3, FramesAssumption DEF BrowsersShowTheBoard
  <2> QED BY <1>2, <2>5, <2>6, <2>7
<1>6. CASE Disconnect(b)
  <2>1. /\ browsers'[b] \in Types /\ browsers'[b].link = "lost"
        /\ browsers'[b].shown = browsers[b].shown /\ browsers'[b].quiet = browsers[b].quiet
        /\ browsers'[b].stale = browsers[b].stale
        /\ browsers'[b].connected => browsers[b].connected
    BY <1>4, <1>6 DEF Disconnect, FramesTyped
  <2>2. browsers' \in [Browsers -> Types]
    BY <1>3, <1>6, <2>1 DEF Disconnect, FramesTyped
  <2>3. FramesTyped'
    BY <1>1, <2>2 DEF FramesTyped
  <2>4. Sighted'
    BY <1>3, <2>1 DEF Sighted
  <2>5. BrowsersShowTheBoard'
    BY <1>1, <1>3, <2>1 DEF BrowsersShowTheBoard
  <2> QED BY <1>2, <2>3, <2>4, <2>5
<1> QED BY <1>5, <1>6

LEMMA FrameStep ==
  ASSUME FrameInv, [FrameNext]_frameVars
  PROVE  FrameInv'
<1>1. CASE UNCHANGED frameVars
  BY <1>1 DEF frameVars, FrameInv, FramesTyped, Sighted, BrowsersShowTheBoard, AgesAgree
<1> QED BY <1>1, CycleStep, PassStep, LinkStep DEF FrameNext

\* However cycles, quiet boards, connections, silent disconnections and reconnections
\* interleave, a browser with a working connection shows the last state (emitUpdate and
\* the event stream of api.ts) and one without says so in time (useDashboard).
THEOREM BoardIsShown == FrameSpec => []BrowsersShowTheBoard
<1>1. FrameInv => BrowsersShowTheBoard
  BY DEF FrameInv
<1> QED BY <1>1, FrameStart, FrameStep, PTL DEF FrameSpec

\* The health the tool reports of itself follows its cycles within one keepalive, for
\* any intervals (buildSelfHealth, LiveSnapshotStore, emitUpdate).
THEOREM HealthIsTimely == FrameSpec => []HealthFollowsTheCycles
<1>1. FrameInv => HealthFollowsTheCycles
  BY FramesAssumption DEF FrameInv, FramesTyped, AgesAgree, HealthFollowsTheCycles, Degraded
<1> QED BY <1>1, FrameStart, FrameStep, PTL DEF FrameSpec

(***************************************************************************)
(* For any number of concurrent requests and of tokens: nobody awaits a    *)
(* dead promise, an App token is minted once, an old token never replaces  *)
(* a newer App token, and a retry is fresh.                                *)
(***************************************************************************)

Awaits(c) == calls[c].pc \in {"getting", "refreshing"}

\* Who awaits what: a fetch in progress is awaited by the caller that began it,
\* and `inflight` holds at most one fetch.
Promises ==
    /\ \A c \in Callers : Awaits(c) => \E f \in Callers : calls[c].on = {f} /\ fetches[f].pc # "none"
    /\ \A c \in Callers : ~Awaits(c) => calls[c].on = {}
    /\ \A f \in Callers : fetches[f].pc # "none" => calls[f].on = {f}
    /\ \A f \in inflight : fetches[f].pc # "none"
    /\ inflight = {} \/ \E f \in Callers : inflight = {f}

\* No token is newer than the newest, and only an answer carries one.
Past ==
    /\ cached <= issued
    /\ \A f \in Callers : fetches[f].token <= issued
    /\ \A f \in Callers : fetches[f].pc # "answered" => fetches[f].token = NoToken
    /\ \A c \in Callers : calls[c].token <= issued

\* In App mode the mint in flight is the only one, and what it was answered
\* with is the newest token, which nobody has used yet.
Mints ==
    source = "app" =>
        /\ \A f \in Callers : fetches[f].pc # "none" => inflight = {f}
        /\ cached = issued \/ cached = NoToken \/ \E f \in Callers : fetches[f].token = issued
        /\ \A f \in Callers : fetches[f].token # NoToken =>
              /\ fetches[f].token = issued
              /\ cached # issued
              /\ \A c \in Callers : calls[c].pc = "sent" => calls[c].token # issued

\* What a refreshing call awaits will be, or is already, new enough.
Floors ==
    /\ source = "gh" => \A c \in Callers : calls[c].pc = "refreshing" =>
          /\ calls[c].on = {c}
          /\ calls[c].floor <= issued
          /\ fetches[c].token # NoToken => calls[c].floor <= fetches[c].token
    /\ source = "app" => \A c \in Callers : calls[c].pc = "refreshing" =>
          /\ calls[c].floor <= issued + 1
          /\ \A f \in Callers : fetches[f].token # NoToken => calls[c].floor <= issued
    /\ RetryIsFresh

IInv == TypeOK /\ Promises /\ Past /\ Mints /\ Floors

USE MaxTokenAssumption DEF NoToken, Tokens

-----------------------------------------------------------------------------
LEMMA RecordsTyped == NoFetch \in Fetch /\ Asked \in Fetch /\ Idle \in Call
  BY DEF NoFetch, Asked, Fetch, Idle, CallAt, Call

LEMMA InitIInv == Init => IInv
  <1> SUFFICES ASSUME Init PROVE IInv
    OBVIOUS
  <1>1. TypeOK
    BY RecordsTyped DEF Init, TypeOK, Idle, CallAt
  <1>2. Promises /\ Past /\ Mints /\ Floors
    BY DEF Init, Promises, Past, Mints, Floors, RetryIsFresh, Awaits, Idle, CallAt, NoFetch
  <1> QED
    BY <1>1, <1>2 DEF IInv

\* A call that awaits the fetch in flight, or begins one: its own in any case when
\* it is a refresh of gh's.  The call it becomes is r.
LEMMA AwaitIInv ==
    ASSUME IInv, NEW c \in Callers, calls[c].pc \in {"idle", "sent"},
           NEW r \in Call, r.pc \in {"getting", "refreshing"}, r.token <= issued,
           r.pc = "getting" \/ source = "app" => AwaitFetch(c, r),
           r.pc = "refreshing" /\ source = "gh" => BeginFetch(c, r),
           r.pc = "refreshing" => /\ calls[c].pc = "sent"
                                  /\ r.floor <= issued + 1
                                  /\ source = "gh" => r.floor = issued
                                  /\ source = "app" /\ calls[c].token # issued => r.floor = issued,
           UNCHANGED <<source, issued, accepted, aging>>, cached' \in {cached, NoToken}
    PROVE IInv'
  <1> USE DEF IInv, TypeOK
  <1> DEFINE e == [r EXCEPT !.on = inflight']
  <1>1. \/ inflight' = {c} /\ fetches' = [fetches EXCEPT ![c] = Asked] /\ (source = "app" => inflight = {})
        \/ inflight # {} /\ inflight' = inflight /\ fetches' = fetches /\ (source = "gh" => r.pc = "getting")
    BY DEF AwaitFetch, BeginFetch
  <1>2. calls' = [calls EXCEPT ![c] = e]
    BY DEF AwaitFetch, BeginFetch
  <1>3. inflight' \subseteq Callers
    BY <1>1
  <1>4. /\ e \in Call /\ e.on = inflight' /\ e.pc = r.pc /\ e.token = r.token /\ e.floor = r.floor
    BY <1>3 DEF Call
  <1>a. \A d \in Callers : calls'[d] = IF d = c THEN e ELSE calls[d]
    BY <1>2
  <1> HIDE DEF e
  <1>b. Asked \in Fetch /\ Asked.pc = "asked" /\ Asked.token = NoToken
    BY DEF Asked, Fetch
  <1>5. TypeOK'
    BY <1>1, <1>2, <1>3, <1>4, <1>a, <1>b
  <1>c. calls[c].on = {} /\ fetches[c].pc = "none"
    BY DEF Promises, Awaits
  <1>6. Promises'
    <2>1. ASSUME NEW d \in Callers, Awaits(d)'
          PROVE \E f \in Callers : calls'[d].on = {f} /\ fetches'[f].pc # "none"
      <3>1. CASE d # c
        BY <1>1, <1>a, <1>b, <2>1, <3>1 DEF Promises, Awaits
      <3>2. CASE d = c
        BY <1>1, <1>4, <1>a, <1>b, <3>2 DEF Promises
      <3> QED
        BY <3>1, <3>2
    <2>2. \A d \in Callers : ~Awaits(d)' => calls'[d].on = {}
      BY <1>4, <1>a DEF Promises, Awaits
    <2>3. \A f \in Callers : fetches'[f].pc # "none" => calls'[f].on = {f}
      BY <1>1, <1>4, <1>a, <1>c DEF Promises
    <2>4. \A f \in inflight' : fetches'[f].pc # "none"
      BY <1>1, <1>b DEF Promises
    <2>5. inflight' = {} \/ \E f \in Callers : inflight' = {f}
      BY <1>1 DEF Promises
    <2> QED
      BY <2>1, <2>2, <2>3, <2>4, <2>5 DEF Promises, Awaits
  <1>7. Past'
    BY <1>1, <1>4, <1>a, <1>b DEF Past
  <1>8. Mints'
    <2> SUFFICES ASSUME source = "app" PROVE Mints'
      BY DEF Mints
    <2>1. \A f \in Callers : fetches'[f].pc # "none" => inflight' = {f}
      BY <1>1 DEF Mints
    <2>2. \A f \in Callers : fetches'[f].token = fetches[f].token
      BY <1>1, <1>b, <1>c DEF Past
    <2>3. \A d \in Callers : calls'[d].pc = "sent" => calls[d].pc = "sent" /\ calls'[d] = calls[d]
      BY <1>4, <1>a
    <2> QED
      BY <2>1, <2>2, <2>3 DEF Mints
  <1>9. Floors'
    <2>1. RetryIsFresh'
      BY <1>4, <1>a DEF Floors, RetryIsFresh
    <2>2. CASE source = "gh"
      BY <1>1, <1>4, <1>a, <1>b, <2>1, <2>2 DEF Floors, Promises
    <2>3. CASE source = "app"
      BY <1>1, <1>4, <1>a, <1>b, <2>1, <2>3 DEF Floors, Mints
    <2> QED
      BY <2>2, <2>3
  <1> QED
    BY <1>5, <1>6, <1>7, <1>8, <1>9

\* Begin: a request is sent with the remembered token, or awaits a fetch.
LEMMA BeginIInv == ASSUME IInv, NEW c \in Callers, Begin(c) PROVE IInv'
  <1> USE DEF IInv, TypeOK
  <1>1. CASE Usable
    <2> DEFINE e == CallAt("sent", cached, FALSE, 0)
    <2>0. e \in Call /\ e.pc = "sent" /\ e.on = {} /\ e.token = cached /\ e.retried = FALSE
      BY DEF CallAt, Call
    <2>1. /\ cached # NoToken
          /\ calls' = [calls EXCEPT ![c] = e]
          /\ calls[c].pc = "idle"
          /\ UNCHANGED <<source, issued, accepted, aging, cached, inflight, fetches>>
      BY <1>1 DEF Begin, Usable
    <2>a. \A d \in Callers : calls'[d] = IF d = c THEN e ELSE calls[d]
      BY <2>1
    <2> HIDE DEF e
    <2>2. TypeOK'
      BY <2>0, <2>1
    <2>3. Promises'
      <3>1. /\ Promises /\ ~Awaits(c) /\ UNCHANGED <<inflight, fetches>>
            /\ \A d \in Callers : Awaits(d)' <=> d # c /\ Awaits(d)
        BY <2>0, <2>1, <2>a DEF Awaits
      <3>2. \A d \in Callers : calls'[d].on = calls[d].on
        BY <2>0, <2>a, <3>1 DEF Promises
      <3> QED BY <3>1, <3>2 DEF Promises
    <2>4. Past'
      BY <2>0, <2>1, <2>a DEF Past
    <2>5. Mints'
      BY <2>0, <2>1, <2>a DEF Mints
    <2>6. Floors'
      BY <2>0, <2>1, <2>a DEF Floors, RetryIsFresh
    <2> QED
      BY <2>2, <2>3, <2>4, <2>5, <2>6
  <1>2. CASE ~Usable
    <2> DEFINE r == CallAt("getting", NoToken, FALSE, 0)
    <2>0. r \in Call /\ r.pc = "getting" /\ r.token = NoToken /\ r.retried = FALSE /\ r.floor = 0
      BY DEF CallAt, Call
    <2>1. /\ calls[c].pc = "idle" /\ AwaitFetch(c, r)
          /\ UNCHANGED <<source, issued, accepted, aging, cached>>
      BY <1>2 DEF Begin
    <2> HIDE DEF r
    <2> QED
      BY <2>0, <2>1, AwaitIInv
  <1> QED
    BY <1>1, <1>2

\* FetchSucceeds: an answer carries the newest token, minted in App mode.
LEMMA FetchSucceedsIInv == ASSUME IInv, NEW f \in Callers, FetchSucceeds(f) PROVE IInv'
  <1>0. issued' \in Tokens \union {NoToken} /\ accepted' \subseteq Tokens /\ issued <= issued'
    <2>1. \/ issued' = issued /\ accepted' = accepted
          \/ issued < MaxToken /\ issued' = issued + 1 /\ accepted' = accepted \union {issued + 1}
      BY DEF FetchSucceeds
    <2>2. issued \in 0 .. MaxToken /\ issued' \in 0 .. MaxToken /\ issued <= issued'
      BY <2>1 DEF TypeOK, IInv
    <2>3. accepted \subseteq Tokens
      BY DEF TypeOK, IInv
    <2>4. CASE accepted' = accepted
      BY <2>2, <2>3, <2>4
    <2>5. CASE issued < MaxToken /\ accepted' = accepted \union {issued + 1}
      <3>1. issued + 1 \in Tokens
        BY <2>2, <2>5
      <3> HIDE DEF Tokens
      <3>2. accepted' \subseteq Tokens
        BY <2>3, <2>5, <3>1
      <3> QED
        BY <2>2, <3>2 DEF Tokens
    <2> QED
      BY <2>1, <2>4, <2>5
  <1> USE DEF IInv, TypeOK, FetchSucceeds
  <1>1. TypeOK'
    <2>1. [pc |-> "answered", token |-> issued'] \in Fetch
      BY <1>0 DEF Fetch
    <2> QED
      BY <1>0, <2>1
  <1>2. Promises'
    BY DEF Promises, Awaits, Fetch
  <1>3. Past'
    BY DEF Past, Call, Fetch
  <1>4. Mints'
    <2> SUFFICES ASSUME source = "app" PROVE Mints'
      BY DEF Mints
    <2>1. issued' = issued + 1 /\ inflight = {f} /\ inflight' = inflight
      BY DEF Mints
    <2>2. \A g \in Callers : g # f => fetches'[g].pc = "none" /\ fetches'[g].token = NoToken
      BY <2>1 DEF Mints, Past, Fetch
    <2>3. fetches'[f].token = issued' /\ fetches'[f].pc # "none"
      BY DEF Fetch
    <2>4. cached' # issued' /\ \A c \in Callers : calls'[c].token # issued'
      BY <2>1 DEF Past, Call
    <2> QED
      BY <2>1, <2>2, <2>3, <2>4 DEF Mints
  <1>5. Floors'
    BY DEF Floors, RetryIsFresh, Promises, Past, Mints, Call, Fetch
  <1> QED
    BY <1>1, <1>2, <1>3, <1>4, <1>5

\* FetchFails: an answer without a token.
LEMMA FetchFailsIInv == ASSUME IInv, NEW f \in Callers, FetchFails(f) PROVE IInv'
  <1> USE DEF IInv, TypeOK, FetchFails
  <1>1. TypeOK'
    BY DEF Fetch
  <1>2. Promises'
    BY DEF Promises, Awaits, Fetch
  <1>3. Past' /\ Mints'
    BY DEF Past, Mints, Call, Fetch
  <1>4. Floors'
    BY DEF Floors, RetryIsFresh, Call, Fetch
  <1> QED
    BY <1>1, <1>2, <1>3, <1>4

\* FetchSettles: `inflight` is cleared and everyone who awaited f goes on.
LEMMA FetchSettlesIInv == ASSUME IInv, NEW f \in Callers, FetchSettles(f) PROVE IInv'
  <1> USE DEF IInv, TypeOK
  <1> DEFINE t == fetches[f].token
  <1>1. /\ fetches' = [fetches EXCEPT ![f] = NoFetch]
        /\ inflight' = {}
        /\ cached' = IF t = NoToken THEN cached ELSE t
        /\ fetches[f].pc = "answered"
        /\ UNCHANGED <<source, issued, accepted, aging>>
    BY DEF FetchSettles
  <1>2. \A c \in Callers : calls'[c] = IF calls[c].on = {f} THEN Resumed(calls[c], t) ELSE calls[c]
    BY DEF FetchSettles
  <1>3. t \in Tokens \union {NoToken} /\ t <= issued /\ NoFetch \in Fetch
        /\ NoFetch.pc = "none" /\ NoFetch.token = NoToken
    BY RecordsTyped DEF Fetch, Past, NoFetch
  <1>4. ASSUME NEW c \in Callers, calls[c].on = {f}
        PROVE /\ calls'[c] \in Call
              /\ calls'[c].pc \in {"idle", "sent"}
              /\ calls'[c].on = {}
              /\ calls'[c].token \in {t, NoToken}
              /\ calls'[c].pc = "sent" => calls'[c].token = t /\ t # NoToken
              /\ calls'[c].pc = "sent" /\ calls'[c].retried =>
                    calls[c].pc = "refreshing" /\ calls'[c].floor = calls[c].floor
    <2>1. CASE t = NoToken
      BY <1>2, <1>4, <2>1, RecordsTyped DEF Resumed, Idle, CallAt
    <2>2. CASE t # NoToken
      <3>1. calls'[c] = CallAt("sent", t, calls[c].pc = "refreshing", calls[c].floor)
        BY <1>2, <1>4, <2>2 DEF Resumed
      <3>2. calls[c].floor \in 0 .. MaxToken + 1
        BY DEF Call
      <3>3. calls'[c] \in Call
        <4> DEFINE again == (calls[c].pc = "refreshing")
        <4>1. again \in BOOLEAN
          OBVIOUS
        <4>2. t \in Tokens \union {NoToken} /\ calls'[c] = CallAt("sent", t, again, calls[c].floor)
          BY <1>3, <3>1
        <4> HIDE DEF again, t
        <4> QED
          BY <3>2, <4>1, <4>2 DEF CallAt, Call
      <3>4. calls'[c].pc = "sent" /\ calls'[c].on = {} /\ calls'[c].token = t
            /\ calls'[c].floor = calls[c].floor
        BY <3>1 DEF CallAt
      <3>5. calls'[c].retried => calls[c].pc = "refreshing"
        <4>1. CASE calls[c].pc # "refreshing"
          <5>1. calls'[c] = CallAt("sent", t, FALSE, calls[c].floor)
            BY <3>1, <4>1
          <5> QED
            BY <5>1 DEF CallAt
        <4> QED
          BY <4>1
      <3> QED
        BY <2>2, <3>3, <3>4, <3>5
    <2> QED
      BY <2>1, <2>2
  <1>5. \A c \in Callers : calls[c].on # {f} => calls'[c] = calls[c]
    BY <1>2
  <1>6. TypeOK'
    <2>1. calls' = [c \in Callers |-> calls'[c]]
      BY DEF FetchSettles
    <2>2. calls' \in [Callers -> Call]
      BY <1>4, <1>5, <2>1
    <2>3. \A c \in Callers : calls'[c].pc = "sent" => calls'[c].token # NoToken
      BY <1>4, <1>5
    <2> QED
      BY <1>1, <1>3, <2>2, <2>3
  <1>7. Promises'
    <2>1. ASSUME NEW c \in Callers, Awaits(c)'
          PROVE \E g \in Callers : calls'[c].on = {g} /\ fetches'[g].pc # "none"
      <3>1. calls[c].on # {f} /\ calls'[c] = calls[c] /\ Awaits(c)
        BY <1>4, <1>5, <2>1 DEF Awaits
      <3> QED
        BY <1>1, <3>1 DEF Promises
    <2>2. \A c \in Callers : ~Awaits(c)' => calls'[c].on = {}
      BY <1>4, <1>5 DEF Promises, Awaits
    <2>3. \A g \in Callers : fetches'[g].pc # "none" => calls'[g].on = {g}
      <3>1. \A g \in Callers : fetches'[g].pc # "none" => g # f /\ calls[g].on = {g}
        BY <1>1, <1>3 DEF Promises
      <3> QED
        BY <1>5, <3>1
    <2> QED
      BY <1>1, <2>1, <2>2, <2>3 DEF Promises, Awaits
  <1>8. Past'
    BY <1>1, <1>3, <1>4, <1>5 DEF Past
  <1>9. Mints'
    <2> SUFFICES ASSUME source = "app" PROVE Mints'
      BY <1>1 DEF Mints
    <2>1. \A g \in Callers : fetches'[g].pc = "none"
      <3>1. fetches[f].pc # "none" => inflight = {f}
        BY DEF Mints
      <3>2. \A g \in Callers : fetches[g].pc # "none" => g \in inflight
        BY DEF Mints
      <3> QED
        BY <1>1, <1>3, <3>1, <3>2
    <2>2. \A g \in Callers : fetches'[g].token = NoToken
      BY <1>1, <1>3, <2>1 DEF Past
    <2>3. cached' = issued \/ cached' = NoToken
      <3>1. \A g \in Callers : g # f => fetches[g].token = NoToken
        BY <1>1, <2>2
      <3> QED
        BY <1>1, <1>3, <3>1 DEF Mints, Past
    <2> QED
      BY <1>1, <2>1, <2>2, <2>3 DEF Mints
  <1>10. Floors'
    <2>1. \A c \in Callers : calls'[c].pc = "refreshing" => calls'[c] = calls[c]
      BY <1>4, <1>5
    <2>2. \A g \in Callers : fetches'[g].token # NoToken => fetches'[g] = fetches[g]
      BY <1>1, <1>3
    <2>3. ASSUME NEW c \in Callers, calls'[c].pc = "sent", calls'[c].retried
          PROVE calls'[c].token >= calls'[c].floor
      <3>1. CASE calls[c].on # {f}
        BY <1>5, <2>3, <3>1 DEF Floors, RetryIsFresh
      <3>2. CASE calls[c].on = {f} /\ source = "gh"
        <4>1. calls[c].pc = "refreshing" /\ c = f
          BY <1>4, <2>3, <3>2 DEF Floors
        <4> QED
          BY <1>4, <2>3, <3>2, <4>1 DEF Floors, Call
      <3>3. CASE calls[c].on = {f} /\ source = "app"
        BY <1>3, <1>4, <2>3, <3>3 DEF Floors, Mints, Call
      <3> QED
        BY <3>1, <3>2, <3>3
    <2> QED
      BY <1>1, <2>1, <2>2, <2>3 DEF Floors, RetryIsFresh
  <1> QED
    BY <1>6, <1>7, <1>8, <1>9, <1>10

\* Succeeds, RequestFails and the second 401: the request is over.
LEMMA OverIInv ==
    ASSUME IInv, NEW c \in Callers, calls[c].pc = "sent", calls' = [calls EXCEPT ![c] = Idle],
           UNCHANGED <<source, issued, accepted, aging, cached, inflight, fetches>>
    PROVE IInv'
  <1> USE RecordsTyped DEF IInv, TypeOK
  <1>1. TypeOK'
    BY DEF Idle, CallAt
  <1>2. Promises'
    BY DEF Promises, Awaits, Idle, CallAt, Call
  <1>3. Past' /\ Mints'
    BY DEF Past, Mints, Idle, CallAt, Call
  <1>4. Floors'
    BY DEF Floors, RetryIsFresh, Idle, CallAt, Call
  <1> QED
    BY <1>1, <1>2, <1>3, <1>4

\* The first 401: gh's refresh begins a fetch of its own, the App's joins one.
LEMMA RefreshIInv ==
    ASSUME IInv, NEW c \in Callers, calls[c].pc = "sent", Refresh(c),
           UNCHANGED <<source, issued, accepted, aging>>
    PROVE IInv'
  <1> DEFINE r == Refreshing(calls[c])
  <1>0. /\ r \in Call /\ r.pc = "refreshing" /\ r.token = calls[c].token
        /\ r.floor = IF source = "app" /\ issued = calls[c].token THEN issued + 1 ELSE issued
    <2>1. calls[c] \in Call /\ issued \in 0 .. MaxToken /\ issued + 1 \in 0 .. MaxToken + 1
      BY DEF IInv, TypeOK
    <2> QED
      BY <2>1 DEF Refreshing, CallAt, Call
  <1>1. /\ cached' = NoToken
        /\ source = "gh" => BeginFetch(c, r)
        /\ source = "app" => AwaitFetch(c, r)
    BY DEF Refresh, IInv, TypeOK
  <1>2. calls[c].token <= issued /\ issued \in 0 .. MaxToken
    BY DEF IInv, TypeOK, Past
  <1> HIDE DEF r
  <1> QED
    BY <1>0, <1>1, <1>2, AwaitIInv DEF IInv, TypeOK

\* The environment: a login, a revocation, a token that nears its expiry.
LEMMA EnvironmentIInv == ASSUME IInv, Login \/ Revoke \/ Ages PROVE IInv'
  <1> USE DEF IInv, TypeOK
  <1>1. CASE Login
    BY <1>1 DEF Login, Promises, Awaits, Past, Mints, Floors, RetryIsFresh, Call, Fetch
  <1>2. CASE Revoke \/ Ages
    <2>1. TypeOK'
      BY <1>2 DEF Revoke, Ages, Usable
    <2>2. UNCHANGED <<source, issued, cached, inflight, fetches, calls>>
      BY <1>2 DEF Revoke, Ages
    <2> QED
      BY <2>1, <2>2 DEF Promises, Awaits, Past, Mints, Floors, RetryIsFresh
  <1> QED
    BY <1>1, <1>2

LEMMA NextIInv == IInv /\ [Next]_vars => IInv'
  <1> SUFFICES ASSUME IInv, [Next]_vars PROVE IInv'
    OBVIOUS
  <1>1. ASSUME NEW c \in Callers, Begin(c) PROVE IInv'
    BY <1>1, BeginIInv
  <1>2. ASSUME NEW c \in Callers, Succeeds(c) \/ RequestFails(c) PROVE IInv'
    BY <1>2, OverIInv DEF Succeeds, RequestFails
  <1>3. ASSUME NEW c \in Callers, Rejected(c) PROVE IInv'
    BY <1>3, OverIInv, RefreshIInv DEF Rejected
  <1>4. ASSUME NEW f \in Callers, FetchSucceeds(f) \/ FetchFails(f) \/ FetchSettles(f) PROVE IInv'
    BY <1>4, FetchSucceedsIInv, FetchFailsIInv, FetchSettlesIInv
  <1>5. CASE Login \/ Revoke \/ Ages
    BY <1>5, EnvironmentIInv
  <1>6. CASE UNCHANGED vars
    BY <1>6 DEF vars, IInv, TypeOK, Promises, Awaits, Past, Mints, Floors, RetryIsFresh
  <1> QED
    BY <1>1, <1>2, <1>3, <1>4, <1>5, <1>6 DEF Next

LEMMA Inductive == Spec => []IInv
  BY InitIInv, NextIInv, PTL DEF Spec

-----------------------------------------------------------------------------
\* The token sources and the requests keep their types; in particular no request
\* is ever sent without a token.
THEOREM CredentialsTyped == Spec => []TypeOK
  BY Inductive, PTL DEF IInv

\* However token fetches fail, nobody awaits a promise that will not settle.
THEOREM NoDeadPromise == Spec => []NobodyAwaitsTheDead
  <1>1. IInv => NobodyAwaitsTheDead
    BY DEF IInv, Promises, Awaits, NobodyAwaitsTheDead
  <1> QED
    BY <1>1, Inductive, PTL

\* A request is retried with a token that is newer than, or as new as, the newest
\* at the time of its 401, for gh and App tokens alike.
THEOREM RetriesAreFresh == Spec => []RetryIsFresh
  <1>1. IInv => RetryIsFresh
    BY DEF IInv, Floors
  <1> QED
    BY <1>1, Inductive, PTL

\* App tokens are minted one at a time, and the newest one is the one remembered.
THEOREM MintsAreShared == Spec => [](OneMintAtATime /\ NewestIsCached)
  <1>1. IInv => OneMintAtATime /\ NewestIsCached
    BY DEF IInv, Mints, OneMintAtATime, NewestIsCached
  <1> QED
    BY <1>1, Inductive, PTL

(***************************************************************************)
(* For any intervals, floors, answers and number of clients: within a      *)
(* pause no chain runs more than once.                                     *)
(***************************************************************************)
\* A chain that ran since the pause was last extended is armed for its end.
ArmedBeyond ==
  \A c \in Chains : due[c] >= 0 => due[c] >= pauseUntil \/ runsInPause[c] = 0
Sparse == time < pauseUntil => \A c \in Chains : runsInPause[c] <= 1
\* The board is stale since an instant that no answer came after.
StaleSince ==
  /\ staleSince \in Nat \cup {Never} /\ lastAnswer \in Nat \cup {Never} /\ lastAnswer <= time
  /\ staleSince # Never => lastAnswer <= staleSince
PacingInv == PacingTyped /\ ArmedBeyond /\ Sparse /\ StaleSince

\* The delay reaches at least to the end of the pause, and never into the past.
LEMMA DelayCoversPause ==
  ASSUME PacingTyped, NEW c \in Chains
  PROVE  /\ time + NextDelay(c) \in Nat
         /\ time + NextDelay(c) >= pauseUntil
<1>1. BaseDelay(c) \in Nat
  BY PacingAssumption DEF PacingTyped, BaseDelay, EffectiveHot
<1>2. time \in Nat /\ pauseUntil \in Nat
  BY DEF PacingTyped
<1> QED BY <1>1, <1>2 DEF NextDelay, Later

LEMMA PacingStart == PacingInit => PacingInv
  BY PacingAssumption DEF PacingInit, PacingInv, PacingTyped, ArmedBeyond, Sparse, StaleSince, Off, Busy, Never

LEMMA PacingStep ==
  ASSUME PacingInv, [PacingNext]_pacingVars
  PROVE  PacingInv'
<1> USE DEF PacingInv
<1>1. CASE PaceTicks
  BY <1>1 DEF PaceTicks, PacingTyped, ArmedBeyond, Sparse, StaleSince, Never
<1>2. CASE PaceStarts
  <2>1. \A c \in Chains : due'[c] = time + NextDelay(c)'
    BY <1>2 DEF PaceStarts
  <2>2. PICK p \in Paces : pace' = p
    BY <1>2 DEF PaceStarts
  <2>3. ASSUME NEW c \in Chains
        PROVE  time + NextDelay(c)' \in Nat /\ time + NextDelay(c)' >= pauseUntil
    <3>1. BaseDelay(c)' \in Nat
      BY <2>2, PacingAssumption DEF BaseDelay, EffectiveHot
    <3>2. time' = time /\ pauseUntil' = pauseUntil /\ time \in Nat /\ pauseUntil \in Nat
      BY <1>2 DEF PaceStarts, PacingTyped
    <3> QED BY <3>1, <3>2 DEF NextDelay, Later
  <2>4. due' \in [Chains -> Nat \cup {Off, Busy}]
    BY <1>2, <2>3 DEF PaceStarts
  <2>5. UNCHANGED <<time, pauseUntil, staleSince, runsInPause, lastAnswer>>
    BY <1>2 DEF PaceStarts
  <2>6. PacingTyped'
    BY <2>2, <2>4, <2>5 DEF PacingTyped
  <2>7. ArmedBeyond' /\ Sparse' /\ StaleSince'
    BY <2>1, <2>3, <2>5 DEF ArmedBeyond, Sparse, StaleSince
  <2> QED BY <2>6, <2>7
<1>3. CASE PaceStops
  BY <1>3 DEF PaceStops, PacingTyped, ArmedBeyond, Sparse, StaleSince, Off, Busy
<1>4. CASE PaceRestarts
  BY <1>4 DEF PaceRestarts, PacingTyped, ArmedBeyond, Sparse, StaleSince, Off, Busy, Never
<1>5. ASSUME NEW c \in Chains, ChainRuns(c)
      PROVE  PacingInv'
  <2>1. UNCHANGED <<time, pace, pauseUntil, staleSince, lastAnswer>>
    BY <1>5 DEF ChainRuns
  <2>2. \A d \in Chains : due'[d] = IF d = c THEN Busy ELSE due[d]
    BY <1>5 DEF ChainRuns, PacingTyped
  <2>3. \A d \in Chains : runsInPause'[d] =
          IF d = c THEN IF runsInPause[c] = 0 THEN 1 ELSE 2 ELSE runsInPause[d]
    BY <1>5 DEF ChainRuns, PacingTyped
  <2>4. time < pauseUntil => runsInPause[c] = 0
    BY <1>5 DEF ChainRuns, ArmedBeyond, PacingTyped, Off, Busy
  <2>5. PacingTyped'
    BY <1>5, <2>1 DEF ChainRuns, PacingTyped
  <2>6. ArmedBeyond'
    BY <2>1, <2>2, <2>3 DEF ArmedBeyond, Busy
  <2>7. Sparse' /\ StaleSince'
    BY <2>1, <2>3, <2>4 DEF Sparse, StaleSince
  <2> QED BY <2>5, <2>6, <2>7
<1>6. ASSUME NEW c \in Chains, ChainArms(c)
      PROVE  PacingInv'
  <2>1. UNCHANGED <<time, pace, pauseUntil, staleSince, runsInPause, lastAnswer>>
    BY <1>6 DEF ChainArms
  <2>2. due' = [due EXCEPT ![c] = time + NextDelay(c)]
    BY <1>6 DEF ChainArms
  <2>3. time + NextDelay(c) \in Nat /\ time + NextDelay(c) >= pauseUntil
    BY DelayCoversPause
  <2>4. \A d \in Chains : due'[d] = IF d = c THEN time + NextDelay(c) ELSE due[d]
    BY <2>2 DEF PacingTyped
  <2>5. PacingTyped'
    BY <2>1, <2>2, <2>3 DEF PacingTyped
  <2>6. ArmedBeyond'
    BY <2>1, <2>3, <2>4 DEF ArmedBeyond
  <2>7. Sparse' /\ StaleSince'
    BY <2>1 DEF Sparse, StaleSince
  <2> QED BY <2>5, <2>6, <2>7
<1>7. ASSUME NEW k \in Clients, ClientIsMade(k)
      PROVE  PacingInv'
  BY <1>7 DEF ClientIsMade, PacingTyped, ArmedBeyond, Sparse, StaleSince
<1>8. ASSUME NEW k \in Clients, NEW r \in Responses, NEW use \in Uses, Answered(k, r, use)
      PROVE  PacingInv'
  <2>1. UNCHANGED <<time, pace, due>>
    BY <1>8 DEF Answered
  <2>2. StaleSince'
    BY <1>8 DEF Answered, StaleSince, PacingTyped, Never
  <2>3. CASE RateLimited(r)
    <3>1. Penalty(r) \in Nat
      BY <2>3, PacingAssumption DEF Penalty, RetrySeconds, DefaultRetry, Unlimited
    <3>2. NotePause(Penalty(r))
      BY <1>8, <2>3 DEF Answered
    <3>3. pauseUntil' \in Nat /\ pauseUntil' >= pauseUntil
      BY <3>1, <3>2 DEF NotePause, Later, PacingTyped
    <3>4. CASE pauseUntil' = pauseUntil
      BY <2>1, <2>2, <3>2, <3>4 DEF NotePause, PacingTyped, ArmedBeyond, Sparse
    <3>5. CASE pauseUntil' # pauseUntil
      <4>1. runsInPause' = [c \in Chains |-> 0]
        BY <3>2, <3>5 DEF NotePause
      <4> QED BY <2>1, <2>2, <3>3, <4>1 DEF PacingTyped, ArmedBeyond, Sparse
    <3> QED BY <3>4, <3>5
  <2>4. CASE ~RateLimited(r)
    <3>1. UNCHANGED <<pauseUntil, runsInPause>>
      BY <1>8, <2>4 DEF Answered
    <3> QED BY <2>1, <2>2, <3>1 DEF PacingTyped, ArmedBeyond, Sparse
  <2> QED BY <2>3, <2>4
<1>9. CASE UNCHANGED pacingVars
  BY <1>9 DEF pacingVars, PacingTyped, ArmedBeyond, Sparse, StaleSince
<1> QED BY <1>1, <1>2, <1>3, <1>4, <1>5, <1>6, <1>7, <1>8, <1>9 DEF PacingNext

\* However often and wherever GitHub refuses, whatever settings are applied meanwhile:
\* a chain runs at most once before the pause is over, and the board is stale since the
\* first failure after the last answer, never since before it (nextDelayMs, notePause,
\* guard).
THEOREM PauseHolds == PacingSpec => []PauseIsKept
<1>1. PacingInit => PacingInv
  BY PacingStart
<1>2. PacingInv /\ [PacingNext]_pacingVars => PacingInv'
  BY PacingStep
<1>3. PacingInv => PauseIsKept
  BY DEF PacingInv, Sparse, StaleSince, PauseIsKept
<1> QED BY <1>1, <1>2, <1>3, PTL DEF PacingSpec

\* The instants and counts keep their types.
THEOREM PaceTyped == PacingSpec => []PacingTyped
<1>1. PacingInit => PacingInv
  BY PacingStart
<1>2. PacingInv /\ [PacingNext]_pacingVars => PacingInv'
  BY PacingStep
<1>3. PacingInv => PacingTyped
  BY DEF PacingInv
<1> QED BY <1>1, <1>2, <1>3, PTL DEF PacingSpec
=============================================================================
