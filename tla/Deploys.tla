-------------------------------- MODULE Deploys --------------------------------
(***************************************************************************)
(* The deploy cycle (deployImpl and checkAncestry in src/server/poller.ts, *)
(* src/server/deploy-watcher.ts, src/server/ancestry.ts), the merged rows  *)
(* of one repository in the database, the deploy lane                      *)
(* (src/server/estimator/deploy-status.ts) and the merged half of the      *)
(* board (viewForMergedPr).                                                *)
(*                                                                         *)
(* Pull requests merge in the order 1, 2, ...; an environment runs the     *)
(* commit of one of them and contains all before it, the Orphans excepted  *)
(* (merged into another branch, or squashed to another commit).            *)
(***************************************************************************)
EXTENDS Notifier, Sequences, Integers

CONSTANTS MaxPr, Orphans,
  MaxExpired    \* Bound: how many rows leave the retention.
ASSUME DeploysAssumption == MaxPr \in Nat /\ Orphans \subseteq 1 .. MaxPr /\ MaxExpired \in Nat

Prs == 1 .. MaxPr
Envs == <<"qa", "prod">>
EnvNames == {"qa", "prod"}

VARIABLES
  merged,       \* GitHub: how many pull requests have merged
  tip,          \* the environments: what each runs, 0 for none of them
  rows,         \* merged_prs: pr |-> [sha, qa, prod], for the recorded ones
  expired,      \* rows that are older than the retention
  sampled,      \* deploy_gaps: one entry per sample, as [pr, n]
  qaKnown,      \* does Poller.envShas hold a commit for qa? (all that is read)
  asked,        \* Poller.ancestryCheckedAt: the pairs asked within the throttle
  propagating,  \* Poller.propagating
  seenNotLive,  \* Poller.seenNotLive, its qa entries (the others are never read)
  cycle,        \* the deploy cycle: which environment, its commit, what is left
  shippedKeys,       \* Notifier.active
  shipped       \* how often each pull request was announced as live

world   == <<merged, tip>>
store   == <<rows, expired, sampled>>
memory  == <<qaKnown, asked, propagating, seenNotLive, shippedKeys>>
deployVars == <<world, store, memory, cycle, shipped>>

\* No cycle, or one about to ask the health of an environment.
Before(env) == [env |-> env, sha |-> 0, todo |-> {}, asking |-> 0]
NoCycle == Before(1)
\* The cycle after an environment is done with.
After(env) == IF env = Len(Envs) THEN NoCycle ELSE Before(env + 1)
Includes(sha, pr) == pr \notin Orphans /\ pr <= sha
Tracked == DOMAIN rows \ expired
Newest(S) == {pr \in S : \A p \in S : p <= pr}
LiveIn(pr, env) == IF env = "qa" THEN rows[pr].qa ELSE rows[pr].prod

DeployInit ==
  /\ merged = 0 /\ tip = [e \in EnvNames |-> 0]
  /\ rows = [pr \in {} |-> <<>>] /\ expired = {} /\ sampled = {}
  /\ qaKnown = FALSE /\ asked = {} /\ propagating = {} /\ seenNotLive = {}
  /\ cycle = NoCycle /\ shippedKeys = {} /\ shipped = [pr \in Prs |-> 0]

(***************************************************************************)
(* Outside: merges, roll-outs and roll-backs, time.                        *)
(***************************************************************************)
Merge == merged < MaxPr /\ merged' = merged + 1 /\ UNCHANGED <<tip, store, memory, cycle, shipped>>

RollOut(env) ==
  /\ \E sha \in 0 .. merged : sha # tip[env] /\ tip' = [tip EXCEPT ![env] = sha]
  /\ UNCHANGED <<merged, store, memory, cycle, shipped>>

\* A minute: the throttles run out; two weeks: a row leaves the retention.
TimePasses ==
  /\ \/ asked # {} /\ asked' = {} /\ UNCHANGED expired
     \/ Cardinality(expired) < MaxExpired /\ \E pr \in Tracked : expired' = expired \cup {pr} /\ UNCHANGED asked
  /\ UNCHANGED <<world, rows, sampled, qaKnown, propagating, seenNotLive, shippedKeys, cycle, shipped>>

(***************************************************************************)
(* The sweep: a merged row is written, or written again; the commit of the *)
(* merge may be unknown at first; what is known, the live stamps included, *)
(* is kept (upsertMergedPr).                                               *)
(***************************************************************************)
\* Variant (not the code): writing a row again replaces all of it.
UpsertedOver(pr, sha) == [sha |-> sha, qa |-> FALSE, prod |-> FALSE]

Upserted(pr, sha) ==
  IF pr \in DOMAIN rows THEN [rows[pr] EXCEPT !.sha = @ \/ sha]
  ELSE [sha |-> sha, qa |-> FALSE, prod |-> FALSE]

SweepRecords(pr) ==
  /\ pr <= merged
  /\ \E sha \in BOOLEAN :
       rows' = [p \in DOMAIN rows \cup {pr} |-> IF p = pr THEN Upserted(pr, sha) ELSE rows[p]]
  /\ UNCHANGED <<world, expired, sampled, memory, cycle, shipped>>

\* pruneCaches: what is kept per merged pull request goes with its row.
DeploysPrune ==
  /\ propagating' = propagating \cap Tracked
  /\ seenNotLive' = seenNotLive \cap Tracked
  /\ shippedKeys' = PrunedKeys(shippedKeys, Tracked)
  /\ UNCHANGED <<world, store, qaKnown, asked, cycle, shipped>>

(***************************************************************************)
(* The deploy cycle: environment by environment, record by record.         *)
(***************************************************************************)
\* Health is asked, null when that fails; the records are listed at once.
HealthAnswered ==
  /\ cycle.sha = 0 /\ cycle.asking = 0
  /\ \E sha \in {0, tip[Envs[cycle.env]]} :
       /\ qaKnown' = IF Envs[cycle.env] = "qa" THEN sha # 0 ELSE qaKnown
       /\ cycle' = IF sha = 0 THEN After(cycle.env)
                   ELSE [cycle EXCEPT !.sha = sha,
                                      !.todo = {pr \in Tracked : rows[pr].sha /\
                                                  ~LiveIn(pr, Envs[cycle.env])}]
  /\ UNCHANGED <<world, store, asked, propagating, seenNotLive, shippedKeys, shipped>>

\* The next record, newest merge first; a pair that was asked is passed over.
NextRecord ==
  /\ cycle.asking = 0
  /\ \E pr \in Newest(cycle.todo) :
       IF <<pr, cycle.sha>> \in asked
       THEN cycle' = [cycle EXCEPT !.todo = @ \ {pr}] /\ UNCHANGED asked
       ELSE cycle' = [cycle EXCEPT !.todo = @ \ {pr}, !.asking = pr] /\ asked' = asked \cup {<<pr, cycle.sha>>}
  /\ UNCHANGED <<world, store, qaKnown, propagating, seenNotLive, shippedKeys, shipped>>

EnvDone ==
  /\ cycle.sha # 0 /\ cycle.todo = {} /\ cycle.asking = 0
  /\ cycle' = After(cycle.env)
  /\ UNCHANGED <<world, store, memory, shipped>>

\* The compare API knows both commits, or not yet; a clone answers alike.
AncestryAnswers(pr, sha) == {"missing", IF Includes(sha, pr) THEN "yes" ELSE "no"}

MarkEnvLive(pr, env) ==
  [rows EXCEPT ![pr] = IF env = "qa" THEN [@ EXCEPT !.qa = TRUE] ELSE [@ EXCEPT !.prod = TRUE]]

\* A sample only where this process saw the pull request not live before.
GapSampled(pr, env) == env = "qa" /\ pr \in seenNotLive

AncestryAnswered ==
  /\ cycle.asking # 0
  /\ LET pr  == cycle.asking
         env == Envs[cycle.env]
         key == ShippedKey(pr)
     IN \E answer \in AncestryAnswers(pr, cycle.sha) :
          /\ propagating' = IF answer = "missing" THEN propagating \cup {pr} ELSE propagating \ {pr}
          /\ seenNotLive' = CASE env = "qa" /\ answer = "no"  -> seenNotLive \cup {pr}
                              [] env = "qa" /\ answer = "yes" -> seenNotLive \ {pr}
                              [] OTHER -> seenNotLive
          /\ rows' = IF answer = "yes" THEN MarkEnvLive(pr, env) ELSE rows
          /\ LET news == answer = "yes" /\ env = "prod" /\ key \notin shippedKeys
             IN /\ shippedKeys' = IF answer = "yes" /\ env = "prod" THEN shippedKeys \cup {key} ELSE shippedKeys
                /\ shipped' = IF news THEN [shipped EXCEPT ![pr] = @ + 1] ELSE shipped
          /\ sampled' = IF answer = "yes" /\ GapSampled(pr, env)
                        THEN sampled \cup {[pr |-> pr, n |-> Cardinality({s \in sampled : s.pr = pr})]}
                        ELSE sampled
  /\ cycle' = [cycle EXCEPT !.asking = 0]
  /\ UNCHANGED <<world, expired, qaKnown, asked>>

\* The API fails and there is no clone, or the budget is exhausted: the error
\* ends the cycle, its remaining records and environments included.
AncestryFails == cycle.asking # 0 /\ cycle' = NoCycle /\ UNCHANGED <<world, store, memory, shipped>>

\* A restart, at any point: only the database is left.
DeployRestart ==
  /\ qaKnown' = FALSE /\ asked' = {} /\ propagating' = {} /\ seenNotLive' = {}
  /\ cycle' = NoCycle /\ shippedKeys' = {} /\ UNCHANGED <<world, store, shipped>>

DeployNext ==
  \/ Merge \/ (\E e \in EnvNames : RollOut(e)) \/ TimePasses
  \/ (\E pr \in Prs : SweepRecords(pr)) \/ DeploysPrune
  \/ HealthAnswered \/ NextRecord \/ EnvDone \/ AncestryAnswered \/ AncestryFails
  \/ DeployRestart
DeploySpec == DeployInit /\ [][DeployNext]_deployVars

(***************************************************************************)
(* The deploy lane and the merged rows of the board.                       *)
(***************************************************************************)
InProd == {pr \in Tracked : rows[pr].prod}

\* Rolled up into the deploy of a newer merge.
Superseded == {pr \in Tracked \ InProd : \E later \in InProd : later > pr}
AwaitingQa   == {pr \in Tracked \ (InProd \cup Superseded) : ~rows[pr].qa}
AwaitingProd == {pr \in Tracked \ (InProd \cup Superseded) : rows[pr].qa}
ChainLimit == 8
ChainEntries == {pr \in Tracked : Cardinality({p \in Tracked : p > pr}) < ChainLimit}
InFlight == Newest(ChainEntries \ (InProd \cup Superseded))

\* classify for a merged pull request of a repository with a deploy
\* configuration; "off" is off the board.
MergedStage(pr) ==
  CASE pr \in Superseded \/ rows[pr].prod         -> "off"
    [] rows[pr].qa /\ pr \notin Superseded \cup InProd -> "awaiting-prod"
    [] ~rows[pr].qa /\ pr \notin Superseded \cup InProd /\ (~rows[pr].sha \/ pr \in propagating) ->
         "propagating"
    [] OTHER -> IF qaKnown THEN "qa-deploy" ELSE "unknown"

-------------------------------------------------------------------------------
\* However often a merge is swept again, expires, is asked about by a restarted
\* process or loses its debounce key to a prune, it is announced as shipped at
\* most once and contributes at most one sample to the deploy gap: the live
\* stamps in the database are what makes both an edge.  What was announced waits for
\* nothing, on the board and in the lane alike, whatever is pruned or expires; and the
\* lane counts as waiting exactly the merges the board shows as waiting.
OncePerMerge ==
  /\ \A pr \in Prs : shipped[pr] <= 1
  /\ \A s \in sampled : s.n = 0
  /\ \A pr \in Prs : shipped[pr] > 0 => rows[pr].prod /\ pr \notin InFlight
  /\ \A pr \in Tracked :
       /\ pr \in AwaitingProd <=> MergedStage(pr) = "awaiting-prod"
       /\ pr \in AwaitingQa   <=> MergedStage(pr) \in {"propagating", "unknown", "qa-deploy"}
===============================================================================
