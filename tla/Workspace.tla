------------------------------ MODULE Workspace ------------------------------
(***************************************************************************)
(* The authoring loop of the workspace (src/server/core/api, core/actions, *)
(* core/store): a request derives the model at the head of the default     *)
(* branch, validates and renders an edit, checks that the head has not     *)
(* moved, and opens a draft pull request in three calls to GitHub, each of *)
(* which may fail.  Meanwhile others push and merge.                       *)
(*                                                                         *)
(* commits is the default branch (its length is the head); modelCache the  *)
(* derivations the deriver remembers, each with the files it could not     *)
(* read; request the request under way; covered says whether the first of  *)
(* config.owners is the owner of the repository: calls without an owner    *)
(* among their variables are sent with that owner's client.                *)
(***************************************************************************)
EXTENDS PipelineEdits

CONSTANT Conditional  \* the jobs that may be skipped and pass (conditionalCallerJobs)

VARIABLES commits, modelCache, request, pulls, auditRows, quarantines, policies, covered
workspaceVars == <<commits, modelCache, request, pulls, auditRows, quarantines, policies, covered>>

NoRequest == [step |-> "none"]
HeadSha      == Len(commits)
ModelOf(sha, unreadable) == ComputeProtectionMap(commits[sha], unreadable, Conditional, <<>>)

WorkspaceInit(repos) ==
  /\ commits \in {<<repo>> : repo \in repos}
  /\ modelCache = <<>> /\ request = NoRequest /\ pulls = {} /\ auditRows = {}
  /\ quarantines = {} /\ policies = {} /\ covered \in BOOLEAN

RequestEnds == request' = NoRequest /\ UNCHANGED <<modelCache, pulls, auditRows, quarantines>>
Advance(r) == request' = r /\ UNCHANGED <<pulls, auditRows, quarantines>>
Elsewhere == UNCHANGED <<commits, policies, covered>>

(***************************************************************************)
(* Deriving: pinned to a commit and remembered by commit.  Every request   *)
(* takes the head, a candidate may name a commit.  Failed fetches read as  *)
(* missing files; without the rollup there is no model, and nothing is     *)
(* remembered.                                                             *)
(***************************************************************************)
DeriveAtSha(ask, sha, unreadable) ==
  /\ request = NoRequest /\ Elsewhere
  /\ LET lost == IF sha \in DOMAIN modelCache THEN modelCache[sha] ELSE unreadable
     IN /\ Derivable(commits[sha], lost)
        /\ modelCache' = [s \in DOMAIN modelCache \cup {sha} |-> IF s = sha THEN lost ELSE modelCache[s]]
        /\ Advance([step |-> "derived", ask |-> ask, base |-> sha, lost |-> lost, moved |-> sha # HeadSha,
                    edit |-> <<>>, point |-> 0])

Derive(ask, unreadable) ==
  \E sha \in IF ask.kind = "candidate" THEN DOMAIN commits ELSE {HeadSha} : DeriveAtSha(ask, sha, unreadable)

CacheExpires ==
  /\ \E s \in DOMAIN modelCache : modelCache' = [t \in DOMAIN modelCache \ {s} |-> modelCache[t]]
  /\ UNCHANGED <<request, pulls, auditRows, quarantines>> /\ Elsewhere

(***************************************************************************)
(* Preparing: what the request would write, as [ok, files].  The file of a *)
(* tier edit or a quarantine is where its check is defined first: the      *)
(* rollup.                                                                 *)
(***************************************************************************)
Edited(edit) == [ok |-> edit.ok, files |-> [f \in {Rollup} |-> edit.file]]
Nothing == [ok |-> FALSE, files |-> <<>>]

PrepareQuarantine(model, rollup, ask, live) ==
  IF ask.check \in model.checks \ RequiredGateChecks(model, live)
  THEN Edited(RenderQuarantine(rollup, ask.job)) ELSE Nothing

PrepareTierEdit(model, rollup, ask, live) ==
  IF ask.check \in model.checks /\ ValidateTierChange(model, [check |-> ask.check, from |-> ask.from, to |-> ask.event], live)
  THEN Edited(RenderTierAssign(rollup, ask.job, ask.event)) ELSE Nothing

MergeGroupCheckNames(model) == {c \in model.checks : model.cells[<<c, "queue">>].runs}
\* Prefixes go to a file of the repository that is no workflow.
PreparePrefixes(model) == [ok |-> MergeGroupCheckNames(model) # {}, files |-> <<>>]

Projections(base, model, mutations, unreadable) ==
  {ProjectCandidate(base, unreadable, Conditional, model, place, mutations) : place \in Placements(model, mutations)}

\* The edits a request may come to; the files of the base are read once more.
EditsFor(ask, base, model, unreadable) ==
  CASE ask.kind = "quarantine" /\ Rollup \notin unreadable -> {PrepareQuarantine(model, base[Rollup], ask, {})}
    [] ask.kind = "tier" /\ Rollup \notin unreadable       -> {PrepareTierEdit(model, base[Rollup], ask, {})}
    [] ask.kind = "prefixes"                               -> {PreparePrefixes(model)}
    [] ask.kind = "candidate"                              ->
         {[ok |-> Applicable(c), files |-> c.files] : c \in Projections(base, model, ask.mutations, unreadable)}
    [] OTHER -> {Nothing}

Prepare(unreadable) ==
  /\ request.step = "derived"
  /\ \E edit \in EditsFor(request.ask, commits[request.base], ModelOf(request.base, request.lost), unreadable) :
       \/ /\ edit.ok
          /\ Advance([request EXCEPT !.step = "prepared", !.edit = edit.files]) /\ UNCHANGED modelCache
       \/ ~edit.ok /\ RequestEnds
  /\ Elsewhere

\* A dry run ends with the difference.
DryRun == request.step = "prepared" /\ RequestEnds /\ Elsewhere

(***************************************************************************)
(* Opening.                                                                *)
(***************************************************************************)
\* Variant (not the code): the base is taken to be the head.
PinnedAnyway == TRUE
Pinned == request.base = HeadSha

\* The head must still be the commit the model was derived at; prefixes skip this.
CheckPin ==
  /\ request.step = "prepared" /\ request.ask.kind # "prefixes"
  /\ \/ Pinned /\ Advance([request EXCEPT !.step = "pinned"]) /\ UNCHANGED modelCache
     \/ ~Pinned /\ RequestEnds
  /\ Elsewhere

\* Variant (not the code): the branch starts at the head of the moment.
BranchPointAtHead == HeadSha
\* The branch starts at the derived commit, and the commit expects it there.
BranchPoint == request.base

ReadyToOpen == request.step = "pinned" \/ (request.step = "prepared" /\ request.ask.kind = "prefixes")

CreateRef ==
  /\ ReadyToOpen
  /\ \/ covered /\ Advance([request EXCEPT !.step = "branched", !.point = BranchPoint]) /\ UNCHANGED modelCache
     \/ RequestEnds
  /\ Elsewhere

CreateCommit ==
  /\ request.step = "branched"
  /\ \/ Advance([request EXCEPT !.step = "committed"]) /\ UNCHANGED modelCache
     \/ RequestEnds
  /\ Elsewhere

\* A quarantine is asked for a check and edits a job: nothing compares the two.
Quarantined(ask) == IF ask.kind = "quarantine" THEN {[check |-> ask.check, job |-> ask.job]} ELSE {}

\* The pull request may exist although its answer is lost: then nothing records it.
CreatePr ==
  /\ request.step = "committed"
  /\ LET pull == [kind |-> request.ask.kind, base |-> request.point, moved |-> request.moved,
                  quarantined |-> Quarantined(request.ask), files |-> Overlay(commits[request.point], request.edit)]
     IN \/ /\ pulls' = pulls \cup {pull}
           /\ auditRows' = auditRows \cup {[action |-> pull.kind, base |-> pull.base]}
           /\ quarantines' = quarantines \cup (IF pull.kind = "quarantine" THEN {request.ask.check} ELSE {})
        \/ pulls' = pulls \cup {pull} /\ UNCHANGED <<auditRows, quarantines>>
        \/ UNCHANGED <<pulls, auditRows, quarantines>>
  /\ request' = NoRequest /\ UNCHANGED modelCache /\ Elsewhere

QuarantineExpires ==
  /\ \E c \in quarantines : quarantines' = quarantines \ {c}
  /\ UNCHANGED <<modelCache, request, pulls, auditRows>> /\ Elsewhere

PutPolicies(rules) ==
  /\ policies' = rules
  /\ UNCHANGED <<commits, modelCache, request, pulls, auditRows, quarantines, covered>>

(***************************************************************************)
(* The repository: others push, and a pull request that is up to date with *)
(* the head is merged.                                                     *)
(***************************************************************************)
HeadMoves(repo) ==
  /\ commits' = Append(commits, repo)
  /\ request' = IF request.step \in {"derived", "prepared"} THEN [request EXCEPT !.moved = TRUE] ELSE request
  /\ UNCHANGED <<modelCache, auditRows, quarantines, policies, covered>>

Push(repos) == \E repo \in repos \ {commits[HeadSha]} : HeadMoves(repo) /\ UNCHANGED pulls
MergePull(pull) == pull \in pulls /\ pull.base = HeadSha /\ HeadMoves(pull.files) /\ pulls' = pulls \ {pull}

WorkspaceNext(asks, repos, losses, rules) ==
  \/ \E ask \in asks, lost \in losses : Derive(ask, lost)
  \/ \E lost \in losses : Prepare(lost)
  \/ CacheExpires \/ DryRun \/ CheckPin \/ CreateRef \/ CreateCommit \/ CreatePr
  \/ QuarantineExpires \/ (\E r \in rules : PutPolicies(r))
  \/ Push(repos) \/ (\E pull \in pulls : MergePull(pull))

(***************************************************************************)
(* Properties.                                                             *)
(***************************************************************************)
\* A request whose head moved before the pin was checked opens nothing: no draft
\* pull request rests on a commit that was no longer the head when it was
\* validated (openDraftPr, applyCandidate; the prefixes route does not check).
StaleRequestsAreRefused == \A pull \in pulls : pull.kind # "prefixes" => ~pull.moved

Gates(repo) == RequiredStatically(ComputeProtectionMap(repo, {}, Conditional, <<>>))
\* The gates of which a job of the rollup tolerates failures.
TolerantGates(repo) ==
  {c \in Gates(repo) :
     \E a \in ComputeProtectionMap(repo, {}, Conditional, <<>>).meta[c].at :
       a.file = Rollup /\ JobOfId(repo[Rollup], a.job).tolerant}

\* The gates a quarantine may expose: those of the job it names, when that is not the
\* job of the check it was validated for.
Exposed(repo, quarantined) ==
  {c \in Gates(repo) : \E q \in quarantined :
     /\ q.check.label # c.label
     /\ \E a \in ComputeProtectionMap(repo, {}, Conditional, <<>>).meta[c].at : a.file = Rollup /\ a.job = q.job}

\* No gate goes, and no job of a gate there was tolerates its failures from now on, but for
\* the exposed ones.
KeepsGates(new, old, exposed) ==
  /\ Gates(old) \subseteq Gates(new)
  /\ TolerantGates(new) \cap Gates(old) \subseteq TolerantGates(old) \cup exposed

Merges(pull) == pull.base = HeadSha /\ commits' = Append(commits, pull.files)

\* Merging a pull request the workspace opened from a candidate, up to date with the head,
\* never takes a required gate from the repository, nor makes a job of a gate there was
\* tolerate its failures; whatever was pushed, cached or unreadable meanwhile.  Nor does a
\* quarantine, with one exception: the gates of the job it names may tolerate failures when
\* that job is not the one of its check (projectCandidate, prepareQuarantineEdit, openDraftPr).
MergesKeepGates ==
  [][\A pull \in pulls :
       pull.kind \in {"candidate", "quarantine"} /\ Merges(pull)
       => KeepsGates(pull.files, commits[HeadSha], Exposed(commits[HeadSha], pull.quarantined))]_workspaceVars

\* "Quarantining a required gate would silently drop merge protection - never allowed, even
\* via this path": merging a quarantine makes no job of a required gate tolerate its
\* failures, whatever check and job the request named (prepareQuarantineEdit).
QuarantinesSpareGates ==
  [][\A pull \in pulls :
       pull.kind = "quarantine" /\ Merges(pull)
       => KeepsGates(pull.files, commits[HeadSha], {})]_workspaceVars
=============================================================================
