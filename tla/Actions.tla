-------------------------------- MODULE Actions --------------------------------
(***************************************************************************)
(* The requests with which the board writes to GitHub outside the           *)
(* workspace: "ready and auto-merge" of a draft, and the draft pull         *)
(* requests that propose to demote or promote a check (src/server/api.ts,   *)
(* pr-actions.ts, scaffold-pr.ts, demotion-action.ts, promotion-action.ts), *)
(* each sent with the client of the owner's installation                    *)
(* (client-router.ts, auth.ts).                                             *)
(*                                                                          *)
(* A request is a sequence of calls to GitHub.  A call may fail, and its    *)
(* answer may be lost after it took effect.                                 *)
(***************************************************************************)
EXTENDS Naturals, FiniteSets

CONSTANTS
  Slots,             \* requests that may be open at once
  Proposable,        \* the checks a proposal may be about, and NoCandidate
  MaxInstallations   \* bound on how often the App is installed anew
NoCandidate == [check |-> "", spelling |-> "", event |-> "", caller |-> FALSE]
ASSUME ActionsAssumption == NoCandidate \in Proposable /\ MaxInstallations \in Nat

VARIABLES
  appMode,    \* is the App the source of tokens, or one token for all owners?
  installed,  \* GitHub's installation covering the owner; 0 when there is none
  mayWrite,   \* does the installation grant the permissions to write?
  registered, \* InstallationRegistry.byLogin: the installation of the owner, or 0
  clients,    \* ClientRouter.byInstallation
  target,     \* the pull request on GitHub
  branches,   \* the proposal branches on GitHub: each at its base or with a document
  drafts,     \* the open draft pull requests that propose a change of a check
  requests    \* the requests under way and the last answers
actionVars == <<appMode, installed, mayWrite, registered, clients, target, branches, drafts, requests>>

(***************************************************************************)
(* Proposals.  A candidate is a check, as it is spelled, and the event it   *)
(* runs on; the slug loses the spelling.                                    *)
(***************************************************************************)
Slug(c) == <<c.check, c.event>>

SuggestedDemotion(event) ==
  IF event = "pull_request" THEN "skip it on pull requests" ELSE "move it to the nightly schedule"
SuggestedPromotion(event) ==
  IF event = "merge_group" THEN "run it on pull requests too" ELSE "run it in the merge queue too"

\* `<caller> / <job>` is looked for in `_<caller>.yml`, any other name in ci.yml.
WorkflowFile(c) == IF c.caller THEN <<"_", c.check>> ELSE <<"ci.yml">>

\* Variant (not the code): the branch keeps the spelling of the check.
DemotionAsSpelled(c) ==
  [branch |-> <<"demote", c.spelling, c.event>>, path |-> <<"demotion-proposals", Slug(c)>>,
   check |-> c, change |-> SuggestedDemotion(c.event), file |-> WorkflowFile(c)]

Demotion(c) ==
  [branch |-> <<"demote", Slug(c)>>, path |-> <<"demotion-proposals", Slug(c)>>,
   check |-> c, change |-> SuggestedDemotion(c.event), file |-> WorkflowFile(c)]
Promotion(c) ==
  [branch |-> <<"promote", Slug(c)>>, path |-> <<"promotion-proposals", Slug(c)>>,
   check |-> c, change |-> SuggestedPromotion(c.event), file |-> WorkflowFile(c)]

(***************************************************************************)
(* Requests and answers.                                                    *)
(***************************************************************************)
NoAsk == [kind |-> "ready", fields |-> {"repo", "number"}, candidate |-> NoCandidate]
NoCall == [at |-> "idle", ask |-> NoAsk, client |-> 0, wasArmed |-> FALSE,
           armed |-> FALSE, clean |-> FALSE, status |-> 0, touched |-> FALSE]

Pending(s) == requests[s].at \notin {"idle", "done"}
At(s, step) == requests[s].at = step
Goes(s, step) == requests' = [requests EXCEPT ![s].at = step]
Answers(s, status) ==
  requests' = [requests EXCEPT ![s] = [@ EXCEPT !.at = "done", !.status = status, !.client = 0, !.wasArmed = FALSE]]

\* A missing permission is recognised in the calls of ready-merge only.
ReadyStatus(error) ==
  CASE error = "forbidden" -> 403
    [] error = "not found" -> 404
    [] error \in {"not OPEN", "no installation"} -> 409
    [] OTHER -> 502
DraftStatus(error) == IF error \in {"no installation", "default branch"} THEN 409 ELSE 502
Status(kind, error) == IF kind = "ready" THEN ReadyStatus(error) ELSE DraftStatus(error)
Fails(s, error) == Answers(s, Status(requests[s].ask.kind, error))

(***************************************************************************)
(* Clients.                                                                 *)
(***************************************************************************)
ActionInit ==
  /\ appMode \in BOOLEAN
  /\ installed = 1 /\ mayWrite \in BOOLEAN
  /\ registered = installed /\ clients = {}
  /\ target \in [state : {"OPEN"}, draft : BOOLEAN, armed : BOOLEAN, green : {FALSE}]
  /\ branches = [b \in {} |-> {}] /\ drafts = {}
  /\ requests = [s \in Slots |-> NoCall]

ClientFor == IF appMode THEN registered ELSE 1
Reaches(s) == ~appMode \/ requests[s].client = installed

\* Every hour the registry is read again; a failure, and an App without any
\* installation, leave the last reading in place.
RefreshRegistry ==
  /\ appMode /\ \E others \in BOOLEAN : installed # 0 \/ others
  /\ registered' = installed
  /\ UNCHANGED <<appMode, installed, mayWrite, clients, target, branches, drafts, requests>>

InstallationMoves ==
  /\ appMode
  /\ installed' \in {0} \cup {i \in 1 .. MaxInstallations : i > registered}
  /\ installed' # installed
  /\ UNCHANGED <<appMode, mayWrite, registered, clients, target, branches, drafts, requests>>

(***************************************************************************)
(* The routes: the body is validated, then the client is looked up.         *)
(***************************************************************************)
\* The fields a body must have, each of its type.
ReadyFields == {"repo", "number"}
CheckFields == {"repo", "name", "event", "currentTier", "suggestedTier", "runsInWindow", "minutesInWindow"}
DemotionFields == CheckFields \cup {"successRatePct"}
PromotionFields == CheckFields \cup {"realFailures", "failRatePct"}
Valid(ask) ==
  \/ ask.kind = "ready" /\ ReadyFields \subseteq ask.fields
  \/ ask.kind = "demote" /\ DemotionFields \subseteq ask.fields
  \/ ask.kind = "promote" /\ PromotionFields \subseteq ask.fields

RequestBodies ==
  [kind : {"ready", "demote", "promote"}, candidate : Proposable,
   fields : SUBSET (ReadyFields \cup DemotionFields \cup PromotionFields)]

First(kind) == IF kind = "ready" THEN "lookup" ELSE "head"
Ask(s, ask) ==
  /\ ~Pending(s)
  /\ requests' = [requests EXCEPT ![s] =
       IF ~Valid(ask) THEN [NoCall EXCEPT !.at = "done", !.ask = ask, !.status = 400]
       ELSE IF ClientFor = 0
         THEN [NoCall EXCEPT !.at = "done", !.ask = ask, !.status = Status(ask.kind, "no installation")]
       ELSE [NoCall EXCEPT !.at = First(ask.kind), !.ask = ask, !.client = ClientFor]]
  /\ clients' = IF Valid(ask) /\ appMode THEN clients \cup ({registered} \ {0}) ELSE clients
  /\ UNCHANGED <<appMode, installed, mayWrite, registered, target, branches, drafts>>

\* A call that fails: no answer, no access, or no permission for a mutation.
CallFails(s, step, mutation) ==
  /\ At(s, step)
  /\ \/ Fails(s, "failed")
     \/ mutation /\ ~mayWrite /\ Fails(s, "forbidden")
  /\ UNCHANGED <<appMode, installed, mayWrite, registered, clients, target, branches, drafts>>
Granted(s, step) == At(s, step) /\ Reaches(s) /\ mayWrite

(***************************************************************************)
(* Ready and auto-merge: look up, mark ready, arm.                          *)
(***************************************************************************)
\* Variant (not the code): a pull request that is armed needs nothing more.
AfterLookupIfArmed(pull) ==
  CASE pull.armed -> "done" [] ~pull.armed /\ pull.draft -> "mark" [] ~pull.armed /\ ~pull.draft -> "arm"
AfterLookup(pull) == IF pull.draft THEN "mark" ELSE IF pull.armed THEN "done" ELSE "arm"

Proceeds(s, step, armed, clean) ==
  LET r == [requests[s] EXCEPT !.at = step, !.armed = armed, !.clean = clean]
  IN requests' = [requests EXCEPT ![s] =
       IF step = "done" THEN [r EXCEPT !.status = 200, !.client = 0, !.wasArmed = FALSE] ELSE r]

LookUp(s) ==
  /\ At(s, "lookup") /\ Reaches(s)
  /\ \/ Fails(s, "not found")
     \/ target.state # "OPEN" /\ Fails(s, "not OPEN")
     \/ /\ target.state = "OPEN"
        /\ requests' = [requests EXCEPT ![s] =
             [@ EXCEPT !.at = AfterLookup(target), !.wasArmed = target.armed,
                       !.armed = target.armed, !.touched = FALSE,
                       !.status = IF AfterLookup(target) = "done" THEN 200 ELSE 0]]
  /\ UNCHANGED <<appMode, installed, mayWrite, registered, clients, target, branches, drafts>>

MarkReady(s) ==
  /\ Granted(s, "mark") /\ target.state = "OPEN"
  /\ target' = [target EXCEPT !.draft = FALSE]
  /\ \/ Proceeds(s, IF requests[s].wasArmed THEN "done" ELSE "arm", requests[s].wasArmed, FALSE)
     \/ Fails(s, "failed")  \* the answer is lost
  /\ UNCHANGED <<appMode, installed, mayWrite, registered, clients, branches, drafts>>

\* GitHub refuses to arm a pull request that has nothing to wait for.
Arm(s) ==
  /\ Granted(s, "arm") /\ target.state = "OPEN" /\ ~target.draft
  /\ \/ /\ target.green /\ target' = target
        /\ Proceeds(s, "done", FALSE, TRUE)
     \/ /\ ~target.green /\ target' = [target EXCEPT !.armed = TRUE]
        /\ Proceeds(s, "done", TRUE, FALSE) \/ Fails(s, "failed")
  /\ UNCHANGED <<appMode, installed, mayWrite, registered, clients, branches, drafts>>

(***************************************************************************)
(* A proposal: branch off the default branch, commit the document, open     *)
(* the draft.  GitHub refuses a branch that exists, a commit on another     *)
(* head than the expected one, and a second pull request of a branch.       *)
(***************************************************************************)
Proposal(s) == LET ask == requests[s].ask IN
  IF ask.kind = "demote" THEN Demotion(ask.candidate) ELSE Promotion(ask.candidate)

DefaultBranch(s) ==
  /\ At(s, "head") /\ Reaches(s)
  /\ Goes(s, "ref") \/ Fails(s, "default branch")
  /\ UNCHANGED <<appMode, installed, mayWrite, registered, clients, target, branches, drafts>>

ProposalRef(s) ==
  LET b == Proposal(s).branch IN
  /\ Granted(s, "ref") /\ b \notin DOMAIN branches
  /\ branches' = [x \in DOMAIN branches \cup {b} |-> IF x = b THEN {} ELSE branches[x]]
  /\ Goes(s, "commit") \/ Fails(s, "failed")
  /\ UNCHANGED <<appMode, installed, mayWrite, registered, clients, target, drafts>>

ProposalCommit(s) ==
  LET p == Proposal(s) IN
  /\ Granted(s, "commit") /\ branches[p.branch] = {}
  /\ branches' = [branches EXCEPT ![p.branch] = {p}]
  /\ Goes(s, "pull") \/ Fails(s, "failed")
  /\ UNCHANGED <<appMode, installed, mayWrite, registered, clients, target, drafts>>

ProposalPull(s) ==
  LET p == Proposal(s) IN
  /\ Granted(s, "pull") /\ \A d \in drafts : d.branch # p.branch
  /\ drafts' = drafts \cup {[branch |-> p.branch, docs |-> branches[p.branch]]}
  /\ Answers(s, 200) \/ Fails(s, "failed")
  /\ UNCHANGED <<appMode, installed, mayWrite, registered, clients, target, branches>>

(***************************************************************************)
(* People and GitHub.                                                       *)
(***************************************************************************)
Touched == requests' = [s \in Slots |-> [requests[s] EXCEPT !.touched = TRUE]]
PeopleEdit ==
  /\ target.state = "OPEN"
  /\ target' \in [state : {"OPEN", "CLOSED"}, draft : BOOLEAN, armed : {FALSE, target.armed}, green : {target.green}]
  /\ target' # target /\ Touched
  /\ UNCHANGED <<appMode, installed, mayWrite, registered, clients, branches, drafts>>
GithubMoves ==
  /\ target.state = "OPEN"
  /\ \/ target' = [target EXCEPT !.green = ~@]
     \/ target.armed /\ target.green /\ ~target.draft /\ target' = [target EXCEPT !.state = "MERGED"]
  /\ UNCHANGED <<appMode, installed, mayWrite, registered, clients, branches, drafts, requests>>

\* A branch is deleted only while no request works on it.
BranchDeleted ==
  \E b \in DOMAIN branches :
    /\ \A s \in Slots : Pending(s) /\ requests[s].ask.kind # "ready" => Proposal(s).branch # b
    /\ branches' = [x \in DOMAIN branches \ {b} |-> branches[x]]
    /\ drafts' = {d \in drafts : d.branch # b}
    /\ UNCHANGED <<appMode, installed, mayWrite, registered, clients, target, requests>>

ActionNext(asks) ==
  \/ RefreshRegistry \/ InstallationMoves \/ PeopleEdit \/ GithubMoves \/ BranchDeleted
  \/ \E s \in Slots :
       \/ \E ask \in asks : Ask(s, ask)
       \/ \E step \in {"lookup", "head"} : CallFails(s, step, FALSE)
       \/ \E step \in {"mark", "arm", "ref", "commit", "pull"} : CallFails(s, step, TRUE)
       \/ LookUp(s) \/ MarkReady(s) \/ Arm(s)
       \/ DefaultBranch(s) \/ ProposalRef(s) \/ ProposalCommit(s) \/ ProposalPull(s)
ActionSpec(asks) == ActionInit /\ [][ActionNext(asks)]_actionVars

(***************************************************************************)
(* Properties.                                                              *)
(***************************************************************************)
\* A ready-merge answered with success leaves a pull request that is no draft and that
\* merges by itself or at once, whatever an earlier attempt or another request did half
\* of; unless people edited it since the request looked.
ReadyMeansMerging ==
  \A s \in Slots : LET r == requests[s] IN
    r.ask.kind = "ready" /\ r.status = 200 /\ ~r.touched /\ target.state = "OPEN" =>
      ~target.draft /\ (r.armed => target.armed) /\ (r.armed \/ r.clean)

\* However requests are repeated and interleaved, every open proposal holds the one
\* document of its branch, and no two open pull requests propose the same document.
ProposalsAreWhole ==
  /\ \A d \in drafts : branches[d.branch] = d.docs /\ Cardinality(d.docs) = 1
  /\ \A d, e \in drafts : (\E x \in d.docs, y \in e.docs : x.path = y.path) => d = e
=============================================================================
