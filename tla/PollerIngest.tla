---------------------------- MODULE PollerIngest ----------------------------
(***************************************************************************)
(* What the poller's sweep, detail and queue cycles do to the rows of the  *)
(* dashboard and to the durable history (src/server/poller.ts).  GitHub    *)
(* answers a request at one moment and the poller applies the answer at a  *)
(* later one; the three cycles overlap, so an answer may be applied after  *)
(* newer ones.  When a cycle runs is the business of PollerTimers: here a  *)
(* cycle may begin whenever its latch is free.                             *)
(*                                                                         *)
(* Times are abstracted to sets: window is what merged:>=lastSweep would   *)
(* match (the merges at or after the time lastSweep holds).  Every owner   *)
(* watches one repository.  A pull request without checks reads as CI in   *)
(* progress (the repository has check history); parked pull requests and   *)
(* the UNKNOWN mergeability hold of classify are left out.                 *)
(***************************************************************************)
EXTENDS Naturals, FiniteSets

CONSTANTS Prs,            \* pull requests
          Repos,          \* repositories of the configured, covered owners
          RepoOf,         \* the repository of each pull request
          PageSize,       \* nodes per search page (first: 50)
          MaxOpenPages,   \* MAX_OPEN_PAGES
          MaxMergedPages, \* MAX_MERGED_PAGES
          Excludable,     \* repositories the operator may exclude and include
          CanRestart,     \* whether the process may crash and start again
          Beside,         \* the cycles that run beside the sweep
          Order           \* the order in which GitHub lists what a search finds

ASSUME IngestAssumption ==
  /\ RepoOf \in [Prs -> Repos]
  /\ PageSize \in Nat \ {0}
  /\ MaxOpenPages \in Nat \ {0}
  /\ MaxMergedPages \in Nat \ {0}
  /\ Excludable \subseteq Repos
  /\ CanRestart \in BOOLEAN
  /\ Beside \subseteq {"detail", "queue"}
  /\ IsFiniteSet(Prs)
  /\ Order \in [Prs -> Nat]
  /\ \A p, q \in Prs : Order[p] = Order[q] => p = q

VARIABLES
  gh,         \* GitHub: the state of each pull request
  prs,        \* prs: the snapshot of each row, "absent" when there is none
  stages,     \* stages: the stage last shown for each pull request
  entries,    \* queueEntries: the pull requests of the last merge-queue answer
  enqueuedAt, \* queueEnqueuedAt: whose enqueue time is remembered
  firstGreen, \* firstGreenAt: whose first green time is remembered
  rows,       \* merged_prs: the merges recorded in the history
  window,     \* merges the next sweep asks for (meta lastSweep)
  fresh,      \* merges since the running sweep began (sweepStartedAt)
  exclude,    \* config.exclude
  sweep, detail, queue,  \* the three cycles
  ran,        \* history variable: seen with CI running since the process began
  skipped     \* history variable: merges a sweep passed over as excluded

vars == <<gh, prs, stages, entries, enqueuedAt, firstGreen, rows, window,
          fresh, exclude, sweep, detail, queue, ran, skipped>>

github  == <<gh, window, fresh, exclude>>
caches  == <<prs, stages, entries, enqueuedAt, firstGreen>>
history == rows
ghosts  == <<ran, skipped>>

OpenStates == {"ci", "green", "queued"}
GhStates   == {"unborn", "merged", "closed"} \cup OpenStates
Snapshots  == {"absent", "listed"} \cup OpenStates
Stages     == {"none", "ci", "ready", "queue", "merged"}

Rows(S)   == {p \in Prs : S[p] # "absent"}
Open      == {p \in Prs : gh[p] \in OpenStates}
Of(r)     == {p \in Prs : RepoOf[p] = r}
Queued(S) == {p \in Prs : S[p] = "queued"}

SweepIdle  == [pc |-> "idle", todo |-> {}, complete |-> TRUE, seen |-> {},
               owner |-> "none", page |-> 1, open |-> {}, moreOpen |-> FALSE,
               merged |-> {}, moreMerged |-> FALSE, before |-> {}, missed |-> {}]
DetailIdle == [pc |-> "idle", todo |-> {}, targets |-> {},
               answer |-> [p \in Prs |-> "none"]]
QueueIdle  == [pc |-> "idle", todo |-> {}, owner |-> "none", answer |-> {}]

Init ==
  /\ gh = [p \in Prs |-> "unborn"]
  /\ prs = [p \in Prs |-> "absent"]
  /\ stages = [p \in Prs |-> "none"]
  /\ entries = {} /\ enqueuedAt = {} /\ firstGreen = {}
  /\ rows = {} /\ window = {} /\ fresh = {} /\ exclude = {}
  /\ sweep = SweepIdle /\ detail = DetailIdle /\ queue = QueueIdle
  /\ ran = {} /\ skipped = {}

(***************************************************************************)
(* GitHub, the environment.  A search is answered a page at a time.  The   *)
(* cursor of a page is a place in the list and the list is the one of the  *)
(* moment of the answer: what leaves it moves the rest one place forward,  *)
(* what enters it moves the rest back.                                     *)
(***************************************************************************)
Rank(S, p)    == Cardinality({q \in S : Order[q] < Order[p]})
PageAt(S, n)  == {p \in S : Rank(S, p) >= PageSize * (n - 1) /\ Rank(S, p) < PageSize * n}
HasNext(S, n) == Cardinality(S) > PageSize * n

\* The open pull requests of the owner at hand, while there are pages of them
\* to be asked for: those from Cursor on are still to come.
Reading  == sweep.pc = "nextOpen" \/ (sweep.pc = "open" /\ sweep.moreOpen)
OpenList == Open \cap Of(sweep.owner)
Cursor   == PageSize * (IF sweep.pc = "open" THEN sweep.page ELSE sweep.page - 1)
Ahead    == {q \in OpenList : Rank(OpenList, q) >= Cursor}

\* The one that moves forward onto a page already read when p leaves the list.
Slips(p) == IF Reading /\ p \in OpenList \ Ahead
            THEN {q \in OpenList : Rank(OpenList, q) = Cursor} ELSE {}

Moves(from) ==
  CASE from = "unborn" -> {"ci"}
    [] from = "ci"     -> {"green", "closed"}
    [] from = "green"  -> {"ci", "queued", "merged", "closed"}
    [] from = "queued" -> {"green", "merged", "closed"}
    [] OTHER           -> {}

GitHubMoves(p) ==
  \E to \in Moves(gh[p]) :
    /\ gh' = [gh EXCEPT ![p] = to]
    /\ window' = IF to = "merged" THEN window \cup {p} ELSE window
    /\ fresh' = IF to = "merged" THEN fresh \cup {p} ELSE fresh
    /\ sweep' = [sweep EXCEPT !.missed =
                   IF to \in OpenStates THEN @ ELSE @ \cup Slips(p)]
    /\ UNCHANGED <<exclude, caches, history, detail, queue, ghosts>>

(***************************************************************************)
(* emitUpdate: every row is classified again; the edge from ci to ready or *)
(* queue stamps the first green time once, and is what the notifier        *)
(* announces.  Then the recorded merges are classified in the same map.    *)
(***************************************************************************)
StageOf(snapshot) ==
  CASE snapshot = "queued" -> "queue"
    [] snapshot = "green"  -> "ready"
    [] OTHER               -> "ci"

Emit(P, S, G, R) ==
  /\ stages' = [p \in Prs |->
       IF p \in R /\ RepoOf[p] \notin exclude THEN "merged"
       ELSE IF P[p] = "absent" THEN S[p] ELSE StageOf(P[p])]
  /\ firstGreen' = G \cup {p \in Rows(P) : S[p] = "ci" /\ StageOf(P[p]) # "ci"}

(***************************************************************************)
(* The sweep cycle: one search request per owner, follow-up pages, prune.  *)
(***************************************************************************)
SweepBegins ==
  /\ sweep.pc = "idle"
  /\ sweep' = [SweepIdle EXCEPT !.pc = "ask", !.todo = Repos,
                !.before = {p \in Open : RepoOf[p] \notin exclude}]
  /\ fresh' = {}
  /\ UNCHANGED <<gh, window, exclude, caches, history, detail, queue, ghosts>>

\* GitHub answers the open and the merged search of one owner together.
SweepAnswered(r) ==
  /\ sweep.pc = "ask" /\ r \in sweep.todo
  /\ LET o == Open \cap Of(r)
         m == window \cap Of(r)
     IN sweep' = [sweep EXCEPT !.pc = "open", !.todo = @ \ {r}, !.owner = r, !.page = 1,
                    !.open = PageAt(o, 1), !.moreOpen = HasNext(o, 1),
                    !.merged = PageAt(m, 1), !.moreMerged = HasNext(m, 1)]
  /\ UNCHANGED <<github, caches, history, detail, queue, ghosts>>

SweepFailed(r) ==
  /\ sweep.pc = "ask" /\ r \in sweep.todo
  /\ sweep' = [sweep EXCEPT !.todo = @ \ {r}, !.complete = FALSE]
  /\ UNCHANGED <<github, caches, history, detail, queue, ghosts>>

\* ingestSweepNode on the open nodes at hand: a placeholder row for a new one.
IngestOpen ==
  /\ sweep.pc = "open"
  /\ LET taken == {p \in sweep.open : RepoOf[p] \notin exclude}
         next  == sweep.moreOpen /\ sweep.page < MaxOpenPages
     IN /\ prs' = [p \in Prs |-> IF p \in taken /\ prs[p] = "absent"
                                 THEN "listed" ELSE prs[p]]
        /\ sweep' = [sweep EXCEPT !.seen = @ \cup taken,
                       !.missed = IF Reading /\ ~next THEN @ \cup Ahead ELSE @,
                       !.open = {},
                       !.pc = IF next THEN "nextOpen" ELSE "merged",
                       !.page = IF next THEN @ + 1 ELSE 1]
  /\ UNCHANGED <<github, stages, entries, enqueuedAt, firstGreen, history,
                 detail, queue, ghosts>>

OpenPageAnswered ==
  /\ sweep.pc = "nextOpen"
  /\ sweep' = [sweep EXCEPT !.pc = "open", !.open = PageAt(OpenList, sweep.page),
                  !.moreOpen = HasNext(OpenList, sweep.page)]
  /\ UNCHANGED <<github, caches, history, detail, queue, ghosts>>

\* Variant (not the code): fetchOpenPages returns true after a failed page.
OpenPageFailedIgnored ==
  /\ sweep.pc = "nextOpen"
  /\ sweep' = [sweep EXCEPT !.pc = "merged", !.page = 1]
  /\ UNCHANGED <<github, caches, history, detail, queue, ghosts>>

\* fetchOpenPages returns false: the open set is incomplete.
OpenPageFailed ==
  /\ sweep.pc = "nextOpen"
  /\ sweep' = [sweep EXCEPT !.pc = "merged", !.page = 1, !.complete = FALSE]
  /\ UNCHANGED <<github, caches, history, detail, queue, ghosts>>

OwnerDone == [sweep EXCEPT !.pc = "ask", !.owner = "none", !.page = 1,
                !.merged = {}, !.moreOpen = FALSE, !.moreMerged = FALSE]

\* Variant (not the code): a merge is recorded only if it had a row.
IngestMergedKnown ==
  /\ sweep.pc = "merged"
  /\ LET taken == {p \in sweep.merged : RepoOf[p] \notin exclude}
         next  == sweep.moreMerged /\ sweep.page < MaxMergedPages
     IN /\ rows' = rows \cup (taken \cap Rows(prs))
        /\ prs' = [p \in Prs |-> IF p \in taken THEN "absent" ELSE prs[p]]
        /\ enqueuedAt' = enqueuedAt \ taken
        /\ firstGreen' = firstGreen \ taken
        /\ skipped' = skipped \cup (sweep.merged \ taken)
        /\ sweep' = IF next
             THEN [sweep EXCEPT !.pc = "nextMerged", !.page = @ + 1, !.merged = {}]
             ELSE OwnerDone
  /\ UNCHANGED <<github, stages, entries, detail, queue, ran>>

\* ingestSweepNode on the merged nodes at hand: the stamps of a merge are
\* taken (the enqueue time for its queue-wait sample too), the merge is
\* upserted into the history and its row goes.
IngestMerged ==
  /\ sweep.pc = "merged"
  /\ LET taken == {p \in sweep.merged : RepoOf[p] \notin exclude}
         next  == sweep.moreMerged /\ sweep.page < MaxMergedPages
     IN /\ rows' = rows \cup taken
        /\ prs' = [p \in Prs |-> IF p \in taken THEN "absent" ELSE prs[p]]
        /\ enqueuedAt' = enqueuedAt \ taken
        /\ firstGreen' = firstGreen \ taken
        /\ skipped' = skipped \cup (sweep.merged \ taken)
        /\ sweep' = IF next
             THEN [sweep EXCEPT !.pc = "nextMerged", !.page = @ + 1, !.merged = {}]
             ELSE OwnerDone
  /\ UNCHANGED <<github, stages, entries, detail, queue, ran>>

MergedPageAnswered ==
  /\ sweep.pc = "nextMerged"
  /\ LET m == window \cap Of(sweep.owner)
     IN sweep' = [sweep EXCEPT !.pc = "merged", !.merged = PageAt(m, sweep.page),
                    !.moreMerged = HasNext(m, sweep.page)]
  /\ UNCHANGED <<github, caches, history, detail, queue, ghosts>>

\* fetchMergedPages returns on a failed page, and the sweep stays complete.
MergedPageFailed ==
  /\ sweep.pc = "nextMerged"
  /\ sweep' = OwnerDone
  /\ UNCHANGED <<github, caches, history, detail, queue, ghosts>>

\* The end of a sweep.  Only when every owner answered in full: rows neither
\* seen open nor in a merge queue go, the caches follow them (pruneCaches), and
\* the next window starts where this sweep started.
Keep == sweep.seen \cup entries

\* Variant (not the code): enqueue times follow the queue entries.
PruneToEntries(keep) ==
  LET P == [p \in Prs |-> IF p \in keep THEN prs[p] ELSE "absent"]
  IN /\ prs' = P
     /\ entries' = {p \in entries : Queued(P) \cap Of(RepoOf[p]) # {}}
     /\ enqueuedAt' = enqueuedAt \cap entries
     /\ Emit(P, [p \in Prs |-> IF p \in keep \cup rows THEN stages[p] ELSE "none"],
             firstGreen \cap keep, rows)

PruneTo(keep) ==
  LET P == [p \in Prs |-> IF p \in keep THEN prs[p] ELSE "absent"]
  IN /\ prs' = P
     /\ entries' = {p \in entries : Queued(P) \cap Of(RepoOf[p]) # {}}
     /\ enqueuedAt' = enqueuedAt \cap keep
     /\ Emit(P, [p \in Prs |-> IF p \in keep \cup rows THEN stages[p] ELSE "none"],
             firstGreen \cap keep, rows)

SweepEnds ==
  /\ sweep.pc = "ask" /\ sweep.todo = {}
  /\ IF sweep.complete
     THEN PruneTo(Keep) /\ window' = fresh
     ELSE /\ Emit(prs, stages, firstGreen, rows)
          /\ UNCHANGED <<prs, entries, enqueuedAt, window>>
  /\ sweep' = SweepIdle /\ fresh' = {}
  /\ UNCHANGED <<gh, exclude, history, detail, queue, ghosts>>

(***************************************************************************)
(* The detail cycle: one batched request per owner of the targeted rows,   *)
(* whose nodes are applied one by one with awaits in between.              *)
(***************************************************************************)
\* isHot: rows in ci or queue, or without a stage yet.
Hot == {p \in Rows(prs) : stages[p] \in {"none", "ci", "queue"}}

DetailFor(targets) ==
  /\ detail.pc = "idle" /\ "detail" \in Beside
  /\ targets # {}
  /\ detail' = [DetailIdle EXCEPT !.pc = "ask", !.targets = targets,
                  !.todo = {RepoOf[p] : p \in targets}]
  /\ UNCHANGED <<github, caches, history, sweep, queue, ghosts>>

\* Variant (not the code): the full cycle targets the hot rows only.
DetailAllHot == DetailFor(Hot)

DetailAll == DetailFor(Rows(prs))
DetailHot == DetailFor(Hot)
DetailOne == \E p \in Rows(prs) : DetailFor({p})

DetailAnswered(r) ==
  /\ detail.pc = "ask" /\ r \in detail.todo
  /\ detail' = [detail EXCEPT !.pc = "apply", !.todo = @ \ {r},
                  !.answer = [p \in Prs |-> IF p \in detail.targets \cap Of(r)
                                            THEN gh[p] ELSE "none"]]
  /\ UNCHANGED <<github, caches, history, sweep, queue, ghosts>>

DetailFailed(r) ==
  /\ detail.pc = "ask" /\ r \in detail.todo
  /\ detail' = [detail EXCEPT !.todo = @ \ {r}]
  /\ UNCHANGED <<github, caches, history, sweep, queue, ghosts>>

\* mapPrNode: a closed pull request still maps to an open row.
SnapOf(answer) == IF answer = "closed" THEN "green" ELSE answer

Answered == {p \in Prs : detail.answer[p] # "none"}

DetailApplies(p) ==
  /\ p \in Answered
  /\ LET a == detail.answer[p]
         gone == a = "merged"
     IN /\ prs' = [prs EXCEPT ![p] = IF gone THEN "absent" ELSE SnapOf(a)]
        /\ rows' = IF gone THEN rows \cup {p} ELSE rows
        /\ enqueuedAt' = IF a = "queued" THEN enqueuedAt \cup {p}
                         ELSE enqueuedAt \ {p}
        /\ firstGreen' = IF gone THEN firstGreen \ {p} ELSE firstGreen
        /\ ran' = IF a = "ci" THEN ran \cup {p} ELSE ran
  /\ detail' = [detail EXCEPT !.answer[p] = "none",
                  !.pc = IF Answered = {p} THEN "ask" ELSE "apply"]
  /\ UNCHANGED <<github, stages, entries, sweep, queue, skipped>>

DetailEnds ==
  /\ detail.pc = "ask" /\ detail.todo = {}
  /\ detail' = DetailIdle
  /\ Emit(prs, stages, firstGreen, rows)
  /\ UNCHANGED <<github, prs, entries, enqueuedAt, history, sweep, queue, ghosts>>

(***************************************************************************)
(* The queue cycle: the merge-queue entries of every repository that has a *)
(* queued row; an entry without a row gets a placeholder one.              *)
(***************************************************************************)
QueueBegins ==
  /\ queue.pc = "idle" /\ "queue" \in Beside
  /\ Queued(prs) # {}
  /\ queue' = [QueueIdle EXCEPT !.pc = "ask", !.todo = {RepoOf[p] : p \in Queued(prs)}]
  /\ UNCHANGED <<github, caches, history, sweep, detail, ghosts>>

QueueAnswered(r) ==
  /\ queue.pc = "ask" /\ r \in queue.todo
  /\ queue' = [pc |-> "apply", todo |-> queue.todo \ {r}, owner |-> r,
               answer |-> Queued(gh) \cap Of(r)]
  /\ UNCHANGED <<github, caches, history, sweep, detail, ghosts>>

QueueFailed(r) ==
  /\ queue.pc = "ask" /\ r \in queue.todo
  /\ queue' = [queue EXCEPT !.todo = @ \ {r}]
  /\ UNCHANGED <<github, caches, history, sweep, detail, ghosts>>

QueueApplies ==
  /\ queue.pc = "apply"
  /\ entries' = (entries \ Of(queue.owner)) \cup queue.answer
  /\ prs' = [p \in Prs |-> IF p \in queue.answer /\ prs[p] = "absent"
                           THEN "queued" ELSE prs[p]]
  /\ queue' = [QueueIdle EXCEPT !.pc = "ask", !.todo = queue.todo]
  /\ UNCHANGED <<github, stages, enqueuedAt, firstGreen, history, sweep, detail, ghosts>>

QueueEnds ==
  /\ queue.pc = "ask" /\ queue.todo = {}
  /\ queue' = QueueIdle
  /\ Emit(prs, stages, firstGreen, rows)
  /\ UNCHANGED <<github, prs, entries, enqueuedAt, history, sweep, detail, ghosts>>

(***************************************************************************)
(* The operator and the process.                                           *)
(***************************************************************************)
\* Poller.reconfigure with a repository excluded, or included again: rows and
\* cycles in flight stay as they are.
ToggleExclude(r) ==
  /\ r \in Excludable
  /\ exclude' = IF r \in exclude THEN exclude \ {r} ELSE exclude \cup {r}
  /\ sweep' = [sweep EXCEPT !.before = @ \ Of(r)]
  /\ UNCHANGED <<gh, window, fresh, caches, history, detail, queue, ghosts>>

\* A crash and a new start (startPoller): everything in memory is lost, and
\* the first sweep looks back over the whole retention window.
Restart ==
  /\ CanRestart
  /\ prs' = [p \in Prs |-> "absent"] /\ stages' = [p \in Prs |-> "none"]
  /\ entries' = {} /\ enqueuedAt' = {} /\ firstGreen' = {}
  /\ sweep' = SweepIdle /\ detail' = DetailIdle /\ queue' = QueueIdle
  /\ window' = {p \in Prs : gh[p] = "merged"} /\ fresh' = {}
  /\ ran' = {}
  /\ UNCHANGED <<gh, exclude, history, skipped>>

SweepStep ==
  \/ SweepBegins \/ IngestOpen \/ OpenPageAnswered \/ OpenPageFailed
  \/ IngestMerged \/ MergedPageAnswered \/ MergedPageFailed \/ SweepEnds
  \/ \E r \in Repos : SweepAnswered(r) \/ SweepFailed(r)
DetailProceeds ==
  \/ DetailEnds
  \/ \E r \in Repos : DetailAnswered(r) \/ DetailFailed(r)
  \/ \E p \in Prs : DetailApplies(p)
DetailStep == DetailAll \/ DetailHot \/ DetailOne \/ DetailProceeds
QueueStep ==
  \/ QueueBegins \/ QueueApplies \/ QueueEnds
  \/ \E r \in Repos : QueueAnswered(r) \/ QueueFailed(r)

Next ==
  \/ \E p \in Prs : GitHubMoves(p)
  \/ SweepStep \/ DetailStep \/ QueueStep
  \/ \E r \in Repos : ToggleExclude(r)
  \/ Restart

Spec == Init /\ [][Next]_vars

\* The chains keep every cycle coming (PollerTimers) and a request is answered
\* or fails; outages and crashes end; a full detail cycle that keeps finding the latch
\* free gets through between the hot ones.
Outage == \/ Restart \/ OpenPageFailed \/ MergedPageFailed
          \/ \E r \in Repos : SweepFailed(r) \/ DetailFailed(r) \/ QueueFailed(r)

Fairness ==
  /\ WF_vars(SweepStep) /\ WF_vars(DetailProceeds) /\ WF_vars(QueueStep)
  /\ SF_vars(DetailAll)
  /\ <>[][~Outage]_vars

FairSpec == Spec /\ Fairness

-----------------------------------------------------------------------------
TypeOK ==
  /\ gh \in [Prs -> GhStates] /\ prs \in [Prs -> Snapshots]
  /\ stages \in [Prs -> Stages]
  /\ \A S \in {entries, enqueuedAt, firstGreen, rows, window, fresh, ran, skipped} :
       S \subseteq Prs
  /\ exclude \subseteq Excludable
  /\ sweep.pc \in {"idle", "ask", "open", "nextOpen", "merged", "nextMerged"}
  /\ sweep.todo \subseteq Repos /\ sweep.seen \cup sweep.missed \subseteq Prs
  /\ sweep.page \in 1..(MaxOpenPages + MaxMergedPages)
  /\ detail.pc \in {"idle", "ask", "apply"} /\ detail.todo \subseteq Repos
  /\ queue.pc \in {"idle", "ask", "apply"} /\ queue.todo \subseteq Repos

\* A merge the history does not hold is still inside the window the next sweep
\* asks for: lastSweep never moves past a merge nothing has recorded
\* (sweepImpl's "captured BEFORE the fetch: next window must overlap it").
\* Merges whose node a sweep passed over because their repository was excluded
\* (skipped) are the exception the code makes on purpose.
NoMergeLost ==
  \A p \in Prs : gh[p] = "merged" => p \in window \cup rows \cup skipped

\* The edge from ci to ready is news: some detail answer showed the pull
\* request running its checks since the process began.  (Notifier's condition
\* "ready": "a PR first seen ready" is not news.)
ReadyIsNews ==
  [][\A p \in Prs : (stages[p] = "ci" /\ stages'[p] = "ready") => p \in ran]_vars

\* No sweep takes away the row of a pull request that has been open on GitHub
\* and not excluded ever since the sweep began, whatever owner or page failed
\* and whatever the detail and queue cycles beside it did (sweepImpl: "a failed
\* owner's open PRs must not read as vanished").  Two kinds of open pull requests
\* the pages of a sweep do pass over (missed): one that moved across a page
\* boundary already read, because another left the list meanwhile, and those
\* beyond MAX_OPEN_PAGES.  Of these the ones in a merge queue keep their rows too
\* ("Live queue entries also protect their PR").
OpenRowsSurvive ==
  [][SweepEnds => \A p \in (sweep.before \cap Open) \ (sweep.missed \ entries) :
       prs[p] # "absent" => prs'[p] # "absent"]_vars

\* When the end of a sweep forgets an enqueue or first-green time of a pull
\* request that was open when the sweep began and has merged since, that merge
\* is recorded already: pruneCaches never takes the stamps a merge has yet to
\* be recorded with (takeLeadTimeStamps).
PruneKeepsStamps ==
  [][SweepEnds => \A p \in (enqueuedAt \cup firstGreen) \ (enqueuedAt' \cup firstGreen') :
       (gh[p] = "merged" /\ p \in sweep.before) => p \in rows]_vars

\* Every merge is recorded in the end, restarts and outages notwithstanding,
\* unless a sweep passed over it while its repository was excluded.
MergesAreRecorded ==
  \A p \in Prs : gh[p] = "merged" ~> p \in rows \cup skipped

\* Once a pull request stands still on GitHub its row converges to it and
\* stays: stale answers of overlapping cycles are all corrected.  (A closed one
\* has its row pruned by each sweep; a detail answer in flight may add it once
\* more each time.)
Shown(p, s) == prs[p] = (IF s = "merged" THEN "absent" ELSE s)
BoardConverges ==
  \A p \in Prs, s \in OpenStates \cup {"merged"} :
    <>[](gh[p] = s /\ RepoOf[p] \notin exclude) => <>[]Shown(p, s)
====
