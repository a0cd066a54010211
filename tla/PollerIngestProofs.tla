-------------------------- MODULE PollerIngestProofs --------------------------
(***************************************************************************)
(* For any number of pull requests, repositories and pages: what the sweep *)
(* of PollerIngest may lose, and through which exits only.                 *)
(***************************************************************************)
EXTENDS PollerIngest, FiniteSetTheorems, TLAPS

Sweeps == [pc : {"idle", "ask", "open", "nextOpen", "merged", "nextMerged"},
           todo : SUBSET Repos, complete : BOOLEAN, seen : SUBSET Prs,
           owner : Repos \cup {"none"}, page : 1 .. (MaxOpenPages + MaxMergedPages),
           open : SUBSET Prs, moreOpen : BOOLEAN, merged : SUBSET Prs,
           moreMerged : BOOLEAN, before : SUBSET Prs, missed : SUBSET Prs]
Details == [pc : {"idle", "ask", "apply"}, todo : SUBSET Repos, targets : SUBSET Prs,
            answer : [Prs -> GhStates \cup {"none"}]]
Queues == [pc : {"idle", "ask", "apply"}, todo : SUBSET Repos, owner : Repos \cup {"none"},
           answer : SUBSET Prs]

\* What GitHub has told of exists: no answer, row or window holds a pull request
\* that is not opened yet.
Known == Rows(prs) \cup window \cup fresh \cup sweep.open \cup sweep.merged \cup sweep.before
           \cup detail.targets \cup queue.answer
OnlyBorn ==
  /\ \A p \in Known : gh[p] # "unborn"
  /\ \A p \in Answered : gh[p] # "unborn" /\ detail.answer[p] # "unborn"
AtOwner == sweep.pc \in {"open", "nextOpen", "merged", "nextMerged"} => sweep.owner \in Repos \ sweep.todo

Typed == TypeOK /\ sweep \in Sweeps /\ detail \in Details /\ queue \in Queues /\ OnlyBorn /\ AtOwner

LEMMA IdleTyped == SweepIdle \in Sweeps /\ DetailIdle \in Details /\ QueueIdle \in Queues
BY IngestAssumption DEF SweepIdle, DetailIdle, QueueIdle, Sweeps, Details, Queues, GhStates

\* Pages are counted from one, and never beyond the larger cap.
LEMMA PageNumbers ==
  /\ 1 \in 1 .. (MaxOpenPages + MaxMergedPages)
  /\ \A n \in 1 .. (MaxOpenPages + MaxMergedPages) :
       n < MaxOpenPages \/ n < MaxMergedPages => n + 1 \in 1 .. (MaxOpenPages + MaxMergedPages)
BY IngestAssumption

LEMMA InitTyped == Init => Typed
<1> SUFFICES ASSUME Init PROVE Typed
  OBVIOUS
<1>1. sweep \in Sweeps /\ detail \in Details /\ queue \in Queues
  BY IdleTyped DEF Init
<1>2. TypeOK
  BY IngestAssumption DEF Init, TypeOK, GhStates, Snapshots, Stages, OpenStates, SweepIdle, DetailIdle, QueueIdle
<1>3. OnlyBorn /\ AtOwner
  BY DEF Init, OnlyBorn, Answered, Known, AtOwner, Rows, SweepIdle, DetailIdle, QueueIdle
<1> QED BY <1>1, <1>2, <1>3 DEF Typed

\* What one move of a pull request changes.
LEMMA MoveTyped ==
  ASSUME Typed, NEW p \in Prs, GitHubMoves(p)
  PROVE  Typed'
<1>1. PICK to \in Moves(gh[p]) : gh' = [gh EXCEPT ![p] = to]
  BY DEF GitHubMoves
<1>2. to \in GhStates \ {"unborn"}
  BY <1>1 DEF Typed, TypeOK, Moves, GhStates, OpenStates
<1>3. /\ gh' \in [Prs -> GhStates]
      /\ \A q \in Prs : gh'[q] = "unborn" => gh[q] = "unborn" /\ q # p
  BY <1>1, <1>2 DEF Typed, TypeOK
<1>4. window' \subseteq window \cup {p} /\ fresh' \subseteq fresh \cup {p}
  BY DEF GitHubMoves
<1>5. UNCHANGED <<exclude, prs, stages, entries, enqueuedAt, firstGreen, rows, detail, queue, ran, skipped>>
  BY DEF GitHubMoves, caches, history, ghosts
<1>a. /\ sweep' \in Sweeps
      /\ \A f \in {"pc", "todo", "seen", "owner", "page", "open", "merged", "before"} : sweep'[f] = sweep[f]
  <2>1. sweep' = [sweep EXCEPT !.missed = sweep'.missed]
    BY DEF GitHubMoves, Typed, Sweeps
  <2>2. sweep'.missed \subseteq Prs
    BY DEF GitHubMoves, Typed, Sweeps, Slips, OpenList, Open
  <2> QED BY <2>1, <2>2 DEF Typed, Sweeps
<1>6. TypeOK'
  BY <1>3, <1>4, <1>5, <1>a DEF Typed, TypeOK, Sweeps
<1>7. Known' \subseteq Known \cup {p}
  BY <1>4, <1>5, <1>a DEF Known, Rows
<1>8. Known \subseteq Prs
  BY DEF Typed, TypeOK, Known, Rows, Sweeps, Details, Queues
<1>9. OnlyBorn' /\ AtOwner'
  BY <1>3, <1>5, <1>7, <1>8, <1>a DEF Typed, OnlyBorn, Answered, AtOwner
<1> QED BY <1>5, <1>6, <1>9, <1>a DEF Typed

\* emitUpdate classifies into stages and stamps known rows.
LEMMA EmitTyped ==
  ASSUME NEW P, NEW S \in [Prs -> Stages], NEW G \in SUBSET Prs, NEW R, Emit(P, S, G, R)
  PROVE  stages' \in [Prs -> Stages] /\ firstGreen' \subseteq Prs
BY DEF Emit, StageOf, Stages, Rows


\* A step that only moves the sweep on, or fills its pages from GitHub.
LEMMA SweepAloneTyped ==
  ASSUME Typed, sweep' \in Sweeps, AtOwner',
         UNCHANGED <<gh, window, fresh, exclude, prs, stages, entries, enqueuedAt, firstGreen,
                     rows, detail, queue, ran, skipped>>,
         \A p \in sweep'.open \cup sweep'.merged \cup sweep'.before : gh[p] # "unborn"
  PROVE  Typed'
<1>1. TypeOK'
  BY DEF Typed, TypeOK, Sweeps
<1>2. OnlyBorn'
  BY DEF Typed, OnlyBorn, Answered, Known, Rows
<1> QED BY <1>1, <1>2 DEF Typed

LEMMA PageOf ==
  ASSUME NEW S, NEW n
  PROVE  PageAt(S, n) \subseteq S /\ HasNext(S, n) \in BOOLEAN
BY DEF PageAt, HasNext

LEMMA SearchBorn ==
  ASSUME Typed
  PROVE  /\ \A p \in Open : p \in Prs /\ gh[p] # "unborn"
         /\ \A p \in window : p \in Prs /\ gh[p] # "unborn"
BY DEF Typed, TypeOK, OnlyBorn, Answered, Known, Open, OpenStates

LEMMA SearchTyped ==
  ASSUME Typed,
         \/ SweepBegins \/ OpenPageAnswered \/ OpenPageFailed \/ MergedPageAnswered \/ MergedPageFailed
         \/ \E r \in Repos : SweepAnswered(r) \/ SweepFailed(r)
  PROVE  Typed'
<1> USE DEF Typed
<1>b. \A p \in sweep.open \cup sweep.merged \cup sweep.before : gh[p] # "unborn"
  BY DEF OnlyBorn, Known
<1>1. CASE SweepBegins
  <2>1. sweep' \in Sweeps
    BY <1>1, IdleTyped DEF SweepBegins, Sweeps, SweepIdle, Open
  <2>2. TypeOK'
    <3>1. /\ (sweep.pc \in {"idle", "ask", "open", "nextOpen", "merged", "nextMerged"})'
          /\ (sweep.todo \subseteq Repos /\ sweep.seen \cup sweep.missed \subseteq Prs)'
          /\ (sweep.page \in 1..(MaxOpenPages + MaxMergedPages))'
      BY <2>1 DEF Sweeps
    <3>2. /\ UNCHANGED <<gh, window, exclude, prs, stages, entries, enqueuedAt, firstGreen, rows, detail, queue, ran, skipped>>
          /\ fresh' = {}
      BY <1>1 DEF SweepBegins, caches, history, ghosts
    <3> QED BY <3>1, <3>2 DEF TypeOK
  <2>3. OnlyBorn' /\ AtOwner'
    BY <1>1 DEF SweepBegins, OnlyBorn, Answered, Known, AtOwner, SweepIdle, Open, OpenStates, Rows, caches, history, ghosts
  <2> QED BY <1>1, <2>1, <2>2, <2>3 DEF SweepBegins
<1>2. CASE OpenPageAnswered
  <2>1. sweep' = [sweep EXCEPT !.pc = "open", !.open = PageAt(OpenList, sweep.page),
                    !.moreOpen = HasNext(OpenList, sweep.page)]
    BY <1>2 DEF OpenPageAnswered
  <2>2. PageAt(OpenList, sweep.page) \subseteq Open /\ HasNext(OpenList, sweep.page) \in BOOLEAN
    BY PageOf DEF OpenList
  <2>3. sweep' \in Sweeps
    BY <2>1, <2>2, SearchBorn DEF Sweeps
  <2>4. AtOwner' /\ \A p \in sweep'.open \cup sweep'.merged \cup sweep'.before : gh[p] # "unborn"
    BY <1>2, <1>b, <2>1, <2>2, SearchBorn DEF AtOwner, OpenPageAnswered, Sweeps
  <2> QED BY <1>2, <2>3, <2>4, SweepAloneTyped DEF OpenPageAnswered, github, caches, history, ghosts
<1>3. CASE OpenPageFailed
  <2>1. sweep' \in Sweeps
    BY <1>3, PageNumbers DEF OpenPageFailed, Sweeps
  <2>2. AtOwner' /\ \A p \in sweep'.open \cup sweep'.merged \cup sweep'.before : gh[p] # "unborn"
    BY <1>3, <1>b DEF AtOwner, OpenPageFailed, Sweeps
  <2> QED BY <1>3, <2>1, <2>2, SweepAloneTyped DEF OpenPageFailed, github, caches, history, ghosts
<1>4. CASE MergedPageAnswered
  <2> DEFINE m == window \cap Of(sweep.owner)
  <2>1. sweep' = [sweep EXCEPT !.pc = "merged", !.merged = PageAt(m, sweep.page),
                    !.moreMerged = HasNext(m, sweep.page)]
    BY <1>4 DEF MergedPageAnswered
  <2>2. PageAt(m, sweep.page) \subseteq window /\ HasNext(m, sweep.page) \in BOOLEAN
    BY PageOf
  <2> HIDE DEF m
  <2>3. sweep' \in Sweeps
    BY <2>1, <2>2, SearchBorn DEF Sweeps
  <2>a. sweep.pc = "nextMerged"
    BY <1>4 DEF MergedPageAnswered
  <2>4. AtOwner' /\ \A p \in sweep'.open \cup sweep'.merged \cup sweep'.before : gh[p] # "unborn"
    BY <1>b, <2>1, <2>2, <2>a, SearchBorn DEF AtOwner, Sweeps
  <2> QED BY <1>4, <2>3, <2>4, SweepAloneTyped DEF MergedPageAnswered, github, caches, history, ghosts
<1>5. CASE MergedPageFailed
  <2>1. sweep' \in Sweeps
    BY <1>5, PageNumbers DEF MergedPageFailed, OwnerDone, Sweeps
  <2>2. AtOwner' /\ \A p \in sweep'.open \cup sweep'.merged \cup sweep'.before : gh[p] # "unborn"
    BY <1>5, <1>b DEF AtOwner, MergedPageFailed, OwnerDone, Sweeps
  <2> QED BY <1>5, <2>1, <2>2, SweepAloneTyped DEF MergedPageFailed, github, caches, history, ghosts
<1>6. ASSUME NEW r \in Repos, SweepAnswered(r) PROVE Typed'
  <2> DEFINE o == Open \cap Of(r)
             m == window \cap Of(r)
  <2>1. sweep' = [sweep EXCEPT !.pc = "open", !.todo = @ \ {r}, !.owner = r, !.page = 1,
                    !.open = PageAt(o, 1), !.moreOpen = HasNext(o, 1),
                    !.merged = PageAt(m, 1), !.moreMerged = HasNext(m, 1)]
    BY <1>6 DEF SweepAnswered
  <2>2. /\ PageAt(o, 1) \subseteq Open /\ HasNext(o, 1) \in BOOLEAN
        /\ PageAt(m, 1) \subseteq window /\ HasNext(m, 1) \in BOOLEAN
    BY PageOf
  <2> HIDE DEF o, m
  <2>3. sweep' \in Sweeps
    BY <2>1, <2>2, SearchBorn, PageNumbers DEF Sweeps
  <2>4. AtOwner' /\ \A p \in sweep'.open \cup sweep'.merged \cup sweep'.before : gh[p] # "unborn"
    BY <1>b, <2>1, <2>2, SearchBorn DEF AtOwner, Sweeps
  <2> QED BY <1>6, <2>3, <2>4, SweepAloneTyped DEF SweepAnswered, github, caches, history, ghosts
<1>7. ASSUME NEW r \in Repos, SweepFailed(r) PROVE Typed'
  <2>1. sweep' \in Sweeps
    BY <1>7 DEF SweepFailed, Sweeps
  <2>2. AtOwner' /\ \A p \in sweep'.open \cup sweep'.merged \cup sweep'.before : gh[p] # "unborn"
    BY <1>7, <1>b DEF AtOwner, SweepFailed, Sweeps
  <2> QED BY <1>7, <2>1, <2>2, SweepAloneTyped DEF SweepFailed, github, caches, history, ghosts
<1> QED BY <1>1, <1>2, <1>3, <1>4, <1>5, <1>6, <1>7

\* The steps of the sweep that write rows.
LEMMA IngestTyped ==
  ASSUME Typed, IngestOpen \/ IngestMerged \/ SweepEnds
  PROVE  Typed'
<1> USE DEF Typed
<1>b. \A p \in Known : gh[p] # "unborn"
  BY DEF OnlyBorn, Answered
<1>1. CASE IngestOpen
  <2> DEFINE taken == {p \in sweep.open : RepoOf[p] \notin exclude}
             next  == sweep.moreOpen /\ sweep.page < MaxOpenPages
  <2>a. sweep' = [sweep EXCEPT !.seen = @ \cup taken,
                    !.missed = IF Reading /\ ~next THEN @ \cup Ahead ELSE @, !.open = {},
                    !.pc = IF next THEN "nextOpen" ELSE "merged",
                    !.page = IF next THEN @ + 1 ELSE 1]
    BY <1>1 DEF IngestOpen
  <2>b. (IF next THEN sweep.page + 1 ELSE 1) \in 1 .. (MaxOpenPages + MaxMergedPages)
    BY PageNumbers DEF Sweeps
  <2>c. taken \subseteq Prs /\ Ahead \subseteq Prs /\ next \in BOOLEAN
    BY DEF Sweeps, Ahead, OpenList, Open
  <2>1. /\ sweep' \in Sweeps /\ AtOwner' /\ sweep'.open = {} /\ sweep'.merged = sweep.merged
        /\ sweep'.before = sweep.before
    <3> HIDE DEF taken, next
    <3>a. (IF Reading /\ ~next THEN sweep.missed \cup Ahead ELSE sweep.missed) \subseteq Prs
      BY <2>c DEF Sweeps
    <3>1. sweep' \in Sweeps
      <4>1. CASE next
        BY <2>a, <2>b, <2>c, <3>a, <4>1 DEF Sweeps
      <4>2. CASE ~next
        BY <2>a, <2>b, <2>c, <3>a, <4>2 DEF Sweeps
      <4> QED BY <4>1, <4>2
    <3>2. /\ sweep'.open = {} /\ sweep'.merged = sweep.merged /\ sweep'.before = sweep.before
          /\ sweep'.owner = sweep.owner /\ sweep'.todo = sweep.todo
      BY <2>a DEF Sweeps
    <3> QED BY <1>1, <3>1, <3>2 DEF IngestOpen, AtOwner
  <2>2. /\ prs' \in [Prs -> Snapshots]
        /\ Rows(prs)' \subseteq Rows(prs) \cup sweep.open
    BY <1>1 DEF IngestOpen, TypeOK, Snapshots, Rows
  <2>3. TypeOK'
    BY <1>1, <2>1, <2>2 DEF IngestOpen, TypeOK, github, history, ghosts, Sweeps
  <2>4. OnlyBorn'
    BY <1>1, <1>b, <2>1, <2>2 DEF IngestOpen, OnlyBorn, Answered, Known, github, history, ghosts
  <2> QED BY <1>1, <2>1, <2>3, <2>4 DEF IngestOpen
<1>2. CASE IngestMerged
  <2> DEFINE next == sweep.moreMerged /\ sweep.page < MaxMergedPages
  <2>a. sweep' = IF next THEN [sweep EXCEPT !.pc = "nextMerged", !.page = @ + 1, !.merged = {}]
                 ELSE OwnerDone
    BY <1>2 DEF IngestMerged
  <2>b. next => sweep.page + 1 \in 1 .. (MaxOpenPages + MaxMergedPages)
    BY PageNumbers DEF Sweeps
  <2>1. /\ sweep' \in Sweeps /\ AtOwner' /\ sweep'.open = sweep.open /\ sweep'.merged = {}
        /\ sweep'.before = sweep.before
    <3>1. CASE next
      <4>1. sweep' = [sweep EXCEPT !.pc = "nextMerged", !.page = @ + 1, !.merged = {}]
        BY <2>a, <3>1
      <4>2. sweep' \in Sweeps
        BY <2>b, <3>1, <4>1 DEF Sweeps
      <4> HIDE DEF next
      <4> QED BY <1>2, <4>1, <4>2 DEF IngestMerged, Sweeps, AtOwner
    <3>2. CASE ~next
      BY <2>a, <3>2, PageNumbers DEF OwnerDone, Sweeps, AtOwner
    <3> HIDE DEF next
    <3> QED BY <3>1, <3>2
  <2>2. /\ prs' \in [Prs -> Snapshots] /\ Rows(prs)' \subseteq Rows(prs)
        /\ rows' \subseteq Prs /\ skipped' \subseteq Prs
        /\ enqueuedAt' \subseteq Prs /\ firstGreen' \subseteq Prs
    BY <1>2 DEF IngestMerged, TypeOK, Snapshots, Rows, Sweeps
  <2>3. UNCHANGED <<gh, window, fresh, exclude, stages, entries, detail, queue, ran>>
    BY <1>2 DEF IngestMerged, github
  <2>4. TypeOK'
    BY <1>2, <2>1, <2>2, <2>3 DEF TypeOK, Sweeps
  <2>5. OnlyBorn'
    BY <1>b, <2>1, <2>2, <2>3 DEF OnlyBorn, Answered, Known
  <2> QED BY <2>1, <2>3, <2>4, <2>5
<1>3. CASE SweepEnds
  <2>1. /\ sweep' \in Sweeps /\ AtOwner' /\ sweep'.open = {} /\ sweep'.merged = {} /\ sweep'.before = {}
    BY <1>3, IdleTyped DEF SweepEnds, SweepIdle, AtOwner
  <2>2. /\ prs' \in [Prs -> Snapshots] /\ Rows(prs)' \subseteq Rows(prs)
        /\ entries' \subseteq Prs /\ enqueuedAt' \subseteq Prs /\ window' \subseteq window \cup fresh
    BY <1>3 DEF SweepEnds, PruneTo, TypeOK, Snapshots, Rows
  <2>3. stages' \in [Prs -> Stages] /\ firstGreen' \subseteq Prs
    <3>1. CASE sweep.complete
      <4> DEFINE P == [p \in Prs |-> IF p \in Keep THEN prs[p] ELSE "absent"]
                 S == [p \in Prs |-> IF p \in Keep \cup rows THEN stages[p] ELSE "none"]
      <4>1. Emit(P, S, firstGreen \cap Keep, rows)
        BY <1>3, <3>1 DEF SweepEnds, PruneTo
      <4>2. S \in [Prs -> Stages] /\ firstGreen \cap Keep \in SUBSET Prs
        BY DEF TypeOK, Stages
      <4> HIDE DEF P, S
      <4> QED BY <4>1, <4>2, EmitTyped
    <3>2. CASE ~sweep.complete
      BY <1>3, <3>2, EmitTyped DEF SweepEnds, TypeOK
    <3> QED BY <3>1, <3>2
  <2>4. TypeOK'
    BY <1>3, <2>1, <2>2, <2>3 DEF SweepEnds, TypeOK, history, ghosts, Sweeps
  <2>5. OnlyBorn'
    BY <1>3, <1>b, <2>1, <2>2 DEF SweepEnds, OnlyBorn, Answered, Known
  <2> QED BY <1>3, <2>1, <2>4, <2>5 DEF SweepEnds
<1> QED BY <1>1, <1>2, <1>3

\* A row, or the answer about it, is of a pull request GitHub knows.
LEMMA Facts ==
  ASSUME Typed
  PROVE  /\ \A p \in Rows(prs) : p \in Prs /\ gh[p] # "unborn"
         /\ Queued(gh) \subseteq Prs /\ \A p \in Queued(gh) : gh[p] # "unborn"
         /\ \A p \in Prs : gh[p] \in GhStates \cup {"none"}
BY DEF Typed, TypeOK, OnlyBorn, Answered, Known, Rows, Queued, GhStates

LEMMA DetailTargetsTyped ==
  ASSUME Typed, NEW T, T \subseteq Rows(prs), DetailFor(T)
  PROVE  Typed'
<1>1. /\ detail' = [DetailIdle EXCEPT !.pc = "ask", !.targets = T, !.todo = {RepoOf[p] : p \in T}]
      /\ UNCHANGED <<gh, window, fresh, exclude, prs, stages, entries, enqueuedAt, firstGreen,
                     rows, sweep, queue, ran, skipped>>
  BY DEF DetailFor, github, caches, history, ghosts
<1>2. T \subseteq Prs /\ {RepoOf[p] : p \in T} \subseteq Repos /\ \A p \in T : gh[p] # "unborn"
  BY Facts, IngestAssumption DEF Rows
<1>3. detail' \in Details /\ detail'.targets = T /\ \A p \in Prs : detail'.answer[p] = "none"
  BY <1>1, <1>2, IdleTyped DEF Details, DetailIdle
<1>4. TypeOK'
  BY <1>1, <1>3 DEF Typed, TypeOK, Details
<1>5. OnlyBorn' /\ AtOwner'
  BY <1>1, <1>2, <1>3 DEF Typed, OnlyBorn, Answered, Known, AtOwner, Rows
<1> QED BY <1>1, <1>3, <1>4, <1>5 DEF Typed

LEMMA DetailTyped ==
  ASSUME Typed, DetailStep
  PROVE  Typed'
<1>1. CASE DetailAll \/ DetailHot \/ DetailOne
  BY <1>1, DetailTargetsTyped DEF DetailAll, DetailHot, DetailOne, Hot
<1>2. CASE DetailEnds
  <2>1. stages' \in [Prs -> Stages] /\ firstGreen' \subseteq Prs
    BY <1>2, EmitTyped DEF DetailEnds, Typed, TypeOK
  <2>2. /\ detail' = DetailIdle
        /\ UNCHANGED <<gh, window, fresh, exclude, prs, entries, enqueuedAt, rows, sweep, queue, ran, skipped>>
    BY <1>2 DEF DetailEnds, github, history, ghosts
  <2>3. TypeOK'
    BY <2>1, <2>2, IdleTyped DEF Typed, TypeOK, Details
  <2>4. OnlyBorn' /\ AtOwner'
    BY <2>2 DEF Typed, OnlyBorn, Answered, Known, AtOwner, Rows, DetailIdle
  <2> QED BY <2>2, <2>3, <2>4, IdleTyped DEF Typed
<1>3. ASSUME NEW r \in Repos, DetailAnswered(r) \/ DetailFailed(r) PROVE Typed'
  <2>1. /\ UNCHANGED <<gh, window, fresh, exclude, prs, stages, entries, enqueuedAt, firstGreen,
                       rows, sweep, queue, ran, skipped>>
    BY <1>3 DEF DetailAnswered, DetailFailed, github, caches, history, ghosts
  <2>2. detail' \in Details /\ detail'.targets = detail.targets
    <3>1. CASE DetailFailed(r)
      BY <3>1 DEF DetailFailed, Typed, Details
    <3>2. CASE DetailAnswered(r)
      <4>1. [p \in Prs |-> IF p \in detail.targets \cap Of(r) THEN gh[p] ELSE "none"]
              \in [Prs -> GhStates \cup {"none"}]
        BY Facts
      <4> QED BY <3>2, <4>1 DEF DetailAnswered, Typed, Details
    <3> QED BY <1>3, <3>1, <3>2
  <2>3. \A p \in Answered' : gh[p] # "unborn" /\ detail'.answer[p] # "unborn"
    <3>1. CASE DetailFailed(r)
      BY <2>1, <3>1 DEF DetailFailed, Typed, Details, OnlyBorn, Answered
    <3>2. CASE DetailAnswered(r)
      <4>1. detail'.answer = [p \in Prs |-> IF p \in detail.targets \cap Of(r) THEN gh[p] ELSE "none"]
        BY <3>2 DEF DetailAnswered, Typed, Details
      <4>2. \A p \in detail.targets : gh[p] # "unborn"
        BY DEF Typed, OnlyBorn, Answered, Known
      <4> QED BY <4>1, <4>2 DEF Answered
    <3> QED BY <1>3, <3>1, <3>2
  <2>4. TypeOK'
    BY <2>1, <2>2 DEF Typed, TypeOK, Details
  <2>5. OnlyBorn' /\ AtOwner'
    BY <2>1, <2>2, <2>3 DEF Typed, OnlyBorn, Answered, Known, AtOwner, Rows
  <2> QED BY <2>1, <2>2, <2>4, <2>5 DEF Typed
<1>4. ASSUME NEW p \in Prs, DetailApplies(p) PROVE Typed'
  <2> DEFINE a == detail.answer[p]
  <2>1. a \in GhStates \ {"unborn"}
    BY <1>4 DEF DetailApplies, Answered, Typed, Details, OnlyBorn
  <2>2. /\ prs' = [prs EXCEPT ![p] = IF a = "merged" THEN "absent" ELSE SnapOf(a)]
        /\ detail' = [detail EXCEPT !.answer[p] = "none",
                        !.pc = IF Answered = {p} THEN "ask" ELSE "apply"]
        /\ UNCHANGED <<gh, window, fresh, exclude, stages, entries, sweep, queue, skipped>>
    BY <1>4 DEF DetailApplies, github
  <2>3. rows' \subseteq Prs /\ enqueuedAt' \subseteq Prs /\ firstGreen' \subseteq Prs /\ ran' \subseteq Prs
    BY <1>4 DEF DetailApplies, Typed, TypeOK
  <2>4. gh[p] # "unborn"
    BY <1>4 DEF DetailApplies, Typed, OnlyBorn
  <2>5. prs' \in [Prs -> Snapshots] /\ Rows(prs)' \subseteq Rows(prs) \cup {p}
    BY <2>1, <2>2 DEF Typed, TypeOK, SnapOf, GhStates, Snapshots, OpenStates, Rows
  <2>6. detail' \in Details /\ detail'.targets = detail.targets /\ Answered' \subseteq Answered
        /\ \A q \in Answered' : detail'.answer[q] = detail.answer[q]
    BY <2>2 DEF Typed, Details, Answered
  <2>7. TypeOK'
    <3>1. detail'.pc \in {"idle", "ask", "apply"} /\ detail'.todo \subseteq Repos
      BY <2>6 DEF Details
    <3> HIDE DEF a
    <3> QED BY <2>2, <2>3, <2>5, <3>1 DEF Typed, TypeOK
  <2>8. Known' \subseteq Known \cup {p}
    <3>1. UNCHANGED <<window, fresh, sweep, queue>> /\ detail'.targets = detail.targets
      BY <2>2, <2>6
    <3> QED BY <2>5, <3>1 DEF Known
  <2>9. OnlyBorn' /\ AtOwner'
    <3> HIDE DEF a
    <3> QED BY <2>2, <2>4, <2>6, <2>8 DEF Typed, OnlyBorn, AtOwner
  <2> QED BY <2>2, <2>6, <2>7, <2>9 DEF Typed
<1>5. DetailStep => \/ DetailAll \/ DetailHot \/ DetailOne \/ DetailEnds
                    \/ \E r \in Repos : DetailAnswered(r) \/ DetailFailed(r)
                    \/ \E p \in Prs : DetailApplies(p)
  BY DEF DetailStep, DetailProceeds
<1> QED BY <1>1, <1>2, <1>3, <1>4, <1>5

LEMMA QueueTyped ==
  ASSUME Typed, QueueStep
  PROVE  Typed'
<1>1. CASE QueueBegins
  <2>1. /\ queue' = [QueueIdle EXCEPT !.pc = "ask", !.todo = {RepoOf[p] : p \in Queued(prs)}]
        /\ UNCHANGED <<gh, window, fresh, exclude, prs, stages, entries, enqueuedAt, firstGreen,
                       rows, sweep, detail, ran, skipped>>
    BY <1>1 DEF QueueBegins, github, caches, history, ghosts
  <2>a. {RepoOf[p] : p \in Queued(prs)} \subseteq Repos
    BY IngestAssumption DEF Queued
  <2>2. queue' \in Queues /\ queue'.answer = {}
    BY <2>1, <2>a, IdleTyped DEF Queues, QueueIdle
  <2>3. TypeOK'
    BY <2>1, <2>2 DEF Typed, TypeOK, Queues
  <2>4. OnlyBorn' /\ AtOwner'
    BY <2>1, <2>2 DEF Typed, OnlyBorn, Answered, Known, AtOwner, Rows
  <2> QED BY <2>1, <2>2, <2>3, <2>4 DEF Typed
<1>2. ASSUME NEW r \in Repos, QueueAnswered(r) \/ QueueFailed(r) PROVE Typed'
  <2>1. UNCHANGED <<gh, window, fresh, exclude, prs, stages, entries, enqueuedAt, firstGreen,
                    rows, sweep, detail, ran, skipped>>
    BY <1>2 DEF QueueAnswered, QueueFailed, github, caches, history, ghosts
  <2>2. queue' \in Queues /\ queue'.answer \subseteq queue.answer \cup Queued(gh)
    <3>1. CASE QueueAnswered(r)
      BY <3>1, Facts DEF QueueAnswered, Queues, Typed
    <3>2. CASE QueueFailed(r)
      BY <3>2 DEF QueueFailed, Queues, Typed
    <3> QED BY <1>2, <3>1, <3>2
  <2>3. TypeOK'
    BY <2>1, <2>2 DEF Typed, TypeOK, Queues
  <2>4. OnlyBorn' /\ AtOwner'
    BY <2>1, <2>2, Facts DEF Typed, OnlyBorn, Answered, Known, AtOwner, Rows
  <2> QED BY <2>1, <2>2, <2>3, <2>4 DEF Typed
<1>3. CASE QueueApplies
  <2>1. /\ queue' = [QueueIdle EXCEPT !.pc = "ask", !.todo = queue.todo]
        /\ UNCHANGED <<gh, window, fresh, exclude, stages, enqueuedAt, firstGreen,
                       rows, sweep, detail, ran, skipped>>
    BY <1>3 DEF QueueApplies, github, history, ghosts
  <2>2. queue' \in Queues /\ queue'.answer = {}
    BY <2>1, IdleTyped DEF Typed, Queues, QueueIdle
  <2>3. /\ prs' \in [Prs -> Snapshots] /\ Rows(prs)' \subseteq Rows(prs) \cup queue.answer
        /\ entries' \subseteq Prs
    BY <1>3 DEF QueueApplies, Typed, TypeOK, Queues, Snapshots, OpenStates, Rows
  <2>4. TypeOK'
    BY <2>1, <2>2, <2>3 DEF Typed, TypeOK, Queues
  <2>5. OnlyBorn' /\ AtOwner'
    BY <2>1, <2>2, <2>3 DEF Typed, OnlyBorn, Answered, Known, AtOwner
  <2> QED BY <2>1, <2>2, <2>4, <2>5 DEF Typed
<1>4. CASE QueueEnds
  <2>1. stages' \in [Prs -> Stages] /\ firstGreen' \subseteq Prs
    BY <1>4, EmitTyped DEF QueueEnds, Typed, TypeOK
  <2>2. /\ queue' = QueueIdle
        /\ UNCHANGED <<gh, window, fresh, exclude, prs, entries, enqueuedAt, rows, sweep, detail, ran, skipped>>
    BY <1>4 DEF QueueEnds, github, history, ghosts
  <2>3. TypeOK'
    BY <2>1, <2>2, IdleTyped DEF Typed, TypeOK, Queues
  <2>4. OnlyBorn' /\ AtOwner'
    BY <2>2 DEF Typed, OnlyBorn, Answered, Known, AtOwner, Rows, QueueIdle
  <2> QED BY <2>2, <2>3, <2>4, IdleTyped DEF Typed
<1> QED BY <1>1, <1>2, <1>3, <1>4 DEF QueueStep

LEMMA OperatorTyped ==
  ASSUME Typed, Restart \/ \E r \in Repos : ToggleExclude(r)
  PROVE  Typed'
<1>1. CASE Restart
  <2>1. prs' = [p \in Prs |-> "absent"] /\ window' = {p \in Prs : gh[p] = "merged"}
        /\ sweep' = SweepIdle /\ detail' = DetailIdle /\ queue' = QueueIdle /\ fresh' = {}
        /\ UNCHANGED <<gh, exclude, rows, skipped>>
    BY <1>1 DEF Restart, history
  <2>2. TypeOK'
    BY <1>1, <2>1, IdleTyped DEF Restart, Typed, TypeOK, Sweeps, Details, Queues, Snapshots, Stages
  <2>3. OnlyBorn' /\ AtOwner'
    BY <2>1 DEF OnlyBorn, Answered, Known, Rows, AtOwner, SweepIdle, DetailIdle, QueueIdle
  <2> QED BY <2>1, <2>2, <2>3, IdleTyped DEF Typed
<1>2. ASSUME NEW r \in Repos, ToggleExclude(r) PROVE Typed'
  <2>1. /\ sweep' = [sweep EXCEPT !.before = @ \ Of(r)]
        /\ exclude' \subseteq Excludable
        /\ UNCHANGED <<gh, window, fresh, prs, stages, entries, enqueuedAt, firstGreen,
                       rows, detail, queue, ran, skipped>>
    BY <1>2 DEF ToggleExclude, caches, history, ghosts, Typed, TypeOK
  <2>2. sweep' \in Sweeps
    BY <2>1 DEF Typed, Sweeps
  <2>3. TypeOK'
    BY <2>1, <2>2 DEF Typed, TypeOK, Sweeps
  <2>4. OnlyBorn' /\ AtOwner'
    BY <2>1 DEF Typed, Sweeps, OnlyBorn, Answered, Known, AtOwner, Rows
  <2> QED BY <2>1, <2>2, <2>3, <2>4 DEF Typed
<1> QED BY <1>1, <1>2

LEMMA NextTyped == Typed /\ [Next]_vars => Typed'
<1> SUFFICES ASSUME Typed, [Next]_vars PROVE Typed'
  OBVIOUS
<1>1. CASE Next
  <2>1. CASE SweepStep
    BY <2>1, SearchTyped, IngestTyped DEF SweepStep
  <2> QED BY <1>1, <2>1, MoveTyped, DetailTyped, QueueTyped, OperatorTyped DEF Next
<1>2. CASE UNCHANGED vars
  BY <1>2 DEF vars, Typed, TypeOK, OnlyBorn, Answered, Known, Rows, AtOwner
<1> QED BY <1>1, <1>2

LEMMA AlwaysTyped == Spec => []Typed
BY InitTyped, NextTyped, PTL DEF Spec

\* Type correctness.
THEOREM TypesHold == Spec => []TypeOK
<1>1. Typed => TypeOK
  BY DEF Typed
<1> QED BY <1>1, AlwaysTyped, PTL

-------------------------------------------------------------------------------
(***************************************************************************)
(* What each step does to the sweep, field by field, and what the steps of *)
(* the other cycles leave alone.                                           *)
(***************************************************************************)
Keeps(fields) == \A f \in fields : sweep'[f] = sweep[f]
MergedList == window \cap Of(sweep.owner)

LEMMA AskEffect ==
  ASSUME Typed, NEW r \in Repos, SweepAnswered(r)
  PROVE  LET o == Open \cap Of(r)
             m == window \cap Of(r)
         IN /\ sweep'.pc = "open" /\ sweep'.todo = sweep.todo \ {r} /\ sweep'.owner = r /\ sweep'.page = 1
            /\ sweep'.open = PageAt(o, 1) /\ sweep'.moreOpen = HasNext(o, 1)
            /\ sweep'.merged = PageAt(m, 1) /\ sweep'.moreMerged = HasNext(m, 1)
            /\ Keeps({"complete", "seen", "before", "missed"})
BY DEF SweepAnswered, Typed, Sweeps, Keeps

LEMMA IngestOpenEffect ==
  ASSUME Typed, IngestOpen
  PROVE  LET next == sweep.moreOpen /\ sweep.page < MaxOpenPages
         IN /\ sweep'.pc = (IF next THEN "nextOpen" ELSE "merged")
            /\ sweep'.page = (IF next THEN sweep.page + 1 ELSE 1)
            /\ sweep'.missed = (IF Reading /\ ~next THEN sweep.missed \cup Ahead ELSE sweep.missed)
            /\ sweep'.seen = sweep.seen \cup {p \in sweep.open : RepoOf[p] \notin exclude}
            /\ sweep'.open = {}
            /\ Keeps({"todo", "complete", "owner", "moreOpen", "merged", "moreMerged", "before"})
BY DEF Typed, Sweeps, IngestOpen, Keeps

LEMMA OpenPageEffect ==
  ASSUME Typed, OpenPageAnswered
  PROVE  /\ sweep'.pc = "open" /\ sweep'.open = PageAt(OpenList, sweep.page)
         /\ sweep'.moreOpen = HasNext(OpenList, sweep.page)
         /\ Keeps({"todo", "complete", "seen", "owner", "page", "merged", "moreMerged", "before", "missed"})
BY DEF OpenPageAnswered, Typed, Sweeps, Keeps

LEMMA OpenFailEffect ==
  ASSUME Typed, OpenPageFailed
  PROVE  /\ sweep'.pc = "merged" /\ sweep'.page = 1 /\ sweep'.complete = FALSE
         /\ Keeps({"todo", "seen", "owner", "merged", "moreMerged", "moreOpen", "before", "missed"})
BY DEF Typed, Sweeps, OpenPageFailed, Keeps

LEMMA IngestMergedEffect ==
  ASSUME Typed, IngestMerged
  PROVE  /\ Keeps({"complete", "seen", "todo", "before", "missed"})
         /\ \/ /\ sweep.moreMerged /\ sweep.page < MaxMergedPages
               /\ sweep'.pc = "nextMerged" /\ sweep'.page = sweep.page + 1
               /\ Keeps({"owner", "moreMerged", "moreOpen"})
            \/ /\ ~(sweep.moreMerged /\ sweep.page < MaxMergedPages)
               /\ sweep'.pc = "ask" /\ sweep'.moreOpen = FALSE
BY DEF Typed, Sweeps, IngestMerged, OwnerDone, Keeps

LEMMA MergedPageEffect ==
  ASSUME Typed, MergedPageAnswered
  PROVE  /\ sweep'.pc = "merged" /\ sweep'.merged = PageAt(MergedList, sweep.page)
         /\ sweep'.moreMerged = HasNext(MergedList, sweep.page)
         /\ Keeps({"todo", "complete", "seen", "owner", "page", "moreOpen", "before", "missed"})
BY DEF MergedPageAnswered, MergedList, Typed, Sweeps, Keeps

LEMMA MergedFailEffect ==
  ASSUME Typed, MergedPageFailed
  PROVE  sweep'.pc = "ask" /\ Keeps({"todo", "complete", "seen", "before", "missed"})
BY DEF Typed, Sweeps, MergedPageFailed, OwnerDone, Keeps

LEMMA FailEffect ==
  ASSUME Typed, NEW r \in Repos, SweepFailed(r)
  PROVE  sweep'.complete = FALSE /\ Keeps({"pc", "seen", "before", "missed", "merged", "moreMerged", "owner"})
BY DEF Typed, Sweeps, SweepFailed, Keeps

LEMMA ToggleEffect ==
  ASSUME Typed, NEW r \in Repos, ToggleExclude(r)
  PROVE  /\ sweep'.before = sweep.before \ Of(r)
         /\ Keeps({"pc", "todo", "complete", "seen", "owner", "page", "open", "moreOpen", "merged", "moreMerged", "missed"})
         /\ \A q \in Repos \ {r} : q \in exclude <=> q \in exclude'
         /\ UNCHANGED <<gh, window, fresh, rows, skipped>>
BY DEF Typed, Sweeps, ToggleExclude, Keeps, history, ghosts

\* GitHub keeps open what was open and unborn what no sweep has seen.
LEMMA MoveEffect ==
  ASSUME Typed, NEW p \in Prs, GitHubMoves(p)
  PROVE  /\ \A q \in Prs : gh'[q] \in OpenStates => gh[q] \in OpenStates \/ gh[q] = "unborn"
         /\ \A q \in Prs : gh'[q] = "merged" =>
              gh[q] = "merged" \/ (q \in window' /\ q \in fresh' /\ gh[q] \in OpenStates)
         /\ \A q \in Prs : gh[q] \in {"merged", "closed"} => gh'[q] = gh[q]
         /\ window \subseteq window' /\ fresh \subseteq fresh'
         /\ UNCHANGED <<exclude, rows, skipped>>
         /\ Keeps({"pc", "todo", "complete", "seen", "owner", "page", "open", "moreOpen", "merged", "moreMerged", "before"})
<1>1. PICK to \in Moves(gh[p]) :
        /\ gh' = [gh EXCEPT ![p] = to]
        /\ window' = IF to = "merged" THEN window \cup {p} ELSE window
        /\ fresh' = IF to = "merged" THEN fresh \cup {p} ELSE fresh
  BY DEF GitHubMoves
<1>2. /\ to \in OpenStates => gh[p] \in OpenStates \/ gh[p] = "unborn"
      /\ to = "merged" => gh[p] \in OpenStates
      /\ gh[p] \notin {"merged", "closed"}
  BY <1>1 DEF Typed, TypeOK, Moves, GhStates, OpenStates
<1>3. /\ UNCHANGED <<exclude, rows, skipped>>
      /\ Keeps({"pc", "todo", "complete", "seen", "owner", "page", "open", "moreOpen", "merged", "moreMerged", "before"})
  BY DEF GitHubMoves, history, ghosts, Typed, Sweeps, Keeps
<1>4. gh' = [q \in Prs |-> IF q = p THEN to ELSE gh[q]]
  BY <1>1 DEF Typed, TypeOK
<1>5. \A q \in Prs : q # p => gh'[q] = gh[q]
  BY <1>4
<1>6. gh'[p] = to
  BY <1>4
<1>7. to = "merged" => p \in window' /\ p \in fresh'
  BY <1>1
<1>8. window \subseteq window' /\ fresh \subseteq fresh'
  BY <1>1
<1>9. \A q \in Prs : gh'[q] \in OpenStates => gh[q] \in OpenStates \/ gh[q] = "unborn"
  BY <1>2, <1>5, <1>6
<1>10. \A q \in Prs : gh'[q] = "merged" =>
         gh[q] = "merged" \/ (q \in window' /\ q \in fresh' /\ gh[q] \in OpenStates)
  BY <1>2, <1>5, <1>6, <1>7
<1>11. \A q \in Prs : gh[q] \in {"merged", "closed"} => gh'[q] = gh[q]
  BY <1>2, <1>5
<1> QED BY <1>3, <1>8, <1>9, <1>10, <1>11

\* The cycles beside the sweep only add to the history.
LEMMA BesideEffect ==
  ASSUME DetailStep \/ QueueStep
  PROVE  UNCHANGED <<gh, window, fresh, exclude, sweep, skipped>> /\ rows \subseteq rows'
BY DEF DetailStep, DetailProceeds, DetailAll, DetailHot, DetailOne, DetailFor, DetailEnds, DetailAnswered,
       DetailFailed, DetailApplies, QueueStep, QueueBegins, QueueApplies, QueueEnds, QueueAnswered, QueueFailed,
       github, history, ghosts

-------------------------------------------------------------------------------
(***************************************************************************)
(* Places in a list of pull requests.                                      *)
(***************************************************************************)
LEMMA RankType ==
  ASSUME NEW S \in SUBSET Prs, NEW p \in Prs
  PROVE  Rank(S, p) \in Nat /\ IsFiniteSet({q \in S : Order[q] < Order[p]})
<1>1. IsFiniteSet({q \in S : Order[q] < Order[p]})
  BY FS_Subset, IngestAssumption
<1> QED BY <1>1, FS_CardinalityType DEF Rank

\* What enters a list moves the others back.
LEMMA RankGrows ==
  ASSUME NEW S \in SUBSET Prs, NEW T \in SUBSET Prs, S \subseteq T, NEW p \in Prs
  PROVE  Rank(S, p) <= Rank(T, p)
<1>1. {q \in S : Order[q] < Order[p]} \subseteq {q \in T : Order[q] < Order[p]}
  OBVIOUS
<1> QED BY <1>1, RankType, FS_Subset DEF Rank

LEMMA RankBelow ==
  ASSUME NEW S \in SUBSET Prs, NEW p \in S
  PROVE  Rank(S, p) < Cardinality(S)
<1> DEFINE B == {q \in S : Order[q] < Order[p]}
<1>1. IsFiniteSet(S) /\ B \subseteq S /\ p \notin B
  BY FS_Subset, IngestAssumption
<1>2. B # S /\ Rank(S, p) = Cardinality(B)
  BY <1>1 DEF Rank
<1> HIDE DEF B
<1> QED BY <1>1, <1>2, FS_Subset, FS_CardinalityType

\* A page and those after it hold all of the list from its place on.
LEMMA PageOrLater ==
  ASSUME NEW S \in SUBSET Prs, NEW n \in Nat, NEW p \in S, Rank(S, p) >= PageSize * (n - 1)
  PROVE  p \in PageAt(S, n) \/ (HasNext(S, n) /\ Rank(S, p) >= PageSize * n)
<1>1. Rank(S, p) \in Nat /\ Rank(S, p) < Cardinality(S) /\ Cardinality(S) \in Nat
  BY RankType, RankBelow, FS_Subset, FS_CardinalityType, IngestAssumption
<1>2. PageSize * n \in Nat
  BY IngestAssumption
<1> QED BY <1>1, <1>2 DEF PageAt, HasNext

LEMMA FirstPageOrLater ==
  ASSUME NEW S \in SUBSET Prs, NEW p \in S
  PROVE  p \in PageAt(S, 1) \/ (HasNext(S, 1) /\ Rank(S, p) >= PageSize * 1)
<1>1. PageSize * (1 - 1) = 0 /\ 1 \in Nat
  BY IngestAssumption
<1>2. Rank(S, p) \in Nat
  BY RankType
<1>3. Rank(S, p) >= PageSize * (1 - 1)
  BY <1>1, <1>2
<1> QED BY <1>1, <1>3, PageOrLater

\* When p leaves a list, one still to come stays so, unless it was the next one.
LEMMA RankAfter ==
  ASSUME NEW S \in SUBSET Prs, NEW p \in S, NEW q \in S, q # p, NEW c \in Nat,
         Rank(S, q) >= c, Rank(S, p) < c => Rank(S, q) # c
  PROVE  Rank(S \ {p}, q) >= c
<1> DEFINE B == {x \in S : Order[x] < Order[q]}
           C == {x \in S \ {p} : Order[x] < Order[q]}
<1>1. /\ Rank(S, q) = Cardinality(B) /\ Rank(S \ {p}, q) = Cardinality(C)
      /\ IsFiniteSet(B) /\ IsFiniteSet(C) /\ Cardinality(B) \in Nat /\ Cardinality(C) \in Nat
      /\ Rank(S, p) \in Nat
  BY RankType, FS_CardinalityType DEF Rank
<1>2. CASE ~(Order[p] < Order[q])
  BY <1>1, <1>2
<1>3. CASE Order[p] < Order[q]
  <2>1. C = B \ {p} /\ p \in B
    BY <1>3
  <2>2. Cardinality(C) = Cardinality(B) - 1
    BY <1>1, <2>1, FS_RemoveElement
  <2>3. CASE Rank(S, p) < c
    BY <1>1, <2>2, <2>3
  <2>4. CASE ~(Rank(S, p) < c)
    <3>1. {x \in S : Order[x] < Order[p]} \subseteq C
      BY <1>3, IngestAssumption
    <3>2. Rank(S, p) <= Cardinality(C)
      BY <1>1, <3>1, FS_Subset DEF Rank
    <3> QED BY <1>1, <2>4, <3>2
  <2> QED BY <2>3, <2>4
<1> QED BY <1>2, <1>3

-------------------------------------------------------------------------------
(***************************************************************************)
(* Rows of open pull requests.                                             *)
(***************************************************************************)
\* A pull request open since the sweep began is seen, still to come, or one of
\* those the pages passed over.
ToCome(p) ==
  /\ sweep.owner = RepoOf[p]
  /\ (sweep.pc = "open" /\ p \in sweep.open) \/ (Reading /\ p \in Ahead)
OpenInv ==
  sweep.pc # "idle" /\ sweep.complete => \A p \in (sweep.before \cap Open) \ sweep.missed :
    /\ RepoOf[p] \notin exclude
    /\ p \in sweep.seen \/ RepoOf[p] \in sweep.todo \/ ToCome(p)

LEMMA CursorType ==
  ASSUME Typed
  PROVE  Cursor \in Nat /\ OpenList \in SUBSET Prs /\ Ahead \subseteq OpenList
BY IngestAssumption DEF Typed, Sweeps, Cursor, OpenList, Open, Ahead

\* How one move changes the list being read.
LEMMA MovedList ==
  ASSUME Typed, NEW p \in Prs, GitHubMoves(p)
  PROVE  /\ OpenList' = OpenList \/ OpenList' = OpenList \cup {p} \/ OpenList' = OpenList \ {p}
         /\ sweep'.missed = sweep.missed \cup (IF p \in Open /\ p \notin Open' THEN Slips(p) ELSE {})
<1>1. PICK to \in Moves(gh[p]) :
        /\ gh' = [gh EXCEPT ![p] = to]
        /\ sweep' = [sweep EXCEPT !.missed = IF to \in OpenStates THEN @ ELSE @ \cup Slips(p)]
  BY DEF GitHubMoves
<1>2. to \notin OpenStates => gh[p] \in OpenStates
  BY <1>1 DEF Typed, TypeOK, Moves, GhStates, OpenStates
<1>3. gh'[p] = to /\ \A q \in Prs : q # p => gh'[q] = gh[q]
  BY <1>1 DEF Typed, TypeOK
<1>4. Open' = IF to \in OpenStates THEN Open \cup {p} ELSE Open \ {p}
  BY <1>3 DEF Open
<1>5. sweep'.owner = sweep.owner
  BY <1>1 DEF Typed, Sweeps
<1>6. OpenList' = OpenList \/ OpenList' = OpenList \cup {p} \/ OpenList' = OpenList \ {p}
  BY <1>4, <1>5 DEF OpenList
<1>7. sweep'.missed = IF to \in OpenStates THEN sweep.missed ELSE sweep.missed \cup Slips(p)
  BY <1>1 DEF Typed, Sweeps
<1>8. to \in OpenStates <=> ~(p \in Open /\ p \notin Open')
  BY <1>2, <1>3 DEF Open
<1> QED BY <1>6, <1>7, <1>8

LEMMA MoveKeepsAhead ==
  ASSUME Typed, NEW p \in Prs, GitHubMoves(p), Reading,
         NEW q \in Ahead \cap Open', q \notin sweep'.missed
  PROVE  q \in Ahead'
<1>1. Cursor' = Cursor /\ sweep'.owner = sweep.owner
  BY MoveEffect DEF Keeps, Cursor
<1>2. q \in OpenList /\ q \in OpenList' /\ Rank(OpenList, q) >= Cursor
  BY <1>1 DEF Ahead, OpenList
<1>3. OpenList \in SUBSET Prs /\ OpenList' \in SUBSET Prs /\ Cursor \in Nat
  BY CursorType DEF OpenList, Open
<1>4. Rank(OpenList', q) >= Cursor
  <2>1. CASE OpenList \subseteq OpenList'
    <3>1. Rank(OpenList, q) <= Rank(OpenList', q)
      BY <1>2, <1>3, <2>1, RankGrows
    <3>2. Rank(OpenList, q) \in Nat /\ Rank(OpenList', q) \in Nat
      BY <1>2, <1>3, RankType
    <3> QED BY <1>2, <1>3, <3>1, <3>2
  <2>2. CASE OpenList' = OpenList \ {p} /\ p \in OpenList
    <3>1. p \in Open /\ p \notin Open'
      BY <1>1, <2>2 DEF OpenList
    <3>2. q \notin Slips(p)
      BY <3>1, MovedList
    <3>a. Rank(OpenList, p) \in Nat
      BY <1>3, <2>2, RankType
    <3>b. Rank(OpenList, p) < Cursor => p \notin Ahead
      BY <1>3, <3>a DEF Ahead
    <3>3. Rank(OpenList, p) < Cursor => Rank(OpenList, q) # Cursor
      BY <1>2, <2>2, <3>2, <3>b DEF Slips
    <3> QED BY <1>2, <1>3, <2>2, <3>3, RankAfter
  <2> QED BY <2>1, <2>2, MovedList
<1> QED BY <1>1, <1>2, <1>4 DEF Ahead

LEMMA OpenInvStep ==
  ASSUME Typed, OpenInv, [Next]_vars
  PROVE  OpenInv'
<1>t. sweep.before \subseteq Prs /\ \A p \in sweep.before : gh[p] # "unborn" /\ RepoOf[p] \in Repos
  BY IngestAssumption DEF Typed, Sweeps, OnlyBorn, Known
<1>1. ASSUME NEW p \in Prs, GitHubMoves(p) PROVE OpenInv'
  <2>1. sweep'.before \cap Open' \subseteq sweep.before \cap Open
    BY <1>1, <1>t, MoveEffect DEF Open, Keeps
  <2>2. sweep.missed \subseteq sweep'.missed
    BY <1>1, MovedList
  <2>3. /\ Keeps({"pc", "todo", "complete", "seen", "owner", "page", "open", "moreOpen"})
        /\ UNCHANGED exclude
    BY <1>1, MoveEffect DEF Keeps
  <2>4. ASSUME NEW q \in (sweep'.before \cap Open') \ sweep'.missed, ToCome(q) PROVE ToCome(q)'
    <3>1. Reading' = Reading
      BY <2>3 DEF Reading, Keeps
    <3>2. Reading /\ q \in Ahead => q \in Ahead'
      BY <1>1, <2>4, MoveKeepsAhead
    <3> QED BY <2>3, <2>4, <3>1, <3>2 DEF ToCome, Keeps
  <2> QED BY <2>1, <2>2, <2>3, <2>4 DEF OpenInv, Keeps
<1>2. CASE SweepBegins
  BY <1>2, IngestAssumption DEF SweepBegins, SweepIdle, OpenInv, Open
<1>3. CASE Restart \/ SweepEnds
  BY <1>3 DEF Restart, SweepEnds, SweepIdle, OpenInv
<1>4. ASSUME NEW r \in Repos, ToggleExclude(r) PROVE OpenInv'
  <2>1. Open' = Open /\ sweep'.before = sweep.before \ Of(r)
        /\ Keeps({"pc", "todo", "complete", "seen", "owner", "page", "open", "moreOpen", "missed"})
    BY <1>4, ToggleEffect DEF Open, Keeps
  <2>2. \A p \in sweep'.before : RepoOf[p] \notin exclude => RepoOf[p] \notin exclude'
    BY <1>4, <1>t, <2>1, ToggleEffect DEF Of
  <2>3. \A p \in Prs : ToCome(p) => ToCome(p)'
    BY <2>1 DEF ToCome, Reading, Ahead, OpenList, Cursor, Keeps
  <2> QED BY <1>t, <2>1, <2>2, <2>3 DEF OpenInv, Keeps
<1>5. CASE DetailStep \/ QueueStep
  <2>1. UNCHANGED <<sweep, gh, exclude>>
    BY <1>5, BesideEffect
  <2> QED BY <2>1 DEF OpenInv, ToCome, Reading, Ahead, OpenList, Cursor, Open
<1>6. ASSUME NEW r \in Repos, SweepAnswered(r) PROVE OpenInv'
  <2> DEFINE o == Open \cap Of(r)
  <2>1. UNCHANGED <<gh, exclude>> /\ sweep.pc = "ask" /\ Open' = Open
    BY <1>6 DEF SweepAnswered, github, Open
  <2>2. /\ sweep'.pc = "open" /\ sweep'.todo = sweep.todo \ {r} /\ sweep'.owner = r /\ sweep'.page = 1
        /\ sweep'.open = PageAt(o, 1) /\ sweep'.moreOpen = HasNext(o, 1)
        /\ Keeps({"complete", "seen", "before", "missed"})
    BY <1>6, AskEffect
  <2>3. OpenList' = o /\ Cursor' = PageSize * 1
    BY <2>1, <2>2 DEF OpenList, Cursor
  <2>4. \A p \in sweep.before \cap Open : RepoOf[p] = r => ToCome(p)'
    <3>1. SUFFICES ASSUME NEW p \in sweep.before \cap Open, RepoOf[p] = r PROVE ToCome(p)'
      OBVIOUS
    <3>2. p \in o /\ o \in SUBSET Prs
      BY <3>1, <1>t DEF Of, Open
    <3> HIDE DEF o
    <3>3. p \in PageAt(o, 1) \/ (HasNext(o, 1) /\ Rank(o, p) >= PageSize * 1)
      BY <3>2, FirstPageOrLater
    <3> QED BY <2>2, <2>3, <3>1, <3>2, <3>3 DEF ToCome, Reading, Ahead
  <2>5. \A p \in Prs : ~ToCome(p)
    BY <2>1 DEF ToCome, Reading
  <2> QED BY <1>t, <2>1, <2>2, <2>4, <2>5 DEF OpenInv, Keeps
<1>7. CASE IngestOpen
  <2> DEFINE next == sweep.moreOpen /\ sweep.page < MaxOpenPages
  <2>1. UNCHANGED <<gh, exclude>> /\ sweep.pc = "open" /\ Open' = Open
    BY <1>7 DEF IngestOpen, github, Open
  <2>2. /\ sweep'.pc = (IF next THEN "nextOpen" ELSE "merged")
        /\ sweep'.page = (IF next THEN sweep.page + 1 ELSE 1)
        /\ sweep'.missed = (IF Reading /\ ~next THEN sweep.missed \cup Ahead ELSE sweep.missed)
        /\ sweep'.seen = sweep.seen \cup {p \in sweep.open : RepoOf[p] \notin exclude}
        /\ Keeps({"todo", "complete", "owner", "before"})
    BY <1>7, IngestOpenEffect DEF Keeps
  <2>3. ASSUME NEW p \in (sweep'.before \cap Open') \ sweep'.missed, ToCome(p), RepoOf[p] \notin exclude
        PROVE  p \in sweep'.seen \/ ToCome(p)'
    <3>1. CASE p \in sweep.open
      BY <2>2, <2>3, <3>1
    <3>2. CASE Reading /\ p \in Ahead
      <4>1. next
        <5> HIDE DEF next
        <5> QED BY <2>2, <2>3, <3>2
      <4>2. sweep'.pc = "nextOpen" /\ sweep'.page = sweep.page + 1 /\ sweep'.owner = sweep.owner
        BY <2>2, <4>1 DEF Keeps
      <4>3. OpenList' = OpenList
        BY <2>1, <4>2 DEF OpenList
      <4>4. Cursor' = Cursor
        BY <2>1, <4>2 DEF Cursor, Typed, Sweeps
      <4>5. Ahead' = Ahead /\ Reading'
        BY <4>2, <4>3, <4>4 DEF Ahead, Reading
      <4> QED BY <2>3, <3>2, <4>2, <4>5 DEF ToCome
    <3> QED BY <2>3, <3>1, <3>2 DEF ToCome
  <2>4. sweep.missed \subseteq sweep'.missed /\ sweep.seen \subseteq sweep'.seen
    BY <2>2
  <2> HIDE DEF next
  <2> QED BY <2>1, <2>2, <2>3, <2>4 DEF OpenInv, Keeps
<1>8. CASE OpenPageAnswered
  <2>1. UNCHANGED <<gh, exclude>> /\ sweep.pc = "nextOpen" /\ Open' = Open
    BY <1>8 DEF OpenPageAnswered, github, Open
  <2>2. /\ sweep'.pc = "open" /\ sweep'.open = PageAt(OpenList, sweep.page)
        /\ sweep'.moreOpen = HasNext(OpenList, sweep.page)
        /\ Keeps({"todo", "complete", "seen", "owner", "page", "before", "missed"})
    BY <1>8, OpenPageEffect DEF Keeps
  <2>3. /\ OpenList' = OpenList /\ Cursor' = PageSize * sweep.page /\ Cursor = PageSize * (sweep.page - 1)
        /\ sweep.page \in Nat /\ OpenList \in SUBSET Prs
    BY <2>1, <2>2, CursorType DEF OpenList, Cursor, Keeps, Typed, Sweeps
  <2>4. ASSUME NEW p \in Prs, ToCome(p) PROVE ToCome(p)'
    <3>1. p \in OpenList /\ Rank(OpenList, p) >= PageSize * (sweep.page - 1)
      BY <2>1, <2>3, <2>4 DEF ToCome, Ahead
    <3>2. \/ p \in PageAt(OpenList, sweep.page)
          \/ HasNext(OpenList, sweep.page) /\ Rank(OpenList, p) >= PageSize * sweep.page
      BY <2>3, <3>1, PageOrLater
    <3> QED BY <2>2, <2>3, <2>4, <3>1, <3>2 DEF ToCome, Ahead, Reading, Keeps
  <2> QED BY <1>t, <2>1, <2>2, <2>4 DEF OpenInv, Keeps
<1>9. CASE OpenPageFailed
  BY <1>9, OpenFailEffect DEF OpenInv
<1>10. CASE IngestMerged \/ MergedPageAnswered \/ MergedPageFailed
  <2>1. UNCHANGED <<gh, exclude>> /\ sweep.pc \in {"merged", "nextMerged"} /\ Open' = Open
    BY <1>10 DEF IngestMerged, MergedPageAnswered, MergedPageFailed, github, Open
  <2>2. Keeps({"complete", "seen", "todo", "before", "missed"})
    BY <1>10, IngestMergedEffect, MergedPageEffect, MergedFailEffect DEF Keeps
  <2>3. \A p \in Prs : ~ToCome(p)
    BY <2>1 DEF ToCome, Reading
  <2> QED BY <1>t, <2>1, <2>2, <2>3 DEF OpenInv, Keeps
<1>11. ASSUME NEW r \in Repos, SweepFailed(r) PROVE OpenInv'
  BY <1>11, FailEffect DEF OpenInv
<1>12. CASE UNCHANGED vars
  BY <1>12 DEF vars, OpenInv, ToCome, Reading, Ahead, OpenList, Cursor, Open
<1> QED BY <1>1, <1>2, <1>3, <1>4, <1>5, <1>6, <1>7, <1>8, <1>9, <1>10, <1>11, <1>12
        DEF Next, SweepStep

\* What the end of a sweep leaves of the rows.
LEMMA SeenRowsStay ==
  ASSUME Typed, OpenInv, SweepEnds,
         NEW p \in (sweep.before \cap Open) \ (sweep.missed \ entries), prs[p] # "absent"
  PROVE  prs'[p] # "absent"
<1>1. sweep.pc = "ask" /\ sweep.todo = {}
  BY DEF SweepEnds
<1>2. CASE sweep.complete
  <2>1. p \in Keep /\ p \in Prs
    BY <1>1, <1>2 DEF OpenInv, ToCome, Reading, Open, Keep
  <2>2. prs' = [q \in Prs |-> IF q \in Keep THEN prs[q] ELSE "absent"]
    BY <1>2 DEF SweepEnds, PruneTo
  <2> QED BY <2>1, <2>2
<1>3. CASE ~sweep.complete
  BY <1>3 DEF SweepEnds
<1> QED BY <1>2, <1>3

\* No sweep takes away the row of a pull request open all along, for any owners,
\* pages, caps and lists and whatever fails or runs beside it, except one that
\* moved across a page boundary already read or stands beyond the last page
\* (fetchOpenPages), and of those none that is in a merge queue (sweepImpl, keep).
THEOREM OpenRowsStay == Spec => OpenRowsSurvive
<1>1. Init => OpenInv
  BY DEF Init, OpenInv, SweepIdle
<1>2. Typed /\ OpenInv /\ [Next]_vars => OpenInv'
  BY OpenInvStep
<1>3. Typed /\ OpenInv => [SweepEnds => \A p \in (sweep.before \cap Open) \ (sweep.missed \ entries) :
                              prs[p] # "absent" => prs'[p] # "absent"]_vars
  BY SeenRowsStay
<1> QED BY <1>1, <1>2, <1>3, AlwaysTyped, PTL DEF Spec, OpenRowsSurvive

(***************************************************************************)
(* A sweep passes over nothing where no owner has more pull requests than  *)
(* one page holds.                                                         *)
(***************************************************************************)
FewPrs == \A r \in Repos : Cardinality(Of(r)) <= PageSize
OnePageEach == ~sweep.moreOpen /\ sweep.pc # "nextOpen" /\ sweep.missed = {}

LEMMA FewFitAPage ==
  ASSUME FewPrs, NEW r \in Repos, NEW S, S \subseteq Of(r)
  PROVE  ~HasNext(S, 1)
<1>1. IsFiniteSet(Of(r))
  BY FS_Subset, IngestAssumption DEF Of
<1>2. Cardinality(S) <= Cardinality(Of(r)) /\ Cardinality(S) \in Nat /\ Cardinality(Of(r)) \in Nat
  BY <1>1, FS_Subset, FS_CardinalityType
<1> QED BY <1>2, IngestAssumption DEF FewPrs, HasNext

LEMMA OnePageStep ==
  ASSUME FewPrs, Typed, OnePageEach, [Next]_vars
  PROVE  OnePageEach'
<1>1. ASSUME NEW p \in Prs, GitHubMoves(p) PROVE OnePageEach'
  <2>1. Slips(p) = {}
    BY DEF OnePageEach, Slips, Reading
  <2>2. sweep'.missed = {}
    BY <1>1, <2>1, MovedList DEF OnePageEach
  <2>3. sweep'.pc = sweep.pc /\ sweep'.moreOpen = sweep.moreOpen
    BY <1>1, MoveEffect DEF Keeps
  <2> QED BY <2>2, <2>3 DEF OnePageEach
<1>2. CASE SweepBegins \/ Restart \/ SweepEnds
  <2>1. SweepBegins => sweep'.pc = "ask" /\ ~sweep'.moreOpen /\ sweep'.missed = {}
    BY DEF SweepBegins, SweepIdle
  <2>2. Restart \/ SweepEnds => sweep'.pc = "idle" /\ ~sweep'.moreOpen /\ sweep'.missed = {}
    BY DEF Restart, SweepEnds, SweepIdle
  <2> QED BY <1>2, <2>1, <2>2 DEF OnePageEach
<1>3. ASSUME NEW r \in Repos, ToggleExclude(r) PROVE OnePageEach'
  BY <1>3, ToggleEffect DEF OnePageEach, Keeps
<1>4. CASE DetailStep \/ QueueStep
  BY <1>4, BesideEffect DEF OnePageEach
<1>5. ASSUME NEW r \in Repos, SweepAnswered(r) PROVE OnePageEach'
  <2>1. ~HasNext(Open \cap Of(r), 1)
    BY FewFitAPage
  <2> QED BY <1>5, <2>1, AskEffect DEF OnePageEach, Keeps
<1>6. CASE IngestOpen
  BY <1>6, IngestOpenEffect DEF OnePageEach, Reading, Keeps, IngestOpen
<1>7. CASE OpenPageAnswered \/ OpenPageFailed
  BY <1>7 DEF OpenPageAnswered, OpenPageFailed, OnePageEach
<1>8. CASE IngestMerged
  BY <1>8, IngestMergedEffect DEF OnePageEach, Keeps
<1>9. CASE MergedPageAnswered \/ MergedPageFailed
  BY <1>9, MergedPageEffect DEF OnePageEach, Keeps, MergedPageFailed, OwnerDone, Typed, Sweeps
<1>10. ASSUME NEW r \in Repos, SweepFailed(r) PROVE OnePageEach'
  BY <1>10 DEF SweepFailed, OnePageEach, Typed, Sweeps
<1>11. CASE UNCHANGED vars
  BY <1>11 DEF vars, OnePageEach
<1> QED BY <1>1, <1>2, <1>3, <1>4, <1>5, <1>6, <1>7, <1>8, <1>9, <1>10, <1>11 DEF Next, SweepStep

\* Where no owner ever has more pull requests than one page holds, no sweep takes
\* away the row of any pull request open all along.
THEOREM FewPrsKeepTheirRows ==
  FewPrs => (Spec => [][SweepEnds => \A p \in sweep.before \cap Open :
                          prs[p] # "absent" => prs'[p] # "absent"]_vars)
<1> SUFFICES ASSUME FewPrs
             PROVE  Spec => [][SweepEnds => \A p \in sweep.before \cap Open :
                                  prs[p] # "absent" => prs'[p] # "absent"]_vars
  OBVIOUS
<1>1. Init => OpenInv /\ OnePageEach
  BY DEF Init, OpenInv, OnePageEach, SweepIdle
<1>2. Typed /\ OpenInv /\ OnePageEach /\ [Next]_vars => OpenInv' /\ OnePageEach'
  BY OpenInvStep, OnePageStep
<1>3. Typed /\ OpenInv /\ OnePageEach => [SweepEnds => \A p \in sweep.before \cap Open :
                                             prs[p] # "absent" => prs'[p] # "absent"]_vars
  BY SeenRowsStay DEF OnePageEach
<1> QED BY <1>1, <1>2, <1>3, AlwaysTyped, PTL DEF Spec

-------------------------------------------------------------------------------
(***************************************************************************)
(* Merges.                                                                 *)
(***************************************************************************)
\* The search for merges never stops short of its last page.
MergedCapHolds == sweep.pc = "merged" /\ sweep.moreMerged => sweep.page < MaxMergedPages
EveryPageAnswers == [][~MergedPageFailed]_vars

\* A merge of the owner at hand is on a page at hand, or has a place in the list
\* of merges from which on nothing has been read.
MergedCursor ==
  PageSize * (CASE sweep.pc = "merged" -> sweep.page
                [] sweep.pc = "nextMerged" -> sweep.page - 1
                [] OTHER -> 1)
Pending(p) ==
  \/ sweep.pc \in {"open", "nextOpen", "merged"} /\ p \in sweep.merged
  \/ /\ sweep.pc = "nextMerged" \/ (sweep.pc \in {"open", "nextOpen", "merged"} /\ sweep.moreMerged)
     /\ Rank(MergedList, p) >= MergedCursor
SeesMerged ==
  sweep.pc # "idle" /\ sweep.complete => \A p \in Prs : gh[p] = "merged" =>
    \/ p \in fresh \cup rows \cup skipped
    \/ p \in window /\ (RepoOf[p] \in sweep.todo \/ (sweep.owner = RepoOf[p] /\ Pending(p)))
MergedInv == NoMergeLost /\ SeesMerged

\* What is pending stays so while merges are only added ...
LEMMA PendingKept ==
  ASSUME Typed, window \subseteq window', window' \subseteq Prs,
         Keeps({"pc", "owner", "page", "merged", "moreMerged"}), NEW p \in Prs, Pending(p)
  PROVE  Pending(p)'
<1>1. MergedCursor' = MergedCursor /\ sweep'.owner = sweep.owner
  BY DEF MergedCursor, Keeps
<1>2. MergedList \subseteq MergedList' /\ MergedList \in SUBSET Prs /\ MergedList' \in SUBSET Prs
  BY <1>1 DEF MergedList
<1>3. /\ Rank(MergedList, p) <= Rank(MergedList', p)
      /\ Rank(MergedList, p) \in Nat /\ Rank(MergedList', p) \in Nat
  BY <1>2, RankGrows, RankType
<1>4. Rank(MergedList, p) >= MergedCursor => Rank(MergedList', p) >= MergedCursor'
  <2>1. MergedCursor \in Nat
    BY IngestAssumption DEF MergedCursor, Typed, Sweeps
  <2> QED BY <1>1, <1>3, <2>1
<1> QED BY <1>4 DEF Pending, Keeps

\* ... while pages of open pull requests are read ...
LEMMA PendingWaits ==
  ASSUME window' = window, sweep.pc \in {"open", "nextOpen"},
         sweep'.pc \in {"open", "nextOpen"} \/ (sweep'.pc = "merged" /\ sweep'.page = 1),
         Keeps({"owner", "merged", "moreMerged"}), NEW p, Pending(p)
  PROVE  Pending(p)'
<1>1. MergedList' = MergedList
  BY DEF MergedList, Keeps
<1>2. MergedCursor' = PageSize * 1 /\ MergedCursor = PageSize * 1
  BY DEF MergedCursor
<1> QED BY <1>1, <1>2 DEF Pending, Keeps

\* ... and from its owner's answer on, page by page, until it is ingested.
LEMMA PendingAsked ==
  ASSUME Typed, NEW r \in Repos, SweepAnswered(r), NEW p \in window, RepoOf[p] = r
  PROVE  Pending(p)'
<1> DEFINE m == window \cap Of(r)
<1>1. window \subseteq Prs /\ window' = window
  BY DEF Typed, TypeOK, SweepAnswered, github
<1>2. /\ sweep'.pc = "open" /\ sweep'.owner = r
      /\ sweep'.merged = PageAt(m, 1) /\ sweep'.moreMerged = HasNext(m, 1)
  BY AskEffect
<1>3. MergedList' = m /\ MergedCursor' = PageSize * 1
  BY <1>1, <1>2 DEF MergedList, MergedCursor
<1>4. p \in m /\ m \in SUBSET Prs
  BY <1>1 DEF Of
<1> HIDE DEF m
<1>5. p \in PageAt(m, 1) \/ (HasNext(m, 1) /\ Rank(m, p) >= PageSize * 1)
  BY <1>4, FirstPageOrLater
<1> QED BY <1>2, <1>3, <1>5 DEF Pending

LEMMA PendingAnswered ==
  ASSUME Typed, MergedPageAnswered, NEW p \in window, RepoOf[p] = sweep.owner, Pending(p)
  PROVE  Pending(p)'
<1>1. window \subseteq Prs /\ window' = window /\ sweep.pc = "nextMerged" /\ sweep.page \in Nat
  BY DEF Typed, TypeOK, Sweeps, MergedPageAnswered, github
<1>2. /\ sweep'.pc = "merged" /\ sweep'.merged = PageAt(MergedList, sweep.page)
      /\ sweep'.moreMerged = HasNext(MergedList, sweep.page)
      /\ sweep'.owner = sweep.owner /\ sweep'.page = sweep.page
  BY MergedPageEffect DEF Keeps
<1>3. MergedList' = MergedList /\ MergedCursor' = PageSize * sweep.page
      /\ MergedCursor = PageSize * (sweep.page - 1)
  BY <1>1, <1>2 DEF MergedList, MergedCursor
<1>4. p \in MergedList /\ MergedList \in SUBSET Prs
  BY <1>1 DEF MergedList, Of
<1>5. Rank(MergedList, p) >= PageSize * (sweep.page - 1)
  BY <1>1, <1>3 DEF Pending
<1>6. \/ p \in PageAt(MergedList, sweep.page)
      \/ HasNext(MergedList, sweep.page) /\ Rank(MergedList, p) >= PageSize * sweep.page
  BY <1>1, <1>4, <1>5, PageOrLater
<1> QED BY <1>2, <1>3, <1>6 DEF Pending

LEMMA PendingIngested ==
  ASSUME Typed, MergedCapHolds, IngestMerged, NEW p \in Prs, Pending(p)
  PROVE  p \in sweep.merged \/ (Pending(p)' /\ sweep'.owner = sweep.owner)
<1>1. sweep.pc = "merged" /\ window' = window /\ sweep.page \in Nat
  BY DEF IngestMerged, github, Typed, Sweeps
<1>2. CASE p \notin sweep.merged
  <2>1. sweep.moreMerged /\ Rank(MergedList, p) >= PageSize * sweep.page
    BY <1>1, <1>2 DEF Pending, MergedCursor
  <2>2. sweep'.pc = "nextMerged" /\ sweep'.page = sweep.page + 1 /\ sweep'.owner = sweep.owner
    BY <1>1, <2>1, IngestMergedEffect DEF MergedCapHolds, Keeps
  <2>3. MergedList' = MergedList /\ MergedCursor' = PageSize * sweep.page
    <3>1. MergedCursor' = PageSize * (sweep'.page - 1)
      BY <2>2 DEF MergedCursor
    <3> QED BY <1>1, <2>2, <3>1 DEF MergedList
  <2> QED BY <2>1, <2>2, <2>3 DEF Pending
<1> QED BY <1>2

\* Every merge of the page at hand is recorded, or passed over as excluded.
LEMMA IngestMergedRecords ==
  ASSUME Typed, IngestMerged
  PROVE  /\ rows' = rows \cup {p \in sweep.merged : RepoOf[p] \notin exclude}
         /\ rows' \cup skipped' = rows \cup skipped \cup sweep.merged
         /\ UNCHANGED <<gh, window, fresh, exclude>> /\ sweep.pc = "merged"
BY DEF IngestMerged, github

LEMMA MergedInvStep ==
  ASSUME Typed, MergedInv, MergedCapHolds, [Next]_vars, [~MergedPageFailed]_vars
  PROVE  MergedInv'
<1> USE DEF MergedInv
<1>t. \A p \in Prs : RepoOf[p] \in Repos
  BY IngestAssumption
<1>1. ASSUME NEW p \in Prs, GitHubMoves(p) PROVE MergedInv'
  <2>1. /\ UNCHANGED <<rows, skipped>> /\ window \subseteq window' /\ fresh \subseteq fresh'
        /\ Keeps({"pc", "todo", "complete", "owner", "page", "merged", "moreMerged"})
    BY <1>1, MoveEffect DEF Keeps
  <2>2. \A q \in Prs : gh'[q] = "merged" => gh[q] = "merged" \/ (q \in window' /\ q \in fresh')
    BY <1>1, MoveEffect
  <2>3. NoMergeLost'
    BY <2>1, <2>2 DEF NoMergeLost
  <2>a. \A q \in Prs : Pending(q) => Pending(q)'
    <3>1. window' \subseteq Prs
      BY <1>1 DEF GitHubMoves, Typed, TypeOK
    <3> QED BY <2>1, <3>1, PendingKept DEF Keeps
  <2>4. SeesMerged'
    BY <2>1, <2>2, <2>a DEF SeesMerged, Keeps
  <2> QED BY <2>3, <2>4
<1>2. CASE SweepBegins
  <2>1. UNCHANGED <<gh, window, rows, skipped>> /\ sweep'.pc = "ask" /\ sweep'.todo = Repos
    BY <1>2 DEF SweepBegins, SweepIdle, history, ghosts
  <2> QED BY <2>1, <1>t DEF NoMergeLost, SeesMerged
<1>3. CASE Restart
  BY <1>3 DEF Restart, SweepIdle, NoMergeLost, SeesMerged
<1>4. CASE SweepEnds
  <2>1. UNCHANGED <<gh, rows, skipped>> /\ sweep'.pc = "idle" /\ sweep.pc = "ask" /\ sweep.todo = {}
    BY <1>4 DEF SweepEnds, SweepIdle, history, ghosts
  <2>2. NoMergeLost'
    <3>1. CASE sweep.complete
      <4>1. \A p \in Prs : gh[p] = "merged" => p \in fresh \cup rows \cup skipped
        BY <2>1, <3>1 DEF SeesMerged, Pending
      <4> QED BY <1>4, <2>1, <3>1, <4>1 DEF SweepEnds, NoMergeLost
    <3>2. CASE ~sweep.complete
      BY <1>4, <2>1, <3>2 DEF SweepEnds, NoMergeLost
    <3> QED BY <3>1, <3>2
  <2> QED BY <2>1, <2>2 DEF SeesMerged
<1>5. ASSUME NEW r \in Repos, ToggleExclude(r) PROVE MergedInv'
  <2>1. /\ UNCHANGED <<gh, window, fresh, rows, skipped>>
        /\ Keeps({"pc", "todo", "complete", "owner", "page", "merged", "moreMerged"})
    BY <1>5, ToggleEffect DEF Keeps
  <2>2. \A p \in Prs : Pending(p) => Pending(p)'
    BY <2>1, PendingKept DEF Keeps, Typed, TypeOK
  <2> QED BY <2>1, <2>2 DEF NoMergeLost, SeesMerged, Keeps
<1>6. CASE DetailStep \/ QueueStep
  <2>1. UNCHANGED <<gh, window, fresh, skipped, sweep>> /\ rows \subseteq rows'
    BY <1>6, BesideEffect
  <2>2. \A p \in Prs : Pending(p) => Pending(p)'
    BY <2>1, PendingKept DEF Keeps, Typed, TypeOK
  <2> QED BY <2>1, <2>2 DEF NoMergeLost, SeesMerged
<1>7. ASSUME NEW r \in Repos, SweepAnswered(r) PROVE MergedInv'
  <2>1. UNCHANGED <<gh, window, fresh, rows, skipped>> /\ sweep.pc = "ask"
    BY <1>7 DEF SweepAnswered, github, history, ghosts
  <2>2. /\ sweep'.pc = "open" /\ sweep'.todo = sweep.todo \ {r} /\ sweep'.owner = r
        /\ Keeps({"complete"})
    BY <1>7, AskEffect DEF Keeps
  <2>3. \A p \in Prs \cap window : RepoOf[p] = r => Pending(p)'
    BY <1>7, PendingAsked
  <2>4. \A p \in Prs : ~Pending(p)
    BY <2>1 DEF Pending
  <2> QED BY <1>t, <2>1, <2>2, <2>3, <2>4 DEF NoMergeLost, SeesMerged, Keeps
<1>8. CASE IngestOpen \/ OpenPageAnswered
  <2>1. UNCHANGED <<gh, window, fresh, rows, skipped>> /\ sweep.pc \in {"open", "nextOpen"}
    BY <1>8 DEF IngestOpen, OpenPageAnswered, github, history, ghosts
  <2>2. /\ sweep'.pc \in {"open", "nextOpen"} \/ (sweep'.pc = "merged" /\ sweep'.page = 1)
        /\ Keeps({"todo", "complete", "owner", "merged", "moreMerged"})
    BY <1>8, IngestOpenEffect, OpenPageEffect DEF Keeps
  <2>3. \A p \in Prs : Pending(p) => Pending(p)'
    BY <2>1, <2>2, PendingWaits DEF Keeps
  <2> QED BY <2>1, <2>2, <2>3 DEF NoMergeLost, SeesMerged, Keeps
<1>9. CASE OpenPageFailed
  <2>1. UNCHANGED <<gh, window, fresh, rows, skipped>>
    BY <1>9 DEF OpenPageFailed, github, history, ghosts
  <2> QED BY <1>9, <2>1, OpenFailEffect DEF NoMergeLost, SeesMerged
<1>10. CASE IngestMerged
  <2>1. /\ rows' \cup skipped' = rows \cup skipped \cup sweep.merged
        /\ UNCHANGED <<gh, window, fresh>> /\ sweep.pc = "merged"
    BY <1>10, IngestMergedRecords
  <2>2. sweep'.pc \in {"nextMerged", "ask"} /\ Keeps({"complete", "todo"})
    BY <1>10, IngestMergedEffect DEF Keeps
  <2>3. \A p \in Prs : Pending(p) => p \in sweep.merged \/ (Pending(p)' /\ sweep'.owner = sweep.owner)
    BY <1>10, PendingIngested
  <2>4. NoMergeLost'
    BY <2>1 DEF NoMergeLost
  <2>5. SeesMerged'
    BY <2>1, <2>2, <2>3 DEF SeesMerged, Keeps
  <2> QED BY <2>4, <2>5
<1>11. CASE MergedPageAnswered
  <2>1. UNCHANGED <<gh, window, fresh, rows, skipped>> /\ sweep.pc = "nextMerged"
    BY <1>11 DEF MergedPageAnswered, github, history, ghosts
  <2>2. sweep'.pc = "merged" /\ Keeps({"todo", "complete", "owner"})
    BY <1>11, MergedPageEffect DEF Keeps
  <2>3. \A p \in window : RepoOf[p] = sweep.owner /\ Pending(p) => Pending(p)'
    BY <1>11, PendingAnswered
  <2> QED BY <2>1, <2>2, <2>3 DEF NoMergeLost, SeesMerged, Keeps
<1>12. CASE MergedPageFailed
  BY <1>12 DEF MergedPageFailed, vars, OwnerDone, Typed, Sweeps
<1>13. ASSUME NEW r \in Repos, SweepFailed(r) PROVE MergedInv'
  <2>1. UNCHANGED <<gh, window, fresh, rows, skipped>>
    BY <1>13 DEF SweepFailed, github, history, ghosts
  <2> QED BY <1>13, <2>1, FailEffect DEF NoMergeLost, SeesMerged
<1>14. CASE UNCHANGED vars
  BY <1>14 DEF vars, NoMergeLost, SeesMerged, Pending, MergedList, MergedCursor
<1> QED BY <1>1, <1>2, <1>3, <1>4, <1>5, <1>6, <1>7, <1>8, <1>9, <1>10, <1>11, <1>12, <1>13, <1>14
        DEF Next, SweepStep

\* A follow-up page of merges that fails and the cap on those pages are the only
\* ways to lose a merge: without them every merge is recorded or in the window of
\* the next sweep, through crashes, outages, new merges and any cycle beside.
THEOREM OnlyMergedPagesLose == Spec /\ []MergedCapHolds /\ EveryPageAnswers => []NoMergeLost
<1>1. Init => MergedInv
  BY DEF Init, MergedInv, NoMergeLost, SeesMerged, SweepIdle
<1>2. Typed /\ MergedInv /\ MergedCapHolds /\ [Next]_vars /\ [~MergedPageFailed]_vars => MergedInv'
  BY MergedInvStep
<1>3. MergedInv => NoMergeLost
  BY DEF MergedInv
<1> QED BY <1>1, <1>2, <1>3, AlwaysTyped, PTL DEF Spec, EveryPageAnswers

-------------------------------------------------------------------------------
(***************************************************************************)
(* Stamps of merges.                                                       *)
(***************************************************************************)
\* All open pull requests of an owner are on the first page, answered together
\* with the first page of merges.
OpenFitsAPage == ~sweep.moreOpen

\* A pull request open when the sweep began is seen, closed, recorded as merged, or
\* still to come; one that merged since is in the window.
StampsHold ==
  sweep.pc # "idle" => \A p \in sweep.before :
    /\ RepoOf[p] \notin exclude
    /\ gh[p] = "merged" => p \in window
    /\ sweep.complete =>
       \/ p \in sweep.seen \cup rows \/ RepoOf[p] \in sweep.todo \/ gh[p] = "closed"
       \/ /\ sweep.owner = RepoOf[p]
          /\ \/ sweep.pc = "open" /\ p \in sweep.open
             \/ gh[p] = "merged" /\ Pending(p)
OnePage == sweep.pc # "nextOpen"
StampInv == StampsHold /\ OnePage

LEMMA StampInvStep ==
  ASSUME Typed, StampInv, MergedCapHolds, OpenFitsAPage, OpenFitsAPage', [Next]_vars, [~MergedPageFailed]_vars
  PROVE  StampInv'
<1> USE DEF StampInv
<1>t. sweep.before \subseteq Prs /\ \A p \in sweep.before : gh[p] # "unborn" /\ RepoOf[p] \in Repos
  BY IngestAssumption DEF Typed, Sweeps, OnlyBorn, Known
<1>1. ASSUME NEW p \in Prs, GitHubMoves(p) PROVE StampInv'
  <2>1. /\ UNCHANGED <<exclude, rows>> /\ window \subseteq window'
        /\ Keeps({"pc", "todo", "complete", "seen", "owner", "page", "open", "merged", "moreMerged", "before"})
    BY <1>1, MoveEffect DEF Keeps
  <2>2. /\ \A q \in Prs : gh'[q] = "merged" => gh[q] = "merged" \/ q \in window'
        /\ \A q \in Prs : gh[q] \in {"merged", "closed"} => gh'[q] = gh[q]
    BY <1>1, MoveEffect
  <2>3. \A q \in Prs : Pending(q) => Pending(q)'
    <3>1. window' \subseteq Prs
      BY <1>1 DEF GitHubMoves, Typed, TypeOK
    <3> QED BY <2>1, <3>1, PendingKept DEF Keeps
  <2> QED BY <1>t, <2>1, <2>2, <2>3 DEF StampsHold, OnePage, Keeps
<1>2. CASE SweepBegins
  <2>1. /\ UNCHANGED <<gh, exclude>> /\ sweep'.pc = "ask" /\ sweep'.todo = Repos
        /\ sweep'.before = {p \in Open : RepoOf[p] \notin exclude}
    BY <1>2 DEF SweepBegins, SweepIdle
  <2> QED BY <2>1, IngestAssumption DEF StampsHold, OnePage, Open, OpenStates
<1>3. CASE Restart \/ SweepEnds
  BY <1>3 DEF Restart, SweepEnds, SweepIdle, StampsHold, OnePage
<1>4. ASSUME NEW r \in Repos, ToggleExclude(r) PROVE StampInv'
  <2>1. /\ sweep'.before = sweep.before \ Of(r) /\ UNCHANGED <<gh, window, rows>>
        /\ Keeps({"pc", "todo", "complete", "seen", "owner", "page", "open", "merged", "moreMerged"})
    BY <1>4, ToggleEffect DEF Keeps
  <2>2. \A p \in sweep'.before : RepoOf[p] \notin exclude => RepoOf[p] \notin exclude'
    BY <1>4, <1>t, <2>1, ToggleEffect DEF Of
  <2>3. \A p \in Prs : Pending(p) => Pending(p)'
    BY <2>1, PendingKept DEF Keeps, Typed, TypeOK
  <2> QED BY <1>t, <2>1, <2>2, <2>3 DEF StampsHold, OnePage, Keeps
<1>5. CASE DetailStep \/ QueueStep
  <2>1. UNCHANGED <<gh, window, exclude, sweep>> /\ rows \subseteq rows'
    BY <1>5, BesideEffect
  <2>2. \A p \in Prs : Pending(p) => Pending(p)'
    BY <2>1, PendingKept DEF Keeps, Typed, TypeOK
  <2> QED BY <1>t, <2>1, <2>2 DEF StampsHold, OnePage
<1>6. ASSUME NEW r \in Repos, SweepAnswered(r) PROVE StampInv'
  <2> DEFINE o == Open \cap Of(r)
  <2>1. UNCHANGED <<gh, window, exclude, rows>> /\ sweep.pc = "ask"
    BY <1>6 DEF SweepAnswered, github, history
  <2>2. /\ sweep'.pc = "open" /\ sweep'.todo = sweep.todo \ {r} /\ sweep'.owner = r
        /\ sweep'.open = PageAt(o, 1) /\ ~HasNext(o, 1)
        /\ Keeps({"complete", "seen", "before"})
    <3>1. /\ sweep'.pc = "open" /\ sweep'.todo = sweep.todo \ {r} /\ sweep'.owner = r
          /\ sweep'.open = PageAt(o, 1) /\ sweep'.moreOpen = HasNext(o, 1)
          /\ Keeps({"complete", "seen", "before", "missed"})
      BY <1>6, AskEffect
    <3> HIDE DEF o
    <3> QED BY <3>1 DEF OpenFitsAPage, Keeps
  <2>3. ASSUME NEW p \in o PROVE p \in sweep'.open
    <3>1. o \in SUBSET Prs
      BY DEF Open
    <3> HIDE DEF o
    <3>2. p \in PageAt(o, 1)
      BY <2>2, <2>3, <3>1, FirstPageOrLater
    <3> QED BY <2>2, <3>2
  <2>4. \A p \in sweep.before : RepoOf[p] = r =>
          \/ gh[p] = "closed" \/ p \in sweep'.open
          \/ gh[p] = "merged" /\ Pending(p)'
    <3>1. \A p \in sweep.before : gh[p] \in OpenStates \cup {"merged", "closed"}
      BY <1>t DEF Typed, TypeOK, GhStates
    <3>2. \A p \in sweep.before : gh[p] = "merged" => p \in window
      BY <2>1 DEF StampsHold
    <3>3. \A p \in window : RepoOf[p] = r => Pending(p)'
      BY <1>6, PendingAsked
    <3> QED BY <1>t, <2>3, <3>1, <3>2, <3>3 DEF Open, Of
  <2>5. \A p \in Prs : ~Pending(p)
    BY <2>1 DEF Pending
  <2> QED BY <1>t, <2>1, <2>2, <2>4, <2>5 DEF StampsHold, OnePage, Keeps
<1>7. CASE IngestOpen
  <2>1. UNCHANGED <<gh, window, exclude, rows>> /\ sweep.pc = "open"
    BY <1>7 DEF IngestOpen, github, history
  <2>2. /\ sweep'.pc = "merged" /\ sweep'.page = 1
        /\ sweep'.seen = sweep.seen \cup {p \in sweep.open : RepoOf[p] \notin exclude}
        /\ Keeps({"todo", "complete", "owner", "merged", "moreMerged", "before"})
    BY <1>7, IngestOpenEffect DEF OpenFitsAPage, Keeps
  <2>3. \A p \in Prs : Pending(p) => Pending(p)'
    BY <2>1, <2>2, PendingWaits DEF Keeps
  <2> QED BY <1>t, <2>1, <2>2, <2>3 DEF StampsHold, OnePage, Keeps
<1>8. CASE OpenPageAnswered \/ OpenPageFailed
  BY <1>8 DEF OpenPageAnswered, OpenPageFailed, OnePage
<1>9. CASE IngestMerged
  <2>1. /\ rows' = rows \cup {p \in sweep.merged : RepoOf[p] \notin exclude}
        /\ UNCHANGED <<gh, window, exclude>> /\ sweep.pc = "merged"
    BY <1>9, IngestMergedRecords
  <2>2. sweep'.pc \in {"nextMerged", "ask"} /\ Keeps({"complete", "seen", "todo", "before"})
    BY <1>9, IngestMergedEffect DEF Keeps
  <2>3. \A p \in Prs : Pending(p) => p \in sweep.merged \/ (Pending(p)' /\ sweep'.owner = sweep.owner)
    BY <1>9, PendingIngested
  <2>4. \A p \in sweep.before \cap sweep.merged : p \in rows'
    BY <2>1 DEF StampsHold
  <2> QED BY <1>t, <2>1, <2>2, <2>3, <2>4 DEF StampsHold, OnePage, Keeps
<1>10. CASE MergedPageAnswered
  <2>1. UNCHANGED <<gh, window, exclude, rows>> /\ sweep.pc = "nextMerged"
    BY <1>10 DEF MergedPageAnswered, github, history
  <2>2. sweep'.pc = "merged" /\ Keeps({"todo", "complete", "seen", "owner", "before"})
    BY <1>10, MergedPageEffect DEF Keeps
  <2>3. \A p \in window : RepoOf[p] = sweep.owner /\ Pending(p) => Pending(p)'
    BY <1>10, PendingAnswered
  <2> QED BY <1>t, <2>1, <2>2, <2>3 DEF StampsHold, OnePage, Keeps
<1>11. CASE MergedPageFailed
  BY <1>11 DEF MergedPageFailed, vars, OwnerDone, Typed, Sweeps
<1>12. ASSUME NEW r \in Repos, SweepFailed(r) PROVE StampInv'
  <2>1. UNCHANGED <<gh, window, exclude, rows>> /\ sweep.pc = "ask"
    BY <1>12 DEF SweepFailed, github, history
  <2> QED BY <1>12, <2>1, FailEffect DEF StampsHold, OnePage, Keeps
<1>13. CASE UNCHANGED vars
  BY <1>13 DEF vars, StampsHold, OnePage, Pending, MergedList, MergedCursor
<1> QED BY <1>1, <1>2, <1>3, <1>4, <1>5, <1>6, <1>7, <1>8, <1>9, <1>10, <1>11, <1>12, <1>13
        DEF Next, SweepStep

\* What a sweep forgets, no cycle has yet to record.
LEMMA StampsForgotten ==
  ASSUME Typed, StampInv, SweepEnds,
         NEW p \in (enqueuedAt \cup firstGreen) \ (enqueuedAt' \cup firstGreen'),
         gh[p] = "merged", p \in sweep.before
  PROVE  p \in rows
<1>1. sweep.pc = "ask" /\ sweep.todo = {}
  BY DEF SweepEnds
<1>2. CASE sweep.complete
  <2>1. /\ enqueuedAt' = enqueuedAt \cap Keep
        /\ firstGreen \cap Keep \subseteq firstGreen'
    BY <1>2 DEF SweepEnds, PruneTo, Emit
  <2>2. p \notin Keep
    BY <2>1
  <2> QED BY <1>1, <1>2, <2>2 DEF StampInv, StampsHold, Pending, Keep
<1>3. CASE ~sweep.complete
  BY <1>3 DEF SweepEnds, Emit
<1> QED BY <1>2, <1>3

\* Where the open pull requests of an owner fit one page and every page of merges
\* answers, the end of a sweep never forgets the enqueue or first-green time of a
\* merge that is yet to be recorded (pruneCaches, takeLeadTimeStamps).
THEOREM StampsSurviveOnePage ==
  Spec /\ []OpenFitsAPage /\ []MergedCapHolds /\ EveryPageAnswers => PruneKeepsStamps
<1>1. Init => StampInv
  BY DEF Init, StampInv, StampsHold, OnePage, SweepIdle
<1>2. /\ Typed /\ StampInv /\ MergedCapHolds /\ OpenFitsAPage /\ OpenFitsAPage' /\ [Next]_vars /\ [~MergedPageFailed]_vars
      => StampInv'
  BY StampInvStep
<1>3. Typed /\ StampInv => [SweepEnds =>
        \A p \in (enqueuedAt \cup firstGreen) \ (enqueuedAt' \cup firstGreen') :
          (gh[p] = "merged" /\ p \in sweep.before) => p \in rows]_vars
  BY StampsForgotten
<1> QED BY <1>1, <1>2, <1>3, AlwaysTyped, PTL DEF Spec, EveryPageAnswers, PruneKeepsStamps
===============================================================================
