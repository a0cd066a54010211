---------------------------- MODULE WorkspaceProofs ----------------------------
(***************************************************************************)
(* What the workspace opens and what its pull requests do to the gates of  *)
(* a repository, for every repository and every list of requests.          *)
(***************************************************************************)
EXTENDS Workspace, FiniteSetTheorems, NaturalsInduction, SequenceTheorems, WellFoundedInduction, TLAPS

(***************************************************************************)
(* For any files, requests and failures: no draft is opened for a request  *)
(* whose head moved before its pin was checked.                            *)
(***************************************************************************)
\* A request carries its ask, its base and whether the head moved since; it knows of
\* every move that came before its pin was checked; after the check nothing it rests
\* on was moved, unless it writes prefixes.
Requesting == request.step # "none"
RequestFields == {"step", "ask", "base", "lost", "moved", "edit", "point"}
Carries == Requesting => RequestFields \subseteq DOMAIN request
Unpinned == {"derived", "prepared"}
KnowsMoves == request.step \in Unpinned /\ request.base = HeadSha => request.moved = FALSE
BasesExist == request.step \in Unpinned => request.base \in 1 .. HeadSha
PinsHold == Requesting /\ request.step \notin Unpinned /\ request.ask.kind # "prefixes" => request.moved = FALSE
\* The branch is a sequence of commits, and has one.
IsBranch == (\E Files : commits \in Seq(Files)) /\ Len(commits) > 0
WorkspaceInv ==
  /\ IsBranch /\ Carries /\ BasesExist /\ KnowsMoves /\ PinsHold /\ StaleRequestsAreRefused

\* A push makes the branch longer by one.
LEMMA BranchGrows ==
  ASSUME NEW C, NEW Files, C \in Seq(Files), NEW repo
  PROVE  /\ \E More : Append(C, repo) \in Seq(More)
         /\ Len(C) \in Nat /\ Len(Append(C, repo)) = Len(C) + 1
<1>1. C \in Seq(Files \cup {repo}) /\ repo \in Files \cup {repo}
  BY SeqDef, LenProperties
<1>. QED BY <1>1, AppendProperties, LenProperties


LEMMA WorkspaceStart ==
  ASSUME NEW repos, WorkspaceInit(repos)
  PROVE  WorkspaceInv
<1>1. PICK repo : commits = <<repo>>
  BY DEF WorkspaceInit
<1>2. commits \in Seq({repo})
  BY <1>1
<1>. QED BY <1>2 DEF WorkspaceInit, WorkspaceInv, IsBranch, Carries, BasesExist, KnowsMoves, PinsHold,
                     StaleRequestsAreRefused, Requesting, Unpinned, NoRequest

\* A request that ends leaves nothing to know.
LEMMA EndsSafely ==
  ASSUME WorkspaceInv, request' = NoRequest, UNCHANGED commits, pulls' = pulls
  PROVE  WorkspaceInv'
  BY DEF WorkspaceInv, IsBranch, Carries, BasesExist, KnowsMoves, PinsHold, StaleRequestsAreRefused,
         Requesting, Unpinned, NoRequest

\* Whichever of its fields a step sets, a request keeps its ask and its base, and what
\* it knows of the head.
LEMMA FieldsKept ==
  ASSUME WorkspaceInv, Requesting, NEW step, NEW files, NEW point,
         \/ request' = [request EXCEPT !.step = step]
         \/ request' = [request EXCEPT !.step = step, !.edit = files]
         \/ request' = [request EXCEPT !.step = step, !.point = point]
  PROVE  /\ RequestFields \subseteq DOMAIN request' /\ request'.step = step
         /\ request'.ask = request.ask /\ request'.base = request.base /\ request'.moved = request.moved
  BY DEF WorkspaceInv, Carries, RequestFields

LEMMA DeriveStep ==
  ASSUME WorkspaceInv, NEW ask, NEW unreadable, Derive(ask, unreadable)
  PROVE  WorkspaceInv'
<1>1. PICK sha \in DOMAIN commits : DeriveAtSha(ask, sha, unreadable)
  <2>1. HeadSha \in DOMAIN commits
    BY DEF WorkspaceInv, IsBranch, HeadSha
  <2>. QED BY <2>1 DEF Derive
<1>2. PICK lost : request' = [step |-> "derived", ask |-> ask, base |-> sha, lost |-> lost,
                              moved |-> sha # HeadSha, edit |-> <<>>, point |-> 0]
  BY <1>1 DEF DeriveAtSha, Advance
<1>3. UNCHANGED <<commits, pulls>>
  BY <1>1 DEF DeriveAtSha, Advance, Elsewhere
<1>4. sha \in 1 .. HeadSha /\ HeadSha' = HeadSha
  BY <1>3 DEF WorkspaceInv, IsBranch, HeadSha
<1>. QED BY <1>2, <1>3, <1>4 DEF WorkspaceInv, IsBranch, Carries, BasesExist, KnowsMoves, PinsHold,
                     StaleRequestsAreRefused, Requesting, Unpinned, RequestFields

\* A step of the request itself: to its end, to the next one with its fields kept, and
\* past the pin only with the head it was derived at, or for prefixes.
LEMMA RequestMoves ==
  ASSUME WorkspaceInv, UNCHANGED <<commits, pulls>>,
         \/ request' = NoRequest
         \/ /\ RequestFields \subseteq DOMAIN request'
            /\ request'.ask = request.ask /\ request'.base = request.base /\ request'.moved = request.moved
            /\ \/ request.step = "derived" /\ request'.step = "prepared"
               \/ /\ request'.step \notin {"none", "derived", "prepared"}
                  /\ \/ request.step = "prepared" /\ (request.base = HeadSha \/ request.ask.kind = "prefixes")
                     \/ request.step \notin {"none", "derived", "prepared"}
  PROVE  WorkspaceInv'
<1>1. CASE request' = NoRequest
  BY <1>1, EndsSafely
<1>2. CASE request' # NoRequest
  BY <1>2 DEF WorkspaceInv, IsBranch, Carries, BasesExist, KnowsMoves, PinsHold,
              StaleRequestsAreRefused, Requesting, Unpinned, HeadSha
<1>. QED BY <1>1, <1>2

LEMMA RequestSteps ==
  ASSUME WorkspaceInv, NEW losses,
         \/ \E lost \in losses : Prepare(lost)
         \/ DryRun \/ CheckPin \/ CreateRef \/ CreateCommit
  PROVE  WorkspaceInv'
<1>1. ASSUME NEW lost, Prepare(lost) PROVE WorkspaceInv'
  <2>1. request.step = "derived" /\ UNCHANGED <<commits, pulls>>
        /\ (request' = NoRequest \/ \E files : request' = [request EXCEPT !.step = "prepared", !.edit = files])
    BY <1>1 DEF Prepare, Advance, RequestEnds, Elsewhere
  <2>2. CASE request' # NoRequest
    <3>1. Requesting
      BY <2>1 DEF Requesting
    <3>2. /\ RequestFields \subseteq DOMAIN request' /\ request'.step = "prepared"
          /\ request'.ask = request.ask /\ request'.base = request.base /\ request'.moved = request.moved
      BY <2>1, <2>2, <3>1, FieldsKept
    <3>. QED BY <2>1, <3>2, RequestMoves
  <2>. QED BY <2>1, <2>2, RequestMoves
<1>2. CASE DryRun
  BY <1>2, RequestMoves DEF DryRun, RequestEnds, Elsewhere
<1>3. CASE CheckPin
  <2>1. request.step = "prepared" /\ UNCHANGED <<commits, pulls>>
        /\ (request' = NoRequest \/ (request.base = HeadSha /\ request' = [request EXCEPT !.step = "pinned"]))
    BY <1>3 DEF CheckPin, Pinned, Advance, RequestEnds, Elsewhere
  <2>2. CASE request' # NoRequest
    <3>1. Requesting
      BY <2>1 DEF Requesting
    <3>2. /\ RequestFields \subseteq DOMAIN request' /\ request'.step = "pinned"
          /\ request'.ask = request.ask /\ request'.base = request.base /\ request'.moved = request.moved
      BY <2>1, <2>2, <3>1, FieldsKept
    <3>. QED BY <2>1, <3>2, RequestMoves
  <2>. QED BY <2>1, <2>2, RequestMoves
<1>4. CASE CreateRef
  <2>1. /\ request.step = "pinned" \/ (request.step = "prepared" /\ request.ask.kind = "prefixes")
        /\ UNCHANGED <<commits, pulls>>
        /\ request' = NoRequest \/ request' = [request EXCEPT !.step = "branched", !.point = BranchPoint]
    BY <1>4 DEF CreateRef, ReadyToOpen, Advance, RequestEnds, Elsewhere
  <2>2. CASE request' # NoRequest
    <3>1. Requesting
      BY <2>1 DEF Requesting
    <3>2. /\ RequestFields \subseteq DOMAIN request' /\ request'.step = "branched"
          /\ request'.ask = request.ask /\ request'.base = request.base /\ request'.moved = request.moved
      BY <2>1, <2>2, <3>1, FieldsKept
    <3>. QED BY <2>1, <3>2, RequestMoves
  <2>. QED BY <2>1, <2>2, RequestMoves
<1>5. CASE CreateCommit
  <2>1. /\ request.step = "branched" /\ UNCHANGED <<commits, pulls>>
        /\ request' = NoRequest \/ request' = [request EXCEPT !.step = "committed"]
    BY <1>5 DEF CreateCommit, Advance, RequestEnds, Elsewhere
  <2>2. CASE request' # NoRequest
    <3>1. Requesting
      BY <2>1 DEF Requesting
    <3>2. /\ RequestFields \subseteq DOMAIN request' /\ request'.step = "committed"
          /\ request'.ask = request.ask /\ request'.base = request.base /\ request'.moved = request.moved
      BY <2>1, <2>2, <3>1, FieldsKept
    <3>. QED BY <2>1, <3>2, RequestMoves
  <2>. QED BY <2>1, <2>2, RequestMoves
<1>. QED BY <1>1, <1>2, <1>3, <1>4, <1>5

LEMMA CreatePrStep == ASSUME WorkspaceInv, CreatePr PROVE WorkspaceInv'
<1>1. request.step = "committed" /\ request' = NoRequest /\ UNCHANGED commits
  BY DEF CreatePr, Elsewhere
<1>2. request.ask.kind # "prefixes" => request.moved = FALSE
  BY <1>1 DEF WorkspaceInv, PinsHold, Requesting, Unpinned
<1>. DEFINE pull == [kind |-> request.ask.kind, base |-> request.point, moved |-> request.moved,
                     quarantined |-> Quarantined(request.ask), files |-> Overlay(commits[request.point], request.edit)]
<1>3. pull.kind = request.ask.kind /\ pull.moved = request.moved
  OBVIOUS
<1>4. pulls' \subseteq pulls \cup {pull}
  BY DEF CreatePr
<1>. HIDE DEF pull
<1>. QED BY <1>1, <1>2, <1>3, <1>4 DEF WorkspaceInv, IsBranch, Carries, BasesExist, KnowsMoves, PinsHold,
                     StaleRequestsAreRefused, Requesting, Unpinned, NoRequest

\* A request whose pin is not checked yet learns of every push.
LEMMA HeadMovesStep ==
  ASSUME WorkspaceInv, NEW repo, HeadMoves(repo), pulls' \subseteq pulls
  PROVE  WorkspaceInv'
<1>1. PICK Files : commits \in Seq(Files)
  BY DEF WorkspaceInv, IsBranch
<1>2. /\ IsBranch' /\ HeadSha \in Nat /\ HeadSha' = HeadSha + 1
  <2>1. commits' = Append(commits, repo)
    BY DEF HeadMoves
  <2>2. (\E More : Append(commits, repo) \in Seq(More)) /\ Len(commits) \in Nat /\ Len(Append(commits, repo)) = Len(commits) + 1
    BY <1>1, BranchGrows
  <2>3. IsBranch'
    BY <2>1, <2>2 DEF IsBranch
  <2>. QED BY <2>1, <2>2, <2>3 DEF HeadSha
<1>3. StaleRequestsAreRefused'
  BY DEF WorkspaceInv, StaleRequestsAreRefused
<1>4. CASE request.step \in Unpinned
  <2>1. request' = [request EXCEPT !.moved = TRUE] /\ RequestFields \subseteq DOMAIN request
    BY <1>4 DEF HeadMoves, Unpinned, WorkspaceInv, Carries, Requesting
  <2>2. RequestFields \subseteq DOMAIN request' /\ request'.step = request.step /\ request'.base = request.base
    BY <2>1 DEF RequestFields
  <2>. QED BY <1>2, <1>3, <1>4, <2>2 DEF WorkspaceInv, Carries, BasesExist, KnowsMoves, PinsHold, Requesting, Unpinned
<1>5. CASE request.step \notin Unpinned
  <2>1. UNCHANGED request
    BY <1>5 DEF HeadMoves, Unpinned
  <2>. QED BY <1>2, <1>3, <1>5, <2>1 DEF WorkspaceInv, Carries, BasesExist, KnowsMoves, PinsHold, Requesting
<1>. QED BY <1>4, <1>5

LEMMA WorkspaceStep ==
  ASSUME NEW asks, NEW repos, NEW losses, NEW rules,
         WorkspaceInv, [WorkspaceNext(asks, repos, losses, rules)]_workspaceVars
  PROVE  WorkspaceInv'
<1>1. CASE CacheExpires \/ QuarantineExpires \/ (\E r \in rules : PutPolicies(r)) \/ UNCHANGED workspaceVars
  <2>1. UNCHANGED <<commits, request, pulls>>
    BY <1>1 DEF CacheExpires, QuarantineExpires, PutPolicies, Elsewhere, workspaceVars
  <2>. QED BY <2>1 DEF WorkspaceInv, IsBranch, Carries, BasesExist, KnowsMoves, PinsHold,
                     StaleRequestsAreRefused, Requesting, Unpinned, HeadSha
<1>2. CASE Push(repos) \/ \E pull \in pulls : MergePull(pull)
  BY <1>2, HeadMovesStep DEF Push, MergePull
<1>. QED BY <1>1, <1>2, DeriveStep, RequestSteps, CreatePrStep DEF WorkspaceNext

\* Whatever is asked, pushed, merged, cached, unreadable or refused by GitHub meanwhile,
\* for any repository: no draft pull request but one of prefixes was opened for a request
\* whose head had moved before its pin was checked (openDraftPr, applyCandidate).
THEOREM NoStaleDrafts ==
  ASSUME NEW CONSTANT asks, NEW CONSTANT repos, NEW CONSTANT losses, NEW CONSTANT rules
  PROVE  WorkspaceInit(repos) /\ [][WorkspaceNext(asks, repos, losses, rules)]_workspaceVars
           => []StaleRequestsAreRefused
<1>1. WorkspaceInit(repos) => WorkspaceInv BY WorkspaceStart
<1>2. WorkspaceInv /\ [WorkspaceNext(asks, repos, losses, rules)]_workspaceVars => WorkspaceInv'
  BY WorkspaceStep
<1>3. WorkspaceInv => StaleRequestsAreRefused BY DEF WorkspaceInv
<1>. QED BY <1>1, <1>2, <1>3, PTL


(***************************************************************************)
(* Counting, and sequences of sequences.                                   *)
(***************************************************************************)
\* The order of the numbers, as a set of pairs.
Below == {ss \in Nat \X Nat : ss[1] < ss[2]}

\* The smallest of a set of numbers is one of them.
LEMMA HasMin ==
  ASSUME NEW S, S \subseteq Nat, S # {}
  PROVE  Min(S) \in S /\ \A x \in S : Min(S) <= x
<1>1. IsWellFoundedOn(Below, Nat)
  BY NatLessThanWellFounded DEF OpToRel, Below
<1>2. \E b \in S : \A c \in S : ~ (<<c, b>> \in Below)
  BY <1>1, WFMin
<1>3. \A c, b \in Nat : c < b => <<c, b>> \in Below
  <2>. TAKE c, b \in Nat
  <2>1. <<c, b>>[1] = c /\ <<c, b>>[2] = b /\ <<c, b>> \in Nat \X Nat
    OBVIOUS
  <2>. QED BY <2>1 DEF Below
<1>4. \A b, c \in S : <<c, b>> \notin Below => b <= c
  BY <1>3
<1>. QED BY <1>2, <1>4 DEF Min

\* What is true of 0 and passes on to the next number is true of all.
LEMMA Counting ==
  ASSUME NEW good, good \subseteq Nat, 0 \in good, \A k \in good : k + 1 \in good
  PROVE  good = Nat
<1>. DEFINE bad == Nat \ good
<1>. SUFFICES ASSUME bad # {} PROVE FALSE
  OBVIOUS
<1>1. Min(bad) \in bad /\ \A k \in bad : Min(bad) <= k
  BY HasMin
<1>. DEFINE m == Min(bad)
<1>. HIDE DEF m
<1>2. m \in bad /\ \A k \in bad : m <= k
  BY <1>1 DEF m
<1>3. m \in Nat /\ m # 0
  BY <1>2
<1>4. m - 1 \in Nat /\ m - 1 \notin bad
  BY <1>2, <1>3
<1>. QED BY <1>2, <1>3, <1>4

\* What two sequences hold, their concatenation holds.
LEMMA Joined ==
  ASSUME NEW T, NEW s \in Seq(T), NEW t \in Seq(T)
  PROVE  Range(s \o t) = Range(s) \cup Range(t)
<1>1. /\ Len(s) \in Nat /\ Len(t) \in Nat /\ DOMAIN s = 1 .. Len(s) /\ DOMAIN t = 1 .. Len(t)
      /\ DOMAIN (s \o t) = 1 .. Len(s) + Len(t)
      /\ \A i \in 1 .. Len(s) + Len(t) : (s \o t)[i] = IF i <= Len(s) THEN s[i] ELSE t[i - Len(s)]
  BY LenProperties, ConcatProperties
<1>2. ASSUME NEW x \in Range(s) PROVE x \in Range(s \o t)
  <2>1. PICK i \in 1 .. Len(s) : x = s[i]
    BY <1>1 DEF Range
  <2>. QED BY <1>1, <2>1 DEF Range
<1>3. ASSUME NEW x \in Range(t) PROVE x \in Range(s \o t)
  <2>1. PICK i \in 1 .. Len(t) : x = t[i]
    BY <1>1 DEF Range
  <2>2. i + Len(s) \in 1 .. Len(s) + Len(t) /\ ~(i + Len(s) <= Len(s)) /\ (i + Len(s)) - Len(s) = i
    BY <1>1
  <2>3. (s \o t)[i + Len(s)] = x
    BY <1>1, <2>1, <2>2
  <2>. QED BY <1>1, <2>2, <2>3 DEF Range
<1>4. ASSUME NEW x \in Range(s \o t) PROVE x \in Range(s) \cup Range(t)
  <2>1. PICK i \in 1 .. Len(s) + Len(t) : x = (s \o t)[i]
    BY <1>1 DEF Range
  <2>2. ~(i <= Len(s)) => i - Len(s) \in 1 .. Len(t)
    BY <1>1
  <2>. QED BY <1>1, <2>1, <2>2 DEF Range
<1>. QED BY <1>2, <1>3, <1>4

\* A flattened sequence holds what its parts hold.
LEMMA Flattened ==
  ASSUME NEW parts, NEW All, NEW T, parts \in Seq(All), \A k \in DOMAIN parts : parts[k] \in Seq(T)
  PROVE  /\ FlattenSeq(parts) \in Seq(T)
         /\ Range(FlattenSeq(parts)) = UNION {Range(parts[k]) : k \in DOMAIN parts}
<1>. DEFINE size == Len(parts)
            Flat(f, i) == IF i = 1 THEN parts[i] ELSE f[i - 1] \o parts[i]
            good == {k \in Nat : \E f : f = [i \in 1 .. k |-> Flat(f, i)]}
            flat == CHOOSE f : f = [i \in 1 .. size |-> Flat(f, i)]
<1>0. size \in Nat /\ DOMAIN parts = 1 .. size
  BY LenProperties
<1>1. CASE size = 0
  <2>1. parts = <<>>
    BY <1>1, EmptySeq
  <2>2. FlattenSeq(parts) = <<>>
    BY <1>1, <2>1 DEF FlattenSeq
  <2>3. DOMAIN parts = {} /\ <<>> \in Seq(T)
    BY <1>0, <1>1
  <2>4. Range(parts) = {}
    BY <2>3 DEF Range
  <2>. HIDE DEF size
  <2>. QED BY <2>1, <2>2, <2>3, <2>4
<1>2. CASE size # 0
  <2>1. FlattenSeq(parts) = flat[size]
    BY <1>2 DEF FlattenSeq
  <2>2. 0 \in good
    <3>1. PICK f : f = [i \in 1 .. 0 |-> parts]
      OBVIOUS
    <3>2. f = [i \in 1 .. 0 |-> Flat(f, i)]
      <4>. HIDE DEF Flat
      <4>. QED BY <3>1
    <3>. QED BY <3>2
  <2>3. ASSUME NEW k \in good PROVE k + 1 \in good
    <3>1. k \in Nat
      OBVIOUS
    <3>2. PICK f : f = [i \in 1 .. k |-> Flat(f, i)]
      OBVIOUS
    <3>. DEFINE g == [i \in 1 .. k + 1 |-> Flat(f, i)]
    <3>3. \A i \in 1 .. k : g[i] = f[i]
      <4>. HIDE DEF Flat
      <4>1. \A i \in 1 .. k : f[i] = Flat(f, i)
        BY <3>2
      <4>. QED BY <3>1, <4>1
    <3>4. \A i \in 1 .. k + 1 : Flat(g, i) = Flat(f, i)
      <4>. TAKE i \in 1 .. k + 1
      <4>1. i # 1 => i - 1 \in 1 .. k
        BY <3>1
      <4>2. i # 1 => g[i - 1] = f[i - 1]
        BY <3>3, <4>1
      <4>. HIDE DEF g
      <4>. QED BY <4>2
    <3>5. g = [i \in 1 .. k + 1 |-> Flat(g, i)]
      <4>1. \A i \in 1 .. k + 1 : g[i] = Flat(g, i)
        BY <3>4
      <4>. HIDE DEF Flat
      <4>. QED BY <4>1
    <3>. HIDE DEF g, Flat
    <3>. QED BY <3>1, <3>5
  <2>4. good = Nat
    <3>1. good \subseteq Nat
      OBVIOUS
    <3>. HIDE DEF good
    <3>. QED BY <2>2, <2>3, <3>1, Counting
  <2>5. flat = [i \in 1 .. size |-> Flat(flat, i)]
    <3>1. size \in good
      <4>. HIDE DEF good
      <4>. QED BY <1>0, <2>4
    <3>2. \E f : f = [i \in 1 .. size |-> Flat(f, i)]
      BY <3>1
    <3>. HIDE DEF Flat
    <3>. QED BY <3>2
  <2>. HIDE DEF good
  <2>6. \A i \in 1 .. size : flat[i] = Flat(flat, i)
    <3>. HIDE DEF Flat, flat
    <3>. QED BY <2>5
  <2>. HIDE DEF flat
  <2>7. \A i \in Nat : i + 1 \in 1 .. size /\ i # 0 => flat[i + 1] = flat[i] \o parts[i + 1]
    <3>. TAKE i \in Nat
    <3>. HAVE i + 1 \in 1 .. size /\ i # 0
    <3>1. i + 1 # 1 /\ (i + 1) - 1 = i
      OBVIOUS
    <3>. QED BY <2>6, <3>1
  <2>8. 1 \in 1 .. size /\ flat[1] = parts[1]
    BY <1>0, <1>2, <2>6
  <2>. DEFINE fair == {k \in Nat : k + 1 \in 1 .. size =>
                         /\ flat[k + 1] \in Seq(T)
                         /\ Range(flat[k + 1]) = UNION {Range(parts[i]) : i \in 1 .. k + 1}}
  <2>9. 0 \in fair
    <3>1. 0 + 1 = 1 /\ \A i \in 1 .. 0 + 1 : i = 1
      OBVIOUS
    <3>2. parts[1] \in Seq(T)
      BY <1>0, <2>8
    <3>. QED BY <2>8, <3>1, <3>2
  <2>10. ASSUME NEW k \in fair PROVE k + 1 \in fair
    <3>0. k \in Nat
      OBVIOUS
    <3>. SUFFICES ASSUME (k + 1) + 1 \in 1 .. size
                  PROVE  /\ flat[(k + 1) + 1] \in Seq(T)
                         /\ Range(flat[(k + 1) + 1]) = UNION {Range(parts[i]) : i \in 1 .. (k + 1) + 1}
      BY <3>0
    <3>1. k + 1 \in 1 .. size /\ k + 1 \in Nat /\ k + 1 # 0
      BY <1>0, <3>0
    <3>2. /\ flat[k + 1] \in Seq(T)
          /\ Range(flat[k + 1]) = UNION {Range(parts[i]) : i \in 1 .. k + 1}
      BY <3>1
    <3>3. parts[(k + 1) + 1] \in Seq(T)
      BY <1>0
    <3>4. flat[(k + 1) + 1] = flat[k + 1] \o parts[(k + 1) + 1]
      BY <2>7, <3>1
    <3>5. Range(flat[k + 1] \o parts[(k + 1) + 1]) = Range(flat[k + 1]) \cup Range(parts[(k + 1) + 1])
      BY <3>2, <3>3, Joined
    <3>6. 1 .. (k + 1) + 1 = (1 .. k + 1) \cup {(k + 1) + 1}
      BY <3>1
    <3>. QED BY <3>2, <3>3, <3>4, <3>5, <3>6, ConcatProperties
  <2>11. fair = Nat
    <3>1. fair \subseteq Nat
      OBVIOUS
    <3>. HIDE DEF fair
    <3>. QED BY <2>9, <2>10, <3>1, Counting
  <2>12. size - 1 \in Nat /\ (size - 1) + 1 = size /\ size \in 1 .. size
    BY <1>0, <1>2
  <2>13. size - 1 \in fair
    <3>. HIDE DEF fair
    <3>. QED BY <2>11, <2>12
  <2>14. flat[(size - 1) + 1] \in Seq(T)
         /\ Range(flat[(size - 1) + 1]) = UNION {Range(parts[i]) : i \in 1 .. (size - 1) + 1}
    BY <2>12, <2>13
  <2>. QED BY <1>0, <2>1, <2>12, <2>14
<1>. QED BY <1>1, <1>2

(***************************************************************************)
(* Repositories, and the checks a derivation sees in them.                 *)
(***************************************************************************)
\* What a job of a workflow file has.
JobFields == {"id", "name", "needs", "guard", "uses", "matrix", "tolerant"}
IsJob(job) == JobFields \subseteq DOMAIN job /\ job.matrix \in Nat /\ job.id # Nil
IsFile(file) ==
  /\ {"parses", "on", "jobs"} \subseteq DOMAIN file
  /\ \E J : JobsIn(file) \in Seq(J)
  /\ \A job \in Range(JobsIn(file)) : IsJob(job)
  /\ \A i, j \in Range(JobsIn(file)) : i.id = j.id => i = j
\* Jobs of the rollup are told apart by their ids and by what they show; none calls the rollup.
IsRollup(file) ==
  \A i, j \in Range(JobsIn(file)) :
    /\ LabelOf(i) = LabelOf(j) => i.id = j.id
    /\ i.uses # Rollup
\* A repository: only the rollup runs in the queue.
IsRepository(repo) ==
  /\ IsFiniteSet(DOMAIN repo)
  /\ \A f \in DOMAIN repo : IsFile(repo[f]) /\ (f # Rollup => "merge_group" \notin Triggers(repo[f]))
  /\ Rollup \in DOMAIN repo => IsRollup(repo[Rollup])

\* The files a derivation may look into, and those it can read.
KnownFiles == {Rollup} \cup ScheduledEntries \cup Reusables
Seen(repo, unreadable) == (DOMAIN repo \ unreadable) \cap KnownFiles
FilesOf(repo, unreadable) == [f \in Fetched(repo, unreadable) |-> repo[f]]

\* Of the files the rollup calls, those that can be read are fetched.
LEMMA FetchedIs ==
  ASSUME NEW repo, NEW unreadable, IsFiniteSet(DOMAIN repo), Derivable(repo, unreadable)
  PROVE  /\ Fetched(repo, unreadable) \subseteq Seen(repo, unreadable)
         /\ Rollup \in Fetched(repo, unreadable)
         /\ CalledBy(repo, Rollup) \cap Seen(repo, unreadable) \subseteq Fetched(repo, unreadable)
<1>. DEFINE there   == DOMAIN repo \ unreadable
            refs(F) == (UNION {CalledBy(repo, f) : f \in F}) \cap Reusables \cap there
            first   == ({Rollup} \cup ScheduledEntries) \cap there
            size    == Cardinality(DOMAIN repo)
            Round(f, n) == IF n = 0 THEN first ELSE f[n - 1] \cup refs(f[n - 1])
            good    == {k \in Nat : \E f : f = [n \in 0 .. k |-> Round(f, n)]}
            round   == CHOOSE f : f = [n \in 0 .. size |-> Round(f, n)]
<1>0. Rollup \in there /\ size \in Nat /\ size > 0
  <2>1. Rollup \in DOMAIN repo /\ Rollup \in there
    BY DEF Derivable
  <2>. QED BY <2>1, FS_CardinalityType, FS_EmptySet
<1>1. Fetched(repo, unreadable) = round[size]
  BY DEF Fetched
<1>2. 0 \in good
  <2>1. PICK f : f = [n \in 0 .. 0 |-> first]
    OBVIOUS
  <2>2. \A n \in 0 .. 0 : n = 0 /\ Round(f, n) = first
    OBVIOUS
  <2>3. f = [n \in 0 .. 0 |-> Round(f, n)]
    <3>. HIDE DEF Round
    <3>. QED BY <2>1, <2>2
  <2>. QED BY <2>3
<1>3. ASSUME NEW k \in good PROVE k + 1 \in good
  <2>1. k \in Nat
    OBVIOUS
  <2>2. PICK f : f = [n \in 0 .. k |-> Round(f, n)]
    OBVIOUS
  <2>. DEFINE g == [n \in 0 .. k + 1 |-> Round(f, n)]
  <2>3. \A n \in 0 .. k : g[n] = f[n]
    <3>. HIDE DEF Round
    <3>1. \A n \in 0 .. k : f[n] = Round(f, n)
      BY <2>2
    <3>. QED BY <2>1, <3>1
  <2>4. \A n \in 0 .. k + 1 : Round(g, n) = Round(f, n)
    <3>. TAKE n \in 0 .. k + 1
    <3>1. n # 0 => n - 1 \in 0 .. k
      BY <2>1
    <3>2. n # 0 => g[n - 1] = f[n - 1]
      BY <2>3, <3>1
    <3>. HIDE DEF g, refs, first
    <3>. QED BY <3>2
  <2>5. g = [n \in 0 .. k + 1 |-> Round(g, n)]
    <3>1. \A n \in 0 .. k + 1 : g[n] = Round(g, n)
      BY <2>4
    <3>. HIDE DEF Round
    <3>. QED BY <3>1
  <2>. HIDE DEF g, Round
  <2>. QED BY <2>1, <2>5
<1>4. good = Nat
  <2>1. good \subseteq Nat
    OBVIOUS
  <2>. HIDE DEF good
  <2>. QED BY <1>2, <1>3, <2>1, Counting
<1>5. round = [n \in 0 .. size |-> Round(round, n)]
  <2>1. size \in good
    <3>. HIDE DEF good
    <3>. QED BY <1>0, <1>4
  <2>2. \E f : f = [n \in 0 .. size |-> Round(f, n)]
    BY <2>1
  <2>. HIDE DEF Round
  <2>. QED BY <2>2
<1>6. \A n \in 0 .. size : round[n] = Round(round, n)
  <2>. HIDE DEF Round, round
  <2>. QED BY <1>5
<1>. HIDE DEF round, good
<1>7. round[0] = first /\ \A n \in Nat : n < size => round[n + 1] = round[n] \cup refs(round[n])
  <2>1. 0 \in 0 .. size
    BY <1>0
  <2>2. ASSUME NEW n \in Nat, n < size PROVE round[n + 1] = round[n] \cup refs(round[n])
    <3>1. n + 1 \in 0 .. size /\ n + 1 # 0 /\ (n + 1) - 1 = n
      BY <1>0, <2>2
    <3>. HIDE DEF refs, first
    <3>. QED BY <1>6, <3>1
  <2>. QED BY <1>6, <2>1, <2>2
<1>. HIDE DEF Round
<1>8. \A F : refs(F) \subseteq Seen(repo, unreadable)
  BY DEF Seen, KnownFiles
<1>9. first \subseteq Seen(repo, unreadable) /\ Rollup \in first
  BY <1>0 DEF Seen, KnownFiles
<1>10. CalledBy(repo, Rollup) \cap Seen(repo, unreadable) \subseteq first \cup refs(first)
  <2>1. Rollup \in first
    BY <1>9
  <2>2. CalledBy(repo, Rollup) \subseteq UNION {CalledBy(repo, f) : f \in first}
    <3>. HIDE DEF first
    <3>. QED BY <2>1
  <2>3. CalledBy(repo, Rollup) \cap Reusables \cap there \subseteq refs(first)
    <3>. HIDE DEF first
    <3>. QED BY <2>2
  <2>4. ({Rollup} \cup ScheduledEntries) \cap there = first
    OBVIOUS
  <2>. HIDE DEF first, refs
  <2>. QED BY <2>3, <2>4 DEF Seen, KnownFiles
<1>. HIDE DEF first, refs
<1>. DEFINE fair == {k \in Nat : k < size => /\ round[k + 1] \subseteq Seen(repo, unreadable)
                                             /\ first \cup refs(first) \subseteq round[k + 1]}
<1>11. 0 \in fair
  <2>1. round[1] = first \cup refs(first)
    BY <1>0, <1>7
  <2>. QED BY <1>8, <1>9, <2>1
<1>12. ASSUME NEW k \in fair PROVE k + 1 \in fair
  <2>. SUFFICES ASSUME k + 1 < size PROVE /\ round[(k + 1) + 1] \subseteq Seen(repo, unreadable)
                                          /\ first \cup refs(first) \subseteq round[(k + 1) + 1]
    OBVIOUS
  <2>1. k \in Nat /\ k < size /\ k + 1 \in Nat
    BY <1>0
  <2>2. round[k + 1] \subseteq Seen(repo, unreadable) /\ first \cup refs(first) \subseteq round[k + 1]
    BY <2>1
  <2>3. round[(k + 1) + 1] = round[k + 1] \cup refs(round[k + 1])
    BY <1>7, <2>1
  <2>. QED BY <1>8, <2>2, <2>3
<1>13. fair = Nat
  <2>1. fair \subseteq Nat
    OBVIOUS
  <2>. HIDE DEF fair
  <2>. QED BY <1>11, <1>12, <2>1, Counting
<1>14. size - 1 \in Nat /\ size - 1 < size /\ (size - 1) + 1 = size
  BY <1>0
<1>15. size - 1 \in fair
  <2>. HIDE DEF fair
  <2>. QED BY <1>13, <1>14
<1>16. round[(size - 1) + 1] \subseteq Seen(repo, unreadable) /\ first \cup refs(first) \subseteq round[(size - 1) + 1]
  BY <1>14, <1>15
<1>17. round[size] \subseteq Seen(repo, unreadable) /\ first \cup refs(first) \subseteq round[size]
  BY <1>14, <1>16
<1>. QED BY <1>1, <1>9, <1>10, <1>17

\* The names of the checks a job of the rollup stands for.
NamesFrom(job, leaf, source) == {Name(LabelOf(job), leaf, i) : i \in Range(Instances(source))}
CheckNames(files, job) ==
  CASE job.uses = Nil                               -> NamesFrom(job, Nil, job)
    [] job.uses # Nil /\ job.uses \notin DOMAIN files -> {Name(LabelOf(job), Nil, 0)}
    [] OTHER -> UNION {NamesFrom(job, LabelOf(inner), inner) : inner \in Range(JobsIn(files[job.uses]))}
\* Does the rollup run the job in the queue?
Queued(rollup, job) == "merge_group" \in NarrowEvents(Triggers(rollup), job.guard)
\* A node of a job of the rollup.
Stands(files, job, n) ==
  /\ n.check \in CheckNames(files, job) /\ n.caller = job.id
  /\ "merge_group" \in n.events <=> Queued(files[Rollup], job)
  /\ \A a \in n.at : a.file = Rollup => a.job = job.id
  /\ \E a \in n.at : a.file = Rollup

\* Files read from a repository.
AreFiles(files) ==
  /\ Rollup \in DOMAIN files /\ IsRollup(files[Rollup])
  /\ \A f \in DOMAIN files : IsFile(files[f]) /\ (f # Rollup => "merge_group" \notin Triggers(files[f]))

\* The instances of a job, one after the other.
LEMMA InstancesIs ==
  ASSUME NEW job, job.matrix \in Nat
  PROVE  Instances(job) \in Seq(Nat) /\ \E n \in Nat : DOMAIN Instances(job) = 1 .. n
<1>1. CASE job.matrix = 0
  <2>1. <<0>> \in Seq(Nat) /\ DOMAIN <<0>> = 1 .. 1
    OBVIOUS
  <2>. QED BY <1>1, <2>1 DEF Instances
<1>2. CASE job.matrix # 0
  <2>1. [i \in 1 .. job.matrix |-> i] \in Seq(Nat)
    BY SeqDef
  <2>. QED BY <1>2, <2>1 DEF Instances
<1>. QED BY <1>1, <1>2

\* One node for each instance.
LEMMA NodesPerInstance ==
  ASSUME NEW source, source.matrix \in Nat, NEW label, NEW leaf, NEW job, NEW events, NEW at, NEW low,
         NEW s, s = [k \in DOMAIN Instances(source) |->
                       Node(Name(label, leaf, Instances(source)[k]), job, events, at, low)]
  PROVE  /\ s \in Seq(Range(s))
         /\ Range(s) = {Node(Name(label, leaf, i), job, events, at, low) : i \in Range(Instances(source))}
<1>1. PICK n \in Nat : DOMAIN Instances(source) = 1 .. n
  BY InstancesIs
<1>2. DOMAIN s = 1 .. n /\ \A k \in 1 .. n : s[k] = Node(Name(label, leaf, Instances(source)[k]), job, events, at, low)
  BY <1>1
<1>3. s \in Seq(Range(s))
  <2>1. s = [k \in 1 .. n |-> s[k]] /\ \A k \in 1 .. n : s[k] \in Range(s)
    BY <1>1, <1>2 DEF Range
  <2>. QED BY <2>1, SeqDef
<1>. QED BY <1>1, <1>2, <1>3 DEF Range

\* Only the rollup brings the queue to a reusable workflow.
LEMMA EntriesAreNotQueued ==
  ASSUME NEW files, AreFiles(files), NEW f
  PROVE  "merge_group" \notin ReusableEntryEvents(files, f)
  BY DEF AreFiles, ReusableEntryEvents

LEMMA NodesAre ==
  ASSUME NEW files, AreFiles(files), NEW job \in Range(JobsIn(files[Rollup])),
         NEW nodes, nodes = NodesOfJob(files, job)
  PROVE  /\ \E T : nodes \in Seq(T)
         /\ \A n \in Range(nodes) : Stands(files, job, n)
         /\ \A c \in CheckNames(files, job) : \E n \in Range(nodes) : n.check = c
<1>. DEFINE events   == NarrowEvents(Triggers(files[Rollup]), job.guard)
            unclear  == job.guard.kind = "complex"
            here     == Anchor(Rollup, job)
            everMore == events \cup ReusableEntryEvents(files, job.uses)
            At(inner)   == {here, Anchor(job.uses, inner)}
            Low(inner)  == unclear \/ inner.uses # Nil \/ job.matrix # 0
            leaf(inner) ==
              [k \in DOMAIN Instances(inner) |->
                 Node(Name(LabelOf(job), LabelOf(inner), Instances(inner)[k]), job, everMore, At(inner), Low(inner))]
<1>1. IsJob(job) /\ job.uses # Rollup /\ here.file = Rollup /\ here.job = job.id
  BY DEF AreFiles, IsFile, IsRollup, Anchor
<1>2. "merge_group" \in everMore <=> Queued(files[Rollup], job)
  BY EntriesAreNotQueued DEF Queued
<1>3. "merge_group" \in events <=> Queued(files[Rollup], job)
  BY DEF Queued
<1>. HIDE DEF events, unclear, here
<1>4. CASE job.uses = Nil
  <2>1. nodes = [k \in DOMAIN Instances(job) |->
                   Node(Name(LabelOf(job), Nil, Instances(job)[k]), job, events, {here}, unclear)]
    BY <1>4 DEF NodesOfJob, events, unclear, here
  <2>2. /\ nodes \in Seq(Range(nodes))
        /\ Range(nodes) = {Node(Name(LabelOf(job), Nil, i), job, events, {here}, unclear) : i \in Range(Instances(job))}
    <3>1. job.matrix \in Nat
      BY <1>1 DEF IsJob
    <3>2. PICK label, low, at : label = LabelOf(job) /\ low = unclear /\ at = {here}
      OBVIOUS
    <3>3. nodes = [k \in DOMAIN Instances(job) |-> Node(Name(label, Nil, Instances(job)[k]), job, events, at, low)]
      BY <2>1, <3>2
    <3>4. /\ nodes \in Seq(Range(nodes))
          /\ Range(nodes) = {Node(Name(label, Nil, i), job, events, at, low) : i \in Range(Instances(job))}
      BY ONLY <3>1, <3>3, NodesPerInstance
    <3>. HIDE DEF everMore, leaf
    <3>. QED BY <3>2, <3>4
  <2>3. CheckNames(files, job) = {Name(LabelOf(job), Nil, i) : i \in Range(Instances(job))}
    BY <1>4 DEF CheckNames, NamesFrom
  <2>4. ASSUME NEW i \in Range(Instances(job)), NEW n, n = Node(Name(LabelOf(job), Nil, i), job, events, {here}, unclear)
        PROVE  Stands(files, job, n) /\ n.check = Name(LabelOf(job), Nil, i)
    <3>1. /\ n.check = Name(LabelOf(job), Nil, i) /\ n.caller = job.id /\ n.events = events /\ n.at = {here}
      BY <2>4 DEF Node
    <3>. QED BY <1>1, <1>3, <2>3, <3>1 DEF Stands
  <2>. HIDE DEF everMore, leaf
  <2>. QED BY <2>2, <2>3, <2>4
<1>5. CASE job.uses # Nil /\ job.uses \notin DOMAIN files
  <2>1. nodes = <<Node(Name(LabelOf(job), Nil, 0), job, everMore, {here}, TRUE)>>
    BY <1>5 DEF NodesOfJob, events, unclear, here
  <2>2. CheckNames(files, job) = {Name(LabelOf(job), Nil, 0)}
    BY <1>5 DEF CheckNames
  <2>3. PICK n : n = Node(Name(LabelOf(job), Nil, 0), job, everMore, {here}, TRUE)
    OBVIOUS
  <2>4. n.check = Name(LabelOf(job), Nil, 0) /\ n.caller = job.id /\ n.events = everMore /\ n.at = {here}
    BY <2>3 DEF Node
  <2>. HIDE DEF everMore, leaf
  <2>5. nodes \in Seq({n}) /\ Range(nodes) = {n}
    <3>1. nodes = <<n>>
      BY <2>1, <2>3
    <3>. QED BY <3>1 DEF Range
  <2>6. Stands(files, job, n)
    BY <1>1, <1>2, <2>2, <2>4 DEF Stands
  <2>. QED BY <2>2, <2>4, <2>5, <2>6
<1>6. CASE job.uses # Nil /\ job.uses \in DOMAIN files
  <2>. HIDE DEF everMore
  <2>. DEFINE jobs  == JobsIn(files[job.uses])
              parts == [k \in DOMAIN jobs |-> leaf(jobs[k])]
              T     == UNION {Range(leaf(inner)) : inner \in Range(jobs)}
  <2>1. nodes = FlattenSeq(parts)
    BY <1>6 DEF NodesOfJob, events, unclear, here, everMore
  <2>2. PICK J : jobs \in Seq(J)
    BY <1>6 DEF AreFiles, IsFile
  <2>3. \A inner \in Range(jobs) : IsJob(inner)
    BY <1>6 DEF AreFiles, IsFile
  <2>4. ASSUME NEW inner \in Range(jobs)
        PROVE  /\ leaf(inner) \in Seq(T)
               /\ Range(leaf(inner)) = {Node(Name(LabelOf(job), LabelOf(inner), i), job, everMore, At(inner), Low(inner)) :
                                          i \in Range(Instances(inner))}
    <3>1. PICK s : s = leaf(inner)
      OBVIOUS
    <3>2. /\ s \in Seq(Range(s))
          /\ Range(s) = {Node(Name(LabelOf(job), LabelOf(inner), i), job, everMore, At(inner), Low(inner)) :
                           i \in Range(Instances(inner))}
      <4>1. inner.matrix \in Nat
        BY <2>3 DEF IsJob
      <4>. HIDE DEF everMore, At, Low
      <4>. QED BY <3>1, <4>1, NodesPerInstance
    <3>3. Range(s) \subseteq T
      <4>. HIDE DEF leaf, jobs
      <4>. QED BY <3>1
    <3>. HIDE DEF T
    <3>4. s \in Seq(T)
      <4>1. Len(s) \in Nat /\ DOMAIN s = 1 .. Len(s) /\ s = [k \in 1 .. Len(s) |-> s[k]]
        BY <3>2, LenProperties
      <4>2. \A k \in 1 .. Len(s) : s[k] \in T
        BY <3>3, <4>1 DEF Range
      <4>. QED BY <4>1, <4>2, SeqDef
    <3>. HIDE DEF leaf
    <3>. QED BY <3>1, <3>2, <3>4
  <2>5. parts \in Seq({leaf(inner) : inner \in Range(jobs)}) /\ DOMAIN parts = DOMAIN jobs
    <3>1. Len(jobs) \in Nat /\ DOMAIN jobs = 1 .. Len(jobs)
      BY <2>2, LenProperties
    <3>. HIDE DEF leaf, jobs
    <3>2. \A k \in 1 .. Len(jobs) : parts[k] \in {leaf(inner) : inner \in Range(jobs)}
      BY <3>1 DEF Range
    <3>. QED BY <3>1, <3>2, SeqDef
  <2>6. \A k \in DOMAIN parts : parts[k] \in Seq(T) /\ jobs[k] \in Range(jobs) /\ parts[k] = leaf(jobs[k])
    <3>. HIDE DEF leaf, T, jobs
    <3>. QED BY <2>4, <2>5 DEF Range
  <2>7. nodes \in Seq(T) /\ Range(nodes) = UNION {Range(parts[k]) : k \in DOMAIN parts}
    <3>. HIDE DEF T, parts, leaf, jobs
    <3>. QED BY <2>1, <2>5, <2>6, Flattened
  <2>8. Range(nodes) = UNION {Range(leaf(inner)) : inner \in Range(jobs)}
    <3>1. Range(jobs) = {jobs[k] : k \in DOMAIN parts}
      BY <2>5 DEF Range
    <3>. HIDE DEF leaf, jobs, parts
    <3>. QED BY <2>6, <2>7, <3>1
  <2>9. CheckNames(files, job) =
          UNION {{Name(LabelOf(job), LabelOf(inner), i) : i \in Range(Instances(inner))} : inner \in Range(jobs)}
    BY <1>6 DEF CheckNames, NamesFrom
  <2>. HIDE DEF jobs, parts, T, leaf
  <2>10. ASSUME NEW n \in Range(nodes) PROVE Stands(files, job, n)
    <3>1. PICK inner \in Range(jobs) : n \in Range(leaf(inner))
      BY <2>8
    <3>2. PICK i \in Range(Instances(inner)) :
             n = Node(Name(LabelOf(job), LabelOf(inner), i), job, everMore, At(inner), Low(inner))
      BY <2>4, <3>1
    <3>3. n.check \in CheckNames(files, job)
      BY <2>9, <3>2 DEF Node
    <3>4. n.caller = job.id /\ n.events = everMore /\ n.at = {here, Anchor(job.uses, inner)}
      BY <3>2 DEF Node
    <3>5. Anchor(job.uses, inner).file # Rollup
      BY <1>1 DEF Anchor
    <3>. HIDE DEF everMore
    <3>. QED BY <1>1, <1>2, <3>3, <3>4, <3>5 DEF Stands
  <2>11. ASSUME NEW c \in CheckNames(files, job) PROVE \E n \in Range(nodes) : n.check = c
    <3>0. PICK inner \in Range(jobs) : c \in {Name(LabelOf(job), LabelOf(inner), i) : i \in Range(Instances(inner))}
      BY <2>9
    <3>1. PICK i \in Range(Instances(inner)) : c = Name(LabelOf(job), LabelOf(inner), i)
      BY <3>0
    <3>2. Node(c, job, everMore, At(inner), Low(inner)) \in Range(leaf(inner))
      BY <2>4, <3>1
    <3>3. Node(c, job, everMore, At(inner), Low(inner)).check = c
      BY DEF Node
    <3>. QED BY <2>8, <3>2, <3>3
  <2>. QED BY <2>7, <2>10, <2>11
<1>. QED BY <1>4, <1>5, <1>6

\* What the jobs of a rollup need, and the jobs that gate a merge.
NeedsMap(rollup)  == [id \in JobIds(rollup) |-> (CHOOSE j \in Range(JobsIn(rollup)) : j.id = id).needs]
Gate(rollup, job) == Queued(rollup, job) /\ job.id \in NeedsClosure(NeedsMap(rollup)) \ Conditional
GateJobs(rollup)  == {j \in Range(JobsIn(rollup)) : Gate(rollup, j)}

\* A check has the label of its job, and jobs of the rollup have different labels.
LEMMA OneJob ==
  ASSUME NEW files, AreFiles(files), NEW more, AreFiles(more),
         NEW i \in Range(JobsIn(files[Rollup])), NEW j \in Range(JobsIn(files[Rollup])),
         NEW c, c \in CheckNames(files, i), c \in CheckNames(more, j)
  PROVE  i = j /\ c.label = LabelOf(i)
<1>1. ASSUME NEW f, NEW job, NEW x \in CheckNames(f, job) PROVE x.label = LabelOf(job)
  <2>1. CASE job.uses = Nil
    BY <1>1, <2>1 DEF CheckNames, NamesFrom, Name
  <2>2. CASE job.uses # Nil /\ job.uses \notin DOMAIN f
    BY <1>1, <2>2 DEF CheckNames, Name
  <2>3. CASE job.uses # Nil /\ job.uses \in DOMAIN f
    <3>1. CheckNames(f, job) = UNION {NamesFrom(job, LabelOf(inner), inner) : inner \in Range(JobsIn(f[job.uses]))}
      BY <2>3 DEF CheckNames
    <3>2. PICK inner \in Range(JobsIn(f[job.uses])) : x \in NamesFrom(job, LabelOf(inner), inner)
      BY <3>1
    <3>. QED BY <3>2 DEF NamesFrom, Name
  <2>. QED BY <2>1, <2>2, <2>3
<1>2. c.label = LabelOf(i) /\ c.label = LabelOf(j)
  BY <1>1
<1>3. i.id = j.id
  BY <1>2 DEF AreFiles, IsRollup
<1>4. IsFile(files[Rollup])
  BY DEF AreFiles
<1>. QED BY <1>2, <1>3, <1>4 DEF IsFile

LEMMA GraphIs ==
  ASSUME NEW files, AreFiles(files), NEW graph, graph = DeriveStaticGraph(files)
  PROVE  /\ graph.needs = NeedsMap(files[Rollup])
         /\ \A n \in Range(graph.checks) : \E j \in Range(JobsIn(files[Rollup])) : Stands(files, j, n)
         /\ \A j \in Range(JobsIn(files[Rollup])) : \A c \in CheckNames(files, j) :
              \E n \in Range(graph.checks) : n.check = c /\ Stands(files, j, n)
<1>. DEFINE jobs  == JobsIn(files[Rollup])
            Of(j) == NodesOfJob(files, j)
            parts == [k \in DOMAIN jobs |-> Of(jobs[k])]
<1>0. graph.checks = FlattenSeq(parts) /\ graph.needs = NeedsMap(files[Rollup])
  BY DEF DeriveStaticGraph, NeedsMap
<1>1. PICK J : jobs \in Seq(J)
  BY DEF AreFiles, IsFile
<1>2. Len(jobs) \in Nat /\ DOMAIN jobs = 1 .. Len(jobs) /\ \A k \in DOMAIN jobs : jobs[k] \in Range(jobs)
  BY <1>1, LenProperties DEF Range
<1>3. ASSUME NEW j \in Range(jobs)
      PROVE  /\ Of(j) \in Seq(Range(Of(j)))
             /\ \A n \in Range(Of(j)) : Stands(files, j, n)
             /\ \A c \in CheckNames(files, j) : \E n \in Range(Of(j)) : n.check = c
  <2>1. PICK nodes : nodes = Of(j)
    OBVIOUS
  <2>2. /\ \E T : nodes \in Seq(T)
        /\ \A n \in Range(nodes) : Stands(files, j, n)
        /\ \A c \in CheckNames(files, j) : \E n \in Range(nodes) : n.check = c
    BY <2>1, NodesAre
  <2>3. Len(nodes) \in Nat /\ DOMAIN nodes = 1 .. Len(nodes) /\ nodes = [k \in 1 .. Len(nodes) |-> nodes[k]]
    BY <2>2, LenProperties
  <2>4. nodes \in Seq(Range(nodes))
    <3>1. \A k \in 1 .. Len(nodes) : nodes[k] \in Range(nodes)
      BY <2>3 DEF Range
    <3>. QED BY <2>3, <3>1, SeqDef
  <2>. HIDE DEF Of, jobs
  <2>. QED BY <2>1, <2>2, <2>4
<1>. DEFINE T == UNION {Range(Of(j)) : j \in Range(jobs)}
<1>. HIDE DEF Of, jobs
<1>4. DOMAIN parts = DOMAIN jobs /\ \A k \in DOMAIN jobs : parts[k] = Of(jobs[k])
  OBVIOUS
<1>5. parts \in Seq({Of(j) : j \in Range(jobs)})
  <2>1. \A k \in 1 .. Len(jobs) : parts[k] \in {Of(j) : j \in Range(jobs)}
    BY <1>2, <1>4
  <2>. QED BY <1>2, <2>1, SeqDef
<1>6. \A k \in DOMAIN parts : parts[k] \in Seq(T)
  <2>1. ASSUME NEW s, NEW k \in DOMAIN parts, s = parts[k] PROVE s \in Seq(T)
    <3>0. PICK j \in Range(jobs) : s = Of(j)
      BY <1>2, <1>4, <2>1
    <3>1. s \in Seq(Range(s)) /\ Range(s) \subseteq T
      BY <1>3, <3>0
    <3>2. Len(s) \in Nat /\ DOMAIN s = 1 .. Len(s) /\ s = [i \in 1 .. Len(s) |-> s[i]]
      BY <3>1, LenProperties
    <3>3. \A i \in 1 .. Len(s) : s[i] \in T
      BY <3>1, <3>2 DEF Range
    <3>. HIDE DEF T
    <3>. QED BY <3>2, <3>3, SeqDef
  <2>. HIDE DEF T, parts
  <2>. QED BY <2>1
<1>7. Range(graph.checks) = UNION {Range(parts[k]) : k \in DOMAIN parts}
  <2>. HIDE DEF T, parts
  <2>. QED BY <1>0, <1>5, <1>6, Flattened
<1>. HIDE DEF parts
<1>8. ASSUME NEW n \in Range(graph.checks) PROVE \E j \in Range(jobs) : Stands(files, j, n)
  <2>1. PICK k \in DOMAIN jobs : n \in Range(parts[k])
    BY <1>4, <1>7
  <2>. QED BY <1>2, <1>3, <1>4, <2>1
<1>9. ASSUME NEW j \in Range(jobs), NEW c \in CheckNames(files, j)
      PROVE  \E n \in Range(graph.checks) : n.check = c /\ Stands(files, j, n)
  <2>1. PICK n \in Range(Of(j)) : n.check = c /\ Stands(files, j, n)
    BY <1>3
  <2>2. PICK k \in DOMAIN jobs : j = jobs[k]
    BY DEF Range
  <2>. QED BY <1>4, <1>7, <2>1, <2>2
<1>. QED BY <1>0, <1>8, <1>9 DEF jobs

\* The required checks of a model are those of the jobs that gate; a check is at its
\* job in the rollup, and at no other job there.
LEMMA ModelIs ==
  ASSUME NEW files, AreFiles(files), NEW observed, NEW graph, graph = DeriveStaticGraph(files),
         NEW model, model = AssembleDerivedModel(graph, GatingClosure(graph, Conditional), observed),
         NEW jobs, jobs = Range(JobsIn(files[Rollup]))
  PROVE  /\ model.checks = UNION {CheckNames(files, j) : j \in jobs}
         /\ RequiredStatically(model) = UNION {CheckNames(files, j) : j \in GateJobs(files[Rollup])}
         /\ \A j \in jobs : \A c \in CheckNames(files, j) :
              /\ \A a \in model.meta[c].at : a.file = Rollup => a.job = j.id
              /\ \E a \in model.meta[c].at : a.file = Rollup
<1>. DEFINE gating  == GatingClosure(graph, Conditional)
            nodes   == Range(graph.checks)
            closure == NeedsClosure(graph.needs)
            Here(c) == {n \in nodes : n.check = c}
<1>1. /\ graph.needs = NeedsMap(files[Rollup])
      /\ \A n \in nodes : \E j \in jobs : Stands(files, j, n)
      /\ \A j \in jobs : \A c \in CheckNames(files, j) : \E n \in nodes : n.check = c /\ Stands(files, j, n)
  BY GraphIs
<1>2. model.checks = {n.check : n \in nodes} /\ model.meta = [c \in model.checks |-> MetaOf(graph, gating, c)]
  BY DEF AssembleDerivedModel
<1>3. gating.callers = closure \ Conditional
      /\ DOMAIN gating.gates = {n.check : n \in {n \in nodes : n.caller \in closure}}
      /\ \A c \in DOMAIN gating.gates :
           gating.gates[c] = (UNION {n.events : n \in {n \in nodes : n.check = c /\ n.caller \in closure}}) \cap GatingEvents
  BY DEF GatingClosure
<1>4. \A c \in model.checks :
        /\ model.meta[c].at = UNION {n.at : n \in Here(c)}
        /\ model.meta[c].required <=> /\ c \in DOMAIN gating.gates /\ "merge_group" \in gating.gates[c]
                                      /\ \E n \in Here(c) : n.caller \in gating.callers
  <2>. TAKE c \in model.checks
  <2>1. model.meta[c] = MetaOf(graph, gating, c)
    BY <1>2
  <2>. HIDE DEF gating
  <2>. QED BY <2>1 DEF MetaOf
<1>. HIDE DEF gating, nodes, closure
<1>5. ASSUME NEW n \in nodes PROVE \E j \in jobs : Stands(files, j, n) /\ n.check \in CheckNames(files, j)
  BY <1>1 DEF Stands
<1>6. model.checks = UNION {CheckNames(files, j) : j \in jobs}
  BY <1>1, <1>2, <1>5
<1>7. ASSUME NEW j \in jobs, NEW c \in CheckNames(files, j)
      PROVE  /\ \A n \in Here(c) : Stands(files, j, n)
             /\ \E n \in Here(c) : TRUE
  <2>1. \A i \in jobs : c \in CheckNames(files, i) => i = j
    BY OneJob
  <2>. QED BY <1>1, <1>5, <2>1
<1>8. ASSUME NEW j \in jobs, NEW c \in CheckNames(files, j)
      PROVE  /\ \A a \in model.meta[c].at : a.file = Rollup => a.job = j.id
             /\ \E a \in model.meta[c].at : a.file = Rollup
             /\ model.meta[c].required <=> j \in GateJobs(files[Rollup])
  <2>0. c \in model.checks
    BY <1>6
  <2>1. \A n \in Here(c) : /\ n.caller = j.id /\ ("merge_group" \in n.events <=> Queued(files[Rollup], j))
                           /\ (\A a \in n.at : a.file = Rollup => a.job = j.id)
                           /\ (\E a \in n.at : a.file = Rollup)
    BY <1>7 DEF Stands
  <2>2. PICK n \in Here(c) : TRUE
    BY <1>7
  <2>3. model.meta[c].at = UNION {x.at : x \in Here(c)}
    BY <1>4, <2>0
  <2>4. j.id \in closure => /\ c \in DOMAIN gating.gates
                            /\ "merge_group" \in gating.gates[c] <=> Queued(files[Rollup], j)
    <3>. SUFFICES ASSUME j.id \in closure
                  PROVE /\ c \in DOMAIN gating.gates
                        /\ "merge_group" \in gating.gates[c] <=> Queued(files[Rollup], j)
      OBVIOUS
    <3>1. n \in nodes /\ n.check = c /\ n.caller \in closure
      BY <2>1
    <3>2. c \in DOMAIN gating.gates
      BY <1>3, <3>1
    <3>3. gating.gates[c] = (UNION {x.events : x \in {x \in nodes : x.check = c /\ x.caller \in closure}}) \cap GatingEvents
      BY <1>3, <3>2
    <3>4. "merge_group" \in GatingEvents
      BY DEF GatingEvents
    <3>5. \A x \in {x \in nodes : x.check = c /\ x.caller \in closure} : x \in Here(c)
      OBVIOUS
    <3>. HIDE DEF Here
    <3>. QED BY <2>1, <3>1, <3>2, <3>3, <3>4, <3>5
  <2>5. j \in GateJobs(files[Rollup]) <=> Queued(files[Rollup], j) /\ j.id \in closure \ Conditional
    BY <1>1 DEF GateJobs, Gate, closure
  <2>6. (\E x \in Here(c) : x.caller \in gating.callers) <=> j.id \in closure \ Conditional
    BY <1>3, <2>1, <2>2
  <2>. HIDE DEF Here
  <2>7. model.meta[c].required <=> j \in GateJobs(files[Rollup])
    BY <1>4, <2>0, <2>4, <2>5, <2>6
  <2>. QED BY <2>1, <2>2, <2>3, <2>7
<1>9. RequiredStatically(model) = UNION {CheckNames(files, j) : j \in GateJobs(files[Rollup])}
  <2>1. GateJobs(files[Rollup]) \subseteq jobs
    BY DEF GateJobs
  <2>. QED BY <1>6, <1>8, <2>1 DEF RequiredStatically
<1>. QED BY <1>6, <1>8, <1>9

\* The gates of a repository of which some files cannot be read.
SeenGates(repo, unreadable) == UNION {CheckNames(FilesOf(repo, unreadable), j) : j \in GateJobs(repo[Rollup])}

LEMMA DerivedIs ==
  ASSUME NEW repo, IsRepository(repo), NEW unreadable, Derivable(repo, unreadable), NEW observed,
         NEW model, model = ComputeProtectionMap(repo, unreadable, Conditional, observed),
         NEW files, files = FilesOf(repo, unreadable),
         NEW jobs, jobs = Range(JobsIn(repo[Rollup]))
  PROVE  /\ AreFiles(files) /\ files[Rollup] = repo[Rollup]
         /\ \A f \in DOMAIN files : files[f] = repo[f]
         /\ DOMAIN files \subseteq Seen(repo, unreadable)
         /\ \A j \in jobs : j.uses # Nil => (j.uses \in DOMAIN files <=> j.uses \in Seen(repo, unreadable))
         /\ model.checks = UNION {CheckNames(files, j) : j \in jobs}
         /\ RequiredStatically(model) = SeenGates(repo, unreadable)
         /\ \A j \in jobs : \A c \in CheckNames(files, j) :
              /\ \A a \in model.meta[c].at : a.file = Rollup => a.job = j.id
              /\ \E a \in model.meta[c].at : a.file = Rollup
<1>0. Rollup \in DOMAIN repo
  BY DEF Derivable
<1>1. /\ DOMAIN files \subseteq Seen(repo, unreadable) /\ Rollup \in DOMAIN files
      /\ CalledBy(repo, Rollup) \cap Seen(repo, unreadable) \subseteq DOMAIN files
  BY FetchedIs DEF IsRepository, FilesOf
<1>2. \A f \in DOMAIN files : f \in DOMAIN repo /\ files[f] = repo[f]
  BY <1>1 DEF FilesOf, Seen
<1>3. AreFiles(files) /\ files[Rollup] = repo[Rollup]
  BY <1>0, <1>1, <1>2 DEF AreFiles, IsRepository
<1>4. ASSUME NEW j \in jobs, j.uses # Nil PROVE j.uses \in CalledBy(repo, Rollup)
  BY <1>0, <1>4 DEF CalledBy
<1>5. PICK graph : graph = DeriveStaticGraph(files)
  OBVIOUS
<1>6. model = AssembleDerivedModel(graph, GatingClosure(graph, Conditional), observed)
  BY <1>5 DEF ComputeProtectionMap, FilesOf
<1>7. jobs = Range(JobsIn(files[Rollup]))
  BY <1>3
<1>8. /\ model.checks = UNION {CheckNames(files, j) : j \in jobs}
      /\ RequiredStatically(model) = UNION {CheckNames(files, j) : j \in GateJobs(files[Rollup])}
      /\ \A j \in jobs : \A c \in CheckNames(files, j) :
           /\ \A a \in model.meta[c].at : a.file = Rollup => a.job = j.id
           /\ \E a \in model.meta[c].at : a.file = Rollup
  BY <1>3, <1>5, <1>6, <1>7, ModelIs
<1>. QED BY <1>1, <1>2, <1>3, <1>4, <1>8 DEF SeenGates

\* A job of a file is told by its id.
LEMMA JobIs ==
  ASSUME NEW file, IsFile(file), NEW job \in Range(JobsIn(file))
  PROVE  JobOfId(file, job.id) = job /\ job.id \in JobIds(file)
  BY DEF JobOfId, JobIds, IsFile

\* The gates of a repository, and those of a job that tolerates failures.
LEMMA GatesAre ==
  ASSUME NEW repo, IsRepository(repo), Rollup \in DOMAIN repo,
         NEW files, files = FilesOf(repo, {}), NEW jobs, jobs = Range(JobsIn(repo[Rollup]))
  PROVE  /\ Gates(repo) = SeenGates(repo, {})
         /\ \A c : c \in TolerantGates(repo) <=> c \in Gates(repo) /\ \E j \in jobs : c \in CheckNames(files, j) /\ j.tolerant
<1>1. Derivable(repo, {})
  BY DEF Derivable
<1>2. PICK model : model = ComputeProtectionMap(repo, {}, Conditional, <<>>)
  OBVIOUS
<1>3. /\ model.checks = UNION {CheckNames(files, j) : j \in jobs}
      /\ RequiredStatically(model) = SeenGates(repo, {})
      /\ \A j \in jobs : \A c \in CheckNames(files, j) :
           /\ \A a \in model.meta[c].at : a.file = Rollup => a.job = j.id
           /\ \E a \in model.meta[c].at : a.file = Rollup
  BY <1>1, <1>2, DerivedIs
<1>4. Gates(repo) = SeenGates(repo, {})
  BY <1>2, <1>3 DEF Gates
<1>5. \A j \in jobs : JobOfId(repo[Rollup], j.id) = j
  BY JobIs DEF IsRepository
<1>6. \A c \in Gates(repo) : \E j \in jobs : c \in CheckNames(files, j)
  BY <1>4 DEF SeenGates, GateJobs
<1>7. TolerantGates(repo) =
        {c \in Gates(repo) : \E a \in model.meta[c].at : a.file = Rollup /\ JobOfId(repo[Rollup], a.job).tolerant}
  BY <1>2 DEF TolerantGates
<1>8. ASSUME NEW c \in Gates(repo)
      PROVE  c \in TolerantGates(repo) <=> \E j \in jobs : c \in CheckNames(files, j) /\ j.tolerant
  <2>1. c \in TolerantGates(repo) <=> \E a \in model.meta[c].at : a.file = Rollup /\ JobOfId(repo[Rollup], a.job).tolerant
    BY <1>7
  <2>2. ASSUME NEW a \in model.meta[c].at, a.file = Rollup, JobOfId(repo[Rollup], a.job).tolerant
        PROVE  \E j \in jobs : c \in CheckNames(files, j) /\ j.tolerant
    <3>1. PICK j \in jobs : c \in CheckNames(files, j)
      BY <1>6
    <3>2. a.job = j.id /\ JobOfId(repo[Rollup], j.id) = j
      BY <1>3, <1>5, <2>2, <3>1
    <3>. QED BY <2>2, <3>1, <3>2
  <2>3. ASSUME NEW j \in jobs, c \in CheckNames(files, j), j.tolerant
        PROVE  \E a \in model.meta[c].at : a.file = Rollup /\ JobOfId(repo[Rollup], a.job).tolerant
    <3>1. PICK a \in model.meta[c].at : a.file = Rollup /\ a.job = j.id
      BY <1>3, <2>3
    <3>. QED BY <1>5, <2>3, <3>1
  <2>. QED BY <2>1, <2>2, <2>3
<1>. QED BY <1>4, <1>7, <1>8

\* What an edit leaves of a job, and of a file: it adds no job, and makes none of a
\* different name, or with other instances.
SameJob(new, old) == new.id = old.id /\ new.name = old.name /\ new.uses = old.uses /\ new.matrix = old.matrix
Edit(new, old, freed) ==
  /\ new.parses = old.parses /\ new.on = old.on
  /\ \A j \in Range(JobsIn(new)) :
       \E i \in Range(JobsIn(old)) : SameJob(j, i) /\ (j.id \notin freed => j.tolerant = i.tolerant)

LEMMA SameNames ==
  ASSUME NEW i, NEW j, SameJob(j, i), NEW files, NEW more,
         i.uses # Nil => (i.uses \in DOMAIN files <=> i.uses \in DOMAIN more),
         i.uses # Nil /\ i.uses \in DOMAIN files => files[i.uses] = more[i.uses]
  PROVE  CheckNames(files, i) = CheckNames(more, j)
<1>1. LabelOf(i) = LabelOf(j) /\ Instances(i) = Instances(j) /\ i.uses = j.uses
  BY DEF SameJob, LabelOf, Instances
<1>2. \A leaf : NamesFrom(i, leaf, i) = NamesFrom(j, leaf, j)
  BY <1>1 DEF NamesFrom
<1>3. \A leaf, inner : NamesFrom(i, leaf, inner) = NamesFrom(j, leaf, inner)
  BY <1>1 DEF NamesFrom
<1>4. CASE i.uses = Nil
  BY <1>1, <1>2, <1>4 DEF CheckNames
<1>5. CASE i.uses # Nil /\ i.uses \notin DOMAIN files
  BY <1>1, <1>5 DEF CheckNames
<1>6. CASE i.uses # Nil /\ i.uses \in DOMAIN files
  BY <1>1, <1>3, <1>6 DEF CheckNames
<1>. QED BY <1>4, <1>5, <1>6

\* A candidate that loses none of the gates the derivation saw, although it may not
\* have seen all files, loses none at all.
LEMMA CandidateKeeps ==
  ASSUME NEW old, IsRepository(old), NEW new, IsRepository(new), DOMAIN new = DOMAIN old,
         NEW edited, \A f \in DOMAIN old : f \notin edited => new[f] = old[f],
         NEW lost, Derivable(old, lost), NEW unreadable, Derivable(new, unreadable), unreadable \cap edited = {},
         Edit(new[Rollup], old[Rollup], {}),
         SeenGates(old, lost) \subseteq SeenGates(new, unreadable)
  PROVE  KeepsGates(new, old, {})
<1>. DEFINE oldJobs == Range(JobsIn(old[Rollup]))
            newJobs == Range(JobsIn(new[Rollup]))
            All(repo) == FilesOf(repo, {})
<1>0. /\ Rollup \in DOMAIN old /\ Rollup \in DOMAIN new /\ Derivable(old, {}) /\ Derivable(new, {})
  BY DEF Derivable
<1>1. ASSUME NEW repo, IsRepository(repo), NEW missing, Derivable(repo, missing)
      PROVE  /\ AreFiles(FilesOf(repo, missing)) /\ FilesOf(repo, missing)[Rollup] = repo[Rollup]
             /\ \A f \in DOMAIN FilesOf(repo, missing) : FilesOf(repo, missing)[f] = repo[f]
             /\ \A j \in Range(JobsIn(repo[Rollup])) :
                  j.uses # Nil => (j.uses \in DOMAIN FilesOf(repo, missing) <=> j.uses \in Seen(repo, missing))
  <2>1. PICK files, model : files = FilesOf(repo, missing) /\ model = ComputeProtectionMap(repo, missing, Conditional, <<>>)
    OBVIOUS
  <2>. QED BY <1>1, <2>1, DerivedIs
<1>2. /\ Gates(old) = SeenGates(old, {}) /\ Gates(new) = SeenGates(new, {})
      /\ \A c : c \in TolerantGates(old) <=> c \in Gates(old) /\ \E j \in oldJobs : c \in CheckNames(All(old), j) /\ j.tolerant
      /\ \A c : c \in TolerantGates(new) <=> c \in Gates(new) /\ \E j \in newJobs : c \in CheckNames(All(new), j) /\ j.tolerant
  BY <1>0, GatesAre
<1>3. \A j \in newJobs : \E i \in oldJobs : SameJob(j, i) /\ j.tolerant = i.tolerant
  BY DEF Edit
<1>4. ASSUME NEW j \in newJobs, NEW i \in oldJobs, SameJob(j, i) PROVE LabelOf(j) = LabelOf(i) /\ j.uses = i.uses
  BY <1>4 DEF SameJob, LabelOf
<1>5. \A repo, j : j \in GateJobs(repo[Rollup]) => j \in Range(JobsIn(repo[Rollup]))
  BY DEF GateJobs
\* A name tells the job, and which files were there.
<1>6. ASSUME NEW repo, IsRepository(repo), NEW missing, Derivable(repo, missing),
             NEW j \in Range(JobsIn(repo[Rollup])), NEW c \in CheckNames(FilesOf(repo, missing), j)
      PROVE  /\ c.label = LabelOf(j)
             /\ j.uses # Nil => (c.leaf = Nil <=> j.uses \notin Seen(repo, missing))
             /\ j.uses # Nil /\ j.uses \notin Seen(repo, missing) => c = Name(LabelOf(j), Nil, 0)
  <2>1. PICK files : files = FilesOf(repo, missing)
    OBVIOUS
  <2>2. AreFiles(files) /\ files[Rollup] = repo[Rollup]
        /\ (j.uses # Nil => (j.uses \in DOMAIN files <=> j.uses \in Seen(repo, missing)))
    BY <1>1, <1>6, <2>1
  <2>3. c.label = LabelOf(j)
    BY <2>1, <2>2, OneJob
  <2>4. ASSUME j.uses # Nil, j.uses \in Seen(repo, missing) PROVE c.leaf # Nil
    <3>1. j.uses \in DOMAIN files
      BY <2>2, <2>4
    <3>2. CheckNames(files, j) = UNION {NamesFrom(j, LabelOf(inner), inner) : inner \in Range(JobsIn(files[j.uses]))}
      BY <2>4, <3>1 DEF CheckNames
    <3>3. PICK inner \in Range(JobsIn(files[j.uses])) : c \in NamesFrom(j, LabelOf(inner), inner)
      BY <2>1, <3>2
    <3>4. IsJob(inner)
      BY <2>2, <3>1 DEF AreFiles, IsFile
    <3>. QED BY <3>3, <3>4 DEF NamesFrom, Name, LabelOf, IsJob
  <2>5. ASSUME j.uses # Nil, j.uses \notin Seen(repo, missing) PROVE c.leaf = Nil /\ c = Name(LabelOf(j), Nil, 0)
    BY <2>1, <2>2, <2>5 DEF CheckNames, Name
  <2>. QED BY <2>3, <2>4, <2>5
<1>7. \A j \in oldJobs, i \in oldJobs : LabelOf(i) = LabelOf(j) => i = j
  <2>. TAKE j \in oldJobs, i \in oldJobs
  <2>1. IsFile(old[Rollup]) /\ IsRollup(old[Rollup])
    BY <1>0 DEF IsRepository
  <2>. QED BY <2>1 DEF IsFile, IsRollup
\* Of what the derivations saw, to what there is.
<1>8. ASSUME NEW i \in GateJobs(old[Rollup]), NEW c \in CheckNames(FilesOf(old, lost), i)
      PROVE  \E j \in GateJobs(new[Rollup]) : SameJob(j, i) /\ c \in CheckNames(FilesOf(new, unreadable), j)
  <2>1. c \in SeenGates(new, unreadable)
    BY <1>8 DEF SeenGates
  <2>2. PICK j \in GateJobs(new[Rollup]) : c \in CheckNames(FilesOf(new, unreadable), j)
    BY <2>1 DEF SeenGates
  <2>3. j \in newJobs /\ i \in oldJobs
    BY <1>5
  <2>4. PICK k \in oldJobs : SameJob(j, k)
    BY <1>3, <2>3
  <2>5. c.label = LabelOf(i) /\ c.label = LabelOf(j)
    BY <1>6, <2>2, <2>3
  <2>6. k = i
    BY <1>4, <1>7, <2>3, <2>4, <2>5
  <2>. QED BY <2>2, <2>4, <2>6
<1>9. ASSUME NEW i \in GateJobs(old[Rollup]), NEW c \in CheckNames(All(old), i)
      PROVE  \E j \in GateJobs(new[Rollup]) : SameJob(j, i) /\ c \in CheckNames(All(new), j)
  <2>0. i \in oldJobs
    BY <1>5
  <2>1. CASE i.uses = Nil
    <3>1. c \in CheckNames(FilesOf(old, lost), i)
      BY <1>9, <2>1 DEF CheckNames
    <3>2. PICK j \in GateJobs(new[Rollup]) : SameJob(j, i) /\ c \in CheckNames(FilesOf(new, unreadable), j)
      BY <1>8, <3>1
    <3>3. j.uses = Nil
      BY <2>1, <3>2 DEF SameJob
    <3>4. c \in CheckNames(All(new), j)
      BY <3>2, <3>3 DEF CheckNames
    <3>. QED BY <3>2, <3>4
  <2>2. CASE i.uses # Nil
    <3>. DEFINE f == i.uses
                bare == Name(LabelOf(i), Nil, 0)
    <3>1. /\ f \in DOMAIN FilesOf(old, lost) <=> f \in Seen(old, lost)
          /\ f \in DOMAIN All(old) <=> f \in Seen(old, {})
      BY <1>0, <1>1, <2>0, <2>2
    <3>2. ASSUME NEW j \in GateJobs(new[Rollup]), SameJob(j, i)
          PROVE  /\ j \in newJobs /\ j.uses = f /\ LabelOf(j) = LabelOf(i)
                 /\ f \in DOMAIN FilesOf(new, unreadable) <=> f \in Seen(new, unreadable)
                 /\ f \in DOMAIN All(new) <=> f \in Seen(new, {})
      <4>1. j \in newJobs
        BY <1>5
      <4>2. j.uses = f /\ LabelOf(j) = LabelOf(i)
        BY <1>4, <2>0, <3>2, <4>1
      <4>. QED BY <1>0, <1>1, <2>2, <4>1, <4>2
    <3>3. Seen(new, unreadable) \subseteq Seen(new, {}) /\ Seen(old, {}) = Seen(new, {}) /\ Seen(old, lost) \subseteq Seen(old, {})
      BY DEF Seen
    <3>4. CASE f \in Seen(old, lost)
      <4>1. FilesOf(old, lost)[f] = All(old)[f]
        BY <1>0, <1>1, <3>1, <3>3, <3>4
      <4>2. c \in CheckNames(FilesOf(old, lost), i)
        BY <1>9, <2>2, <3>1, <3>3, <3>4, <4>1 DEF CheckNames
      <4>3. PICK j \in GateJobs(new[Rollup]) : SameJob(j, i) /\ c \in CheckNames(FilesOf(new, unreadable), j)
        BY <1>8, <4>2
      <4>4. c.leaf # Nil
        BY <1>6, <2>0, <2>2, <3>4, <4>2
      <4>5. f \in Seen(new, unreadable)
        BY <1>6, <2>2, <3>2, <4>3, <4>4
      <4>6. FilesOf(new, unreadable)[f] = All(new)[f]
        BY <1>0, <1>1, <3>2, <3>3, <4>3, <4>5
      <4>7. c \in CheckNames(All(new), j)
        BY <2>2, <3>2, <3>3, <4>3, <4>5, <4>6 DEF CheckNames
      <4>. QED BY <4>3, <4>7
    <3>5. CASE f \notin Seen(old, lost)
      <4>1. bare \in CheckNames(FilesOf(old, lost), i)
        BY <2>2, <3>1, <3>5 DEF CheckNames
      <4>2. PICK j \in GateJobs(new[Rollup]) : SameJob(j, i) /\ bare \in CheckNames(FilesOf(new, unreadable), j)
        BY <1>8, <4>1
      <4>3. bare.leaf = Nil
        BY DEF Name
      <4>4. f \notin Seen(new, unreadable)
        BY <1>6, <2>2, <3>2, <4>2, <4>3
      <4>5. CASE f \notin Seen(old, {})
        <5>1. c = bare
          BY <1>0, <1>6, <1>9, <2>0, <2>2, <4>5
        <5>2. bare \in CheckNames(All(new), j)
          BY <2>2, <3>2, <3>3, <4>2, <4>5 DEF CheckNames
        <5>. QED BY <4>2, <5>1, <5>2
      <4>6. CASE f \in Seen(old, {})
        <5>1. f \in DOMAIN old /\ f \in unreadable
          BY <4>4, <4>6 DEF Seen
        <5>2. new[f] = old[f]
          BY <5>1
        <5>3. All(old)[f] = All(new)[f] /\ f \in DOMAIN All(old) /\ f \in DOMAIN All(new)
          BY <1>0, <1>1, <3>1, <3>2, <3>3, <4>2, <4>6, <5>2
        <5>4. CheckNames(All(old), i) = CheckNames(All(new), j)
          BY <4>2, <5>3, SameNames
        <5>. QED BY <1>9, <4>2, <5>4
      <4>. QED BY <4>5, <4>6
    <3>. QED BY <3>4, <3>5
  <2>. QED BY <2>1, <2>2
<1>10. Gates(old) \subseteq Gates(new)
  BY <1>2, <1>9 DEF SeenGates
<1>11. ASSUME NEW c \in TolerantGates(new) \cap Gates(old) PROVE c \in TolerantGates(old)
  <2>1. PICK j \in newJobs : c \in CheckNames(All(new), j) /\ j.tolerant
    BY <1>2
  <2>2. PICK i \in oldJobs : SameJob(j, i) /\ j.tolerant = i.tolerant
    BY <1>3
  <2>3. PICK k \in oldJobs : c \in CheckNames(All(old), k)
    BY <1>2, <1>5 DEF SeenGates
  <2>4. c.label = LabelOf(j) /\ c.label = LabelOf(k)
    BY <1>0, <1>6, <2>1, <2>3
  <2>5. k = i
    BY <1>4, <1>7, <2>2, <2>4
  <2>. QED BY <1>2, <2>1, <2>2, <2>3, <2>5
<1>. QED BY <1>10, <1>11 DEF KeepsGates

(***************************************************************************)
(* What the edits leave of a file, of a repository and of its gates.       *)
(***************************************************************************)
\* Replacing a job of a file.
LEMMA WithJobIs ==
  ASSUME NEW file, IsFile(file), NEW id, id \in JobIds(file), NEW new, IsJob(new), new.id = id,
         NEW edit, edit = WithJob(file, id, new)
  PROVE  /\ edit.ok /\ edit.file.parses = file.parses /\ edit.file.on = file.on
         /\ IsFile(edit.file)
         /\ \A j \in Range(JobsIn(edit.file)) : j = new \/ (j.id # id /\ j \in Range(JobsIn(file)))
         /\ \A i \in Range(JobsIn(file)) : (IF i.id = id THEN new ELSE i) \in Range(JobsIn(edit.file))
<1>1. file.parses /\ {"parses", "on", "jobs"} \subseteq DOMAIN file /\ JobsIn(file) = file.jobs
  <2>1. CASE file.parses
    BY <2>1 DEF IsFile, JobsIn
  <2>2. CASE ~file.parses
    BY <2>2 DEF JobIds, JobsIn, Range
  <2>. QED BY <2>1, <2>2
<1>2. PICK old : old = file.jobs
  OBVIOUS
<1>3. PICK jobs : jobs = [k \in DOMAIN old |-> IF old[k].id = id THEN new ELSE old[k]]
  OBVIOUS
<1>4. edit = [ok |-> TRUE, file |-> [file EXCEPT !.jobs = jobs]]
  BY <1>2, <1>3 DEF WithJob, Accept
<1>5. edit.ok /\ edit.file = [file EXCEPT !.jobs = jobs]
  BY <1>4
<1>6. edit.file.parses = file.parses /\ edit.file.on = file.on /\ edit.file.jobs = jobs
      /\ DOMAIN edit.file = DOMAIN file
  BY <1>1, <1>5
<1>7. JobsIn(edit.file) = jobs
  BY <1>1, <1>6 DEF JobsIn
<1>8. (\E J : old \in Seq(J)) /\ \A i \in Range(old) : IsJob(i)
  BY <1>1, <1>2 DEF IsFile
<1>9. Len(old) \in Nat /\ DOMAIN old = 1 .. Len(old)
  BY <1>8, LenProperties
<1>10. \A k \in DOMAIN old : jobs[k] = IF old[k].id = id THEN new ELSE old[k]
  BY <1>3
<1>11. \E J : jobs \in Seq(J)
  <2>1. jobs \in Seq(Range(old) \cup {new})
    <3>1. jobs = [k \in 1 .. Len(old) |-> jobs[k]] /\ \A k \in 1 .. Len(old) : jobs[k] \in Range(old) \cup {new}
      BY <1>3, <1>9, <1>10 DEF Range
    <3>. QED BY <1>9, <3>1, SeqDef
  <2>. QED BY <2>1
<1>12. \A j \in Range(jobs) : j = new \/ (j.id # id /\ j \in Range(old))
  BY <1>3, <1>10 DEF Range
<1>13. \A i \in Range(old) : (IF i.id = id THEN new ELSE i) \in Range(jobs)
  <2>. TAKE i \in Range(old)
  <2>1. PICK k \in DOMAIN old : i = old[k]
    BY DEF Range
  <2>2. jobs[k] \in Range(jobs)
    BY <1>3 DEF Range
  <2>. QED BY <1>10, <2>1, <2>2
<1>14. \A i, j \in Range(jobs) : i.id = j.id => i = j
  <2>1. \A i, j \in Range(old) : i.id = j.id => i = j
    BY <1>1, <1>2 DEF IsFile
  <2>. QED BY <1>12, <2>1
<1>15. IsFile(edit.file)
  <2>1. \A j \in Range(jobs) : IsJob(j)
    BY <1>8, <1>12
  <2>. QED BY <1>1, <1>6, <1>7, <1>11, <1>14, <2>1 DEF IsFile
<1>. QED BY <1>1, <1>2, <1>5, <1>6, <1>7, <1>12, <1>13, <1>15

\* Replacing a job by one of the same name leaves an edit of the file.
LEMMA WithJobEdits ==
  ASSUME NEW file, IsFile(file), NEW id, id \in JobIds(file), NEW new, IsJob(new),
         SameJob(new, JobOfId(file, id)), NEW freed, id \in freed \/ new.tolerant = JobOfId(file, id).tolerant,
         NEW edit, edit = WithJob(file, id, new)
  PROVE  edit.ok /\ IsFile(edit.file) /\ Edit(edit.file, file, freed)
<1>1. PICK job \in Range(JobsIn(file)) : job.id = id
  BY DEF JobIds
<1>2. JobOfId(file, id) = job
  BY <1>1, JobIs
<1>3. new.id = id
  BY <1>1, <1>2 DEF SameJob
<1>4. /\ edit.ok /\ edit.file.parses = file.parses /\ edit.file.on = file.on
      /\ IsFile(edit.file)
      /\ \A j \in Range(JobsIn(edit.file)) : j = new \/ (j.id # id /\ j \in Range(JobsIn(file)))
  BY <1>3, WithJobIs
<1>5. \A j : SameJob(j, j)
  BY DEF SameJob
<1>. QED BY <1>1, <1>2, <1>3, <1>4, <1>5 DEF Edit

\* What is not edited is no different.
LEMMA RefuseEdits ==
  ASSUME NEW file, IsFile(file), NEW edit, edit = Refuse(file)
  PROVE  edit.ok = FALSE /\ IsFile(edit.file) /\ Edit(edit.file, file, {})
<1>1. edit.ok = FALSE /\ edit.file = file
  BY DEF Refuse
<1>. QED BY <1>1 DEF Edit, SameJob

\* Guard and timeout are no part of a job's name.
LEMMA FieldEdits ==
  ASSUME NEW file, IsFile(file), NEW id, id \in JobIds(file), NEW job, job = JobOfId(file, id), NEW value, NEW new,
         new = job \/ new = [job EXCEPT !.guard = value] \/ new = [job EXCEPT !.timeout = value]
  PROVE  IsJob(new) /\ SameJob(new, job) /\ new.tolerant = job.tolerant
<1>1. job \in Range(JobsIn(file))
  BY JobIs DEF JobIds
<1>2. IsJob(job)
  BY <1>1 DEF IsFile
<1>. QED BY <1>2 DEF IsJob, JobFields, SameJob

LEMMA RenderEdits ==
  ASSUME NEW file, IsFile(file), NEW id, NEW event, NEW edit,
         \/ edit = RenderTierAssign(file, id, event) \/ edit = RenderShiftLeft(file, id)
         \/ edit = RenderTimeout(file, id) \/ edit = RenderRunnerRoute(file, id)
  PROVE  IsFile(edit.file) /\ Edit(edit.file, file, {})
<1>1. CASE edit = Refuse(file)
  BY <1>1, RefuseEdits
<1>2. CASE edit # Refuse(file)
  <2>1. PICK job : job = JobOfId(file, id)
    OBVIOUS
  <2>2. id \in JobIds(file) /\ \E new, value :
            /\ edit = WithJob(file, id, new)
            /\ new \in {job, [job EXCEPT !.guard = value], [job EXCEPT !.timeout = value]}
    <3>1. CASE edit = RenderTierAssign(file, id, event)
      <4>1. PICK value : value = Only(event)
        OBVIOUS
      <4>2. id \in JobIds(file) /\ edit = WithJob(file, id, [job EXCEPT !.guard = value])
        BY <1>2, <2>1, <3>1, <4>1 DEF RenderTierAssign, Editable
      <4>. QED BY <4>2
    <3>2. CASE edit = RenderShiftLeft(file, id)
      BY <1>2, <2>1, <3>2 DEF RenderShiftLeft, Editable
    <3>3. CASE edit = RenderTimeout(file, id)
      BY <1>2, <2>1, <3>3 DEF RenderTimeout, Editable
    <3>4. CASE edit = RenderRunnerRoute(file, id)
      BY <1>2, <2>1, <3>4 DEF RenderRunnerRoute, Editable
    <3>. QED BY <3>1, <3>2, <3>3, <3>4
  <2>3. PICK new, value : /\ edit = WithJob(file, id, new)
                          /\ new \in {job, [job EXCEPT !.guard = value], [job EXCEPT !.timeout = value]}
    BY <2>2
  <2>4. IsJob(new) /\ SameJob(new, job) /\ new.tolerant = job.tolerant
    <3>1. new = job \/ new = [job EXCEPT !.guard = value] \/ new = [job EXCEPT !.timeout = value]
      BY <2>3
    <3>. QED BY <2>1, <2>2, <3>1, FieldEdits
  <2>. QED BY <2>1, <2>2, <2>3, <2>4, WithJobEdits
<1>. QED BY <1>1, <1>2

\* Removing a job: the needs of the others lose it.
LEMMA RemoveEdits ==
  ASSUME NEW file, IsFile(file), NEW id, NEW edit, edit = RenderRemoveCheck(file, id)
  PROVE  IsFile(edit.file) /\ Edit(edit.file, file, {})
<1>1. CASE id \notin JobIds(file)
  BY <1>1, RefuseEdits DEF RenderRemoveCheck
<1>2. CASE id \in JobIds(file)
  <2>1. file.parses /\ {"parses", "on", "jobs"} \subseteq DOMAIN file /\ JobsIn(file) = file.jobs
    <3>1. CASE file.parses
      BY <3>1 DEF IsFile, JobsIn
    <3>2. CASE ~file.parses
      BY <1>2, <3>2 DEF JobIds, JobsIn, Range
    <3>. QED BY <3>1, <3>2
  <2>2. PICK old, at : old = file.jobs /\ at = CHOOSE k \in DOMAIN old : old[k].id = id
    OBVIOUS
  <2>3. PICK J : old \in Seq(J)
    BY <2>1, <2>2 DEF IsFile
  <2>4. Len(old) \in Nat /\ DOMAIN old = 1 .. Len(old)
    BY <2>3, LenProperties
  <2>5. at \in 1 .. Len(old) /\ old[at].id = id
    BY <1>2, <2>1, <2>2, <2>4 DEF JobIds, Range
  <2>6. PICK rest : rest = RemoveAt(old, at)
    OBVIOUS
  <2>7. /\ \E R : rest \in Seq(R)
        /\ \A k \in DOMAIN rest : \E i \in DOMAIN old : rest[k] = old[i]
    <3>1. PICK s, t : s = SubSeq(old, 1, at - 1) /\ t = SubSeq(old, at + 1, Len(old))
      OBVIOUS
    <3>2. s \in Seq(J) /\ t \in Seq(J)
      BY <2>3, <2>4, <2>5, <3>1
    <3>3. Range(s) \subseteq Range(old) /\ Range(t) \subseteq Range(old)
      <4>1. \A k \in DOMAIN s : k \in DOMAIN old /\ s[k] = old[k]
        BY <2>3, <2>4, <2>5, <3>1
      <4>2. \A k \in DOMAIN t : at + k \in DOMAIN old /\ t[k] = old[at + k]
        BY <2>3, <2>4, <2>5, <3>1
      <4>. QED BY <4>1, <4>2 DEF Range
    <3>4. rest = s \o t
      BY <2>6, <3>1 DEF RemoveAt
    <3>5. rest \in Seq(J) /\ Range(rest) = Range(s) \cup Range(t)
      BY <3>2, <3>4, Joined, ConcatProperties
    <3>. QED BY <3>3, <3>5 DEF Range
  <2>8. PICK jobs : jobs = [k \in DOMAIN rest |-> [rest[k] EXCEPT !.needs = @ \ {id}]]
    OBVIOUS
  <2>9. edit = [ok |-> TRUE, file |-> [file EXCEPT !.jobs = jobs]]
    BY <1>2, <2>2, <2>6, <2>8 DEF RenderRemoveCheck, Accept, StripNeedsRef
  <2>10. /\ edit.file.parses = file.parses /\ edit.file.on = file.on /\ edit.file.jobs = jobs
         /\ DOMAIN edit.file = DOMAIN file
    <3>1. edit.file = [file EXCEPT !.jobs = jobs]
      BY <2>9
    <3>. QED BY <2>1, <3>1
  <2>11. JobsIn(edit.file) = jobs
    BY <2>1, <2>10 DEF JobsIn
  <2>12. \A i \in Range(old) : IsJob(i) /\ \A j \in Range(old) : i.id = j.id => i = j
    BY <2>1, <2>2 DEF IsFile
  <2>13. \A k \in DOMAIN jobs : \E i \in Range(old) : jobs[k] = [i EXCEPT !.needs = @ \ {id}]
    BY <2>7, <2>8 DEF Range
  <2>14. \A j \in Range(jobs) : \E i \in Range(old) : j = [i EXCEPT !.needs = @ \ {id}]
    BY <2>13 DEF Range
  <2>15. \A i \in Range(old) : \A j : j = [i EXCEPT !.needs = @ \ {id}] =>
           IsJob(j) /\ SameJob(j, i) /\ j.tolerant = i.tolerant /\ j.id = i.id
    BY <2>12 DEF IsJob, JobFields, SameJob
  <2>16. \E R : jobs \in Seq(R)
    <3>1. PICK R : rest \in Seq(R)
      BY <2>7
    <3>2. Len(rest) \in Nat /\ DOMAIN rest = 1 .. Len(rest)
      BY <3>1, LenProperties
    <3>3. jobs = [k \in 1 .. Len(rest) |-> jobs[k]] /\ \A k \in 1 .. Len(rest) : jobs[k] \in Range(jobs)
      BY <2>8, <3>2 DEF Range
    <3>4. jobs \in Seq(Range(jobs))
      BY <3>2, <3>3, SeqDef
    <3>. QED BY <3>4
  <2>17. \A i, j \in Range(jobs) : i.id = j.id => i = j
    BY <2>12, <2>14, <2>15
  <2>18. \A j \in Range(jobs) : IsJob(j)
    BY <2>14, <2>15
  <2>19. IsFile(edit.file)
    BY <2>1, <2>10, <2>11, <2>16, <2>17, <2>18 DEF IsFile
  <2>20. \A j \in Range(jobs) : \E i \in Range(old) : SameJob(j, i) /\ j.tolerant = i.tolerant
    BY <2>14, <2>15
  <2>. QED BY <2>1, <2>2, <2>10, <2>11, <2>19, <2>20 DEF Edit
<1>. QED BY <1>1, <1>2

LEMMA ConcurrencyEdits ==
  ASSUME NEW file, IsFile(file), NEW edit, edit = AddConcurrency(file)
  PROVE  IsFile(edit.file) /\ Edit(edit.file, file, {})
<1>1. CASE edit = Refuse(file)
  BY <1>1, RefuseEdits
<1>2. CASE edit # Refuse(file)
  <2>1. edit = [ok |-> TRUE, file |-> [file EXCEPT !.concurrency = TRUE]]
    BY <1>2 DEF AddConcurrency, Accept
  <2>2. /\ edit.file.parses = file.parses /\ edit.file.on = file.on /\ edit.file.jobs = file.jobs
        /\ DOMAIN edit.file = DOMAIN file
    BY <2>1 DEF IsFile
  <2>3. JobsIn(edit.file) = JobsIn(file)
    BY <2>2 DEF JobsIn
  <2>. QED BY <2>2, <2>3 DEF IsFile, Edit, SameJob
<1>. QED BY <1>1, <1>2

\* The changes a candidate is made of.
IsMutation(m) == m.op \in {"timeout", "runner", "concurrency", "shift-left", "remove"}
LEMMA MutationEdits ==
  ASSUME NEW file, IsFile(file), NEW m, IsMutation(m), NEW edit, edit = ApplyMutation(file, m)
  PROVE  IsFile(edit.file) /\ Edit(edit.file, file, {})
<1>1. CASE m.op = "timeout"
  <2>1. edit = RenderTimeout(file, m.job)
    BY <1>1 DEF ApplyMutation
  <2>. QED BY <2>1, RenderEdits
<1>2. CASE m.op = "runner"
  <2>1. edit = RenderRunnerRoute(file, m.job)
    BY <1>2 DEF ApplyMutation
  <2>. QED BY <2>1, RenderEdits
<1>3. CASE m.op = "concurrency"
  <2>1. edit = AddConcurrency(file)
    BY <1>3 DEF ApplyMutation
  <2>. QED BY <2>1, ConcurrencyEdits
<1>4. CASE m.op = "shift-left"
  <2>1. edit = RenderShiftLeft(file, m.job)
    BY <1>4 DEF ApplyMutation
  <2>. QED BY <2>1, RenderEdits
<1>5. CASE m.op = "remove"
  <2>1. edit = RenderRemoveCheck(file, m.job)
    BY <1>5 DEF ApplyMutation
  <2>. QED BY <2>1, RemoveEdits
<1>. QED BY <1>1, <1>2, <1>3, <1>4, <1>5 DEF IsMutation

\* Edits add up.
LEMMA EditsAddUp ==
  ASSUME NEW a, NEW b, NEW c, Edit(b, a, {}), Edit(c, b, {})
  PROVE  Edit(c, a, {})
<1>1. \A i, j, k : SameJob(j, i) /\ SameJob(k, j) => SameJob(k, i)
  BY DEF SameJob
<1>. QED BY <1>1 DEF Edit

\* An edited rollup is one.
LEMMA EditedRollup ==
  ASSUME NEW old, IsFile(old), IsRollup(old), NEW new, IsFile(new), NEW freed, Edit(new, old, freed)
  PROVE  IsRollup(new) /\ Triggers(new) = Triggers(old)
<1>1. \A j \in Range(JobsIn(new)) : \E i \in Range(JobsIn(old)) : j.id = i.id /\ LabelOf(j) = LabelOf(i) /\ j.uses = i.uses
  BY DEF Edit, SameJob, LabelOf
<1>2. IsRollup(new)
  BY <1>1 DEF IsRollup
<1>3. Triggers(new) = Triggers(old)
  BY DEF Edit, Triggers
<1>. QED BY <1>2, <1>3

\* What a change to some of the files of a repository makes of it.
LEMMA EditedRepository ==
  ASSUME NEW old, IsRepository(old), NEW files, DOMAIN files \subseteq DOMAIN old, NEW freed,
         \A f \in DOMAIN files : IsFile(files[f]) /\ Edit(files[f], old[f], freed),
         NEW new, new = Overlay(old, files)
  PROVE  /\ IsRepository(new) /\ DOMAIN new = DOMAIN old
         /\ \A f \in DOMAIN old : f \notin DOMAIN files => new[f] = old[f]
         /\ \A f \in DOMAIN files : new[f] = files[f]
<1>1. /\ DOMAIN new = DOMAIN old
      /\ \A f \in DOMAIN old : new[f] = IF f \in DOMAIN files THEN files[f] ELSE old[f]
  BY DEF Overlay
<1>2. \A f \in DOMAIN files : Triggers(files[f]) = Triggers(old[f])
  BY DEF Edit, Triggers
<1>3. ASSUME NEW f \in DOMAIN new PROVE IsFile(new[f]) /\ (f # Rollup => "merge_group" \notin Triggers(new[f]))
  BY <1>1, <1>2 DEF IsRepository
<1>4. Rollup \in DOMAIN new => IsRollup(new[Rollup])
  <2>1. CASE Rollup \in DOMAIN files
    <3>1. PICK rollup : rollup = new[Rollup]
      OBVIOUS
    <3>2. IsFile(old[Rollup]) /\ IsRollup(old[Rollup]) /\ IsFile(rollup) /\ Edit(rollup, old[Rollup], freed)
      BY <1>1, <2>1, <3>1 DEF IsRepository
    <3>. QED BY <3>1, <3>2, EditedRollup
  <2>2. CASE Rollup \notin DOMAIN files
    BY <1>1, <2>2 DEF IsRepository
  <2>. QED BY <2>1, <2>2
<1>. QED BY <1>1, <1>3, <1>4 DEF IsRepository

\* The files a candidate writes are edits of files of its base.
LEMMA OverridesEdit ==
  ASSUME NEW repo, IsRepository(repo), NEW mutations, NEW M, mutations \in Seq(M),
         \A m \in Range(mutations) : IsMutation(m),
         NEW place, \A k \in DOMAIN mutations : place[k] \in DOMAIN repo,
         NEW files, files = Overrides(repo, place, mutations).files
  PROVE  /\ DOMAIN files \subseteq DOMAIN repo
         /\ \A f \in DOMAIN files : IsFile(files[f]) /\ Edit(files[f], repo[f], {})
<1>. DEFINE size == Len(mutations)
            Start == [ok |-> TRUE, files |-> <<>>]
            Text(acc, f) == IF f \in DOMAIN acc.files THEN acc.files[f] ELSE repo[f]
            Applied(acc, f, m) ==
              LET edit == ApplyMutation(Text(acc, f), m)
              IN [ok    |-> acc.ok /\ edit.ok,
                  files |-> [g \in DOMAIN acc.files \cup {f} |-> IF g = f THEN edit.file ELSE acc.files[g]]]
            Step(a, k) == IF k = 0 THEN Start ELSE Applied(a[k - 1], place[k], mutations[k])
            good == {n \in Nat : \E a : a = [k \in 0 .. n |-> Step(a, k)]}
            after == CHOOSE a : a = [k \in 0 .. size |-> Step(a, k)]
<1>0. size \in Nat /\ DOMAIN mutations = 1 .. size /\ \A k \in 1 .. size : mutations[k] \in Range(mutations)
  BY LenProperties DEF Range
<1>1. Overrides(repo, place, mutations) = after[size]
  BY DEF Overrides
<1>. HIDE DEF Start, Applied
<1>2. 0 \in good
  <2>1. PICK a : a = [k \in 0 .. 0 |-> Start]
    OBVIOUS
  <2>2. \A k \in 0 .. 0 : Step(a, k) = Start
    OBVIOUS
  <2>3. a = [k \in 0 .. 0 |-> Step(a, k)]
    <3>. HIDE DEF Step
    <3>. QED BY <2>1, <2>2
  <2>. QED BY <2>3
<1>3. ASSUME NEW n \in good PROVE n + 1 \in good
  <2>1. n \in Nat
    OBVIOUS
  <2>2. PICK a : a = [k \in 0 .. n |-> Step(a, k)]
    OBVIOUS
  <2>. DEFINE b == [k \in 0 .. n + 1 |-> Step(a, k)]
  <2>3. \A k \in 0 .. n : b[k] = a[k]
    <3>. HIDE DEF Step
    <3>1. \A k \in 0 .. n : a[k] = Step(a, k)
      BY <2>2
    <3>. QED BY <2>1, <3>1
  <2>4. \A k \in 0 .. n + 1 : Step(b, k) = Step(a, k)
    <3>. TAKE k \in 0 .. n + 1
    <3>1. k # 0 => k - 1 \in 0 .. n
      BY <2>1
    <3>2. k # 0 => b[k - 1] = a[k - 1]
      BY <2>3, <3>1
    <3>. HIDE DEF b
    <3>. QED BY <3>2
  <2>5. b = [k \in 0 .. n + 1 |-> Step(b, k)]
    <3>1. \A k \in 0 .. n + 1 : b[k] = Step(b, k)
      BY <2>4
    <3>. HIDE DEF Step
    <3>. QED BY <3>1
  <2>. HIDE DEF b, Step
  <2>. QED BY <2>1, <2>5
<1>4. good = Nat
  <2>1. good \subseteq Nat
    OBVIOUS
  <2>. HIDE DEF good
  <2>. QED BY <1>2, <1>3, <2>1, Counting
<1>5. after = [k \in 0 .. size |-> Step(after, k)]
  <2>1. size \in good
    <3>. HIDE DEF good
    <3>. QED BY <1>0, <1>4
  <2>2. \E a : a = [k \in 0 .. size |-> Step(a, k)]
    BY <2>1
  <2>. HIDE DEF Step
  <2>. QED BY <2>2
<1>. HIDE DEF good
<1>6. \A k \in 0 .. size : after[k] = Step(after, k)
  <2>. HIDE DEF Step, after
  <2>. QED BY <1>5
<1>. HIDE DEF after
<1>. DEFINE Fair(fs) == /\ DOMAIN fs \subseteq DOMAIN repo
                        /\ \A f \in DOMAIN fs : IsFile(fs[f]) /\ Edit(fs[f], repo[f], {})
            fair == {n \in Nat : n <= size => Fair(after[n].files)}
<1>7. 0 \in fair
  <2>1. after[0] = Start
    BY <1>0, <1>6
  <2>2. after[0].files = <<>> /\ DOMAIN <<>> = {}
    BY <2>1 DEF Start
  <2>. QED BY <2>2
<1>8. ASSUME NEW n \in fair PROVE n + 1 \in fair
  <2>. SUFFICES ASSUME n + 1 <= size PROVE Fair(after[n + 1].files)
    OBVIOUS
  <2>1. n \in Nat /\ n <= size /\ n + 1 \in 1 .. size /\ n + 1 # 0 /\ (n + 1) - 1 = n /\ n + 1 \in 0 .. size
    BY <1>0
  <2>2. Fair(after[n].files)
    BY <2>1
  <2>. HIDE DEF Fair, fair
  <2>3. PICK acc, f, m : acc = after[n] /\ f = place[n + 1] /\ m = mutations[n + 1]
    OBVIOUS
  <2>4. PICK text, edit : text = Text(acc, f) /\ edit = ApplyMutation(text, m)
    OBVIOUS
  <2>5. after[n + 1] = Applied(acc, f, m)
    <3>1. after[n + 1] = Step(after, n + 1)
      BY <1>6, <2>1
    <3>. QED BY <2>1, <2>3, <3>1
  <2>6. after[n + 1].files = [g \in DOMAIN acc.files \cup {f} |-> IF g = f THEN edit.file ELSE acc.files[g]]
    BY <2>4, <2>5 DEF Applied
  <2>7. f \in DOMAIN repo /\ IsMutation(m) /\ IsFile(repo[f])
    BY <1>0, <2>1, <2>3 DEF IsRepository
  <2>8. IsFile(text) /\ Edit(text, repo[f], {})
    <3>1. CASE f \in DOMAIN acc.files
      BY <2>2, <2>3, <2>4, <3>1 DEF Fair
    <3>2. CASE f \notin DOMAIN acc.files
      <4>1. text = repo[f]
        BY <2>4, <3>2
      <4>. QED BY <2>7, <4>1 DEF Edit, SameJob
    <3>. QED BY <3>1, <3>2
  <2>9. IsFile(edit.file) /\ Edit(edit.file, text, {})
    BY <2>4, <2>7, <2>8, MutationEdits
  <2>10. Edit(edit.file, repo[f], {})
    BY <2>8, <2>9, EditsAddUp
  <2>11. PICK fs : fs = after[n + 1].files
    OBVIOUS
  <2>12. DOMAIN fs = DOMAIN acc.files \cup {f} /\ \A g \in DOMAIN fs : fs[g] = IF g = f THEN edit.file ELSE acc.files[g]
    BY <2>6, <2>11
  <2>13. Fair(acc.files)
    BY <2>2, <2>3
  <2>. QED BY <2>7, <2>9, <2>10, <2>11, <2>12, <2>13 DEF Fair
<1>9. fair = Nat
  <2>1. fair \subseteq Nat
    OBVIOUS
  <2>. HIDE DEF fair
  <2>. QED BY <1>7, <1>8, <2>1, Counting
<1>10. size \in fair
  <2>. HIDE DEF fair
  <2>. QED BY <1>0, <1>9
<1>11. Fair(after[size].files)
  <2>. HIDE DEF Fair
  <2>. QED BY <1>0, <1>10
<1>. QED BY <1>1, <1>11

\* The job of a check of the rollup, and whether it gates.
LEMMA CheckIsRequired ==
  ASSUME NEW repo, IsRepository(repo), NEW lost, Derivable(repo, lost),
         NEW model, model = ComputeProtectionMap(repo, lost, Conditional, <<>>),
         NEW check \in model.checks, check \notin RequiredStatically(model),
         NEW job \in Range(JobsIn(repo[Rollup])), LabelOf(job) = check.label
  PROVE  job \notin GateJobs(repo[Rollup])
<1>1. PICK files, jobs : files = FilesOf(repo, lost) /\ jobs = Range(JobsIn(repo[Rollup]))
  OBVIOUS
<1>2. /\ AreFiles(files) /\ files[Rollup] = repo[Rollup]
      /\ model.checks = UNION {CheckNames(files, j) : j \in jobs}
      /\ RequiredStatically(model) = SeenGates(repo, lost)
  BY <1>1, DerivedIs
<1>3. PICK j \in jobs : check \in CheckNames(files, j)
  BY <1>2
<1>4. check.label = LabelOf(j)
  BY <1>1, <1>2, <1>3, OneJob
<1>5. j = job
  BY <1>1, <1>2, <1>4 DEF AreFiles, IsRollup, IsFile
<1>6. j \notin GateJobs(repo[Rollup])
  BY <1>1, <1>2, <1>3 DEF SeenGates
<1>. QED BY <1>5, <1>6

\* A quarantine changes nothing about what gates, and frees the job it names.
LEMMA QuarantineIs ==
  ASSUME NEW file, IsFile(file), NEW id, NEW edit, edit = RenderQuarantine(file, id), edit.ok
  PROVE  /\ IsFile(edit.file) /\ Edit(edit.file, file, {id})
         /\ \A i \in Range(JobsIn(file)) : \E j \in Range(JobsIn(edit.file)) : SameJob(j, i)
         /\ \A j \in Range(JobsIn(edit.file)) : \E i \in Range(JobsIn(file)) :
              /\ SameJob(j, i) /\ (j.id # id => j.tolerant = i.tolerant)
              /\ Gate(edit.file, j) <=> Gate(file, i)
<1>1. id \in JobIds(file) /\ edit = WithJob(file, id, [JobOfId(file, id) EXCEPT !.tolerant = TRUE])
  <2>1. edit # Refuse(file)
    BY DEF Refuse
  <2>. QED BY <2>1 DEF RenderQuarantine, Editable
<1>2. PICK job \in Range(JobsIn(file)) : job.id = id /\ job = JobOfId(file, id)
  BY <1>1, JobIs DEF JobIds
<1>3. PICK new : new = [job EXCEPT !.tolerant = TRUE]
  OBVIOUS
<1>4. IsJob(new) /\ SameJob(new, job) /\ new.guard = job.guard /\ new.needs = job.needs
  <2>1. IsJob(job)
    BY DEF IsFile
  <2>. QED BY <1>3, <2>1 DEF IsJob, JobFields, SameJob
<1>5. edit = WithJob(file, id, new)
  BY <1>1, <1>2, <1>3
<1>6. IsFile(edit.file) /\ Edit(edit.file, file, {id})
  BY <1>1, <1>2, <1>4, <1>5, WithJobEdits
<1>7. PICK rollup : rollup = edit.file
  OBVIOUS
<1>8. new.id = id
  BY <1>2, <1>4 DEF SameJob
<1>9. /\ \A j \in Range(JobsIn(rollup)) : j = new \/ (j.id # id /\ j \in Range(JobsIn(file)))
      /\ \A i \in Range(JobsIn(file)) : (IF i.id = id THEN new ELSE i) \in Range(JobsIn(rollup))
  BY <1>1, <1>4, <1>5, <1>7, <1>8, WithJobIs
<1>10. \A i, j \in Range(JobsIn(file)) : i.id = j.id => i = j
  BY DEF IsFile
<1>11. \A i, j \in Range(JobsIn(rollup)) : i.id = j.id => i = j
  BY <1>6, <1>7 DEF IsFile
<1>12. ASSUME NEW j \in Range(JobsIn(rollup))
       PROVE  \E i \in Range(JobsIn(file)) : /\ SameJob(j, i) /\ j.guard = i.guard /\ j.needs = i.needs /\ j.id = i.id
                                             /\ (j.id # id => j.tolerant = i.tolerant)
  <2>1. CASE j = new
    BY <1>2, <1>4, <1>8, <2>1
  <2>2. CASE j # new
    BY <1>9, <2>2 DEF SameJob
  <2>. QED BY <2>1, <2>2
<1>13. ASSUME NEW i \in Range(JobsIn(file))
       PROVE  \E j \in Range(JobsIn(rollup)) : SameJob(j, i) /\ j.needs = i.needs /\ j.id = i.id
  <2>1. CASE i.id = id
    <3>1. i = job
      BY <1>2, <1>10, <2>1
    <3>. QED BY <1>2, <1>4, <1>8, <1>9, <2>1, <3>1
  <2>2. CASE i.id # id
    BY <1>9, <2>2 DEF SameJob
  <2>. QED BY <2>1, <2>2
<1>14. NeedsMap(rollup) = NeedsMap(file)
  <2>1. JobIds(rollup) = JobIds(file)
    BY <1>12, <1>13 DEF JobIds
  <2>2. ASSUME NEW x \in JobIds(file)
        PROVE  (CHOOSE j \in Range(JobsIn(rollup)) : j.id = x).needs = (CHOOSE j \in Range(JobsIn(file)) : j.id = x).needs
    <3>1. PICK i \in Range(JobsIn(file)) : i.id = x
      BY DEF JobIds
    <3>2. PICK j \in Range(JobsIn(rollup)) : j.needs = i.needs /\ j.id = i.id
      BY <1>13
    <3>3. (CHOOSE k \in Range(JobsIn(file)) : k.id = x) = i
      BY <1>10, <3>1
    <3>4. (CHOOSE k \in Range(JobsIn(rollup)) : k.id = x) = j
      BY <1>11, <3>1, <3>2
    <3>. QED BY <3>2, <3>3, <3>4
  <2>. QED BY <2>1, <2>2 DEF NeedsMap
<1>15. Triggers(rollup) = Triggers(file)
  BY <1>6, <1>7 DEF Edit, Triggers
<1>16. ASSUME NEW j, NEW i, j.guard = i.guard, j.id = i.id PROVE Gate(rollup, j) <=> Gate(file, i)
  BY <1>14, <1>15, <1>16 DEF Gate, Queued
<1>. QED BY <1>6, <1>7, <1>12, <1>13, <1>16

\* A gate of the job that a quarantine names for a check of another job is exposed.
LEMMA ExposedIs ==
  ASSUME NEW repo, IsRepository(repo), Rollup \in DOMAIN repo, NEW c \in Gates(repo),
         NEW job \in Range(JobsIn(repo[Rollup])), c \in CheckNames(FilesOf(repo, {}), job),
         NEW quarantined, NEW q \in quarantined, q.job = job.id, q.check.label # c.label
  PROVE  c \in Exposed(repo, quarantined)
<1>1. PICK files, model : files = FilesOf(repo, {}) /\ model = ComputeProtectionMap(repo, {}, Conditional, <<>>)
  OBVIOUS
<1>2. Derivable(repo, {})
  BY DEF Derivable
<1>3. /\ \A a \in model.meta[c].at : a.file = Rollup => a.job = job.id
      /\ \E a \in model.meta[c].at : a.file = Rollup
  BY <1>1, <1>2, DerivedIs
<1>4. \E a \in model.meta[c].at : a.file = Rollup /\ a.job = q.job
  BY <1>3
<1>. QED BY <1>1, <1>4 DEF Exposed

\* A quarantine of a check that is not required keeps the gates, whichever job it names, but
\* for those it exposes.
LEMMA QuarantineKeeps ==
  ASSUME NEW old, IsRepository(old), NEW lost, Derivable(old, lost),
         NEW model, model = ComputeProtectionMap(old, lost, Conditional, <<>>),
         NEW check \in model.checks, check \notin RequiredStatically(model), NEW id,
         NEW quarantined, NEW q \in quarantined, q.check = check, q.job = id,
         NEW edit, edit = RenderQuarantine(old[Rollup], id), edit.ok,
         NEW new, IsRepository(new), DOMAIN new = DOMAIN old, new[Rollup] = edit.file,
         \A f \in DOMAIN old : f # Rollup => new[f] = old[f]
  PROVE  KeepsGates(new, old, Exposed(old, quarantined))
<1>. DEFINE oldJobs == Range(JobsIn(old[Rollup]))
            newJobs == Range(JobsIn(new[Rollup]))
            All(repo) == FilesOf(repo, {})
<1>0. Rollup \in DOMAIN old /\ Rollup \in DOMAIN new /\ IsFile(old[Rollup]) /\ IsRollup(old[Rollup])
  BY DEF Derivable, IsRepository
<1>1. /\ \A i \in oldJobs : \E j \in newJobs : SameJob(j, i)
      /\ \A j \in newJobs : \E i \in oldJobs : /\ SameJob(j, i) /\ (j.id # id => j.tolerant = i.tolerant)
                                               /\ Gate(new[Rollup], j) <=> Gate(old[Rollup], i)
  <2>1. PICK file, written : file = old[Rollup] /\ written = new[Rollup]
    OBVIOUS
  <2>2. IsFile(file) /\ edit = RenderQuarantine(file, id) /\ written = edit.file
    BY <1>0, <2>1
  <2>3. /\ \A i \in Range(JobsIn(file)) : \E j \in Range(JobsIn(written)) : SameJob(j, i)
        /\ \A j \in Range(JobsIn(written)) : \E i \in Range(JobsIn(file)) :
             /\ SameJob(j, i) /\ (j.id # id => j.tolerant = i.tolerant)
             /\ Gate(written, j) <=> Gate(file, i)
    <3>1. /\ \A i \in Range(JobsIn(file)) : \E j \in Range(JobsIn(edit.file)) : SameJob(j, i)
          /\ \A j \in Range(JobsIn(edit.file)) : \E i \in Range(JobsIn(file)) :
               /\ SameJob(j, i) /\ (j.id # id => j.tolerant = i.tolerant)
               /\ Gate(edit.file, j) <=> Gate(file, i)
      <4>. HIDE DEF oldJobs, newJobs, All
      <4>. QED BY <2>2, QuarantineIs
    <3>. QED BY <2>2, <3>1
  <2>. QED BY <2>1, <2>3
<1>2. ASSUME NEW repo, IsRepository(repo), Rollup \in DOMAIN repo
      PROVE  /\ AreFiles(All(repo)) /\ All(repo)[Rollup] = repo[Rollup]
             /\ \A f \in DOMAIN All(repo) : All(repo)[f] = repo[f]
             /\ \A j \in Range(JobsIn(repo[Rollup])) :
                  j.uses # Nil => (j.uses \in DOMAIN All(repo) <=> j.uses \in Seen(repo, {}))
  <2>1. PICK files, built : files = FilesOf(repo, {}) /\ built = ComputeProtectionMap(repo, {}, Conditional, <<>>)
    OBVIOUS
  <2>2. Derivable(repo, {})
    BY <1>2 DEF Derivable
  <2>. QED BY <1>2, <2>1, <2>2, DerivedIs
<1>3. /\ Gates(old) = SeenGates(old, {}) /\ Gates(new) = SeenGates(new, {})
      /\ \A c : c \in TolerantGates(old) <=> c \in Gates(old) /\ \E j \in oldJobs : c \in CheckNames(All(old), j) /\ j.tolerant
      /\ \A c : c \in TolerantGates(new) <=> c \in Gates(new) /\ \E j \in newJobs : c \in CheckNames(All(new), j) /\ j.tolerant
  BY <1>0, GatesAre
<1>4. Seen(old, {}) = Seen(new, {})
  BY DEF Seen
<1>5. ASSUME NEW j \in newJobs, NEW i \in oldJobs, SameJob(j, i) PROVE CheckNames(All(old), i) = CheckNames(All(new), j)
  <2>1. i.uses = j.uses /\ i.uses # Rollup
    BY <1>0, <1>5 DEF SameJob, IsRollup
  <2>2. i.uses # Nil => (i.uses \in DOMAIN All(old) <=> i.uses \in DOMAIN All(new))
    BY <1>0, <1>2, <1>4, <2>1
  <2>3. i.uses # Nil /\ i.uses \in DOMAIN All(old) => All(old)[i.uses] = All(new)[i.uses]
    <3>1. i.uses # Nil /\ i.uses \in DOMAIN All(old) => i.uses \in DOMAIN old
      BY <1>0, <1>2 DEF Seen
    <3>. QED BY <1>0, <1>2, <2>1, <2>2, <3>1
  <2>. HIDE DEF All
  <2>. QED BY <1>5, <2>2, <2>3, SameNames, SMTT(60)
<1>6. \A i, j \in oldJobs : i.id = j.id => i = j
  BY <1>0 DEF IsFile
<1>7. ASSUME NEW i \in oldJobs, NEW j \in newJobs, SameJob(j, i)
      PROVE  (j.id # id => j.tolerant = i.tolerant) /\ (Gate(new[Rollup], j) <=> Gate(old[Rollup], i))
  <2>1. PICK k \in oldJobs : /\ SameJob(j, k) /\ (j.id # id => j.tolerant = k.tolerant)
                             /\ Gate(new[Rollup], j) <=> Gate(old[Rollup], k)
    BY <1>1
  <2>2. k = i
    BY <1>6, <1>7, <2>1 DEF SameJob
  <2>. QED BY <2>1, <2>2
<1>8. Gates(old) \subseteq Gates(new)
  <2>1. ASSUME NEW i \in GateJobs(old[Rollup]), NEW c \in CheckNames(All(old), i)
        PROVE  \E j \in GateJobs(new[Rollup]) : c \in CheckNames(All(new), j)
    <3>1. i \in oldJobs /\ Gate(old[Rollup], i)
      BY DEF GateJobs
    <3>2. PICK j \in newJobs : SameJob(j, i)
      BY <1>1, <3>1
    <3>3. j \in GateJobs(new[Rollup])
      BY <1>7, <3>1, <3>2 DEF GateJobs
    <3>. QED BY <1>5, <2>1, <3>1, <3>2, <3>3
  <2>. QED BY <1>3, <2>1 DEF SeenGates
<1>9. ASSUME NEW c \in TolerantGates(new) \cap Gates(old) PROVE c \in TolerantGates(old) \cup Exposed(old, quarantined)
  <2>1. PICK j \in newJobs : c \in CheckNames(All(new), j) /\ j.tolerant
    BY <1>3
  <2>2. PICK i \in oldJobs : SameJob(j, i)
    BY <1>1
  <2>3. c \in CheckNames(All(old), i)
    BY <1>5, <2>1, <2>2
  <2>4. PICK k \in GateJobs(old[Rollup]) : c \in CheckNames(All(old), k)
    BY <1>3 DEF SeenGates
  <2>5. k = i
    <3>1. k \in oldJobs
      BY <2>4 DEF GateJobs
    <3>2. PICK files : files = All(old)
      OBVIOUS
    <3>3. AreFiles(files) /\ files[Rollup] = old[Rollup]
      BY <1>0, <1>2, <3>2
    <3>4. k \in Range(JobsIn(files[Rollup])) /\ i \in Range(JobsIn(files[Rollup]))
      BY <3>1, <3>3
    <3>5. c \in CheckNames(files, k) /\ c \in CheckNames(files, i)
      BY <2>3, <2>4, <3>2
    <3>. QED BY <3>3, <3>4, <3>5, OneJob
  <2>6. c.label = LabelOf(i)
    <3>1. PICK files : files = All(old)
      OBVIOUS
    <3>2. AreFiles(files) /\ files[Rollup] = old[Rollup] /\ c \in CheckNames(files, i)
      BY <1>0, <1>2, <2>3, <3>1
    <3>. QED BY <3>2, OneJob
  <2>7. CASE i.id # id
    <3>1. j.tolerant = i.tolerant
      BY <1>7, <2>2, <2>7 DEF SameJob
    <3>. QED BY <1>3, <2>1, <2>3, <3>1
  <2>8. CASE i.id = id /\ check.label = c.label
    <3>1. i \notin GateJobs(old[Rollup])
      BY <2>6, <2>8, CheckIsRequired
    <3>. QED BY <2>4, <2>5, <3>1
  <2>9. CASE i.id = id /\ check.label # c.label
    <3>1. c \in CheckNames(FilesOf(old, {}), i) /\ c \in Gates(old)
      BY <2>3
    <3>2. c \in Exposed(old, quarantined)
      <4>. HIDE DEF All
      <4>. QED BY <1>0, <2>9, <3>1, ExposedIs
    <3>. QED BY <3>2
  <2>. QED BY <2>7, <2>8, <2>9
<1>. QED BY <1>8, <1>9 DEF KeepsGates

\* What the requests are assumed to be: a candidate consists of known changes.
IsRequestBody(ask) ==
  ask.kind = "candidate" => (\E M : ask.mutations \in Seq(M)) /\ \A m \in Range(ask.mutations) : IsMutation(m)

\* What a request may write onto a base.
Writes(ask, base, files) ==
  /\ IsRepository(Overlay(base, files))
  /\ ask.kind \in {"candidate", "quarantine"} =>
       KeepsGates(Overlay(base, files), base, Exposed(base, Quarantined(ask)))

\* A candidate that may be applied writes edits of its base that keep the gates.
LEMMA CandidateWrites ==
  ASSUME NEW ask, ask.kind = "candidate", NEW base, IsRepository(base), NEW lost, Derivable(base, lost),
         NEW model, model = ComputeProtectionMap(base, lost, Conditional, <<>>),
         NEW mutations, \E M : mutations \in Seq(M), \A m \in Range(mutations) : IsMutation(m),
         NEW place, NEW unreadable,
         NEW c, c = ProjectCandidate(base, unreadable, Conditional, model, place, mutations), Applicable(c)
  PROVE  Writes(ask, base, c.files)
<1>1. PICK files : files = Overrides(base, place, mutations).files
  OBVIOUS
<1>2. PICK new, rest, candidate :
        /\ new = Overlay(base, files) /\ rest = unreadable \ DOMAIN files
        /\ candidate = ComputeProtectionMap(new, rest, Conditional, model.observed)
  OBVIOUS
<1>3. /\ \A k \in DOMAIN mutations : place[k] \in DOMAIN base \ unreadable
      /\ Derivable(new, rest) /\ c.files = files /\ LostGates(model, candidate) = {}
  BY <1>1, <1>2 DEF ProjectCandidate, Applicable
<1>4. IsRepository(base)
  OBVIOUS
<1>5. DOMAIN files \subseteq DOMAIN base /\ \A f \in DOMAIN files : IsFile(files[f]) /\ Edit(files[f], base[f], {})
  BY <1>1, <1>3, <1>4, OverridesEdit
<1>7. /\ IsRepository(new) /\ DOMAIN new = DOMAIN base
      /\ \A f \in DOMAIN base : f \notin DOMAIN files => new[f] = base[f]
      /\ \A f \in DOMAIN files : new[f] = files[f]
  <2>1. PICK freed : freed = {}
    OBVIOUS
  <2>2. \A f \in DOMAIN files : IsFile(files[f]) /\ Edit(files[f], base[f], freed)
    BY <1>5, <2>1
  <2>3. DOMAIN files \subseteq DOMAIN base /\ new = Overlay(base, files)
    BY <1>2, <1>5
  <2>4. IsRepository(new)
    BY <1>4, <2>2, <2>3, EditedRepository
  <2>5. DOMAIN new = DOMAIN base
    BY <1>4, <2>2, <2>3, EditedRepository
  <2>6. \A f \in DOMAIN base : f \notin DOMAIN files => new[f] = base[f]
    BY <1>4, <2>2, <2>3, EditedRepository
  <2>7. \A f \in DOMAIN files : new[f] = files[f]
    BY <2>3 DEF Overlay
  <2>. QED BY <2>4, <2>5, <2>6, <2>7
<1>8. Edit(new[Rollup], base[Rollup], {})
  <2>1. CASE Rollup \in DOMAIN files
    BY <1>5, <1>7, <2>1
  <2>2. CASE Rollup \notin DOMAIN files
    <3>1. new[Rollup] = base[Rollup]
      BY <1>7, <2>2 DEF Derivable
    <3>. QED BY <3>1 DEF Edit, SameJob
  <2>. QED BY <2>1, <2>2
<1>9. SeenGates(base, lost) \subseteq SeenGates(new, rest)
  <2>1. RequiredStatically(model) = SeenGates(base, lost)
    BY <1>4, DerivedIs
  <2>2. RequiredStatically(candidate) = SeenGates(new, rest)
    BY <1>2, <1>3, <1>7, DerivedIs
  <2>. QED BY <1>3, <2>1, <2>2 DEF LostGates
<1>10. rest \cap DOMAIN files = {}
  BY <1>2
<1>11. KeepsGates(new, base, {})
  BY <1>3, <1>4, <1>7, <1>8, <1>9, <1>10, CandidateKeeps
<1>12. KeepsGates(new, base, Exposed(base, Quarantined(ask)))
  BY <1>11 DEF KeepsGates
<1>. QED BY <1>2, <1>3, <1>7, <1>12 DEF Writes

\* The other requests: an edit of the rollup, or nothing of it.
LEMMA RollupWrites ==
  ASSUME NEW base, IsRepository(base), Rollup \in DOMAIN base,
         NEW file, NEW freed, IsFile(file) /\ Edit(file, base[Rollup], freed),
         NEW files, DOMAIN files = {Rollup}, files[Rollup] = file, NEW new, new = Overlay(base, files)
  PROVE  /\ IsRepository(new) /\ DOMAIN new = DOMAIN base /\ new[Rollup] = file
         /\ \A f \in DOMAIN base : f # Rollup => new[f] = base[f]
<1>1. IsRepository(new)
  BY EditedRepository
<1>. QED BY <1>1 DEF Overlay

LEMMA QuarantineWrites ==
  ASSUME NEW ask, ask.kind = "quarantine", NEW base, IsRepository(base),
         NEW lost, Derivable(base, lost), NEW model, model = ComputeProtectionMap(base, lost, Conditional, <<>>),
         NEW edit, edit = PrepareQuarantine(model, base[Rollup], ask, {}), edit.ok
  PROVE  Writes(ask, base, edit.files)
<1>1. Rollup \in DOMAIN base /\ IsRepository(base)
  BY DEF Derivable
<1>2. PICK rendered, rollup, id : rollup = base[Rollup] /\ id = ask.job /\ rendered = RenderQuarantine(rollup, id)
  OBVIOUS
<1>3. /\ ask.check \in model.checks /\ ask.check \notin RequiredStatically(model)
      /\ rendered.ok /\ edit.files = [f \in {Rollup} |-> rendered.file]
  BY <1>2 DEF PrepareQuarantine, Nothing, Edited, RequiredGateChecks
<1>4. IsFile(rollup)
  BY <1>1, <1>2 DEF IsRepository
<1>5. IsFile(rendered.file) /\ Edit(rendered.file, rollup, {id})
  BY <1>2, <1>3, <1>4, QuarantineIs
<1>6. PICK new, file, files :
         file = rendered.file /\ files = [f \in {Rollup} |-> file] /\ new = Overlay(base, files)
  OBVIOUS
<1>7. /\ IsRepository(new) /\ DOMAIN new = DOMAIN base /\ new[Rollup] = file
      /\ \A f \in DOMAIN base : f # Rollup => new[f] = base[f]
  <2>1. PICK freed : freed = {id}
    OBVIOUS
  <2>2. IsFile(file) /\ Edit(file, base[Rollup], freed)
    BY <1>2, <1>5, <1>6, <2>1
  <2>3. DOMAIN files = {Rollup} /\ files[Rollup] = file
    BY <1>6
  <2>4. new = Overlay(base, files)
    BY <1>6
  <2>5. DOMAIN new = DOMAIN base /\ new[Rollup] = file
    BY <1>1, <2>3, <2>4 DEF Overlay
  <2>6. IsRepository(new)
    <3>1. DOMAIN files \subseteq DOMAIN base /\ \A f \in DOMAIN files : IsFile(files[f]) /\ Edit(files[f], base[f], freed)
      BY <1>1, <2>2, <2>3
    <3>. QED BY <1>1, <2>4, <3>1, EditedRepository
  <2>7. \A f \in DOMAIN base : f # Rollup => new[f] = base[f]
    BY <2>3, <2>4 DEF Overlay
  <2>. QED BY <2>5, <2>6, <2>7
<1>8. PICK check, quarantined, q :
        check = ask.check /\ quarantined = Quarantined(ask) /\ q = [check |-> check, job |-> id] /\ q \in quarantined
  BY <1>2 DEF Quarantined
<1>9. KeepsGates(new, base, Exposed(base, quarantined))
  <2>1. check \in model.checks /\ check \notin RequiredStatically(model)
    BY <1>3, <1>8
  <2>2. q \in quarantined /\ q.check = check /\ q.job = id
    BY <1>8
  <2>3. rendered = RenderQuarantine(base[Rollup], id) /\ rendered.ok /\ new[Rollup] = rendered.file
    BY <1>2, <1>3, <1>6, <1>7
  <2>4. IsRepository(new) /\ DOMAIN new = DOMAIN base /\ \A f \in DOMAIN base : f # Rollup => new[f] = base[f]
    BY <1>7
  <2>. QED BY <1>1, <2>1, <2>2, <2>3, <2>4, QuarantineKeeps
<1>. QED BY <1>3, <1>6, <1>7, <1>8, <1>9 DEF Writes

LEMMA TierWrites ==
  ASSUME NEW ask, NEW base, IsRepository(base), Rollup \in DOMAIN base, NEW model,
         NEW edit, edit = PrepareTierEdit(model, base[Rollup], ask, {}), edit.ok
  PROVE  IsRepository(Overlay(base, edit.files))
<1>1. PICK rendered, rollup : rollup = base[Rollup] /\ rendered = RenderTierAssign(rollup, ask.job, ask.event)
  OBVIOUS
<1>2. edit.files = [f \in {Rollup} |-> rendered.file]
  BY <1>1 DEF PrepareTierEdit, Nothing, Edited
<1>3. IsFile(rollup)
  BY <1>1 DEF IsRepository
<1>4. IsFile(rendered.file) /\ Edit(rendered.file, rollup, {})
  BY <1>1, <1>3, RenderEdits
<1>5. PICK new, file, files :
         file = rendered.file /\ files = [f \in {Rollup} |-> file] /\ new = Overlay(base, files)
  OBVIOUS
<1>6. IsRepository(new)
  <2>1. DOMAIN files = {Rollup} /\ files[Rollup] = file
    BY <1>5
  <2>2. PICK freed : freed = {}
    OBVIOUS
  <2>3. IsFile(file) /\ Edit(file, base[Rollup], freed)
    BY <1>1, <1>4, <1>5, <2>2
  <2>4. new = Overlay(base, files)
    BY <1>5
  <2>. QED BY <2>1, <2>3, <2>4, RollupWrites
<1>. QED BY <1>2, <1>5, <1>6

(***************************************************************************)
(* What holds while requests are served: the branch and the pull requests  *)
(* are repositories of that kind, a request that is past its derivation    *)
(* writes what keeps the gates of its base, and branches there, and a pull *)
(* request keeps the gates of its base.                                    *)
(***************************************************************************)
Prepared   == request.step \notin {"none", "derived"}
Branched   == request.step \in {"branched", "committed"}
BranchKept == \A i \in 1 .. HeadSha : IsRepository(commits[i])
RequestDerived(asks) ==
  Requesting => /\ request.ask \in asks /\ request.base \in 1 .. HeadSha
                /\ Derivable(commits[request.base], request.lost)
RequestWrites == Prepared => Writes(request.ask, commits[request.base], request.edit)
PointsAtBase == Branched => request.point = request.base
PullsKeep ==
  \A pull \in pulls :
    /\ pull.base \in 1 .. HeadSha /\ IsRepository(pull.files)
    /\ pull.kind \in {"candidate", "quarantine"} => KeepsGates(pull.files, commits[pull.base], Exposed(commits[pull.base], pull.quarantined))
GatesInv(asks) ==
  BranchKept /\ RequestDerived(asks) /\ RequestWrites /\ PointsAtBase /\ PullsKeep

LEMMA GatesStart ==
  ASSUME NEW asks, NEW repos, \A repo \in repos : IsRepository(repo), WorkspaceInit(repos)
  PROVE  GatesInv(asks)
<1>1. PICK repo \in repos : commits = <<repo>>
  BY DEF WorkspaceInit
<1>2. Len(commits) = 1 /\ commits[1] = repo
  BY <1>1
<1>3. request = NoRequest /\ pulls = {}
  BY DEF WorkspaceInit
<1>4. request.step = "none"
  BY <1>3 DEF NoRequest
<1>5. \A i \in 1 .. HeadSha : i = 1
  BY <1>2 DEF HeadSha
<1>. QED BY <1>2, <1>3, <1>4, <1>5 DEF GatesInv, BranchKept, RequestDerived, RequestWrites, PointsAtBase,
            PullsKeep, Requesting, Prepared, Branched

\* A request that ends, and one that goes on as it was.
LEMMA GatesEnd ==
  ASSUME NEW asks, GatesInv(asks), request' = NoRequest, UNCHANGED <<commits, pulls>>
  PROVE  GatesInv(asks)'
<1>1. request'.step = "none" /\ HeadSha' = HeadSha
  BY DEF NoRequest, HeadSha
<1>. QED BY <1>1 DEF GatesInv, BranchKept, RequestDerived, RequestWrites, PointsAtBase, PullsKeep,
                     Requesting, Prepared, Branched

LEMMA GatesAdvance ==
  ASSUME NEW asks, GatesInv(asks), UNCHANGED <<commits, pulls>>, Prepared,
         request'.ask = request.ask, request'.base = request.base, request'.lost = request.lost,
         request'.edit = request.edit, Branched' => request'.point = request'.base
  PROVE  GatesInv(asks)'
<1>1. HeadSha' = HeadSha /\ Requesting
  BY DEF HeadSha, Prepared, Requesting
<1>. QED BY <1>1 DEF GatesInv, BranchKept, RequestDerived, RequestWrites, PointsAtBase, PullsKeep

LEMMA AllFieldsKept ==
  ASSUME WorkspaceInv, Requesting, NEW step, NEW point,
         request' = [request EXCEPT !.step = step] \/ request' = [request EXCEPT !.step = step, !.point = point]
  PROVE  /\ request'.step = step /\ request'.ask = request.ask /\ request'.base = request.base
         /\ request'.lost = request.lost /\ request'.edit = request.edit
         /\ request'.point \in {request.point, point}
         /\ request' = [request EXCEPT !.step = step] => request'.point = request.point
         /\ request' = [request EXCEPT !.step = step, !.point = point] => request'.point = point
<1>1. RequestFields \subseteq DOMAIN request
  BY DEF WorkspaceInv, Carries
<1>2. CASE request' = [request EXCEPT !.step = step]
  BY <1>1, <1>2 DEF RequestFields
<1>3. CASE request' = [request EXCEPT !.step = step, !.point = point]
  BY <1>1, <1>3 DEF RequestFields
<1>. QED BY <1>2, <1>3

LEMMA GatesDerive ==
  ASSUME NEW asks, WorkspaceInv, GatesInv(asks), NEW ask \in asks, NEW unreadable, Derive(ask, unreadable)
  PROVE  GatesInv(asks)'
<1>1. PICK sha \in DOMAIN commits : DeriveAtSha(ask, sha, unreadable)
  <2>1. HeadSha \in DOMAIN commits
    BY DEF WorkspaceInv, IsBranch, HeadSha
  <2>. QED BY <2>1 DEF Derive
<1>2. PICK lost : /\ Derivable(commits[sha], lost)
                  /\ request' = [step |-> "derived", ask |-> ask, base |-> sha, lost |-> lost,
                                 moved |-> sha # HeadSha, edit |-> <<>>, point |-> 0]
  BY <1>1 DEF DeriveAtSha, Advance
<1>3. UNCHANGED <<commits, pulls>> /\ HeadSha' = HeadSha /\ sha \in 1 .. HeadSha
  BY <1>1 DEF DeriveAtSha, Advance, Elsewhere, HeadSha, WorkspaceInv, IsBranch
<1>4. request'.step = "derived" /\ request'.ask = ask /\ request'.base = sha /\ request'.lost = lost
  BY <1>2
<1>. QED BY <1>2, <1>3, <1>4 DEF GatesInv, BranchKept, RequestDerived, RequestWrites, PointsAtBase, PullsKeep,
            Requesting, Prepared, Branched

\* What is prepared writes what keeps the gates.
LEMMA PreparedWrites ==
  ASSUME NEW asks, \A ask \in asks : IsRequestBody(ask), WorkspaceInv, GatesInv(asks), NEW unreadable,
         NEW files, Prepare(unreadable), request' # NoRequest,
         request' = [request EXCEPT !.step = "prepared", !.edit = files]
  PROVE  /\ request.step = "derived" /\ Writes(request.ask, commits[request.base], request'.edit)
<1>0. request.step = "derived" /\ Requesting /\ RequestFields \subseteq DOMAIN request
  BY DEF Prepare, Requesting, WorkspaceInv, Carries
<1>1. PICK ask, base, model :
        /\ ask = request.ask /\ base = commits[request.base]
        /\ model = ComputeProtectionMap(base, request.lost, Conditional, <<>>)
  OBVIOUS
<1>2. /\ ask \in asks /\ IsRepository(base) /\ Derivable(base, request.lost) /\ Rollup \in DOMAIN base
  BY <1>0, <1>1 DEF GatesInv, RequestDerived, BranchKept, Derivable
<1>3. model = ModelOf(request.base, request.lost)
  BY <1>1 DEF ModelOf
<1>4. PICK edit \in EditsFor(ask, base, model, unreadable) :
        edit.ok /\ request' = [request EXCEPT !.step = "prepared", !.edit = edit.files]
  BY <1>1, <1>3 DEF Prepare, Advance, RequestEnds
<1>5. request'.edit = edit.files
  BY <1>0, <1>4 DEF RequestFields
<1>6. CASE ask.kind = "quarantine"
  <2>1. edit = PrepareQuarantine(model, base[Rollup], ask, {})
    <3>1. CASE Rollup \notin unreadable
      BY <1>6, <3>1 DEF EditsFor
    <3>2. CASE Rollup \in unreadable
      BY <1>4, <1>6, <3>2 DEF EditsFor, Nothing
    <3>. QED BY <3>1, <3>2
  <2>2. Writes(ask, base, edit.files)
    BY <1>1, <1>2, <1>4, <1>6, <2>1, QuarantineWrites
  <2>. QED BY <1>0, <1>1, <1>5, <1>6, <2>2
<1>7. CASE ask.kind = "tier"
  <2>1. edit = PrepareTierEdit(model, base[Rollup], ask, {})
    <3>1. CASE Rollup \notin unreadable
      BY <1>7, <3>1 DEF EditsFor
    <3>2. CASE Rollup \in unreadable
      BY <1>4, <1>7, <3>2 DEF EditsFor, Nothing
    <3>. QED BY <3>1, <3>2
  <2>2. IsRepository(Overlay(base, edit.files))
    BY <1>2, <1>4, <2>1, TierWrites
  <2>. QED BY <1>0, <1>1, <1>5, <1>7, <2>2 DEF Writes
<1>8. CASE ask.kind = "prefixes"
  <2>1. edit.files = <<>> /\ DOMAIN <<>> = {}
    BY <1>8 DEF EditsFor, PreparePrefixes
  <2>2. PICK nothing, freed : nothing = edit.files /\ freed = {}
    OBVIOUS
  <2>3. DOMAIN nothing = {}
    BY <2>1, <2>2
  <2>4. IsRepository(Overlay(base, nothing))
    BY <1>2, <2>3, EditedRepository
  <2>. QED BY <1>0, <1>1, <1>5, <1>8, <2>2, <2>4 DEF Writes
<1>9. CASE ask.kind = "candidate"
  <2>1. PICK mutations : mutations = ask.mutations
    OBVIOUS
  <2>2. EditsFor(ask, base, model, unreadable) =
          {[ok |-> Applicable(c), files |-> c.files] : c \in Projections(base, model, mutations, unreadable)}
    BY <1>9, <2>1 DEF EditsFor
  <2>3. PICK c \in Projections(base, model, mutations, unreadable) : edit = [ok |-> Applicable(c), files |-> c.files]
    BY <2>2
  <2>4. PICK place : c = ProjectCandidate(base, unreadable, Conditional, model, place, mutations)
    BY <2>3 DEF Projections
  <2>5. Applicable(c) /\ edit.files = c.files
    BY <1>4, <2>3
  <2>6. (\E M : mutations \in Seq(M)) /\ \A m \in Range(mutations) : IsMutation(m)
    BY <1>2, <1>9, <2>1 DEF IsRequestBody
  <2>7. Writes(ask, base, c.files)
    BY <1>1, <1>2, <1>9, <2>4, <2>5, <2>6, CandidateWrites
  <2>. QED BY <1>0, <1>1, <1>5, <1>9, <2>5, <2>7
<1>10. CASE ask.kind \notin {"quarantine", "tier", "prefixes", "candidate"}
  BY <1>4, <1>10 DEF EditsFor, Nothing
<1>. QED BY <1>6, <1>7, <1>8, <1>9, <1>10

LEMMA GatesRequest ==
  ASSUME NEW asks, \A ask \in asks : IsRequestBody(ask), WorkspaceInv, GatesInv(asks),
         (\E lost : Prepare(lost)) \/ DryRun \/ CheckPin \/ CreateRef \/ CreateCommit
  PROVE  GatesInv(asks)'
<1>1. ASSUME NEW lost, Prepare(lost) PROVE GatesInv(asks)'
  <2>1. request.step = "derived" /\ UNCHANGED <<commits, pulls>>
        /\ (request' = NoRequest \/ \E files : request' = [request EXCEPT !.step = "prepared", !.edit = files])
    BY <1>1 DEF Prepare, Advance, RequestEnds, Elsewhere
  <2>2. CASE request' # NoRequest
    <3>1. PICK files : request' = [request EXCEPT !.step = "prepared", !.edit = files]
      BY <2>1, <2>2
    <3>2. Requesting /\ RequestFields \subseteq DOMAIN request
      BY <2>1 DEF Requesting, WorkspaceInv, Carries
    <3>3. request'.step = "prepared" /\ request'.ask = request.ask /\ request'.base = request.base /\ request'.lost = request.lost
      BY <3>1, <3>2 DEF RequestFields
    <3>4. Writes(request.ask, commits[request.base], request'.edit)
      BY <1>1, <2>2, <3>1, PreparedWrites
    <3>5. HeadSha' = HeadSha
      BY <2>1 DEF HeadSha
    <3>. QED BY <2>1, <3>2, <3>3, <3>4, <3>5
             DEF GatesInv, BranchKept, RequestDerived, RequestWrites, PointsAtBase, PullsKeep, Branched, Requesting
  <2>. QED BY <2>1, <2>2, GatesEnd
<1>2. CASE DryRun
  BY <1>2, GatesEnd DEF DryRun, RequestEnds, Elsewhere
<1>3. CASE CheckPin
  <2>1. request.step = "prepared" /\ UNCHANGED <<commits, pulls>>
        /\ (request' = NoRequest \/ request' = [request EXCEPT !.step = "pinned"])
    BY <1>3 DEF CheckPin, Advance, RequestEnds, Elsewhere
  <2>2. CASE request' # NoRequest
    <3>1. Requesting /\ Prepared /\ request' = [request EXCEPT !.step = "pinned"]
      BY <2>1, <2>2 DEF Requesting, Prepared
    <3>2. /\ request'.step = "pinned" /\ request'.ask = request.ask /\ request'.base = request.base
          /\ request'.lost = request.lost /\ request'.edit = request.edit
      BY <3>1, AllFieldsKept
    <3>. QED BY <2>1, <3>1, <3>2, GatesAdvance DEF Branched
  <2>. QED BY <2>1, <2>2, GatesEnd
<1>4. CASE CreateRef
  <2>1. request.step \in {"pinned", "prepared"} /\ UNCHANGED <<commits, pulls>>
        /\ (request' = NoRequest \/ request' = [request EXCEPT !.step = "branched", !.point = request.base])
    BY <1>4 DEF CreateRef, ReadyToOpen, Advance, RequestEnds, Elsewhere, BranchPoint
  <2>2. CASE request' # NoRequest
    <3>1. Requesting /\ Prepared /\ request' = [request EXCEPT !.step = "branched", !.point = request.base]
      BY <2>1, <2>2 DEF Requesting, Prepared
    <3>2. /\ request'.step = "branched" /\ request'.ask = request.ask /\ request'.base = request.base
          /\ request'.lost = request.lost /\ request'.edit = request.edit /\ request'.point = request.base
      BY <3>1, AllFieldsKept
    <3>. QED BY <2>1, <3>1, <3>2, GatesAdvance
  <2>. QED BY <2>1, <2>2, GatesEnd
<1>5. CASE CreateCommit
  <2>1. request.step = "branched" /\ UNCHANGED <<commits, pulls>>
        /\ (request' = NoRequest \/ request' = [request EXCEPT !.step = "committed"])
    BY <1>5 DEF CreateCommit, Advance, RequestEnds, Elsewhere
  <2>2. CASE request' # NoRequest
    <3>1. Requesting /\ Prepared /\ request' = [request EXCEPT !.step = "committed"]
      BY <2>1, <2>2 DEF Requesting, Prepared
    <3>2. /\ request'.step = "committed" /\ request'.ask = request.ask /\ request'.base = request.base
          /\ request'.lost = request.lost /\ request'.edit = request.edit /\ request'.point = request.point
      BY <3>1, AllFieldsKept
    <3>3. request.point = request.base
      BY <2>1 DEF GatesInv, PointsAtBase, Branched
    <3>. QED BY <2>1, <3>1, <3>2, <3>3, GatesAdvance
  <2>. QED BY <2>1, <2>2, GatesEnd
<1>. QED BY <1>1, <1>2, <1>3, <1>4, <1>5

LEMMA GatesPull ==
  ASSUME NEW asks, WorkspaceInv, GatesInv(asks), CreatePr
  PROVE  GatesInv(asks)'
<1>1. request.step = "committed" /\ request' = NoRequest /\ UNCHANGED commits
  BY DEF CreatePr, Elsewhere
<1>2. request'.step = "none" /\ HeadSha' = HeadSha
  BY <1>1 DEF NoRequest, HeadSha
<1>3. /\ request.point = request.base /\ request.base \in 1 .. HeadSha
      /\ Writes(request.ask, commits[request.base], request.edit)
  BY <1>1 DEF GatesInv, PointsAtBase, Branched, RequestDerived, RequestWrites, Prepared, Requesting
<1>4. PICK pull : pull = [kind |-> request.ask.kind, base |-> request.point, moved |-> request.moved,
                          quarantined |-> Quarantined(request.ask), files |-> Overlay(commits[request.point], request.edit)]
  OBVIOUS
<1>5. /\ pull.kind = request.ask.kind /\ pull.base = request.base /\ pull.quarantined = Quarantined(request.ask)
      /\ pull.files = Overlay(commits[request.base], request.edit)
  BY <1>3, <1>4
<1>6. pulls' \subseteq pulls \cup {pull}
  BY <1>4 DEF CreatePr
<1>7. /\ pull.base \in 1 .. HeadSha /\ IsRepository(pull.files)
      /\ pull.kind \in {"candidate", "quarantine"} => KeepsGates(pull.files, commits[pull.base], Exposed(commits[pull.base], pull.quarantined))
  BY <1>3, <1>5 DEF Writes
<1>8. PullsKeep'
  BY <1>1, <1>2, <1>6, <1>7 DEF GatesInv, PullsKeep
<1>. QED BY <1>1, <1>2, <1>8 DEF GatesInv, BranchKept, RequestDerived, RequestWrites, PointsAtBase,
            Requesting, Prepared, Branched

\* Commits stay what they are when one is added.
LEMMA GatesHead ==
  ASSUME NEW asks, WorkspaceInv, GatesInv(asks), NEW repo, IsRepository(repo), HeadMoves(repo), pulls' \subseteq pulls
  PROVE  GatesInv(asks)'
<1>1. PICK Files : commits \in Seq(Files)
  BY DEF WorkspaceInv, IsBranch
<1>2. commits' = Append(commits, repo)
  BY DEF HeadMoves
<1>3. /\ HeadSha \in Nat /\ HeadSha' = HeadSha + 1
      /\ \A i \in 1 .. HeadSha : commits'[i] = commits[i]
      /\ commits'[HeadSha + 1] = repo
  <2>1. commits \in Seq(Files \cup {repo}) /\ repo \in Files \cup {repo}
    BY <1>1, SeqDef, LenProperties
  <2>. QED BY <1>2, <2>1, AppendProperties, LenProperties DEF HeadSha
<1>4. /\ \A i \in 1 .. HeadSha : i \in 1 .. HeadSha' /\ i \in (1 .. HeadSha)
      /\ \A i \in 1 .. HeadSha' : i \in 1 .. HeadSha \/ i = HeadSha + 1
  BY <1>3
<1>5. BranchKept'
  BY <1>3, <1>4 DEF GatesInv, BranchKept
<1>6. PullsKeep'
  BY <1>3, <1>4 DEF GatesInv, PullsKeep
<1>7. /\ request'.step = request.step
      /\ Requesting => /\ request'.ask = request.ask /\ request'.base = request.base /\ request'.lost = request.lost
                       /\ request'.edit = request.edit /\ request'.point = request.point
  <2>1. CASE request.step \in {"derived", "prepared"}
    <3>1. request' = [request EXCEPT !.moved = TRUE] /\ RequestFields \subseteq DOMAIN request
      BY <2>1 DEF HeadMoves, WorkspaceInv, Carries, Requesting
    <3>. QED BY <3>1 DEF RequestFields
  <2>2. CASE request.step \notin {"derived", "prepared"}
    BY <2>2 DEF HeadMoves
  <2>. QED BY <2>1, <2>2
<1>8. Prepared => Requesting
  BY DEF Prepared, Requesting
<1>9. Branched => Requesting
  BY DEF Branched, Requesting
<1>10. RequestDerived(asks)'
  BY <1>3, <1>4, <1>7 DEF GatesInv, RequestDerived, Requesting
<1>11. RequestWrites'
  BY <1>3, <1>4, <1>7, <1>8 DEF GatesInv, RequestDerived, RequestWrites, Requesting, Prepared
<1>12. PointsAtBase'
  BY <1>7, <1>9 DEF GatesInv, PointsAtBase, Branched
<1>. QED BY <1>5, <1>6, <1>10, <1>11, <1>12 DEF GatesInv

LEMMA GatesStep ==
  ASSUME NEW asks, NEW repos, NEW losses, NEW rules,
         \A ask \in asks : IsRequestBody(ask), \A repo \in repos : IsRepository(repo),
         WorkspaceInv, GatesInv(asks), [WorkspaceNext(asks, repos, losses, rules)]_workspaceVars
  PROVE  GatesInv(asks)'
<1>1. CASE CacheExpires \/ QuarantineExpires \/ (\E r \in rules : PutPolicies(r)) \/ UNCHANGED workspaceVars
  <2>1. UNCHANGED <<commits, request, pulls>>
    BY <1>1 DEF CacheExpires, QuarantineExpires, PutPolicies, Elsewhere, workspaceVars
  <2>. QED BY <2>1 DEF GatesInv, BranchKept, RequestDerived, RequestWrites, PointsAtBase, PullsKeep,
                       Requesting, Prepared, Branched, HeadSha
<1>2. CASE Push(repos)
  <2>1. PICK repo \in repos : HeadMoves(repo) /\ UNCHANGED pulls
    BY <1>2 DEF Push
  <2>. QED BY <2>1, GatesHead
<1>3. ASSUME NEW pull \in pulls, MergePull(pull) PROVE GatesInv(asks)'
  <2>1. HeadMoves(pull.files) /\ pulls' \subseteq pulls /\ IsRepository(pull.files)
    BY <1>3 DEF MergePull, GatesInv, PullsKeep
  <2>. QED BY <2>1, GatesHead
<1>4. CASE \E ask \in asks, lost \in losses : Derive(ask, lost)
  BY <1>4, GatesDerive
<1>5. CASE (\E lost \in losses : Prepare(lost)) \/ DryRun \/ CheckPin \/ CreateRef \/ CreateCommit
  BY <1>5, GatesRequest
<1>6. CASE CreatePr
  BY <1>6, GatesPull
<1>. QED BY <1>1, <1>2, <1>3, <1>4, <1>5, <1>6 DEF WorkspaceNext

\* For any repositories of which only the rollup runs in the queue, and whose rollup tells
\* its jobs apart by what they show; for any requests, quarantines of any check and any job
\* among them; whatever is pushed, merged, cached or unreadable meanwhile, and whichever
\* calls fail: merging a candidate or a quarantine onto the commit it was derived at keeps
\* every required gate, a candidate makes no job of one tolerate its failures, and neither
\* does a quarantine, but for the gates of a job named for a check of another job
\* (projectCandidate's lostRequiredGates, prepareQuarantineEdit, openDraftPr's pinned base).
THEOREM GatesSurvive ==
  ASSUME NEW CONSTANT asks, NEW CONSTANT repos, NEW CONSTANT losses, NEW CONSTANT rules,
         \A ask \in asks : IsRequestBody(ask), \A repo \in repos : IsRepository(repo)
  PROVE  WorkspaceInit(repos) /\ [][WorkspaceNext(asks, repos, losses, rules)]_workspaceVars
           => MergesKeepGates
<1>. DEFINE Good == WorkspaceInv /\ GatesInv(asks)
            Keeps == \A pull \in pulls :
                       pull.kind \in {"candidate", "quarantine"} /\ Merges(pull)
                       => KeepsGates(pull.files, commits[HeadSha], Exposed(commits[HeadSha], pull.quarantined))
<1>1. WorkspaceInit(repos) => Good
  BY WorkspaceStart, GatesStart
<1>2. Good /\ [WorkspaceNext(asks, repos, losses, rules)]_workspaceVars => Good'
  BY WorkspaceStep, GatesStep
<1>3. Good => Keeps
  BY DEF GatesInv, PullsKeep, Merges
<1>4. Good /\ [WorkspaceNext(asks, repos, losses, rules)]_workspaceVars => [Keeps]_workspaceVars
  BY <1>3
<1>5. MergesKeepGates <=> [][Keeps]_workspaceVars
  BY PTL DEF MergesKeepGates
<1>. HIDE DEF Good, Keeps
<1>. QED BY <1>1, <1>2, <1>4, <1>5, PTL
===============================================================================
