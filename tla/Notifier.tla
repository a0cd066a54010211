------------------------------- MODULE Notifier -------------------------------
(***************************************************************************)
(* The notifier (src/server/notifier.ts): which events a feed fires and    *)
(* which debounce keys it leaves behind.  A key is [subject, type]; active *)
(* is the set of keys whose condition holds and was already dealt with,    *)
(* muted the event types that are switched off.  Each feed is a pair: the  *)
(* keys after it, and the keys it fires (sent to every sink).              *)
(***************************************************************************)
EXTENDS FiniteSets

StageTypes == {"ci-failed", "group-failed", "queue-blocked", "ready", "overdue"}
RepoTypes  == {"queue-stalled", "duration-regression", "runner-starvation", "budget-breach"}

Key(subject, type) == [subject |-> subject, type |-> type]

\* Does the condition of a type hold for a classify result?
IsActive(type, s) ==
  CASE type = "ci-failed"     -> s.stage = "parked" /\ s.substate = "ci-failed"
    [] type = "group-failed"  -> s.stage = "queue" /\ s.substate = "group-failed"
    [] type = "queue-blocked" -> s.stage = "queue" /\ s.substate \in {"queue-blocked", "unmergeable"}
    [] type = "ready"         -> s.stage = "ready"
    [] OTHER                  -> s.overdue

\* Only the edge from ci to ready is news.
EnteredFrom(type, prev) == type = "ready" => prev.stage = "ci"

\* Variant (not the code): a condition that clears keeps its key.
KeysAfterSticky(active, subject, s) ==
  active \cup {Key(subject, type) : type \in {t \in StageTypes : IsActive(t, s)}}

\* observe: one classify result of one pull request.
KeysAfter(active, subject, s) ==
  {k \in active : k.subject = subject /\ k.type \in StageTypes => IsActive(k.type, s)}
    \cup {Key(subject, type) : type \in {t \in StageTypes : IsActive(t, s)}}

News(active, subject, prev, s) ==
  {Key(subject, type) :
     type \in {t \in StageTypes : /\ IsActive(t, s) /\ EnteredFrom(t, prev)
                                  /\ Key(subject, t) \notin active}}

\* queueHealth, durationRegression, runnerStarvation, budgetBreach: one boolean
\* condition per subject.
FedKeys(active, key, holds) == IF holds THEN active \cup {key} ELSE active \ {key}

FedNews(active, key, holds) == IF holds /\ key \notin active THEN {key} ELSE {}

\* prodLive: cannot clear.
ShippedKey(pr) == Key(pr, "prod-live")

\* Variant (not the code): the keys of pruned pull requests stay.
PrunedNothing(active, live) == active

\* prune: the keys of pull requests that are gone; repository-level keys stay.
PrunedKeys(active, live) == {k \in active : k.type \in RepoTypes \/ k.subject \in live}

\* fire: a type that is switched off reaches no sink, but its key is set.
Fired(keys, muted) == {k \in keys : k.type \notin muted}
=============================================================================
