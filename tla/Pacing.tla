-------------------------------- MODULE Pacing --------------------------------
(***************************************************************************)
(* How often the poller asks GitHub (nextDelayMs, notePause, guard and     *)
(* runCycle in src/server/poller.ts): what an answer means                 *)
(* (src/server/github.ts), the budget each client last heard of            *)
(* (src/server/client-router.ts), the pause after a rate limit, and since  *)
(* when the board is stale.  When a chain runs at all is PollerTimers; here *)
(* a chain is off, at work, or armed for an instant.                       *)
(***************************************************************************)
EXTENDS Integers, FiniteSets

CONSTANTS
  Chains,     \* the timer chains
  Clients,    \* one per installation
  Paces,      \* what the configuration may say
  LowHot, LowSweep,  \* 60_000 and SWEEP_LOW_BUDGET_MS
  Responses   \* the answers GitHub may give
Unlimited == -1  \* an answer that is not rate limited; a budget nobody reported
Off  == -1       \* a chain of a stopped poller
Busy == -2       \* a chain at work
Never == -1
ASSUME PacingAssumption ==
  /\ Chains \subseteq {"sweep", "detail", "queue", "deploy"}
  /\ Paces \subseteq [sweep : Nat, hot : Nat, deploy : Nat, floor : Nat, webhooks : BOOLEAN, explicit : BOOLEAN]
  /\ Paces # {} /\ LowHot \in Nat /\ LowSweep \in Nat
  /\ Responses \subseteq
       [status : Nat, retryAfter : Nat \cup {Unlimited}, exhausted : BOOLEAN,
        errors : {"none", "RATE_LIMITED", "other"}, data : BOOLEAN, budget : Nat \cup {Unlimited}, rest : BOOLEAN]

VARIABLES
  time,       \* the instant
  pace,       \* intervals, rateLimitFloor and webhooks of the running configuration
  due,        \* chain |-> the instant its timer is armed for, Off or Busy
  pauseUntil, \* Poller.pauseUntil
  remaining,    \* client |-> GithubClient.remaining, for the clients made so far
  staleSince, \* Poller.staleSince
  runsInPause,\* chain |-> runs since the pause was last extended, two or more alike (history)
  lastAnswer  \* the instant of the last answer that was used (history)
pacingVars == <<time, pace, due, pauseUntil, remaining, staleSince, runsInPause, lastAnswer>>

(***************************************************************************)
(* What an answer means.  Status 0 stands for an answer that cannot be     *)
(* read, and for none.                                                     *)
(***************************************************************************)
\* A header that is missing or no number of seconds stands for a minute.
DefaultRetry == 60
RetrySeconds(r) == IF r.retryAfter = Unlimited THEN DefaultRetry ELSE r.retryAfter

RateLimited(r) ==
  \/ r.status = 429
  \/ r.status = 403 /\ (r.retryAfter # Unlimited \/ r.exhausted)
  \/ r.status = 200 /\ ~r.rest /\ r.errors = "RATE_LIMITED"
\* The seconds of the RateLimitError, Unlimited when there is none.
Penalty(r) == IF ~RateLimited(r) THEN Unlimited ELSE IF r.status = 200 THEN DefaultRetry ELSE RetrySeconds(r)
\* Partial data is used, whatever errors come with it.
IsUsed(r) == r.status = 200 /\ ~RateLimited(r) /\ (r.rest \/ r.errors = "none" \/ r.data)
\* The budget is noted before anything is thrown; REST answers carry none.
Reported(r, before) == IF r.status = 200 /\ ~r.rest /\ r.budget # Unlimited THEN r.budget ELSE before

(***************************************************************************)
(* The delay of a chain.                                                   *)
(***************************************************************************)
Later(a, b) == IF a >= b THEN a ELSE b
\* minRemaining below the floor: the worst client of all that were ever made.
LowOnBudget == \E c \in DOMAIN remaining : remaining[c] # Unlimited /\ remaining[c] < pace.floor
EffectiveHot == IF LowOnBudget THEN LowHot
                ELSE IF pace.webhooks /\ ~pace.explicit THEN 4 * pace.hot ELSE pace.hot
BaseDelay(chain) ==
  CASE chain = "sweep"  -> IF LowOnBudget THEN LowSweep ELSE pace.sweep
    [] chain = "deploy" -> pace.deploy
    [] OTHER            -> EffectiveHot

\* Variant (not the code): the pause only stretches the short intervals.
NextDelayCapped(chain) ==
  IF BaseDelay(chain) > 1 THEN BaseDelay(chain) ELSE Later(BaseDelay(chain), pauseUntil - time)

NextDelay(chain) == Later(BaseDelay(chain), pauseUntil - time)

(***************************************************************************)
(* Steps.                                                                  *)
(***************************************************************************)
PacingInit ==
  /\ time = 0 /\ pace \in Paces /\ due = [c \in Chains |-> Off] /\ pauseUntil = 0
  /\ remaining = [c \in {} |-> Unlimited] /\ staleSince = Never
  /\ runsInPause = [c \in Chains |-> 0] /\ lastAnswer = Never

PaceTicks == time' = time + 1 /\ UNCHANGED <<pace, due, pauseUntil, remaining, staleSince, runsInPause, lastAnswer>>

\* start(), also as the second half of a hot-apply: every chain is armed anew.
PaceStarts ==
  /\ pace' \in Paces
  /\ UNCHANGED <<time, pauseUntil, remaining, staleSince, runsInPause, lastAnswer>>
  /\ due' = [c \in Chains |-> time + NextDelay(c)']
PaceStops ==
  /\ due' = [c \in Chains |-> Off]
  /\ UNCHANGED <<time, pace, pauseUntil, remaining, staleSince, runsInPause, lastAnswer>>

\* A timer may be late, never early.
ChainRuns(c) ==
  /\ due[c] >= 0 /\ due[c] <= time
  /\ due' = [due EXCEPT ![c] = Busy]
  /\ runsInPause' = [runsInPause EXCEPT ![c] = IF @ = 0 THEN 1 ELSE 2]
  /\ UNCHANGED <<time, pace, pauseUntil, remaining, staleSince, lastAnswer>>
ChainArms(c) ==
  /\ due[c] = Busy
  /\ due' = [due EXCEPT ![c] = time + NextDelay(c)]
  /\ UNCHANGED <<time, pace, pauseUntil, remaining, staleSince, runsInPause, lastAnswer>>

\* clientFor: made on the first request of an owner of the installation, kept for good.
ClientIsMade(k) ==
  /\ k \notin DOMAIN remaining
  /\ remaining' = [c \in DOMAIN remaining \cup {k} |-> IF c = k THEN Unlimited ELSE remaining[c]]
  /\ UNCHANGED <<time, pace, due, pauseUntil, staleSince, runsInPause, lastAnswer>>

\* notePause.  It never shortens a pause.
NotePause(seconds) ==
  /\ pauseUntil' = Later(pauseUntil, time + seconds)
  /\ runsInPause' = IF pauseUntil' = pauseUntil THEN runsInPause ELSE [c \in Chains |-> 0]

\* Under guard a failure marks the board stale and a success clears the mark; a failure
\* that runCycle contains marks it; the requests for files and jobs only note a pause.
Uses == {"guarded", "contained", "quiet"}

\* A request is answered: one of a chain, of a nudge or of the kick, also after a stop.
Answered(k, r, use) ==
  /\ k \in DOMAIN remaining
  /\ remaining' = [remaining EXCEPT ![k] = Reported(r, @)]
  /\ IF RateLimited(r) THEN NotePause(Penalty(r)) ELSE UNCHANGED <<pauseUntil, runsInPause>>
  /\ staleSince' = IF use = "guarded" /\ IsUsed(r) THEN Never
                   ELSE IF use # "quiet" /\ ~IsUsed(r) /\ staleSince = Never THEN time
                   ELSE staleSince
  /\ lastAnswer' = IF use = "guarded" /\ IsUsed(r) THEN time ELSE lastAnswer
  /\ UNCHANGED <<time, pace, due>>

\* A crash: the pause, the budgets and the staleness are forgotten.
PaceRestarts ==
  /\ due' = [c \in Chains |-> Off] /\ pauseUntil' = 0 /\ staleSince' = Never
  /\ remaining' = [c \in {} |-> Unlimited]
  /\ runsInPause' = [c \in Chains |-> 0] /\ lastAnswer' = Never
  /\ UNCHANGED <<time, pace>>

PacingNext ==
  \/ PaceTicks \/ PaceStarts \/ PaceStops \/ PaceRestarts
  \/ \E c \in Chains : ChainRuns(c) \/ ChainArms(c)
  \/ \E k \in Clients : ClientIsMade(k)
  \/ \E k \in Clients, r \in Responses, use \in Uses : Answered(k, r, use)
PacingSpec == PacingInit /\ [][PacingNext]_pacingVars

-------------------------------------------------------------------------------
PacingTyped ==
  /\ time \in Nat /\ pace \in Paces /\ pauseUntil \in Nat
  /\ due \in [Chains -> Nat \cup {Off, Busy}]
  /\ runsInPause \in [Chains -> 0 .. 2]

\* Within a pause no chain runs more than once, on the timer that was armed before the
\* pause or the run that met it; whatever settings are applied, budgets reported or
\* further limits met ("rate-limit pauses and low-budget floors take effect
\* immediately").  And the board never claims to be stale since before an answer.
PauseIsKept ==
  /\ time < pauseUntil => \A c \in Chains : runsInPause[c] <= 1
  /\ staleSince # Never => lastAnswer <= staleSince
================================================================================
