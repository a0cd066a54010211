-------------------------------- MODULE Frames --------------------------------
(***************************************************************************)
(* From the poller's memory to those who read it: the frames emitted after  *)
(* a cycle, the browsers that follow them, the live snapshot and the health *)
(* the tool reports of itself, and the summary a sweep computes at most     *)
(* once per interval (src/server/poller.ts, api.ts, backend.ts,             *)
(* core/live/snapshot.ts, core/model/selfHealth.ts,                         *)
(* frontend/src/useDashboard.ts).                                           *)
(*                                                                          *)
(* Time passes in units; an age stops where nothing compares it any more.   *)
(***************************************************************************)
EXTENDS Naturals

CONSTANTS
  Browsers,
  Contents,         \* what the tracked pull requests may look like
  Keepalive,        \* EMIT_KEEPALIVE_MS
  SummaryInterval,  \* COST_SUMMARY_INTERVAL_MS
  StaleAfter,       \* staleAfterSecs of buildSelfHealth
  BrowserStale      \* STALE_AFTER_MS of the browser
ASSUME FramesAssumption ==
  /\ "none" \notin Contents
  /\ Keepalive \in Nat \ {0} /\ BrowserStale \in Nat \ {0}
  /\ SummaryInterval \in Nat /\ StaleAfter \in Nat

VARIABLES
  held,        \* what the cycles keep: the content, the content of the history, are calls failing?
  cost,        \* costSummaryCache, with its age
  budget,      \* the smallest rate-limit budget of the clients
  lastState,   \* the memoised state
  emitted,     \* lastEmittedSig
  frameAge,    \* since the last frame; LiveSnapshotStore.updatedAt
  cycleAge,    \* since a cycle last ended
  browsers     \* EventSource and hook of every browser
frameVars == <<held, cost, budget, lastState, emitted, frameAge, cycleAge, browsers>>

NoFrame == [content |-> "none", failing |-> FALSE, cost |-> "none"]
NoCache == [of |-> "none", age |-> SummaryInterval]
Older(age, cap) == IF age < cap THEN age + 1 ELSE cap

(***************************************************************************)
(* The summary: recomputed by a sweep when cold or older than the interval. *)
(***************************************************************************)
SummaryDue(cache) == cache.of = "none" \/ cache.age >= SummaryInterval
RefreshCostSummary == IF SummaryDue(cost) THEN [of |-> held'.content, age |-> 0] ELSE cost

(***************************************************************************)
(* A frame: the state is rebuilt after every cycle and sent unless it says  *)
(* what the last frame said, which is repeated once per Keepalive.          *)
(***************************************************************************)
BuildState == [content |-> held'.content, failing |-> held'.failing, cost |-> cost'.of]
GetState == IF lastState = NoFrame
            THEN [content |-> held.content, failing |-> held.failing, cost |-> cost.of] ELSE lastState

\* Variant (not the code): within Keepalive nothing is sent.
SkipsAll(state) == emitted # NoFrame /\ frameAge < Keepalive
\* Variant (not the code): an unchanged state is never sent again.
SkipsForGood(state) == state = emitted
Skips(state) == state = emitted /\ frameAge < Keepalive

\* The browser's handler of a frame, and its watchdog.
OnFrame(b, state) == [link |-> b.link, shown |-> state, connected |-> TRUE, stale |-> FALSE, quiet |-> 0]
Watchdog(b) ==
  LET quiet == Older(b.quiet, BrowserStale)
      stale == b.stale \/ (b.shown # NoFrame /\ quiet >= BrowserStale)
  IN [[b EXCEPT !.quiet = quiet] EXCEPT !.stale = stale]
Send(state) ==
  browsers' = [b \in Browsers |-> IF browsers[b].link = "open" THEN OnFrame(browsers[b], state) ELSE browsers[b]]

EmitUpdate ==
  /\ lastState' = BuildState
  /\ \/ /\ Skips(BuildState)
        /\ UNCHANGED <<emitted, frameAge, browsers>>
     \/ /\ ~Skips(BuildState)
        /\ emitted' = BuildState /\ frameAge' = 0
        /\ Send(BuildState)

(***************************************************************************)
(* Steps.                                                                   *)
(***************************************************************************)
FrameInit ==
  /\ held \in [content : Contents, failing : {FALSE}]
  /\ cost = NoCache
  /\ budget = "unknown"
  /\ lastState = NoFrame /\ emitted = NoFrame
  /\ frameAge = 0 /\ cycleAge = 0  \* the store is set when the backend is wired
  /\ browsers = [b \in Browsers |->
       [link |-> "closed", shown |-> NoFrame, connected |-> FALSE, stale |-> FALSE, quiet |-> 0]]

\* A cycle ends: its calls succeeded, or the last of them failed and what was
\* known stays; a sweep also refreshes the summary.
CycleEnds(sweep, ok) ==
  /\ held' \in [content : IF ok THEN Contents ELSE {held.content}, failing : {~ok}]
  /\ cost' = IF sweep THEN RefreshCostSummary ELSE cost
  /\ budget' \in {"fine", "low"}
  /\ EmitUpdate /\ cycleAge' = 0

Pass ==
  /\ frameAge' = Older(frameAge, StaleAfter + 1) /\ cycleAge' = Older(cycleAge, StaleAfter + 1)
  /\ cost' = [cost EXCEPT !.age = Older(@, SummaryInterval)]
  /\ browsers' = [b \in Browsers |->
       IF browsers[b].link = "closed" THEN browsers[b] ELSE Watchdog(browsers[b])]
  /\ UNCHANGED <<held, budget, lastState, emitted>>

\* GET /api/events: the state at once, then every frame.
Connect(b) ==
  /\ browsers[b].link # "open"
  /\ browsers' = [browsers EXCEPT ![b] = OnFrame([@ EXCEPT !.link = "open"], GetState)]
  /\ UNCHANGED <<held, cost, budget, lastState, emitted, frameAge, cycleAge>>

\* The connection breaks and the browser notices, or nobody tells it.
Disconnect(b) ==
  /\ browsers[b].link = "open"
  /\ browsers' = [browsers EXCEPT ![b].link = "lost", ![b].connected = FALSE]
     \/ browsers' = [browsers EXCEPT ![b].link = "lost"]
  /\ UNCHANGED <<held, cost, budget, lastState, emitted, frameAge, cycleAge>>

FrameNext ==
  \/ \E sweep, ok \in BOOLEAN : CycleEnds(sweep, ok)
  \/ Pass
  \/ \E b \in Browsers : Connect(b) \/ Disconnect(b)
FrameSpec == FrameInit /\ [][FrameNext]_frameVars

(***************************************************************************)
(* The tool's own health.                                                   *)
(***************************************************************************)
\* The limit is taken to be 5000, or what remains when that is more.
LowBudget == budget = "low"
Degraded == frameAge > StaleAfter \/ LowBudget

(***************************************************************************)
(* Properties.                                                              *)
(***************************************************************************)
States == [content : Contents \cup {"none"}, failing : BOOLEAN, cost : Contents \cup {"none"}]
Caches(values) == [of : values \cup {"none"}, age : Nat]
\* The type invariant.
FramesTyped ==
  /\ held \in [content : Contents, failing : BOOLEAN]
  /\ cost \in Caches(Contents) /\ frameAge \in Nat /\ cycleAge \in Nat
  /\ lastState \in States /\ emitted \in States
  /\ browsers \in [Browsers -> [link : {"closed", "open", "lost"}, shown : States,
                                connected : BOOLEAN, stale : BOOLEAN, quiet : Nat]]

\* A browser whose connection works shows what the last cycle left in held, also when
\* it connected between two cycles and though equal frames are not repeated; one that
\* was cut off without noticing says so once the watchdog has run out.
BrowsersShowTheBoard ==
  \A b \in Browsers : LET x == browsers[b] IN
    /\ x.link = "open" /\ lastState # NoFrame => x.shown = lastState
    /\ x.connected /\ ~x.stale => x.quiet < BrowserStale

\* The tool calls itself degraded when no cycle has ended for longer than StaleAfter,
\* and, with budget left, never while cycles end, however quiet the board.
HealthFollowsTheCycles ==
  /\ cycleAge > StaleAfter => Degraded
  /\ Degraded /\ ~LowBudget => cycleAge + Keepalive > StaleAfter
=============================================================================
