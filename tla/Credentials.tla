---------------------------- MODULE Credentials ----------------------------
(***************************************************************************)
(* The token behind every request: TokenSource and AppTokenSource          *)
(* (server/auth.ts) under the concurrent requests of a GithubClient        *)
(* (server/github.ts), which answers one 401 with a refresh and one retry. *)
(*                                                                         *)
(* Tokens are numbered in the order they come into being: 1 is the one gh  *)
(* holds, or the first one minted.  A promise that settles and everything  *)
(* awaiting it run in one drain of the microtask queue, hence in one step. *)
(***************************************************************************)
EXTENDS Integers, FiniteSets

CONSTANTS
    Callers,    \* bound: how many requests may be under way at once
    MaxToken    \* bound: how many tokens ever exist

ASSUME MaxTokenAssumption == MaxToken \in Nat \ {0}

VARIABLES
    source,     \* config.tokenSource, fixed at start
    issued,     \* the newest token: what gh's keyring holds, or the last one minted
    accepted,   \* the tokens GitHub accepts
    aging,      \* the App tokens with less than TOKEN_REFRESH_MARGIN_MS to live
    cached,     \* this.token, this.cached; NoToken is null
    inflight,   \* this.inflight: {} is null, {f} the fetch that caller f began
    fetches,    \* the execs of gh, the mints, each under the caller that began it
    calls       \* the requests

vars == <<source, issued, accepted, aging, cached, inflight, fetches, calls>>

NoToken == 0
Tokens == 1 .. MaxToken

\* A fetch is asked for, then answered (with NoToken: it failed), then settled.
Fetch == [pc: {"none", "asked", "answered"}, token: Tokens \union {NoToken}]

NoFetch == [pc |-> "none", token |-> NoToken]
Asked   == [pc |-> "asked", token |-> NoToken]

(* A request awaits a token in get(), or in refresh() after a 401, or awaits
   GitHub's answer.  `on` is the fetch it awaits, `retried` the parameter of
   request(), `floor` the oldest token a retry may use (no state of the code:
   the newest token there was when GitHub said 401).                         *)
Call == [pc: {"idle", "getting", "refreshing", "sent"}, on: SUBSET Callers,
         token: Tokens \union {NoToken}, retried: BOOLEAN, floor: 0 .. MaxToken + 1]

\* A call at pc, not awaiting a fetch (yet).
CallAt(pc, token, retried, floor) ==
    [pc |-> pc, on |-> {}, token |-> token, retried |-> retried, floor |-> floor]

Idle == CallAt("idle", NoToken, FALSE, 0)

TypeOK ==
    /\ source \in {"gh", "app"}
    /\ issued \in Tokens \union {NoToken}
    /\ accepted \subseteq Tokens
    /\ aging \subseteq Tokens
    /\ cached \in Tokens \union {NoToken}
    /\ inflight \subseteq Callers
    /\ fetches \in [Callers -> Fetch]
    /\ calls \in [Callers -> Call]
    /\ \A c \in Callers : calls[c].pc = "sent" => calls[c].token # NoToken

\* The backend has asked gh for a token before anything else runs; in App mode
\* the registry is loaded and the token sources are made on first use.
Init ==
    /\ source \in {"gh", "app"}
    /\ issued = IF source = "gh" THEN 1 ELSE NoToken
    /\ accepted = IF source = "gh" THEN {1} ELSE {}
    /\ aging = {}
    /\ cached = issued
    /\ inflight = {}
    /\ fetches = [f \in Callers |-> NoFetch]
    /\ calls = [c \in Callers |-> Idle]

-----------------------------------------------------------------------------
\* Caller c begins a fetch of its own and awaits it, as call r.
BeginFetch(c, r) ==
    /\ inflight' = {c}
    /\ fetches' = [fetches EXCEPT ![c] = Asked]
    /\ calls' = [calls EXCEPT ![c] = [r EXCEPT !.on = {c}]]

\* Caller c awaits the fetch in flight, or begins one when there is none.
AwaitFetch(c, r) ==
    IF inflight = {}
    THEN BeginFetch(c, r)
    ELSE /\ calls' = [calls EXCEPT ![c] = [r EXCEPT !.on = inflight]]
         /\ UNCHANGED <<inflight, fetches>>

\* Whether get() answers from memory.
Usable == cached # NoToken /\ cached \notin aging

\* graphql(), restGet(): a request asks for the token and is sent with it.
Begin(c) ==
    /\ calls[c].pc = "idle"
    /\ IF Usable
         THEN /\ calls' = [calls EXCEPT ![c] = CallAt("sent", cached, FALSE, 0)]
              /\ UNCHANGED <<inflight, fetches>>
         ELSE AwaitFetch(c, CallAt("getting", NoToken, FALSE, 0))
    /\ UNCHANGED <<source, issued, accepted, aging, cached>>

\* gh prints the token its keyring holds; GitHub mints an installation token.
FetchSucceeds(f) ==
    /\ fetches[f].pc = "asked"
    /\ IF source = "gh"
         THEN UNCHANGED <<issued, accepted>>
         ELSE /\ issued < MaxToken
              /\ issued' = issued + 1
              /\ accepted' = accepted \union {issued + 1}
    /\ fetches' = [fetches EXCEPT ![f] = [pc |-> "answered", token |-> issued']]
    /\ UNCHANGED <<source, aging, cached, inflight, calls>>

FetchFails(f) ==
    /\ fetches[f].pc = "asked"
    /\ fetches' = [fetches EXCEPT ![f] = [pc |-> "answered", token |-> NoToken]]
    /\ UNCHANGED <<source, issued, accepted, aging, cached, inflight, calls>>

\* What becomes of a call when the fetch it awaits settles with token t: it
\* fails, or is sent, for the second time if it was refreshing.
Resumed(r, t) ==
    IF t = NoToken THEN Idle ELSE CallAt("sent", t, r.pc = "refreshing", r.floor)

\* Variant (not the code): a failed fetch stays in `inflight`, rejected for good.
FetchSettlesKept(f) ==
    /\ fetches[f].pc = "answered"
    /\ fetches' = [fetches EXCEPT ![f] = NoFetch]
    /\ inflight' = IF fetches[f].token = NoToken THEN inflight ELSE {}
    /\ cached' = IF fetches[f].token = NoToken THEN cached ELSE fetches[f].token
    /\ calls' = [c \in Callers |->
          IF calls[c].on = {f} THEN Resumed(calls[c], fetches[f].token) ELSE calls[c]]
    /\ UNCHANGED <<source, issued, accepted, aging>>

\* A fetch settles: `inflight` is cleared, whichever fetch it holds by now, the
\* token is remembered, and everyone who awaited this fetch goes on.
FetchSettles(f) ==
    /\ fetches[f].pc = "answered"
    /\ fetches' = [fetches EXCEPT ![f] = NoFetch]
    /\ inflight' = {}
    /\ cached' = IF fetches[f].token = NoToken THEN cached ELSE fetches[f].token
    /\ calls' = [c \in Callers |->
          IF calls[c].on = {f} THEN Resumed(calls[c], fetches[f].token) ELSE calls[c]]
    /\ UNCHANGED <<source, issued, accepted, aging>>

\* The request is over: answered with data, or with an error that is no 401.
Succeeds(c) ==
    /\ calls[c].pc = "sent"
    /\ calls[c].token \in accepted
    /\ calls' = [calls EXCEPT ![c] = Idle]
    /\ UNCHANGED <<source, issued, accepted, aging, cached, inflight, fetches>>

RequestFails(c) ==
    /\ calls[c].pc = "sent"
    /\ calls' = [calls EXCEPT ![c] = Idle]
    /\ UNCHANGED <<source, issued, accepted, aging, cached, inflight, fetches>>

\* The call that a first 401 leaves behind.
Refreshing(r) ==
    CallAt("refreshing", r.token, FALSE,
           IF source = "app" /\ issued = r.token THEN issued + 1 ELSE issued)

\* Variants (not the code): gh's refresh() shares the fetch in flight as the App's
\* does; the App's begins a fetch of its own as gh's does; gh's keeps the rejected
\* token, so that get() answers with it again.
RefreshSharing(c) ==
    /\ cached' = NoToken
    /\ AwaitFetch(c, Refreshing(calls[c]))

RefreshAlone(c) ==
    /\ cached' = NoToken
    /\ BeginFetch(c, Refreshing(calls[c]))

RefreshKeeping(c) ==
    /\ \/ /\ source = "gh" /\ Usable
          /\ calls' = [calls EXCEPT ![c].token = cached, ![c].retried = TRUE]
          /\ inflight' = {}
          /\ UNCHANGED fetches
       \/ source = "gh" /\ ~Usable /\ BeginFetch(c, Refreshing(calls[c]))
       \/ source = "app" /\ AwaitFetch(c, Refreshing(calls[c]))
    /\ UNCHANGED cached

\* refresh(): gh's drops the token and the fetch in flight and begins another,
\* the App's drops the token and shares the mint in flight.
Refresh(c) ==
    /\ cached' = NoToken
    /\ IF source = "gh"
         THEN BeginFetch(c, Refreshing(calls[c]))
         ELSE AwaitFetch(c, Refreshing(calls[c]))

\* A 401: the first one is answered by refresh(), the second fails the request.
Rejected(c) ==
    /\ calls[c].pc = "sent"
    /\ calls[c].token \notin accepted
    /\ IF calls[c].retried
         THEN /\ calls' = [calls EXCEPT ![c] = Idle]
              /\ UNCHANGED <<cached, inflight, fetches>>
         ELSE Refresh(c)
    /\ UNCHANGED <<source, issued, accepted, aging>>

-----------------------------------------------------------------------------
\* `gh auth login`: the keyring holds a new token, the old ones are revoked.
Login ==
    /\ source = "gh"
    /\ issued < MaxToken
    /\ issued' = issued + 1
    /\ accepted' = {issued + 1}
    /\ UNCHANGED <<source, aging, cached, inflight, fetches, calls>>

\* A token is revoked or expires; the bound leaves one to replace it.
Revoke ==
    /\ issued < MaxToken
    /\ \E t \in accepted : accepted' = accepted \ {t}
    /\ UNCHANGED <<source, issued, aging, cached, inflight, fetches, calls>>

\* The cached App token comes within the margin of its expiry.
Ages ==
    /\ source = "app"
    /\ Usable
    /\ issued < MaxToken
    /\ aging' = aging \union {cached}
    /\ UNCHANGED <<source, issued, accepted, cached, inflight, fetches, calls>>

Next ==
    \/ \E c \in Callers :
          \/ Begin(c) \/ Succeeds(c) \/ RequestFails(c) \/ Rejected(c)
          \/ FetchSucceeds(c) \/ FetchFails(c) \/ FetchSettles(c)
    \/ Login
    \/ Revoke
    \/ Ages

Spec == Init /\ [][Next]_vars

\* The cycles keep sending requests, every fetch and every request ends, and
\* neither fails for ever.
Fairness == \A c \in Callers :
    /\ WF_vars(Begin(c))
    /\ SF_vars(FetchSucceeds(c))
    /\ WF_vars(FetchSucceeds(c) \/ FetchFails(c))
    /\ WF_vars(FetchSettles(c))
    /\ SF_vars(Succeeds(c))
    /\ SF_vars(Rejected(c))

FairSpec == Spec /\ Fairness

-----------------------------------------------------------------------------
\* Nobody awaits a dead promise: a shared fetch is one that is still going to
\* settle, and so is every fetch that a call awaits (the error branch of get()
\* clears `inflight`, or one failure would be handed out for good).
NobodyAwaitsTheDead ==
    /\ \A f \in inflight : fetches[f].pc # "none"
    /\ \A c \in Callers : calls[c].pc \in {"getting", "refreshing"} =>
          \E f \in Callers : calls[c].on = {f} /\ fetches[f].pc # "none"

\* After a 401 the retry is not wasted: it is sent with the token gh held when
\* GitHub said 401 or a later one, and in App mode with another token than the
\* rejected one, whoever else is fetching or refreshing (the two refresh()s and
\* the comment "an in-flight mint is already fresh").
RetryIsFresh ==
    \A c \in Callers : calls[c].pc = "sent" /\ calls[c].retried => calls[c].token >= calls[c].floor

\* In App mode concurrent callers share one mint (AppTokenSource.inflight), also
\* when several of them come back with a 401.
OneMintAtATime ==
    source = "app" => \A f, g \in Callers :
        fetches[f].pc # "none" /\ fetches[g].pc # "none" => f = g

\* In App mode a cached token is the newest one, unless a newer mint is about to
\* settle: an old answer never replaces a newer token.
NewestIsCached ==
    source = "app" /\ cached # NoToken =>
        cached = issued \/ \E f \in Callers : fetches[f].token = issued

\* Once the credentials are good for good, the process sooner or later stops
\* using anything else: a revoked token that a slow fetch brought back, or a
\* 401 that met another refresh, does not stick.
RejectedTokensGo ==
    <>[](issued \in accepted) => <>[](cached # NoToken => cached \in accepted)
=============================================================================
