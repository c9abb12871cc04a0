------------------------------ MODULE RateLimit ------------------------------
(***************************************************************************)
(* The inbound rate limiter of api/dependencies/rate_limit.py, as the      *)
(* ingestion routes call it.                                               *)
(*                                                                         *)
(* Redis holds, for each policy, the times of the units admitted within    *)
(* its window, newest first.  The model has the age of each unit in ticks  *)
(* instead, so time may go on for ever; a unit past the window is dropped, *)
(* for it neither blocks nor is reported.  One client address is modelled: *)
(* another has a key of its own.                                           *)
(*                                                                         *)
(* Requests keep coming: a request that is over gives its name to another  *)
(* once none of its own units is in the window.  A client that is refused  *)
(* waits for what Retry-After says, a whole number of seconds, and asks    *)
(* again; its request takes a tick at least.                               *)
(***************************************************************************)
EXTENDS ServerResources, Integers, FiniteSetsExt

CONSTANTS
    Requests,        \* names of the requests of one address, in flight or in the window
    TicksPerSecond,  \* how finely time is told
    UrlLimit, UrlWindow, BatchLimit, BatchWindow,  \* units and seconds
    UrlCost, UrlParseCost, BatchUrlCost, BatchUrlParseCost,  \* units of each URL
    MaxBatchUrls

ASSUME RateAssumption ==
    /\ TicksPerSecond \in Nat \ {0} /\ MaxBatchUrls \in Nat \ {0}
    /\ UrlLimit \in Nat \ {0} /\ UrlWindow \in Nat \ {0}
    /\ BatchLimit \in Nat \ {0} /\ BatchWindow \in Nat \ {0}
    /\ {UrlCost, UrlParseCost, BatchUrlCost, BatchUrlParseCost} \subseteq Nat \ {0}

VARIABLES
    log,     \* Redis: the age of each unit admitted under each policy
    phase,   \* where each request is
    ask,     \* what each request asks for
    left,    \* ticks until the oldest unit that get_window_stats saw leaves the
             \* window, or until the request's own units do
    wait,    \* ticks a refused client still waits
    served   \* the age of each unit of work really done under each policy (history)

rateVars == <<log, phase, ask, left, wait, served>>

Policies == {"url-preview", "batch-preview"}

\* Nobody waits under this name: none has come, or the last one was served, given up by
\* its client or lost; or it was told that the limiter has no storage.
Gone == {"idle", "unavailable"}

Phases == Gone \cup {"checking", "admitted", "blocked", "measured", "refused"}

\* UrlIngestionRequest, and BatchUrlIngestionRequest within max_batch_urls, with what the
\* route charges for each URL.
Asks ==
    [policy : {"url-preview"}, urls : {1}, cost : {UrlCost, UrlParseCost}]
        \cup [policy : {"batch-preview"}, urls : 1..MaxBatchUrls,
              cost : {BatchUrlCost, BatchUrlParseCost}]

NoAsk == [policy |-> "url-preview", urls |-> 1, cost |-> UrlCost]

Limit(p) == IF p = "url-preview" THEN UrlLimit ELSE BatchLimit
Window(p) == IF p = "url-preview" THEN UrlWindow ELSE BatchWindow
Span(p) == Window(p) * TicksPerSecond

NoUnits == [u \in {} |-> 0]

RateInit ==
    /\ log = [p \in Policies |-> NoUnits]
    /\ phase = [r \in Requests |-> "idle"]
    /\ ask = [r \in Requests |-> NoAsk]
    /\ left = [r \in Requests |-> -1]
    /\ wait = [r \in Requests |-> -1]
    /\ served = [p \in Policies |-> NoUnits]

-----------------------------------------------------------------------------
(* Costs and the moving window.                                              *)

Units(a) == a.urls * a.cost

\* A slip that charges a batch as if it were one URL.
CostPerRequest(r) == ask[r].cost

\* _enforce_single_url_rate_limit and _enforce_batch_rate_limit.
Cost(r) == Units(ask[r])

\* The first n units of a request.
UnitsOf(r, n) == {r} \X (1..n)

\* A slip: less than the limit instead of at most the limit.
AdmitsBelow(p, cost) == cost + Cardinality(DOMAIN log[p]) < Limit(p)

\* MovingWindowRateLimiter.hit: there is no entry at index limit - cost.
Admits(p, cost) == cost + Cardinality(DOMAIN log[p]) <= Limit(p)

\* Ages once the units of U are among them, charged age ticks ago.
With(ages, U, age) == [u \in DOMAIN ages \cup U |-> IF u \in U THEN age ELSE ages[u]]

Charge(r) == [log EXCEPT ![ask[r].policy] = With(@, UnitsOf(r, Cost(r)), 0)]

\* The units at the end of the list that Redis keeps.
Oldest(p) == {u \in DOMAIN log[p] : \A v \in DOMAIN log[p] : log[p][v] <= log[p][u]}

\* Ages after a tick; what leaves the window is dropped.
Older(ages, p) == [u \in {v \in DOMAIN ages : ages[v] < Span(p)} |-> ages[u] + 1]

Ceiling(n) == -((-n) \div TicksPerSecond)

\* A slip that rounds to the second before.
RoundedDown(r) ==
    LET seconds == left[r] \div TicksPerSecond
    IN  Max({1, IF seconds = 0 THEN Window(ask[r].policy) ELSE seconds})

\* A slip that leaves a time that is over as it is.
NoMinimum(r) == Ceiling(left[r])

\* _get_retry_after_seconds: nought is falsy and gives way to the fallback.
RetryAfter(r) ==
    LET seconds == Ceiling(left[r])
    IN  Max({1, IF seconds = 0 THEN Window(ask[r].policy) ELSE seconds})

-----------------------------------------------------------------------------
(* A request.                                                                *)

Goto(r, ph) == phase' = [phase EXCEPT ![r] = ph]

\* What a request knows is gone with it.
Forgotten(R) ==
    /\ ask' = [r \in Requests |-> IF r \in R THEN NoAsk ELSE ask[r]]
    /\ left' = [r \in Requests |-> IF r \in R THEN -1 ELSE left[r]]
    /\ wait' = [r \in Requests |-> IF r \in R THEN -1 ELSE wait[r]]

End(r, ph) == Goto(r, ph) /\ Forgotten({r})

\* What is served counts from when it was charged, and at once if it was not.  Nothing
\* is promised, and nothing counted, of a limiter that fails open.
Serve(r) ==
    LET p == ask[r].policy
        age == IF phase[r] = "admitted" THEN Span(p) - left[r] ELSE 0
    IN  served' = IF age > Span(p) \/ settings.rate_limit_fail_open THEN served
                  ELSE [served EXCEPT ![p] = With(@, UnitsOf(r, Units(ask[r])), age)]

\* enforce_rate_limit returns, and the route goes on.
Allow(r) == End(r, "idle") /\ Serve(r)

\* A name for a new request: what Redis has of the last one has left its window.
Free(r) == phase[r] \in Gone /\ \A p \in Policies : \A u \in DOMAIN log[p] : u[1] # r

Arrive(r) ==
    /\ life = "serving" /\ Free(r)
    /\ IF settings.rate_limit_enabled
       THEN /\ \E a \in Asks : ask' = [ask EXCEPT ![r] = a]
            /\ Goto(r, "checking")
            /\ UNCHANGED <<left, wait>>
       ELSE End(r, "idle")
    /\ UNCHANGED <<log, served>>

\* MovingWindowRateLimiter.hit: one script in Redis; its answer is on the way then.
Hit(r) ==
    /\ phase[r] = "checking" /\ redis
    /\ IF Admits(ask[r].policy, Cost(r))
       THEN /\ log' = Charge(r)
            /\ left' = [left EXCEPT ![r] = Span(ask[r].policy)]
            /\ Goto(r, "admitted")
       ELSE /\ Goto(r, "blocked")
            /\ UNCHANGED <<log, left>>
    /\ UNCHANGED <<ask, wait, served>>

HitAnswered(r) ==
    /\ phase[r] = "admitted"
    /\ Allow(r)
    /\ UNCHANGED log

\* get_window_stats: when the oldest unit in the window leaves it, or a whole window
\* from now if there is none.
WindowStats(r) ==
    /\ phase[r] = "blocked" /\ redis
    /\ LET p == ask[r].policy
       IN  \/ DOMAIN log[p] = {} /\ left' = [left EXCEPT ![r] = Span(p)]
           \/ \E u \in Oldest(p) : left' = [left EXCEPT ![r] = Span(p) - log[p][u]]
    /\ Goto(r, "measured")
    /\ UNCHANGED <<log, ask, wait, served>>

\* The answer is computed by the clock of that moment: 429 with Retry-After.
Refuse(r) ==
    /\ phase[r] = "measured"
    /\ wait' = [wait EXCEPT ![r] = RetryAfter(r) * TicksPerSecond]
    /\ Goto(r, "refused")
    /\ UNCHANGED <<log, ask, left, served>>

\* The client has waited for longer than that; it may find no server.
AskAgain(r) ==
    /\ phase[r] = "refused" /\ wait[r] < 0
    /\ \/ life = "serving" /\ Goto(r, "checking") /\ UNCHANGED <<ask, left, wait>>
       \/ life = "down" /\ End(r, "idle")
    /\ UNCHANGED <<log, served>>

\* The except clause around the hit and the statistics.
StorageError(r) ==
    IF settings.rate_limit_fail_open
    THEN Allow(r)
    ELSE End(r, "unavailable") /\ UNCHANGED served

\* Redis cannot be reached, or its answer is lost, charged or not.
StorageFails(r) ==
    /\ phase[r] \in {"checking", "admitted", "blocked", "measured"} /\ ~redis
    /\ StorageError(r)
    /\ UNCHANGED log

RequestStep(r) ==
    \/ Arrive(r) \/ Hit(r) \/ HitAnswered(r) \/ WindowStats(r) \/ Refuse(r)
    \/ AskAgain(r) \/ StorageFails(r)

\* Requests that the application has not answered.
InFlight == {r \in Requests : phase[r] \notin Gone \cup {"refused"}}

\* The process dies: Redis keeps what it has charged.
Lose ==
    /\ phase' = [r \in Requests |-> IF r \in InFlight THEN "idle" ELSE phase[r]]
    /\ Forgotten(InFlight)
    /\ UNCHANGED <<log, served>>

Passed(ticks, floor) == Max({ticks - 1, floor})

\* Time passes for Redis and for everyone who waits.  A unit that has left a second ago
\* is reported as any that left before it.
Tick ==
    /\ UNCHANGED <<phase, ask>>
    /\ log' = [p \in Policies |-> Older(log[p], p)]
    /\ served' = [p \in Policies |-> Older(served[p], p)]
    /\ left' = [r \in Requests |-> Passed(left[r], -TicksPerSecond)]
    /\ wait' = [r \in Requests |-> Passed(wait[r], -1)]

-----------------------------------------------------------------------------
(* Properties.                                                               *)

\* Units of requests, each within its window.
Ages(ages, p) ==
    /\ DOMAIN ages \subseteq Requests \X (Nat \ {0})
    /\ ages \in [DOMAIN ages -> 0..Span(p)]

RateTypeOK ==
    /\ \A p \in Policies : Ages(log[p], p) /\ Ages(served[p], p)
    /\ phase \in [Requests -> Phases]
    /\ ask \in [Requests -> Asks]
    /\ \A r \in Requests : left[r] \in (-TicksPerSecond)..Span(ask[r].policy)
    /\ \A r \in Requests : wait[r] \in -1..Span(ask[r].policy)

\* "Redis-backed weighted inbound rate limiting" (README.md): unless it is told to fail
\* open, the limiter lets no more be done in any window than the policy's limit, each
\* URL at its cost, whichever calls fail and however often the application restarts.
WindowBound ==
    settings.rate_limit_enabled /\ ~settings.rate_limit_fail_open
        => \A p \in Policies : Cardinality(DOMAIN served[p]) <= Limit(p)

\* A client that does as Retry-After says never comes back before the oldest unit that
\* blocked it has left the window.
RetryAfterEnough == \A r \in Requests : phase[r] = "checking" => left[r] < 0

=============================================================================
