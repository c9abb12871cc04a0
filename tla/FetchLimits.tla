----------------------------- MODULE FetchLimits -----------------------------
(***************************************************************************)
(* Outbound fetches under the two limiters every fetch passes:             *)
(* services/fetching.py fetch_url (attempts, redirects, retries) and       *)
(* core/limits.py (the process-wide limiter and the evicting cache of      *)
(* per-host limiters).                                                     *)
(*                                                                         *)
(* One task per element of Fetches calls fetch_url over and over.  A task  *)
(* is preempted only where the coroutine suspends: waiting for the         *)
(* outbound limiter ("global_wait"), inside validate_url_is_safe           *)
(* ("resolving"), waiting for a host limiter ("host_wait"), from sending   *)
(* the request to closing the response ("requesting"), and between two     *)
(* attempts ("backoff").  Everything between two of those is one action.   *)
(*                                                                         *)
(* URLs are abstracted to their host; a response to what the code does     *)
(* with it.  Time is abstracted: a time budget is a choice that may have   *)
(* run out.                                                                *)
(***************************************************************************)
EXTENDS Naturals, FiniteSets, Sequences

CONSTANTS
    Fetches,       \* tasks that call fetch_url
    Hosts,         \* hostnames the fetched URLs and their redirects name
    Limiters,      \* semaphore objects the host cache can create
    NoLimiter,     \* a task that has looked up no host limiter
    GlobalLimit,   \* settings.global_max_outbound_fetches
    HostLimit,     \* settings.host_max_concurrency
    CacheSize,     \* settings.host_limiter_cache_size
    MaxRedirects,  \* settings.max_redirects
    RetryAttempts  \* settings.retry_attempts

\* The settings' own bounds (Field(ge=1), Field(ge=0) in core/config.py).
ASSUME LimitsAssumption ==
    /\ GlobalLimit \in Nat \ {0}
    /\ HostLimit \in Nat \ {0}
    /\ CacheSize \in Nat \ {0}
    /\ MaxRedirects \in Nat
    /\ RetryAttempts \in Nat \ {0}

ASSUME TasksAssumption ==
    /\ IsFiniteSet(Fetches)
    /\ IsFiniteSet(Hosts)
    /\ NoLimiter \notin Limiters

\* Enough semaphore objects that a new one is always to be had: the cache and the
\* other tasks cannot keep them all alive.
ASSUME LimitersAssumption ==
    /\ IsFiniteSet(Limiters)
    /\ Cardinality(Limiters) >= CacheSize + Cardinality(Fetches)

VARIABLES
    pc,               \* where each task is suspended
    url_host,         \* host of the URL the call was given
    current_host,     \* host of current_url, which redirects change
    hop,              \* index of the redirect loop
    attempt_number,   \* tenacity's attempt number of the call
    host_limiter,     \* the limiter object the task looked up
    outbound_value,   \* free slots of the outbound limiter
    in_flight,        \* the gauge INGESTION_OUTBOUND_IN_FLIGHT
    host_limiters,    \* the cache: host -> limiter object
    insertion_order,  \* the cache's keys, oldest first (a dict keeps it)
    limiter_value     \* free slots of each limiter object

callVars == <<url_host, attempt_number>>
loopVars == <<current_host, hop>>
outboundVars == <<outbound_value, in_flight>>
cacheVars == <<host_limiters, insertion_order>>
vars == <<pc, callVars, loopVars, host_limiter, outboundVars, cacheVars,
          limiter_value>>

States == {"idle", "global_wait", "resolving", "host_wait", "requesting",
           "backoff"}

\* The tasks inside the outbound limiter: between its acquire and its release.
InAttempt == {f \in Fetches : pc[f] \in {"resolving", "host_wait", "requesting"}}

\* The tasks that hold a slot of limiter object s.
Holders(s) == {f \in Fetches : pc[f] = "requesting" /\ host_limiter[f] = s}

\* The limiter objects some reference still keeps alive.  The others have been
\* reclaimed, and a new semaphore may stand for any of them.
Alive == {s \in Limiters : \/ \E h \in DOMAIN host_limiters : host_limiters[h] = s
                           \/ \E f \in Fetches : host_limiter[f] = s}

Init ==
    /\ pc = [f \in Fetches |-> "idle"]
    /\ url_host \in [Fetches -> Hosts]
    /\ current_host = url_host
    /\ hop = [f \in Fetches |-> 0]
    /\ attempt_number = [f \in Fetches |-> 0]
    /\ host_limiter = [f \in Fetches |-> NoLimiter]
    /\ outbound_value = GlobalLimit
    /\ in_flight = 0
    /\ host_limiters = [h \in {} |-> NoLimiter]
    /\ insertion_order = <<>>
    /\ limiter_value = [s \in Limiters |-> HostLimit]

-----------------------------------------------------------------------------
(* Leaving an attempt, by whichever exit: the two finally clauses.          *)

\* A slip that returns the host slot only on the path of a response.
KeepHostSlot(f) == limiter_value

\* The limiter values after `finally: host_limiter.release()`, which a task
\* reaches only when it is past the acquire.
ReleasedHost(f) ==
    IF pc[f] = "requesting"
    THEN [limiter_value EXCEPT ![host_limiter[f]] = @ + 1]
    ELSE limiter_value

\* A slip that gives the outbound slot back only when the task had a host slot.
ReleaseOutboundIfRequesting(f) ==
    IF pc[f] = "requesting"
    THEN outbound_value' = outbound_value + 1 /\ in_flight' = in_flight - 1
    ELSE UNCHANGED outboundVars

\* `finally: ...IN_FLIGHT.dec(); outbound_fetch_limiter.release()`.
ReleaseOutbound(f) ==
    /\ outbound_value' = outbound_value + 1
    /\ in_flight' = in_flight - 1

\* The attempt of task f ends, its locals with it, and the task goes to `next`.
LeaveAttempt(f, next) ==
    /\ pc' = [pc EXCEPT ![f] = next]
    /\ limiter_value' = ReleasedHost(f)
    /\ host_limiter' = [host_limiter EXCEPT ![f] = NoLimiter]
    /\ current_host' = [current_host EXCEPT ![f] = url_host[f]]
    /\ hop' = [hop EXCEPT ![f] = 0]
    /\ attempt_number' =
          [attempt_number EXCEPT ![f] = IF next = "idle" THEN 0 ELSE @]
    /\ ReleaseOutbound(f)
    /\ UNCHANGED <<url_host, cacheVars>>

-----------------------------------------------------------------------------
(* core/limits.py get_host_limiter: look the host up, evicting the oldest   *)
(* entry when a new one does not fit.  Nothing suspends under its lock.     *)

\* A slip that inserts without looking whether the cache is full.
NeverFull == FALSE

\* A slip that counts one entry too many: the last free entry is never used.
FullEarly == Cardinality(DOMAIN host_limiters) + 1 >= CacheSize

CacheFull == Cardinality(DOMAIN host_limiters) >= CacheSize

\* The hosts that stay cached when a new one is inserted.
KeptHosts ==
    IF CacheFull
    THEN DOMAIN host_limiters \ {Head(insertion_order)}
    ELSE DOMAIN host_limiters

CachedLimiter(h, s) ==
    /\ h \in DOMAIN host_limiters
    /\ s = host_limiters[h]
    /\ UNCHANGED cacheVars

NewLimiter(h, s) ==
    /\ h \notin DOMAIN host_limiters
    /\ s \notin Alive
    /\ s = CHOOSE t \in Limiters \ Alive : TRUE   \* which one makes no difference
    /\ host_limiters' = [k \in KeptHosts \cup {h} |->
                            IF k = h THEN s ELSE host_limiters[k]]
    /\ insertion_order' =
          Append(IF CacheFull THEN Tail(insertion_order) ELSE insertion_order, h)

-----------------------------------------------------------------------------
(* The steps of fetch_url.                                                  *)

\* A caller awaits fetch_url on some URL.
Call(f) ==
    /\ pc[f] = "idle"
    /\ \E h \in Hosts : /\ url_host' = [url_host EXCEPT ![f] = h]
                       /\ current_host' = [current_host EXCEPT ![f] = h]
    /\ pc' = [pc EXCEPT ![f] = "global_wait"]
    /\ UNCHANGED <<attempt_number, hop, host_limiter, outboundVars, cacheVars,
                   limiter_value>>

\* `await outbound_fetch_limiter.acquire()` returns: the attempt starts from the
\* URL the call was given.
AcquireOutbound(f) ==
    /\ pc[f] = "global_wait"
    /\ outbound_value > 0
    /\ outbound_value' = outbound_value - 1
    /\ in_flight' = in_flight + 1
    /\ attempt_number' = [attempt_number EXCEPT ![f] = @ + 1]
    /\ pc' = [pc EXCEPT ![f] = "resolving"]
    /\ UNCHANGED <<url_host, loopVars, host_limiter, cacheVars, limiter_value>>

\* validate_url_is_safe raises: an HTTPException, which is not retried.
RejectTarget(f) ==
    /\ pc[f] = "resolving"
    /\ LeaveAttempt(f, "idle")

\* validate_url_is_safe returns; the host limiter is looked up and, if it has a
\* free slot, acquired without suspending.
JoinHost(f) ==
    /\ pc[f] = "resolving"
    /\ \E s \in Limiters :
        LET h == current_host[f]
            free == IF h \in DOMAIN host_limiters THEN limiter_value[s]
                                                  ELSE HostLimit
        IN  /\ CachedLimiter(h, s) \/ NewLimiter(h, s)
            /\ host_limiter' = [host_limiter EXCEPT ![f] = s]
            /\ pc' = [pc EXCEPT ![f] = IF free > 0 THEN "requesting"
                                                  ELSE "host_wait"]
            /\ limiter_value' = [limiter_value EXCEPT ![s] =
                                    IF free > 0 THEN free - 1 ELSE free]
    /\ UNCHANGED <<callVars, loopVars, outboundVars>>

\* `await host_limiter.acquire()` of a task that had to wait returns.
AcquireHost(f) ==
    /\ pc[f] = "host_wait"
    /\ limiter_value[host_limiter[f]] > 0
    /\ limiter_value' = [limiter_value EXCEPT ![host_limiter[f]] = @ - 1]
    /\ pc' = [pc EXCEPT ![f] = "requesting"]
    /\ UNCHANGED <<callVars, loopVars, host_limiter, outboundVars, cacheVars>>

\* A slip that follows a redirect before the finally clause runs.
FollowKeepingSlot(f) ==
    /\ pc[f] = "requesting"
    /\ hop[f] < MaxRedirects
    /\ \E h \in Hosts : current_host' = [current_host EXCEPT ![f] = h]
    /\ hop' = [hop EXCEPT ![f] = @ + 1]
    /\ pc' = [pc EXCEPT ![f] = "resolving"]
    /\ host_limiter' = [host_limiter EXCEPT ![f] = NoLimiter]
    /\ UNCHANGED <<callVars, limiter_value, outboundVars, cacheVars>>

\* A redirect with a Location: `continue` closes the response and returns the
\* host slot, and the loop goes on while it has iterations left.
FollowRedirect(f) ==
    /\ pc[f] = "requesting"
    /\ hop[f] < MaxRedirects
    /\ \E h \in Hosts : current_host' = [current_host EXCEPT ![f] = h]
    /\ hop' = [hop EXCEPT ![f] = @ + 1]
    /\ pc' = [pc EXCEPT ![f] = "resolving"]
    /\ limiter_value' = ReleasedHost(f)
    /\ host_limiter' = [host_limiter EXCEPT ![f] = NoLimiter]
    /\ UNCHANGED <<callVars, outboundVars, cacheVars>>

\* The request ends the call: a response admitted and read, an HTTPException
\* (no Location, the redirect loop exhausted, length, type or content refused)
\* or an exception is_retryable_exception does not retry.
FinishRequest(f) ==
    /\ pc[f] = "requesting"
    /\ LeaveAttempt(f, "idle")

\* A slip that compares the attempt number with >.
StopLate(f) == attempt_number[f] > RetryAttempts

\* should_stop_retry's attempt budget; its time budget may be spent at any time.
AttemptsSpent(f) == attempt_number[f] >= RetryAttempts

\* A retryable exception (connect error, or status 429, 500, 502, 503, 504)
\* leaves the attempt, and the call gives up or sleeps before the next one.
FailRequest(f) ==
    /\ pc[f] = "requesting"
    /\ \/ LeaveAttempt(f, "idle")
       \/ ~AttemptsSpent(f) /\ LeaveAttempt(f, "backoff")

\* The backoff sleep ends and tenacity calls fetch_url again.
Retry(f) ==
    /\ pc[f] = "backoff"
    /\ pc' = [pc EXCEPT ![f] = "global_wait"]
    /\ UNCHANGED <<callVars, loopVars, host_limiter, outboundVars, cacheVars,
                   limiter_value>>

\* asyncio.timeout cancels the attempt where it is suspended; the TimeoutError
\* is not retried.  A cancelled acquire takes no slot.
TimeoutAttempt(f) ==
    /\ f \in InAttempt
    /\ LeaveAttempt(f, "idle")

\* What a task does once called, without its attempt timing out.
Step(f) == \/ AcquireOutbound(f) \/ RejectTarget(f) \/ JoinHost(f)
           \/ AcquireHost(f) \/ FollowRedirect(f) \/ FinishRequest(f)
           \/ FailRequest(f) \/ Retry(f)

Next == \E f \in Fetches : Call(f) \/ Step(f) \/ TimeoutAttempt(f)

Spec == Init /\ [][Next]_vars

\* The event loop runs every ready task, a request is answered or fails (the
\* client has its own timeouts), a sleep ends, and asyncio.Semaphore hands its
\* slots over first come first served, so a waiter is not passed over forever.
\* No help is taken from the attempt's timeout.
Fairness ==
    \A f \in Fetches :
        /\ WF_vars(JoinHost(f))
        /\ WF_vars(FinishRequest(f))
        /\ WF_vars(Retry(f))
        /\ SF_vars(AcquireOutbound(f))
        /\ SF_vars(AcquireHost(f))

FairSpec == Spec /\ Fairness

-----------------------------------------------------------------------------
(* Properties.                                                              *)

\* Every variable stays in its range: in particular no call makes more than
\* RetryAttempts attempts, and no attempt follows more than MaxRedirects.
TypeOK ==
    /\ pc \in [Fetches -> States]
    /\ url_host \in [Fetches -> Hosts]
    /\ current_host \in [Fetches -> Hosts]
    /\ hop \in [Fetches -> 0..MaxRedirects]
    /\ attempt_number \in [Fetches -> 0..RetryAttempts]
    /\ host_limiter \in [Fetches -> Limiters \cup {NoLimiter}]
    /\ outbound_value \in 0..GlobalLimit
    /\ in_flight \in 0..GlobalLimit
    /\ DOMAIN host_limiters \subseteq Hosts
    /\ host_limiters \in [DOMAIN host_limiters -> Limiters]
    /\ insertion_order \in Seq(Hosts)
    /\ limiter_value \in [Limiters -> 0..HostLimit]

\* Whatever ends an attempt (a response, a rejected target, an error, too many
\* redirects, a timeout while suspended anywhere), the outbound limiter's free
\* slots and the attempts inside it add up to the limit, and the gauge counts
\* exactly those attempts (fetch_url's outer try/finally).
OutboundSlotsConserved ==
    /\ outbound_value + Cardinality(InAttempt) = GlobalLimit
    /\ in_flight = Cardinality(InAttempt)

\* No slot of a limiter object is lost or returned twice, to the cached object or
\* to one evicted while fetches still hold or await it (fetch_url's inner
\* try/finally; get_host_limiter's eviction).
HostSlotsConserved ==
    \A s \in Limiters : limiter_value[s] + Cardinality(Holders(s)) = HostLimit

\* "Per-host limiter controls how many fetches hit the same hostname at once"
\* (core/limits.py): never more than HostLimit requests to one host.
HostConcurrencyBound ==
    \A h \in Hosts :
        Cardinality({f \in Fetches : pc[f] = "requesting" /\ current_host[f] = h})
            <= HostLimit

\* The two structures of the cache agree: the eviction order lists every cached
\* host once, no more hosts are cached than the settings allow, and two hosts
\* never share a limiter object.
CacheWellFormed ==
    /\ Cardinality(DOMAIN host_limiters) <= CacheSize
    /\ Len(insertion_order) = Cardinality(DOMAIN host_limiters)
    /\ {insertion_order[i] : i \in 1..Len(insertion_order)} = DOMAIN host_limiters
    /\ \A g, h \in DOMAIN host_limiters : host_limiters[g] = host_limiters[h] => g = h

\* Nobody waits for a slot in vain: a host limiter without a free one has a holder that
\* waits for its response alone, and while the outbound limiter has none, one of the
\* tasks inside of it can go on, though the others there wait for hosts.
NoCircularWait ==
    /\ \A f \in Fetches : pc[f] = "host_wait" =>
          limiter_value[host_limiter[f]] > 0 \/ Holders(host_limiter[f]) # {}
    /\ outbound_value = 0 =>
          \E f \in InAttempt : pc[f] = "host_wait" => limiter_value[host_limiter[f]] > 0

\* Every call of fetch_url comes to an end, without its timeout's help: no
\* cycle of tasks waiting for one another's host and outbound slots.
EveryFetchEnds == \A f \in Fetches : (pc[f] # "idle") ~> (pc[f] = "idle")

=============================================================================
