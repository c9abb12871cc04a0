------------------------------ MODULE ParserPool ------------------------------
(***************************************************************************)
(* The threads that parsing and DNS targets share.                         *)
(*                                                                         *)
(* asyncio.to_thread runs both parse_document's _parse_document_sync       *)
(* (services/parsing.py) and validate_url_is_safe's getaddrinfo            *)
(* (core/url_safety.py) in the event loop's default executor: a fixed      *)
(* number of threads and one queue.  A timeout ends the wait of the call,  *)
(* and takes its job from the queue if no thread has begun it; a thread    *)
(* that has begun cannot be stopped, and its result is dropped.            *)
(*                                                                         *)
(* A call is one preview or ingestion of one URL: it validates its target, *)
(* again for each redirect and each retry, requests it, and may parse the  *)
(* response.  The limiters it passes through are FetchLimits'.             *)
(***************************************************************************)
EXTENDS Naturals, Sequences, FiniteSets, SequencesExt

CONSTANTS
    Calls,       \* previews and ingestions
    Threads,     \* the threads of the default executor
    MaxTargets,  \* retry_attempts * (max_redirects + 1)
    Idle         \* what a thread without a job runs

ASSUME PoolAssumption ==
    /\ IsFiniteSet(Calls) /\ IsFiniteSet(Threads)
    /\ Idle \notin Calls
    /\ MaxTargets \in Nat \ {0}

VARIABLES
    stage,    \* where each call is
    targets,  \* how many targets it has validated
    queue,    \* the executor's queue; a job is named by its call
    thread,   \* what each thread runs
    ready,    \* the calls whose result is there and not yet delivered
    outcome   \* how each call ended

vars == <<stage, targets, queue, thread, ready, outcome>>

Stages == {"new", "resolving", "requesting", "parsing", "ended"}

Outcomes == {"none", "fetched", "parsed", "failed", "fetch_timeout", "parse_timeout"}

\* The stages in which a call waits for a thread.
AwaitsThread(c) == stage[c] \in {"resolving", "parsing"}

Init ==
    /\ stage = [c \in Calls |-> "new"]
    /\ targets = [c \in Calls |-> 0]
    /\ queue = <<>>
    /\ thread = [t \in Threads |-> Idle]
    /\ ready = {}
    /\ outcome = [c \in Calls |-> "none"]

-----------------------------------------------------------------------------
(* The calls.                                                                *)

\* asyncio.to_thread.
Submit(c, s) ==
    /\ stage' = [stage EXCEPT ![c] = s]
    /\ queue' = Append(queue, c)

End(c, o) ==
    /\ stage' = [stage EXCEPT ![c] = "ended"]
    /\ outcome' = [outcome EXCEPT ![c] = o]

\* A slip that follows one redirect too many.
OneMoreTarget(c) == targets[c] <= MaxTargets

\* The redirects and retries of fetch_url are not used up.
MoreTargets(c) == targets[c] < MaxTargets

\* validate_url_is_safe of the URL, of a redirect's Location or of a retry: a host
\* name is looked up by a thread, a literal address is not.
ValidateTarget(c) ==
    /\ stage[c] \in {"new", "requesting"}
    /\ MoreTargets(c)
    /\ targets' = [targets EXCEPT ![c] = @ + 1]
    /\ \/ Submit(c, "resolving")
       \/ /\ stage' = [stage EXCEPT ![c] = "requesting"]
          /\ UNCHANGED queue
    /\ UNCHANGED <<thread, ready, outcome>>

\* The response is there and is parsed.
Parse(c) ==
    /\ stage[c] = "requesting"
    /\ Submit(c, "parsing")
    /\ UNCHANGED <<targets, thread, ready, outcome>>

\* The fetch ends the call: it is a preview without parsing, the target is refused, the
\* request fails, or there are no redirects left.
FinishFetch(c) ==
    /\ stage[c] \in {"new", "requesting"}
    /\ \/ stage[c] = "requesting" /\ End(c, "fetched")
       \/ End(c, "failed")
    /\ UNCHANGED <<targets, queue, thread, ready>>

\* The event loop resumes the call with what its thread returned or raised.
Deliver(c) ==
    /\ c \in ready
    /\ ready' = ready \ {c}
    /\ \/ End(c, "failed")
       \/ stage[c] = "parsing" /\ End(c, "parsed")
       \/ /\ stage[c] = "resolving"
          /\ stage' = [stage EXCEPT ![c] = "requesting"]
          /\ UNCHANGED outcome
    /\ UNCHANGED <<targets, queue, thread>>

\* A slip that forgets to cancel the job when the wait is cancelled.
KeepQueued(c) == queue

\* Cancelling the wait cancels a job that no thread has begun.
QueueWithout(c) == RemoveFirst(queue, c)

\* A slip that forgets the timeout around the lookup.
MayTimeOutParsing(c) == stage[c] = "parsing"

\* asyncio.timeout is around each fetch (lookups and requests) and each parse; it
\* may fire although the result is there already.
MayTimeOut(c) == stage[c] \in {"resolving", "requesting", "parsing"}

TimeOut(c) ==
    /\ MayTimeOut(c)
    /\ End(c, IF stage[c] = "parsing" THEN "parse_timeout" ELSE "fetch_timeout")
    /\ queue' = QueueWithout(c)
    /\ ready' = ready \ {c}
    /\ UNCHANGED <<targets, thread>>

-----------------------------------------------------------------------------
(* The executor.                                                             *)

TakeJob(t) ==
    /\ thread[t] = Idle /\ queue # <<>>
    /\ thread' = [thread EXCEPT ![t] = Head(queue)]
    /\ queue' = Tail(queue)
    /\ UNCHANGED <<stage, targets, ready, outcome>>

\* A slip that delivers to whoever once asked.
WaitsForResult(c) == TRUE

\* Whether anyone still waits for the job of c.
Wanted(c) == AwaitsThread(c)

ThreadReturns(t) ==
    /\ thread[t] # Idle
    /\ thread' = [thread EXCEPT ![t] = Idle]
    /\ ready' = IF Wanted(thread[t]) THEN ready \cup {thread[t]} ELSE ready
    /\ UNCHANGED <<stage, targets, queue, outcome>>

Quiescent ==
    /\ \A c \in Calls : stage[c] = "ended"
    /\ \A t \in Threads : thread[t] = Idle
    /\ UNCHANGED vars

Next ==
    \/ \E c \in Calls : ValidateTarget(c) \/ Parse(c) \/ FinishFetch(c) \/ Deliver(c) \/ TimeOut(c)
    \/ \E t \in Threads : TakeJob(t) \/ ThreadReturns(t)
    \/ Quiescent

Spec == Init /\ [][Next]_vars

\* Timers fire.  Nothing is assumed of the threads: a lookup or a parser may take as
\* long as it likes.
Fairness == \A c \in Calls : WF_vars(TimeOut(c))

FairSpec == Spec /\ Fairness

-----------------------------------------------------------------------------
(* Properties.                                                               *)

TypeOK ==
    /\ stage \in [Calls -> Stages]
    /\ targets \in [Calls -> 0..MaxTargets]
    /\ queue \in Seq(Calls)
    /\ thread \in [Threads -> Calls \cup {Idle}]
    /\ ready \subseteq Calls
    /\ outcome \in [Calls -> Outcomes]

\* A call that waits for a thread has exactly one job, queued, running or returned,
\* and a call that does not has none but one that a thread had begun: neither a
\* timeout nor a late result ever loses or doubles a job.
JobsMatchCalls ==
    \A c \in Calls :
        LET queued == {i \in DOMAIN queue : queue[i] = c}
            running == {t \in Threads : thread[t] = c}
            returned == {c} \cap ready
        IN  IF AwaitsThread(c)
            THEN Cardinality(queued) + Cardinality(running) + Cardinality(returned) = 1
            ELSE queued = {} /\ returned = {} /\ Cardinality(running) <= 1

\* A call that was answered before its time is up stays as it was answered: a thread
\* that returns after the timeout changes nothing.
OutcomeIsFinal ==
    [][\A c \in Calls : outcome[c] # "none" => outcome'[c] = outcome[c]]_outcome

\* Every call ends, although threads may hang for ever and keep others waiting.
EveryCallEnds == \A c \in Calls : (stage[c] # "new") ~> (stage[c] = "ended")

\* "Parser execution is bounded by: ... parser timeout" (docs/architecture.md), "Max
\* parser runtime" (core/config.py): when parse_document has timed out, no thread still
\* parses that document.
TimeoutStopsParser ==
    \A c \in Calls : outcome[c] = "parse_timeout" => \A t \in Threads : thread[t] # c

=============================================================================
