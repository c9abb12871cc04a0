---------------------------- MODULE BatchIngestion ----------------------------
(***************************************************************************)
(* The four batch routes of api/routes/ingestion.py: the checks of the     *)
(* request, the batch limiter, and asyncio.gather over one task per URL.   *)
(*                                                                         *)
(* The tasks of an ingesting batch are attempts of PersistentIngestion,    *)
(* each with a session of its own.  Those of a preview batch               *)
(* (services/ingestion.py) fetch and parse only, which is one step here.   *)
(***************************************************************************)
EXTENDS PersistentIngestion

CONSTANTS
    Batches,               \* the batch requests
    MaxBatchUrls,          \* settings.max_batch_urls
    MaxAllowedConcurrency  \* settings.max_allowed_concurrency

ASSUME BatchAssumption ==
    /\ IsFiniteSet(Batches)
    /\ MaxBatchUrls \in Nat \ {0}
    /\ MaxAllowedConcurrency \in Nat \ {0}

VARIABLES
    batch,        \* where each batch is: its answer once it has one
    members,      \* the attempts that stand for its URLs
    kind,         \* whether it ingests or previews
    concurrency,  \* the size of its limiter
    task          \* where the task of each attempt is

batchVars == <<batch, members, kind, concurrency, task>>

vars == <<storeVars, ingestionVars, batchVars>>

Refusals == {"http_422", "http_429", "http_503"}

BatchStates == {"new", "gathering", "results", "http_500", "lost"} \cup Refusals

\* A task has "raised" when what ended it is no HTTPException.
TaskStates == {"none", "waiting", "running", "returned", "raised", "lost"}

Init ==
    /\ StoreInit /\ IngestionInit
    /\ batch = [b \in Batches |-> "new"]
    /\ members = [b \in Batches |-> {}]
    /\ kind = [b \in Batches |-> "none"]
    /\ concurrency = [b \in Batches |-> 0]
    /\ task = [a \in Attempts |-> "none"]

Running(b) == {a \in members[b] : task[a] = "running"}

Claimed == UNION {members[b] : b \in Batches}

EndTask(a, state) == task' = [task EXCEPT ![a] = state]

-----------------------------------------------------------------------------
(* The request.                                                              *)

\* A slip that counts the URLs and does not look at the concurrency asked for.
UrlsWithinLimit(S, n) == Cardinality(S) <= MaxBatchUrls

WithinLimits(S, n) == Cardinality(S) <= MaxBatchUrls /\ n <= MaxAllowedConcurrency

\* The URLs of a batch are all parsed or all raw, by its route.
Requests == {S \in SUBSET (Attempts \ Claimed) :
                S # {} /\ (S \subseteq ParsedAttempts \/ S \cap ParsedAttempts = {})}

\* Persistence disabled (503), too many URLs or too much concurrency (422); after
\* these checks the rate limiter may refuse (429) or be unavailable (503).
RefuseBatch(b) ==
    /\ batch[b] = "new"
    /\ \E S \in Requests, n \in 1..MaxAllowedConcurrency + 1, r \in Refusals :
          /\ r = "http_422" => ~WithinLimits(S, n)
          /\ r = "http_429" => WithinLimits(S, n)
          /\ batch' = [batch EXCEPT ![b] = r]
    /\ UNCHANGED <<members, kind, concurrency, task, storeVars, ingestionVars>>

\* The limiter is created and every task scheduled; each waits for the limiter first.
AcceptBatch(b) ==
    /\ batch[b] = "new"
    /\ \E S \in Requests, n \in 1..MaxAllowedConcurrency + 1, k \in {"ingest", "preview"} :
          /\ WithinLimits(S, n)
          /\ members' = [members EXCEPT ![b] = S]
          /\ kind' = [kind EXCEPT ![b] = k]
          /\ concurrency' = [concurrency EXCEPT ![b] = n]
          /\ task' = [a \in Attempts |-> IF a \in S THEN "waiting" ELSE task[a]]
    /\ batch' = [batch EXCEPT ![b] = "gathering"]
    /\ UNCHANGED <<storeVars, ingestionVars>>

-----------------------------------------------------------------------------
(* The tasks.                                                                *)

\* A slip that gives a slot too many.
HasSlotOffByOne(b) == Cardinality(Running(b)) <= concurrency[b]

\* A slip that returns the slot only when the task ends well.
HasSlotUnlessRaised(b) ==
    Cardinality({a \in members[b] : task[a] \in {"running", "raised"}}) < concurrency[b]

HasSlot(b) == Cardinality(Running(b)) < concurrency[b]

Start(a, k) ==
    /\ task[a] = "waiting"
    /\ \E b \in Batches : a \in members[b] /\ kind[b] = k /\ HasSlot(b)
    /\ EndTask(a, "running")
    /\ UNCHANGED <<batch, members, kind, concurrency>>

\* The limiter is entered, a session is opened (no connection yet) and the
\* ingestion begins.
StartIngest(a) == Start(a, "ingest") /\ Receive(a)

StartPreview(a) == Start(a, "preview") /\ UNCHANGED <<storeVars, ingestionVars>>

\* An HTTPException becomes the URL's result; any other exception ends the task with
\* it.  Either way the session is closed and the slot returned.
TaskEnd(a) == IF reply[a] = "http_500" THEN "raised" ELSE "returned"

FinishIngest(a) ==
    /\ task[a] = "running" /\ pc[a] = "answered"
    /\ EndTask(a, TaskEnd(a))
    /\ UNCHANGED <<batch, members, kind, concurrency, storeVars, ingestionVars>>

FinishPreview(a) ==
    /\ task[a] = "running" /\ \E b \in Batches : a \in members[b] /\ kind[b] = "preview"
    /\ \E state \in {"returned", "raised"} : EndTask(a, state)
    /\ UNCHANGED <<batch, members, kind, concurrency, storeVars, ingestionVars>>

-----------------------------------------------------------------------------
(* The answer.                                                               *)

\* A slip: return_exceptions=True, and nobody looks for them.
AllEnded(b) == \A a \in members[b] : task[a] \in {"returned", "raised"}

AllReturned(b) == \A a \in members[b] : task[a] = "returned"

\* gather returns the results of all tasks, in the order of the URLs.
AnswerResults(b) ==
    /\ batch[b] = "gathering" /\ AllReturned(b)
    /\ batch' = [batch EXCEPT ![b] = "results"]
    /\ UNCHANGED <<members, kind, concurrency, task, storeVars, ingestionVars>>

\* gather raises the first exception of a task at once; the other tasks go on.
AnswerError(b) ==
    /\ batch[b] = "gathering" /\ \E a \in members[b] : task[a] = "raised"
    /\ batch' = [batch EXCEPT ![b] = "http_500"]
    /\ UNCHANGED <<members, kind, concurrency, task, storeVars, ingestionVars>>

Ongoing(a) == task[a] \in {"waiting", "running"}

\* The server process dies with every batch and task in it.
ServerCrash ==
    /\ \E a \in Attempts : Ongoing(a)
    /\ \/ Crash
       \/ /\ \A a \in Attempts : pc[a] \in {"new", "answered", "lost"}
          /\ UNCHANGED <<storeVars, ingestionVars>>
    /\ batch' = [b \in Batches |-> IF batch[b] = "gathering" THEN "lost" ELSE batch[b]]
    /\ task' = [a \in Attempts |-> IF Ongoing(a) THEN "lost" ELSE task[a]]
    /\ UNCHANGED <<members, kind, concurrency>>

TaskStep(a) ==
    \/ StartIngest(a) \/ StartPreview(a) \/ FinishIngest(a) \/ FinishPreview(a)
    \/ (AttemptStep(a) /\ UNCHANGED batchVars)

Answer200Or500(b) == AnswerResults(b) \/ AnswerError(b)

\* Nothing is under way, and nothing is left to ask for.
Quiescent ==
    /\ \A b \in Batches : batch[b] = "new" => Claimed = Attempts
    /\ \A b \in Batches : batch[b] # "gathering"
    /\ \A a \in Attempts : ~Ongoing(a)
    /\ UNCHANGED vars

Next ==
    \/ \E b \in Batches : RefuseBatch(b) \/ AcceptBatch(b) \/ Answer200Or500(b)
    \/ \E a \in Attempts : TaskStep(a) \/ (DatabaseFails(a) /\ UNCHANGED batchVars)
    \/ ServerCrash
    \/ Quiescent

Spec == Init /\ [][Next]_vars

\* The event loop runs every ready task and callback, and what a task waits for ends
\* (PersistentIngestion); a limiter slot goes to some waiter.  Errors are not
\* counted on.
Fairness ==
    /\ \A a \in Attempts : WF_vars(TaskStep(a))
    /\ \A b \in Batches : WF_vars(Answer200Or500(b))

FairSpec == Spec /\ Fairness

-----------------------------------------------------------------------------
(* Properties.                                                               *)

BatchTypeOK ==
    /\ StoreTypeOK /\ IngestionTypeOK
    /\ batch \in [Batches -> BatchStates]
    /\ members \in [Batches -> SUBSET Attempts]
    /\ kind \in [Batches -> {"none", "ingest", "preview"}]
    /\ concurrency \in [Batches -> 0..MaxAllowedConcurrency]
    /\ task \in [Attempts -> TaskStates]

\* "Batch limiter controls how many URLs from one batch run at once" (core/limits.py):
\* also after the batch was answered, no more of its attempts are between their start
\* and their end than it asked for.
BatchConcurrencyBound ==
    \A b \in Batches :
        Cardinality({a \in members[b] : \/ task[a] = "running"
                                        \/ pc[a] \notin {"new", "answered", "lost"}})
            <= concurrency[b]

\* A batch that answers with results has ended every attempt: each result that claims
\* a record has it committed with that outcome, each 502 has none, and no result
\* stands for an exception ("Ordered batch results with per-URL partial failure
\* handling", README.md).
BatchResultsTruthful ==
    \A b \in Batches : batch[b] = "results" =>
        \A a \in members[b] :
            /\ task[a] = "returned"
            /\ kind[b] = "ingest" =>
                  /\ reply[a] \in Replies \ {"http_500"}
                  /\ reply[a] = "success" =>
                        a \in RecordIds /\ ingestion_record[a].operation \in SuccessOperations
                  /\ reply[a] = "original_error" =>
                        a \in RecordIds /\ ingestion_record[a].operation \in AuditOperations
                  /\ reply[a] = "http_502" => a \notin RecordIds

\* Every accepted batch is answered unless the process dies, although its tasks hold
\* limiter slots while they wait for connections and rows.
EveryBatchAnswered ==
    \A b \in Batches : (batch[b] = "gathering") ~> (batch[b] # "gathering")

\* The tasks of a batch that one exception has answered 500 run on to their own end:
\* none is left waiting for a slot nobody returns.
SiblingsFinish ==
    \A a \in Attempts : (task[a] = "waiting") ~> (task[a] \in {"returned", "raised", "lost"})

=============================================================================
