# Verification of the AI ingestion and retrieval platform

TLA+ models of the parts of `src/ai_ingestion_retrieval_platform` that keep state
and run concurrently, model-checked with TLC and, for their safety, proved with
TLAPS. Paths below are relative to that package unless they start with
`docs/` or `alembic/`.

## 1. Inventory

| Part | Source | State it keeps | Operations | What is hard | What makes it correct |
|---|---|---|---|---|---|
| Outbound fetching | `services/fetching.py`, `core/limits.py` | one outbound semaphore per process, a cache of per-host semaphores with insertion-order eviction, an in-flight gauge; per call: attempt number, redirect hop | `fetch_url` (acquire, resolve, look up and acquire the host limiter, send, redirect, read, release), tenacity's retry | every `await` is a place to be cancelled; eviction of a semaphore in use; slots across redirects and retries | slots conserved, cache consistent, per-host bound, every call ends |
| Persistent ingestion | `services/persistence.py`, `persistence/repositories.py` | one database session per attempt | `ingest_url`, `ingest_parsed_url`: fetch, parse, one transaction of upsert, record, document | concurrent upserts, failures between steps, lost commit acknowledgement, audits of failures that fail themselves | records, sources and documents agree; answers tell the truth |
| Schema and engine | `persistence/models.py`, `persistence/engine.py`, `api/dependencies/database.py` | tables `source`, `ingestion_record`, `parsed_document`; a pool without overflow | statements, COMMIT, ROLLBACK | PostgreSQL's table and row locks | foreign keys, uniqueness |
| Administration | `services/admin.py`, `persistence/admin_repository.py`, `admin_cli.py` | one session per command, in another process | `purge`, `delete_source`, `delete_ingestion`; listing and showing | runs beside the server; table locks against ongoing transactions | no dangling reference, exact purge counts, no deadlock |
| Batch routes | `api/routes/ingestion.py` | a batch semaphore, tasks under `asyncio.gather` | preview, ingest, parsed variants | exceptions of one task, siblings that go on | limits hold, results are true, every batch is answered |
| Previews, error classes | `services/ingestion.py` | none | `preview_*`, `build_ingestion_error` | which `except` clause an exception reaches; many codes for one status | every answer has a status and a code |
| Parsing | `services/parsing.py` | threads and queue of the default executor | `parse_document`; `getaddrinfo` of `core/url_safety.py` | the timeout ends the wait, not the thread; threads shared with DNS lookups | no job lost or doubled, no late result, every call ends |
| Inbound rate limit | `api/dependencies/rate_limit.py` | moving windows in Redis, which outlive the process | `enforce_rate_limit`, batch costs | Redis failing between two calls or after it has charged; weights; the clock going on between statistics and answer | no more than the window admits; `Retry-After` long enough; nobody kept out for ever but by others who are admitted |
| Admission, sniffing | `core/response_admission.py`, `core/content_sniffing.py` | none | pure checks of headers and bytes | the byte limit cuts a body anywhere | only what the settings allow is read, and it is not refused for nothing |
| URL safety | `core/url_safety.py` | none | checks, one DNS lookup, the pinned address | redirects and retries, each with a target of its own; addresses mapped into others | every request goes where a check has been |
| Lifecycle, health, metrics | `main.py`, `api/routes/health.py`, `core/metrics.py` | engine, clients and limiter on `app.state` | lifespan, readiness | restarts; a probe reads three things one after the other | ready only when requests are served |
| Content identity, middleware, auth, schemas, settings | rest of the package | none | one request each | - | - |
| Migrations | `alembic/` | the schema | upgrade, downgrade | the backfill of hashes | same schema as the models |

Interaction: a route checks the rate limit, then calls a service; persistent
services call `fetch_url` (under the limiters), `parse_document` (in a thread), and
then the repository over one session; batch routes do so for many URLs at once, each
task with its own session. The administrative CLI shares only the database with the
server.

## 2. Modules

| Module | Models |
|---|---|
| `FetchLimits` | `fetch_url` and `core/limits.py`; one action per stretch between two suspension points |
| `FetchLimitsProofs` | its theorems |
| `Store` | the three tables, table locks and row locks; the invariants of the tables |
| `PersistentIngestion` | `ingest_url` / `ingest_parsed_url` over `Store`, one action per statement |
| `AdminOperations` | `purge_database`, `delete_source`, `delete_ingestion` over `Store` |
| `IngestionSystem` | the server and the commands over one database |
| `AuditLog` | what persistent ingestion promises, without tables or transactions |
| `PersistentIngestionProofs` | lemmas about types, locks and phases of an attempt, for the two modules that compose `PersistentIngestion` |
| `IngestionSystemProofs` | the theorems about `IngestionSystem` |
| `BatchIngestion` | the four batch routes: checks, batch limiter, `asyncio.gather`; its tasks are attempts of `PersistentIngestion` |
| `BatchIngestionProofs` | its theorems |
| `ParserPool` | the default executor that `parse_document` and DNS lookups share, and the timeouts around both |
| `UrlSafety` | `core/url_safety.py`: the checks of a URL in their order, the lookup's answer, the pinned address |
| `ResponseAdmission` | `core/response_admission.py`, `core/content_sniffing.py`: what headers and bytes must look like |
| `IngestionErrors` | the exceptions of a fetch or a parse, the `except` clauses of `services/ingestion.py`, `build_ingestion_error` |
| `FetchCall` | one preview in time: `fetch_url` with every exception, `Retry-After`, budgets, redirects and chunks, then `parse_document` |
| `FetchCallProofs`, `ParserPoolProofs`, `ServerProofs` | the theorems about `FetchCall`, `ParserPool` and `Server` |
| `ServerResources` | `main.py`: what the process owns between start-up and shutdown, and Redis being up or down |
| `RateLimit` | `api/dependencies/rate_limit.py` and the routes' costs, call by call, over the windows in Redis |
| `Readiness` | `GET /health/ready`, call by call |
| `Server` | the three together: a process that starts, serves, is probed, stops or dies |
| `MCFetchLimits`, `MCIngestionSystem` | the symmetry of their instances |
| `MCBatchIngestion`, `MCParserPool`, `MCServer` | their instances; liveness is checked, so there is no symmetry |
| `MCFetchCall` | its instance: a URL for each check, and the address that maps an internal one |

The operators whose comment begins with "A slip" are seeded faults: each states a
plausible mistake next to the definition it would replace, and the manifest pairs it
with the property that catches it. No action uses them.

### FetchLimits

A task is at `pc`: `global_wait` (line 218), `resolving` (227), `host_wait` (240),
`requesting` (246-298), `backoff` (tenacity's sleep). Everything between two of these
runs without suspension and is one action: looking a host limiter up, evicting,
inserting and, if a slot is free, acquiring it is `JoinHost` (the lock of
`get_host_limiter` never suspends since nothing suspends while it is held).
`LeaveAttempt` is the pair of `finally` clauses, whichever way the attempt ends:
`RejectTarget`, `FinishRequest`, `FailRequest`, `TimeoutAttempt`. `Alive` says which
semaphore objects something still refers to; a new semaphore may reuse only an object
that is not alive, as the garbage collector would.

URLs are abstracted to their host, responses to what the code does with them, and
time budgets to choices. `asyncio.Semaphore` gives a released slot to its first
waiter; the model lets any task take it, which allows more behaviours, and only
fairness (below) relies on the order. `host_limiter` and the value of the semaphore
count a slot as taken when the waiter resumes.

### Store, PersistentIngestion, AdminOperations, IngestionSystem

The tables hold committed rows only; what a transaction has written and not committed
shows as its locks. READ COMMITTED is the engine's level, so each statement is an
action over the rows committed when it runs. An attempt's source row, record and
document all have the attempt as their id, and which transaction wrote a record
stands for its mode and error columns. `connecting` is the lazy check-out of a
connection by the first statement, `committed` is COMMIT having taken effect with its
acknowledgement still on the way.

`DatabaseFails` may happen at every step of the transaction and after COMMIT took
effect; `Crash` is the server process dying at any moment. The administrative process
fails by `AdminFails`. PostgreSQL makes later requests for a table queue behind a `LOCK TABLE`
that waits already; here any of them that conflicts with no lock held may be granted first, so
the model has more orders of grants and the properties rely on none. `LOCK TABLE a, b, c` locks one table after the other, so
`LockNextTable` runs three times.

`removed` in `IngestionSystem` is a history variable: which records an administrator
deleted. `Quiescent` is the self-loop of the state in which nothing is left to do,
so deadlock checking stays on in every run.

`AuditLog` is refined with `logged` = the outcome of every record there is or was,
`visible` = the records there are, `answer` = what the caller may conclude from the
HTTP answer: "success" and "the original error" claim a record of that outcome, 502
disclaims one, 503 and 500 say nothing.

`BlockedBy` says whose locks an actor's next statement conflicts with, and
`NoCircularWait` that no chain of waits closes: whoever is waited for waits for nobody,
or is a purge that has some of its tables and waits for such as wait for nobody. Chains
of two waits do occur (an attempt behind a purge behind a deletion). It is the safety
half of `EveryAttemptAnswered` and `EveryCommandEnds`, and, unlike them, proved.
`NoCircularWait` of `FetchLimits` is the same question about semaphores: a host limiter
without a free slot has a holder that waits for its response alone, and a full outbound
limiter has somebody inside that can go on.

### BatchIngestion

A batch claims a set of attempts, one for each URL, when `AcceptBatch` has passed the
checks of the route (`RefuseBatch` is every way not to); they all wait for the batch's
limiter at once, as `asyncio.gather` starts one task for each. `StartIngest` enters the
limiter and begins an attempt, whose steps are those of `PersistentIngestion`;
`FinishIngest` ends the task with a result or, if the attempt ended with an exception
that is no `HTTPException` (answer 500), with that exception. `AnswerError` is gather
raising the first such exception while the sibling tasks run on; `AnswerResults` needs
all tasks. Preview batches fetch and parse without a database, one step here, since
`FetchLimits` and `ParserPool` have their details. Whether the rate limiter admits a
batch is a choice. Two equal URLs in one batch are two attempts on one source. A client may ask for one
more than `max_allowed_concurrency`; that it does not get it is the part of `BatchTypeOK`
that no other property has.

### ParserPool

A call is at `stage` and submits a job to the executor at each `to_thread`. The job is
in `queue`, then on a `thread`, then in `ready` until the event loop resumes the call.
`TimeOut` is `asyncio.timeout` of a fetch or of a parse: it cancels the wait, which
removes a job that no thread has begun and leaves one that has begun running. Redirects
and retries are one more target to validate; the sleep before a retry is left out. What
a lookup or a parser returns is a choice. Nothing says that a thread ever returns.

### FetchCall, UrlSafety, ResponseAdmission, IngestionErrors

`FetchLimits` has many fetches and no time; `FetchCall` has one call and counts ticks.
`elapsed` is tenacity's `seconds_since_start`, `timer` what has passed of
`asyncio.timeout` (or what is left of a sleep), `waited` the part of `elapsed` spent
before the outbound limiter, which `fetch_url` enters before the timeout begins.
`Raise` is every way out of an attempt: `IsRetryable` and `ShouldStop` are tenacity's
two questions, `RetryWaits` its sleep. `Visit` is one call of `validate_url_is_safe`,
`Resolve` and `ResolveFails` its lookup. A URL is a record of what the checks tell
apart, an answer of the resolver any set of addresses, a body a sequence of symbols.

What the code does that one might not expect, and the model has:

- `config.py:128-131` calls `url_timeout_seconds` "Max total time per URL."; it bounds
  one attempt, after the outbound limiter. The bound of a call, N attempts of U seconds
  with backoffs of at most B and a total budget of T, is `FetchBound`:
  the smaller of N·U + (N-1)·B and T - 1 + B + U in whole ticks, plus the waits for the limiter.
- A text cut by the byte limit inside a character does not decode and is answered 415.
  `TextRefusedOnlyWhenCut` says that this is the only text refused for its bytes.
- That the byte limit is reached is seen when another chunk comes (`fetching.py:281`); a
  server that stalls right there makes a complete body time out.
- `httpx.InvalidURL`, `UnicodeError` of the resolver and what a parser raises outside a
  `try` of its own (pypdf while it counts pages, `parsing.py:204`; the HTML parser on
  markup nested too deep) reach no `except` clause: an unmapped 500.
- A malformed PDF is an `HTTPException` 400 without a code of its own, so
  `build_ingestion_error` calls it `unsafe_url`.
- `CodeOf` ends in the code `unknown_error`, like the function it models, but no
  exception of a call gets there: `TypeOK` has every failure's code among the others.
- Port zero is falsy and passes the port check; the request then fails.

`allowed_parse_content_types` is taken to be its default, and the 512 characters within
which `<html` may come late are not counted. The 413 and 415 that `parse_document` itself
may answer cannot be reached after admission.

### RateLimit, ServerResources, Readiness, Server

Redis keeps, for each policy, the times of the units it admitted, newest first; the model
keeps the age of each unit, a pair of the request and a number, so that time may go on
for ever in a finite space and units of one moment are told apart. The end of Redis'
list is `Oldest`, the place `limit - cost` that `hit` looks at is a count of units.
`Hit` and `WindowStats` are the two scripts the limiter runs in Redis, `HitAnswered` and
`Refuse` the answers coming back, each by the clock of its moment. A refused client waits for the `Retry-After` and a
tick more, then asks for the same again. `StorageFails` is any call failing while Redis
is down, before or after it charged: a request whose answer is lost is charged and not
served, and under `rate_limit_fail_open` served. A request that is over gives its name to
another once none of its units is in a window (`Free`), so requests arrive for as long as
the program runs; a name is one place among the requests of a moment. `Release` is an orderly shutdown or the
process dying (`Lose`); what Redis has counted stays.

`served` (units really served, by the age of their charge), `steady`, `vouched` and
`promised` (what a probe's 200 may be taken to promise, and to whom) are history
variables.

- `_get_retry_after_seconds` takes nought for no answer: a unit that left the window
  less than a second ago makes a client wait a whole window.
- With the default settings a batch of `max_batch_urls` = 20 URLs costs 20 of a window of
  10 (`config.py:77-80`, `170-193`): it is refused for ever, each time with a
  `Retry-After`.
- `Retry-After` announces only when the oldest unit leaves. A batch of two asks again then,
  finds room for one, and may find that taken by lighter requests for ever: that a client
  which obeys `Retry-After` gets in is false, and no text promises it. `KeptOutOnlyByOthers`
  is what holds: somebody else must go on being admitted. Units charged for nothing (a
  lost answer, a crash) or a restart of the application keep nobody out.
- `is_rate_limit_storage_ready` ignores Redis if the limiter fails open, while
  `docs/architecture.md:618` names Redis whenever the limiter is enabled; requests are
  served, which is what `ReadyMeansServed` asks.
- `_check_database_readiness` maps `TimeoutError` and `SQLAlchemyError`; the errors of
  finding 3 answer 500 there too, against `docs/operations.md:361-369`.

Redis hanging without an error (the client is made without a timeout of its own) is not
modelled: the request would wait as long. Nor are two client addresses, which share no window.

## 3. Runs

| Run | Instance | Shows |
|---|---|---|
| `fetch_limits` | 3 fetches, 2 hosts, outbound limit 2, host limit 1, cache 2, 1 redirect, 2 attempts | `TypeOK` (budgets), `HostConcurrencyBound` when the cache has room |
| `fetch_eviction` | 3 fetches, 2 hosts, cache 1, 1 attempt | slots conserved and cache well formed under eviction; nobody waits in a circle; every fetch ends |
| `fetch_host_bound` | as above, outbound limit 3 | **violated**: eviction breaks the per-host limit |
| `ingestion_safety` | 2 attempts (1 parsed, 1 raw), 2 commands, 1 URL, pool 2 | table invariants, truthful answers, no circle of waits, exact purge counts, refinement of `AuditLog` |
| `ingestion_progress` | 2 attempts, 1 command, pool 1 | every attempt and command ends |
| `batches` | 2 batches of up to 2 URLs, 2 attempts, 1 URL, pool 1 | the batch limit, truthful results, every batch answered, siblings end |
| `parser_pool` | 3 calls, 2 threads, 2 targets each | jobs match waits, answers are final, calls end without help of the threads |
| `parser_timeout` | as above | **violated**: the parser goes on after its timeout |
| `fetch_call` | 3 attempts of 2 ticks, 3 in all, backoffs of 1 or 2, 1 redirect, byte limits 1 and 2, chunks of 1 or 2 | the time bound, the body, the targets and the answers |
| `server` | 2 requests, at a time, told in half seconds: single URLs, 1 unit in 1 s; batches of 1 or 2 units, 2 units in 2 s; three deployments | the windows' bound, `Retry-After`, what a 200 of the probe promises, nobody kept out but by others |
| `last_seen` | 3 attempts, clock up to 3 | **violated**: `last_seen_at` goes back |
| `database_errors` | 1 attempt | **violated**: a connection error is answered 500 |

Bounds. Three fetches are the fewest for which one is evicted, one holds and one
waits; two hosts let a redirect cross to a limiter another task holds, and a cache of
one evicts at each change. More attempts than one matter only for the retry budget,
checked in `fetch_limits`. One URL is where attempts meet: rows of different URLs
share nothing but table locks, which one URL exercises too. Two writers race on a new
row, or the second finds it, with a command deleting it in between and another one
racing with that; the theorems below are about any number of each. In `batches` one connection makes two tasks compete for it whether
they are of one batch or of two, and a limiter of 1 or 2 slots makes them wait before
that as well or not. Three calls on two threads leave one queued; a redirect
makes a call submit twice before it parses. In `fetch_call` the total budget may end
before, at and after the second attempt, so either of the two limits stops a call first;
chunks of two overrun a byte limit of one and cross one of two; ten
redirect targets fail one check each or none. In `server` a request may cost the whole window, half seconds are
what makes rounding up differ from rounding down, and two requests are the fewest of
which one blocks the other; as names are used again, one of them can be kept out by a
lasting stream under the other name. The clock is held at 0 where no property looks at times.

Fairness. `FetchLimits`: the event loop runs ready tasks, a request ends (the HTTP
client has timeouts of its own), sleeps end: weak fairness; `asyncio.Semaphore` is
first come first served: strong fairness of the two acquires. No fairness of the
attempt's timeout is assumed, so `EveryFetchEnds` says that its help is not needed to
avoid a circular wait. `IngestionSystem`: weak fairness of an attempt's steps (fetch
and parser have timeouts; PostgreSQL grants a lock once nothing conflicts; the pool
serves waiters) and of a started command. `BatchIngestion`: the same for the steps of a
task, and weak fairness of a batch's answer. `ParserPool`: weak fairness of the timers
only. `Server`: time passes, a request that has come goes on and a refused client asks
again; nothing makes a request or a probe come, Redis recover or the process live.
`FetchCall` needs none: that a call ends is the bound on its time, an invariant. No failure or crash is assumed
to happen.

What the violated runs show is listed in `PROJECT.json` under `findings`:

1. `core/limits.py:82` evicts the oldest host limiter whether or not it is in use, so
   "Max concurrent fetches per host" (`core/config.py:150`) does not hold once more
   hosts than `host_limiter_cache_size` are in play.
2. `repositories.py:87` sets `last_seen_at` to the transaction's start time, so it can
   move backwards although it is documented as refreshed.
3. `services/persistence.py:282` maps `SQLAlchemyError` alone to 503; errors of
   connecting that SQLAlchemy does not wrap are answered 500, against
   `docs/architecture.md:459`.
4. `services/parsing.py:347` bounds the wait for a parser and not the parser: the
   "parser timeout" of `docs/architecture.md:152` leaves a thread of the shared executor
   at work for as long as the parser likes.

## 4. Proofs

`FetchLimitsProofs` proves for every number of tasks, hosts and limiters and every
setting, from the three assumptions of `FetchLimits` (settings at least as large as
their `Field` bounds, finite sets of tasks and hosts, enough semaphore objects that a
new one can always be made):

- `TypeCorrect`, `OutboundConservation`, `HostConservation`, `CacheCorrect`: the
  invariants of the runs;
- `NoCircle`: `NoCircularWait`, from conservation: a slot that is not free is somebody's,
  and nobody holds a host slot and waits;
- `HostBound` and `HostBoundWithin`: `HostConcurrencyBound` **if**
  `Cardinality(Hosts) <= CacheSize`, or if `GlobalLimit <= HostLimit`. The finding above
  has neither.

The inductive invariant `Inv` has the type invariant, the two conservation equations,
the agreement of cache and eviction order, and what ties a task to its limiter: a
task has looked one up exactly while it waits for it or holds it. Conservation is
inductive only with that last part, since a release must return to the object that
was acquired. For `HostBound` a further invariant says that nothing is ever evicted
and that a task's limiter is the cached one of its current host. Each proof has one
step per action; counting is done once, in lemmas about the cardinality of a set of
tasks when one task enters or leaves it.

`IngestionSystemProofs` proves, for any number of attempts, commands and URLs and any
pool, from the assumptions of `Store` and `PersistentIngestion` (finite disjoint sets
of attempts and commands, a mark for "no row" that is no row), every safety property
the runs check: `TypeCorrect`, `DocumentsCorrect`, `ReferentialIntegrityKept`,
`OneSourceKept`, `NoCircle`, `PurgeCountsKept`, `RepliesAreTruthful`, and that the
system implements the audit log (`AuditLogImplemented`). What an attempt alone does is
in `PersistentIngestionProofs`. The invariant, `SystemInv`, has three layers, each proved with the help of those before it:

1. *Phases* (`PhaseInv`): what the place of an attempt says of its own variables.
2. *Locks* (`LockInv`): an attempt past its upsert holds its URL's row and shares the
   tables it has written; a command about to commit holds what it deletes; a table
   held in `ACCESS EXCLUSIVE` mode is used by nobody else. `KeepsLocks` says that a
   step takes no lock from an actor that does not make it.
3. *Tables* (`RowsInv`, `LinksInv`): an attempt past its upsert has a source that is
   its own new row or the committed row of its URL (`OpenAttempt`), and a command
   about to delete a source has a row that is there, locked and without history
   (`OpenCommand`). Neither is stable without the locks of layer 2: the two hold the
   same row's lock, so they are never about the same source; a purge holds the table,
   so there is neither.

`ReferentialIntegrity` and `OneSourcePerUrl` alone are not inductive, since a commit
relies on what its upsert read earlier. The counts of a purge (`PurgeInv`) and the
answers (`ReplyInv`) are invariants on top.

`NoCircle` needs the converse of layer 2, `HoldersInv`: whoever holds a lock is past its
upsert, is about to commit a deletion, or is a purge past its first table. Who holds a
lock on the source table excludes a purge from the rest, so the only wait of a holder is
that of a purge for the deletion of a record, which takes no lock on that table. That a
purge begins with the table every ingestion begins with is all that this rests on; the
seeded fault `ChildrenFirst` breaks it. `WaitsAreGuards` shows that `BlockedBy` is empty
exactly where the lock guards of the actor's next action hold (`LocksGranted`).

The step simulation maps `Commit` to
`Log`, each answer to `Tell`, an administrator's deletions to `Erase` and everything
else, crashes included, to a stutter.

`BatchIngestionProofs` proves, from `BatchAssumption` and the assumptions of the
ingestion, for any number of batches, URLs and attempts and any limits,
`BatchTypeCorrect`, `BatchBoundKept` (`BatchConcurrencyBound`) and `BatchResultsTrue`
(`BatchResultsTruthful`). `BatchInv` ties an attempt to the table (`LogInv`: a record is
there once it is committed, with the operation it was begun with, and an answer 502 only
where no transaction was begun), to one batch at most (`MemberInv`) and to its task
(`TaskInv`: an attempt works only while its task runs, and a task that has returned has
an answer that is no 500). The limiter (`SlotInv`) counts tasks; that an attempt at work
has a running task turns it into the bound on attempts, after the batch was answered too.

`BatchesIngest` shows that batches refine `IngestionSystem` with every command still to
start: a step of a batch is a step of one attempt, a crash, or nothing the database sees.
What is proved of the system therefore holds of batches, however many: the tables'
invariants (`BatchesKeepTables`), no circle of waits and the audit log (`BatchesAudit`).
The module instantiates `IngestionSystemProofs` and cites its theorems; as both use the
same actions of `PersistentIngestion`, no run checks this refinement.

`FetchCallProofs` proves, from `FetchAssumption` (positive attempts, timeouts and byte
limits, a first backoff no longer than the longest, sets of URLs that are URLs):

- `TargetsChecked`: `RequestedTargetChecked`, which is inductive with the ranges;
- `BodyIsBeginning`: `BodyIsPrefix`. It needs that nothing is left of an earlier attempt
  until a response is read (`BodyInv`), so that a retry begins with an empty body;
- `TimeBounded`: `ElapsedBounded` for all settings. `TimeInv` says of attempt n that
  what was spent before its timer started is at most n - 1 attempts with their backoffs,
  and at most the retry budget and one backoff; what ends an attempt ends it in `Raise`
  or `Answer`, whose effect is shown once. The second half holds because a backoff only
  begins while the budget is not used up.

- `TypeCorrect`: `TypeOK`. `FieldInv` has where the call is, how long it may wait there
  and that a failure has a status and a code; that a sleep is within its bounds is shown
  of `Backoffs`, which cuts tenacity's power of two to a range, so that its value does
  not matter;
- `TextRefusal`: `TextRefusedOnlyWhenCut`. What was read is a prefix of what was sent
  (`BodyIsPrefix`), so if the whole begins like a text and the part is refused, the part
  ends inside a character.

`ParserPoolProofs` proves, from `PoolAssumption` (finite sets of calls and threads, a
mark for an idle thread that is no call), `TypeCorrect`, `JobsMatch` (`JobsMatchCalls`)
and `AnswersAreFinal` (`OutcomeIsFinal`). The invariant says where a call's job may be:
in the queue once, in one thread, or returned, never in two of these, and that only a
call that has ended has an answer. Lemmas say what an append, a tail and the removal of
a cancelled job do to a queue whose elements are distinct.

`ServerProofs` proves, from `RateAssumption` (positive limits, windows and costs) and
`DeploymentAssumption`:

- `TypeCorrect`: `TypeOK`, with the ranges of ages and waits;
- `WindowBoundKept`: `WindowBound`. Redis never has more units than the limit
  (`LimitInv`), but what is to be bounded is what was served, whose answer comes later.
  `ServedInv` says that what was served and is within the window is in Redis with the
  very age, which needs that an admitted request knows the age of its units from what is
  left of the window (`AdmittedInv`), and that a request that asks has none there yet
  (`UnchargedInv`), since a name is used again only when its units have left;
- `RetryAfterSuffices`: `RetryAfterEnough`. What is inductive is that a refused client
  has at least as long to wait as what blocked it has to stay (`WaitInv`); the rounding
  of `_get_retry_after_seconds`, its fallback and its minimum establish it in `Refuse`
  (lemma `LongEnough`), and a tick takes from both alike;
- `ReadyIsKept`: `ReadyMeansServed`. `PromiseInv` says that while a probe is past its
  check of the storage, a promise stands or one is relied upon, a Redis that must be
  there is there.

Every invariant and every action property that a passing run checks is thus a theorem.

Only model-checked: liveness (`EveryFetchEnds`, `EveryAttemptAnswered`,
`EveryCommandEnds`, `EveryBatchAnswered`, `SiblingsFinish`, `EveryCallEnds`,
`KeptOutOnlyByOthers`), which the prover does not handle under fairness. For the waits of
the first three `NoCircularWait` is the part that is proved.

## 5. Not modelled, and the plan

Next, in this order:

1. Lemmas for all inputs about the pure checks of `UrlSafety` and `ResponseAdmission`
   that the invariants of `FetchCall` do not already state.
2. `ParserPool`: that the queue is first in, first out, as an abstract specification the
   pool implements.

Left out:

- the commands of the CLI that list, show and count: they change nothing. `stats` counts
  three tables in three statements, which need not agree, and nothing says they do;
- the migrations' backfill: one transaction that locks the table by its first statement;
- content identity: `classify_content_identity` and the query for the latest digest are
  called by tests only;
- logging and its middleware, metrics other than the in-flight gauge, authentication (one
  constant-time comparison), argument parsing, output formatting, column checks and
  indexes, what parsers extract: no state that another step reads.
