------------------------------ MODULE Readiness ------------------------------
(***************************************************************************)
(* GET /health/ready (api/routes/health.py): one probe at a time, each of  *)
(* its calls a step, so Redis may come and go between them.                *)
(***************************************************************************)
EXTENDS ServerResources

VARIABLE probe  \* where the probe is

Probes == {"idle", "storage", "database"}

\* 200, 503, what is raised and mapped by nobody, and no answer yet.
Answers == {"ready", "not_ready", "unmapped", "pending"}

ReadinessInit == probe = "idle"

-----------------------------------------------------------------------------
(* Each step gives the answer a, or goes on and leaves it pending.           *)

BeginProbe(a) ==
    /\ life = "serving" /\ probe = "idle"
    /\ IF http_client = "open"
       THEN a = "pending" /\ probe' = "storage"
       ELSE a = "not_ready" /\ UNCHANGED probe

\* A slip that takes the switch the other way round.
RequiredIfOpen == settings.rate_limit_enabled /\ settings.rate_limit_fail_open

\* is_rate_limit_storage_ready: Redis matters only when its failure refuses requests.
StorageRequired == settings.rate_limit_enabled /\ ~settings.rate_limit_fail_open

CheckStorage(a) ==
    /\ probe = "storage"
    /\ IF StorageRequired /\ ~redis
       THEN a = "not_ready" /\ probe' = "idle"
       ELSE IF settings.database_enabled
            THEN a = "pending" /\ probe' = "database"
            ELSE a = "ready" /\ probe' = "idle"

\* _check_database_readiness: SELECT 1 within a timeout.  TimeoutError and SQLAlchemyError
\* are mapped; what asyncpg raises when it cannot connect is not.  It says nothing of
\* Redis, but takes time.
CheckDatabase(a) ==
    /\ probe = "database"
    /\ a \in {"ready", "not_ready", "unmapped"}
    /\ a = "ready" => db_engine
    /\ probe' = "idle"

ProbeStep(a) == BeginProbe(a) \/ CheckStorage(a) \/ CheckDatabase(a)

=============================================================================
