--------------------------- MODULE ServerResources ---------------------------
(***************************************************************************)
(* What the application owns while it runs (main.py's lifespan), and the   *)
(* Redis outside it that its rate limiter and its probes depend on.        *)
(***************************************************************************)
EXTENDS Naturals

CONSTANT Deployments  \* the settings it may be started with

VARIABLES
    settings,      \* the switches of core/config.py; they never change
    life,          \* where the lifespan is
    http_client,   \* app.state.http_client: "none" or "open"
    db_engine,     \* app.state.db_engine is set
    rate_limiter,  \* app.state.rate_limiter is set
    redis          \* Redis answers

appVars == <<life, http_client, db_engine, rate_limiter>>
resourceVars == <<settings, appVars, redis>>

Settings == [rate_limit_enabled : BOOLEAN, rate_limit_fail_open : BOOLEAN,
             database_enabled : BOOLEAN]

ASSUME DeploymentAssumption == Deployments \subseteq Settings

Lives == {"down", "serving"}

ResourceInit ==
    /\ settings \in Deployments
    /\ life = "down" /\ http_client = "none"
    /\ db_engine = FALSE /\ rate_limiter = FALSE
    /\ redis = TRUE

-----------------------------------------------------------------------------
(* The lifespan.                                                             *)

\* Nothing is awaited between opening the client and the yield, so a start is one step.
\* If the URL of the database or of Redis is refused instead, the finally block takes
\* everything back and nothing has been served.
StartUp ==
    /\ life = "down"
    /\ life' = "serving" /\ http_client' = "open"
    /\ db_engine' = settings.database_enabled
    /\ rate_limiter' = settings.rate_limit_enabled
    /\ UNCHANGED <<settings, redis>>

\* The finally block and the client's exit.  The server goes through them when the
\* requests it was serving have ended; a process that dies has nothing left either.
Release ==
    /\ life = "serving"
    /\ life' = "down" /\ http_client' = "none"
    /\ db_engine' = FALSE /\ rate_limiter' = FALSE
    /\ UNCHANGED <<settings, redis>>

RedisFails ==
    /\ redis /\ settings.rate_limit_enabled
    /\ redis' = FALSE
    /\ UNCHANGED <<settings, appVars>>

RedisRecovers ==
    /\ ~redis
    /\ redis' = TRUE
    /\ UNCHANGED <<settings, appVars>>

=============================================================================
