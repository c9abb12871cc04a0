-------------------------------- MODULE Server --------------------------------
(***************************************************************************)
(* One application process that starts, serves rate-limited requests and   *)
(* readiness probes, stops or dies, and starts again, beside a Redis that  *)
(* comes and goes.                                                         *)
(***************************************************************************)
EXTENDS RateLimit, Readiness

VARIABLES
    steady,   \* Redis has not failed since the current probe began (history)
    vouched,  \* nor since the last one, which answered 200 (history)
    promised  \* the requests that have arrived under that and are not over (history)

promiseVars == <<steady, vouched, promised>>
vars == <<resourceVars, rateVars, probe, promiseVars>>

Init ==
    /\ ResourceInit /\ RateInit /\ ReadinessInit
    /\ steady = FALSE /\ vouched = FALSE /\ promised = {}

\* What a probe has found is not to be relied upon any longer.
Forget == steady' = FALSE /\ vouched' = FALSE /\ promised' = {}

Lifespan ==
    \/ /\ StartUp
       /\ UNCHANGED <<rateVars, probe, promiseVars>>
    \/ /\ Release
       /\ Lose /\ probe' = "idle" /\ Forget

Storage ==
    \/ /\ RedisFails
       /\ Forget /\ UNCHANGED <<rateVars, probe>>
    \/ /\ RedisRecovers
       /\ UNCHANGED <<rateVars, probe, promiseVars>>

Request(r) ==
    /\ UNCHANGED <<resourceVars, probe, steady, vouched>>
    /\ RequestStep(r)
    /\ promised' = IF phase'[r] \in Gone THEN promised \ {r}
                   ELSE IF phase[r] \in Gone /\ vouched THEN promised \cup {r}
                   ELSE promised

Probing ==
    /\ \E a \in Answers :
        /\ ProbeStep(a)
        /\ vouched' = IF a = "pending" THEN vouched ELSE a = "ready" /\ steady
        /\ steady' = (a = "pending" /\ (probe = "idle" \/ steady))
    /\ UNCHANGED <<resourceVars, rateVars, promised>>

Time == UNCHANGED <<resourceVars, probe, promiseVars>> /\ Tick

Next ==
    \/ Lifespan \/ Storage \/ Probing \/ Time
    \/ \E r \in Requests : Request(r)

Spec == Init /\ [][Next]_vars

\* Time passes, the application goes on with what it has begun, and a refused client asks
\* again.  Nothing makes a request come, Redis recover or the process live.
Fairness ==
    /\ WF_vars(Time)
    /\ \A r \in Requests : WF_vars(phase[r] \notin Gone /\ Request(r))

FairSpec == Spec /\ Fairness

-----------------------------------------------------------------------------
(* Properties.                                                               *)

TypeOK ==
    /\ settings \in Deployments /\ life \in Lives
    /\ http_client \in {"none", "open"}
    /\ {db_engine, rate_limiter, redis, steady, vouched} \subseteq BOOLEAN
    /\ RateTypeOK
    /\ probe \in Probes
    /\ promised \subseteq Requests

\* "Return whether required application resources can serve traffic" (health.py): after
\* a probe has answered 200, and for as long as a Redis that was up when it began does
\* not fail, no request is refused because the limiter has no storage.
ReadyMeansServed ==
    [][\A r \in promised : phase'[r] # "unavailable"]_phase

\* Retry-After tells when the oldest unit leaves, and a heavy request needs more than
\* that, so lighter ones may keep it out.  Nothing else does: unless others go on being
\* admitted under its policy, a request that the policy can admit at all is over in the
\* end, whatever was charged in vain and however often the application restarts.
KeptOutOnlyByOthers ==
    \A r \in Requests :
        []<>(\/ phase[r] \in Gone
             \/ Units(ask[r]) > Limit(ask[r].policy)
             \/ \E q \in Requests \ {r} :
                    phase[q] = "admitted" /\ ask[q].policy = ask[r].policy)

===============================================================================
