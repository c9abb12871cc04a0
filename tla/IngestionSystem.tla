--------------------------- MODULE IngestionSystem ---------------------------
(***************************************************************************)
(* The server's persistent ingestion and the administrative commands over  *)
(* one database, and what callers may rely on (AuditLog).                  *)
(***************************************************************************)
EXTENDS PersistentIngestion, AdminOperations

VARIABLES removed  \* history: the attempts whose record an administrator deleted

vars == <<storeVars, ingestionVars, adminVars, removed>>

Init == StoreInit /\ IngestionInit /\ AdminInit /\ removed = {}

Ingestion == IngestionNext /\ UNCHANGED <<adminVars, removed>>

\* The records that disappear in an administrative step go to the history.
Administration ==
    /\ AdminNext
    /\ removed' = removed \cup (RecordIds \ RecordIds')
    /\ UNCHANGED ingestionVars

\* No attempt is under way or to come, and every command has ended.
Quiescent ==
    /\ \A a \in Attempts : pc[a] \in {"answered", "lost"}
    /\ \A d \in Admins : admin_pc[d] = "done"
    /\ UNCHANGED vars

Next == Ingestion \/ Administration \/ Quiescent

Spec == Init /\ [][Next]_vars

\* The event loop runs every ready task, the fetch and the parser have timeouts,
\* PostgreSQL grants a lock once nothing holds it back, and a command that was
\* started goes on.  Neither errors nor crashes are counted on.
Fairness ==
    /\ \A a \in Attempts :
          WF_vars(AttemptStep(a) /\ UNCHANGED <<adminVars, removed>>)
    /\ \A d \in Admins :
          WF_vars(/\ AdminStep(d)
                  /\ removed' = removed \cup (RecordIds \ RecordIds')
                  /\ UNCHANGED ingestionVars)

FairSpec == Spec /\ Fairness

-----------------------------------------------------------------------------
(* The abstract specification it implements.                                 *)

Outcome(op) == IF op \in SuccessOperations THEN "success" ELSE "failure"

AnswerMeans(r) ==
    CASE r = "success" -> "success"
      [] r = "original_error" -> "failure"
      [] r = "http_502" -> "disclaim"
      [] r \in {"http_503", "http_500"} -> "unavailable"
      [] r = "none" -> "none"

Audit == INSTANCE AuditLog WITH
    logged <- [a \in Attempts |->
                  IF a \in RecordIds \cup removed THEN Outcome(operation[a])
                                                 ELSE "none"],
    visible <- RecordIds,
    answer <- [a \in Attempts |-> AnswerMeans(reply[a])]

\* Persistent ingestion, beside administrators, failures and crashes, behaves as
\* an audit log that never claims what it did not commit.
ImplementsAuditLog == Audit!AuditSpec

-----------------------------------------------------------------------------
(* Waiting for locks.                                                        *)

\* The actors whose locks an attempt's next statement conflicts with.
AttemptBlockers(a) ==
    CASE pc[a] = "upsert" -> exclusive["source"] \cup {row_lock[url[a]]}
      [] pc[a] = "insert_record" -> exclusive["ingestion_record"]
      [] pc[a] = "insert_document" -> exclusive["parsed_document"]
      [] OTHER -> {}

\* Those whose locks a command's does.
CommandBlockers(d) ==
    CASE admin_pc[d] = "delete_source" ->
            exclusive["source"] \cup exclusive["ingestion_record"]
                \cup {row_lock[k] : k \in IF target[d] \in source
                                         THEN {source_url[target[d]]} \cup HistoryOf(target[d])
                                         ELSE {}}
      [] admin_pc[d] = "delete_ingestion" ->
            exclusive["ingestion_record"] \cup exclusive["parsed_document"]
                \cup {row_lock[target[d]]}
      [] admin_pc[d] \in DOMAIN LockOrder ->
            exclusive[LockOrder[admin_pc[d]]] \cup shared[LockOrder[admin_pc[d]]]
      [] OTHER -> {}

\* Whom an actor waits for.
BlockedBy(x) ==
    (IF x \in Attempts THEN AttemptBlockers(x) ELSE CommandBlockers(x)) \ {x, Nobody}

-----------------------------------------------------------------------------
(* Properties.                                                               *)

TypeOK ==
    /\ StoreTypeOK /\ IngestionTypeOK /\ AdminTypeOK
    /\ removed \subseteq Attempts

\* An answer that names a record names one that was committed with that outcome,
\* with the source the answer names and, for parsed content, its document, unless
\* an administrator has removed it since; an answer 502 leaves no record at all.
RepliesTruthful ==
    \A a \in Attempts :
        /\ reply[a] \in {"success", "original_error"} =>
              \/ a \in removed
              \/ /\ a \in RecordIds
                 /\ ingestion_record[a].source_id = tx_source[a]
                 /\ tx_source[a] \in source
                 /\ reply[a] = "success"
                       <=> ingestion_record[a].operation \in SuccessOperations
                 /\ reply[a] = "success" /\ a \in ParsedAttempts
                       <=> a \in parsed_document
        /\ reply[a] = "http_502" => a \notin RecordIds \cup removed

\* Transactions never wait for each other in a circle: whoever is waited for waits for
\* nobody, or is a purge with some of its tables, and then for such as wait for nobody.
\* None of them is an attempt that still waits for a connection of the pool.
NoCircularWait ==
    \A x \in Actors : \A y \in BlockedBy(x) :
        /\ y \in Attempts => y \in Connected
        /\ \A z \in BlockedBy(y) : z \in Admins /\ BlockedBy(z) = {}

\* Every attempt received is answered unless the process dies: no attempt waits for
\* ever on the pool, on another's row or on a purge's table locks.
EveryAttemptAnswered ==
    \A a \in Attempts : (pc[a] = "fetching") ~> (pc[a] \in {"answered", "lost"})

\* Every command that started ends: in particular the purge's table locks and the
\* ingestion transactions never wait for each other in a circle.
EveryCommandEnds ==
    \A d \in Admins : (admin_pc[d] # "ready") ~> (admin_pc[d] = "done")

=============================================================================
