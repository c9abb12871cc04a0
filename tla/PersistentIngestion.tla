------------------------- MODULE PersistentIngestion -------------------------
(***************************************************************************)
(* services/persistence.py: ingest_url and ingest_parsed_url, from the     *)
(* request to its answer, over the statements of                           *)
(* persistence/repositories.py.                                            *)
(*                                                                         *)
(* Each attempt is one call for one URL.  It fetches, parses if its mode   *)
(* is "parsed", and then runs one transaction, whose kind (`operation`)    *)
(* says what happened so far.  Fetching and parsing are abstracted to      *)
(* their three outcomes for this code: a result, an HTTPException          *)
(* (expected, audited) or any other exception (answered 502, not audited). *)
(***************************************************************************)
EXTENDS Store

CONSTANTS
    ParsedAttempts,  \* the attempts made through ingest_parsed_url
    PoolSize,        \* settings.database_pool_size; max_overflow is 0
    MaxClock         \* bound: the clock stops there (0: all times are equal)

ASSUME IngestionAssumption ==
    /\ ParsedAttempts \subseteq Attempts
    /\ PoolSize \in Nat \ {0}
    /\ MaxClock \in Nat

VARIABLES
    pc,          \* where each attempt is
    url,         \* the URL it was given
    operation,   \* the transaction it came to need
    tx_source,   \* the id its upsert returned
    started_at,  \* now() of its transaction: when it began
    clock,       \* the database's clock, ticking as transactions begin
    reply        \* what the caller was answered

ingestionVars == <<pc, url, operation, tx_source, started_at, clock, reply>>

AttemptStates == {"new", "fetching", "parsing", "connecting", "upsert",
                  "insert_record", "insert_document", "commit", "committed",
                  "answered", "lost"}

\* "success" and "original_error" (the fetch's or parser's own HTTPException)
\* claim a record; "http_502" and "http_503" are the service's own errors, and
\* "http_500" is what becomes of an exception nobody maps.
Replies == {"success", "original_error", "http_502", "http_503", "http_500"}

\* A slip that does not return the connection of a transaction that failed.
ConnectedForGood ==
    {a \in Attempts : pc[a] \in {"upsert", "insert_record", "insert_document", "commit",
                                "committed"}}
        \cup {a \in Attempts : reply[a] = "http_503"}

\* The attempts that have a connection of the pool checked out.
Connected == {a \in Attempts : pc[a] \in {"upsert", "insert_record",
                                          "insert_document", "commit", "committed"}}

IngestionInit ==
    /\ pc = [a \in Attempts |-> "new"]
    /\ url = [a \in Attempts |-> NoRow]
    /\ operation = [a \in Attempts |-> "none"]
    /\ tx_source = [a \in Attempts |-> NoRow]
    /\ started_at = [a \in Attempts |-> 0]
    /\ clock = 0
    /\ reply = [a \in Attempts |-> "none"]

Goto(a, state) == pc' = [pc EXCEPT ![a] = state]

Answer(a, r) ==
    /\ Goto(a, "answered")
    /\ reply' = [reply EXCEPT ![a] = r]

-----------------------------------------------------------------------------
(* Before the transaction.                                                   *)

Receive(a) ==
    /\ pc[a] = "new"
    /\ \E u \in Urls : url' = [url EXCEPT ![a] = u]
    /\ Goto(a, "fetching")
    /\ UNCHANGED <<operation, tx_source, started_at, clock, reply, storeVars>>

\* The attempt goes on to a transaction of kind op, whose first statement checks a
\* connection out.
Persist(a, op) ==
    /\ operation' = [operation EXCEPT ![a] = op]
    /\ Goto(a, "connecting")
    /\ UNCHANGED <<url, tx_source, started_at, clock, reply, storeVars>>

\* fetch_url returns a response.
FetchSucceeds(a) ==
    /\ pc[a] = "fetching"
    /\ \/ a \notin ParsedAttempts /\ Persist(a, "raw_ingestion")
       \/ /\ a \in ParsedAttempts
          /\ Goto(a, "parsing")
          /\ UNCHANGED <<url, operation, tx_source, started_at, clock, reply, storeVars>>

\* fetch_url raises an HTTPException: the failed attempt is to be recorded.
FetchFails(a) ==
    /\ pc[a] = "fetching"
    /\ Persist(a, "fetch_failure_audit")

\* parse_document returns, and the text is hashed.
ParseSucceeds(a) ==
    /\ pc[a] = "parsing"
    /\ Persist(a, "parsed_ingestion")

\* parse_document raises an HTTPException, with the parser's provenance if known.
ParseFails(a) ==
    /\ pc[a] = "parsing"
    /\ Persist(a, "parse_failure_audit")

\* Any other exception of fetch_url or parse_document is answered 502 and nothing
\* is recorded; one of calculate_content_sha256 (text that UTF-8 cannot encode) is
\* outside every try.
RaiseUnexpectedly(a) ==
    /\ \/ pc[a] \in {"fetching", "parsing"} /\ Answer(a, "http_502")
       \/ pc[a] = "parsing" /\ Answer(a, "http_500")
    /\ UNCHANGED <<url, operation, tx_source, started_at, clock, storeVars>>

-----------------------------------------------------------------------------
(* The transaction.                                                          *)

\* A connection is checked out and BEGIN is sent; now() is fixed from here on.
Begin(a) ==
    /\ pc[a] = "connecting"
    /\ Cardinality(Connected) < PoolSize
    /\ clock' = IF clock < MaxClock THEN clock + 1 ELSE clock
    /\ started_at' = [started_at EXCEPT ![a] = clock']
    /\ Goto(a, "upsert")
    /\ UNCHANGED <<url, operation, tx_source, reply, storeVars>>

\* A slip that reads, then inserts, without waiting for the row's holder.
UpsertNoWait(a) == TRUE

\* INSERT ... ON CONFLICT waits for a transaction that has written or deleted the
\* URL's row.
UpsertMayRun(a) == RowFree(a, url[a])

\* The committed rows of the attempt's URL.
Existing(a) == {s \in source : source_url[s] = url[a]}

\* A slip: ON CONFLICT DO NOTHING returns no id for a row that is there.
ResolvedDoNothing(a) == IF Existing(a) = {} THEN {a} ELSE {NoRow}

\* What ON CONFLICT DO UPDATE ... RETURNING id may return.
Resolved(a) == IF Existing(a) = {} THEN {a} ELSE Existing(a)

\* get_or_create_source: the row of the URL is locked, and inserted if there is none.
Upsert(a) ==
    /\ pc[a] = "upsert"
    /\ CanShare(a, "source")
    /\ UpsertMayRun(a)
    /\ \E s \in Resolved(a) : tx_source' = [tx_source EXCEPT ![a] = s]
    /\ Share(a, {"source"})
    /\ LockRow(a, url[a])
    /\ Goto(a, "insert_record")
    /\ UNCHANGED <<url, operation, started_at, clock, reply, tableVars, exclusive>>

\* create_ingestion_record, flushed.
InsertRecord(a) ==
    /\ pc[a] = "insert_record"
    /\ CanShare(a, "ingestion_record")
    /\ Share(a, {"ingestion_record"})
    /\ Goto(a, IF operation[a] = "parsed_ingestion" THEN "insert_document"
                                                   ELSE "commit")
    /\ UNCHANGED <<url, operation, tx_source, started_at, clock, reply, tableVars,
                   exclusive, row_lock>>

\* create_parsed_document, flushed.
InsertDocument(a) ==
    /\ pc[a] = "insert_document"
    /\ CanShare(a, "parsed_document")
    /\ Share(a, {"parsed_document"})
    /\ Goto(a, "commit")
    /\ UNCHANGED <<url, operation, tx_source, started_at, clock, reply, tableVars,
                   exclusive, row_lock>>

\* The documents once attempt a has committed.
DocumentsWith(a) ==
    IF operation[a] = "parsed_ingestion" THEN parsed_document \cup {a}
                                         ELSE parsed_document

\* COMMIT takes effect in the database: an inserted source appears, one that was
\* there is updated.
Commit(a) ==
    /\ pc[a] = "commit"
    /\ source' = IF tx_source[a] = a THEN source \cup {a} ELSE source
    /\ source_url' = [source_url EXCEPT ![tx_source[a]] = url[a]]
    /\ last_seen_at' = [last_seen_at EXCEPT ![tx_source[a]] = started_at[a]]
    /\ ingestion_record' = [ingestion_record EXCEPT ![a] =
                               [source_id |-> tx_source[a],
                                operation |-> operation[a]]]
    /\ parsed_document' = DocumentsWith(a)
    /\ ReleaseLocks(a)
    /\ Goto(a, "committed")
    /\ UNCHANGED <<url, operation, tx_source, started_at, clock, reply>>

\* A slip that answers an audited failure as if the ingestion had gone well.
SuccessAlways(a) == "success"

\* The answer the service gives after its transaction: the previews' data, or the
\* HTTPException that was audited, raised again.
CommittedReply(a) ==
    IF operation[a] \in SuccessOperations THEN "success" ELSE "original_error"

\* COMMIT's acknowledgement arrives; the connection goes back to the pool.
Acknowledge(a) ==
    /\ pc[a] = "committed"
    /\ Answer(a, CommittedReply(a))
    /\ UNCHANGED <<url, operation, tx_source, started_at, clock, storeVars>>

\* Checking a connection out, a statement or COMMIT raises: session.begin() rolls
\* back, and a SQLAlchemyError becomes 503; any other exception is passed on.  The
\* error may also come after COMMIT took effect, its acknowledgement lost.
DatabaseFails(a) ==
    /\ pc[a] = "connecting" \/ a \in Connected
    /\ \E r \in {"http_503", "http_500"} : Answer(a, r)
    /\ ReleaseLocks(a)
    /\ UNCHANGED <<url, operation, tx_source, started_at, clock, tableVars>>

\* The server process dies: PostgreSQL rolls back what its connections had not
\* committed, and nobody is answered.
Crash ==
    LET alive == {a \in Attempts : pc[a] \notin {"new", "answered", "lost"}}
    IN  /\ alive # {}
        /\ pc' = [a \in Attempts |-> IF a \in alive THEN "lost" ELSE pc[a]]
        /\ shared' = [t \in Tables |-> shared[t] \ alive]
        /\ exclusive' = [t \in Tables |-> exclusive[t] \ alive]
        /\ row_lock' = [k \in DOMAIN row_lock |->
                            IF row_lock[k] \in alive THEN Nobody ELSE row_lock[k]]
        /\ UNCHANGED <<url, operation, tx_source, started_at, clock, reply, tableVars>>

\* What an attempt does once received when nothing crashes and no database error
\* cuts it short.
AttemptStep(a) ==
    \/ FetchSucceeds(a) \/ FetchFails(a) \/ ParseSucceeds(a) \/ ParseFails(a)
    \/ RaiseUnexpectedly(a) \/ Begin(a) \/ Upsert(a) \/ InsertRecord(a)
    \/ InsertDocument(a) \/ Commit(a) \/ Acknowledge(a)

IngestionNext ==
    \/ \E a \in Attempts : Receive(a) \/ AttemptStep(a) \/ DatabaseFails(a)
    \/ Crash

-----------------------------------------------------------------------------
(* Properties.                                                               *)

IngestionTypeOK ==
    /\ pc \in [Attempts -> AttemptStates]
    /\ url \in [Attempts -> Urls \cup {NoRow}]
    /\ operation \in [Attempts -> Operations \cup {"none"}]
    /\ tx_source \in [Attempts -> Attempts \cup {NoRow}]
    /\ started_at \in [Attempts -> Nat]
    /\ clock \in Nat
    /\ reply \in [Attempts -> Replies \cup {"none"}]

\* "database failure while persistence is required -> HTTP 503" (the failure
\* semantics of docs/architecture.md): no attempt that reached its transaction is
\* answered with an unmapped error.
DatabaseFailureIs503 ==
    \A a \in Attempts : operation[a] # "none" => reply[a] # "http_500"

\* "Existing sources have last_seen_at refreshed" (repositories.py
\* get_or_create_source): a later commit never moves last_seen_at of a source back.
LastSeenNeverGoesBack ==
    [][\A s \in source \cap source' : last_seen_at'[s] >= last_seen_at[s]]_last_seen_at

=============================================================================
