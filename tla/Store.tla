-------------------------------- MODULE Store --------------------------------
(***************************************************************************)
(* The PostgreSQL tables of persistence/models.py and the locks its        *)
(* transactions take.                                                      *)
(*                                                                         *)
(* Only committed rows are in the three tables: what a transaction has     *)
(* written and not committed is known to it alone.  At READ COMMITTED      *)
(* (the engine sets no other level) a statement reads the rows committed   *)
(* when it runs, so each statement is one action.                          *)
(*                                                                         *)
(* Generated UUIDs are abstracted to who caused them: the source row, the  *)
(* ingestion record and the document an attempt inserts all have the       *)
(* attempt itself as their id.                                             *)
(***************************************************************************)
EXTENDS Naturals, FiniteSets

CONSTANTS
    Attempts,  \* persisted ingestion attempts, each for one URL
    Admins,    \* runs of the administrative commands
    Urls,      \* canonical URLs
    NoRow,     \* no row, or no id
    Nobody     \* no holder of a lock

Actors == Attempts \cup Admins

ASSUME StoreAssumption ==
    /\ IsFiniteSet(Attempts) /\ IsFiniteSet(Admins)
    /\ Attempts \cap Admins = {}
    /\ NoRow \notin Attempts
    /\ Nobody \notin Actors

Tables == {"source", "ingestion_record", "parsed_document"}

\* The transactions of services/persistence.py, by what they record.
SuccessOperations == {"raw_ingestion", "parsed_ingestion"}
AuditOperations == {"fetch_failure_audit", "parse_failure_audit"}
Operations == SuccessOperations \cup AuditOperations

\* The columns of a record that tell outcomes apart: its source, and which
\* transaction wrote it (fetch_error_code, parse_error_code and ingestion_mode
\* are a function of that).
Records == [source_id : Attempts, operation : Operations]

ASSUME RecordsAssumption == NoRow \notin Records

VARIABLES
    source,            \* ids of the rows of table source
    source_url,        \* the url column, by id
    last_seen_at,      \* the last_seen_at column, by id
    ingestion_record,  \* table ingestion_record, by id
    parsed_document,   \* ids of the records that have a row in parsed_document
    shared,            \* actors whose transaction uses each table
    exclusive,         \* actors that hold each table in ACCESS EXCLUSIVE mode
    row_lock           \* holder of each row: a source by its url, a record by id

tableVars == <<source, source_url, last_seen_at, ingestion_record, parsed_document>>
lockVars == <<shared, exclusive, row_lock>>
storeVars == <<tableVars, lockVars>>

StoreInit ==
    /\ source = {}
    /\ source_url = [s \in Attempts |-> NoRow]
    /\ last_seen_at = [s \in Attempts |-> 0]
    /\ ingestion_record = [r \in Attempts |-> NoRow]
    /\ parsed_document = {}
    /\ shared = [t \in Tables |-> {}]
    /\ exclusive = [t \in Tables |-> {}]
    /\ row_lock = [k \in Urls \cup Attempts |-> Nobody]

-----------------------------------------------------------------------------
(* Locks.  Statements take ROW EXCLUSIVE, ROW SHARE or ACCESS SHARE on the   *)
(* tables they use, which conflict only with LOCK TABLE's ACCESS EXCLUSIVE.  *)

CanShare(x, t) == exclusive[t] \subseteq {x}

CanExclude(x, t) == exclusive[t] \subseteq {x} /\ shared[t] \subseteq {x}

RowFree(x, k) == row_lock[k] \in {x, Nobody}

Share(x, ts) ==
    shared' = [t \in Tables |-> IF t \in ts THEN shared[t] \cup {x} ELSE shared[t]]

LockRow(x, k) == row_lock' = [row_lock EXCEPT ![k] = x]

\* COMMIT and ROLLBACK end with every lock of the transaction released.
ReleaseLocks(x) ==
    /\ shared' = [t \in Tables |-> shared[t] \ {x}]
    /\ exclusive' = [t \in Tables |-> exclusive[t] \ {x}]
    /\ row_lock' = [k \in DOMAIN row_lock |->
                        IF row_lock[k] = x THEN Nobody ELSE row_lock[k]]

-----------------------------------------------------------------------------
(* Rows.                                                                     *)

\* The ids of the committed records.
RecordIds == {r \in Attempts : ingestion_record[r] # NoRow}

\* The records that keep source row s from being deleted (ON DELETE RESTRICT).
HistoryOf(s) == {r \in RecordIds : ingestion_record[r].source_id = s}

\* A slip that deletes records and leaves their documents to nobody.
DeleteRecordsOnly(rs) ==
    /\ ingestion_record' =
          [r \in Attempts |-> IF r \in rs THEN NoRow ELSE ingestion_record[r]]
    /\ UNCHANGED parsed_document

\* Deleting records deletes their documents (ON DELETE CASCADE).
DeleteRecords(rs) ==
    /\ ingestion_record' =
          [r \in Attempts |-> IF r \in rs THEN NoRow ELSE ingestion_record[r]]
    /\ parsed_document' = parsed_document \ rs

-----------------------------------------------------------------------------
(* Properties of the tables.                                                 *)

StoreTypeOK ==
    /\ source \subseteq Attempts
    /\ source_url \in [Attempts -> Urls \cup {NoRow}]
    /\ last_seen_at \in [Attempts -> Nat]
    /\ ingestion_record \in [Attempts -> Records \cup {NoRow}]
    /\ parsed_document \subseteq Attempts
    /\ shared \in [Tables -> SUBSET Actors]
    /\ exclusive \in [Tables -> SUBSET Actors]
    /\ row_lock \in [Urls \cup Attempts -> Actors \cup {Nobody}]

\* No committed record refers to a source that is not there, whatever deletions
\* ran beside the ingestion that wrote it (the restrictive foreign key, and the
\* order in which the transactions lock).
ReferentialIntegrity ==
    \A r \in RecordIds : ingestion_record[r].source_id \in source

\* "Resolve the stable Source row for a URL": attempts on one URL that run side by
\* side, and deletions between them, never leave two rows for it
\* (repositories.py get_or_create_source).
OneSourcePerUrl ==
    \A s, t \in source : source_url[s] = source_url[t] => s = t

\* "Successful parsing creates the IngestionRecord and ParsedDocument in one atomic
\* transaction", failures and raw ingestion create no document, and no document
\* outlives its record (services/persistence.py ingest_parsed_url).
DocumentsMatchRecords ==
    parsed_document =
        {r \in RecordIds : ingestion_record[r].operation = "parsed_ingestion"}

=============================================================================
