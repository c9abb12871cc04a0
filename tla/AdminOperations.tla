--------------------------- MODULE AdminOperations ---------------------------
(***************************************************************************)
(* The destructive administrative commands of services/admin.py, run from  *)
(* another process (admin_cli.py) beside the server, over the statements   *)
(* of persistence/admin_repository.py.                                     *)
(*                                                                         *)
(* Each element of Admins is one run of one command.                       *)
(***************************************************************************)
EXTENDS Store

VARIABLES
    admin_pc,      \* where each command is
    target,        \* the id it was given
    purge_counts,  \* the counts a purge took before deleting
    result         \* what it reports

adminVars == <<admin_pc, target, purge_counts, result>>

AdminStates == {"ready", "delete_source", "commit_source", "delete_ingestion",
                "commit_ingestion", "lock_source", "lock_ingestion_record",
                "lock_parsed_document", "count", "commit_purge", "done"}

Results == {"refused", "not_found", "restricted", "deleted", "purged", "failed"}

Counts == [sources : Nat, ingestion_records : Nat, parsed_documents : Nat]

NoCounts == [sources |-> 0, ingestion_records |-> 0, parsed_documents |-> 0]

AdminInit ==
    /\ admin_pc = [d \in Admins |-> "ready"]
    /\ target = [d \in Admins |-> NoRow]
    /\ purge_counts = [d \in Admins |-> NoCounts]
    /\ result = [d \in Admins |-> "none"]

AdminGoto(d, state) == admin_pc' = [admin_pc EXCEPT ![d] = state]

\* The command ends: its session commits or rolls back, its engine is disposed, and
\* only what it reports is left of it.
Report(d, r) ==
    /\ AdminGoto(d, "done")
    /\ result' = [result EXCEPT ![d] = r]
    /\ target' = [target EXCEPT ![d] = NoRow]
    /\ purge_counts' = [purge_counts EXCEPT ![d] = NoCounts]
    /\ ReleaseLocks(d)

\* Persistence disabled, an id that is no UUID, or no --confirm: the command ends
\* before it opens a session.
Refuse(d) ==
    /\ admin_pc[d] = "ready"
    /\ Report(d, "refused")
    /\ UNCHANGED tableVars

\* A command is given an id, of a row that exists or not, or asked to purge.
Start(d) ==
    /\ admin_pc[d] = "ready"
    /\ \/ \E i \in Attempts, state \in {"delete_source", "delete_ingestion"} :
            target' = [target EXCEPT ![d] = i] /\ AdminGoto(d, state)
       \/ AdminGoto(d, "lock_source") /\ UNCHANGED target
    /\ UNCHANGED <<purge_counts, result, storeVars>>

-----------------------------------------------------------------------------
(* delete_source.                                                            *)

\* The restrictive foreign key of ingestion_record.source_id.
SourceRestricted(s) == HistoryOf(s) # {}

\* A slip that deletes a row an open transaction is about to refer to.
DeleteNoWait(d, s) == TRUE

\* The row of source s, and of each record that refers to it, can be locked.
SourceRowsFree(d, s) ==
    RowFree(d, source_url[s]) /\ \A r \in HistoryOf(s) : RowFree(d, r)

\* DELETE FROM source ... RETURNING waits for the row's holder, and its foreign-key
\* check for a record of the source that is being deleted.  No row is
\* SourceNotFoundError, a record SourceDeletionRestrictedError; both roll back.
DeleteSource(d) ==
    LET s == target[d]
    IN  /\ admin_pc[d] = "delete_source"
        /\ CanShare(d, "source") /\ CanShare(d, "ingestion_record")
        /\ s \in source => SourceRowsFree(d, s)
        /\ \/ s \notin source /\ Report(d, "not_found")
           \/ s \in source /\ SourceRestricted(s) /\ Report(d, "restricted")
           \/ /\ s \in source /\ ~SourceRestricted(s)
              /\ Share(d, {"source", "ingestion_record"})
              /\ LockRow(d, source_url[s])
              /\ AdminGoto(d, "commit_source")
              /\ UNCHANGED <<exclusive, target, purge_counts, result>>
        /\ UNCHANGED tableVars

\* COMMIT takes effect; its acknowledgement may be lost.
CommitDeleteSource(d) ==
    /\ admin_pc[d] = "commit_source"
    /\ source' = source \ {target[d]}
    /\ Report(d, "deleted") \/ Report(d, "failed")
    /\ UNCHANGED <<source_url, last_seen_at, ingestion_record, parsed_document>>

-----------------------------------------------------------------------------
(* delete_ingestion.                                                         *)

\* DELETE FROM ingestion_record ... RETURNING; the cascade uses parsed_document.
DeleteIngestion(d) ==
    LET r == target[d]
    IN  /\ admin_pc[d] = "delete_ingestion"
        /\ CanShare(d, "ingestion_record") /\ CanShare(d, "parsed_document")
        /\ RowFree(d, r)
        /\ \/ r \notin RecordIds /\ Report(d, "not_found")
           \/ /\ r \in RecordIds
              /\ Share(d, {"ingestion_record", "parsed_document"})
              /\ LockRow(d, r)
              /\ AdminGoto(d, "commit_ingestion")
              /\ UNCHANGED <<exclusive, target, purge_counts, result>>
        /\ UNCHANGED tableVars

CommitDeleteIngestion(d) ==
    /\ admin_pc[d] = "commit_ingestion"
    /\ DeleteRecords({target[d]})
    /\ Report(d, "deleted") \/ Report(d, "failed")
    /\ UNCHANGED <<source, source_url, last_seen_at>>

-----------------------------------------------------------------------------
(* purge_database.                                                           *)

\* A slip that lists the tables in the other order.
ChildrenFirst ==
    [t \in {"lock_source", "lock_ingestion_record", "lock_parsed_document"} |->
        CASE t = "lock_source" -> "parsed_document"
          [] t = "lock_ingestion_record" -> "ingestion_record"
          [] t = "lock_parsed_document" -> "source"]

\* LOCK TABLE source, ingestion_record, parsed_document: one after the other.
LockOrder ==
    [t \in {"lock_source", "lock_ingestion_record", "lock_parsed_document"} |->
        CASE t = "lock_source" -> "source"
          [] t = "lock_ingestion_record" -> "ingestion_record"
          [] t = "lock_parsed_document" -> "parsed_document"]

\* A slip that locks with a mode writers do not conflict with.
NoConflict(d, t) == TRUE

LockGranted(d, t) == CanExclude(d, t)

LockNextTable(d) ==
    /\ admin_pc[d] \in DOMAIN LockOrder
    /\ LockGranted(d, LockOrder[admin_pc[d]])
    /\ exclusive' = [exclusive EXCEPT ![LockOrder[admin_pc[d]]] = @ \cup {d}]
    /\ AdminGoto(d, CASE admin_pc[d] = "lock_source" -> "lock_ingestion_record"
                      [] admin_pc[d] = "lock_ingestion_record" -> "lock_parsed_document"
                      [] admin_pc[d] = "lock_parsed_document" -> "count")
    /\ UNCHANGED <<target, purge_counts, result, tableVars, shared, row_lock>>

\* get_database_stats, under the table locks.
CountRows(d) ==
    /\ admin_pc[d] = "count"
    /\ purge_counts' = [purge_counts EXCEPT ![d] =
                           [sources |-> Cardinality(source),
                            ingestion_records |-> Cardinality(RecordIds),
                            parsed_documents |-> Cardinality(parsed_document)]]
    /\ AdminGoto(d, "commit_purge")
    /\ UNCHANGED <<target, result, storeVars>>

\* DELETE FROM ingestion_record, DELETE FROM source and COMMIT.
CommitPurge(d) ==
    /\ admin_pc[d] = "commit_purge"
    /\ DeleteRecords(RecordIds)
    /\ source' = {}
    /\ Report(d, "purged") \/ Report(d, "failed")
    /\ UNCHANGED <<source_url, last_seen_at>>

\* A statement or COMMIT fails, or the process is stopped: rolled back.
AdminFails(d) ==
    /\ admin_pc[d] \notin {"ready", "done"}
    /\ Report(d, "failed")
    /\ UNCHANGED tableVars

AdminStep(d) ==
    \/ DeleteSource(d) \/ CommitDeleteSource(d)
    \/ DeleteIngestion(d) \/ CommitDeleteIngestion(d)
    \/ LockNextTable(d) \/ CountRows(d) \/ CommitPurge(d)

AdminNext == \E d \in Admins : Refuse(d) \/ Start(d) \/ AdminStep(d) \/ AdminFails(d)

-----------------------------------------------------------------------------
(* Properties.                                                               *)

AdminTypeOK ==
    /\ admin_pc \in [Admins -> AdminStates]
    /\ target \in [Admins -> Attempts \cup {NoRow}]
    /\ purge_counts \in [Admins -> Counts]
    /\ result \in [Admins -> Results \cup {"none"}]

\* "PostgreSQL table locks prevent concurrent persistence writes from changing the
\* dataset between the pre-delete counts and the deletes" (admin_repository.py
\* purge_database): the counts a purge reports are those of the rows it deleted.
PurgeCountsExact ==
    [][\A d \in Admins :
          result[d] # "purged" /\ result'[d] = "purged" =>
              purge_counts[d] = [sources |-> Cardinality(source),
                                 ingestion_records |-> Cardinality(RecordIds),
                                 parsed_documents |-> Cardinality(parsed_document)]
      ]_result

=============================================================================
