------------------------ MODULE IngestionSystemProofs ------------------------
(***************************************************************************)
(* Proofs about IngestionSystem, for any number of attempts, commands and  *)
(* URLs and any pool.                                                      *)
(*                                                                         *)
(* The invariants are proved in layers, each with the help of those before *)
(* it: what the places of an attempt say of its own variables (PhaseInv),  *)
(* which locks each place holds (LockInv), what the locks keep true of the *)
(* tables (RowsInv, LinksInv), and who may wait for whom (HoldersInv).     *)
(***************************************************************************)
EXTENDS IngestionSystem, PersistentIngestionProofs, FiniteSetTheorems

-----------------------------------------------------------------------------
(* Layer 1: types and phases.                                                *)

LEMMA FiniteTables ==
    /\ source \subseteq Attempts => Cardinality(source) \in Nat
    /\ parsed_document \subseteq Attempts => Cardinality(parsed_document) \in Nat
    /\ Cardinality(RecordIds) \in Nat
<1>1. RecordIds \subseteq Attempts
  BY DEF RecordIds
<1> QED
  BY <1>1, FS_Subset, FS_CardinalityType, StoreAssumption

LEMMA InitTypes == Init => TypeOK /\ PhaseInv
  BY IngestionInitTypes DEF Init, AdminInit, TypeOK, AdminTypeOK, AdminStates, Results, Counts, NoCounts

\* What a command's step keeps.
CommandTypes == AdminTypeOK /\ TableTypes /\ LockTypes /\ removed \subseteq Attempts

LEMMA CommandStepTypes ==
    ASSUME CommandTypes, AdminNext
    PROVE  AdminTypeOK' /\ TableTypes' /\ LockTypes'
<1> USE DEF CommandTypes
<1>1. PICK d \in Admins : Refuse(d) \/ Start(d) \/ AdminStep(d) \/ AdminFails(d)
  BY DEF AdminNext
<1>0. d \in Actors
  BY <1>1 DEF Actors
<1>a. ASSUME NEW r \in Results, Report(d, r)
      PROVE  AdminTypeOK' /\ LockTypes'
  BY <1>1, <1>a, ReleaseTypes DEF Report, AdminTypeOK, AdminGoto, AdminStates, Counts, NoCounts
<1>b. UNCHANGED tableVars => TableTypes'
  BY DEF TableTypes, tableVars
<1>c. UNCHANGED storeVars => TableTypes' /\ LockTypes'
  BY <1>b DEF storeVars, lockVars, LockTypes
<1>d. {"refused", "not_found", "restricted", "deleted", "purged", "failed"} = Results
  BY DEF Results
<1>2. CASE Refuse(d)
  BY <1>2, <1>a, <1>b, <1>d DEF Refuse
<1>3. CASE Start(d)
  BY <1>1, <1>3, <1>c DEF Start, AdminTypeOK, AdminGoto, AdminStates
<1>4. CASE DeleteSource(d)
  <2>1. TableTypes'
    BY <1>4, <1>b DEF DeleteSource
  <2>2. CASE Report(d, "not_found") \/ Report(d, "restricted")
    BY <2>1, <2>2, <1>a, <1>d
  <2>3. CASE /\ target[d] \in source
             /\ Share(d, {"source", "ingestion_record"})
             /\ LockRow(d, source_url[target[d]])
             /\ AdminGoto(d, "commit_source")
             /\ UNCHANGED <<exclusive, target, purge_counts, result>>
             /\ RowFree(d, source_url[target[d]])
    <3>1. source_url[target[d]] \in Urls \cup {NoRow}
      BY <2>3 DEF TableTypes
    <3>2. LockTypes'
      BY <1>0, <2>3, <3>1, ShareTypes, RowTypes DEF LockTypes, LockRow
    <3>3. AdminTypeOK'
      BY <2>3 DEF AdminTypeOK, AdminGoto, AdminStates
    <3> QED
      BY <2>1, <3>2, <3>3
  <2> QED
    BY <1>4, <2>2, <2>3 DEF DeleteSource, SourceRowsFree
<1>5. CASE CommitDeleteSource(d)
  <2>1. TableTypes'
    BY <1>5 DEF CommitDeleteSource, TableTypes
  <2> QED
    BY <1>5, <1>a, <1>d, <2>1 DEF CommitDeleteSource
<1>6. CASE DeleteIngestion(d)
  <2>1. TableTypes'
    BY <1>6, <1>b DEF DeleteIngestion
  <2>2. CASE Report(d, "not_found")
    BY <2>1, <2>2, <1>a, <1>d
  <2>3. CASE /\ target[d] \in RecordIds
             /\ Share(d, {"ingestion_record", "parsed_document"})
             /\ LockRow(d, target[d])
             /\ AdminGoto(d, "commit_ingestion")
             /\ UNCHANGED <<exclusive, target, purge_counts, result>>
    <3>1. LockTypes'
      BY <1>0, <2>3, ShareTypes, RowTypes DEF LockTypes, RecordIds
    <3>2. AdminTypeOK'
      BY <2>3 DEF AdminTypeOK, AdminGoto, AdminStates
    <3> QED
      BY <2>1, <3>1, <3>2
  <2> QED
    BY <1>6, <2>2, <2>3 DEF DeleteIngestion
<1>7. CASE CommitDeleteIngestion(d)
  <2>1. TableTypes'
    BY <1>7, DeleteTypes DEF CommitDeleteIngestion, TableTypes
  <2> QED
    BY <1>7, <1>a, <1>d, <2>1 DEF CommitDeleteIngestion
<1>8. CASE LockNextTable(d)
  <2>1. TableTypes'
    BY <1>8, <1>b DEF LockNextTable
  <2>2. LockTypes'
    BY <1>0, <1>8 DEF LockNextTable, LockTypes
  <2>3. AdminTypeOK'
    BY <1>8 DEF LockNextTable, LockOrder, AdminTypeOK, AdminGoto, AdminStates
  <2> QED
    BY <2>1, <2>2, <2>3
<1>9. CASE CountRows(d)
  <2>1. [sources |-> Cardinality(source), ingestion_records |-> Cardinality(RecordIds),
         parsed_documents |-> Cardinality(parsed_document)] \in Counts
    BY FiniteTables DEF TableTypes, Counts
  <2>2. AdminTypeOK'
    BY <1>9, <2>1 DEF CountRows, AdminTypeOK, AdminGoto, AdminStates
  <2> QED
    BY <1>9, <1>c, <2>2 DEF CountRows
<1>10. CASE CommitPurge(d)
  <2>1. TableTypes'
    BY <1>10, DeleteTypes DEF CommitPurge, TableTypes
  <2> QED
    BY <1>10, <1>a, <1>d, <2>1 DEF CommitPurge
<1>11. CASE AdminFails(d)
  BY <1>11, <1>a, <1>b, <1>d DEF AdminFails
<1> QED
  BY <1>1, <1>2, <1>3, <1>4, <1>5, <1>6, <1>7, <1>8, <1>9, <1>10, <1>11 DEF AdminStep

TypeInv == TypeOK /\ PhaseInv

LEMMA TypesStep ==
    ASSUME TypeInv, [Next]_vars
    PROVE  TypeInv'
<1> USE DEF TypeInv, TypeOK
<1>0. AttemptTypes /\ CommandTypes
  BY StoreTypes DEF AttemptTypes, CommandTypes
<1>1. CASE Ingestion
  <2>1. PICK a \in Attempts : Receive(a) \/ AttemptStep(a) \/ DatabaseFails(a) \/ Crash
    BY <1>1 DEF Ingestion, IngestionNext, Crash
  <2>2. AttemptTypes'
    BY <1>0, <2>1, QuietTypes, TransactionTypes, CrashTypes DEF AttemptStep
  <2>3. AdminTypeOK' /\ removed' \subseteq Attempts
    BY <1>1 DEF Ingestion, adminVars, AdminTypeOK
  <2> QED
    BY <2>2, <2>3, StoreTypes DEF AttemptTypes, StoreTypeOK, TableTypes, LockTypes
<1>2. CASE Administration
  <2>1. AdminTypeOK' /\ TableTypes' /\ LockTypes'
    BY <1>0, <1>2, CommandStepTypes DEF Administration
  <2>2. removed' \subseteq Attempts
    BY <1>2 DEF Administration, RecordIds
  <2>3. IngestionTypeOK' /\ PhaseInv'
    BY <1>2 DEF Administration, ingestionVars, IngestionTypeOK, PhaseInv, InTx, Connected
  <2> QED
    BY <2>1, <2>2, <2>3 DEF StoreTypeOK, TableTypes, LockTypes
<1>3. CASE UNCHANGED vars
  BY <1>3 DEF vars, storeVars, tableVars, lockVars, ingestionVars, adminVars,
              StoreTypeOK, IngestionTypeOK, AdminTypeOK, PhaseInv, InTx, Connected
<1> QED
  BY <1>1, <1>2, <1>3 DEF Next, Quiescent

\* What PersistentIngestionProofs says of an attempt's steps applies.
LEMMA AttemptTyped == TypeInv => AttemptTypes
  BY StoreTypes DEF TypeInv, TypeOK, AttemptTypes

LEMMA TypeInvariance == Spec => []TypeInv
<1>1. Init => TypeInv
  BY InitTypes DEF TypeInv
<1> QED
  BY <1>1, TypesStep, PTL DEF Spec

\* The type invariant of the whole system: no attempt, command or crash takes a
\* variable out of its range.
THEOREM TypeCorrect == Spec => []TypeOK
<1>1. TypeInv => TypeOK
  BY DEF TypeInv
<1> QED
  BY <1>1, TypeInvariance, PTL

-----------------------------------------------------------------------------
(* Layer 2: which locks each place holds.                                    *)

\* An ACCESS EXCLUSIVE lock keeps everybody else off its table.
ExclusiveInv ==
    \A t \in Tables : \A d \in exclusive[t] : shared[t] \subseteq {d} /\ exclusive[t] \subseteq {d}

AttemptLocks ==
    \A a \in Attempts :
        /\ InTx(a) => row_lock[url[a]] = a /\ a \in shared["source"]
        /\ pc[a] \in {"insert_document", "commit"} => a \in shared["ingestion_record"]
        /\ pc[a] = "commit" /\ operation[a] = "parsed_ingestion"
              => a \in shared["parsed_document"]

CommandLocks ==
    \A d \in Admins :
        /\ admin_pc[d] = "commit_source"
              => d \in shared["source"] /\ d \in shared["ingestion_record"]
        /\ admin_pc[d] = "commit_ingestion"
              => d \in shared["ingestion_record"] /\ d \in shared["parsed_document"]
        /\ admin_pc[d] \in {"lock_ingestion_record", "lock_parsed_document", "count",
                            "commit_purge"}
              => d \in exclusive["source"]
        /\ admin_pc[d] \in {"lock_parsed_document", "count", "commit_purge"}
              => d \in exclusive["ingestion_record"]
        /\ admin_pc[d] \in {"count", "commit_purge"} => d \in exclusive["parsed_document"]

LockInv == ExclusiveInv /\ AttemptLocks /\ CommandLocks

\* The locks of actor x that others cannot take from it.
KeepsLocks(x) ==
    /\ \A t \in Tables : /\ x \in shared[t] => x \in shared'[t]
                         /\ x \in exclusive[t] => x \in exclusive'[t]
    /\ \A k \in Urls \cup Attempts : row_lock[k] = x => row_lock'[k] = x

LEMMA ReleaseKeepsOthers ==
    ASSUME LockTypes, ExclusiveInv, NEW x, ReleaseLocks(x)
    PROVE  ExclusiveInv' /\ \A y : y # x => KeepsLocks(y)
  BY DEF LockTypes, ExclusiveInv, ReleaseLocks, KeepsLocks

LEMMA ShareExclusive ==
    ASSUME LockTypes, ExclusiveInv, NEW x, NEW ts \in SUBSET Tables,
           \A t \in ts : CanShare(x, t), Share(x, ts), UNCHANGED exclusive
    PROVE  ExclusiveInv'
  BY DEF LockTypes, ExclusiveInv, Share, CanShare

LEMMA ShareKeeps ==
    ASSUME LockTypes, NEW x, NEW ts \in SUBSET Tables, Share(x, ts), UNCHANGED exclusive,
           \/ UNCHANGED row_lock
           \/ \E k \in Urls \cup Attempts : RowFree(x, k) /\ LockRow(x, k)
    PROVE  \A y : y # Nobody => KeepsLocks(y)
  BY DEF LockTypes, Share, LockRow, RowFree, KeepsLocks

LEMMA KeepAttempts ==
    ASSUME TypeInv, AttemptLocks, UNCHANGED <<pc, url, operation>>,
           \A a \in Attempts : KeepsLocks(a)
    PROVE  AttemptLocks'
  BY DEF AttemptLocks, KeepsLocks, InTx, Tables, TypeInv, PhaseInv

LEMMA KeepCommands ==
    ASSUME CommandLocks, UNCHANGED admin_pc, \A d \in Admins : KeepsLocks(d)
    PROVE  CommandLocks'
  BY DEF CommandLocks, KeepsLocks, Tables

\* Attempt a's step when it is the only attempt that moves.
LEMMA AttemptLocksStep ==
    ASSUME TypeInv, AttemptLocks, NEW a \in Attempts,
           \A b \in Attempts \ {a} : /\ pc'[b] = pc[b] /\ url'[b] = url[b]
                                     /\ operation'[b] = operation[b]
                                     /\ KeepsLocks(b),
           /\ InTx(a)' => row_lock'[url'[a]] = a /\ a \in shared'["source"]
           /\ pc'[a] \in {"insert_document", "commit"} => a \in shared'["ingestion_record"]
           /\ pc'[a] = "commit" /\ operation'[a] = "parsed_ingestion"
                 => a \in shared'["parsed_document"]
    PROVE  AttemptLocks'
<1>1. ASSUME NEW b \in Attempts \ {a}
      PROVE  /\ InTx(b)' => row_lock'[url'[b]] = b /\ b \in shared'["source"]
             /\ pc'[b] \in {"insert_document", "commit"} => b \in shared'["ingestion_record"]
             /\ pc'[b] = "commit" /\ operation'[b] = "parsed_ingestion"
                   => b \in shared'["parsed_document"]
  BY <1>1 DEF AttemptLocks, KeepsLocks, InTx, Tables, TypeInv, PhaseInv
<1> QED
  BY <1>1 DEF AttemptLocks

LEMMA AttemptStepLocks ==
    ASSUME TypeInv, LockInv, NEW a \in Attempts, UNCHANGED adminVars,
           Receive(a) \/ AttemptStep(a) \/ DatabaseFails(a)
    PROVE  LockInv'
<1> USE DEF LockInv
<1>0. /\ LockTypes /\ pc \in [Attempts -> AttemptStates]
      /\ url \in [Attempts -> Urls \cup {NoRow}]
      /\ operation \in [Attempts -> Operations \cup {"none"}]
      /\ \A b \in Actors : b # Nobody
      /\ \A d \in Admins : d # a /\ d \in Actors
      /\ \A b \in Attempts : b \in Actors
  BY StoreTypes, StoreAssumption DEF TypeInv, TypeOK, IngestionTypeOK, Actors
<1>1. ASSUME UNCHANGED lockVars,
             \A b \in Attempts \ {a} : /\ pc'[b] = pc[b] /\ url'[b] = url[b]
                                       /\ operation'[b] = operation[b],
             ~InTx(a)'
      PROVE  LockInv'
  <2>1. \A y : KeepsLocks(y)
    BY <1>1 DEF lockVars, KeepsLocks
  <2>2. AttemptLocks'
    BY <1>1, <2>1, AttemptLocksStep DEF InTx
  <2>3. CommandLocks'
    BY <2>1, KeepCommands DEF adminVars
  <2> QED
    BY <1>1, <2>2, <2>3 DEF ExclusiveInv, lockVars
<1>2. ASSUME ReleaseLocks(a), UNCHANGED <<url, operation>>, ~InTx(a)',
             \A b \in Attempts \ {a} : pc'[b] = pc[b]
      PROVE  LockInv'
  <2>1. ExclusiveInv' /\ \A y : y # a => KeepsLocks(y)
    BY <1>0, <1>2, ReleaseKeepsOthers
  <2>2. AttemptLocks'
    BY <1>2, <2>1, AttemptLocksStep DEF InTx
  <2>3. CommandLocks'
    BY <1>0, <2>1, KeepCommands DEF adminVars
  <2> QED
    BY <2>1, <2>2, <2>3
<1>3. CASE Receive(a) \/ FetchSucceeds(a) \/ FetchFails(a) \/ ParseSucceeds(a)
           \/ ParseFails(a) \/ RaiseUnexpectedly(a) \/ Begin(a) \/ Acknowledge(a)
  <2>1. UNCHANGED lockVars
    BY <1>3 DEF Receive, FetchSucceeds, FetchFails, ParseSucceeds, ParseFails,
                RaiseUnexpectedly, Begin, Acknowledge, Persist, storeVars
  <2>2. \A b \in Attempts \ {a} : pc'[b] = pc[b] /\ url'[b] = url[b]
                                  /\ operation'[b] = operation[b]
    BY <1>0, <1>3 DEF Receive, FetchSucceeds, FetchFails, ParseSucceeds, ParseFails,
                RaiseUnexpectedly, Begin, Acknowledge, Persist, Answer, Goto
  <2>3. ~InTx(a)'
    BY <1>0, <1>3 DEF Receive, FetchSucceeds, FetchFails, ParseSucceeds, ParseFails,
                RaiseUnexpectedly, Begin, Acknowledge, Persist, Answer, Goto, InTx
  <2> QED
    BY <1>1, <2>1, <2>2, <2>3
<1>4. CASE Upsert(a)
  <2>1. url[a] \in Urls
    BY <1>4 DEF Upsert, TypeInv, PhaseInv
  <2>2. ExclusiveInv'
    BY <1>0, <1>4, ShareExclusive DEF Upsert, Tables
  <2>3. \A y : y # Nobody => KeepsLocks(y)
    <3>1. \E k \in Urls \cup Attempts : RowFree(a, k) /\ LockRow(a, k)
      BY <1>4, <2>1 DEF Upsert, UpsertMayRun
    <3> HIDE DEF LockInv
    <3> QED
      BY <1>0, <1>4, <3>1, ShareKeeps DEF Upsert, Tables
  <2>4. CommandLocks'
    BY <1>0, <2>3, KeepCommands DEF adminVars
  <2>5. pc'[a] = "insert_record" /\ row_lock'[url'[a]] = a /\ a \in shared'["source"]
    BY <1>0, <1>4, <2>1 DEF Upsert, Goto, LockRow, Share, Tables, LockTypes
  <2>6. AttemptLocks'
    BY <1>0, <1>4, <2>3, <2>5, AttemptLocksStep DEF Upsert, Goto
  <2> QED
    BY <2>2, <2>4, <2>6
<1>5. CASE InsertRecord(a)
  <2>2. ExclusiveInv'
    BY <1>0, <1>5, ShareExclusive DEF InsertRecord, Tables
  <2>3. \A y : y # Nobody => KeepsLocks(y)
    BY <1>0, <1>5, ShareKeeps DEF InsertRecord, Tables
  <2>4. CommandLocks'
    BY <1>0, <2>3, KeepCommands DEF adminVars
  <2>5. /\ \/ pc'[a] = "insert_document"
           \/ pc'[a] = "commit" /\ operation[a] # "parsed_ingestion"
        /\ row_lock'[url'[a]] = a /\ a \in shared'["source"]
        /\ a \in shared'["ingestion_record"]
    BY <1>0, <1>5 DEF InsertRecord, Goto, Share, Tables, LockTypes, AttemptLocks, InTx
  <2>6. AttemptLocks'
    BY <1>0, <1>5, <2>3, <2>5, AttemptLocksStep DEF InsertRecord, Goto
  <2> QED
    BY <2>2, <2>4, <2>6
<1>6. CASE InsertDocument(a)
  <2>2. ExclusiveInv'
    BY <1>0, <1>6, ShareExclusive DEF InsertDocument, Tables
  <2>3. \A y : y # Nobody => KeepsLocks(y)
    BY <1>0, <1>6, ShareKeeps DEF InsertDocument, Tables
  <2>4. CommandLocks'
    BY <1>0, <2>3, KeepCommands DEF adminVars
  <2>5. /\ row_lock'[url'[a]] = a /\ a \in shared'["source"]
        /\ a \in shared'["ingestion_record"] /\ a \in shared'["parsed_document"]
    BY <1>0, <1>6 DEF InsertDocument, Goto, Share, Tables, LockTypes, AttemptLocks, InTx
  <2>6. AttemptLocks'
    BY <1>0, <1>6, <2>3, <2>5, AttemptLocksStep DEF InsertDocument, Goto
  <2> QED
    BY <2>2, <2>4, <2>6
<1>7. CASE Commit(a)
  BY <1>0, <1>2, <1>7 DEF Commit, Goto, InTx
<1>8. CASE DatabaseFails(a)
  BY <1>0, <1>2, <1>8 DEF DatabaseFails, Answer, Goto, InTx
<1> QED
  BY <1>3, <1>4, <1>5, <1>6, <1>7, <1>8 DEF AttemptStep

LEMMA CrashLocks ==
    ASSUME TypeInv, LockInv, Crash, UNCHANGED adminVars
    PROVE  LockInv'
<1> DEFINE alive == {a \in Attempts : pc[a] \notin {"new", "answered", "lost"}}
<1>0. LockTypes /\ \A d \in Admins : d \notin alive
  BY StoreTypes, StoreAssumption DEF TypeInv, TypeOK
<1>1. /\ shared' = [t \in Tables |-> shared[t] \ alive]
      /\ exclusive' = [t \in Tables |-> exclusive[t] \ alive]
      /\ row_lock' = [k \in DOMAIN row_lock |->
                          IF row_lock[k] \in alive THEN Nobody ELSE row_lock[k]]
      /\ pc' = [a \in Attempts |-> IF a \in alive THEN "lost" ELSE pc[a]]
  BY DEF Crash
<1>2. ExclusiveInv'
  BY <1>1 DEF LockInv, ExclusiveInv
<1>3. AttemptLocks'
  <2>1. \A a \in Attempts : pc'[a] \in {"new", "answered", "lost"}
    BY <1>1
  <2> QED
    BY <2>1 DEF AttemptLocks, InTx
<1>4. \A d \in Admins : KeepsLocks(d)
  BY <1>0, <1>1 DEF KeepsLocks, LockTypes
<1>5. CommandLocks'
  BY <1>4, KeepCommands DEF LockInv, adminVars
<1> QED
  BY <1>2, <1>3, <1>5 DEF LockInv

\* Command d's step when it is the only command that moves.
LEMMA CommandLocksStep ==
    ASSUME CommandLocks, NEW d \in Admins,
           \A e \in Admins \ {d} : admin_pc'[e] = admin_pc[e] /\ KeepsLocks(e),
           /\ admin_pc'[d] = "commit_source"
                 => d \in shared'["source"] /\ d \in shared'["ingestion_record"]
           /\ admin_pc'[d] = "commit_ingestion"
                 => d \in shared'["ingestion_record"] /\ d \in shared'["parsed_document"]
           /\ admin_pc'[d] \in {"lock_ingestion_record", "lock_parsed_document", "count",
                                "commit_purge"}
                 => d \in exclusive'["source"]
           /\ admin_pc'[d] \in {"lock_parsed_document", "count", "commit_purge"}
                 => d \in exclusive'["ingestion_record"]
           /\ admin_pc'[d] \in {"count", "commit_purge"} => d \in exclusive'["parsed_document"]
    PROVE  CommandLocks'
<1>1. ASSUME NEW e \in Admins \ {d}
      PROVE  /\ admin_pc'[e] = "commit_source"
                   => e \in shared'["source"] /\ e \in shared'["ingestion_record"]
             /\ admin_pc'[e] = "commit_ingestion"
                   => e \in shared'["ingestion_record"] /\ e \in shared'["parsed_document"]
             /\ admin_pc'[e] \in {"lock_ingestion_record", "lock_parsed_document", "count",
                                  "commit_purge"}
                   => e \in exclusive'["source"]
             /\ admin_pc'[e] \in {"lock_parsed_document", "count", "commit_purge"}
                   => e \in exclusive'["ingestion_record"]
             /\ admin_pc'[e] \in {"count", "commit_purge"} => e \in exclusive'["parsed_document"]
  BY DEF CommandLocks, KeepsLocks, Tables
<1> QED
  BY <1>1 DEF CommandLocks

LEMMA CommandStepLocks ==
    ASSUME TypeInv, LockInv, AdminNext, UNCHANGED ingestionVars
    PROVE  LockInv'
<1> USE DEF LockInv
<1>1. PICK d \in Admins : Refuse(d) \/ Start(d) \/ AdminStep(d) \/ AdminFails(d)
  BY DEF AdminNext
<1>0. /\ LockTypes /\ admin_pc \in [Admins -> AdminStates]
      /\ source_url \in [Attempts -> Urls \cup {NoRow}]
      /\ \A y \in Actors : y # Nobody
      /\ d \in Actors
      /\ \A a \in Attempts : a # d /\ a \in Actors
      /\ \A e \in Admins : e \in Actors
  BY <1>1, StoreTypes, StoreAssumption DEF TypeInv, TypeOK, AdminTypeOK, Actors, StoreTypeOK
<1>2. ASSUME NEW r, Report(d, r)
      PROVE  LockInv'
  <2>1. ExclusiveInv' /\ \A y : y # d => KeepsLocks(y)
    BY <1>0, <1>2, ReleaseKeepsOthers DEF Report
  <2>2. AttemptLocks'
    BY <1>0, <2>1, KeepAttempts DEF ingestionVars
  <2>3. CommandLocks'
    BY <1>0, <1>1, <1>2, <2>1, CommandLocksStep DEF Report, AdminGoto
  <2> QED
    BY <2>1, <2>2, <2>3
<1>3. ASSUME \A y \in Actors : KeepsLocks(y)
      PROVE  AttemptLocks'
  BY <1>0, <1>3, KeepAttempts DEF ingestionVars
<1>4. CASE Start(d) \/ CountRows(d)
  <2>1. UNCHANGED lockVars
    BY <1>4 DEF Start, CountRows, storeVars
  <2>2. \A y : KeepsLocks(y)
    BY <2>1 DEF lockVars, KeepsLocks
  <2>3. CommandLocks'
    BY <1>0, <1>1, <1>4, <2>1, <2>2, CommandLocksStep
       DEF Start, CountRows, AdminGoto, CommandLocks, lockVars
  <2> QED
    BY <1>3, <2>1, <2>2, <2>3 DEF ExclusiveInv, lockVars
<1>5. CASE DeleteSource(d)
  <2>1. CASE Report(d, "not_found") \/ Report(d, "restricted")
    BY <1>2, <2>1
  <2>2. CASE /\ target[d] \in source
             /\ Share(d, {"source", "ingestion_record"})
             /\ LockRow(d, source_url[target[d]])
             /\ AdminGoto(d, "commit_source")
             /\ UNCHANGED <<exclusive, target, purge_counts, result>>
             /\ RowFree(d, source_url[target[d]])
             /\ CanShare(d, "source") /\ CanShare(d, "ingestion_record")
    <3>1. ExclusiveInv'
      BY <1>0, <2>2, ShareExclusive DEF Tables
    <3>2. \A y \in Actors : KeepsLocks(y)
      BY <1>0, <2>2 DEF LockTypes, Share, LockRow, RowFree, KeepsLocks
    <3>3. CommandLocks'
      BY <1>0, <1>1, <2>2, <3>2, CommandLocksStep DEF AdminGoto, Share, Tables
    <3> QED
      BY <1>3, <3>1, <3>2, <3>3
  <2> QED
    BY <1>5, <2>1, <2>2 DEF DeleteSource, SourceRowsFree
<1>6. CASE DeleteIngestion(d)
  <2>1. CASE Report(d, "not_found")
    BY <1>2, <2>1
  <2>2. CASE /\ Share(d, {"ingestion_record", "parsed_document"})
             /\ LockRow(d, target[d])
             /\ AdminGoto(d, "commit_ingestion")
             /\ UNCHANGED <<exclusive, target, purge_counts, result>>
             /\ RowFree(d, target[d])
             /\ CanShare(d, "ingestion_record") /\ CanShare(d, "parsed_document")
    <3>1. ExclusiveInv'
      BY <1>0, <2>2, ShareExclusive DEF Tables
    <3>2. \A y \in Actors : KeepsLocks(y)
      BY <1>0, <2>2 DEF LockTypes, Share, LockRow, RowFree, KeepsLocks
    <3>3. CommandLocks'
      BY <1>0, <1>1, <2>2, <3>2, CommandLocksStep DEF AdminGoto, Share, Tables
    <3> QED
      BY <1>3, <3>1, <3>2, <3>3
  <2> QED
    BY <1>6, <2>1, <2>2 DEF DeleteIngestion
<1>7. CASE LockNextTable(d)
  <2>1. PICK t \in Tables : /\ CanExclude(d, t)
                            /\ exclusive' = [exclusive EXCEPT ![t] = @ \cup {d}]
                            /\ t = LockOrder[admin_pc[d]]
    BY <1>7 DEF LockNextTable, LockGranted, LockOrder, Tables
  <2>2. ExclusiveInv'
    BY <1>0, <1>7, <2>1 DEF LockNextTable, ExclusiveInv, CanExclude, LockTypes
  <2>3. \A y : KeepsLocks(y)
    BY <1>0, <1>7, <2>1 DEF LockNextTable, KeepsLocks, LockTypes
  <2>4. CommandLocks'
    BY <1>0, <1>1, <1>7, <2>1, <2>3, CommandLocksStep
       DEF LockNextTable, LockOrder, AdminGoto, CommandLocks, LockTypes, Tables
  <2> QED
    BY <1>3, <2>2, <2>3, <2>4
<1>8. CASE \/ Refuse(d) \/ CommitDeleteSource(d) \/ CommitDeleteIngestion(d)
           \/ CommitPurge(d) \/ AdminFails(d)
  BY <1>2, <1>8 DEF Refuse, CommitDeleteSource, CommitDeleteIngestion, CommitPurge,
                    AdminFails
<1> QED
  BY <1>1, <1>4, <1>5, <1>6, <1>7, <1>8 DEF AdminStep

LEMMA LocksStep ==
    ASSUME TypeInv, LockInv, [Next]_vars
    PROVE  LockInv'
<1>1. CASE Ingestion
  BY <1>1, AttemptStepLocks, CrashLocks DEF Ingestion, IngestionNext, adminVars
<1>2. CASE Administration
  BY <1>2, CommandStepLocks DEF Administration
<1>3. CASE UNCHANGED vars
  BY <1>3 DEF vars, storeVars, lockVars, ingestionVars, adminVars, LockInv, ExclusiveInv,
              AttemptLocks, CommandLocks, InTx
<1> QED
  BY <1>1, <1>2, <1>3 DEF Next, Quiescent

LEMMA InitLocks == Init => LockInv
  BY DEF Init, StoreInit, IngestionInit, AdminInit, LockInv, ExclusiveInv, AttemptLocks,
         CommandLocks, InTx, Tables

-----------------------------------------------------------------------------
(* Layer 3: the tables.                                                      *)

\* Who has a row is past its commit and stays as it was when it committed; and a
\* record says what its attempt did.
RowsInv ==
    /\ \A a \in Attempts :
          /\ a \in source \cup RecordIds \cup removed => Over(a)
          /\ a \in RecordIds \cup removed => operation[a] \in Operations
          /\ a \in RecordIds =>
                ingestion_record[a] =
                    [source_id |-> tx_source[a], operation |-> operation[a]]
    /\ DocumentsMatchRecords

\* What an attempt past its upsert counts on: its source is its own new row, or the
\* committed row of its URL.
OpenAttempt(a) ==
    \/ tx_source[a] = a /\ \A s \in source : source_url[s] # url[a]
    \/ tx_source[a] \in source /\ source_url[tx_source[a]] = url[a]

\* What a command counts on that is about to commit the deletion of a source: the
\* row is there, locked, and has no history.
OpenCommand(d) ==
    /\ target[d] \in source
    /\ row_lock[source_url[target[d]]] = d
    /\ HistoryOf(target[d]) = {}

LinksInv ==
    /\ ReferentialIntegrity
    /\ OneSourcePerUrl
    /\ \A s \in source : source_url[s] \in Urls
    /\ \A a \in Attempts : InTx(a) => OpenAttempt(a)
    /\ \A d \in Admins : admin_pc[d] = "commit_source" => OpenCommand(d)

LEMMA DeletedRecords ==
    ASSUME TypeInv, NEW rs, DeleteRecords(rs)
    PROVE  /\ RecordIds' = RecordIds \ rs
           /\ \A r \in RecordIds' : ingestion_record'[r] = ingestion_record[r]
  BY DEF DeleteRecords, RecordIds, TypeInv, TypeOK, StoreTypeOK

LEMMA AttemptStepRows ==
    ASSUME TypeInv, RowsInv, NEW a \in Attempts, UNCHANGED removed,
           Receive(a) \/ AttemptStep(a) \/ DatabaseFails(a)
    PROVE  RowsInv'
<1>1. \A b \in Attempts : Over(b) => /\ Over(b)' /\ operation'[b] = operation[b]
                                     /\ tx_source'[b] = tx_source[b]
  BY AttemptTyped, AttemptMoves DEF Over
<1>2. CASE ~Commit(a)
  BY <1>1, <1>2, QuietAttempt DEF RowsInv, DocumentsMatchRecords, RecordIds, tableVars
<1>3. CASE Commit(a)
  <2>1. Over(a)' /\ ~Over(a) /\ tx_source' = tx_source /\ operation' = operation
    BY <1>3 DEF Commit, Goto, Over, TypeInv, TypeOK, IngestionTypeOK
  <2>2. operation[a] \in Operations
    BY <1>3 DEF Commit, TypeInv, PhaseInv, Connected
  <2>3. source' \subseteq source \cup {a}
    BY <1>3 DEF Commit
  <2>4. a \notin RecordIds
    BY <2>1 DEF RowsInv
  <2>5. DocumentsMatchRecords'
    <3>1. \A r \in RecordIds :
             r # a /\ r \in Attempts /\ ingestion_record'[r] = ingestion_record[r]
      BY <1>3, <2>4, AttemptTyped, CommitRecords DEF RecordIds
    <3>2. ingestion_record'[a] = [source_id |-> tx_source[a], operation |-> operation[a]]
      BY <1>3, AttemptTyped, CommitRecords
    <3>3. {r \in RecordIds' : ingestion_record'[r].operation = "parsed_ingestion"}
            = parsed_document \cup (IF operation[a] = "parsed_ingestion" THEN {a} ELSE {})
      BY <1>3, <3>1, <3>2, AttemptTyped, CommitRecords DEF RowsInv, DocumentsMatchRecords
    <3> QED
      BY <1>3, <3>3 DEF Commit, DocumentsWith, DocumentsMatchRecords
  <2>6. ASSUME NEW b \in Attempts
        PROVE  /\ b \in source' \cup RecordIds' \cup removed' => Over(b)'
               /\ b \in RecordIds' \cup removed' => operation'[b] \in Operations
               /\ b \in RecordIds' =>
                     ingestion_record'[b] =
                         [source_id |-> tx_source'[b], operation |-> operation'[b]]
    BY <1>1, <1>3, <2>1, <2>2, <2>3, AttemptTyped, CommitRecords DEF RowsInv
  <2> QED
    BY <2>5, <2>6 DEF RowsInv
<1> QED
  BY <1>2, <1>3

LEMMA CrashRows ==
    ASSUME TypeInv, RowsInv, Crash, UNCHANGED removed
    PROVE  RowsInv'
<1>1. \A b \in Attempts : Over(b) => Over(b)'
  BY DEF Crash, Over, TypeInv, TypeOK, IngestionTypeOK
<1> QED
  BY <1>1 DEF Crash, RowsInv, DocumentsMatchRecords, RecordIds, tableVars

\* What a command's step does to the tables: nothing, or one of three commits.
LEMMA CommandMoves ==
    ASSUME AdminNext
    PROVE  \/ UNCHANGED tableVars
           \/ \E d \in Admins : \/ CommitDeleteSource(d) \/ CommitDeleteIngestion(d)
                                \/ CommitPurge(d)
  BY DEF AdminNext, AdminStep, Refuse, Start, DeleteSource, DeleteIngestion, LockNextTable,
         CountRows, AdminFails, storeVars

LEMMA CommandStepRows ==
    ASSUME TypeInv, RowsInv, Administration
    PROVE  RowsInv'
<1>0. /\ AdminNext /\ removed' = removed \cup (RecordIds \ RecordIds')
      /\ UNCHANGED <<pc, operation, tx_source>>
  BY DEF Administration, ingestionVars
<1>1. CASE UNCHANGED tableVars
  BY <1>0, <1>1 DEF RowsInv, DocumentsMatchRecords, RecordIds, tableVars, Over
<1>2. ASSUME NEW rs \in SUBSET Attempts, DeleteRecords(rs), source' \subseteq source
      PROVE  RowsInv'
  <2>1. /\ RecordIds' = RecordIds \ rs
        /\ \A r \in RecordIds' : ingestion_record'[r] = ingestion_record[r]
    BY <1>2, DeletedRecords
  <2>2. DocumentsMatchRecords'
    BY <1>2, <2>1 DEF DeleteRecords, RowsInv, DocumentsMatchRecords
  <2> QED
    BY <1>0, <1>2, <2>1, <2>2 DEF RowsInv, Over
<1>3. ASSUME NEW d \in Admins, CommitDeleteSource(d)
      PROVE  RowsInv'
  BY <1>0, <1>3 DEF CommitDeleteSource, RowsInv, DocumentsMatchRecords, RecordIds, Over
<1>4. ASSUME NEW d \in Admins, CommitDeleteIngestion(d)
      PROVE  RowsInv'
  <2>1. {target[d]} \cap Attempts \in SUBSET Attempts
    OBVIOUS
  <2>2. DeleteRecords({target[d]} \cap Attempts)
    BY <1>4 DEF CommitDeleteIngestion, DeleteRecords, TypeInv, TypeOK, StoreTypeOK
  <2> QED
    BY <1>2, <1>4, <2>1, <2>2 DEF CommitDeleteIngestion
<1>5. ASSUME NEW d \in Admins, CommitPurge(d)
      PROVE  RowsInv'
  BY <1>2, <1>5 DEF CommitPurge, RecordIds
<1> QED
  BY <1>0, <1>1, <1>3, <1>4, <1>5, CommandMoves

LEMMA RowsStep ==
    ASSUME TypeInv, RowsInv, [Next]_vars
    PROVE  RowsInv'
<1>1. CASE Ingestion
  BY <1>1, AttemptStepRows, CrashRows DEF Ingestion, IngestionNext
<1>2. CASE Administration
  BY <1>2, CommandStepRows
<1>3. CASE UNCHANGED vars
  BY <1>3 DEF vars, storeVars, tableVars, ingestionVars, RowsInv, DocumentsMatchRecords,
              RecordIds, Over
<1> QED
  BY <1>1, <1>2, <1>3 DEF Next, Quiescent

LEMMA InitRows == Init => RowsInv
  BY DEF Init, StoreInit, RowsInv, DocumentsMatchRecords, RecordIds

\* "Successful parsing creates the IngestionRecord and ParsedDocument in one atomic
\* transaction", and nothing else creates or keeps a document
\* (services/persistence.py, ON DELETE CASCADE).
THEOREM DocumentsCorrect == Spec => []DocumentsMatchRecords
<1>1. Init => RowsInv
  BY InitRows
<1>2. TypeInv /\ RowsInv /\ [Next]_vars => RowsInv'
  BY RowsStep
<1>3. RowsInv => DocumentsMatchRecords
  BY DEF RowsInv
<1> QED
  BY <1>1, <1>2, <1>3, TypeInvariance, PTL DEF Spec

\* A step takes no lock away from the actors that do not make it.
LEMMA AttemptKeepsOthers ==
    ASSUME TypeInv, LockInv, NEW a \in Attempts,
           Receive(a) \/ AttemptStep(a) \/ DatabaseFails(a)
    PROVE  \A y \in Actors \ {a} : KeepsLocks(y)
<1>0. LockTypes /\ \A y \in Actors : y # Nobody
  BY StoreTypes, StoreAssumption DEF TypeInv, TypeOK
<1>1. CASE ReleaseLocks(a)
  BY <1>0, <1>1, ReleaseKeepsOthers DEF LockInv
<1>2. CASE UNCHANGED lockVars
  BY <1>2 DEF lockVars, KeepsLocks
<1>3. CASE Upsert(a)
  <2>1. \E k \in Urls \cup Attempts : RowFree(a, k) /\ LockRow(a, k)
    BY <1>3 DEF Upsert, UpsertMayRun, TypeInv, PhaseInv
  <2> QED
    BY <1>0, <1>3, <2>1, ShareKeeps DEF Upsert, Tables
<1>4. CASE InsertRecord(a) \/ InsertDocument(a)
  BY <1>0, <1>4, ShareKeeps DEF InsertRecord, InsertDocument, Tables
<1> QED
  BY <1>1, <1>2, <1>3, <1>4
     DEF AttemptStep, Receive, FetchSucceeds, FetchFails, ParseSucceeds, ParseFails,
         RaiseUnexpectedly, Begin, Acknowledge, Commit, DatabaseFails, Persist, storeVars

LEMMA CrashKeepsCommands ==
    ASSUME TypeInv, Crash
    PROVE  \A d \in Admins : KeepsLocks(d)
<1> DEFINE alive == {a \in Attempts : pc[a] \notin {"new", "answered", "lost"}}
<1>1. LockTypes /\ \A d \in Admins : d \notin alive
  BY StoreTypes, StoreAssumption DEF TypeInv, TypeOK
<1>2. /\ shared' = [t \in Tables |-> shared[t] \ alive]
      /\ exclusive' = [t \in Tables |-> exclusive[t] \ alive]
      /\ row_lock' = [k \in DOMAIN row_lock |->
                          IF row_lock[k] \in alive THEN Nobody ELSE row_lock[k]]
  BY DEF Crash
<1> QED
  BY <1>1, <1>2 DEF KeepsLocks, LockTypes

LEMMA CommandKeepsOthers ==
    ASSUME TypeInv, LockInv, NEW d \in Admins,
           Refuse(d) \/ Start(d) \/ AdminStep(d) \/ AdminFails(d)
    PROVE  /\ \A y \in Actors \ {d} : KeepsLocks(y)
           /\ \A e \in Admins \ {d} : admin_pc'[e] = admin_pc[e] /\ target'[e] = target[e]
<1>0. /\ LockTypes /\ \A y \in Actors : y # Nobody
      /\ admin_pc \in [Admins -> AdminStates] /\ target \in [Admins -> Attempts \cup {NoRow}]
  BY StoreTypes, StoreAssumption DEF TypeInv, TypeOK, AdminTypeOK
<1>1. ASSUME NEW r, Report(d, r)
      PROVE  /\ \A y \in Actors \ {d} : KeepsLocks(y)
             /\ \A e \in Admins \ {d} : admin_pc'[e] = admin_pc[e] /\ target'[e] = target[e]
  BY <1>0, <1>1, ReleaseKeepsOthers DEF LockInv, Report, AdminGoto
<1>2. CASE UNCHANGED <<shared, row_lock>> /\ (Start(d) \/ CountRows(d) \/ LockNextTable(d))
  <2>1. \A t \in Tables : exclusive[t] \subseteq exclusive'[t]
    BY <1>0, <1>2 DEF Start, CountRows, LockNextTable, storeVars, lockVars, LockTypes
  <2>2. \A y : KeepsLocks(y)
    BY <1>2, <2>1 DEF KeepsLocks
  <2> QED
    BY <1>0, <1>2, <2>2 DEF Start, CountRows, LockNextTable, AdminGoto
<1>3. CASE \E s, ts : /\ Share(d, ts) /\ LockRow(d, s) /\ RowFree(d, s)
                      /\ UNCHANGED <<exclusive, target>>
                      /\ \E state : AdminGoto(d, state)
  BY <1>0, <1>3 DEF Share, LockRow, RowFree, KeepsLocks, LockTypes, AdminGoto
<1> QED
  BY <1>1, <1>2, <1>3
     DEF AdminStep, Refuse, Start, DeleteSource, SourceRowsFree, CommitDeleteSource,
         DeleteIngestion, CommitDeleteIngestion, LockNextTable, CountRows, CommitPurge,
         AdminFails, storeVars, lockVars

LEMMA QuietLinks ==
    ASSUME LinksInv, UNCHANGED tableVars,
           \A a \in Attempts : InTx(a)' => OpenAttempt(a)',
           \A d \in Admins : admin_pc'[d] = "commit_source" => OpenCommand(d)'
    PROVE  LinksInv'
  BY DEF LinksInv, OpenAttempt, OpenCommand, ReferentialIntegrity, OneSourcePerUrl,
         RecordIds, HistoryOf, tableVars

\* Attempt a commits: the tables' links with its row, record and source added.
LEMMA CommitLinks ==
    ASSUME TypeInv, LockInv, RowsInv, LinksInv, UNCHANGED adminVars,
           NEW a \in Attempts, Commit(a)
    PROVE  LinksInv'
<1> DEFINE s0 == tx_source[a]
<1>0. /\ source_url \in [Attempts -> Urls \cup {NoRow}] /\ source \subseteq Attempts
      /\ target \in [Admins -> Attempts \cup {NoRow}]
      /\ \A d \in Admins : d \in Actors \ {a}
      /\ pc \in [Attempts -> AttemptStates]
  BY StoreAssumption DEF TypeInv, TypeOK, StoreTypeOK, AdminTypeOK, IngestionTypeOK, Actors
<1>1. /\ InTx(a) /\ s0 \in Attempts /\ url[a] \in Urls /\ a \notin source
      /\ row_lock[url[a]] = a
      /\ pc[a] = "commit" /\ pc' = [pc EXCEPT ![a] = "committed"]
      /\ UNCHANGED <<url, tx_source>>
  BY DEF Commit, Goto, InTx, TypeInv, PhaseInv, RowsInv, Over, LockInv, AttemptLocks
<1>2. OpenAttempt(a)
  BY <1>1 DEF LinksInv
<1>3. /\ source' = source \cup {s0}
      /\ source_url' = [source_url EXCEPT ![s0] = url[a]]
      /\ \A s \in source : source_url'[s] = source_url[s]
      /\ source_url'[s0] = url[a]
      /\ (s0 = a /\ \A s \in source : source_url[s] # url[a]) \/ s0 \in source
  BY <1>0, <1>1, <1>2 DEF Commit, OpenAttempt
<1>4. /\ RecordIds' = RecordIds \cup {a}
      /\ ingestion_record'[a].source_id = s0
      /\ \A b \in RecordIds \ {a} : ingestion_record'[b] = ingestion_record[b]
  <2>1. ingestion_record'[a] = [source_id |-> s0, operation |-> operation[a]]
    BY AttemptTyped, CommitRecords
  <2> QED
    BY <2>1, AttemptTyped, CommitRecords DEF RecordIds
<1>5. ReferentialIntegrity'
  BY <1>3, <1>4 DEF LinksInv, ReferentialIntegrity
<1>6. OneSourcePerUrl'
  BY <1>2, <1>3 DEF LinksInv, OneSourcePerUrl, OpenAttempt
<1>7. \A s \in source' : source_url'[s] \in Urls
  BY <1>1, <1>3 DEF LinksInv
<1>8. ASSUME NEW b \in Attempts, InTx(b)'
      PROVE  OpenAttempt(b)'
  <2>1. b # a /\ InTx(b)
    BY <1>0, <1>1, <1>8 DEF InTx
  <2>2. OpenAttempt(b) /\ row_lock[url[b]] = b
    BY <2>1 DEF LinksInv, LockInv, AttemptLocks
  <2>3. url[b] # url[a]
    BY <1>1, <2>1, <2>2
  <2> QED
    BY <1>1, <1>3, <2>2, <2>3 DEF OpenAttempt
<1>9. ASSUME NEW d \in Admins, admin_pc'[d] = "commit_source"
      PROVE  OpenCommand(d)'
  <2>1. OpenCommand(d) /\ KeepsLocks(d) /\ target'[d] = target[d]
    BY <1>0, <1>9, AttemptKeepsOthers DEF LinksInv, adminVars, AttemptStep
  <2>2. target[d] # s0
    BY <1>0, <1>1, <1>2, <1>3, <2>1 DEF OpenAttempt, OpenCommand
  <2>3. HistoryOf(target[d])' = {}
    BY <1>4, <2>1, <2>2 DEF OpenCommand, HistoryOf
  <2> QED
    BY <1>3, <1>7, <2>1, <2>3 DEF OpenCommand, KeepsLocks, LinksInv, HistoryOf
<1> QED
  BY <1>5, <1>6, <1>7, <1>8, <1>9 DEF LinksInv

LEMMA AttemptStepLinks ==
    ASSUME TypeInv, LockInv, RowsInv, LinksInv, UNCHANGED adminVars,
           NEW a \in Attempts, Receive(a) \/ AttemptStep(a) \/ DatabaseFails(a)
    PROVE  LinksInv'
<1>0. \A d \in Admins : d \in Actors \ {a}
  BY StoreAssumption DEF Actors
<1>1. CASE Commit(a)
  BY <1>1, CommitLinks
<1>2. CASE ~Commit(a)
  <2>0. UNCHANGED tableVars
    BY <1>2, QuietAttempt
  <2>1. ASSUME NEW b \in Attempts \ {a}, InTx(b)'
        PROVE  OpenAttempt(b)'
    <3>1. InTx(b) /\ tx_source'[b] = tx_source[b] /\ url'[b] = url[b]
      BY <2>1, AttemptTyped, AttemptMoves DEF InTx
    <3> QED
      BY <2>0, <3>1 DEF LinksInv, OpenAttempt, tableVars
  <2>2. ASSUME InTx(a)'
        PROVE  OpenAttempt(a)'
    <3>1. CASE Upsert(a)
      <4>1. PICK s \in Resolved(a) : tx_source' = [tx_source EXCEPT ![a] = s]
        BY <3>1 DEF Upsert
      <4>2. tx_source'[a] = s /\ url'[a] = url[a]
        BY <3>1, <4>1 DEF Upsert, TypeInv, TypeOK, IngestionTypeOK
      <4> QED
        BY <2>0, <4>1, <4>2 DEF Resolved, Existing, OpenAttempt, tableVars
    <3>2. CASE InsertRecord(a) \/ InsertDocument(a)
      <4>1. InTx(a) /\ UNCHANGED <<tx_source, url>>
        BY <3>2 DEF InsertRecord, InsertDocument, InTx
      <4> QED
        BY <2>0, <4>1 DEF LinksInv, OpenAttempt, tableVars
    <3>3. CASE ~Upsert(a) /\ ~InsertRecord(a) /\ ~InsertDocument(a)
      <4>1. ~InTx(a)'
        BY <1>2, <3>3 DEF TypeInv, TypeOK, IngestionTypeOK, InTx, AttemptStep, Receive,
            FetchSucceeds, FetchFails, ParseSucceeds, ParseFails, RaiseUnexpectedly,
            Begin, Acknowledge, DatabaseFails, Persist, Answer, Goto
      <4> QED
        BY <2>2, <4>1
    <3> QED
      BY <3>1, <3>2, <3>3
  <2>3. ASSUME NEW d \in Admins, admin_pc'[d] = "commit_source"
        PROVE  OpenCommand(d)'
    <3>1. OpenCommand(d) /\ KeepsLocks(d) /\ target'[d] = target[d]
      BY <1>0, <2>3, AttemptKeepsOthers DEF LinksInv, adminVars
    <3> QED
      BY <2>0, <3>1 DEF OpenCommand, KeepsLocks, LinksInv, HistoryOf, RecordIds, tableVars
  <2> QED
    BY <2>0, <2>1, <2>2, <2>3, QuietLinks
<1> QED
  BY <1>1, <1>2

LEMMA CrashLinks ==
    ASSUME TypeInv, LinksInv, Crash, UNCHANGED adminVars
    PROVE  LinksInv'
<1>1. \A a \in Attempts : ~InTx(a)'
  BY DEF Crash, InTx, TypeInv, TypeOK, IngestionTypeOK
<1>2. ASSUME NEW d \in Admins, admin_pc'[d] = "commit_source"
      PROVE  OpenCommand(d)'
  <2>1. OpenCommand(d) /\ KeepsLocks(d)
    BY <1>2, CrashKeepsCommands DEF LinksInv, adminVars
  <2> QED
    BY <2>1 DEF Crash, OpenCommand, KeepsLocks, LinksInv, HistoryOf, RecordIds, tableVars,
                adminVars
<1> QED
  BY <1>1, <1>2, QuietLinks DEF Crash
\* The rows a command is about to delete, or finds, belong to nobody else's
\* transaction.
LEMMA CommandStepLinks ==
    ASSUME TypeInv, LockInv, RowsInv, LinksInv, Administration
    PROVE  LinksInv'
<1>1. PICK d \in Admins : Refuse(d) \/ Start(d) \/ AdminStep(d) \/ AdminFails(d)
  BY DEF Administration, AdminNext
<1>0. /\ UNCHANGED <<pc, url, tx_source>>
      /\ \A a \in Attempts : a # d
      /\ \A e \in Admins : e \in Actors
      /\ LockTypes /\ admin_pc \in [Admins -> AdminStates]
      /\ target \in [Admins -> Attempts \cup {NoRow}]
  BY <1>1, StoreTypes, StoreAssumption
     DEF Administration, ingestionVars, Actors, TypeInv, TypeOK, AdminTypeOK
<1>2. \A e \in Admins \ {d} : /\ KeepsLocks(e) /\ admin_pc'[e] = admin_pc[e]
                              /\ target'[e] = target[e]
  BY <1>0, <1>1, CommandKeepsOthers
<1>3. \A a \in Attempts : InTx(a)' => InTx(a) /\ OpenAttempt(a) /\ row_lock[url[a]] = a
                                      /\ a \in shared["source"]
  BY <1>0 DEF InTx, LinksInv, LockInv, AttemptLocks
<1>4. \A e \in Admins \ {d} : admin_pc'[e] = "commit_source" =>
         /\ OpenCommand(e) /\ target'[e] = target[e] /\ source_url[target[e]] \in Urls
         /\ row_lock'[source_url[target[e]]] = e
         /\ e \in shared["source"]
  BY <1>2 DEF LinksInv, OpenCommand, KeepsLocks, LockInv, CommandLocks
<1>5. CASE UNCHANGED tableVars
  <2>1. \A a \in Attempts : InTx(a)' => OpenAttempt(a)'
    BY <1>0, <1>3, <1>5 DEF OpenAttempt, tableVars
  <2>2. \A e \in Admins \ {d} : admin_pc'[e] = "commit_source" => OpenCommand(e)'
    BY <1>4, <1>5 DEF OpenCommand, HistoryOf, RecordIds, tableVars
  <2>3. ASSUME admin_pc'[d] = "commit_source"
        PROVE  OpenCommand(d)'
    <3>1. CASE DeleteSource(d)
      <4>1. /\ target[d] \in source /\ HistoryOf(target[d]) = {}
            /\ LockRow(d, source_url[target[d]]) /\ UNCHANGED target
        BY <1>0, <2>3, <3>1 DEF DeleteSource, Report, AdminGoto, SourceRestricted
      <4>2. row_lock'[source_url[target[d]]] = d
        BY <1>0, <4>1 DEF LinksInv, LockRow, LockTypes
      <4> QED
        BY <1>5, <4>1, <4>2 DEF OpenCommand, HistoryOf, RecordIds, tableVars
    <3>2. CASE ~DeleteSource(d)
      BY <1>0, <1>1, <2>3, <3>2
         DEF AdminStep, Refuse, Start, CommitDeleteSource, DeleteIngestion,
             CommitDeleteIngestion, LockNextTable, CountRows, CommitPurge, AdminFails,
             Report, AdminGoto, LockOrder
    <3> QED
      BY <3>1, <3>2
  <2> QED
    BY <1>5, <2>1, <2>2, <2>3, QuietLinks
<1>6. CASE CommitDeleteSource(d)
  <2>1. /\ OpenCommand(d) /\ admin_pc'[d] = "done"
        /\ source' = source \ {target[d]}
        /\ UNCHANGED <<source_url, ingestion_record>>
    BY <1>0, <1>6 DEF CommitDeleteSource, Report, AdminGoto, LinksInv
  <2>2. ReferentialIntegrity' /\ OneSourcePerUrl'
    BY <2>1 DEF LinksInv, OpenCommand, ReferentialIntegrity, OneSourcePerUrl, HistoryOf,
                RecordIds
  <2>3. \A a \in Attempts : InTx(a)' => OpenAttempt(a)'
    BY <1>0, <1>3, <2>1 DEF OpenAttempt, OpenCommand
  <2>4. \A e \in Admins \ {d} : admin_pc'[e] = "commit_source" => OpenCommand(e)'
    BY <1>4, <2>1 DEF OpenCommand, HistoryOf, RecordIds
  <2> QED
    BY <2>1, <2>2, <2>3, <2>4 DEF LinksInv
<1>7. CASE CommitDeleteIngestion(d)
  <2>1. /\ admin_pc'[d] = "done" /\ UNCHANGED <<source, source_url>>
        /\ RecordIds' \subseteq RecordIds
        /\ \A r \in RecordIds' : ingestion_record'[r] = ingestion_record[r]
    BY <1>0, <1>7, DeletedRecords DEF CommitDeleteIngestion, Report, AdminGoto
  <2>2. \A a \in Attempts : InTx(a)' => OpenAttempt(a)'
    BY <1>0, <1>3, <2>1 DEF OpenAttempt
  <2>3. \A e \in Admins \ {d} : admin_pc'[e] = "commit_source" => OpenCommand(e)'
    BY <1>4, <2>1 DEF OpenCommand, HistoryOf
  <2> QED
    BY <2>1, <2>2, <2>3 DEF LinksInv, ReferentialIntegrity, OneSourcePerUrl
<1>8. CASE CommitPurge(d)
  <2>1. /\ admin_pc'[d] = "done" /\ source' = {} /\ RecordIds' = {}
    BY <1>0, <1>8, DeletedRecords DEF CommitPurge, Report, AdminGoto
  <2>2. shared["source"] \subseteq {d}
    BY <1>8 DEF CommitPurge, LockInv, ExclusiveInv, CommandLocks, Tables
  <2>3. /\ \A a \in Attempts : ~InTx(a)'
        /\ \A e \in Admins : admin_pc'[e] # "commit_source"
    BY <1>0, <1>3, <1>4, <2>1, <2>2
  <2> QED
    BY <2>1, <2>3 DEF LinksInv, ReferentialIntegrity, OneSourcePerUrl
<1> QED
  BY <1>1, <1>5, <1>6, <1>7, <1>8
     DEF AdminStep, Refuse, Start, DeleteSource, DeleteIngestion, LockNextTable, CountRows,
         AdminFails, storeVars

LEMMA LinksStep ==
    ASSUME TypeInv, LockInv, RowsInv, LinksInv, [Next]_vars
    PROVE  LinksInv'
<1>1. CASE Ingestion
  BY <1>1, AttemptStepLinks, CrashLinks DEF Ingestion, IngestionNext, adminVars
<1>2. CASE Administration
  BY <1>2, CommandStepLinks
<1>3. CASE UNCHANGED vars
  BY <1>3 DEF vars, storeVars, tableVars, lockVars, ingestionVars, adminVars, LinksInv,
              ReferentialIntegrity, OneSourcePerUrl, RecordIds, InTx, OpenAttempt,
              OpenCommand, HistoryOf
<1> QED
  BY <1>1, <1>2, <1>3 DEF Next, Quiescent

LEMMA InitLinks == Init => LinksInv
  BY DEF Init, StoreInit, IngestionInit, AdminInit, LinksInv, ReferentialIntegrity,
         OneSourcePerUrl, RecordIds, InTx

\* The inductive invariant of the system.
SystemInv == TypeInv /\ LockInv /\ RowsInv /\ LinksInv

LEMMA SystemStep == SystemInv /\ [Next]_vars => SystemInv'
  BY TypesStep, LocksStep, RowsStep, LinksStep DEF SystemInv

LEMMA SystemInvariance == Spec => []SystemInv
<1>1. Init => SystemInv
  BY InitTypes, InitLocks, InitRows, InitLinks DEF SystemInv, TypeInv
<1> QED
  BY <1>1, SystemStep, PTL DEF Spec

\* No record ever refers to a source that is not there, whichever deletions run
\* beside the ingestion that writes it (ON DELETE RESTRICT, and the row and table
\* locks of the transactions).
THEOREM ReferentialIntegrityKept == Spec => []ReferentialIntegrity
<1>1. SystemInv => ReferentialIntegrity
  BY DEF SystemInv, LinksInv
<1> QED
  BY <1>1, SystemInvariance, PTL

\* Attempts on one URL that run side by side, with deletions between them, never
\* leave it two sources (get_or_create_source).
THEOREM OneSourceKept == Spec => []OneSourcePerUrl
<1>1. SystemInv => OneSourcePerUrl
  BY DEF SystemInv, LinksInv
<1> QED
  BY <1>1, SystemInvariance, PTL

-----------------------------------------------------------------------------
(* Waiting.  Layer 2 says which locks a place holds; here, who holds a lock  *)
(* has its place: an attempt past its upsert, a command about to commit a    *)
(* deletion, or, with a table for itself, a purge past its first table.      *)

Transacting(x) ==
    \/ x \in Attempts /\ InTx(x)
    \/ x \in Admins /\ admin_pc[x] \in {"commit_source", "commit_ingestion"}

Purging(x) ==
    x \in Admins /\ admin_pc[x] \in {"lock_ingestion_record", "lock_parsed_document", "count",
                                     "commit_purge"}

HoldersInv ==
    /\ \A t \in Tables : \A x \in shared[t] : Transacting(x)
    /\ \A t \in Tables : \A x \in exclusive[t] : Purging(x)
    /\ \A k \in Urls \cup Attempts : \A x \in Actors : row_lock[k] = x => Transacting(x)

StaysPut(x) == (Transacting(x) => Transacting(x)') /\ (Purging(x) => Purging(x)')

LEMMA QuietHolders ==
    ASSUME LockTypes, HoldersInv, UNCHANGED lockVars, \A x \in Actors : StaysPut(x)
    PROVE  HoldersInv'
<1> USE DEF LockTypes, HoldersInv, lockVars, StaysPut
<1>1. \A t \in Tables : \A x \in shared'[t] : Transacting(x)'
  OBVIOUS
<1>2. \A t \in Tables : \A x \in exclusive'[t] : Purging(x)'
  OBVIOUS
<1>3. \A k \in Urls \cup Attempts : \A y \in Actors : row_lock'[k] = y => Transacting(y)'
  OBVIOUS
<1> QED
  BY <1>1, <1>2, <1>3

LEMMA ReleaseHolders ==
    ASSUME LockTypes, HoldersInv, NEW x, ReleaseLocks(x), \A y \in Actors \ {x} : StaysPut(y)
    PROVE  HoldersInv'
<1> USE DEF LockTypes, HoldersInv, ReleaseLocks, StaysPut
<1>1. \A t \in Tables : \A y \in shared'[t] : Transacting(y)'
  OBVIOUS
<1>2. \A t \in Tables : \A y \in exclusive'[t] : Purging(y)'
  OBVIOUS
<1>3. ASSUME NEW k \in Urls \cup Attempts, NEW y \in Actors, row_lock'[k] = y
      PROVE  Transacting(y)'
  <2>1. y # Nobody
    BY StoreAssumption
  <2>2. row_lock[k] = y /\ y # x
    BY <1>3, <2>1
  <2>3. Transacting(y)
    BY <2>2
  <2> QED
    BY <2>2, <2>3
<1> QED
  BY <1>1, <1>2, <1>3

LEMMA ShareHolders ==
    ASSUME LockTypes, HoldersInv, NEW x, NEW ts, Share(x, ts), UNCHANGED exclusive,
           UNCHANGED row_lock \/ \E k \in Urls \cup Attempts : LockRow(x, k),
           Transacting(x)', ~Purging(x), \A y \in Actors \ {x} : StaysPut(y)
    PROVE  HoldersInv'
<1> USE DEF LockTypes, HoldersInv, StaysPut
<1>1. \A t \in Tables : \A y \in shared'[t] : Transacting(y)'
  BY DEF Share
<1>2. \A t \in Tables : \A y \in exclusive'[t] : Purging(y)'
  OBVIOUS
<1>3. \A k \in Urls \cup Attempts :
        \A y \in Actors \ {x} : row_lock'[k] = y => row_lock[k] = y
  BY DEF LockRow
<1>4. \A k \in Urls \cup Attempts : \A y \in Actors : row_lock'[k] = y => Transacting(y)'
  BY <1>3
<1> QED
  BY <1>1, <1>2, <1>4

LEMMA ExcludeHolders ==
    ASSUME LockTypes, HoldersInv, NEW x \in Actors, NEW t,
           exclusive' = [exclusive EXCEPT ![t] = @ \cup {x}], UNCHANGED <<shared, row_lock>>,
           Purging(x)', ~Transacting(x), \A y \in Actors \ {x} : StaysPut(y)
    PROVE  HoldersInv'
<1> USE DEF LockTypes, HoldersInv, StaysPut
<1>1. \A s \in Tables : \A y \in shared'[s] : Transacting(y)'
  OBVIOUS
<1>2. \A s \in Tables : \A y \in exclusive'[s] : Purging(y)'
  OBVIOUS
<1>3. \A k \in Urls \cup Attempts : \A y \in Actors : row_lock'[k] = y => Transacting(y)'
  OBVIOUS
<1> QED
  BY <1>1, <1>2, <1>3

LEMMA AttemptStepHolders ==
    ASSUME TypeInv, HoldersInv, NEW a \in Attempts, UNCHANGED adminVars,
           Receive(a) \/ AttemptStep(a) \/ DatabaseFails(a)
    PROVE  HoldersInv'
<1>0. /\ LockTypes /\ pc \in [Attempts -> AttemptStates] /\ a \notin Admins
      /\ \A y \in Actors \ {a} : StaysPut(y)
  <2>1. \A b \in Attempts \ {a} : pc'[b] = pc[b]
    BY AttemptTyped, AttemptMoves
  <2>2. admin_pc' = admin_pc
    BY DEF adminVars
  <2>3. \A y \in Actors \ {a} : StaysPut(y)
    BY <2>1, <2>2 DEF Actors, StaysPut, Transacting, Purging, InTx
  <2> QED
    BY <2>3, StoreTypes, StoreAssumption DEF TypeInv, TypeOK, IngestionTypeOK
<1>1. ~Purging(a)
  BY <1>0 DEF Purging
<1>2. CASE UNCHANGED lockVars /\ ~InTx(a)
  <2>1. StaysPut(a)
    BY <1>0, <1>2 DEF StaysPut, Transacting, Purging
  <2> QED
    BY <1>0, <1>2, <2>1, QuietHolders
<1>3. CASE ReleaseLocks(a)
  BY <1>0, <1>3, ReleaseHolders
<1>4. CASE Upsert(a)
  <2>1. LockRow(a, url[a]) /\ url[a] \in Urls
    BY <1>4 DEF Upsert, TypeInv, PhaseInv
  <2>2. Transacting(a)'
    BY <1>0, <1>4 DEF Upsert, Goto, Transacting, InTx
  <2> QED
    BY <1>0, <1>1, <1>4, <2>1, <2>2, ShareHolders DEF Upsert
<1>5. CASE InsertRecord(a) \/ InsertDocument(a)
  <2>1. Transacting(a)'
    BY <1>0, <1>5 DEF InsertRecord, InsertDocument, Goto, Transacting, InTx
  <2> QED
    BY <1>0, <1>1, <1>5, <2>1, ShareHolders DEF InsertRecord, InsertDocument
<1> QED
  BY <1>2, <1>3, <1>4, <1>5
     DEF AttemptStep, Receive, FetchSucceeds, FetchFails, ParseSucceeds, ParseFails,
         RaiseUnexpectedly, Begin, Acknowledge, Commit, DatabaseFails, Persist, storeVars, InTx

LEMMA CrashHolders ==
    ASSUME TypeInv, HoldersInv, Crash, UNCHANGED adminVars
    PROVE  HoldersInv'
<1> DEFINE alive == {a \in Attempts : pc[a] \notin {"new", "answered", "lost"}}
<1>1. /\ LockTypes
      /\ shared' = [t \in Tables |-> shared[t] \ alive]
      /\ exclusive' = [t \in Tables |-> exclusive[t] \ alive]
      /\ row_lock' = [k \in DOMAIN row_lock |->
                          IF row_lock[k] \in alive THEN Nobody ELSE row_lock[k]]
      /\ admin_pc' = admin_pc
  BY StoreTypes DEF TypeInv, TypeOK, Crash, adminVars
<1>2. \A x : Transacting(x) /\ x \notin alive => Transacting(x)'
  BY <1>1 DEF Transacting, InTx
<1>3. \A x : Purging(x) => Purging(x)'
  BY <1>1 DEF Purging
<1> HIDE DEF alive
<1>4. \A t \in Tables : \A y \in shared'[t] : Transacting(y)'
  BY <1>1, <1>2 DEF HoldersInv
<1>5. \A t \in Tables : \A y \in exclusive'[t] : Purging(y)'
  BY <1>1, <1>3 DEF HoldersInv
<1>6. ASSUME NEW k \in Urls \cup Attempts, NEW y \in Actors, row_lock'[k] = y
      PROVE  Transacting(y)'
  <2>1. y # Nobody
    BY StoreAssumption
  <2>2. row_lock[k] = y /\ y \notin alive
    BY <1>1, <1>6, <2>1 DEF LockTypes
  <2>3. Transacting(y)
    BY <2>2 DEF HoldersInv
  <2> QED
    BY <1>2, <2>2, <2>3
<1> QED
  BY <1>4, <1>5, <1>6 DEF HoldersInv

LEMMA CommandStepHolders ==
    ASSUME SystemInv, HoldersInv, AdminNext, UNCHANGED ingestionVars
    PROVE  HoldersInv'
<1> USE DEF SystemInv
<1>1. PICK d \in Admins : Refuse(d) \/ Start(d) \/ AdminStep(d) \/ AdminFails(d)
  BY DEF AdminNext
<1>0. /\ LockTypes /\ admin_pc \in [Admins -> AdminStates] /\ d \in Actors /\ d \notin Attempts
      /\ source_url \in [Attempts -> Urls \cup {NoRow}]
      /\ \A y \in Actors \ {d} : StaysPut(y)
  <2>1. \A e \in Admins \ {d} : admin_pc'[e] = admin_pc[e]
    BY <1>1, CommandKeepsOthers
  <2>2. pc' = pc
    BY DEF ingestionVars
  <2>3. \A y \in Actors \ {d} : StaysPut(y)
    BY <2>1, <2>2 DEF Actors, StaysPut, Transacting, Purging, InTx
  <2> QED
    BY <1>1, <2>3, StoreTypes, StoreAssumption
       DEF TypeInv, TypeOK, AdminTypeOK, StoreTypeOK, Actors
<1>2. CASE ReleaseLocks(d)
  BY <1>0, <1>2, ReleaseHolders
<1>3. CASE Start(d) \/ CountRows(d)
  <2>1. StaysPut(d)
    BY <1>0, <1>3 DEF Start, CountRows, AdminGoto, StaysPut, Transacting, Purging
  <2> QED
    BY <1>0, <1>3, <2>1, QuietHolders DEF Start, CountRows, storeVars
<1>4. CASE LockNextTable(d)
  <2>1. Purging(d)' /\ ~Transacting(d)
    BY <1>0, <1>4 DEF LockNextTable, LockOrder, AdminGoto, Transacting, Purging
  <2> QED
    BY <1>0, <1>4, <2>1, ExcludeHolders DEF LockNextTable
<1>5. CASE /\ admin_pc[d] \in {"delete_source", "delete_ingestion"}
           /\ AdminGoto(d, "commit_source") \/ AdminGoto(d, "commit_ingestion")
           /\ \E k \in Urls \cup Attempts : LockRow(d, k)
           /\ \E ts : Share(d, ts)
           /\ UNCHANGED exclusive
  <2>1. Transacting(d)' /\ ~Purging(d)
    BY <1>0, <1>5 DEF AdminGoto, Transacting, Purging
  <2> QED
    BY <1>0, <1>5, <2>1, ShareHolders
<1>6. CASE DeleteSource(d)
  <2>1. CASE target[d] \in source /\ LockRow(d, source_url[target[d]])
             /\ Share(d, {"source", "ingestion_record"}) /\ AdminGoto(d, "commit_source")
             /\ UNCHANGED exclusive
    <3>1. source_url[target[d]] \in Urls
      BY <2>1 DEF SystemInv, LinksInv
    <3> QED
      BY <1>5, <1>6, <2>1, <3>1 DEF DeleteSource
  <2> QED
    BY <1>2, <1>6, <2>1 DEF DeleteSource, Report
<1>7. CASE DeleteIngestion(d)
  <2>1. target[d] \in RecordIds => target[d] \in Urls \cup Attempts
    BY DEF RecordIds
  <2> QED
    BY <1>2, <1>5, <1>7, <2>1 DEF DeleteIngestion, Report
<1>8. CASE \E r : Report(d, r)
  BY <1>2, <1>8 DEF Report
<1> QED
  BY <1>1, <1>3, <1>4, <1>6, <1>7, <1>8
     DEF AdminStep, Refuse, CommitDeleteSource, CommitDeleteIngestion, CommitPurge, AdminFails

LEMMA HoldersInvariance == Spec => []HoldersInv
<1>1. Init => HoldersInv
  BY StoreAssumption DEF Init, StoreInit, HoldersInv, Tables
<1>2. SystemInv /\ HoldersInv /\ [Next]_vars => HoldersInv'
  <2> SUFFICES ASSUME SystemInv, HoldersInv, [Next]_vars PROVE HoldersInv'
    OBVIOUS
  <2> USE DEF SystemInv
  <2>1. CASE Ingestion
    BY <2>1, AttemptStepHolders, CrashHolders DEF Ingestion, IngestionNext, adminVars
  <2>2. CASE Administration
    BY <2>2, CommandStepHolders DEF Administration
  <2>3. CASE UNCHANGED vars
    <3>1. LockTypes /\ \A x \in Actors : StaysPut(x)
      BY <2>3, StoreTypes DEF StaysPut, Transacting, Purging, InTx, vars, ingestionVars, adminVars,
                              TypeInv, TypeOK
    <3> QED
      BY <2>3, <3>1, QuietHolders DEF vars, storeVars
  <2> QED
    BY <2>1, <2>2, <2>3 DEF Next, Quiescent
<1> QED
  BY <1>1, <1>2, SystemInvariance, PTL DEF Spec

\* The locks an actor's next statement needs, as the guards of its action have them.
LocksGranted(x) ==
    /\ x \in Attempts =>
          /\ pc[x] = "upsert" => CanShare(x, "source") /\ UpsertMayRun(x)
          /\ pc[x] = "insert_record" => CanShare(x, "ingestion_record")
          /\ pc[x] = "insert_document" => CanShare(x, "parsed_document")
    /\ x \in Admins =>
          /\ admin_pc[x] = "delete_source" =>
                /\ CanShare(x, "source") /\ CanShare(x, "ingestion_record")
                /\ target[x] \in source => SourceRowsFree(x, target[x])
          /\ admin_pc[x] = "delete_ingestion" =>
                /\ CanShare(x, "ingestion_record") /\ CanShare(x, "parsed_document")
                /\ RowFree(x, target[x])
          /\ admin_pc[x] \in DOMAIN LockOrder => LockGranted(x, LockOrder[admin_pc[x]])

LEMMA FreeTable ==
    ASSUME LockTypes, NEW x, NEW t \in Tables
    PROVE  /\ CanShare(x, t) <=> exclusive[t] \ {x, Nobody} = {}
           /\ CanExclude(x, t) <=> (exclusive[t] \cup shared[t]) \ {x, Nobody} = {}
<1>1. exclusive[t] \subseteq Actors /\ shared[t] \subseteq Actors /\ Nobody \notin Actors
  BY StoreAssumption DEF LockTypes
<1> QED
  BY <1>1 DEF CanShare, CanExclude

\* An actor is held back exactly when the guard of its next statement is.
LEMMA BlockersAreGuards ==
    ASSUME LockTypes, NEW x \in Actors
    PROVE  BlockedBy(x) = {} <=> LocksGranted(x)
<1>0. {"source", "ingestion_record", "parsed_document"} \subseteq Tables
  BY DEF Tables
<1>1. CASE x \in Attempts
  <2>0. x \notin Admins /\ BlockedBy(x) = AttemptBlockers(x) \ {x, Nobody}
    BY <1>1, StoreAssumption DEF BlockedBy
  <2>1. CASE pc[x] = "upsert"
    <3>1. AttemptBlockers(x) = exclusive["source"] \cup {row_lock[url[x]]}
      BY <2>1 DEF AttemptBlockers
    <3>2. LocksGranted(x) <=> CanShare(x, "source") /\ row_lock[url[x]] \in {x, Nobody}
      BY <1>1, <2>0, <2>1 DEF LocksGranted, UpsertMayRun, RowFree
    <3> QED
      BY <1>0, <2>0, <3>1, <3>2, FreeTable
  <2>2. CASE pc[x] # "upsert"
    BY <1>0, <1>1, <2>0, <2>2, FreeTable DEF AttemptBlockers, LocksGranted
  <2> QED
    BY <2>1, <2>2
<1>2. CASE x \in Admins
  <2>0. x \notin Attempts /\ BlockedBy(x) = CommandBlockers(x) \ {x, Nobody}
    BY <1>2, StoreAssumption DEF BlockedBy
  <2>1. CASE admin_pc[x] = "delete_source"
    <3> DEFINE rows == IF target[x] \in source
                       THEN {source_url[target[x]]} \cup HistoryOf(target[x]) ELSE {}
    <3>1. CommandBlockers(x) = exclusive["source"] \cup exclusive["ingestion_record"]
                                  \cup {row_lock[k] : k \in rows}
      BY <2>1 DEF CommandBlockers, LockOrder
    <3>2. (target[x] \in source => SourceRowsFree(x, target[x]))
             <=> \A k \in rows : row_lock[k] \in {x, Nobody}
      BY DEF SourceRowsFree, RowFree
    <3> HIDE DEF rows
    <3>3. LocksGranted(x) <=> /\ CanShare(x, "source") /\ CanShare(x, "ingestion_record")
                              /\ \A k \in rows : row_lock[k] \in {x, Nobody}
      BY <1>2, <2>0, <2>1, <3>2 DEF LocksGranted, LockOrder
    <3>4. BlockedBy(x) = {} <=> /\ exclusive["source"] \ {x, Nobody} = {}
                                /\ exclusive["ingestion_record"] \ {x, Nobody} = {}
                                /\ \A k \in rows : row_lock[k] \in {x, Nobody}
      BY <2>0, <3>1
    <3> QED
      BY <1>0, <3>3, <3>4, FreeTable
  <2>2. CASE admin_pc[x] = "delete_ingestion"
    <3>1. CommandBlockers(x) = exclusive["ingestion_record"] \cup exclusive["parsed_document"]
                                  \cup {row_lock[target[x]]}
      BY <2>2 DEF CommandBlockers, LockOrder
    <3>2. LocksGranted(x) <=> /\ CanShare(x, "ingestion_record")
                              /\ CanShare(x, "parsed_document")
                              /\ row_lock[target[x]] \in {x, Nobody}
      BY <1>2, <2>0, <2>2 DEF LocksGranted, LockOrder, RowFree
    <3> QED
      BY <1>0, <2>0, <3>1, <3>2, FreeTable
  <2>3. CASE admin_pc[x] \in DOMAIN LockOrder
    <3> DEFINE t == LockOrder[admin_pc[x]]
    <3>1. t \in Tables /\ admin_pc[x] \notin {"delete_source", "delete_ingestion"}
      BY <2>3 DEF LockOrder, Tables
    <3>2. CommandBlockers(x) = exclusive[t] \cup shared[t]
      BY <2>3, <3>1 DEF CommandBlockers
    <3>3. LocksGranted(x) <=> CanExclude(x, t)
      BY <1>2, <2>0, <2>3, <3>1 DEF LocksGranted, LockGranted
    <3> HIDE DEF t
    <3> QED
      BY <2>0, <3>1, <3>2, <3>3, FreeTable
  <2>4. CASE admin_pc[x] \notin DOMAIN LockOrder \cup {"delete_source", "delete_ingestion"}
    <3>1. CommandBlockers(x) = {}
      BY <2>4 DEF CommandBlockers
    <3> QED
      BY <2>0, <2>4, <3>1 DEF LocksGranted
  <2> QED
    BY <2>1, <2>2, <2>3, <2>4
<1> QED
  BY <1>1, <1>2 DEF Actors

\* "Held back", of which NoCircularWait speaks, is the guard of the statement itself: in
\* every state, BlockedBy is empty just where the locks the next action asks for are free.
THEOREM WaitsAreGuards == Spec => [](\A x \in Actors : BlockedBy(x) = {} <=> LocksGranted(x))
<1>1. TypeInv => \A x \in Actors : BlockedBy(x) = {} <=> LocksGranted(x)
  <2> SUFFICES ASSUME TypeInv, NEW x \in Actors PROVE BlockedBy(x) = {} <=> LocksGranted(x)
    OBVIOUS
  <2> QED
    BY StoreTypes, BlockersAreGuards DEF TypeInv, TypeOK
<1> QED
  BY <1>1, TypeInvariance, PTL

\* A command that is to delete a record was told which.
TargetInv == \A d \in Admins : admin_pc[d] = "delete_ingestion" => target[d] \in Attempts

LEMMA TargetInvariance == Spec => []TargetInv
<1>1. Init => TargetInv
  BY DEF Init, AdminInit, TargetInv
<1>2. TypeInv /\ TargetInv /\ [Next]_vars => TargetInv'
  <2> SUFFICES ASSUME TypeInv, TargetInv, [Next]_vars PROVE TargetInv'
    OBVIOUS
  <2>0. admin_pc \in [Admins -> AdminStates] /\ target \in [Admins -> Attempts \cup {NoRow}]
    BY DEF TypeInv, TypeOK, AdminTypeOK
  <2>1. CASE Administration
    <3>1. PICK d \in Admins : Refuse(d) \/ Start(d) \/ AdminStep(d) \/ AdminFails(d)
      BY <2>1 DEF Administration, AdminNext
    <3>2. ASSUME NEW r, Report(d, r) PROVE TargetInv'
      BY <2>0, <3>2 DEF Report, AdminGoto, TargetInv
    <3>3. CASE Start(d)
      BY <2>0, <3>3 DEF Start, AdminGoto, TargetInv
    <3>4. CASE \E state : state # "delete_ingestion" /\ AdminGoto(d, state) /\ UNCHANGED target
      BY <2>0, <3>4 DEF AdminGoto, TargetInv
    <3>5. LockNextTable(d) => TargetInv'
      BY <3>4 DEF LockNextTable, LockOrder
    <3>6. CountRows(d) => TargetInv'
      BY <3>4 DEF CountRows
    <3>7. DeleteSource(d) \/ DeleteIngestion(d) => TargetInv'
      BY <3>2, <3>4 DEF DeleteSource, DeleteIngestion
    <3> QED
      BY <3>1, <3>2, <3>3, <3>5, <3>6, <3>7
         DEF AdminStep, Refuse, CommitDeleteSource, CommitDeleteIngestion, CommitPurge, AdminFails
  <2>2. CASE UNCHANGED adminVars
    BY <2>2 DEF adminVars, TargetInv
  <2> QED
    BY <2>1, <2>2 DEF Next, Ingestion, Quiescent, vars
<1> QED
  BY <1>1, <1>2, TypeInvariance, PTL DEF Spec

\* Who has a table for itself is the only one with a lock on the source table.
LEMMA OnlyPurge ==
    ASSUME SystemInv, HoldersInv, NEW t \in Tables, NEW d \in exclusive[t]
    PROVE  /\ Purging(d) /\ d \in exclusive["source"]
           /\ \A x : x \in shared["source"] \cup exclusive["source"] => x = d
<1>1. Purging(d) /\ d \in exclusive["source"]
  BY DEF HoldersInv, Purging, SystemInv, LockInv, CommandLocks
<1> QED
  BY <1>1 DEF SystemInv, LockInv, ExclusiveInv, Tables

\* Who holds a lock is not held back, but that a purge with some of its tables may have to
\* wait for the deletion of a record to commit.
LEMMA TransactingFree ==
    ASSUME SystemInv, HoldersInv, NEW x, Transacting(x)
    PROVE  BlockedBy(x) = {}
<1>1. CASE x \in Attempts /\ InTx(x)
  <2>1. ASSUME NEW t \in Tables, NEW d \in exclusive[t]
        PROVE  FALSE
    <3>1. x \in shared["source"] /\ x \notin Admins
      BY <1>1, StoreAssumption DEF SystemInv, LockInv, AttemptLocks
    <3> QED
      BY <2>1, <3>1, OnlyPurge DEF Purging
  <2>2. exclusive["ingestion_record"] = {} /\ exclusive["parsed_document"] = {}
    BY <2>1 DEF Tables
  <2> QED
    BY <1>1, <2>2 DEF BlockedBy, AttemptBlockers, InTx
<1>2. CASE x \in Admins /\ admin_pc[x] \in {"commit_source", "commit_ingestion"}
  BY <1>2, StoreAssumption DEF BlockedBy, CommandBlockers, LockOrder
<1> QED
  BY <1>1, <1>2 DEF Transacting

LEMMA PurgingWaits ==
    ASSUME SystemInv, HoldersInv, NEW x, Purging(x), NEW z \in BlockedBy(x)
    PROVE  z \in Admins /\ BlockedBy(z) = {}
<1>1. x \in Admins /\ x \notin Attempts /\ x \in exclusive["source"]
  BY StoreAssumption DEF Purging, SystemInv, LockInv, CommandLocks
<1>2. PICK t \in {"ingestion_record", "parsed_document"} : z \in exclusive[t] \cup shared[t]
  BY <1>1 DEF BlockedBy, CommandBlockers, LockOrder, Purging
<1>3. t \in Tables /\ z # x
  BY <1>2 DEF Tables, BlockedBy
<1>4. z \notin exclusive[t]
  BY <1>1, <1>3, OnlyPurge
<1>5. Transacting(z)
  BY <1>2, <1>3, <1>4 DEF HoldersInv
<1>6. z \notin Attempts
  <2> SUFFICES ASSUME z \in Attempts PROVE FALSE
    OBVIOUS
  <2>1. z \in shared["source"]
    BY <1>5, StoreAssumption DEF Transacting, SystemInv, LockInv, AttemptLocks
  <2> QED
    BY <1>1, <1>3, <2>1, OnlyPurge DEF Tables
<1> QED
  BY <1>5, <1>6, TransactingFree DEF Transacting

\* Whoever is waited for holds a lock.
LEMMA BlockerHolds ==
    ASSUME SystemInv, HoldersInv, TargetInv, NEW x \in Actors, NEW y \in BlockedBy(x)
    PROVE  Transacting(y) \/ Purging(y)
<1>0. /\ y # Nobody
      /\ \A t \in Tables : y \in shared[t] \cup exclusive[t] => Transacting(y) \/ Purging(y)
  BY DEF BlockedBy, HoldersInv
<1>1. \A k \in Urls \cup Attempts : row_lock[k] = y => Transacting(y)
  BY <1>0, StoreTypes DEF HoldersInv, SystemInv, TypeInv, TypeOK, LockTypes
<1>2. CASE x \in Attempts
  <2>1. y \in AttemptBlockers(x) /\ (pc[x] = "upsert" => url[x] \in Urls)
    BY <1>2 DEF BlockedBy, SystemInv, TypeInv, PhaseInv
  <2> QED
    BY <1>0, <1>1, <1>2, <2>1 DEF AttemptBlockers, Tables
<1>3. CASE x \in Admins /\ x \notin Attempts
  <2>1. y \in CommandBlockers(x)
    BY <1>3 DEF BlockedBy
  <2>2. CASE admin_pc[x] = "delete_source"
    <3>1. CASE y \in exclusive["source"] \cup exclusive["ingestion_record"]
      BY <1>0, <3>1 DEF Tables
    <3>2. CASE target[x] \in source
               /\ \E k \in {source_url[target[x]]} \cup HistoryOf(target[x]) : y = row_lock[k]
      <4>1. source_url[target[x]] \in Urls
        BY <3>2 DEF SystemInv, LinksInv
      <4>2. HistoryOf(target[x]) \subseteq Attempts
        BY DEF HistoryOf, RecordIds
      <4>3. PICK k \in Urls \cup Attempts : y = row_lock[k]
        BY <3>2, <4>1, <4>2
      <4> QED
        BY <1>0, <1>1, <4>3
    <3> QED
      BY <2>1, <2>2, <3>1, <3>2 DEF CommandBlockers, LockOrder
  <2>3. CASE admin_pc[x] = "delete_ingestion"
    <3>1. target[x] \in Attempts
      BY <1>3, <2>3 DEF TargetInv
    <3>2. \/ y \in exclusive["ingestion_record"]
          \/ y \in exclusive["parsed_document"]
          \/ y = row_lock[target[x]]
      BY <2>1, <2>3 DEF CommandBlockers, LockOrder
    <3>3. {"ingestion_record", "parsed_document"} \subseteq Tables
      BY DEF Tables
    <3>4. CASE y = row_lock[target[x]]
      BY <1>1, <3>1, <3>4
    <3> QED
      BY <1>0, <3>2, <3>3, <3>4
  <2>4. CASE admin_pc[x] \in {"lock_source", "lock_ingestion_record", "lock_parsed_document"}
    BY <1>0, <2>1, <2>4 DEF CommandBlockers, LockOrder, Tables
  <2> QED
    BY <2>1, <2>2, <2>3, <2>4 DEF CommandBlockers, LockOrder
<1> QED
  BY <1>2, <1>3, StoreAssumption DEF Actors

\* For any number of attempts and commands: nobody waits in a circle for rows, tables and
\* connections, since whoever is waited for is past its waits, or is a purge whose only
\* waits are for such.
THEOREM NoCircle == Spec => []NoCircularWait
<1>1. SystemInv /\ HoldersInv /\ TargetInv => NoCircularWait
  <2> SUFFICES ASSUME SystemInv, HoldersInv, TargetInv, NEW x \in Actors,
                      NEW y \in BlockedBy(x)
               PROVE  /\ y \in Attempts => y \in Connected
                      /\ \A z \in BlockedBy(y) : z \in Admins /\ BlockedBy(z) = {}
    BY DEF NoCircularWait
  <2>1. Transacting(y) \/ Purging(y)
    BY BlockerHolds
  <2>2. CASE Transacting(y)
    <3>1. BlockedBy(y) = {}
      BY <2>2, TransactingFree
    <3>2. y \in Attempts => y \in Connected
      BY <2>2, StoreAssumption DEF Transacting, InTx, Connected
    <3> QED
      BY <3>1, <3>2
  <2>3. CASE Purging(y)
    <3>1. y \notin Attempts
      BY <2>3, StoreAssumption DEF Purging
    <3> QED
      BY <2>3, <3>1, PurgingWaits
  <2> QED
    BY <2>1, <2>2, <2>3
<1> QED
  BY <1>1, SystemInvariance, HoldersInvariance, TargetInvariance, PTL

-----------------------------------------------------------------------------
(* Purging.                                                                  *)

CurrentCounts == [sources |-> Cardinality(source),
                  ingestion_records |-> Cardinality(RecordIds),
                  parsed_documents |-> Cardinality(parsed_document)]

\* What a purge counted is still there while it holds the tables.
PurgeInv ==
    \A d \in Admins : admin_pc[d] = "commit_purge" => purge_counts[d] = CurrentCounts

\* While a purge is about to commit, nobody else does.
LEMMA PurgeAlone ==
    ASSUME SystemInv, Next, NEW d \in Admins,
           admin_pc[d] = "commit_purge", admin_pc'[d] = "commit_purge"
    PROVE  UNCHANGED tableVars
<1>1. /\ \A t \in Tables : shared[t] \subseteq {d} /\ exclusive[t] \subseteq {d}
      /\ \A a \in Attempts : a # d
      /\ admin_pc \in [Admins -> AdminStates]
  BY StoreAssumption DEF SystemInv, TypeInv, TypeOK, AdminTypeOK, LockInv, ExclusiveInv,
                         CommandLocks, Tables
<1>2. \A a \in Attempts : ~Commit(a)
  BY <1>1 DEF Commit, SystemInv, LockInv, AttemptLocks, InTx, Tables
<1>3. ASSUME NEW e \in Admins,
             CommitDeleteSource(e) \/ CommitDeleteIngestion(e) \/ CommitPurge(e)
      PROVE  FALSE
  <2>1. e # d
    BY <1>1, <1>3 DEF CommitDeleteSource, CommitDeleteIngestion, CommitPurge, Report,
                      AdminGoto
  <2> QED
    BY <1>1, <1>3, <2>1 DEF CommitDeleteSource, CommitDeleteIngestion, CommitPurge,
                            SystemInv, LockInv, CommandLocks, Tables
<1>4. CASE Ingestion
  BY <1>2, <1>4, QuietAttempt DEF Ingestion, IngestionNext, Crash
<1>5. CASE Administration
  BY <1>3, <1>5, CommandMoves DEF Administration
<1>6. CASE UNCHANGED vars
  BY <1>6 DEF vars, storeVars
<1> QED
  BY <1>4, <1>5, <1>6 DEF Next, Quiescent

\* What a step does to a command that is about to commit a purge, or has.
LEMMA PurgeMoves ==
    ASSUME SystemInv, Next, NEW d \in Admins
    PROVE  /\ admin_pc'[d] = "commit_purge" /\ admin_pc[d] # "commit_purge"
                 => purge_counts'[d] = CurrentCounts /\ UNCHANGED tableVars
           /\ admin_pc'[d] = "commit_purge" /\ admin_pc[d] = "commit_purge"
                 => purge_counts'[d] = purge_counts[d]
           /\ result[d] # "purged" /\ result'[d] = "purged" => admin_pc[d] = "commit_purge"
<1>1. AdminTypeOK
  BY DEF SystemInv, TypeInv, TypeOK
<1>2. CASE Ingestion \/ UNCHANGED vars
  BY <1>2 DEF Ingestion, vars, adminVars
<1>3. CASE Administration
  <2>1. PICK e \in Admins : Refuse(e) \/ Start(e) \/ AdminStep(e) \/ AdminFails(e)
    BY <1>3 DEF Administration, AdminNext
  <2>2. CASE CountRows(e)
    BY <1>1, <2>2 DEF CountRows, AdminGoto, AdminTypeOK, CurrentCounts, storeVars
  <2>3. ASSUME NEW r, Report(e, r), r = "purged" => admin_pc[e] = "commit_purge"
        PROVE  /\ admin_pc'[d] = "commit_purge" => admin_pc[d] = "commit_purge"
               /\ admin_pc'[d] = "commit_purge" => purge_counts'[d] = purge_counts[d]
               /\ result[d] # "purged" /\ result'[d] = "purged"
                     => admin_pc[d] = "commit_purge"
    BY <1>1, <2>3 DEF Report, AdminGoto, AdminTypeOK
  <2>4. ASSUME NEW state, state # "commit_purge", AdminGoto(e, state),
               UNCHANGED <<purge_counts, result>>
        PROVE  /\ admin_pc'[d] = "commit_purge" => admin_pc[d] = "commit_purge"
               /\ UNCHANGED <<purge_counts, result>>
    BY <1>1, <2>4 DEF AdminGoto, AdminTypeOK
  <2>5. CASE Start(e)
    BY <2>4, <2>5 DEF Start
  <2>6. CASE LockNextTable(e)
    BY <2>4, <2>6 DEF LockNextTable, LockOrder
  <2>7. CASE DeleteSource(e) \/ DeleteIngestion(e)
    BY <2>3, <2>4, <2>7 DEF DeleteSource, DeleteIngestion
  <2>8. CASE CommitPurge(e)
    BY <2>3, <2>8 DEF CommitPurge
  <2>9. CASE Refuse(e) \/ CommitDeleteSource(e) \/ CommitDeleteIngestion(e) \/ AdminFails(e)
    BY <2>3, <2>9 DEF Refuse, CommitDeleteSource, CommitDeleteIngestion, AdminFails
  <2> QED
    BY <2>1, <2>2, <2>5, <2>6, <2>7, <2>8, <2>9 DEF AdminStep
<1> QED
  BY <1>2, <1>3 DEF Next, Quiescent

LEMMA PurgeStep ==
    ASSUME SystemInv, PurgeInv, [Next]_vars
    PROVE  PurgeInv'
<1>1. ASSUME Next, NEW d \in Admins, admin_pc'[d] = "commit_purge"
      PROVE  purge_counts'[d] = CurrentCounts'
  <2>1. UNCHANGED tableVars
    BY <1>1, PurgeMoves, PurgeAlone
  <2>2. purge_counts'[d] = CurrentCounts
    BY <1>1, PurgeMoves DEF PurgeInv
  <2> QED
    BY <2>1, <2>2 DEF CurrentCounts, RecordIds, tableVars
<1>2. CASE UNCHANGED vars
  BY <1>2 DEF vars, storeVars, tableVars, adminVars, PurgeInv, CurrentCounts, RecordIds
<1> QED
  BY <1>1, <1>2 DEF PurgeInv

\* The counts a purge reports are those of the rows it deletes: from its count to its
\* commit the table locks keep every other commit out (admin_repository.py
\* purge_database).
THEOREM PurgeCountsKept == Spec => PurgeCountsExact
<1> DEFINE Exact ==
    \A d \in Admins :
        result[d] # "purged" /\ result'[d] = "purged" =>
            purge_counts[d] = [sources |-> Cardinality(source),
                               ingestion_records |-> Cardinality(RecordIds),
                               parsed_documents |-> Cardinality(parsed_document)]
<1>1. Init => PurgeInv
  BY DEF Init, AdminInit, PurgeInv
<1>2. SystemInv /\ PurgeInv /\ [Next]_vars => PurgeInv'
  BY PurgeStep
<1>3. SystemInv /\ PurgeInv /\ [Next]_vars => [Exact]_result
  <2>1. ASSUME SystemInv, PurgeInv, Next
        PROVE  Exact
    BY <2>1, PurgeMoves DEF PurgeInv, CurrentCounts
  <2>2. UNCHANGED vars => UNCHANGED result
    BY DEF vars, adminVars
  <2> QED
    BY <2>1, <2>2
<1>4. Spec => []SystemInv /\ []PurgeInv /\ [][Next]_vars
  BY <1>1, <1>2, SystemInvariance, PTL DEF Spec
<1>5. Spec => [][Exact]_result
  BY <1>3, <1>4, PTL
<1> QED
  BY <1>5 DEF PurgeCountsExact

-----------------------------------------------------------------------------
(* What callers are told.                                                    *)

\* The attempts that were ever recorded.
Recorded == RecordIds \cup removed

ReplyInv ==
    \A a \in Attempts :
        /\ pc[a] = "committed" => a \in Recorded
        /\ reply[a] \in {"success", "original_error"} =>
              a \in Recorded /\ reply[a] = CommittedReply(a)
        /\ reply[a] = "http_502" => operation[a] = "none"

\* A recorded attempt stays so, with the operation it was recorded with.
LEMMA RecordedKept ==
    ASSUME SystemInv, [Next]_vars
    PROVE  \A a \in Recorded : a \in Recorded' /\ Over(a) /\ operation'[a] = operation[a]
<1>0. \A a \in Recorded : a \in Attempts /\ Over(a)
  BY DEF SystemInv, RowsInv, Recorded, RecordIds, TypeInv, TypeOK
<1>1. CASE Ingestion
  <2>1. Crash => UNCHANGED <<operation, ingestion_record>>
    BY DEF Crash, tableVars
  <2>2. ASSUME NEW b \in Attempts, Receive(b) \/ AttemptStep(b) \/ DatabaseFails(b)
        PROVE  /\ \A a \in Recorded : operation'[a] = operation[a]
               /\ RecordIds \subseteq RecordIds'
    <3>1. \A a \in Recorded : operation'[a] = operation[a]
      BY <1>0, <2>2, AttemptTyped, AttemptMoves DEF SystemInv
    <3>2. RecordIds \subseteq RecordIds'
      BY <2>2, QuietAttempt, AttemptTyped, CommitRecords DEF RecordIds, tableVars, SystemInv
    <3> QED
      BY <3>1, <3>2
  <2> QED
    BY <1>0, <1>1, <2>1, <2>2 DEF Ingestion, IngestionNext, Recorded, RecordIds
<1>2. CASE Administration
  BY <1>0, <1>2 DEF Administration, Recorded, ingestionVars
<1>3. CASE UNCHANGED vars
  BY <1>0, <1>3 DEF vars, storeVars, tableVars, ingestionVars, Recorded, RecordIds
<1> QED
  BY <1>1, <1>2, <1>3 DEF Next, Quiescent

LEMMA ReplyStep ==
    ASSUME SystemInv, ReplyInv, [Next]_vars
    PROVE  ReplyInv'
<1> DEFINE Kept(a) == /\ a \in Recorded => a \in Recorded' /\ Over(a)
                                           /\ operation'[a] = operation[a]
                      /\ reply[a] # "none" => Over(a)
<1>0. /\ \A a \in Attempts : Kept(a)
      /\ pc \in [Attempts -> AttemptStates] /\ reply \in [Attempts -> Replies \cup {"none"}]
  BY RecordedKept DEF SystemInv, TypeInv, TypeOK, IngestionTypeOK, PhaseInv, Over
<1>1. CASE Ingestion
  <2>1. CASE Crash
    BY <1>0, <2>1 DEF Crash, ReplyInv, CommittedReply
  <2>2. ASSUME NEW b \in Attempts, Receive(b) \/ AttemptStep(b) \/ DatabaseFails(b)
        PROVE  ReplyInv'
    <3>1. ASSUME NEW a \in Attempts, pc'[a] = "committed"
          PROVE  a \in Recorded'
      <4>1. CASE Commit(a)
        BY <4>1, AttemptTyped, CommitRecords DEF SystemInv, Recorded
      <4>2. CASE pc[a] = "committed"
        BY <1>0, <4>2 DEF ReplyInv
      <4>3. CASE pc[a] # "committed" /\ ~Commit(a)
        BY <1>0, <2>2, <3>1, <4>3, AttemptTyped, AttemptMoves
           DEF AttemptStep, Receive, FetchSucceeds, FetchFails, ParseSucceeds, ParseFails,
               RaiseUnexpectedly, Begin, Upsert, InsertRecord, InsertDocument, Acknowledge,
               DatabaseFails, Persist, Goto, Answer, SystemInv
      <4> QED
        BY <4>1, <4>2, <4>3
    <3>2. \A a \in Attempts : Over(a) => operation'[a] = operation[a]
      BY <2>2, AttemptTyped, AttemptMoves DEF SystemInv
    <3>3. CASE UNCHANGED reply
      BY <1>0, <3>1, <3>2, <3>3 DEF ReplyInv, CommittedReply
    <3>4. CASE /\ reply[b] = "none" /\ UNCHANGED operation
               /\ \E r \in Replies : /\ reply' = [reply EXCEPT ![b] = r]
                                     /\ r \in {"success", "original_error"} =>
                                           pc[b] = "committed" /\ r = CommittedReply(b)
                                     /\ r = "http_502" => operation[b] = "none"
      BY <1>0, <3>1, <3>4 DEF ReplyInv, CommittedReply
    <3> QED
      BY <2>2, <3>3, <3>4, AttemptTyped, ReplyMoves DEF SystemInv
  <2> QED
    BY <1>1, <2>1, <2>2 DEF Ingestion, IngestionNext
<1>2. CASE Administration \/ UNCHANGED vars
  BY <1>0, <1>2 DEF Administration, vars, ingestionVars, ReplyInv, CommittedReply
<1> QED
  BY <1>1, <1>2 DEF Next, Quiescent

LEMMA ReplyInvariance == Spec => []ReplyInv
<1>1. Init => ReplyInv
  BY DEF Init, IngestionInit, ReplyInv
<1>2. SystemInv /\ ReplyInv /\ [Next]_vars => ReplyInv'
  BY ReplyStep
<1> QED
  BY <1>1, <1>2, SystemInvariance, PTL DEF Spec

\* An answer that names a record names one that was committed with that outcome, and
\* whose source and document are there unless an administrator has removed it; a 502
\* leaves none.
THEOREM RepliesAreTruthful == Spec => []RepliesTruthful
<1>1. ASSUME SystemInv, ReplyInv
      PROVE  RepliesTruthful
  <2> SUFFICES ASSUME NEW a \in Attempts
               PROVE  /\ reply[a] \in {"success", "original_error"} /\ a \notin removed =>
                            /\ a \in RecordIds
                            /\ ingestion_record[a].source_id = tx_source[a]
                            /\ tx_source[a] \in source
                            /\ reply[a] = "success"
                                  <=> ingestion_record[a].operation \in SuccessOperations
                            /\ reply[a] = "success" /\ a \in ParsedAttempts
                                  <=> a \in parsed_document
                      /\ reply[a] = "http_502" => a \notin RecordIds \cup removed
    BY DEF RepliesTruthful
  <2>1. reply[a] = "http_502" => a \notin RecordIds \cup removed
    BY <1>1 DEF ReplyInv, SystemInv, RowsInv, Operations, SuccessOperations,
                AuditOperations
  <2>2. ASSUME reply[a] \in {"success", "original_error"}, a \notin removed
        PROVE  /\ a \in RecordIds /\ reply[a] = CommittedReply(a)
               /\ ingestion_record[a].source_id = tx_source[a]
               /\ ingestion_record[a].operation = operation[a]
               /\ tx_source[a] \in source
               /\ operation[a] \in Operations
               /\ a \in parsed_document <=> operation[a] = "parsed_ingestion"
               /\ operation[a] = "raw_ingestion" => a \notin ParsedAttempts
               /\ operation[a] = "parsed_ingestion" => a \in ParsedAttempts
    <3>1. a \in RecordIds /\ reply[a] = CommittedReply(a)
      BY <1>1, <2>2 DEF ReplyInv, Recorded
    <3>2. /\ ingestion_record[a] = [source_id |-> tx_source[a], operation |-> operation[a]]
          /\ operation[a] \in Operations
      BY <1>1, <3>1 DEF SystemInv, RowsInv
    <3>3. tx_source[a] \in source
      BY <1>1, <3>1, <3>2 DEF SystemInv, LinksInv, ReferentialIntegrity
    <3>4. a \in parsed_document <=> operation[a] = "parsed_ingestion"
      BY <1>1, <3>1, <3>2 DEF SystemInv, RowsInv, DocumentsMatchRecords
    <3> QED
      BY <1>1, <3>1, <3>2, <3>3, <3>4 DEF SystemInv, TypeInv, PhaseInv
  <2> QED
    BY <2>1, <2>2 DEF CommittedReply, Operations, SuccessOperations, AuditOperations
<1> QED
  BY <1>1, SystemInvariance, ReplyInvariance, PTL

-----------------------------------------------------------------------------
(* The audit log.                                                            *)

Logged == [a \in Attempts |->
              IF a \in RecordIds \cup removed THEN Outcome(operation[a]) ELSE "none"]

Told == [a \in Attempts |-> AnswerMeans(reply[a])]

\* A step that records no new attempt leaves what was logged as it was.
LEMMA LoggedKept ==
    ASSUME SystemInv, [Next]_vars, Recorded' = Recorded
    PROVE  UNCHANGED Logged
<1>1. \A a \in Attempts : Logged[a]' = Logged[a]
  BY RecordedKept DEF Logged, Recorded
<1> QED
  BY <1>1 DEF Logged

\* A commit logs its attempt.
LEMMA CommitLogs ==
    ASSUME SystemInv, ReplyInv, Next, NEW a \in Attempts, Commit(a), UNCHANGED removed,
           NEW o, o = Outcome(operation[a])
    PROVE  Audit!Log(a, o) /\ o \in Audit!Outcomes
<1>1. /\ RecordIds' = RecordIds \cup {a} /\ UNCHANGED <<operation, reply>>
  BY AttemptTyped, CommitRecords DEF Commit, SystemInv
<1>2. a \notin Recorded /\ reply[a] = "none"
  BY DEF Commit, SystemInv, RowsInv, Recorded, Over, TypeInv, PhaseInv
<1>3. Logged[a] = "none" /\ Told[a] = "none" /\ UNCHANGED Told
  BY <1>1, <1>2 DEF Logged, Told, Recorded, AnswerMeans
<1>4. Logged' = [Logged EXCEPT ![a] = o]
  BY <1>1, <1>2 DEF Logged, Recorded
<1> QED
  BY <1>1, <1>3, <1>4 DEF Audit!Log, Audit!Outcomes, Outcome, Logged, Told

\* An answer tells its attempt what was logged of it.
LEMMA AnswerTells ==
    ASSUME SystemInv, ReplyInv, Next, UNCHANGED <<tableVars, operation, removed>>,
           NEW a \in Attempts, NEW r \in Replies,
           reply[a] = "none", reply' = [reply EXCEPT ![a] = r],
           r \in {"success", "original_error"} =>
               pc[a] = "committed" /\ r = CommittedReply(a),
           r = "http_502" => operation[a] = "none"
    PROVE  Audit!Tell(a, AnswerMeans(r)) /\ AnswerMeans(r) \in Audit!Answers
<1>1. UNCHANGED <<RecordIds, Logged>>
  BY DEF tableVars, RecordIds, Logged
<1>2. Told[a] = "none" /\ Told' = [Told EXCEPT ![a] = AnswerMeans(r)]
  <2>1. reply'[a] = r /\ \A b \in Attempts \ {a} : reply'[b] = reply[b]
    BY DEF SystemInv, TypeInv, TypeOK, IngestionTypeOK
  <2>2. AnswerMeans("none") = "none"
    BY DEF AnswerMeans
  <2>3. Told' = [b \in Attempts |-> AnswerMeans(reply'[b])]
    BY DEF Told, AnswerMeans
  <2>4. Told = [b \in Attempts |-> AnswerMeans(reply[b])]
    BY DEF Told
  <2> QED
    BY <2>1, <2>2, <2>3, <2>4
<1>3. AnswerMeans(r) \in {"success", "failure"} => Logged[a] = AnswerMeans(r)
  BY DEF Replies, AnswerMeans, ReplyInv, CommittedReply, Logged, Recorded, Outcome
<1>4. AnswerMeans(r) = "disclaim" => Logged[a] = "none"
  <2>1. r = "http_502" => a \notin Recorded
    BY DEF SystemInv, RowsInv, Recorded, Operations, SuccessOperations, AuditOperations
  <2> QED
    BY <2>1 DEF Replies, AnswerMeans, Logged, Recorded
<1>5. AnswerMeans(r) \in Audit!Answers
  BY DEF AnswerMeans, Replies, Audit!Answers, Audit!Outcomes
<1> QED
  BY <1>1, <1>2, <1>3, <1>4, <1>5 DEF Audit!Tell, Audit!Outcomes, Logged, Told

\* A command's step erases the records it deletes.
LEMMA CommandErases ==
    ASSUME SystemInv, Administration
    PROVE  Audit!Erase(RecordIds \ RecordIds')
<1>1. RecordIds' \subseteq RecordIds
  BY CommandMoves, DeletedRecords
     DEF Administration, CommitDeleteSource, CommitDeleteIngestion, CommitPurge, tableVars,
         RecordIds, SystemInv
<1>2. Recorded' = Recorded /\ UNCHANGED Told
  BY <1>1 DEF Administration, Recorded, ingestionVars, Told
<1>3. UNCHANGED Logged
  BY <1>2, LoggedKept DEF Next
<1> QED
  BY <1>1, <1>2, <1>3 DEF Audit!Erase, Logged, Told

LEMMA StepLogs ==
    ASSUME SystemInv, ReplyInv, [Next]_vars
    PROVE  [Audit!AuditNext]_(Audit!auditVars)
<1>1. UNCHANGED <<Logged, RecordIds, Told>> => UNCHANGED Audit!auditVars
  BY DEF Audit!auditVars, Logged, Told
<1>2. CASE Ingestion
  <2>1. CASE Crash
    <3>1. UNCHANGED <<RecordIds, Recorded, Told>>
      BY <1>2, <2>1 DEF Ingestion, Crash, tableVars, RecordIds, Recorded, Told
    <3> QED
      BY <1>1, <3>1, LoggedKept
  <2>2. ASSUME NEW a \in Attempts, Receive(a) \/ AttemptStep(a) \/ DatabaseFails(a)
        PROVE  [Audit!AuditNext]_(Audit!auditVars)
    <3>1. CASE Commit(a)
      <4>1. PICK o : o = Outcome(operation[a])
        OBVIOUS
      <4>2. Audit!Log(a, o) /\ o \in Audit!Outcomes
        BY <1>2, <3>1, <4>1, CommitLogs DEF Ingestion, Next
      <4> QED
        BY <4>2 DEF Audit!AuditNext
    <3>2. CASE ~Commit(a) /\ UNCHANGED reply
      <4>1. UNCHANGED <<RecordIds, Recorded, Told>>
        BY <1>2, <2>2, <3>2, QuietAttempt
           DEF Ingestion, tableVars, RecordIds, Recorded, Told
      <4> QED
        BY <1>1, <4>1, LoggedKept
    <3>3. CASE ~UNCHANGED reply
      <4>1. PICK r \in Replies : /\ reply' = [reply EXCEPT ![a] = r]
                                 /\ r \in {"success", "original_error"} =>
                                       pc[a] = "committed" /\ r = CommittedReply(a)
                                 /\ r = "http_502" => operation[a] = "none"
        BY <2>2, <3>3, AttemptTyped, ReplyMoves DEF SystemInv
      <4>2. reply[a] = "none" /\ UNCHANGED <<operation, tableVars, removed>>
        BY <1>2, <2>2, <3>3, AttemptTyped, ReplyMoves DEF Ingestion, SystemInv
      <4>3. Audit!Tell(a, AnswerMeans(r)) /\ AnswerMeans(r) \in Audit!Answers
        BY <1>2, <4>1, <4>2, AnswerTells DEF Next
      <4> QED
        BY <4>3 DEF Audit!AuditNext
    <3> QED
      BY <3>1, <3>2, <3>3
  <2> QED
    BY <1>2, <2>1, <2>2 DEF Ingestion, IngestionNext
<1>3. CASE Administration
  BY <1>3, CommandErases DEF Audit!AuditNext
<1>4. CASE UNCHANGED vars
  <2>1. UNCHANGED <<Logged, RecordIds, Told>>
    BY <1>4 DEF vars, storeVars, tableVars, ingestionVars, Logged, RecordIds, Told
  <2> QED
    BY <1>1, <2>1
<1> QED
  BY <1>2, <1>3, <1>4 DEF Next, Quiescent

\* "The application does not claim an audit record exists unless it committed
\* successfully" (docs/architecture.md): persistent ingestion, beside administrators,
\* failures and crashes, implements the audit log.
THEOREM AuditLogImplemented == Spec => ImplementsAuditLog
<1>1. Init => Audit!AuditInit
  BY DEF Init, StoreInit, IngestionInit, RecordIds, AnswerMeans, Audit!AuditInit
<1>2. SystemInv /\ ReplyInv /\ [Next]_vars => [Audit!AuditNext]_(Audit!auditVars)
  BY StepLogs
<1> QED
  BY <1>1, <1>2, SystemInvariance, ReplyInvariance, PTL
     DEF Spec, ImplementsAuditLog, Audit!AuditSpec

=============================================================================
