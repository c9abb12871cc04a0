----------------------- MODULE PersistentIngestionProofs -----------------------
(***************************************************************************)
(* What every step of an attempt of PersistentIngestion keeps and does,    *)
(* whatever system it is a part of.                                        *)
(***************************************************************************)
EXTENDS PersistentIngestion, TLAPS

\* Places whose attempt has upserted its source and holds the locks of that.
InTx(a) == pc[a] \in {"insert_record", "insert_document", "commit"}

\* Places past the commit or past any hope of one.
Over(a) == pc[a] \in {"committed", "answered", "lost"}

PhaseInv ==
    \A a \in Attempts :
        /\ pc[a] # "new" => url[a] \in Urls
        /\ pc[a] \in {"new", "fetching", "parsing"} => operation[a] = "none"
        /\ pc[a] = "parsing" => a \in ParsedAttempts
        /\ pc[a] = "connecting" \/ a \in Connected => operation[a] \in Operations
        /\ operation[a] = "raw_ingestion" => a \notin ParsedAttempts
        /\ operation[a] = "parsed_ingestion" => a \in ParsedAttempts
        /\ InTx(a) => tx_source[a] \in Attempts
        /\ pc[a] # "answered" => reply[a] = "none"

-----------------------------------------------------------------------------
(* Types and phases.                                                         *)

\* The locks' part of the type invariant, which every release keeps.
LockTypes ==
    /\ shared \in [Tables -> SUBSET Actors]
    /\ exclusive \in [Tables -> SUBSET Actors]
    /\ row_lock \in [Urls \cup Attempts -> Actors \cup {Nobody}]

LEMMA ReleaseTypes ==
    ASSUME LockTypes, NEW x, ReleaseLocks(x)
    PROVE  LockTypes'
  BY DEF LockTypes, ReleaseLocks

LEMMA ShareTypes ==
    ASSUME LockTypes, NEW x \in Actors, NEW ts, Share(x, ts)
    PROVE  shared' \in [Tables -> SUBSET Actors]
  BY DEF LockTypes, Share

LEMMA RowTypes ==
    ASSUME LockTypes, NEW x \in Actors, NEW k \in Urls \cup Attempts, LockRow(x, k)
    PROVE  row_lock' \in [Urls \cup Attempts -> Actors \cup {Nobody}]
  BY DEF LockTypes, LockRow

TableTypes ==
    /\ source \subseteq Attempts
    /\ source_url \in [Attempts -> Urls \cup {NoRow}]
    /\ last_seen_at \in [Attempts -> Nat]
    /\ ingestion_record \in [Attempts -> Records \cup {NoRow}]
    /\ parsed_document \subseteq Attempts

LEMMA StoreTypes == StoreTypeOK <=> TableTypes /\ LockTypes
  BY DEF StoreTypeOK, TableTypes, LockTypes

LEMMA DeleteTypes ==
    ASSUME TableTypes, NEW rs, DeleteRecords(rs)
    PROVE  /\ ingestion_record' \in [Attempts -> Records \cup {NoRow}]
           /\ parsed_document' \subseteq Attempts
  BY DEF TableTypes, DeleteRecords

LEMMA IngestionInitTypes ==
    ASSUME StoreInit, IngestionInit
    PROVE  StoreTypeOK /\ IngestionTypeOK /\ PhaseInv
  BY DEF StoreInit, IngestionInit, StoreTypeOK, IngestionTypeOK, PhaseInv, AttemptStates,
         Operations, SuccessOperations, AuditOperations, Replies, InTx, Connected

\* What an attempt's step keeps: its own types and phases, and the tables' and the
\* locks' types.
AttemptTypes == IngestionTypeOK /\ PhaseInv /\ TableTypes /\ LockTypes

\* Steps that leave the database alone.
LEMMA QuietTypes ==
    ASSUME AttemptTypes, NEW a \in Attempts,
           \/ Receive(a) \/ FetchSucceeds(a) \/ FetchFails(a) \/ ParseSucceeds(a)
           \/ ParseFails(a) \/ RaiseUnexpectedly(a) \/ Begin(a) \/ Acknowledge(a)
    PROVE  AttemptTypes'
<1> USE DEF AttemptTypes, IngestionTypeOK, PhaseInv, AttemptStates, Operations,
            SuccessOperations, AuditOperations, Replies, InTx, Connected, Goto
<1>0. UNCHANGED storeVars => TableTypes' /\ LockTypes'
  BY DEF TableTypes, LockTypes, storeVars, tableVars, lockVars
<1>1. CASE Receive(a)
  BY <1>0, <1>1 DEF Receive
<1>2. CASE FetchSucceeds(a)
  BY <1>0, <1>2 DEF FetchSucceeds, Persist
<1>3. CASE FetchFails(a)
  BY <1>0, <1>3 DEF FetchFails, Persist
<1>4. CASE ParseSucceeds(a)
  BY <1>0, <1>4 DEF ParseSucceeds, Persist
<1>5. CASE ParseFails(a)
  BY <1>0, <1>5 DEF ParseFails, Persist
<1>6. CASE RaiseUnexpectedly(a)
  BY <1>0, <1>6 DEF RaiseUnexpectedly, Answer
<1>7. CASE Begin(a)
  BY <1>0, <1>7, IngestionAssumption DEF Begin
<1>8. CASE Acknowledge(a)
  BY <1>0, <1>8 DEF Acknowledge, Answer, CommittedReply
<1> QED
  BY <1>1, <1>2, <1>3, <1>4, <1>5, <1>6, <1>7, <1>8

\* The statements and the end of a transaction.
LEMMA TransactionTypes ==
    ASSUME AttemptTypes, NEW a \in Attempts,
           \/ Upsert(a) \/ InsertRecord(a) \/ InsertDocument(a) \/ Commit(a)
           \/ DatabaseFails(a)
    PROVE  AttemptTypes'
<1> USE DEF AttemptTypes
<1>0. a \in Actors
  BY DEF Actors
<1>1. CASE Upsert(a)
  <2>1. url[a] \in Urls
    BY <1>1 DEF Upsert, PhaseInv
  <2>2. TableTypes'
    BY <1>1 DEF Upsert, TableTypes, tableVars
  <2>3. LockTypes'
    BY <1>0, <1>1, <2>1, ShareTypes, RowTypes DEF Upsert, LockTypes
  <2>4. \A s \in Resolved(a) : s \in Attempts
    BY DEF Resolved, Existing, TableTypes
  <2>5. IngestionTypeOK' /\ PhaseInv'
    BY <1>1, <2>4 DEF Upsert, IngestionTypeOK, PhaseInv, AttemptStates, InTx,
                      Connected, Goto
  <2> QED
    BY <2>2, <2>3, <2>5
<1>2. CASE InsertRecord(a)
  <2>1. TableTypes' /\ LockTypes'
    BY <1>0, <1>2, ShareTypes DEF InsertRecord, TableTypes, LockTypes, tableVars
  <2>2. IngestionTypeOK' /\ PhaseInv'
    BY <1>2 DEF InsertRecord, IngestionTypeOK, PhaseInv, AttemptStates, InTx,
                Connected, Goto
  <2> QED
    BY <2>1, <2>2
<1>3. CASE InsertDocument(a)
  <2>1. TableTypes' /\ LockTypes'
    BY <1>0, <1>3, ShareTypes DEF InsertDocument, TableTypes, LockTypes, tableVars
  <2>2. IngestionTypeOK' /\ PhaseInv'
    BY <1>3 DEF InsertDocument, IngestionTypeOK, PhaseInv, AttemptStates, InTx,
                Connected, Goto
  <2> QED
    BY <2>1, <2>2
<1>4. CASE Commit(a)
  <2>1. tx_source[a] \in Attempts /\ operation[a] \in Operations /\ url[a] \in Urls
    BY <1>4 DEF Commit, PhaseInv, InTx, Connected
  <2>2. [source_id |-> tx_source[a], operation |-> operation[a]] \in Records
    BY <2>1 DEF Records
  <2>3. TableTypes'
    BY <1>4, <2>1, <2>2 DEF Commit, TableTypes, DocumentsWith, IngestionTypeOK
  <2>4. LockTypes'
    BY <1>4, ReleaseTypes DEF Commit
  <2>5. IngestionTypeOK' /\ PhaseInv'
    BY <1>4 DEF Commit, IngestionTypeOK, PhaseInv, AttemptStates, InTx, Connected, Goto
  <2> QED
    BY <2>3, <2>4, <2>5
<1>5. CASE DatabaseFails(a)
  <2>1. TableTypes' /\ LockTypes'
    BY <1>5, ReleaseTypes DEF DatabaseFails, TableTypes, tableVars
  <2>2. IngestionTypeOK' /\ PhaseInv'
    BY <1>5 DEF DatabaseFails, IngestionTypeOK, PhaseInv, AttemptStates, Replies, InTx,
                Connected, Goto, Answer
  <2> QED
    BY <2>1, <2>2
<1> QED
  BY <1>1, <1>2, <1>3, <1>4, <1>5

LEMMA CrashTypes ==
    ASSUME AttemptTypes, Crash
    PROVE  AttemptTypes'
<1> USE DEF AttemptTypes
<1>1. TableTypes'
  BY DEF Crash, TableTypes, tableVars
<1>2. LockTypes'
  BY DEF Crash, LockTypes
<1>3. IngestionTypeOK' /\ PhaseInv'
  BY DEF Crash, IngestionTypeOK, PhaseInv, AttemptStates, InTx, Connected
<1> QED
  BY <1>1, <1>2, <1>3

-----------------------------------------------------------------------------
(* What a step does to the other attempts, to the records and to the answer. *)

\* An attempt's step leaves the others alone, and itself once it is over.
LEMMA AttemptMoves ==
    ASSUME AttemptTypes, NEW a \in Attempts, Receive(a) \/ AttemptStep(a) \/ DatabaseFails(a)
    PROVE  /\ \A b \in Attempts \ {a} : /\ pc'[b] = pc[b] /\ url'[b] = url[b]
                                        /\ operation'[b] = operation[b]
                                        /\ tx_source'[b] = tx_source[b]
                                        /\ reply'[b] = reply[b]
           /\ Over(a) => /\ Over(a)' /\ operation'[a] = operation[a]
                         /\ tx_source'[a] = tx_source[a]
<1> USE DEF AttemptTypes, IngestionTypeOK, Goto, Answer, Over, Connected
<1>1. CASE Receive(a) \/ FetchSucceeds(a) \/ FetchFails(a) \/ ParseSucceeds(a)
           \/ ParseFails(a) \/ RaiseUnexpectedly(a) \/ Begin(a)
  BY <1>1 DEF Receive, FetchSucceeds, FetchFails, ParseSucceeds, ParseFails,
              RaiseUnexpectedly, Begin, Persist
<1>2. CASE Upsert(a)
  BY <1>2 DEF Upsert
<1>3. CASE InsertRecord(a) \/ InsertDocument(a)
  BY <1>3 DEF InsertRecord, InsertDocument
<1>4. CASE Commit(a) \/ Acknowledge(a) \/ DatabaseFails(a)
  BY <1>4 DEF Commit, Acknowledge, DatabaseFails
<1> QED
  BY <1>1, <1>2, <1>3, <1>4 DEF AttemptStep

\* Only a commit changes the tables.
LEMMA QuietAttempt ==
    ASSUME NEW a \in Attempts, Receive(a) \/ AttemptStep(a) \/ DatabaseFails(a), ~Commit(a)
    PROVE  UNCHANGED tableVars
  BY DEF AttemptStep, Receive, FetchSucceeds, FetchFails, ParseSucceeds, ParseFails,
         RaiseUnexpectedly, Begin, Upsert, InsertRecord, InsertDocument, Acknowledge,
         DatabaseFails, Persist, storeVars

\* What a step does to the records.
LEMMA CommitRecords ==
    ASSUME AttemptTypes, NEW a \in Attempts, Commit(a)
    PROVE  /\ RecordIds' = RecordIds \cup {a}
           /\ ingestion_record'[a] =
                 [source_id |-> tx_source[a], operation |-> operation[a]]
           /\ \A b \in Attempts \ {a} : ingestion_record'[b] = ingestion_record[b]
<1>1. tx_source[a] \in Attempts /\ operation[a] \in Operations
  BY DEF Commit, AttemptTypes, PhaseInv, InTx, Connected
<1>2. ingestion_record \in [Attempts -> Records \cup {NoRow}]
  BY DEF AttemptTypes, TableTypes
<1>3. /\ ingestion_record'[a] = [source_id |-> tx_source[a], operation |-> operation[a]]
      /\ \A b \in Attempts \ {a} : ingestion_record'[b] = ingestion_record[b]
  BY <1>2 DEF Commit
<1>4. ingestion_record'[a] # NoRow
  BY <1>1, <1>3, RecordsAssumption DEF Records
<1> QED
  BY <1>3, <1>4 DEF RecordIds

\* How an attempt comes to be answered.
LEMMA ReplyMoves ==
    ASSUME AttemptTypes, NEW a \in Attempts, Receive(a) \/ AttemptStep(a) \/ DatabaseFails(a)
    PROVE  \/ UNCHANGED reply /\ (pc'[a] = "answered" => pc[a] = "answered")
           \/ /\ reply[a] = "none" /\ UNCHANGED <<operation, tableVars>>
              /\ \E r \in Replies : /\ reply' = [reply EXCEPT ![a] = r]
                                    /\ r \in {"success", "original_error"} =>
                                          pc[a] = "committed" /\ r = CommittedReply(a)
                                    /\ r = "http_502" => operation[a] = "none"
<1>1. CASE Acknowledge(a)
  BY <1>1 DEF Acknowledge, Answer, CommittedReply, Replies, AttemptTypes, PhaseInv,
              storeVars
<1>2. CASE DatabaseFails(a)
  BY <1>2 DEF DatabaseFails, Answer, Replies, AttemptTypes, PhaseInv, Connected
<1>3. CASE RaiseUnexpectedly(a)
  BY <1>3 DEF RaiseUnexpectedly, Answer, Replies, AttemptTypes, PhaseInv, storeVars
<1>4. CASE ~Acknowledge(a) /\ ~DatabaseFails(a) /\ ~RaiseUnexpectedly(a)
  BY <1>4 DEF AttemptStep, Receive, FetchSucceeds, FetchFails, ParseSucceeds, ParseFails,
              Begin, Upsert, InsertRecord, InsertDocument, Commit, Persist, Goto,
              AttemptTypes, IngestionTypeOK
<1> QED
  BY <1>1, <1>2, <1>3, <1>4

=============================================================================
