------------------------- MODULE BatchIngestionProofs -------------------------
(***************************************************************************)
(* For any number of batches, URLs and attempts and any limits: a batch    *)
(* never has more of its URLs at work than it asked for, its results are   *)
(* true, and all that batches do to the database is persistent ingestion,  *)
(* so what is proved of IngestionSystem holds beside batches too.          *)
(*                                                                         *)
(* What an attempt does to the tables is PersistentIngestionProofs'; here  *)
(* is what ties it to its task, and its task to its batch.                 *)
(***************************************************************************)
EXTENDS BatchIngestion, PersistentIngestionProofs, FiniteSetTheorems

Busy(a) == pc[a] \notin {"new", "answered", "lost"}

-----------------------------------------------------------------------------
(* The invariant.                                                            *)

\* What the database has of an attempt, and what it was answered.
LogInv ==
    \A a \in Attempts :
        /\ a \in RecordIds => /\ Over(a) /\ operation[a] \in Operations
                              /\ ingestion_record[a].operation = operation[a]
        /\ pc[a] = "committed" => a \in RecordIds
        /\ pc[a] = "answered" => reply[a] \in Replies
        /\ reply[a] \in {"success", "original_error"}
              => a \in RecordIds /\ reply[a] = CommittedReply(a)
        /\ reply[a] = "http_502" => operation[a] = "none"

\* Who belongs to a batch, and what the batch says of them.
MemberInv ==
    /\ \A b, c \in Batches : b # c => members[b] \cap members[c] = {}
    /\ \A b \in Batches : batch[b] \in {"new"} \cup Refusals => members[b] = {}
    /\ \A a \in Attempts : a \notin Claimed => task[a] = "none" /\ pc[a] = "new"

\* An attempt works only while its task runs, and a task that has ended has its answer.
TaskInv ==
    \A b \in Batches : \A a \in members[b] :
        /\ task[a] # "none"
        /\ task[a] = "waiting" => pc[a] = "new"
        /\ Busy(a) => task[a] = "running"
        /\ kind[b] = "preview" => pc[a] = "new"
        /\ task[a] = "returned" /\ kind[b] = "ingest"
              => pc[a] = "answered" /\ reply[a] # "http_500"
        /\ batch[b] = "results" => task[a] = "returned"

SlotInv == \A b \in Batches : Cardinality(Running(b)) <= concurrency[b]

BatchInv == BatchTypeOK /\ PhaseInv /\ LogInv /\ MemberInv /\ TaskInv /\ SlotInv

BatchTypes ==
    /\ batch \in [Batches -> BatchStates]
    /\ members \in [Batches -> SUBSET Attempts]
    /\ kind \in [Batches -> {"none", "ingest", "preview"}]
    /\ concurrency \in [Batches -> 0..MaxAllowedConcurrency]
    /\ task \in [Attempts -> TaskStates]

LEMMA Parts ==
    /\ BatchTypeOK <=> StoreTypeOK /\ IngestionTypeOK /\ BatchTypes
    /\ BatchTypeOK /\ PhaseInv => AttemptTypes
  BY StoreTypes DEF BatchTypeOK, BatchTypes, AttemptTypes

LEMMA RunningFinite ==
    ASSUME BatchTypes, NEW b \in Batches
    PROVE  /\ Running(b) \subseteq Attempts
           /\ IsFiniteSet(Running(b)) /\ Cardinality(Running(b)) \in Nat
           /\ concurrency[b] \in Nat
<1>1. Running(b) \subseteq Attempts
  BY DEF Running, BatchTypes
<1>2. concurrency[b] \in Nat
  BY BatchAssumption DEF BatchTypes, BatchAssumption
<1> QED
  BY <1>1, <1>2, FS_Subset, FS_CardinalityType, StoreAssumption DEF StoreAssumption

LEMMA InitHolds == Init => BatchInv
<1> SUFFICES ASSUME Init PROVE BatchInv
  OBVIOUS
<1> USE DEF Init
<1>1. BatchTypeOK /\ PhaseInv
  <2>1. BatchTypes
    BY BatchAssumption DEF BatchTypes, BatchStates, TaskStates, BatchAssumption
  <2> QED
    BY <2>1, Parts, IngestionInitTypes
<1>2. LogInv
  BY DEF LogInv, IngestionInit, StoreInit, RecordIds
<1>3. MemberInv /\ TaskInv
  BY DEF MemberInv, TaskInv, IngestionInit
<1>4. SlotInv
  <2> SUFFICES ASSUME NEW b \in Batches PROVE Cardinality(Running(b)) <= concurrency[b]
    BY DEF SlotInv
  <2>1. Running(b) = {} /\ concurrency[b] = 0
    BY DEF Running
  <2> QED
    BY <2>1, FS_EmptySet
<1> QED
  BY <1>1, <1>2, <1>3, <1>4 DEF BatchInv

-----------------------------------------------------------------------------
(* What an attempt's step does to the records and the answers.               *)

LEMMA AttemptLogs ==
    ASSUME AttemptTypes, LogInv, NEW a \in Attempts,
           Receive(a) \/ AttemptStep(a) \/ DatabaseFails(a)
    PROVE  LogInv'
<1>1. \A b \in Attempts : Over(b) => /\ Over(b)' /\ operation'[b] = operation[b]
  BY AttemptMoves DEF Over
<1>2. \A b \in RecordIds : /\ b \in Attempts /\ b \in RecordIds'
                           /\ ingestion_record'[b] = ingestion_record[b]
  <2>1. CASE Commit(a)
    <3>1. ~Over(a)
      BY <2>1 DEF Commit, Over
    <3>2. a \notin RecordIds
      BY <3>1 DEF LogInv
    <3> QED
      BY <2>1, <3>2, CommitRecords DEF RecordIds
  <2>2. CASE ~Commit(a)
    BY <2>2, QuietAttempt DEF RecordIds, tableVars
  <2> QED
    BY <2>1, <2>2
<1>3. \A b \in RecordIds' : b \in RecordIds \/ (b = a /\ Commit(a))
  <2>1. CASE Commit(a)
    BY <2>1, CommitRecords
  <2>2. CASE ~Commit(a)
    BY <2>2, QuietAttempt DEF RecordIds, tableVars
  <2> QED
    BY <2>1, <2>2
<1>4. Commit(a) => /\ a \in RecordIds' /\ Over(a)' /\ operation'[a] \in Operations
                   /\ ingestion_record'[a].operation = operation'[a]
  <2> SUFFICES ASSUME Commit(a)
               PROVE  /\ a \in RecordIds' /\ Over(a)' /\ operation'[a] \in Operations
                      /\ ingestion_record'[a].operation = operation'[a]
    OBVIOUS
  <2>1. operation[a] \in Operations /\ UNCHANGED operation /\ Over(a)'
    BY DEF Commit, Goto, Over, AttemptTypes, PhaseInv, Connected, IngestionTypeOK
  <2>2. /\ a \in RecordIds'
        /\ ingestion_record'[a] = [source_id |-> tx_source[a], operation |-> operation[a]]
    BY CommitRecords
  <2> QED
    BY <2>1, <2>2
<1>5. ASSUME NEW b \in Attempts, pc'[b] = "committed"
      PROVE  b \in RecordIds'
  <2>1. pc[b] = "committed" \/ (b = a /\ Commit(a))
    <3>1. CASE b # a
      BY <1>5, <3>1, AttemptMoves
    <3>2. CASE b = a
      BY <1>5, <3>2
         DEF AttemptStep, Receive, FetchSucceeds, FetchFails, ParseSucceeds, ParseFails,
             RaiseUnexpectedly, Begin, Upsert, InsertRecord, InsertDocument, Acknowledge,
             DatabaseFails, Persist, Goto, Answer, AttemptTypes, IngestionTypeOK
    <3> QED
      BY <3>1, <3>2
  <2> QED
    BY <1>2, <1>4, <2>1 DEF LogInv
<1>6. \A b \in Attempts : b \in RecordIds' => /\ Over(b)' /\ operation'[b] \in Operations
                                             /\ ingestion_record'[b].operation = operation'[b]
  BY <1>1, <1>2, <1>3, <1>4 DEF LogInv
<1>7. \A b \in Attempts : /\ reply[b] # "none" => Over(b)
                          /\ b # a => pc'[b] = pc[b] /\ reply'[b] = reply[b]
  BY AttemptMoves DEF AttemptTypes, PhaseInv, Over
<1>8. reply \in [Attempts -> Replies \cup {"none"}]
  BY DEF AttemptTypes, IngestionTypeOK
<1>9. CASE UNCHANGED reply /\ (pc'[a] = "answered" => pc[a] = "answered")
  BY <1>1, <1>2, <1>5, <1>6, <1>7, <1>8, <1>9 DEF LogInv, CommittedReply
<1>10. CASE /\ reply[a] = "none" /\ UNCHANGED <<operation, tableVars>>
            /\ \E r \in Replies : /\ reply' = [reply EXCEPT ![a] = r]
                                  /\ r \in {"success", "original_error"} =>
                                        pc[a] = "committed" /\ r = CommittedReply(a)
                                  /\ r = "http_502" => operation[a] = "none"
  <2>1. PICK r \in Replies : /\ reply' = [reply EXCEPT ![a] = r]
                             /\ r \in {"success", "original_error"} =>
                                   pc[a] = "committed" /\ r = CommittedReply(a)
                             /\ r = "http_502" => operation[a] = "none"
    BY <1>10
  <2>2. ASSUME NEW b \in Attempts
        PROVE  /\ pc'[b] = "answered" => reply'[b] \in Replies
               /\ reply'[b] \in {"success", "original_error"}
                     => b \in RecordIds' /\ reply'[b] = CommittedReply(b)'
               /\ reply'[b] = "http_502" => operation'[b] = "none"
    <3>1. CASE b = a
      BY <1>2, <1>8, <1>10, <2>1, <3>1 DEF LogInv, CommittedReply
    <3>2. CASE b # a
      BY <1>2, <1>7, <1>10, <3>2 DEF LogInv, CommittedReply
    <3> QED
      BY <3>1, <3>2
  <2> QED
    BY <1>5, <1>6, <2>2 DEF LogInv
<1> QED
  BY <1>9, <1>10, ReplyMoves

LEMMA CrashLogs ==
    ASSUME AttemptTypes, LogInv, Crash
    PROVE  LogInv'
<1>1. UNCHANGED <<operation, reply, ingestion_record, RecordIds>>
  BY DEF Crash, tableVars, RecordIds
<1>2. \A a \in Attempts : /\ Over(a) => Over(a)'
                          /\ pc'[a] \in {pc[a], "lost"}
  BY DEF Crash, Over, AttemptTypes, IngestionTypeOK
<1> QED
  BY <1>1, <1>2 DEF LogInv, CommittedReply

\* A step that leaves the ingestion alone leaves what is known of it.
LEMMA IngestionKept ==
    ASSUME UNCHANGED <<storeVars, ingestionVars>>
    PROVE  /\ StoreTypeOK /\ IngestionTypeOK => StoreTypeOK' /\ IngestionTypeOK'
           /\ PhaseInv => PhaseInv'
           /\ LogInv => LogInv'
           /\ UNCHANGED <<pc, reply>>
  BY DEF storeVars, tableVars, lockVars, ingestionVars, StoreTypeOK, IngestionTypeOK,
         PhaseInv, InTx, Connected, LogInv, RecordIds, Over, CommittedReply

-----------------------------------------------------------------------------
(* The parts of the invariant about batches, step by step.                   *)

BatchParts == BatchTypes /\ MemberInv /\ TaskInv /\ SlotInv

\* What the database or the parser does to an attempt that is at work.
LEMMA WorkKeeps ==
    ASSUME BatchInv, NEW a \in Attempts, AttemptStep(a) \/ DatabaseFails(a),
           UNCHANGED batchVars
    PROVE  BatchParts'
<1>1. BatchTypes /\ AttemptTypes
  BY Parts DEF BatchInv
<1>2. Busy(a)
  BY DEF Busy, AttemptStep, FetchSucceeds, FetchFails, ParseSucceeds, ParseFails,
         RaiseUnexpectedly, Begin, Upsert, InsertRecord, InsertDocument, Commit,
         Acknowledge, DatabaseFails, Connected
<1>3. \A b \in Attempts \ {a} : pc'[b] = pc[b] /\ reply'[b] = reply[b]
  BY <1>1, AttemptMoves
<1>4. UNCHANGED <<batch, members, kind, concurrency, task, Claimed>>
  BY DEF batchVars, Claimed
<1>5. a \in Claimed /\ \A b \in Batches : a \in members[b] => task[a] = "running"
  BY <1>2 DEF BatchInv, MemberInv, TaskInv, Busy
<1>6. MemberInv'
  BY <1>3, <1>4, <1>5 DEF BatchInv, MemberInv
<1>7. TaskInv'
  <2> SUFFICES ASSUME NEW b \in Batches, NEW c \in members[b]
               PROVE  /\ task[c] # "none"
                      /\ task[c] = "waiting" => pc'[c] = "new"
                      /\ Busy(c)' => task[c] = "running"
                      /\ kind[b] = "preview" => pc'[c] = "new"
                      /\ task[c] = "returned" /\ kind[b] = "ingest"
                            => pc'[c] = "answered" /\ reply'[c] # "http_500"
                      /\ batch[b] = "results" => task[c] = "returned"
    BY <1>4 DEF TaskInv
  <2>1. c \in Attempts
    BY <1>1 DEF BatchTypes
  <2>2. CASE c = a
    BY <1>2, <1>5, <2>2 DEF BatchInv, TaskInv, Busy
  <2>3. CASE c # a
    BY <1>3, <2>1, <2>3 DEF BatchInv, TaskInv, Busy
  <2> QED
    BY <2>2, <2>3
<1>8. BatchTypes' /\ SlotInv'
  BY <1>1, <1>4 DEF BatchTypes, BatchInv, SlotInv, Running
<1> QED
  BY <1>6, <1>7, <1>8 DEF BatchParts

\* A waiting task gets a slot of its batch's limiter.
LEMMA StartKeeps ==
    ASSUME BatchInv, NEW a \in Attempts, NEW k \in {"ingest", "preview"}, Start(a, k),
           \A b \in Attempts \ {a} : pc'[b] = pc[b] /\ reply'[b] = reply[b],
           k = "preview" => UNCHANGED <<pc, reply>>
    PROVE  BatchParts'
<1>1. BatchTypes
  BY Parts DEF BatchInv
<1>2. PICK d \in Batches : a \in members[d] /\ kind[d] = k /\ HasSlot(d)
  BY DEF Start
<1>3. /\ UNCHANGED <<batch, members, kind, concurrency, Claimed>>
      /\ task[a] = "waiting" /\ task' = [task EXCEPT ![a] = "running"]
  BY DEF Start, EndTask, Claimed
<1>4. \A b \in Batches : a \in members[b] => b = d
  BY <1>2 DEF BatchInv, MemberInv
<1>5. BatchTypes'
  BY <1>1, <1>3 DEF BatchTypes, TaskStates
<1>6. MemberInv'
  BY <1>2, <1>3, <1>1 DEF BatchInv, MemberInv, Claimed, BatchTypes
<1>7. TaskInv'
  <2> SUFFICES ASSUME NEW b \in Batches, NEW c \in members[b]
               PROVE  /\ task'[c] # "none"
                      /\ task'[c] = "waiting" => pc'[c] = "new"
                      /\ Busy(c)' => task'[c] = "running"
                      /\ kind[b] = "preview" => pc'[c] = "new"
                      /\ task'[c] = "returned" /\ kind[b] = "ingest"
                            => pc'[c] = "answered" /\ reply'[c] # "http_500"
                      /\ batch[b] = "results" => task'[c] = "returned"
    BY <1>3 DEF TaskInv
  <2>1. c \in Attempts
    BY <1>1 DEF BatchTypes
  <2>2. CASE c = a
    <3>1. task'[c] = "running" /\ batch[b] # "results"
      BY <1>1, <1>3, <2>1, <2>2 DEF BatchInv, TaskInv, BatchTypes
    <3>2. b = d /\ kind[b] = k
      BY <1>2, <1>4, <2>2
    <3>3. kind[b] = "preview" => pc'[c] = "new"
      BY <3>2 DEF BatchInv, TaskInv
    <3> QED
      BY <3>1, <3>3
  <2>3. CASE c # a
    BY <1>1, <1>3, <2>1, <2>3 DEF BatchInv, TaskInv, Busy, BatchTypes
  <2> QED
    BY <2>2, <2>3
<1>8. SlotInv'
  <2> SUFFICES ASSUME NEW b \in Batches PROVE Cardinality(Running(b)') <= concurrency[b]
    BY <1>3 DEF SlotInv
  <2>1. CASE b = d
    <3>1. Running(b)' = Running(b) \cup {a} /\ a \notin Running(b)
      BY <1>1, <1>2, <1>3, <2>1 DEF Running, BatchTypes
    <3>2. Cardinality(Running(b)) < concurrency[b]
      BY <1>2, <2>1 DEF HasSlot
    <3>3. /\ IsFiniteSet(Running(b))
          /\ Cardinality(Running(b)) \in Nat /\ concurrency[b] \in Nat
      BY <1>1, RunningFinite
    <3>4. Cardinality(Running(b)') = Cardinality(Running(b)) + 1
      BY <3>1, <3>3, FS_AddElement
    <3> QED
      BY <3>2, <3>3, <3>4
  <2>2. CASE b # d
    <3>1. Running(b)' = Running(b)
      BY <1>1, <1>3, <1>4, <2>2 DEF Running, BatchTypes
    <3> QED
      BY <3>1 DEF BatchInv, SlotInv
  <2> QED
    BY <2>1, <2>2
<1> QED
  BY <1>5, <1>6, <1>7, <1>8 DEF BatchParts

\* Fewer tasks at work need fewer slots.
LEMMA FewerRun ==
    ASSUME BatchTypes, SlotInv, UNCHANGED <<members, concurrency>>,
           \A a \in Attempts : task'[a] = "running" => task[a] = "running"
    PROVE  SlotInv'
<1> SUFFICES ASSUME NEW b \in Batches PROVE Cardinality(Running(b)') <= concurrency[b]
  BY DEF SlotInv
<1>1. Running(b)' \subseteq Running(b)
  BY DEF Running, BatchTypes
<1>2. /\ Cardinality(Running(b)') \in Nat
      /\ Cardinality(Running(b)') <= Cardinality(Running(b))
  BY <1>1, RunningFinite, FS_Subset, FS_CardinalityType
<1> QED
  BY <1>2, RunningFinite DEF SlotInv

\* A task ends, well or with an exception, and returns its slot.
LEMMA FinishKeeps ==
    ASSUME BatchInv, NEW a \in Attempts, FinishIngest(a) \/ FinishPreview(a)
    PROVE  BatchParts'
<1>1. BatchTypes
  BY Parts DEF BatchInv
<1>2. /\ UNCHANGED <<batch, members, kind, concurrency, Claimed, pc, reply>>
      /\ task[a] = "running"
  BY IngestionKept DEF FinishIngest, FinishPreview, Claimed
<1>3. PICK e \in {"returned", "raised"} :
        /\ task' = [task EXCEPT ![a] = e]
        /\ \/ pc[a] = "answered" /\ (e = "returned" => reply[a] # "http_500")
           \/ \E b \in Batches : a \in members[b] /\ kind[b] = "preview"
  BY DEF FinishIngest, FinishPreview, EndTask, TaskEnd
<1>4. a \in Claimed
  BY <1>2 DEF BatchInv, MemberInv
<1>5. BatchTypes' /\ MemberInv'
  BY <1>1, <1>2, <1>3, <1>4 DEF BatchTypes, TaskStates, BatchInv, MemberInv
<1>6. TaskInv'
  <2> SUFFICES ASSUME NEW b \in Batches, NEW c \in members[b]
               PROVE  /\ task'[c] # "none"
                      /\ task'[c] = "waiting" => pc[c] = "new"
                      /\ Busy(c) => task'[c] = "running"
                      /\ kind[b] = "preview" => pc[c] = "new"
                      /\ task'[c] = "returned" /\ kind[b] = "ingest"
                            => pc[c] = "answered" /\ reply[c] # "http_500"
                      /\ batch[b] = "results" => task'[c] = "returned"
    BY <1>2 DEF TaskInv, Busy
  <2>1. c \in Attempts
    BY <1>1 DEF BatchTypes
  <2>2. CASE c = a
    <3>1. task'[c] = e /\ batch[b] # "results"
      BY <1>1, <1>2, <1>3, <2>1, <2>2 DEF BatchInv, TaskInv, BatchTypes
    <3>2. CASE kind[b] = "preview"
      <4>1. pc[c] = "new"
        BY <3>2 DEF BatchInv, TaskInv
      <4> QED
        BY <3>1, <3>2, <4>1 DEF Busy
    <3>3. CASE kind[b] # "preview"
      <4>1. pc[a] = "answered" /\ (e = "returned" => reply[a] # "http_500")
        BY <1>3, <2>2, <3>3 DEF BatchInv, MemberInv
      <4> QED
        BY <2>2, <3>1, <3>3, <4>1 DEF Busy
    <3> QED
      BY <3>2, <3>3
  <2>3. CASE c # a
    BY <1>1, <1>3, <2>1, <2>3 DEF BatchInv, TaskInv, BatchTypes
  <2> QED
    BY <2>2, <2>3
<1>7. SlotInv'
  BY <1>1, <1>2, <1>3, FewerRun DEF BatchInv, BatchTypes
<1> QED
  BY <1>5, <1>6, <1>7 DEF BatchParts

\* A batch is accepted with URLs no other batch has claimed.
LEMMA AcceptKeeps ==
    ASSUME BatchInv, NEW b \in Batches, AcceptBatch(b)
    PROVE  BatchParts'
<1>1. BatchTypes /\ batch[b] = "new" /\ members[b] = {} /\ UNCHANGED <<pc, reply>>
  BY Parts, IngestionKept DEF BatchInv, MemberInv, AcceptBatch
<1>2. PICK S \in Requests, n \in 1..MaxAllowedConcurrency, k \in {"ingest", "preview"} :
        /\ members' = [members EXCEPT ![b] = S]
        /\ kind' = [kind EXCEPT ![b] = k]
        /\ concurrency' = [concurrency EXCEPT ![b] = n]
        /\ task' = [a \in Attempts |-> IF a \in S THEN "waiting" ELSE task[a]]
        /\ batch' = [batch EXCEPT ![b] = "gathering"]
  <2>1. PICK S \in Requests, n \in 1..MaxAllowedConcurrency + 1, k \in {"ingest", "preview"} :
          /\ WithinLimits(S, n)
          /\ members' = [members EXCEPT ![b] = S]
          /\ kind' = [kind EXCEPT ![b] = k]
          /\ concurrency' = [concurrency EXCEPT ![b] = n]
          /\ task' = [a \in Attempts |-> IF a \in S THEN "waiting" ELSE task[a]]
          /\ batch' = [batch EXCEPT ![b] = "gathering"]
    BY DEF AcceptBatch
  <2>2. n \in 1..MaxAllowedConcurrency
    BY <2>1, BatchAssumption DEF WithinLimits
  <2> QED
    BY <2>1, <2>2
<1>3. S \subseteq Attempts /\ \A c \in Batches : S \cap members[c] = {}
  BY DEF Requests, Claimed
<1>4. \A a \in S : task[a] = "none" /\ pc[a] = "new"
  BY <1>3 DEF BatchInv, MemberInv, Claimed
<1>5. BatchTypes'
  BY <1>1, <1>2, <1>3, BatchAssumption
     DEF BatchTypes, BatchStates, TaskStates, BatchAssumption
<1>6. /\ members'[b] = S /\ kind'[b] = k /\ concurrency'[b] = n /\ batch'[b] = "gathering"
      /\ \A c \in Batches \ {b} : /\ members'[c] = members[c] /\ kind'[c] = kind[c]
                                   /\ concurrency'[c] = concurrency[c]
                                   /\ batch'[c] = batch[c]
      /\ \A a \in Attempts : task'[a] = IF a \in S THEN "waiting" ELSE task[a]
  BY <1>1, <1>2 DEF BatchTypes
<1>7. MemberInv'
  <2>1. \A c, d \in Batches : c # d => members'[c] \cap members'[d] = {}
    BY <1>3, <1>6 DEF BatchInv, MemberInv
  <2>2. \A c \in Batches : batch'[c] \in {"new"} \cup Refusals => members'[c] = {}
    BY <1>6 DEF BatchInv, MemberInv, Refusals
  <2>3. \A a \in Attempts : a \in Claimed \/ a \in S => a \in Claimed'
    BY <1>1, <1>6 DEF Claimed
  <2>4. \A a \in Attempts : a \notin Claimed' => task'[a] = "none" /\ pc'[a] = "new"
    BY <1>1, <1>6, <2>3 DEF BatchInv, MemberInv
  <2> QED
    BY <2>1, <2>2, <2>4 DEF MemberInv
<1>8. TaskInv'
  <2> SUFFICES ASSUME NEW c \in Batches, NEW a \in members'[c]
               PROVE  /\ task'[a] # "none"
                      /\ task'[a] = "waiting" => pc[a] = "new"
                      /\ Busy(a) => task'[a] = "running"
                      /\ kind'[c] = "preview" => pc[a] = "new"
                      /\ task'[a] = "returned" /\ kind'[c] = "ingest"
                            => pc[a] = "answered" /\ reply[a] # "http_500"
                      /\ batch'[c] = "results" => task'[a] = "returned"
    BY <1>1 DEF TaskInv, Busy
  <2>1. a \in Attempts
    BY <1>5 DEF BatchTypes
  <2>2. CASE c = b
    BY <1>4, <1>6, <2>1, <2>2 DEF Busy
  <2>3. CASE c # b
    <3>1. a \in members[c] /\ a \notin S
      BY <1>3, <1>6, <2>3
    <3> QED
      BY <1>6, <2>1, <2>3, <3>1 DEF BatchInv, TaskInv
  <2> QED
    BY <2>2, <2>3
<1>9. SlotInv'
  <2> SUFFICES ASSUME NEW c \in Batches PROVE Cardinality(Running(c)') <= concurrency'[c]
    BY DEF SlotInv
  <2>1. CASE c = b
    <3>1. Running(c)' = {} /\ concurrency'[c] \in Nat
      BY <1>3, <1>6, <2>1, BatchAssumption DEF Running, BatchAssumption
    <3> QED
      BY <3>1, FS_EmptySet
  <2>2. CASE c # b
    <3>1. Running(c)' = Running(c)
      BY <1>1, <1>3, <1>6, <2>2 DEF Running, BatchTypes
    <3> QED
      BY <1>6, <2>2, <3>1 DEF BatchInv, SlotInv
  <2> QED
    BY <2>1, <2>2
<1> QED
  BY <1>5, <1>7, <1>8, <1>9 DEF BatchParts

\* A batch is refused or answered.
LEMMA AnswerKeeps ==
    ASSUME BatchInv, NEW b \in Batches, RefuseBatch(b) \/ Answer200Or500(b)
    PROVE  BatchParts'
<1>1. BatchTypes /\ UNCHANGED <<members, kind, concurrency, task, pc, reply, Claimed>>
  BY Parts, IngestionKept
     DEF BatchInv, RefuseBatch, Answer200Or500, AnswerResults, AnswerError, Claimed
<1>2. PICK r \in {"results", "http_500"} \cup Refusals :
        /\ batch' = [batch EXCEPT ![b] = r]
        /\ r \in Refusals => members[b] = {}
        /\ r = "results" => AllReturned(b)
  BY DEF RefuseBatch, Answer200Or500, AnswerResults, AnswerError, BatchInv, MemberInv,
         Refusals
<1>3. batch'[b] = r /\ \A c \in Batches \ {b} : batch'[c] = batch[c]
  BY <1>1, <1>2 DEF BatchTypes
<1>4. BatchTypes'
  BY <1>1, <1>2 DEF BatchTypes, BatchStates
<1>5. MemberInv'
  BY <1>1, <1>2, <1>3 DEF BatchInv, MemberInv, Refusals
<1>6. TaskInv'
  BY <1>1, <1>2, <1>3 DEF BatchInv, TaskInv, Busy, AllReturned, Refusals
<1>7. SlotInv'
  BY <1>1 DEF BatchInv, SlotInv, Running
<1> QED
  BY <1>4, <1>5, <1>6, <1>7 DEF BatchParts

\* The server dies: every task that had not ended is lost, and so is its attempt.
LEMMA ServerCrashKeeps ==
    ASSUME BatchInv, ServerCrash
    PROVE  BatchParts'
<1>1. BatchTypes /\ AttemptTypes
  BY Parts DEF BatchInv
<1>2. /\ UNCHANGED <<members, kind, concurrency, reply, Claimed>>
      /\ batch' = [b \in Batches |-> IF batch[b] = "gathering" THEN "lost" ELSE batch[b]]
      /\ task' = [a \in Attempts |-> IF Ongoing(a) THEN "lost" ELSE task[a]]
  BY IngestionKept DEF ServerCrash, Crash, Claimed
<1>3. \A a \in Attempts : pc'[a] = IF Busy(a) THEN "lost" ELSE pc[a]
  <2>1. CASE Crash
    BY <1>1, <2>1 DEF Crash, Busy
  <2>2. CASE /\ \A a \in Attempts : pc[a] \in {"new", "answered", "lost"}
             /\ UNCHANGED <<storeVars, ingestionVars>>
    BY <2>2, IngestionKept DEF Busy
  <2> QED
    BY <2>1, <2>2 DEF ServerCrash
<1>4. BatchTypes'
  BY <1>1, <1>2 DEF BatchTypes, BatchStates, TaskStates
<1>5. MemberInv'
  BY <1>1, <1>2, <1>3 DEF BatchInv, MemberInv, Refusals, Ongoing, Busy, BatchTypes
<1>6. TaskInv'
  <2> SUFFICES ASSUME NEW b \in Batches, NEW a \in members[b]
               PROVE  /\ task'[a] # "none"
                      /\ task'[a] = "waiting" => pc'[a] = "new"
                      /\ Busy(a)' => task'[a] = "running"
                      /\ kind[b] = "preview" => pc'[a] = "new"
                      /\ task'[a] = "returned" /\ kind[b] = "ingest"
                            => pc'[a] = "answered" /\ reply[a] # "http_500"
                      /\ batch'[b] = "results" => task'[a] = "returned"
    BY <1>2 DEF TaskInv
  <2>1. a \in Attempts
    BY <1>1 DEF BatchTypes
  <2>2. batch'[b] = "results" => batch[b] = "results"
    BY <1>2
  <2>3. ~Busy(a)'
    BY <1>3, <2>1 DEF Busy
  <2> QED
    BY <1>2, <1>3, <2>1, <2>2, <2>3 DEF BatchInv, TaskInv, Busy, Ongoing
<1>7. SlotInv'
  <2>1. \A a \in Attempts : task'[a] = "running" => task[a] = "running"
    BY <1>2 DEF Ongoing
  <2> QED
    BY <1>1, <1>2, <2>1, FewerRun DEF BatchInv
<1> QED
  BY <1>4, <1>5, <1>6, <1>7 DEF BatchParts

-----------------------------------------------------------------------------
(* The invariant is inductive.                                               *)

LEMMA NextKeeps == BatchInv /\ [Next]_vars => BatchInv'
<1> SUFFICES ASSUME BatchInv, [Next]_vars PROVE BatchInv'
  OBVIOUS
<1> USE DEF BatchInv
<1>1. StoreTypeOK /\ IngestionTypeOK /\ BatchTypes /\ AttemptTypes
  BY Parts
<1>2. AttemptTypes' /\ LogInv' /\ BatchParts' => BatchInv'
  BY Parts, StoreTypes, PTL DEF AttemptTypes, BatchParts
<1>3. UNCHANGED <<storeVars, ingestionVars>> => AttemptTypes' /\ LogInv'
  BY <1>1, IngestionKept, StoreTypes, PTL DEF AttemptTypes
<1>4. ASSUME NEW a \in Attempts, Receive(a) \/ AttemptStep(a) \/ DatabaseFails(a)
      PROVE  AttemptTypes' /\ LogInv'
  BY <1>1, <1>4, QuietTypes, TransactionTypes, AttemptLogs DEF AttemptStep
<1>5. CASE \E b \in Batches : RefuseBatch(b) \/ AcceptBatch(b) \/ Answer200Or500(b)
  <2>1. PICK b \in Batches : RefuseBatch(b) \/ AcceptBatch(b) \/ Answer200Or500(b)
    BY <1>5
  <2>2. UNCHANGED <<storeVars, ingestionVars>>
    BY <2>1 DEF RefuseBatch, AcceptBatch, Answer200Or500, AnswerResults, AnswerError
  <2> QED
    BY <1>2, <1>3, <2>1, <2>2, AcceptKeeps, AnswerKeeps
<1>6. CASE \E a \in Attempts : TaskStep(a) \/ (DatabaseFails(a) /\ UNCHANGED batchVars)
  <2>1. PICK a \in Attempts : TaskStep(a) \/ (DatabaseFails(a) /\ UNCHANGED batchVars)
    BY <1>6
  <2>2. CASE StartIngest(a)
    <3>1. Start(a, "ingest") /\ Receive(a)
      BY <2>2 DEF StartIngest
    <3>2. \A b \in Attempts \ {a} : pc'[b] = pc[b] /\ reply'[b] = reply[b]
      BY <1>1, <3>1, AttemptMoves
    <3> QED
      BY <1>2, <1>4, <3>1, <3>2, StartKeeps
  <2>3. CASE StartPreview(a)
    <3>1. Start(a, "preview") /\ UNCHANGED <<storeVars, ingestionVars, pc, reply>>
      BY <2>3, IngestionKept DEF StartPreview
    <3> QED
      BY <1>2, <1>3, <3>1, StartKeeps
  <2>4. CASE FinishIngest(a) \/ FinishPreview(a)
    <3>1. UNCHANGED <<storeVars, ingestionVars>>
      BY <2>4 DEF FinishIngest, FinishPreview
    <3> QED
      BY <1>2, <1>3, <2>4, <3>1, FinishKeeps
  <2>5. CASE (AttemptStep(a) \/ DatabaseFails(a)) /\ UNCHANGED batchVars
    BY <1>2, <1>4, <2>5, WorkKeeps
  <2> QED
    BY <2>1, <2>2, <2>3, <2>4, <2>5 DEF TaskStep
<1>7. CASE ServerCrash
  <2>1. CASE Crash
    BY <1>1, <1>2, <1>7, <2>1, CrashTypes, CrashLogs, ServerCrashKeeps
  <2>2. CASE UNCHANGED <<storeVars, ingestionVars>>
    BY <1>2, <1>3, <1>7, <2>2, ServerCrashKeeps
  <2> QED
    BY <1>7, <2>1, <2>2 DEF ServerCrash
<1>8. CASE UNCHANGED vars
  <2>1. UNCHANGED <<storeVars, ingestionVars, batchVars, pc, reply>>
    BY <1>8, IngestionKept DEF vars
  <2>2. UNCHANGED <<batch, members, kind, concurrency, task>>
    BY <2>1 DEF batchVars
  <2>3. BatchParts'
    BY <1>1, <2>1, <2>2
       DEF BatchParts, BatchTypes, MemberInv, TaskInv, SlotInv, Running, Claimed, Busy
  <2> QED
    BY <1>2, <1>3, <2>1, <2>3
<1> QED
  BY <1>5, <1>6, <1>7, <1>8 DEF Next, Quiescent

THEOREM BatchInvariant == Spec => []BatchInv
  BY InitHolds, NextKeeps, PTL DEF Spec

-----------------------------------------------------------------------------
(* What the runs check.                                                      *)

\* The type invariant: batches, tasks, attempts and tables take only the values the
\* routes, the limiter and the database can give them.
THEOREM BatchTypeCorrect == Spec => []BatchTypeOK
<1>1. BatchInv => BatchTypeOK
  BY DEF BatchInv
<1> QED
  BY <1>1, BatchInvariant, PTL

\* The limiter of core/limits.py: whatever fails, is answered early or is lost, no
\* batch has more of its URLs between their start and their end than it asked for.
THEOREM BatchBoundKept == Spec => []BatchConcurrencyBound
<1>1. BatchInv => BatchConcurrencyBound
  <2> SUFFICES ASSUME BatchInv, NEW b \in Batches
               PROVE  Cardinality({a \in members[b] :
                                     \/ task[a] = "running"
                                     \/ pc[a] \notin {"new", "answered", "lost"}})
                         <= concurrency[b]
    BY DEF BatchConcurrencyBound
  <2>1. {a \in members[b] : task[a] = "running" \/ pc[a] \notin {"new", "answered", "lost"}}
           = Running(b)
    BY DEF BatchInv, TaskInv, Busy, Running
  <2> QED
    BY <2>1 DEF BatchInv, SlotInv
<1> QED
  BY <1>1, BatchInvariant, PTL

\* asyncio.gather over the tasks: a batch answered with results has ended every
\* attempt, and each result that claims a record has it committed.
THEOREM BatchResultsTrue == Spec => []BatchResultsTruthful
<1>1. BatchInv => BatchResultsTruthful
  <2> SUFFICES ASSUME BatchInv, NEW b \in Batches, batch[b] = "results",
                      NEW a \in members[b]
               PROVE  /\ task[a] = "returned"
                      /\ kind[b] = "ingest" =>
                            /\ reply[a] \in Replies \ {"http_500"}
                            /\ reply[a] = "success" =>
                                  /\ a \in RecordIds
                                  /\ ingestion_record[a].operation \in SuccessOperations
                            /\ reply[a] = "original_error" =>
                                  /\ a \in RecordIds
                                  /\ ingestion_record[a].operation \in AuditOperations
                            /\ reply[a] = "http_502" => a \notin RecordIds
    BY DEF BatchResultsTruthful
  <2>1. task[a] = "returned" /\ a \in Attempts
    BY Parts DEF BatchInv, TaskInv, BatchTypes
  <2>2. kind[b] = "ingest" => pc[a] = "answered" /\ reply[a] \in Replies \ {"http_500"}
    BY <2>1 DEF BatchInv, TaskInv, LogInv
  <2>3. a \in RecordIds => /\ operation[a] \in Operations
                           /\ ingestion_record[a].operation = operation[a]
    BY <2>1 DEF BatchInv, LogInv
  <2>4. reply[a] \in {"success", "original_error"} =>
           a \in RecordIds /\ reply[a] = CommittedReply(a)
    BY <2>1 DEF BatchInv, LogInv
  <2>5. reply[a] = "http_502" => a \notin RecordIds
    BY <2>1, <2>3
       DEF BatchInv, LogInv, Operations, SuccessOperations, AuditOperations
  <2> QED
    BY <2>1, <2>2, <2>3, <2>4, <2>5 DEF CommittedReply, Operations
<1> QED
  BY <1>1, BatchInvariant, PTL

-----------------------------------------------------------------------------
(* What batches do to the database is persistent ingestion, beside commands  *)
(* that never start.                                                         *)

System == INSTANCE IngestionSystemProofs WITH
    admin_pc <- [d \in Admins |-> "ready"],
    target <- [d \in Admins |-> NoRow],
    purge_counts <- [d \in Admins |->
                        [sources |-> 0, ingestion_records |-> 0, parsed_documents |-> 0]],
    result <- [d \in Admins |-> "none"],
    removed <- {}

LEMMA SameCounts ==
    \A S : (IsFiniteSet(S) <=> System!IsFiniteSet(S)) /\ Cardinality(S) = System!Cardinality(S)
<1>1. \A S : IsFiniteSet(S) <=> System!IsFiniteSet(S)
  BY DEF IsFiniteSet, System!IsFiniteSet
<1>2. \A S : Cardinality(S) = System!Cardinality(S)
  BY DEF Cardinality, System!Cardinality
<1> QED
  BY <1>1, <1>2

\* What the proofs about the system assume is assumed here.
LEMMA SameAssumptions ==
    System!StoreAssumption /\ System!RecordsAssumption /\ System!IngestionAssumption
<1>1. Actors = System!Actors /\ Records = System!Records
  BY DEF Actors, System!Actors, Records, System!Records, Operations, System!Operations,
         SuccessOperations, System!SuccessOperations, AuditOperations, System!AuditOperations
<1> QED
  BY <1>1, SameCounts, StoreAssumption, RecordsAssumption, IngestionAssumption
     DEF System!StoreAssumption, System!RecordsAssumption, System!IngestionAssumption

LEMMA SameStore ==
    /\ Tables = System!Tables /\ RecordIds = System!RecordIds
    /\ Connected = System!Connected
    /\ \A x, ts : Share(x, ts) <=> System!Share(x, ts)
    /\ \A x, k : LockRow(x, k) <=> System!LockRow(x, k)
    /\ \A x : ReleaseLocks(x) <=> System!ReleaseLocks(x)
    /\ \A x, t : CanShare(x, t) <=> System!CanShare(x, t)
    /\ UNCHANGED storeVars <=> UNCHANGED System!storeVars
    /\ UNCHANGED tableVars <=> UNCHANGED System!tableVars
  BY DEF Tables, System!Tables, RecordIds, System!RecordIds, Connected, System!Connected,
         Share, System!Share, LockRow, System!LockRow, ReleaseLocks, System!ReleaseLocks,
         CanShare, System!CanShare, storeVars, System!storeVars, tableVars,
         System!tableVars, lockVars, System!lockVars

LEMMA SamePlaces ==
    ASSUME NEW a
    PROVE  /\ \A state : Goto(a, state) <=> System!Goto(a, state)
           /\ \A r : Answer(a, r) <=> System!Answer(a, r)
           /\ \A op : Persist(a, op) <=> System!Persist(a, op)
  BY SameStore DEF Goto, System!Goto, Answer, System!Answer, Persist, System!Persist

LEMMA SameAttempt ==
    ASSUME NEW a \in Attempts, Receive(a) \/ AttemptStep(a) \/ DatabaseFails(a)
    PROVE  System!Ingestion
<1>1. System!Receive(a) \/ System!AttemptStep(a) \/ System!DatabaseFails(a)
  <2>1. Receive(a) => System!Receive(a)
    BY SameStore, SamePlaces DEF Receive, System!Receive
  <2>2. FetchSucceeds(a) \/ FetchFails(a)
          => System!FetchSucceeds(a) \/ System!FetchFails(a)
    BY SameStore, SamePlaces
       DEF FetchSucceeds, System!FetchSucceeds, FetchFails, System!FetchFails
  <2>3. ParseSucceeds(a) \/ ParseFails(a)
          => System!ParseSucceeds(a) \/ System!ParseFails(a)
    BY SamePlaces DEF ParseSucceeds, System!ParseSucceeds, ParseFails, System!ParseFails
  <2>4. RaiseUnexpectedly(a) => System!RaiseUnexpectedly(a)
    BY SameStore, SamePlaces DEF RaiseUnexpectedly, System!RaiseUnexpectedly
  <2>5. Begin(a) => System!Begin(a)
    <3>1. Cardinality(Connected) = System!Cardinality(System!Connected)
      BY SameStore, SameCounts
    <3>2. Goto(a, "upsert") <=> System!Goto(a, "upsert")
      BY SamePlaces
    <3>3. UNCHANGED storeVars <=> UNCHANGED System!storeVars
      BY SameStore
    <3> QED
      BY <3>1, <3>2, <3>3 DEF Begin, System!Begin
  <2>6. Upsert(a) => System!Upsert(a)
    BY SameStore, SamePlaces
       DEF Upsert, System!Upsert, UpsertMayRun, System!UpsertMayRun, RowFree, System!RowFree,
           Resolved, System!Resolved, Existing, System!Existing
  <2>7. InsertRecord(a) => System!InsertRecord(a)
    BY SameStore, SamePlaces DEF InsertRecord, System!InsertRecord
  <2>8. InsertDocument(a) => System!InsertDocument(a)
    BY SameStore, SamePlaces DEF InsertDocument, System!InsertDocument
  <2>9. Commit(a) => System!Commit(a)
    BY SameStore, SamePlaces DEF Commit, System!Commit, DocumentsWith, System!DocumentsWith
  <2>10. Acknowledge(a) => System!Acknowledge(a)
    BY SameStore, SamePlaces
       DEF Acknowledge, System!Acknowledge, CommittedReply, System!CommittedReply,
           SuccessOperations, System!SuccessOperations
  <2>11. DatabaseFails(a) => System!DatabaseFails(a)
    BY SameStore, SamePlaces DEF DatabaseFails, System!DatabaseFails
  <2> QED
    BY <2>1, <2>2, <2>3, <2>4, <2>5, <2>6, <2>7, <2>8, <2>9, <2>10, <2>11
       DEF AttemptStep, System!AttemptStep
<1> QED
  BY <1>1 DEF System!Ingestion, System!IngestionNext, System!adminVars

LEMMA SameCrash == Crash => System!Ingestion
<1>1. Crash => System!Crash
  BY SameStore DEF Crash, System!Crash
<1> QED
  BY <1>1 DEF System!Ingestion, System!IngestionNext, System!adminVars

\* Every run of batches, with their refusals, limiters, exceptions and crashes, is a run of
\* persistent ingestion as the database sees it.
THEOREM BatchesIngest == Spec => System!Spec
<1>1. Init => System!Init
  BY SameStore
     DEF Init, System!Init, StoreInit, System!StoreInit, IngestionInit, System!IngestionInit,
         System!AdminInit, System!NoCounts
<1>2. [Next]_vars => [System!Next]_System!vars
  <2> SUFFICES ASSUME [Next]_vars PROVE [System!Next]_System!vars
    OBVIOUS
  <2>1. CASE UNCHANGED <<storeVars, ingestionVars>>
    BY <2>1, SameStore DEF System!vars, ingestionVars, System!ingestionVars, System!adminVars
  <2>2. CASE \E a \in Attempts : Receive(a) \/ AttemptStep(a) \/ DatabaseFails(a)
    BY <2>2, SameAttempt DEF System!Next
  <2>3. CASE Crash
    BY <2>3, SameCrash DEF System!Next
  <2> QED
    BY <2>1, <2>2, <2>3
       DEF Next, vars, RefuseBatch, AcceptBatch, Answer200Or500, AnswerResults, AnswerError,
           TaskStep, StartIngest, StartPreview, FinishIngest, FinishPreview, ServerCrash,
           Quiescent
<1> QED
  BY <1>1, <1>2, PTL DEF Spec, System!Spec

\* However many batches run side by side, they leave the tables as ReferentialIntegrity,
\* OneSourcePerUrl and DocumentsMatchRecords say.
THEOREM BatchesKeepTables ==
    Spec => [](ReferentialIntegrity /\ OneSourcePerUrl /\ DocumentsMatchRecords)
<1>1. System!ReferentialIntegrity => ReferentialIntegrity
  BY SameStore DEF ReferentialIntegrity, System!ReferentialIntegrity
<1>2. System!OneSourcePerUrl => OneSourcePerUrl
  BY DEF OneSourcePerUrl, System!OneSourcePerUrl
<1>3. System!DocumentsMatchRecords => DocumentsMatchRecords
  BY SameStore DEF DocumentsMatchRecords, System!DocumentsMatchRecords
<1>4. System!Spec => []System!ReferentialIntegrity
  BY System!ReferentialIntegrityKept, SameAssumptions
<1>5. System!Spec => []System!OneSourcePerUrl
  BY System!OneSourceKept, SameAssumptions
<1>6. System!Spec => []System!DocumentsMatchRecords
  BY System!DocumentsCorrect, SameAssumptions
<1> QED
  BY <1>1, <1>2, <1>3, <1>4, <1>5, <1>6, BatchesIngest, PTL

\* Tasks of batches never wait for each other's rows in a circle, and behave together as
\* the audit log.
THEOREM BatchesAudit == Spec => []System!NoCircularWait /\ System!ImplementsAuditLog
<1>1. System!Spec => []System!NoCircularWait
  BY System!NoCircle, SameAssumptions
<1>2. System!Spec => System!ImplementsAuditLog
  BY System!AuditLogImplemented, SameAssumptions
<1> QED
  BY <1>1, <1>2, BatchesIngest, PTL

=============================================================================
