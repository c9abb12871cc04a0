-------------------------- MODULE ParserPoolProofs --------------------------
(***************************************************************************)
(* For any number of calls and threads: the pool's variables keep their    *)
(* ranges, a call that waits for a thread has exactly one job, and no      *)
(* answer changes.                                                         *)
(***************************************************************************)
EXTENDS ParserPool, FiniteSetTheorems, SequenceTheorems, TLAPS

-----------------------------------------------------------------------------
(* What the steps do to a queue whose elements are distinct.                 *)

In(c, q) == \E i \in 1..Len(q) : q[i] = c

Distinct(q) == \A i, j \in 1..Len(q) : q[i] = q[j] => i = j

LEMMA AppendToQueue ==
    ASSUME NEW q \in Seq(Calls), NEW c \in Calls, Distinct(q), ~In(c, q)
    PROVE  /\ Append(q, c) \in Seq(Calls) /\ Distinct(Append(q, c))
           /\ \A d : In(d, Append(q, c)) <=> In(d, q) \/ d = c
<1> DEFINE r == Append(q, c)
<1>1. /\ r \in Seq(Calls) /\ Len(q) \in Nat /\ Len(r) = Len(q) + 1
      /\ \A i \in 1..Len(q) : r[i] = q[i]
      /\ r[Len(q) + 1] = c
  BY AppendProperties
<1> HIDE DEF r
<1>2. \A i \in 1..Len(r) : i \in 1..Len(q) \/ i = Len(q) + 1
  BY <1>1
<1>3. Distinct(r)
  BY <1>1, <1>2 DEF Distinct, In
<1>4. \A d : In(d, r) <=> In(d, q) \/ d = c
  BY <1>1, <1>2 DEF In
<1> QED BY <1>1, <1>3, <1>4 DEF r

LEMMA TailOfQueue ==
    ASSUME NEW q \in Seq(Calls), q # <<>>, Distinct(q)
    PROVE  /\ Head(q) \in Calls /\ In(Head(q), q)
           /\ Tail(q) \in Seq(Calls) /\ Distinct(Tail(q))
           /\ \A d : In(d, Tail(q)) <=> In(d, q) /\ d # Head(q)
<1> DEFINE r == Tail(q)
<1>1. /\ Head(q) \in Calls /\ r \in Seq(Calls)
      /\ Len(q) \in Nat /\ Len(q) >= 1 /\ Len(r) = Len(q) - 1
      /\ \A i \in 1..Len(r) : r[i] = q[i + 1]
      /\ q[1] = Head(q)
  BY HeadTailProperties
<1> HIDE DEF r
<1>2. \A i \in 1..Len(r) : i + 1 \in 1..Len(q) /\ i + 1 # 1
  BY <1>1
<1>3. \A i \in 1..Len(q) : i # 1 => i - 1 \in 1..Len(r) /\ r[i - 1] = q[i]
  BY <1>1
<1>4. In(Head(q), q)
  BY <1>1 DEF In
<1>5. Distinct(r)
  <2> SUFFICES ASSUME NEW i \in 1..Len(r), NEW j \in 1..Len(r), r[i] = r[j] PROVE i = j
    BY DEF Distinct
  <2>1. q[i + 1] = q[j + 1]
    BY <1>1
  <2>2. i + 1 = j + 1
    BY <1>2, <2>1 DEF Distinct
  <2> QED BY <1>1, <2>2
<1>6. ASSUME NEW d PROVE In(d, r) <=> In(d, q) /\ d # Head(q)
  <2>1. ASSUME In(d, r) PROVE In(d, q) /\ d # Head(q)
    <3>1. PICK i \in 1..Len(r) : r[i] = d
      BY <2>1 DEF In
    <3>2. q[i + 1] = d /\ i + 1 \in 1..Len(q) /\ i + 1 # 1 /\ 1 \in 1..Len(q)
      BY <1>1, <1>2, <3>1
    <3> QED BY <1>1, <3>2 DEF In, Distinct
  <2>2. ASSUME In(d, q), d # Head(q) PROVE In(d, r)
    <3>1. PICK i \in 1..Len(q) : q[i] = d
      BY <2>2 DEF In
    <3>2. i # 1
      BY <1>1, <2>2, <3>1
    <3> QED BY <1>3, <3>1, <3>2 DEF In
  <2> QED BY <2>1, <2>2
<1> QED BY <1>1, <1>4, <1>5, <1>6 DEF r

LEMMA LeaveQueue ==
    ASSUME NEW q \in Seq(Calls), NEW c, Distinct(q)
    PROVE  /\ RemoveFirst(q, c) \in Seq(Calls) /\ Distinct(RemoveFirst(q, c))
           /\ \A d : In(d, RemoveFirst(q, c)) <=> In(d, q) /\ d # c
<1>1. CASE ~In(c, q)
  <2>1. RemoveFirst(q, c) = q
    BY <1>1 DEF RemoveFirst, In
  <2> QED BY <1>1, <2>1 DEF In
<1>2. CASE In(c, q)
  <2> DEFINE Places == {i \in 1..Len(q) : q[i] = c}
             k == CHOOSE i \in Places : \A j \in Places : i <= j
  <2>1. PICK p \in 1..Len(q) : q[p] = c
    BY <1>2 DEF In
  <2>2. Places = {p}
    BY <2>1 DEF Distinct
  <2>3. k = p
    <3> HIDE DEF Places
    <3> QED BY <2>1, <2>2
  <2>4. RemoveFirst(q, c) = RemoveAt(q, p)
    <3>1. SelectInSeq(q, LAMBDA v : v = c) = k
      BY <2>1 DEF SelectInSeq, Min
    <3> QED BY <1>2, <2>3, <3>1 DEF RemoveFirst, In
  <2> DEFINE r == RemoveAt(q, p)
  <2>5. /\ Len(q) \in Nat /\ r \in Seq(Calls) /\ Len(r) = Len(q) - 1
        /\ \A i \in 1..Len(r) : r[i] = IF i < p THEN q[i] ELSE q[i + 1]
    <3> DEFINE front == SubSeq(q, 1, p - 1)
               back == SubSeq(q, p + 1, Len(q))
    <3>1. /\ Len(q) \in Nat
          /\ front \in Seq(Calls) /\ Len(front) = p - 1
          /\ \A i \in 1..(p - 1) : front[i] = q[i]
      BY <2>1
    <3>2. /\ back \in Seq(Calls) /\ Len(back) = Len(q) - p
          /\ \A i \in 1..(Len(q) - p) : back[i] = q[p + i]
      BY <2>1
    <3>3. r = front \o back
      BY DEF RemoveAt
    <3> HIDE DEF front, back, r
    <3>4. /\ r \in Seq(Calls) /\ Len(r) = Len(front) + Len(back)
          /\ \A i \in 1..(Len(front) + Len(back)) :
                r[i] = IF i <= Len(front) THEN front[i] ELSE back[i - Len(front)]
      BY <3>1, <3>2, <3>3, ConcatProperties
    <3>5. Len(r) = Len(q) - 1
      BY <2>1, <3>1, <3>2, <3>4
    <3>6. ASSUME NEW i \in 1..Len(r) PROVE r[i] = IF i < p THEN q[i] ELSE q[i + 1]
      <4>1. r[i] = IF i <= p - 1 THEN front[i] ELSE back[i - (p - 1)]
        BY <2>1, <3>1, <3>2, <3>4
      <4>2. CASE i < p
        BY <2>1, <3>1, <4>1, <4>2
      <4>3. CASE i >= p
        <5>1. i - (p - 1) \in 1..(Len(q) - p) /\ p + (i - (p - 1)) = i + 1
          BY <2>1, <3>1, <3>5, <4>3
        <5> QED BY <2>1, <3>2, <4>1, <4>3, <5>1
      <4> QED BY <2>1, <4>2, <4>3
    <3> QED BY <3>1, <3>4, <3>5, <3>6
  <2> HIDE DEF r
  <2> DEFINE old(i) == IF i < p THEN i ELSE i + 1
  <2>6. \A i \in 1..Len(r) : /\ old(i) \in 1..Len(q) /\ old(i) # p /\ r[i] = q[old(i)]
                             /\ \A j \in 1..Len(r) : old(i) = old(j) => i = j
    BY <2>5
  <2>7. \A j \in 1..Len(q) : j # p => \E i \in 1..Len(r) : old(i) = j
    <3> TAKE j \in 1..Len(q)
    <3>1. CASE j < p
      BY <2>1, <2>5, <3>1
    <3>2. CASE j > p
      <4>1. j - 1 \in 1..Len(r) /\ old(j - 1) = j
        BY <2>1, <2>5, <3>2
      <4> QED BY <4>1
    <3> QED BY <3>1, <3>2
  <2> HIDE DEF old
  <2>8. Distinct(r)
    BY <2>6 DEF Distinct
  <2>9. ASSUME NEW d PROVE In(d, r) <=> In(d, q) /\ d # c
    <3>1. ASSUME In(d, r) PROVE In(d, q) /\ d # c
      BY <2>1, <2>6, <3>1 DEF In, Distinct
    <3>2. ASSUME In(d, q), d # c PROVE In(d, r)
      <4>1. PICK j \in 1..Len(q) : q[j] = d
        BY <3>2 DEF In
      <4>2. PICK i \in 1..Len(r) : old(i) = j
        BY <2>1, <2>7, <3>2, <4>1
      <4> QED BY <2>6, <4>1, <4>2 DEF In
    <3> QED BY <3>1, <3>2
  <2> QED BY <2>4, <2>5, <2>8, <2>9 DEF r
<1> QED BY <1>1, <1>2

-----------------------------------------------------------------------------
(* The invariant.                                                            *)

Running(c) == \E t \in Threads : thread[t] = c

\* Each call has the jobs that its stage says, in one place.
JobInv ==
    /\ Distinct(queue)
    /\ \A t, u \in Threads : thread[t] = thread[u] /\ thread[t] # Idle => t = u
    /\ \A c \in Calls :
         /\ AwaitsThread(c) => In(c, queue) \/ Running(c) \/ c \in ready
         /\ ~(In(c, queue) /\ Running(c))
         /\ ~(In(c, queue) /\ c \in ready) /\ ~(Running(c) /\ c \in ready)
         /\ In(c, queue) \/ c \in ready => AwaitsThread(c)
         /\ Running(c) => stage[c] \in {"resolving", "parsing", "ended"}

EndInv == \A c \in Calls : outcome[c] # "none" => stage[c] = "ended"

PoolInv == TypeOK /\ JobInv /\ EndInv

LEMMA InitHolds == Init => PoolInv
<1> SUFFICES ASSUME Init PROVE PoolInv
  OBVIOUS
<1> USE PoolAssumption DEF Init
<1>1. TypeOK
  BY DEF TypeOK, Stages, Outcomes, PoolAssumption
<1>2. JobInv
  BY DEF JobInv, Distinct, In, Running, AwaitsThread, PoolAssumption
<1>3. EndInv
  BY DEF EndInv
<1> QED BY <1>1, <1>2, <1>3 DEF PoolInv

\* A call submits a job when it has none.
LEMMA SubmitKeeps ==
    ASSUME PoolInv, NEW c \in Calls, NEW s \in {"resolving", "parsing"},
           stage[c] \in {"new", "requesting"}, Submit(c, s),
           UNCHANGED <<thread, ready, outcome>>, targets' \in [Calls -> 0..MaxTargets]
    PROVE  PoolInv'
<1> USE DEF PoolInv, Submit
<1>1. queue \in Seq(Calls) /\ Distinct(queue) /\ stage \in [Calls -> Stages]
  BY DEF TypeOK, JobInv
<1>2. ~In(c, queue) /\ ~Running(c) /\ c \notin ready
  BY DEF JobInv, AwaitsThread
<1>3. /\ queue' \in Seq(Calls) /\ Distinct(queue')
      /\ \A d : In(d, queue') <=> In(d, queue) \/ d = c
  BY <1>1, <1>2, AppendToQueue
<1>4. \A d \in Calls : stage'[d] = IF d = c THEN s ELSE stage[d]
  BY <1>1
<1>5. TypeOK'
  BY <1>1, <1>3 DEF TypeOK, Stages
<1>6. JobInv'
  BY <1>2, <1>3, <1>4 DEF JobInv, Running, AwaitsThread
<1>7. EndInv'
  BY <1>1, <1>4 DEF EndInv
<1> QED BY <1>5, <1>6, <1>7

LEMMA ValidateTargetKeeps ==
    ASSUME PoolInv, NEW c \in Calls, ValidateTarget(c)
    PROVE  PoolInv'
<1>1. targets' \in [Calls -> 0..MaxTargets]
  BY PoolAssumption DEF ValidateTarget, MoreTargets, PoolInv, TypeOK, PoolAssumption
<1>2. CASE Submit(c, "resolving")
  BY <1>1, <1>2, SubmitKeeps DEF ValidateTarget
<1>3. CASE stage' = [stage EXCEPT ![c] = "requesting"] /\ UNCHANGED queue
  <2> USE <1>3 DEF PoolInv, ValidateTarget
  <2>1. stage \in [Calls -> Stages] /\ \A d \in Calls : stage'[d] = IF d = c THEN "requesting" ELSE stage[d]
    BY DEF TypeOK
  <2>2. ~In(c, queue) /\ ~Running(c) /\ c \notin ready
    BY DEF JobInv, AwaitsThread
  <2>3. TypeOK'
    BY <1>1, <2>1 DEF TypeOK, Stages
  <2>4. JobInv'
    BY <2>1, <2>2 DEF JobInv, Running, AwaitsThread
  <2>5. EndInv'
    BY <2>1 DEF EndInv
  <2> QED BY <2>3, <2>4, <2>5
<1> QED BY <1>2, <1>3 DEF ValidateTarget

LEMMA ParseKeeps ==
    ASSUME PoolInv, NEW c \in Calls, Parse(c)
    PROVE  PoolInv'
  BY SubmitKeeps DEF Parse, PoolInv, TypeOK

\* A call ends without a job of its own left, but one that a thread has begun.
LEMMA EndKeeps ==
    ASSUME PoolInv, NEW c \in Calls, NEW o \in Outcomes, End(c, o),
           UNCHANGED <<targets, thread>>,
           queue' \in Seq(Calls), Distinct(queue'),
           \A d : In(d, queue') <=> In(d, queue) /\ d # c,
           ready' = ready \ {c}
    PROVE  PoolInv'
<1> USE DEF PoolInv, End
<1>1. /\ stage \in [Calls -> Stages]
      /\ \A d \in Calls : stage'[d] = IF d = c THEN "ended" ELSE stage[d]
  BY DEF TypeOK
<1>2. TypeOK'
  BY <1>1 DEF TypeOK, Stages
<1>3. JobInv'
  BY <1>1 DEF JobInv, Running, AwaitsThread
<1>4. EndInv'
  BY <1>1 DEF EndInv, TypeOK
<1> QED BY <1>2, <1>3, <1>4

\* The actions that leave the queue to a call that is not in it.
LEMMA EndOutsideQueueKeeps ==
    ASSUME PoolInv, NEW c \in Calls, NEW o \in Outcomes, End(c, o), ~In(c, queue),
           UNCHANGED <<targets, queue, thread>>, ready' = ready \ {c}
    PROVE  PoolInv'
<1>1. queue' \in Seq(Calls) /\ Distinct(queue')
  BY DEF PoolInv, TypeOK, JobInv
<1>2. \A d : In(d, queue') <=> In(d, queue) /\ d # c
  BY DEF In
<1> QED BY <1>1, <1>2, EndKeeps

LEMMA FinishFetchKeeps ==
    ASSUME PoolInv, NEW c \in Calls, FinishFetch(c)
    PROVE  PoolInv'
<1>1. ~In(c, queue) /\ ready' = ready \ {c}
  BY DEF FinishFetch, PoolInv, JobInv, AwaitsThread
<1>2. End(c, "fetched") \/ End(c, "failed")
  BY DEF FinishFetch
<1> QED BY <1>1, <1>2, EndOutsideQueueKeeps DEF FinishFetch, Outcomes

LEMMA DeliverKeeps ==
    ASSUME PoolInv, NEW c \in Calls, Deliver(c)
    PROVE  PoolInv'
<1>1. c \in ready /\ ~In(c, queue) /\ ~Running(c) /\ ready' = ready \ {c}
  BY DEF Deliver, PoolInv, JobInv
<1>2. CASE End(c, "failed") \/ End(c, "parsed")
  BY <1>1, <1>2, EndOutsideQueueKeeps DEF Deliver, Outcomes
<1>3. CASE /\ stage[c] = "resolving"
           /\ stage' = [stage EXCEPT ![c] = "requesting"]
           /\ UNCHANGED outcome
  <2> USE <1>1, <1>3 DEF PoolInv, Deliver
  <2>1. stage \in [Calls -> Stages] /\ \A d \in Calls : stage'[d] = IF d = c THEN "requesting" ELSE stage[d]
    BY DEF TypeOK
  <2>2. TypeOK'
    BY <2>1 DEF TypeOK, Stages
  <2>3. JobInv'
    BY <2>1 DEF JobInv, Running, AwaitsThread
  <2>4. EndInv'
    BY <2>1 DEF EndInv
  <2> QED BY <2>2, <2>3, <2>4
<1> QED BY <1>2, <1>3 DEF Deliver

LEMMA TimeOutKeeps ==
    ASSUME PoolInv, NEW c \in Calls, TimeOut(c)
    PROVE  PoolInv'
<1>1. PICK o \in Outcomes : End(c, o)
  BY DEF TimeOut, Outcomes
<1>2. /\ queue' \in Seq(Calls) /\ Distinct(queue')
      /\ \A d : In(d, queue') <=> In(d, queue) /\ d # c
  BY LeaveQueue DEF TimeOut, QueueWithout, PoolInv, TypeOK, JobInv
<1> QED BY <1>1, <1>2, EndKeeps DEF TimeOut

\* A job goes from the queue to a thread.
LEMMA TakeJobKeeps ==
    ASSUME PoolInv, NEW t \in Threads, TakeJob(t)
    PROVE  PoolInv'
<1> USE DEF PoolInv, TakeJob
<1>1. queue \in Seq(Calls) /\ queue # <<>> /\ Distinct(queue)
  BY DEF TypeOK, JobInv
<1>2. /\ Head(queue) \in Calls /\ In(Head(queue), queue)
      /\ queue' \in Seq(Calls) /\ Distinct(queue')
      /\ \A d : In(d, queue') <=> In(d, queue) /\ d # Head(queue)
  BY <1>1, TailOfQueue
<1>3. \A u \in Threads : thread'[u] = IF u = t THEN Head(queue) ELSE thread[u]
  BY DEF TypeOK
<1>4. TypeOK'
  BY <1>2 DEF TypeOK
<1>5. \A d \in Calls : Running(d)' <=> Running(d) \/ d = Head(queue)
  BY <1>3, PoolAssumption DEF Running, PoolAssumption
<1>6. JobInv'
  <2>1. \A u, v \in Threads : thread'[u] = thread'[v] /\ thread'[u] # Idle => u = v
    BY <1>2, <1>3 DEF JobInv, Running
  <2> HIDE DEF TakeJob
  <2>2. UNCHANGED <<stage, ready>>
    BY DEF TakeJob
  <2> QED BY <1>2, <1>5, <2>1, <2>2 DEF JobInv, AwaitsThread
<1>7. EndInv'
  BY DEF EndInv
<1> QED BY <1>4, <1>6, <1>7

\* A thread's result is kept for a call that still waits, and dropped otherwise.
LEMMA ThreadReturnsKeeps ==
    ASSUME PoolInv, NEW t \in Threads, ThreadReturns(t)
    PROVE  PoolInv'
<1> DEFINE c == thread[t]
<1>1. /\ c \in Calls /\ thread \in [Threads -> Calls \cup {Idle}]
      /\ \A u \in Threads : thread'[u] = IF u = t THEN Idle ELSE thread[u]
      /\ UNCHANGED <<stage, targets, queue, outcome>>
      /\ ready' = IF AwaitsThread(c) THEN ready \cup {c} ELSE ready
  BY DEF ThreadReturns, Wanted, PoolInv, TypeOK
<1>2. TypeOK'
  BY <1>1 DEF PoolInv, TypeOK, ThreadReturns
<1>3. \A d \in Calls : Running(d)' <=> Running(d) /\ d # c
  BY <1>1, PoolAssumption DEF Running, PoolAssumption, PoolInv, JobInv
<1>4. Running(c)
  BY DEF Running
<1>5. JobInv'
  <2>1. \A u, v \in Threads : thread'[u] = thread'[v] /\ thread'[u] # Idle => u = v
    BY <1>1 DEF PoolInv, JobInv
  <2> HIDE DEF c
  <2> QED BY <1>1, <1>3, <1>4, <2>1 DEF PoolInv, JobInv, AwaitsThread
<1>6. EndInv'
  BY <1>1 DEF PoolInv, EndInv
<1> QED BY <1>2, <1>5, <1>6 DEF PoolInv

LEMMA StepKeeps == PoolInv /\ [Next]_vars => PoolInv'
<1> SUFFICES ASSUME PoolInv, [Next]_vars PROVE PoolInv'
  OBVIOUS
<1>1. CASE UNCHANGED vars
  BY <1>1 DEF vars, PoolInv, TypeOK, JobInv, EndInv, Running, AwaitsThread
<1>2. CASE \E c \in Calls :
             ValidateTarget(c) \/ Parse(c) \/ FinishFetch(c) \/ Deliver(c) \/ TimeOut(c)
  BY <1>2, ValidateTargetKeeps, ParseKeeps, FinishFetchKeeps, DeliverKeeps, TimeOutKeeps
<1>3. CASE \E t \in Threads : TakeJob(t) \/ ThreadReturns(t)
  BY <1>3, TakeJobKeeps, ThreadReturnsKeeps
<1> QED BY <1>1, <1>2, <1>3 DEF Next, Quiescent

-----------------------------------------------------------------------------
(* The theorems.                                                             *)

LEMMA Invariance == Spec => []PoolInv
  BY InitHolds, StepKeeps, PTL DEF Spec

\* Every variable keeps its range: in particular fetch_url validates no more targets than
\* its redirects and retries allow.
THEOREM TypeCorrect == Spec => []TypeOK
<1>1. PoolInv => TypeOK
  BY DEF PoolInv
<1> QED BY <1>1, Invariance, PTL

\* A call of parse_document or of a lookup that waits has one job in the executor, and
\* one that does not wait has none but one that a thread goes on with.
THEOREM JobsMatch == Spec => []JobsMatchCalls
<1>1. PoolInv => JobsMatchCalls
  <2> SUFFICES ASSUME PoolInv, NEW c \in Calls
               PROVE  LET queued == {i \in DOMAIN queue : queue[i] = c}
                          running == {t \in Threads : thread[t] = c}
                          returned == {c} \cap ready
                      IN  IF AwaitsThread(c)
                          THEN Cardinality(queued) + Cardinality(running)
                                 + Cardinality(returned) = 1
                          ELSE queued = {} /\ returned = {} /\ Cardinality(running) <= 1
    BY DEF JobsMatchCalls
  <2> DEFINE queued == {i \in DOMAIN queue : queue[i] = c}
             running == {t \in Threads : thread[t] = c}
             returned == {c} \cap ready
  <2>1. c # Idle /\ queue \in Seq(Calls) /\ DOMAIN queue = 1..Len(queue)
    BY PoolAssumption DEF PoolAssumption, PoolInv, TypeOK
  <2>2. IF In(c, queue) THEN \E x : queued = {x} ELSE queued = {}
    <3>1. ASSUME NEW i \in 1..Len(queue), queue[i] = c PROVE queued = {i}
      BY <2>1, <3>1 DEF PoolInv, JobInv, Distinct
    <3>2. ~In(c, queue) => queued = {}
      BY <2>1 DEF In
    <3> HIDE DEF queued
    <3> QED BY <3>1, <3>2 DEF In
  <2>3. IF Running(c) THEN \E x : running = {x} ELSE running = {}
    <3>1. ASSUME NEW t \in Threads, thread[t] = c PROVE running = {t}
      BY <2>1, <3>1 DEF PoolInv, JobInv
    <3>2. ~Running(c) => running = {}
      BY DEF Running
    <3> HIDE DEF running
    <3> QED BY <3>1, <3>2 DEF Running
  <2>4. IF c \in ready THEN returned = {c} ELSE returned = {}
    OBVIOUS
  <2> HIDE DEF queued, running, returned
  <2>5. /\ Cardinality(queued) = IF In(c, queue) THEN 1 ELSE 0
        /\ Cardinality(running) = IF Running(c) THEN 1 ELSE 0
        /\ Cardinality(returned) = IF c \in ready THEN 1 ELSE 0
    BY <2>2, <2>3, <2>4, FS_EmptySet, FS_Singleton
  <2>6. IF AwaitsThread(c)
        THEN Cardinality(queued) + Cardinality(running) + Cardinality(returned) = 1
        ELSE queued = {} /\ returned = {} /\ Cardinality(running) <= 1
    BY <2>2, <2>4, <2>5 DEF PoolInv, JobInv
  <2> QED BY <2>6 DEF queued, running, returned
<1> QED BY <1>1, Invariance, PTL

\* The answer of a call never changes, whichever threads return after it.
THEOREM AnswersAreFinal == Spec => OutcomeIsFinal
<1>1. PoolInv /\ [Next]_vars
        => [\A c \in Calls : outcome[c] # "none" => outcome'[c] = outcome[c]]_outcome
  <2> SUFFICES ASSUME PoolInv, [Next]_vars, NEW d \in Calls, outcome[d] # "none",
                      outcome' # outcome
               PROVE  outcome'[d] = outcome[d]
    OBVIOUS
  <2>1. stage[d] = "ended" /\ d \notin ready /\ outcome \in [Calls -> Outcomes]
    BY DEF PoolInv, EndInv, JobInv, AwaitsThread, TypeOK
  <2>2. PICK c \in Calls : FinishFetch(c) \/ Deliver(c) \/ TimeOut(c)
    BY DEF Next, Quiescent, vars, ValidateTarget, Parse, TakeJob, ThreadReturns
  <2>3. c # d /\ \E o : End(c, o)
    BY <2>1, <2>2 DEF FinishFetch, Deliver, TimeOut, MayTimeOut
  <2> QED BY <2>1, <2>3 DEF End
<1> QED BY <1>1, Invariance, PTL DEF Spec, OutcomeIsFinal

=============================================================================
