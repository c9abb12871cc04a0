-------------------------- MODULE FetchLimitsProofs --------------------------
(***************************************************************************)
(* Proofs about FetchLimits, for any number of tasks, hosts and slots.     *)
(*                                                                         *)
(* The inductive invariant Inv joins the typing, what a task's place in    *)
(* fetch_url says of its limiter and attempt number, the agreement of the  *)
(* cache's two structures, and the two conservation laws.                  *)
(***************************************************************************)
EXTENDS FetchLimits, FiniteSetTheorems, SequenceTheorems, TLAPS

\* TypeOK but for the upper bounds, which follow from the rest of Inv.
TypeInv ==
    /\ pc \in [Fetches -> States]
    /\ url_host \in [Fetches -> Hosts]
    /\ current_host \in [Fetches -> Hosts]
    /\ hop \in [Fetches -> 0..MaxRedirects]
    /\ attempt_number \in [Fetches -> 0..RetryAttempts]
    /\ host_limiter \in [Fetches -> Limiters \cup {NoLimiter}]
    /\ outbound_value \in Nat
    /\ in_flight \in Nat
    /\ DOMAIN host_limiters \subseteq Hosts
    /\ host_limiters \in [DOMAIN host_limiters -> Limiters]
    /\ insertion_order \in Seq(Hosts)
    /\ limiter_value \in [Limiters -> Nat]

\* A task refers to a limiter exactly while it awaits or holds its slot, and one
\* that is to begin an attempt has an attempt left.
TaskInv ==
    \A f \in Fetches :
        /\ host_limiter[f] \in Limiters <=> pc[f] \in {"host_wait", "requesting"}
        /\ pc[f] \in {"global_wait", "backoff"} => attempt_number[f] < RetryAttempts
        /\ pc[f] = "idle" => attempt_number[f] = 0

\* Sequence o lists the elements of K, each once.
Enumerates(o, K) ==
    /\ \A i \in 1..Len(o) : o[i] \in K
    /\ \A h \in K : \E i \in 1..Len(o) : o[i] = h
    /\ \A i, j \in 1..Len(o) : o[i] = o[j] => i = j

CacheInv ==
    /\ Enumerates(insertion_order, DOMAIN host_limiters)
    /\ Len(insertion_order) = Cardinality(DOMAIN host_limiters)
    /\ Cardinality(DOMAIN host_limiters) <= CacheSize
    /\ \A g, h \in DOMAIN host_limiters :
            host_limiters[g] = host_limiters[h] => g = h

Inv == /\ TypeInv
       /\ TaskInv
       /\ CacheInv
       /\ OutboundSlotsConserved
       /\ HostSlotsConserved

-----------------------------------------------------------------------------
(* Counting.                                                                *)

LEMMA FiniteTasks ==
    /\ IsFiniteSet(InAttempt) /\ Cardinality(InAttempt) \in Nat
    /\ \A s : IsFiniteSet(Holders(s)) /\ Cardinality(Holders(s)) \in Nat
<1>1. InAttempt \in SUBSET Fetches /\ \A s : Holders(s) \in SUBSET Fetches
  BY DEF InAttempt, Holders
<1> QED
  BY <1>1, FS_Subset, FS_CardinalityType, TasksAssumption

\* A task that enters a set of tasks adds one to its cardinality.
LEMMA Enters ==
    ASSUME NEW S, IsFiniteSet(S), NEW f, f \notin S
    PROVE  Cardinality(S \cup {f}) = Cardinality(S) + 1
  BY FS_AddElement

\* One that leaves it takes one off, and there was one to take.
LEMMA Leaves ==
    ASSUME NEW S, IsFiniteSet(S), NEW f, f \in S
    PROVE  /\ Cardinality(S \ {f}) = Cardinality(S) - 1
           /\ Cardinality(S) > 0
<1>1. Cardinality(S) \in Nat /\ Cardinality(S \ {f}) \in Nat
  BY FS_RemoveElement, FS_CardinalityType
<1> QED
  BY <1>1, FS_RemoveElement

-----------------------------------------------------------------------------
(* The initial state.                                                       *)

LEMMA InitInv == Init => Inv
<1> SUFFICES ASSUME Init PROVE Inv
  OBVIOUS
<1> USE LimitsAssumption, TasksAssumption
<1>1. TypeInv
  BY EmptySeq DEF Init, TypeInv, States
<1>2. TaskInv
  BY DEF Init, TaskInv
<1>3. CacheInv
  <2>1. DOMAIN host_limiters = {} /\ insertion_order = <<>>
    BY DEF Init
  <2>2. Len(insertion_order) = 0 /\ Cardinality(DOMAIN host_limiters) = 0
    BY <2>1, FS_EmptySet
  <2> QED
    BY <2>1, <2>2 DEF CacheInv, Enumerates
<1>4. InAttempt = {} /\ \A s : Holders(s) = {}
  BY DEF Init, InAttempt, Holders
<1>5. OutboundSlotsConserved
  BY <1>4, FS_EmptySet DEF Init, OutboundSlotsConserved
<1>6. HostSlotsConserved
  <2>1. \A s \in Limiters : limiter_value[s] = HostLimit /\ Cardinality(Holders(s)) = 0
    BY <1>4, FS_EmptySet DEF Init
  <2> QED
    BY <2>1 DEF HostSlotsConserved
<1> QED
  BY <1>1, <1>2, <1>3, <1>5, <1>6 DEF Inv

-----------------------------------------------------------------------------
(* The steps.                                                               *)

\* A step that changes neither the cache nor the identity of cached limiters.
LEMMA CacheUnchanged ==
    ASSUME CacheInv, UNCHANGED cacheVars
    PROVE  CacheInv'
  BY DEF CacheInv, Enumerates, cacheVars

LEMMA CallInv ==
    ASSUME Inv, NEW f \in Fetches, Call(f)
    PROVE  Inv'
<1> USE LimitsAssumption, TasksAssumption DEF Inv
<1>1. TypeInv'
  BY DEF Call, TypeInv, States, outboundVars, cacheVars
<1>2. TaskInv'
  BY DEF Call, TypeInv, TaskInv, outboundVars, cacheVars
<1>3. CacheInv'
  BY CacheUnchanged DEF Call
<1>4. InAttempt' = InAttempt /\ \A s : Holders(s)' = Holders(s)
  BY DEF Call, InAttempt, Holders, TypeInv
<1>5. OutboundSlotsConserved'
  BY <1>4 DEF Call, OutboundSlotsConserved, outboundVars
<1>6. HostSlotsConserved'
  BY <1>4 DEF Call, HostSlotsConserved
<1> QED
  BY <1>1, <1>2, <1>3, <1>5, <1>6

LEMMA RetryInv ==
    ASSUME Inv, NEW f \in Fetches, Retry(f)
    PROVE  Inv'
<1> USE LimitsAssumption, TasksAssumption DEF Inv
<1>1. TypeInv'
  BY DEF Retry, TypeInv, States, callVars, loopVars, outboundVars, cacheVars
<1>2. TaskInv'
  BY DEF Retry, TypeInv, TaskInv, callVars
<1>3. CacheInv'
  BY CacheUnchanged DEF Retry
<1>4. InAttempt' = InAttempt /\ \A s : Holders(s)' = Holders(s)
  BY DEF Retry, InAttempt, Holders, TypeInv
<1>5. OutboundSlotsConserved'
  BY <1>4 DEF Retry, OutboundSlotsConserved, outboundVars
<1>6. HostSlotsConserved'
  BY <1>4 DEF Retry, HostSlotsConserved
<1> QED
  BY <1>1, <1>2, <1>3, <1>5, <1>6

LEMMA AcquireOutboundInv ==
    ASSUME Inv, NEW f \in Fetches, AcquireOutbound(f)
    PROVE  Inv'
<1> USE LimitsAssumption, TasksAssumption DEF Inv
<1>1. TypeInv'
  <2>1. attempt_number[f] < RetryAttempts /\ attempt_number[f] \in 0..RetryAttempts
    BY DEF AcquireOutbound, TypeInv, TaskInv
  <2>2. attempt_number' \in [Fetches -> 0..RetryAttempts]
    BY <2>1 DEF AcquireOutbound, TypeInv
  <2>3. pc' \in [Fetches -> States] /\ outbound_value' \in Nat /\ in_flight' \in Nat
    BY DEF AcquireOutbound, TypeInv, States
  <2> QED
    BY <2>2, <2>3 DEF AcquireOutbound, TypeInv, loopVars, cacheVars
<1>2. TaskInv'
  BY DEF AcquireOutbound, TypeInv, TaskInv
<1>3. CacheInv'
  BY CacheUnchanged DEF AcquireOutbound
<1>4. /\ InAttempt' = InAttempt \cup {f} /\ f \notin InAttempt
      /\ \A s : Holders(s)' = Holders(s)
  BY DEF AcquireOutbound, InAttempt, Holders, TypeInv
<1>5. OutboundSlotsConserved'
  <2>1. Cardinality(InAttempt') = Cardinality(InAttempt) + 1
    BY <1>4, FiniteTasks, Enters
  <2> QED
    BY <2>1, FiniteTasks DEF AcquireOutbound, OutboundSlotsConserved, TypeInv
<1>6. HostSlotsConserved'
  BY <1>4 DEF AcquireOutbound, HostSlotsConserved
<1> QED
  BY <1>1, <1>2, <1>3, <1>5, <1>6

LEMMA AcquireHostInv ==
    ASSUME Inv, NEW f \in Fetches, AcquireHost(f)
    PROVE  Inv'
<1> USE LimitsAssumption, TasksAssumption DEF Inv
<1>0. PICK s \in Limiters : s = host_limiter[f] /\ limiter_value[s] > 0
  BY DEF AcquireHost, TypeInv, TaskInv
<1>1. TypeInv'
  BY <1>0 DEF AcquireHost, TypeInv, States, callVars, loopVars, outboundVars, cacheVars
<1>2. TaskInv'
  BY DEF AcquireHost, TypeInv, TaskInv, callVars
<1>3. CacheInv'
  BY CacheUnchanged DEF AcquireHost
<1>4. /\ InAttempt' = InAttempt
      /\ Holders(s)' = Holders(s) \cup {f} /\ f \notin Holders(s)
      /\ \A t \in Limiters \ {s} : Holders(t)' = Holders(t)
  BY <1>0 DEF AcquireHost, InAttempt, Holders, TypeInv
<1>5. OutboundSlotsConserved'
  BY <1>4 DEF AcquireHost, OutboundSlotsConserved, outboundVars
<1>6. HostSlotsConserved'
  <2>1. Cardinality(Holders(s)') = Cardinality(Holders(s)) + 1
    BY <1>4, FiniteTasks, Enters
  <2>2. limiter_value'[s] + Cardinality(Holders(s)') = HostLimit
    BY <1>0, <2>1, FiniteTasks DEF AcquireHost, HostSlotsConserved, TypeInv
  <2>3. \A t \in Limiters \ {s} :
            limiter_value'[t] + Cardinality(Holders(t)') = HostLimit
    BY <1>0, <1>4 DEF AcquireHost, HostSlotsConserved, TypeInv
  <2> QED
    BY <2>2, <2>3 DEF HostSlotsConserved
<1> QED
  BY <1>1, <1>2, <1>3, <1>5, <1>6

\* The host slot of a task that leaves "requesting" comes back to its limiter.
LEMMA HostSlotReturned ==
    ASSUME TypeInv, TaskInv, HostSlotsConserved, NEW f \in Fetches,
           limiter_value' = ReleasedHost(f),
           NEW q \in States \ {"requesting"},
           pc' = [pc EXCEPT ![f] = q],
           host_limiter' = [host_limiter EXCEPT ![f] = NoLimiter]
    PROVE  HostSlotsConserved' /\ limiter_value' \in [Limiters -> Nat]
<1> USE LimitsAssumption, TasksAssumption
<1>1. CASE pc[f] = "requesting"
  <2>0. PICK s \in Limiters : s = host_limiter[f]
    BY <1>1 DEF TypeInv, TaskInv
  <2>1. limiter_value' = [limiter_value EXCEPT ![s] = @ + 1]
    BY <1>1, <2>0 DEF ReleasedHost
  <2>2. /\ Holders(s)' = Holders(s) \ {f} /\ f \in Holders(s)
        /\ \A t \in Limiters \ {s} : Holders(t)' = Holders(t)
    BY <1>1, <2>0 DEF Holders, TypeInv
  <2>3. /\ Cardinality(Holders(s)') = Cardinality(Holders(s)) - 1
        /\ Cardinality(Holders(s)) > 0
    BY <2>2, FiniteTasks, Leaves
  <2>4. limiter_value'[s] + Cardinality(Holders(s)') = HostLimit
    BY <2>0, <2>1, <2>3, FiniteTasks DEF HostSlotsConserved, TypeInv
  <2>5. \A t \in Limiters \ {s} :
            limiter_value'[t] + Cardinality(Holders(t)') = HostLimit
    BY <2>1, <2>2 DEF HostSlotsConserved, TypeInv
  <2>6. HostSlotsConserved'
    BY <2>4, <2>5 DEF HostSlotsConserved
  <2>7. limiter_value' \in [Limiters -> Nat]
    BY <2>0, <2>1 DEF TypeInv
  <2> QED
    BY <2>6, <2>7
<1>2. CASE pc[f] # "requesting"
  <2>1. limiter_value' = limiter_value
    BY <1>2 DEF ReleasedHost
  <2>2. \A t : t \in Limiters => Holders(t)' = Holders(t)
    BY <1>2 DEF Holders, TypeInv
  <2> QED
    BY <2>1, <2>2 DEF HostSlotsConserved, TypeInv
<1> QED
  BY <1>1, <1>2

\* Every exit of an attempt: rejected target, finished request, failed request
\* and timeout all go through the two finally clauses.
LEMMA LeaveAttemptInv ==
    ASSUME Inv, NEW f \in InAttempt, NEW q \in {"idle", "backoff"},
           q = "backoff" => attempt_number[f] < RetryAttempts,
           LeaveAttempt(f, q)
    PROVE  Inv'
<1> USE LimitsAssumption, TasksAssumption DEF Inv
<1>0. f \in Fetches /\ q \in States \ {"requesting"}
  BY DEF InAttempt, States
<1>h. HostSlotsConserved' /\ limiter_value' \in [Limiters -> Nat]
  BY <1>0, HostSlotReturned DEF LeaveAttempt
<1>1. TypeInv'
  <2>1. outbound_value' \in Nat /\ in_flight' \in Nat
    <3>1. Cardinality(InAttempt) > 0
      BY FiniteTasks, Leaves
    <3> QED
      BY <3>1, FiniteTasks
         DEF LeaveAttempt, ReleaseOutbound, OutboundSlotsConserved, TypeInv
  <2>2. /\ pc' \in [Fetches -> States]
        /\ host_limiter' \in [Fetches -> Limiters \cup {NoLimiter}]
    BY <1>0 DEF LeaveAttempt, TypeInv
  <2>3. /\ current_host' \in [Fetches -> Hosts]
        /\ hop' \in [Fetches -> 0..MaxRedirects]
        /\ attempt_number' \in [Fetches -> 0..RetryAttempts]
    BY <1>0 DEF LeaveAttempt, TypeInv
  <2> QED
    BY <1>h, <2>1, <2>2, <2>3 DEF LeaveAttempt, TypeInv, cacheVars
<1>2. TaskInv'
  BY <1>0 DEF LeaveAttempt, TypeInv, TaskInv
<1>3. CacheInv'
  BY CacheUnchanged DEF LeaveAttempt
<1>4. InAttempt' = InAttempt \ {f}
  BY <1>0 DEF LeaveAttempt, InAttempt, TypeInv
<1>5. OutboundSlotsConserved'
  <2>1. /\ Cardinality(InAttempt') = Cardinality(InAttempt) - 1
        /\ Cardinality(InAttempt) > 0
    BY <1>4, FiniteTasks, Leaves
  <2> QED
    BY <2>1, FiniteTasks
       DEF LeaveAttempt, ReleaseOutbound, OutboundSlotsConserved, TypeInv
<1> QED
  BY <1>1, <1>2, <1>3, <1>5, <1>h

LEMMA FollowRedirectInv ==
    ASSUME Inv, NEW f \in Fetches, FollowRedirect(f)
    PROVE  Inv'
<1> USE LimitsAssumption, TasksAssumption DEF Inv
<1>h. HostSlotsConserved' /\ limiter_value' \in [Limiters -> Nat]
  BY HostSlotReturned DEF FollowRedirect, States
<1>1. TypeInv'
  <2>1. hop[f] + 1 \in 0..MaxRedirects
    BY DEF FollowRedirect, TypeInv
  <2> QED
    BY <2>1, <1>h DEF FollowRedirect, TypeInv, States, callVars, outboundVars, cacheVars
<1>2. TaskInv'
  BY DEF FollowRedirect, TypeInv, TaskInv, callVars
<1>3. CacheInv'
  BY CacheUnchanged DEF FollowRedirect
<1>4. InAttempt' = InAttempt
  BY DEF FollowRedirect, InAttempt, TypeInv
<1>5. OutboundSlotsConserved'
  BY <1>4 DEF FollowRedirect, OutboundSlotsConserved, outboundVars
<1> QED
  BY <1>1, <1>2, <1>3, <1>5, <1>h

-----------------------------------------------------------------------------
(* get_host_limiter.                                                        *)

LEMMA AppendEnumerates ==
    ASSUME NEW o \in Seq(Hosts), NEW K \in SUBSET Hosts, NEW h \in Hosts \ K,
           Enumerates(o, K), Len(o) = Cardinality(K)
    PROVE  /\ Append(o, h) \in Seq(Hosts)
           /\ Enumerates(Append(o, h), K \cup {h})
           /\ Len(Append(o, h)) = Cardinality(K \cup {h})
<1>1. /\ Append(o, h) \in Seq(Hosts)
      /\ Len(Append(o, h)) = Len(o) + 1
      /\ Append(o, h)[Len(o) + 1] = h
      /\ \A i \in 1..Len(o) : Append(o, h)[i] = o[i]
      /\ Len(o) \in Nat
  OBVIOUS
<1>2. Cardinality(K \cup {h}) = Cardinality(K) + 1
  <2>1. IsFiniteSet(K)
    BY FS_Subset, TasksAssumption
  <2> QED
    BY <2>1, Enters
<1>3. \A i \in 1..Len(o) + 1 : i \in 1..Len(o) \/ i = Len(o) + 1
  BY <1>1
<1>4. \A i \in 1..Len(o) + 1 : Append(o, h)[i] \in K \cup {h}
  BY <1>1, <1>3 DEF Enumerates
<1>5. \A g \in K \cup {h} : \E i \in 1..Len(o) + 1 : Append(o, h)[i] = g
  <2>1. ASSUME NEW g \in K
        PROVE  \E i \in 1..Len(o) + 1 : Append(o, h)[i] = g
    <3>1. PICK i \in 1..Len(o) : o[i] = g
      BY DEF Enumerates
    <3>2. i \in 1..Len(o) + 1 /\ Append(o, h)[i] = g
      BY <1>1, <3>1
    <3> QED
      BY <3>2
  <2>2. Len(o) + 1 \in 1..Len(o) + 1
    BY <1>1
  <2> QED
    BY <1>1, <2>1, <2>2
<1>6. \A i, j \in 1..Len(o) + 1 : Append(o, h)[i] = Append(o, h)[j] => i = j
  BY <1>1, <1>3 DEF Enumerates
<1> QED
  BY <1>1, <1>2, <1>4, <1>5, <1>6 DEF Enumerates

LEMMA TailEnumerates ==
    ASSUME NEW o \in Seq(Hosts), NEW K \in SUBSET Hosts, o # <<>>,
           Enumerates(o, K), Len(o) = Cardinality(K)
    PROVE  /\ Head(o) \in K /\ Tail(o) \in Seq(Hosts)
           /\ Enumerates(Tail(o), K \ {Head(o)})
           /\ Len(Tail(o)) = Cardinality(K \ {Head(o)})
<1>1. /\ Len(o) \in Nat \ {0} /\ Head(o) = o[1]
      /\ Tail(o) \in Seq(Hosts) /\ Len(Tail(o)) = Len(o) - 1
      /\ \A i \in 1..Len(o) - 1 : Tail(o)[i] = o[i + 1]
  BY EmptySeq, HeadTailProperties
<1>2. Head(o) \in K
  BY <1>1 DEF Enumerates
<1>3. Cardinality(K \ {Head(o)}) = Cardinality(K) - 1
  <2>1. IsFiniteSet(K)
    BY FS_Subset, TasksAssumption
  <2> QED
    BY <1>2, <2>1, Leaves
<1>4. \A i \in 1..Len(o) - 1 : i + 1 \in 1..Len(o) /\ i + 1 # 1
  BY <1>1
<1>5. \A i \in 1..Len(o) - 1 : Tail(o)[i] \in K \ {Head(o)}
  BY <1>1, <1>4 DEF Enumerates
<1>6. \A g \in K \ {Head(o)} : \E i \in 1..Len(o) - 1 : Tail(o)[i] = g
  <2> SUFFICES ASSUME NEW g \in K \ {Head(o)}
               PROVE  \E i \in 1..Len(o) - 1 : Tail(o)[i] = g
    OBVIOUS
  <2>1. PICK i \in 1..Len(o) : o[i] = g
    BY DEF Enumerates
  <2>2. i # 1
    BY <1>1, <2>1
  <2>3. i - 1 \in 1..Len(o) - 1 /\ (i - 1) + 1 = i
    BY <1>1, <2>2
  <2> QED
    BY <1>1, <2>1, <2>3
<1>7. \A i, j \in 1..Len(o) - 1 : Tail(o)[i] = Tail(o)[j] => i = j
  BY <1>1, <1>4 DEF Enumerates
<1> QED
  BY <1>1, <1>2, <1>3, <1>5, <1>6, <1>7 DEF Enumerates

\* A lookup leaves a well-formed cache in which the host has the limiter returned.
LEMMA LookupCache ==
    ASSUME TypeInv, CacheInv, NEW h \in Hosts, NEW s \in Limiters,
           CachedLimiter(h, s) \/ NewLimiter(h, s)
    PROVE  /\ CacheInv'
           /\ DOMAIN host_limiters' \subseteq Hosts
           /\ host_limiters' \in [DOMAIN host_limiters' -> Limiters]
           /\ insertion_order' \in Seq(Hosts)
<1> USE LimitsAssumption, TasksAssumption
<1>1. CASE CachedLimiter(h, s)
  BY <1>1, CacheUnchanged DEF CachedLimiter, cacheVars, TypeInv
<1>2. CASE NewLimiter(h, s)
  <2> DEFINE o == IF CacheFull THEN Tail(insertion_order) ELSE insertion_order
  <2>0. Cardinality(DOMAIN host_limiters) \in Nat
    BY FS_Subset, FS_CardinalityType DEF TypeInv
  <2>1. /\ o \in Seq(Hosts) /\ KeptHosts \subseteq DOMAIN host_limiters
        /\ Enumerates(o, KeptHosts) /\ Len(o) = Cardinality(KeptHosts)
        /\ Cardinality(KeptHosts) + 1 <= CacheSize
    <3>1. CASE CacheFull
      <4>1. insertion_order # <<>>
        BY <2>0, <3>1 DEF CacheFull, CacheInv
      <4>2. /\ Tail(insertion_order) \in Seq(Hosts)
            /\ KeptHosts = DOMAIN host_limiters \ {Head(insertion_order)}
            /\ Enumerates(Tail(insertion_order), KeptHosts)
            /\ Len(Tail(insertion_order)) = Cardinality(KeptHosts)
            /\ Head(insertion_order) \in DOMAIN host_limiters
        BY <3>1, <4>1, TailEnumerates DEF CacheInv, TypeInv, KeptHosts
      <4>3. Cardinality(KeptHosts) = Cardinality(DOMAIN host_limiters) - 1
        BY <4>2, FS_Subset, Leaves DEF TypeInv
      <4> QED
        BY <2>0, <3>1, <4>2, <4>3 DEF CacheInv
    <3>2. CASE ~CacheFull
      BY <2>0, <3>2 DEF CacheFull, KeptHosts, CacheInv, TypeInv
    <3> QED
      BY <3>1, <3>2
  <2>2. h \notin KeptHosts /\ KeptHosts \in SUBSET Hosts
    BY <1>2, <2>1 DEF NewLimiter, TypeInv
  <2>3. insertion_order' = Append(o, h) /\ DOMAIN host_limiters' = KeptHosts \cup {h}
    BY <1>2 DEF NewLimiter
  <2> HIDE DEF o
  <2>10. /\ Append(o, h) \in Seq(Hosts)
         /\ Enumerates(Append(o, h), KeptHosts \cup {h})
         /\ Len(Append(o, h)) = Cardinality(KeptHosts \cup {h})
    BY <2>1, <2>2, AppendEnumerates
  <2>4. /\ insertion_order' \in Seq(Hosts)
        /\ Enumerates(insertion_order', DOMAIN host_limiters')
        /\ Len(insertion_order') = Cardinality(DOMAIN host_limiters')
    BY <2>3, <2>10
  <2>5. Cardinality(DOMAIN host_limiters') <= CacheSize
    <3>1. IsFiniteSet(KeptHosts)
      BY <2>2, FS_Subset
    <3> QED
      BY <2>1, <2>2, <2>3, <3>1, Enters
  <2>6. \A k \in DOMAIN host_limiters' :
            host_limiters'[k] = IF k = h THEN s ELSE host_limiters[k]
    BY <1>2 DEF NewLimiter
  <2>7. \A k \in KeptHosts : host_limiters[k] # s /\ host_limiters[k] \in Limiters
    BY <1>2, <2>1 DEF NewLimiter, Alive, TypeInv
  <2>8. \A g, k \in DOMAIN host_limiters' :
            host_limiters'[g] = host_limiters'[k] => g = k
    BY <2>1, <2>3, <2>6, <2>7 DEF CacheInv
  <2>9. /\ host_limiters' \in [DOMAIN host_limiters' -> Limiters]
        /\ DOMAIN host_limiters' \subseteq Hosts
    <3>1. host_limiters' = [k \in KeptHosts \cup {h} |->
                               IF k = h THEN s ELSE host_limiters[k]]
      BY <1>2 DEF NewLimiter
    <3> QED
      BY <2>2, <2>7, <3>1
  <2> QED
    BY <2>4, <2>5, <2>8, <2>9 DEF CacheInv
<1> QED
  BY <1>1, <1>2

LEMMA JoinHostInv ==
    ASSUME Inv, NEW f \in Fetches, JoinHost(f)
    PROVE  Inv'
<1> USE LimitsAssumption, TasksAssumption DEF Inv
<1>0. PICK h \in Hosts : h = current_host[f]
  BY DEF TypeInv
<1>s. PICK s \in Limiters :
        LET free == IF h \in DOMAIN host_limiters THEN limiter_value[s] ELSE HostLimit
        IN  /\ CachedLimiter(h, s) \/ NewLimiter(h, s)
            /\ host_limiter' = [host_limiter EXCEPT ![f] = s]
            /\ pc' = [pc EXCEPT ![f] = IF free > 0 THEN "requesting"
                                                  ELSE "host_wait"]
            /\ limiter_value' = [limiter_value EXCEPT ![s] =
                                    IF free > 0 THEN free - 1 ELSE free]
  BY <1>0 DEF JoinHost
<1>a. pc[f] = "resolving" /\ UNCHANGED <<callVars, loopVars, outboundVars>>
  BY DEF JoinHost
\* A semaphore just created has all its slots, and a dead one has none taken: the
\* slots found free are those the limiter's value says.
<1>b. (IF h \in DOMAIN host_limiters THEN limiter_value[s] ELSE HostLimit)
         = limiter_value[s]
  <2>1. CASE h \in DOMAIN host_limiters
    BY <2>1
  <2>2. CASE h \notin DOMAIN host_limiters
    <3>1. s \notin Alive
      BY <1>s, <2>2 DEF CachedLimiter, NewLimiter
    <3>2. Cardinality(Holders(s)) = 0
      BY <3>1, FS_EmptySet DEF Alive, Holders
    <3> QED
      BY <2>2, <3>2 DEF HostSlotsConserved, TypeInv
  <2> QED
    BY <2>1, <2>2
<1>c. /\ host_limiter' = [host_limiter EXCEPT ![f] = s]
      /\ pc' = [pc EXCEPT ![f] = IF limiter_value[s] > 0 THEN "requesting"
                                                        ELSE "host_wait"]
      /\ limiter_value' = [limiter_value EXCEPT ![s] =
              IF limiter_value[s] > 0 THEN limiter_value[s] - 1 ELSE limiter_value[s]]
  BY <1>s, <1>b
<1>d. /\ CacheInv' /\ DOMAIN host_limiters' \subseteq Hosts
      /\ host_limiters' \in [DOMAIN host_limiters' -> Limiters]
      /\ insertion_order' \in Seq(Hosts)
  BY <1>s, LookupCache
<1>1. TypeInv'
  <2>1. pc' \in [Fetches -> States]
    BY <1>c DEF TypeInv, States
  <2>3. limiter_value' \in [Limiters -> Nat]
    <3>1. limiter_value[s] \in Nat
      BY DEF TypeInv
    <3>2. (IF limiter_value[s] > 0 THEN limiter_value[s] - 1 ELSE limiter_value[s]) \in Nat
      BY <3>1
    <3> QED
      BY <1>c, <3>2 DEF TypeInv
  <2>2. host_limiter' \in [Fetches -> Limiters \cup {NoLimiter}]
    BY <1>c DEF TypeInv
  <2> QED
    BY <1>a, <1>d, <2>1, <2>2, <2>3 DEF TypeInv, callVars, loopVars, outboundVars
<1>2. TaskInv'
  BY <1>a, <1>c DEF TypeInv, TaskInv, callVars
<1>4. InAttempt' = InAttempt
  BY <1>a, <1>c DEF InAttempt, TypeInv
<1>5. OutboundSlotsConserved'
  BY <1>a, <1>4 DEF OutboundSlotsConserved, outboundVars
<1>6. HostSlotsConserved'
  <2>1. CASE limiter_value[s] > 0
    <3>1. /\ Holders(s)' = Holders(s) \cup {f} /\ f \notin Holders(s)
          /\ \A t \in Limiters \ {s} : Holders(t)' = Holders(t)
      BY <1>a, <1>c, <2>1 DEF Holders, TypeInv
    <3>2. Cardinality(Holders(s)') = Cardinality(Holders(s)) + 1
      BY <3>1, FiniteTasks, Enters
    <3>3. limiter_value'[s] + Cardinality(Holders(s)') = HostLimit
      BY <1>c, <2>1, <3>2, FiniteTasks DEF HostSlotsConserved, TypeInv
    <3>4. \A t \in Limiters \ {s} :
              limiter_value'[t] + Cardinality(Holders(t)') = HostLimit
      BY <1>c, <3>1 DEF HostSlotsConserved, TypeInv
    <3> QED
      BY <3>3, <3>4 DEF HostSlotsConserved
  <2>2. CASE ~(limiter_value[s] > 0)
    <3>1. limiter_value' = limiter_value
      BY <1>c, <2>2 DEF TypeInv
    <3>2. \A t \in Limiters : Holders(t)' = Holders(t)
      BY <1>a, <1>c, <2>2 DEF Holders, TypeInv
    <3> QED
      BY <3>1, <3>2 DEF HostSlotsConserved
  <2> QED
    BY <2>1, <2>2
<1> QED
  BY <1>1, <1>2, <1>d, <1>5, <1>6

-----------------------------------------------------------------------------
(* The invariant, and what follows from it.                                 *)

LEMMA NextInv == Inv /\ [Next]_vars => Inv'
<1> SUFFICES ASSUME Inv, [Next]_vars PROVE Inv'
  OBVIOUS
<1>1. ASSUME NEW f \in Fetches, Call(f) PROVE Inv'
  BY <1>1, CallInv
<1>2. ASSUME NEW f \in Fetches, AcquireOutbound(f) PROVE Inv'
  BY <1>2, AcquireOutboundInv
<1>3. ASSUME NEW f \in Fetches, JoinHost(f) PROVE Inv'
  BY <1>3, JoinHostInv
<1>4. ASSUME NEW f \in Fetches, AcquireHost(f) PROVE Inv'
  BY <1>4, AcquireHostInv
<1>5. ASSUME NEW f \in Fetches, FollowRedirect(f) PROVE Inv'
  BY <1>5, FollowRedirectInv
<1>6. ASSUME NEW f \in Fetches, Retry(f) PROVE Inv'
  BY <1>6, RetryInv
<1>7. ASSUME NEW f \in Fetches,
             RejectTarget(f) \/ FinishRequest(f) \/ TimeoutAttempt(f)
      PROVE  Inv'
  <2>1. f \in InAttempt /\ LeaveAttempt(f, "idle")
    BY <1>7 DEF RejectTarget, FinishRequest, TimeoutAttempt, InAttempt
  <2> QED
    BY <2>1, LeaveAttemptInv
<1>8. ASSUME NEW f \in Fetches, FailRequest(f) PROVE Inv'
  <2>1. f \in InAttempt
    BY <1>8 DEF FailRequest, InAttempt
  <2>2. CASE LeaveAttempt(f, "idle")
    BY <2>1, <2>2, LeaveAttemptInv
  <2>3. CASE ~AttemptsSpent(f) /\ LeaveAttempt(f, "backoff")
    <3>1. attempt_number[f] < RetryAttempts
      BY <1>8, <2>3, LimitsAssumption DEF AttemptsSpent, Inv, TypeInv
    <3> QED
      BY <2>1, <2>3, <3>1, LeaveAttemptInv
  <2> QED
    BY <1>8, <2>2, <2>3 DEF FailRequest
<1>9. CASE UNCHANGED vars
  BY <1>9 DEF vars, callVars, loopVars, outboundVars, cacheVars, Inv, TypeInv,
              TaskInv, CacheInv, Enumerates, OutboundSlotsConserved,
              HostSlotsConserved, InAttempt, Holders
<1> QED
  BY <1>1, <1>2, <1>3, <1>4, <1>5, <1>6, <1>7, <1>8, <1>9 DEF Next, Step

THEOREM Invariance == Spec => []Inv
  BY InitInv, NextInv, PTL DEF Spec

\* Every variable keeps its type, and no call exceeds its attempts or redirects.
THEOREM TypeCorrect == Spec => []TypeOK
<1>1. Inv => TypeOK
  <2> SUFFICES ASSUME Inv PROVE TypeOK
    OBVIOUS
  <2>1. outbound_value \in 0..GlobalLimit /\ in_flight \in 0..GlobalLimit
    BY FiniteTasks, LimitsAssumption DEF Inv, TypeInv, OutboundSlotsConserved
  <2>2. limiter_value \in [Limiters -> 0..HostLimit]
    <3>1. \A s \in Limiters : limiter_value[s] \in 0..HostLimit
      BY FiniteTasks, LimitsAssumption DEF Inv, TypeInv, HostSlotsConserved
    <3> QED
      BY <3>1 DEF Inv, TypeInv
  <2> QED
    BY <2>1, <2>2 DEF Inv, TypeInv, TypeOK
<1> QED
  BY <1>1, Invariance, PTL

\* No attempt, however it ends, leaks or invents a slot of the outbound limiter,
\* and the gauge counts the attempts inside it.
THEOREM OutboundConservation == Spec => []OutboundSlotsConserved
<1>1. Inv => OutboundSlotsConserved
  BY DEF Inv
<1> QED
  BY <1>1, Invariance, PTL

\* No request, however it ends, leaks or invents a slot of a host limiter, evicted
\* or not.
THEOREM HostConservation == Spec => []HostSlotsConserved
<1>1. Inv => HostSlotsConserved
  BY DEF Inv
<1> QED
  BY <1>1, Invariance, PTL

\* The cache never outgrows its bound, evicts in an order that lists exactly its
\* hosts, and gives no two hosts the same limiter.
THEOREM CacheCorrect == Spec => []CacheWellFormed
<1>1. Inv => CacheWellFormed
  <2> SUFFICES ASSUME Inv PROVE CacheWellFormed
    OBVIOUS
  <2>1. {insertion_order[i] : i \in 1..Len(insertion_order)} = DOMAIN host_limiters
    BY DEF Inv, CacheInv, Enumerates
  <2> QED
    BY <2>1 DEF Inv, CacheInv, CacheWellFormed
<1> QED
  BY <1>1, Invariance, PTL

\* Tasks never wait for one another in a circle: whoever waits for a host slot waits for a
\* task that holds one and waits for none, and such a task, or one that can have its host
\* slot, is inside the outbound limiter whenever that is full.
THEOREM NoCircle == Spec => []NoCircularWait
<1>1. Inv => NoCircularWait
  <2> SUFFICES ASSUME Inv PROVE NoCircularWait
    OBVIOUS
  <2>1. ASSUME NEW f \in Fetches, pc[f] = "host_wait", ~(limiter_value[host_limiter[f]] > 0)
        PROVE  Holders(host_limiter[f]) # {}
    <3> DEFINE s == host_limiter[f]
    <3>1. s \in Limiters
      BY <2>1 DEF Inv, TaskInv
    <3> HIDE DEF s
    <3>2. limiter_value[s] = 0
      BY <2>1, <3>1 DEF Inv, TypeInv, s
    <3>3. Cardinality(Holders(s)) # 0
      BY <3>1, <3>2, LimitsAssumption DEF Inv, HostSlotsConserved
    <3> QED
      BY <3>3, FS_EmptySet DEF s
  <2>2. ASSUME outbound_value = 0
        PROVE  \E f \in InAttempt : pc[f] = "host_wait" => limiter_value[host_limiter[f]] > 0
    <3>1. Cardinality(InAttempt) # 0
      BY <2>2, LimitsAssumption DEF Inv, OutboundSlotsConserved
    <3>2. PICK f \in InAttempt : TRUE
      BY <3>1, FS_EmptySet
    <3>3. CASE pc[f] = "host_wait" => limiter_value[host_limiter[f]] > 0
      BY <3>3
    <3>4. CASE pc[f] = "host_wait" /\ ~(limiter_value[host_limiter[f]] > 0)
      <4>1. PICK g : g \in Holders(host_limiter[f])
        BY <2>1, <3>4 DEF InAttempt
      <4> QED
        BY <4>1 DEF Holders, InAttempt
    <3> QED
      BY <3>3, <3>4
  <2> QED
    BY <2>1, <2>2 DEF NoCircularWait
<1> QED
  BY <1>1, Invariance, PTL

-----------------------------------------------------------------------------
(* The per-host bound, when the cache holds every host fetched.             *)

\* Every task that awaits or holds a slot refers to the limiter its host has now.
CurrentLimiter ==
    \A f \in Fetches : pc[f] \in {"host_wait", "requesting"} =>
        /\ current_host[f] \in DOMAIN host_limiters
        /\ host_limiter[f] = host_limiters[current_host[f]]

\* A lookup then evicts nothing.
LEMMA NoEviction ==
    ASSUME Cardinality(Hosts) <= CacheSize, TypeInv,
           NEW h \in Hosts, NEW s \in Limiters,
           CachedLimiter(h, s) \/ NewLimiter(h, s)
    PROVE  /\ h \in DOMAIN host_limiters' /\ host_limiters'[h] = s
           /\ \A g \in DOMAIN host_limiters :
                  /\ g \in DOMAIN host_limiters'
                  /\ host_limiters'[g] = host_limiters[g]
<1> USE LimitsAssumption, TasksAssumption
<1>1. CASE CachedLimiter(h, s)
  BY <1>1 DEF CachedLimiter, cacheVars
<1>2. CASE NewLimiter(h, s)
  <2>1. h \notin DOMAIN host_limiters
    BY <1>2 DEF NewLimiter
  <2>2. /\ IsFiniteSet(DOMAIN host_limiters)
        /\ Cardinality(DOMAIN host_limiters) <= Cardinality(Hosts)
        /\ Cardinality(DOMAIN host_limiters) # Cardinality(Hosts)
    BY <2>1, FS_Subset DEF TypeInv
  <2>3. ~CacheFull
    BY <2>2, FS_CardinalityType DEF CacheFull
  <2>4. KeptHosts = DOMAIN host_limiters
    BY <2>3 DEF KeptHosts
  <2>5. host_limiters' = [k \in DOMAIN host_limiters \cup {h} |->
                             IF k = h THEN s ELSE host_limiters[k]]
    BY <1>2, <2>4 DEF NewLimiter
  <2> QED
    BY <2>1, <2>5
<1> QED
  BY <1>1, <1>2

LEMMA CurrentLimiterStep ==
    ASSUME Cardinality(Hosts) <= CacheSize, Inv, CurrentLimiter, [Next]_vars
    PROVE  CurrentLimiter'
<1> USE LimitsAssumption, TasksAssumption
<1>1. CASE UNCHANGED cacheVars
  <2>1. CASE UNCHANGED vars
    BY <2>1 DEF vars, callVars, loopVars, cacheVars, CurrentLimiter
  <2>2. ASSUME NEW f \in Fetches,
               Call(f) \/ AcquireOutbound(f) \/ Retry(f) \/ FollowRedirect(f)
        PROVE  CurrentLimiter'
    BY <1>1, <2>2 DEF Call, AcquireOutbound, Retry, FollowRedirect, loopVars,
                      cacheVars, CurrentLimiter, Inv, TypeInv
  <2>3. ASSUME NEW f \in Fetches, NEW q \in {"idle", "backoff"}, LeaveAttempt(f, q)
        PROVE  CurrentLimiter'
    BY <1>1, <2>3 DEF LeaveAttempt, cacheVars, CurrentLimiter, Inv, TypeInv
  <2>4. ASSUME NEW f \in Fetches, AcquireHost(f) PROVE CurrentLimiter'
    BY <1>1, <2>4 DEF AcquireHost, loopVars, cacheVars, CurrentLimiter, Inv, TypeInv
  <2>5. ASSUME NEW f \in Fetches, JoinHost(f) PROVE CurrentLimiter'
    <3>1. PICK s \in Limiters :
            /\ CachedLimiter(current_host[f], s) \/ NewLimiter(current_host[f], s)
            /\ host_limiter' = [host_limiter EXCEPT ![f] = s]
            /\ \E q \in States : pc' = [pc EXCEPT ![f] = q]
      BY <2>5 DEF JoinHost, States
    <3>2. /\ current_host[f] \in DOMAIN host_limiters'
          /\ host_limiters'[current_host[f]] = s
      BY <3>1, NoEviction DEF Inv, TypeInv
    <3> QED
      BY <1>1, <2>5, <3>1, <3>2
         DEF JoinHost, loopVars, cacheVars, CurrentLimiter, Inv, TypeInv
  <2> QED
    BY <2>1, <2>2, <2>3, <2>4, <2>5
       DEF Next, Step, RejectTarget, FinishRequest, FailRequest, TimeoutAttempt
<1>2. CASE ~(UNCHANGED cacheVars)
  <2>1. PICK f \in Fetches : JoinHost(f)
    BY <1>2 DEF Next, Step, Call, AcquireOutbound, RejectTarget, AcquireHost,
                FollowRedirect, FinishRequest, FailRequest, Retry, TimeoutAttempt,
                LeaveAttempt, vars, cacheVars
  <2>2. PICK s \in Limiters :
          /\ CachedLimiter(current_host[f], s) \/ NewLimiter(current_host[f], s)
          /\ host_limiter' = [host_limiter EXCEPT ![f] = s]
          /\ \E q \in States : pc' = [pc EXCEPT ![f] = q]
    BY <2>1 DEF JoinHost, States
  <2>3. /\ current_host[f] \in DOMAIN host_limiters'
        /\ host_limiters'[current_host[f]] = s
        /\ \A g \in DOMAIN host_limiters :
              /\ g \in DOMAIN host_limiters'
              /\ host_limiters'[g] = host_limiters[g]
    BY <2>2, NoEviction DEF Inv, TypeInv
  <2> QED
    BY <2>1, <2>2, <2>3 DEF JoinHost, loopVars, CurrentLimiter, Inv, TypeInv
<1> QED
  BY <1>1, <1>2

LEMMA BoundFromInv ==
    ASSUME Inv, CurrentLimiter
    PROVE  HostConcurrencyBound
<1> SUFFICES ASSUME NEW h \in Hosts
             PROVE  Cardinality({f \in Fetches : pc[f] = "requesting"
                                                 /\ current_host[f] = h}) <= HostLimit
  BY DEF HostConcurrencyBound
<1> DEFINE R == {f \in Fetches : pc[f] = "requesting" /\ current_host[f] = h}
<1>0. R \in SUBSET Fetches /\ IsFiniteSet(R)
  BY FS_Subset, TasksAssumption
<1>1. CASE R = {}
  BY <1>1, FS_EmptySet, LimitsAssumption
<1>2. CASE R # {}
  <2>1. h \in DOMAIN host_limiters /\ host_limiters[h] \in Limiters
    BY <1>2 DEF CurrentLimiter, Inv, TypeInv
  <2>2. R \in SUBSET Holders(host_limiters[h])
    BY DEF CurrentLimiter, Holders
  <2>3. Cardinality(R) <= Cardinality(Holders(host_limiters[h]))
    BY <2>2, FiniteTasks, FS_Subset
  <2>4. limiter_value[host_limiters[h]] + Cardinality(Holders(host_limiters[h])) = HostLimit
    BY <2>1 DEF Inv, HostSlotsConserved
  <2>5. /\ limiter_value[host_limiters[h]] \in Nat
        /\ Cardinality(Holders(host_limiters[h])) \in Nat /\ Cardinality(R) \in Nat
    BY <1>0, <2>1, FiniteTasks, FS_CardinalityType DEF Inv, TypeInv
  <2> QED
    BY <2>3, <2>4, <2>5, LimitsAssumption
<1> QED
  BY <1>1, <1>2

\* No more than HostLimit requests to one host are in progress, provided the cache
\* has room for every host the process fetches from.
THEOREM HostBound ==
    ASSUME Cardinality(Hosts) <= CacheSize
    PROVE  Spec => []HostConcurrencyBound
<1>1. Init => CurrentLimiter
  BY DEF Init, CurrentLimiter
<1>2. Inv /\ CurrentLimiter /\ [Next]_vars => CurrentLimiter'
  BY CurrentLimiterStep
<1>3. Inv /\ CurrentLimiter => HostConcurrencyBound
  BY BoundFromInv
<1> QED
  BY <1>1, <1>2, <1>3, Invariance, PTL DEF Spec

\* No more than HostLimit requests to one host are in progress either, whatever is
\* evicted, if the outbound limiter admits no more than that altogether.
THEOREM HostBoundWithin ==
    ASSUME GlobalLimit <= HostLimit
    PROVE  Spec => []HostConcurrencyBound
<1>1. Inv => HostConcurrencyBound
  <2> SUFFICES ASSUME Inv, NEW h \in Hosts
               PROVE  Cardinality({f \in Fetches : pc[f] = "requesting"
                                                   /\ current_host[f] = h}) <= HostLimit
    BY DEF HostConcurrencyBound
  <2> DEFINE R == {f \in Fetches : pc[f] = "requesting" /\ current_host[f] = h}
  <2>1. R \in SUBSET InAttempt
    BY DEF InAttempt
  <2> HIDE DEF R
  <2>2. Cardinality(R) <= Cardinality(InAttempt) /\ Cardinality(R) \in Nat
    BY <2>1, FiniteTasks, FS_Subset, FS_CardinalityType
  <2>3. outbound_value + Cardinality(InAttempt) = GlobalLimit /\ outbound_value \in Nat
    BY DEF Inv, TypeInv, OutboundSlotsConserved
  <2>4. Cardinality(R) <= HostLimit
    BY <2>2, <2>3, FiniteTasks, LimitsAssumption
  <2> QED
    BY <2>4 DEF R
<1> QED
  BY <1>1, Invariance, PTL

=============================================================================
