---------------------------- MODULE ServerProofs ----------------------------
(***************************************************************************)
(* For any number of requests, any limits and costs, and any settings: no  *)
(* window has more done in it than its limit, who obeys Retry-After comes  *)
(* when the unit that blocked it has left, and what a ready probe promises *)
(* is kept.                                                                *)
(***************************************************************************)
EXTENDS Server, FiniteSetTheorems, TLAPS

\* The greater of two numbers, as Max of FiniteSetsExt.
LEMMA MaxOfTwo ==
    ASSUME NEW a \in Int, NEW b \in Int
    PROVE  Max({a, b}) = IF a >= b THEN a ELSE b
  BY DEF Max

\* A whole number of seconds is no shorter than the ticks it was made of.
LEMMA RoundedUp ==
    ASSUME NEW n \in Int
    PROVE  Ceiling(n) \in Int /\ Ceiling(n) * TicksPerSecond >= n
<1>1. TicksPerSecond \in Nat \ {0}
  BY RateAssumption DEF RateAssumption
<1>2. \A T \in Nat \ {0}, k \in Int : (k \div T) \in Int /\ (k \div T) * T <= k
  OBVIOUS
<1> DEFINE q == (-n) \div TicksPerSecond
<1>3. q \in Int /\ q * TicksPerSecond <= -n
  BY <1>1, <1>2
<1> HIDE DEF q
<1>4. (-q) * TicksPerSecond = -(q * TicksPerSecond)
  BY <1>1, <1>3
<1> QED BY <1>1, <1>3, <1>4 DEF Ceiling, q

\* A time within W seconds is no more than W of them, rounded up.
LEMMA RoundedWithin ==
    ASSUME NEW W \in Nat, NEW n \in Int, n <= W * TicksPerSecond
    PROVE  Ceiling(n) <= W
<1>1. TicksPerSecond \in Nat \ {0}
  BY RateAssumption DEF RateAssumption
<1>2. \A T \in Nat \ {0}, k \in Int : (k \div T) \in Int /\ k < (k \div T) * T + T
  OBVIOUS
<1> DEFINE q == (-n) \div TicksPerSecond
<1>3. q \in Int /\ -n < q * TicksPerSecond + TicksPerSecond
  BY <1>1, <1>2
<1> HIDE DEF q
<1>4. SUFFICES ASSUME q + 1 <= -W PROVE FALSE
  BY <1>3 DEF Ceiling, q
<1>5. \A T \in Nat \ {0}, i, j \in Int : i <= j => i * T <= j * T
  OBVIOUS
<1>6. (q + 1) * TicksPerSecond <= (-W) * TicksPerSecond
  BY <1>1, <1>3, <1>4, <1>5
<1>7. /\ (q + 1) * TicksPerSecond = q * TicksPerSecond + TicksPerSecond
      /\ (-W) * TicksPerSecond = -(W * TicksPerSecond)
      /\ q * TicksPerSecond \in Int /\ W * TicksPerSecond \in Int
  BY <1>1, <1>3
<1> QED BY <1>1, <1>3, <1>6, <1>7

-----------------------------------------------------------------------------
(* Units and their ages.                                                     *)

LEMMA NumbersFacts ==
    /\ TicksPerSecond \in Nat \ {0}
    /\ \A p : Window(p) \in Nat \ {0} /\ Span(p) \in Nat \ {0} /\ Limit(p) \in Nat
    /\ \A a \in Asks : a.policy \in Policies /\ Units(a) \in Nat
    /\ NoAsk \in Asks
<1> USE RateAssumption DEF RateAssumption
<1>1. TicksPerSecond \in Nat \ {0}
  OBVIOUS
<1>2. \A p : Window(p) \in Nat \ {0} /\ Limit(p) \in Nat
  BY DEF Window, Limit
<1>3. \A i, j \in Nat \ {0} : i * j \in Nat \ {0}
  OBVIOUS
<1>4. \A p : Span(p) \in Nat \ {0}
  BY <1>1, <1>2, <1>3 DEF Span
<1>5. ASSUME NEW a \in Asks PROVE a.policy \in Policies /\ Units(a) \in Nat
  <2>1. a.policy \in Policies /\ a.urls \in Nat \ {0} /\ a.cost \in Nat \ {0}
    BY DEF Asks, Policies
  <2> QED BY <1>3, <2>1 DEF Units
<1>6. NoAsk \in Asks
  BY DEF NoAsk, Asks
<1> QED BY <1>1, <1>2, <1>4, <1>5, <1>6

\* A request has as many units as it says.
LEMMA UnitsFacts ==
    ASSUME NEW r \in Requests, NEW n \in Nat
    PROVE  /\ UnitsOf(r, n) \subseteq Requests \X (Nat \ {0})
           /\ \A q, i : <<q, i>> \in UnitsOf(r, n) <=> q = r /\ i \in 1..n
           /\ IsFiniteSet(UnitsOf(r, n)) /\ Cardinality(UnitsOf(r, n)) = n
<1>1. IsFiniteSet({r}) /\ Cardinality({r}) = 1
  BY FS_Singleton
<1>2. IsFiniteSet(1..n) /\ Cardinality(1..n) = n
  <2>1. IsFiniteSet(1..n) /\ Cardinality(1..n) = IF 1 > n THEN 0 ELSE n - 1 + 1
    BY FS_Interval
  <2> QED BY <2>1
<1>3. IsFiniteSet({r} \X (1..n)) /\ Cardinality({r} \X (1..n)) = n
  <2>1. /\ IsFiniteSet({r} \X (1..n))
        /\ Cardinality({r} \X (1..n)) = Cardinality({r}) * Cardinality(1..n)
    BY <1>1, <1>2, FS_Product
  <2> QED BY <1>1, <1>2, <2>1
<1> QED BY <1>3 DEF UnitsOf

LEMMA WithAges ==
    ASSUME NEW p, NEW ages, Ages(ages, p), NEW U, U \subseteq Requests \X (Nat \ {0}),
           NEW age \in 0..Span(p)
    PROVE  Ages(With(ages, U, age), p)
<1>1. \A u \in DOMAIN ages \cup U : (IF u \in U THEN age ELSE ages[u]) \in 0..Span(p)
  BY DEF Ages
<1>2. With(ages, U, age) \in [DOMAIN ages \cup U -> 0..Span(p)]
  BY <1>1 DEF With
<1>3. DOMAIN With(ages, U, age) = DOMAIN ages \cup U
  BY DEF With
<1> QED BY <1>2, <1>3 DEF Ages

LEMMA OlderAges ==
    ASSUME NEW p, NEW ages, Ages(ages, p)
    PROVE  /\ Ages(Older(ages, p), p)
           /\ DOMAIN Older(ages, p) = {u \in DOMAIN ages : ages[u] < Span(p)}
           /\ \A u \in DOMAIN Older(ages, p) : Older(ages, p)[u] = ages[u] + 1
<1> DEFINE young == {u \in DOMAIN ages : ages[u] < Span(p)}
<1>1. /\ DOMAIN Older(ages, p) = young
      /\ \A u \in young : Older(ages, p)[u] = ages[u] + 1
  BY DEF Older
<1>2. \A u \in young : ages[u] + 1 \in 0..Span(p)
  BY NumbersFacts DEF Ages
<1>3. Older(ages, p) \in [young -> 0..Span(p)]
  BY <1>2 DEF Older
<1> QED BY <1>1, <1>3 DEF Ages

-----------------------------------------------------------------------------
(* The invariant.                                                            *)

\* Where a request is only while the limiter is switched on.
Limited == {"checking", "admitted", "blocked", "measured", "refused", "unavailable"}

\* Where it has not been charged for what it asks for.
Uncharged == {"checking", "blocked", "measured", "refused"}

ServerInv ==
    /\ settings \in Deployments /\ settings \in Settings
    /\ life \in Lives /\ http_client \in {"none", "open"} /\ probe \in Probes
    /\ {db_engine, rate_limiter, redis, steady, vouched} \subseteq BOOLEAN
    /\ promised \subseteq Requests

Bounded(r) ==
    /\ left[r] \in (-TicksPerSecond)..Span(ask[r].policy)
    /\ wait[r] \in -1..Span(ask[r].policy)

RangeInv ==
    /\ phase \in [Requests -> Phases]
    /\ ask \in [Requests -> Asks]
    /\ left \in [Requests -> Int] /\ wait \in [Requests -> Int]
    /\ \A r \in Requests : Bounded(r)
    /\ \A r \in Requests : phase[r] \in Gone => wait[r] < 0

LogsOK(logs) == logs = [p \in Policies |-> logs[p]] /\ \A p \in Policies : Ages(logs[p], p)

LimitInv ==
    \A p \in Policies : IsFiniteSet(DOMAIN log[p]) /\ Cardinality(DOMAIN log[p]) <= Limit(p)

\* What was done within the window was charged, no earlier and no later.
ServedInv ==
    \A p \in Policies : \A u \in DOMAIN served[p] :
        u \in DOMAIN log[p] /\ log[p][u] = served[p][u]

UnchargedInv ==
    \A r \in Requests : phase[r] \in Uncharged =>
        \A p \in Policies : \A i \in Nat : <<r, i>> \notin DOMAIN log[p]

\* What is left of the window tells an admitted request how old its units are.
AdmittedInv ==
    \A r \in Requests : phase[r] = "admitted" /\ left[r] >= 0 =>
        \A u \in UnitsOf(r, Cost(r)) :
            /\ u \in DOMAIN log[ask[r].policy]
            /\ log[ask[r].policy][u] = Span(ask[r].policy) - left[r]

UnitInv ==
    LogsOK(log) /\ LogsOK(served) /\ LimitInv /\ ServedInv /\ UnchargedInv /\ AdmittedInv

\* A refused client waits at least for as long as what blocked it stays.
WaitInv ==
    \A r \in Requests :
        /\ phase[r] \in Gone \cup {"checking"} => left[r] < 0
        /\ phase[r] = "refused" /\ left[r] >= 0 => wait[r] >= left[r]

\* What a probe has found of the storage it needs is so still.
PromiseInv ==
    /\ StorageRequired /\ (vouched \/ promised # {} \/ (steady /\ probe = "database")) => redis
    /\ \A r \in Requests : phase[r] \in Limited => settings.rate_limit_enabled
    /\ \A r \in Requests : r \in promised => phase[r] # "unavailable"

Inv == ServerInv /\ RangeInv /\ UnitInv /\ WaitInv /\ PromiseInv

\* A request that has been promised an answer is not refused for want of storage.
PromiseKept == \A q \in promised : phase'[q] # "unavailable"

\* What Retry-After says is no shorter than what was left, and no longer than the window.
LEMMA LongEnough ==
    ASSUME NEW r, left[r] \in Int, left[r] <= Span(ask[r].policy)
    PROVE  /\ RetryAfter(r) * TicksPerSecond \in Nat
           /\ RetryAfter(r) * TicksPerSecond >= left[r]
           /\ RetryAfter(r) * TicksPerSecond <= Span(ask[r].policy)
<1> DEFINE c == Ceiling(left[r])
           w == Window(ask[r].policy)
<1>1. c \in Int /\ c * TicksPerSecond >= left[r]
        /\ w \in Nat \ {0} /\ TicksPerSecond \in Nat \ {0} /\ c <= w
  BY RoundedUp, RoundedWithin, NumbersFacts DEF Span
<1>2. RetryAfter(r) = Max({1, IF c = 0 THEN w ELSE c})
  BY DEF RetryAfter
<1>3. Span(ask[r].policy) = w * TicksPerSecond
  BY DEF Span
<1> HIDE DEF c, w
<1>4. RetryAfter(r) \in Nat /\ RetryAfter(r) >= c /\ RetryAfter(r) <= w
  <2>1. (IF c = 0 THEN w ELSE c) \in Int /\ (IF c = 0 THEN w ELSE c) >= c
           /\ (IF c = 0 THEN w ELSE c) <= w
    BY <1>1
  <2> QED BY <1>1, <1>2, <2>1, MaxOfTwo
<1>5. \A T \in Nat \ {0}, i, j \in Int : i >= j => i * T >= j * T /\ i * T \in Int /\ j * T \in Int
  OBVIOUS
<1>6. RetryAfter(r) * TicksPerSecond \in Nat
  BY <1>1, <1>4
<1> QED BY <1>1, <1>3, <1>4, <1>5, <1>6

LEMMA InitHolds == Init => Inv
<1> SUFFICES ASSUME Init PROVE Inv
  OBVIOUS
<1> USE DEF Init, ResourceInit, RateInit, ReadinessInit
<1>1. ServerInv
  BY DeploymentAssumption DEF ServerInv, DeploymentAssumption, Lives, Probes
<1>2. RangeInv
  BY NumbersFacts DEF RangeInv, Bounded, Phases, Gone
<1>3. UnitInv
  <2>1. DOMAIN NoUnits = {} /\ \A p : Ages(NoUnits, p)
    BY DEF NoUnits, Ages
  <2>2. LogsOK(log) /\ LogsOK(served)
    BY <2>1 DEF LogsOK
  <2>3. LimitInv
    BY <2>1, FS_EmptySet, NumbersFacts DEF LimitInv
  <2>4. ServedInv /\ UnchargedInv /\ AdmittedInv
    BY <2>1 DEF ServedInv, UnchargedInv, AdmittedInv
  <2> QED BY <2>2, <2>3, <2>4 DEF UnitInv
<1>4. WaitInv /\ PromiseInv
  BY DEF WaitInv, PromiseInv, Limited
<1> QED BY <1>1, <1>2, <1>3, <1>4 DEF Inv

-----------------------------------------------------------------------------
(* A request.                                                                *)

\* A step of r leaves everything in its range and the other requests alone.
Typed(r) ==
    /\ ask' \in [Requests -> Asks]
    /\ left' \in [Requests -> Int] /\ wait' \in [Requests -> Int]
    /\ Bounded(r)'
    /\ \A q \in Requests : q # r => /\ ask'[q] = ask[q]
                                    /\ left'[q] = left[q] /\ wait'[q] = wait[q]

\* What is true where r is next.
Fits(r, ph) ==
    /\ ph \in Phases
    /\ ph \in Gone \cup {"checking"} => left'[r] < 0
    /\ ph \in Gone => wait'[r] < 0
    /\ ph = "refused" /\ left'[r] >= 0 => wait'[r] >= left'[r]
    /\ ph \in Limited => settings.rate_limit_enabled
    /\ ph = "unavailable" => ~redis /\ StorageRequired

LEMMA Moved ==
    ASSUME RangeInv, NEW r \in Requests, NEW ph, Goto(r, ph)
    PROVE  \A q \in Requests : phase'[q] = IF q = r THEN ph ELSE phase[q]
  BY DEF RangeInv, Goto

\* A step that touches no unit.
LEMMA UnitsKept ==
    ASSUME Inv, NEW r \in Requests, NEW ph, Goto(r, ph), Typed(r), UNCHANGED <<log, served>>,
           ph # "admitted", ph \in Uncharged => phase[r] \in Uncharged \/ Free(r)
    PROVE  UnitInv'
<1> USE DEF Inv, UnitInv
<1>1. \A q \in Requests : phase'[q] = IF q = r THEN ph ELSE phase[q]
  BY Moved
<1>2. LogsOK(log)' /\ LogsOK(served)' /\ LimitInv' /\ ServedInv'
  BY DEF LogsOK, LimitInv, ServedInv
<1>3. UnchargedInv'
  <2>1. Free(r) => \A p \in Policies : \A i \in Nat : <<r, i>> \notin DOMAIN log[p]
    BY DEF Free
  <2> QED BY <1>1, <2>1 DEF UnchargedInv
<1>4. AdmittedInv'
  BY <1>1 DEF AdmittedInv, Typed, Cost
<1> QED BY <1>2, <1>3, <1>4

\* A hit charges units nobody has charged before, and no more than fit.
LEMMA HitUnits ==
    ASSUME Inv, NEW r \in Requests, phase[r] = "checking", Admits(ask[r].policy, Cost(r)),
           log' = Charge(r), left' = [left EXCEPT ![r] = Span(ask[r].policy)],
           UNCHANGED <<ask, served>>, Goto(r, "admitted")
    PROVE  UnitInv'
<1> USE DEF Inv, UnitInv
<1> DEFINE p == ask[r].policy
           U == UnitsOf(r, Cost(r))
<1>1. p \in Policies /\ Cost(r) \in Nat /\ Span(p) \in Nat
  BY NumbersFacts DEF RangeInv, Cost
<1>2. /\ U \subseteq Requests \X (Nat \ {0})
      /\ \A q, i : <<q, i>> \in U <=> q = r /\ i \in 1..Cost(r)
      /\ IsFiniteSet(U) /\ Cardinality(U) = Cost(r)
  BY <1>1, UnitsFacts
<1>3. log' = [log EXCEPT ![p] = With(log[p], U, 0)]
  BY DEF Charge
<1>4. \A q \in Requests : phase'[q] = IF q = r THEN "admitted" ELSE phase[q]
  BY Moved
<1>5. \A q \in Requests : left'[q] = IF q = r THEN Span(p) ELSE left[q]
  BY DEF RangeInv
<1> HIDE DEF U, p
<1>6. /\ Ages(With(log[p], U, 0), p)
      /\ DOMAIN With(log[p], U, 0) = DOMAIN log[p] \cup U
      /\ \A u \in U : With(log[p], U, 0)[u] = 0
      /\ \A u \in DOMAIN log[p] \ U : With(log[p], U, 0)[u] = log[p][u]
  <2> DEFINE ages == log[p]
  <2>1. Ages(ages, p) /\ 0 \in 0..Span(p)
    BY <1>1 DEF LogsOK
  <2> HIDE DEF ages
  <2>2. Ages(With(ages, U, 0), p)
    BY <1>2, <2>1, WithAges
  <2> QED BY <2>2 DEF With, ages
<1>7. log'[p] = With(log[p], U, 0) /\ \A x \in Policies : x # p => log'[x] = log[x]
  BY <1>1, <1>3 DEF LogsOK
<1>8. \A x \in Policies : \A u \in DOMAIN log[x] : u \notin U
  <2> SUFFICES ASSUME NEW x \in Policies, NEW u \in DOMAIN log[x], u \in U PROVE FALSE
    OBVIOUS
  <2>1. PICK i \in Nat : u = <<r, i>>
    BY DEF U, UnitsOf
  <2> QED BY <2>1 DEF UnchargedInv, Uncharged
<1>9. LogsOK(log)' /\ LogsOK(served)'
  BY <1>1, <1>3, <1>6 DEF LogsOK
<1>10. LimitInv'
  <2> SUFFICES ASSUME NEW x \in Policies
               PROVE  IsFiniteSet(DOMAIN log'[x]) /\ Cardinality(DOMAIN log'[x]) <= Limit(x)
    BY DEF LimitInv
  <2>1. CASE x = p
    <3>1. DOMAIN log'[x] = DOMAIN log[p] \cup U /\ DOMAIN log[p] \cap U = {}
      BY <1>1, <1>6, <1>7, <1>8, <2>1
    <3>2. IsFiniteSet(DOMAIN log[p]) /\ Cardinality(DOMAIN log[p]) \in Nat
      BY <1>1, FS_CardinalityType DEF LimitInv
    <3>3. /\ IsFiniteSet(DOMAIN log[p] \cup U)
          /\ Cardinality(DOMAIN log[p] \cup U) =
                Cardinality(DOMAIN log[p]) + Cardinality(U) - Cardinality({})
      BY <1>2, <3>1, <3>2, FS_Union
    <3>4. Cardinality({}) = 0
      BY FS_EmptySet
    <3>5. Cost(r) + Cardinality(DOMAIN log[p]) <= Limit(p)
      BY DEF Admits, p
    <3> QED BY <1>1, <1>2, <2>1, <3>1, <3>2, <3>3, <3>4, <3>5
  <2>2. CASE x # p
    BY <1>7, <2>2 DEF LimitInv
  <2> QED BY <2>1, <2>2
<1>11. ServedInv'
  <2> SUFFICES ASSUME NEW x \in Policies, NEW u \in DOMAIN served[x]
               PROVE  u \in DOMAIN log'[x] /\ log'[x][u] = served[x][u]
    BY DEF ServedInv
  <2>1. u \in DOMAIN log[x] /\ log[x][u] = served[x][u] /\ u \notin U
    BY <1>8 DEF ServedInv
  <2> QED BY <1>1, <1>6, <1>7, <2>1
<1>12. UnchargedInv'
  <2> SUFFICES ASSUME NEW q \in Requests, phase'[q] \in Uncharged, NEW x \in Policies,
                      NEW i \in Nat, <<q, i>> \in DOMAIN log'[x]
               PROVE  FALSE
    BY DEF UnchargedInv
  <2>1. q # r /\ phase[q] \in Uncharged
    BY <1>4 DEF Uncharged
  <2>2. <<q, i>> \notin DOMAIN log[x] /\ <<q, i>> \notin U
    BY <1>2, <2>1 DEF UnchargedInv
  <2> QED BY <1>6, <1>7, <2>2
<1>13. AdmittedInv'
  <2> SUFFICES ASSUME NEW q \in Requests, phase'[q] = "admitted", left'[q] >= 0,
                      NEW u \in UnitsOf(q, Cost(q))
               PROVE  /\ u \in DOMAIN log'[ask[q].policy]
                      /\ log'[ask[q].policy][u] = Span(ask[q].policy) - left'[q]
    BY DEF AdmittedInv, Cost
  <2>1. CASE q = r
    <3>1. u \in U /\ ask[q].policy = p /\ left'[q] = Span(p)
      BY <1>5, <2>1 DEF U, p
    <3>2. u \in DOMAIN log'[p] /\ log'[p][u] = 0
      BY <1>6, <1>7, <3>1
    <3> QED BY <1>1, <3>1, <3>2
  <2>2. CASE q # r
    <3> DEFINE x == ask[q].policy
    <3>1. x \in Policies
      BY NumbersFacts DEF RangeInv
    <3>2. u \in DOMAIN log[x] /\ log[x][u] = Span(x) - left'[q]
      BY <1>4, <1>5, <2>2 DEF AdmittedInv
    <3> HIDE DEF x
    <3>3. u \in DOMAIN log'[x] /\ log'[x][u] = log[x][u]
      BY <1>6, <1>7, <1>8, <3>1, <3>2
    <3> QED BY <3>2, <3>3 DEF x
  <2> QED BY <2>1, <2>2
<1> QED BY <1>9, <1>10, <1>11, <1>12, <1>13

\* What is served after it was charged has its units in the window, or they have left it.
LEMMA ServeUnits ==
    ASSUME Inv, NEW r \in Requests, Serve(r), Goto(r, "idle"), Typed(r), UNCHANGED log,
           phase[r] = "admitted" \/ settings.rate_limit_fail_open
    PROVE  UnitInv'
<1> USE DEF Inv, UnitInv
<1>1. CASE UNCHANGED served
  BY <1>1, UnitsKept DEF Uncharged
<1>2. CASE ~UNCHANGED served
  <2> DEFINE p == ask[r].policy
             U == UnitsOf(r, Cost(r))
             age == Span(p) - left[r]
  <2>1. /\ phase[r] = "admitted" /\ ~(age > Span(p))
        /\ served' = [served EXCEPT ![p] = With(served[p], U, age)]
    BY <1>2 DEF Serve, Cost
  <2>2. p \in Policies /\ Cost(r) \in Nat /\ Span(p) \in Nat /\ left[r] \in Int
    BY NumbersFacts DEF RangeInv, Cost
  <2>3. U \subseteq Requests \X (Nat \ {0})
    BY <2>2, UnitsFacts
  <2>4. left[r] >= 0 /\ age \in 0..Span(p)
    BY <2>1, <2>2 DEF RangeInv, Bounded
  <2>5. \A u \in U : u \in DOMAIN log[p] /\ log[p][u] = age
    BY <2>1, <2>4 DEF AdmittedInv
  <2> HIDE DEF p, U, age
  <2>6. /\ Ages(With(served[p], U, age), p)
        /\ DOMAIN With(served[p], U, age) = DOMAIN served[p] \cup U
        /\ \A u \in U : With(served[p], U, age)[u] = age
        /\ \A u \in DOMAIN served[p] \ U : With(served[p], U, age)[u] = served[p][u]
    <3> DEFINE ages == served[p]
    <3>1. Ages(ages, p)
      BY <2>2 DEF LogsOK
    <3> HIDE DEF ages
    <3>2. Ages(With(ages, U, age), p)
      BY <2>3, <2>4, <3>1, WithAges
    <3> QED BY <3>2 DEF With, ages
  <2>7. /\ served'[p] = With(served[p], U, age)
        /\ \A x \in Policies : x # p => served'[x] = served[x]
    BY <2>1, <2>2 DEF LogsOK
  <2>8. LogsOK(log)' /\ LogsOK(served)' /\ LimitInv'
    BY <2>1, <2>2, <2>6 DEF LogsOK, LimitInv
  <2>9. ServedInv'
    BY <2>2, <2>5, <2>6, <2>7 DEF ServedInv
  <2>10. \A q \in Requests : phase'[q] = IF q = r THEN "idle" ELSE phase[q]
    BY Moved
  <2>11. UnchargedInv' /\ AdmittedInv'
    BY <2>10 DEF UnchargedInv, AdmittedInv, Uncharged, Typed, Cost
  <2> QED BY <2>8, <2>9, <2>11
<1> QED BY <1>1, <1>2

LEMMA GoesOn ==
    ASSUME Inv, NEW r \in Requests, NEW ph, Request(r), Goto(r, ph), Typed(r), Fits(r, ph),
           UnitInv'
    PROVE  Inv' /\ PromiseKept
<1> USE DEF Inv
<1>1. /\ phase' \in [Requests -> Phases]
      /\ \A q \in Requests : phase'[q] = IF q = r THEN ph ELSE phase[q]
  BY Moved DEF Goto, RangeInv, Fits
<1>2. /\ UNCHANGED <<resourceVars, settings, redis, probe, steady, vouched, StorageRequired>>
      /\ promised' \subseteq promised \cup {r} /\ (vouched \/ promised' \subseteq promised)
  <2>1. UNCHANGED <<resourceVars, settings, redis, probe, steady, vouched>>
    BY DEF Request, resourceVars
  <2>2. promised' = IF phase'[r] \in Gone THEN promised \ {r}
                    ELSE IF phase[r] \in Gone /\ vouched THEN promised \cup {r}
                    ELSE promised
    BY DEF Request
  <2>3. UNCHANGED StorageRequired
    BY <2>1 DEF StorageRequired
  <2> QED BY <2>1, <2>2, <2>3
<1>3. ServerInv'
  BY <1>2 DEF ServerInv, resourceVars, appVars
<1>4. RangeInv'
  <2>1. \A q \in Requests : Bounded(q)'
    BY DEF RangeInv, Bounded, Typed
  <2>2. \A q \in Requests : phase'[q] \in Gone => wait'[q] < 0
    BY <1>1 DEF RangeInv, Typed, Fits
  <2> QED BY <1>1, <2>1, <2>2 DEF RangeInv, Typed
<1>5. WaitInv'
  <2> SUFFICES ASSUME NEW q \in Requests
               PROVE  /\ phase'[q] \in Gone \cup {"checking"} => left'[q] < 0
                      /\ phase'[q] = "refused" /\ left'[q] >= 0 => wait'[q] >= left'[q]
    BY DEF WaitInv
  <2>1. CASE q = r
    BY <1>1, <2>1 DEF Fits
  <2>2. CASE q # r
    BY <1>1, <2>2 DEF Typed, WaitInv
  <2> QED BY <2>1, <2>2
<1>6. PromiseInv'
  <2>1. StorageRequired' /\ (vouched' \/ promised' # {} \/ (steady' /\ probe' = "database")) => redis'
    BY <1>2 DEF PromiseInv
  <2>2. \A q \in Requests : phase'[q] \in Limited => settings'.rate_limit_enabled
    BY <1>1, <1>2 DEF PromiseInv, Fits
  <2>3. ph = "unavailable" => ~vouched /\ promised = {}
    BY DEF PromiseInv, Fits
  <2>4. \A q \in Requests : q \in promised' => phase'[q] # "unavailable"
    BY <1>1, <1>2, <2>3 DEF PromiseInv
  <2> QED BY <2>1, <2>2, <2>4 DEF PromiseInv
<1>7. PromiseKept
  BY <1>1 DEF ServerInv, RangeInv, PromiseInv, PromiseKept, Fits
<1> QED BY <1>3, <1>4, <1>5, <1>6, <1>7

\* A request that is over, or that nothing is known of any longer.
LEMMA EndKeeps ==
    ASSUME Inv, NEW r \in Requests, NEW ph \in {"idle", "unavailable"}, Request(r),
           End(r, ph), UNCHANGED log, ph = "unavailable" => ~redis /\ StorageRequired,
           UNCHANGED served \/ (Serve(r) /\ ph = "idle"
                                 /\ (phase[r] = "admitted" \/ settings.rate_limit_fail_open))
    PROVE  Inv' /\ PromiseKept
<1>1. Typed(r)
  <2>1. /\ ask' = [q \in Requests |-> IF q = r THEN NoAsk ELSE ask[q]]
        /\ left' = [q \in Requests |-> IF q = r THEN -1 ELSE left[q]]
        /\ wait' = [q \in Requests |-> IF q = r THEN -1 ELSE wait[q]]
    BY DEF End, Forgotten
  <2>2. NoAsk \in Asks /\ Span(NoAsk.policy) \in Nat /\ TicksPerSecond \in Nat \ {0}
    BY NumbersFacts
  <2> QED BY <2>1, <2>2 DEF Inv, RangeInv, Bounded, Typed
<1>2. Fits(r, ph)
  <2>0. left'[r] < 0 /\ wait'[r] < 0
    BY DEF End, Forgotten
  <2>1. CASE ph = "idle"
    BY <2>0, <2>1 DEF Fits, Phases, Gone, Limited
  <2>2. CASE ph = "unavailable"
    <3>1. ~redis /\ StorageRequired /\ settings.rate_limit_enabled
      BY <2>2 DEF StorageRequired
    <3> QED BY <2>0, <2>2, <3>1 DEF Fits, Phases, Gone, Limited
  <2> QED BY <2>1, <2>2
<1>3. Goto(r, ph)
  BY DEF End
<1>4. UnitInv'
  BY <1>1, <1>3, UnitsKept, ServeUnits DEF Uncharged, Gone
<1> QED BY <1>1, <1>2, <1>3, <1>4, GoesOn

LEMMA RequestKeeps ==
    ASSUME Inv, NEW r \in Requests, Request(r)
    PROVE  Inv' /\ PromiseKept
<1>1. RangeInv /\ UnitInv /\ WaitInv /\ PromiseInv
  BY DEF Inv
<1>2. phase[r] \in Limited => settings.rate_limit_enabled
  BY <1>1 DEF PromiseInv
<1>3. ask[r].policy \in Policies /\ Cost(r) \in Nat /\ left[r] \in Int /\ Bounded(r)
  BY <1>1, NumbersFacts DEF RangeInv, Cost
<1> DEFINE p == ask[r].policy
<1>4. Span(p) \in Nat /\ TicksPerSecond \in Nat \ {0}
  BY NumbersFacts
<1> HIDE DEF p
<1>5. ASSUME Allow(r), UNCHANGED log, phase[r] = "admitted" \/ settings.rate_limit_fail_open
      PROVE  Inv' /\ PromiseKept
  BY <1>5, EndKeeps DEF Allow
<1>a. CASE Arrive(r)
  <2>1. phase[r] \in Gone /\ Free(r) /\ UNCHANGED <<log, served>>
    BY <1>a DEF Arrive, Free
  <2>2. CASE settings.rate_limit_enabled
    <3>1. PICK a \in Asks : ask' = [ask EXCEPT ![r] = a]
      BY <1>a, <2>2 DEF Arrive
    <3>2. Goto(r, "checking") /\ UNCHANGED <<left, wait>>
      BY <1>a, <2>2 DEF Arrive
    <3>3. left[r] < 0 /\ wait[r] < 0 /\ Span(a.policy) \in Nat
      BY <1>1, <2>1, NumbersFacts DEF RangeInv, WaitInv
    <3>4. Typed(r)
      <4>1. ask' \in [Requests -> Asks] /\ ask'[r] = a
        BY <1>1, <3>1 DEF RangeInv
      <4>2. Bounded(r)'
        BY <1>3, <3>2, <3>3, <4>1 DEF Bounded
      <4> QED BY <1>1, <3>1, <3>2, <4>1, <4>2 DEF RangeInv, Typed
    <3>5. Fits(r, "checking")
      BY <2>2, <3>2, <3>3 DEF Fits, Phases, Gone
    <3>6. UnitInv'
      BY <2>1, <3>2, <3>4, UnitsKept DEF Uncharged
    <3> QED BY <3>2, <3>4, <3>5, <3>6, GoesOn
  <2>3. CASE ~settings.rate_limit_enabled
    BY <1>a, <2>1, <2>3, EndKeeps DEF Arrive
  <2> QED BY <2>2, <2>3
<1>b. CASE Hit(r)
  <2>1. phase[r] = "checking" /\ UNCHANGED <<ask, wait, served>>
    BY <1>b DEF Hit
  <2>2. CASE Admits(ask[r].policy, Cost(r))
    <3>1. log' = Charge(r) /\ left' = [left EXCEPT ![r] = Span(p)] /\ Goto(r, "admitted")
      BY <1>b, <2>2 DEF Hit, p
    <3>2. UnitInv'
      BY <2>1, <2>2, <3>1, HitUnits DEF p
    <3>3. Typed(r)
      <4>1. left' \in [Requests -> Int] /\ left'[r] = Span(p)
        BY <1>1, <1>4, <3>1 DEF RangeInv
      <4>2. Bounded(r)'
        BY <1>3, <1>4, <2>1, <4>1 DEF Bounded, p
      <4> QED BY <1>1, <2>1, <3>1, <4>1, <4>2 DEF RangeInv, Typed
    <3>4. Fits(r, "admitted")
      BY <1>2, <2>1 DEF Fits, Phases, Gone, Limited
    <3> QED BY <3>1, <3>2, <3>3, <3>4, GoesOn
  <2>3. CASE ~Admits(ask[r].policy, Cost(r))
    <3>1. UNCHANGED <<log, left>> /\ Goto(r, "blocked")
      BY <1>b, <2>3 DEF Hit
    <3>2. Typed(r)
      BY <1>1, <2>1, <3>1 DEF RangeInv, Typed, Bounded
    <3>3. Fits(r, "blocked")
      BY <1>2, <2>1 DEF Fits, Phases, Gone, Limited
    <3>4. UnitInv'
      BY <2>1, <3>1, <3>2, UnitsKept DEF Uncharged
    <3> QED BY <3>1, <3>2, <3>3, <3>4, GoesOn
  <2> QED BY <2>2, <2>3
<1>c. CASE HitAnswered(r)
  BY <1>5, <1>c DEF HitAnswered
<1>d. CASE WindowStats(r)
  <2>1. phase[r] = "blocked" /\ Goto(r, "measured") /\ UNCHANGED <<log, ask, wait, served>>
    BY <1>d DEF WindowStats
  <2>2. PICK ticks \in 0..Span(p) : left' = [left EXCEPT ![r] = ticks]
    <3>1. CASE left' = [left EXCEPT ![r] = Span(p)]
      <4>1. Span(p) \in 0..Span(p)
        BY <1>4
      <4> QED BY <3>1, <4>1
    <3>2. CASE \E u \in Oldest(p) : left' = [left EXCEPT ![r] = Span(p) - log[p][u]]
      <4>1. PICK u \in Oldest(p) : left' = [left EXCEPT ![r] = Span(p) - log[p][u]]
        BY <3>2
      <4>2. log[p][u] \in 0..Span(p)
        BY <1>1, <1>3 DEF Oldest, UnitInv, LogsOK, Ages, p
      <4>3. Span(p) - log[p][u] \in 0..Span(p)
        BY <1>4, <4>2
      <4> QED BY <4>1, <4>3
    <3> QED BY <1>d, <3>1, <3>2 DEF WindowStats, p
  <2>3. Typed(r)
    <3>1. left' \in [Requests -> Int] /\ left'[r] = ticks
      BY <1>1, <1>4, <2>2 DEF RangeInv
    <3>2. Bounded(r)'
      BY <1>3, <1>4, <2>1, <2>2, <3>1 DEF Bounded, p
    <3> QED BY <1>1, <2>1, <2>2, <3>1, <3>2 DEF RangeInv, Typed
  <2>4. Fits(r, "measured")
    BY <1>2, <2>1 DEF Fits, Phases, Gone, Limited
  <2>5. UnitInv'
    BY <2>1, <2>3, UnitsKept DEF Uncharged
  <2> QED BY <2>1, <2>3, <2>4, <2>5, GoesOn
<1>e. CASE Refuse(r)
  <2> DEFINE ticks == RetryAfter(r) * TicksPerSecond
  <2>1. phase[r] = "measured" /\ wait' = [wait EXCEPT ![r] = ticks] /\ Goto(r, "refused")
          /\ UNCHANGED <<log, ask, left, served>>
    BY <1>e DEF Refuse
  <2>2. ticks \in Nat /\ ticks >= left[r] /\ ticks <= Span(p)
    BY <1>3, <1>4, LongEnough DEF Bounded, p
  <2> HIDE DEF ticks
  <2>3. Typed(r)
    <3>1. wait' \in [Requests -> Int] /\ wait'[r] = ticks
      BY <1>1, <2>1, <2>2 DEF RangeInv
    <3>2. Bounded(r)'
      BY <1>3, <1>4, <2>1, <2>2, <3>1 DEF Bounded, p
    <3> QED BY <1>1, <2>1, <3>1, <3>2 DEF RangeInv, Typed
  <2>4. Fits(r, "refused")
    BY <1>1, <1>2, <2>1, <2>2 DEF RangeInv, Fits, Phases, Gone, Limited
  <2>5. UnitInv'
    <3>1. phase[r] = "measured"
      BY <2>1
    <3> QED BY <2>1, <2>3, UnitsKept DEF Uncharged
  <2> QED BY <2>1, <2>3, <2>4, <2>5, GoesOn
<1>f. CASE AskAgain(r)
  <2>1. phase[r] = "refused" /\ wait[r] < 0 /\ UNCHANGED <<log, served>>
    BY <1>f DEF AskAgain
  <2>2. CASE Goto(r, "checking") /\ UNCHANGED <<ask, left, wait>>
    <3>1. Typed(r)
      BY <1>1, <2>1, <2>2 DEF RangeInv, Typed, Bounded
    <3>2. Fits(r, "checking")
      <4>1. left[r] < 0
        BY <1>1, <2>1 DEF WaitInv, RangeInv
      <4> QED BY <1>2, <2>1, <2>2, <4>1 DEF Fits, Phases, Gone, Limited
    <3>3. UnitInv'
      BY <2>1, <2>2, <3>1, UnitsKept DEF Uncharged
    <3> QED BY <2>2, <3>1, <3>2, <3>3, GoesOn
  <2>3. CASE End(r, "idle")
    BY <2>1, <2>3, EndKeeps
  <2> QED BY <1>f, <2>2, <2>3 DEF AskAgain
<1>g. CASE StorageFails(r)
  <2>1. phase[r] \in Limited /\ ~redis /\ StorageError(r) /\ UNCHANGED log
    BY <1>g DEF StorageFails, Limited
  <2>2. CASE settings.rate_limit_fail_open
    BY <1>5, <2>1, <2>2 DEF StorageError
  <2>3. CASE ~settings.rate_limit_fail_open
    <3>1. StorageRequired /\ End(r, "unavailable") /\ UNCHANGED served
      BY <1>2, <2>1, <2>3 DEF StorageRequired, StorageError
    <3> QED BY <2>1, <3>1, EndKeeps
  <2> QED BY <2>2, <2>3
<1> QED BY <1>a, <1>b, <1>c, <1>d, <1>e, <1>f, <1>g DEF Request, RequestStep

-----------------------------------------------------------------------------
(* What surrounds the requests.                                              *)

\* A step that leaves the requests alone keeps what is known of them.
LEMMA RequestsKept ==
    ASSUME Inv, UNCHANGED rateVars
    PROVE  RangeInv' /\ UnitInv' /\ WaitInv' /\ UNCHANGED <<log, phase, ask, left, wait, served>>
<1>1. UNCHANGED <<log, phase, ask, left, wait, served>>
  BY DEF rateVars
<1>2. RangeInv' /\ WaitInv'
  BY <1>1 DEF Inv, RangeInv, WaitInv, Bounded
<1>3. LogsOK(log)' /\ LogsOK(served)' /\ LimitInv' /\ ServedInv'
  BY <1>1 DEF Inv, UnitInv, LogsOK, LimitInv, ServedInv
<1>4. UnchargedInv' /\ AdmittedInv'
  BY <1>1 DEF Inv, UnitInv, UnchargedInv, AdmittedInv, Cost
<1> QED BY <1>1, <1>2, <1>3, <1>4 DEF UnitInv

\* A step after which every request is where it was keeps what was promised.
LEMMA PhaseKept ==
    ASSUME Inv, UNCHANGED phase
    PROVE  PromiseKept
  BY DEF Inv, ServerInv, RangeInv, PromiseInv, PromiseKept

LEMMA LifespanKeeps ==
    ASSUME Inv, Lifespan
    PROVE  Inv' /\ PromiseKept
<1> USE DEF Inv
<1>1. /\ UNCHANGED <<settings, redis>>
      /\ life' \in Lives /\ http_client' \in {"none", "open"}
      /\ {db_engine', rate_limiter'} \subseteq BOOLEAN
  BY DEF Lifespan, StartUp, Release, Lives, ServerInv, Settings
<1>2. CASE UNCHANGED <<rateVars, probe, promiseVars>>
  <2>1. ServerInv' /\ PromiseInv'
    BY <1>1, <1>2, RequestsKept DEF ServerInv, PromiseInv, StorageRequired, promiseVars
  <2> QED BY <1>2, <2>1, RequestsKept, PhaseKept
<1>3. CASE Lose /\ probe' = "idle" /\ Forget
  <2>1. /\ phase' = [r \in Requests |-> IF r \in InFlight THEN "idle" ELSE phase[r]]
        /\ UNCHANGED <<log, served>>
        /\ ~vouched' /\ promised' = {} /\ ~steady'
        /\ {vouched', steady'} \subseteq BOOLEAN
    BY <1>3 DEF Lose, Forget
  <2>2. /\ ask' = [r \in Requests |-> IF r \in InFlight THEN NoAsk ELSE ask[r]]
        /\ left' = [r \in Requests |-> IF r \in InFlight THEN -1 ELSE left[r]]
        /\ wait' = [r \in Requests |-> IF r \in InFlight THEN -1 ELSE wait[r]]
    BY <1>3 DEF Lose, Forgotten
  <2>3. ServerInv'
    BY <1>1, <1>3, <2>1 DEF ServerInv, Probes
  <2>4. RangeInv'
    <3>1. /\ NoAsk \in Asks /\ "idle" \in Phases /\ -1 \in Int
          /\ Span(NoAsk.policy) \in Nat /\ TicksPerSecond \in Nat \ {0}
      BY NumbersFacts DEF Phases, Gone
    <3>2. \A r \in Requests : Bounded(r)'
      BY <2>2, <3>1 DEF RangeInv, Bounded
    <3> QED BY <2>1, <2>2, <3>1, <3>2 DEF RangeInv
  <2>5. UnitInv'
    <3>1. LogsOK(log)' /\ LogsOK(served)' /\ LimitInv' /\ ServedInv'
      BY <2>1 DEF UnitInv, LogsOK, LimitInv, ServedInv
    <3>2. UnchargedInv'
      BY <2>1 DEF UnitInv, UnchargedInv, Uncharged
    <3>3. AdmittedInv'
      BY <2>1, <2>2 DEF UnitInv, AdmittedInv, Cost
    <3> QED BY <3>1, <3>2, <3>3 DEF UnitInv
  <2>6. WaitInv'
    BY <2>1, <2>2 DEF RangeInv, WaitInv
  <2>7. PromiseInv'
    BY <1>1, <2>1 DEF RangeInv, PromiseInv, Limited
  <2>8. PromiseKept
    BY <2>1 DEF ServerInv, RangeInv, PromiseInv, PromiseKept
  <2> QED BY <2>3, <2>4, <2>5, <2>6, <2>7, <2>8
<1> QED BY <1>2, <1>3 DEF Lifespan

LEMMA StorageKeeps ==
    ASSUME Inv, Storage
    PROVE  Inv' /\ PromiseKept
<1> USE DEF Inv
<1>1. UNCHANGED <<settings, appVars, rateVars, probe>> /\ redis' \in BOOLEAN
  BY DEF Storage, RedisFails, RedisRecovers
<1>2. RangeInv' /\ UnitInv' /\ WaitInv' /\ UNCHANGED phase
  BY <1>1, RequestsKept
<1>3. promised' \subseteq promised /\ {steady', vouched'} \subseteq BOOLEAN
  BY DEF Storage, Forget, promiseVars, ServerInv
<1>4. redis' \/ (~vouched' /\ ~steady' /\ promised' = {})
  BY DEF Storage, Forget, RedisRecovers
<1>5. ServerInv'
  BY <1>1, <1>3 DEF ServerInv, appVars
<1>6. PromiseInv'
  BY <1>1, <1>2, <1>3, <1>4 DEF PromiseInv, StorageRequired
<1> QED BY <1>2, <1>5, <1>6, PhaseKept

LEMMA ProbingKeeps ==
    ASSUME Inv, Probing
    PROVE  Inv' /\ PromiseKept
<1> USE DEF Inv
<1>1. UNCHANGED <<settings, appVars, redis, StorageRequired, promised, rateVars>>
  BY DEF Probing, resourceVars, StorageRequired
<1>2. PICK a \in Answers :
        /\ ProbeStep(a)
        /\ vouched' = IF a = "pending" THEN vouched ELSE a = "ready" /\ steady
        /\ steady' = (a = "pending" /\ (probe = "idle" \/ steady))
  BY DEF Probing
<1>3. StorageRequired /\ a = "ready" /\ steady => redis
  BY <1>2 DEF ProbeStep, BeginProbe, CheckStorage, CheckDatabase, PromiseInv
<1>4. StorageRequired /\ a = "pending" /\ probe' = "database" => redis
  BY <1>2 DEF ProbeStep, BeginProbe, CheckStorage, CheckDatabase
<1>5. RangeInv' /\ UnitInv' /\ WaitInv' /\ UNCHANGED phase
  BY <1>1, RequestsKept
<1>6. ServerInv'
  <2>1. probe' \in Probes
    BY <1>2 DEF ProbeStep, BeginProbe, CheckStorage, CheckDatabase, Probes, ServerInv
  <2>2. steady' \in BOOLEAN /\ vouched' \in BOOLEAN
    BY <1>2 DEF ServerInv
  <2> QED BY <1>1, <2>1, <2>2 DEF ServerInv, appVars
<1>7. PromiseInv'
  <2>1. StorageRequired /\ vouched' => redis
    BY <1>2, <1>3 DEF PromiseInv
  <2>2. StorageRequired /\ steady' /\ probe' = "database" => redis
    BY <1>2, <1>4
  <2> QED BY <1>1, <1>5, <2>1, <2>2 DEF PromiseInv
<1> QED BY <1>5, <1>6, <1>7, PhaseKept

\* What has less time left waits, if it must, for no less.
LEMMA PassedFacts ==
    ASSUME NEW l \in Int, NEW w \in Int
    PROVE  LET p == Passed(l, -TicksPerSecond)
               v == Passed(w, -1)
           IN  /\ p \in Int /\ v \in Int /\ p >= -TicksPerSecond /\ v >= -1
               /\ l >= -TicksPerSecond => p <= l
               /\ w >= -1 => v <= w
               /\ p >= 0 => p = l - 1
               /\ p >= 0 /\ w >= l => v >= p
<1>1. TicksPerSecond \in Nat \ {0}
  BY NumbersFacts
<1>2. /\ Passed(l, -TicksPerSecond) =
            IF l - 1 >= -TicksPerSecond THEN l - 1 ELSE -TicksPerSecond
      /\ Passed(w, -1) = IF w - 1 >= -1 THEN w - 1 ELSE -1
  BY <1>1, MaxOfTwo DEF Passed
<1> QED BY <1>1, <1>2

\* Every unit ages by one tick or leaves the window.
LEMMA TickUnits ==
    ASSUME UnitInv, RangeInv, UNCHANGED <<phase, ask>>,
           log' = [p \in Policies |-> Older(log[p], p)],
           served' = [p \in Policies |-> Older(served[p], p)],
           left' = [r \in Requests |-> Passed(left[r], -TicksPerSecond)]
    PROVE  UnitInv'
<1> USE DEF UnitInv
<1>1. ASSUME NEW logs, LogsOK(logs), NEW p \in Policies
      PROVE  /\ Ages(Older(logs[p], p), p)
             /\ DOMAIN Older(logs[p], p) = {u \in DOMAIN logs[p] : logs[p][u] < Span(p)}
             /\ \A u \in DOMAIN Older(logs[p], p) : Older(logs[p], p)[u] = logs[p][u] + 1
  <2> DEFINE ages == logs[p]
  <2>1. Ages(ages, p)
    BY <1>1 DEF LogsOK
  <2> HIDE DEF ages
  <2>2. /\ Ages(Older(ages, p), p)
        /\ DOMAIN Older(ages, p) = {u \in DOMAIN ages : ages[u] < Span(p)}
        /\ \A u \in DOMAIN Older(ages, p) : Older(ages, p)[u] = ages[u] + 1
    BY <2>1, OlderAges
  <2> QED BY <2>2 DEF ages
<1>2. \A p \in Policies :
        /\ DOMAIN log'[p] = {u \in DOMAIN log[p] : log[p][u] < Span(p)}
        /\ \A u \in DOMAIN log'[p] : log'[p][u] = log[p][u] + 1
        /\ DOMAIN served'[p] = {u \in DOMAIN served[p] : served[p][u] < Span(p)}
        /\ \A u \in DOMAIN served'[p] : served'[p][u] = served[p][u] + 1
  BY <1>1
<1>3. LogsOK(log)' /\ LogsOK(served)'
  <2>1. \A p \in Policies : Ages(log'[p], p) /\ Ages(served'[p], p)
    BY <1>1
  <2> QED BY <2>1 DEF LogsOK
<1>4. LimitInv'
  <2> SUFFICES ASSUME NEW p \in Policies
               PROVE  IsFiniteSet(DOMAIN log'[p]) /\ Cardinality(DOMAIN log'[p]) <= Limit(p)
    BY DEF LimitInv
  <2>1. DOMAIN log'[p] \subseteq DOMAIN log[p]
    BY <1>2
  <2>2. IsFiniteSet(DOMAIN log[p]) /\ Cardinality(DOMAIN log[p]) <= Limit(p) /\ Limit(p) \in Nat
    BY NumbersFacts DEF LimitInv
  <2>3. /\ IsFiniteSet(DOMAIN log'[p])
        /\ Cardinality(DOMAIN log'[p]) <= Cardinality(DOMAIN log[p])
        /\ Cardinality(DOMAIN log'[p]) \in Nat /\ Cardinality(DOMAIN log[p]) \in Nat
    BY <2>1, <2>2, FS_Subset, FS_CardinalityType
  <2> QED BY <2>2, <2>3
<1>5. ServedInv'
  <2> SUFFICES ASSUME NEW p \in Policies, NEW u \in DOMAIN served'[p]
               PROVE  u \in DOMAIN log'[p] /\ log'[p][u] = served'[p][u]
    BY DEF ServedInv
  <2>1. u \in DOMAIN served[p] /\ served[p][u] < Span(p) /\ served'[p][u] = served[p][u] + 1
    BY <1>2
  <2>2. u \in DOMAIN log[p] /\ log[p][u] = served[p][u]
    BY <2>1 DEF ServedInv
  <2>3. u \in DOMAIN log'[p]
    BY <1>2, <2>1, <2>2
  <2> QED BY <1>2, <2>1, <2>2, <2>3
<1>6. UnchargedInv'
  BY <1>2 DEF UnchargedInv
<1>7. AdmittedInv'
  <2> SUFFICES ASSUME NEW r \in Requests, phase[r] = "admitted", left'[r] >= 0,
                      NEW u \in UnitsOf(r, Cost(r))
               PROVE  /\ u \in DOMAIN log'[ask[r].policy]
                      /\ log'[ask[r].policy][u] = Span(ask[r].policy) - left'[r]
    BY DEF AdmittedInv, Cost
  <2> DEFINE p == ask[r].policy
  <2>1. p \in Policies /\ Span(p) \in Nat /\ left[r] \in Int
    BY NumbersFacts DEF RangeInv
  <2>2. left'[r] = left[r] - 1
    BY <2>1, PassedFacts
  <2>3. u \in DOMAIN log[p] /\ log[p][u] = Span(p) - left[r]
    BY <2>1, <2>2 DEF AdmittedInv
  <2> HIDE DEF p
  <2>4. log[p][u] < Span(p) /\ log[p][u] + 1 = Span(p) - left'[r]
    BY <2>1, <2>2, <2>3
  <2>5. u \in DOMAIN log'[p] /\ log'[p][u] = Span(p) - left'[r]
    BY <1>2, <2>1, <2>3, <2>4
  <2> QED BY <2>5 DEF p
<1> QED BY <1>3, <1>4, <1>5, <1>6, <1>7

LEMMA TimeKeeps ==
    ASSUME Inv, Time
    PROVE  Inv' /\ PromiseKept
<1> USE DEF Inv
<1>1. /\ UNCHANGED <<settings, appVars, redis, probe, steady, vouched, promised, StorageRequired>>
      /\ UNCHANGED <<phase, ask>>
  BY DEF Time, Tick, resourceVars, promiseVars, StorageRequired
<1>2. /\ log' = [p \in Policies |-> Older(log[p], p)]
      /\ served' = [p \in Policies |-> Older(served[p], p)]
      /\ left' = [r \in Requests |-> Passed(left[r], -TicksPerSecond)]
      /\ wait' = [r \in Requests |-> Passed(wait[r], -1)]
  BY DEF Time, Tick
<1>3. ASSUME NEW r \in Requests
      PROVE  /\ left'[r] \in Int /\ wait'[r] \in Int
             /\ left'[r] <= left[r] /\ left'[r] >= -TicksPerSecond
             /\ wait'[r] <= wait[r] /\ wait'[r] >= -1
             /\ left'[r] >= 0 => left[r] >= 0
             /\ left'[r] >= 0 /\ wait[r] >= left[r] => wait'[r] >= left'[r]
  <2>1. left[r] \in Int /\ wait[r] \in Int /\ left[r] >= -TicksPerSecond /\ wait[r] >= -1
    BY NumbersFacts DEF RangeInv, Bounded
  <2>2. left'[r] = Passed(left[r], -TicksPerSecond) /\ wait'[r] = Passed(wait[r], -1)
    BY <1>2
  <2> QED BY <2>1, <2>2, PassedFacts
<1>4. left' \in [Requests -> Int] /\ wait' \in [Requests -> Int]
  BY <1>2, <1>3
<1>5. \A r \in Requests : Bounded(r)'
  <2> SUFFICES ASSUME NEW r \in Requests PROVE Bounded(r)'
    OBVIOUS
  <2>1. /\ left[r] \in Int /\ wait[r] \in Int /\ Span(ask[r].policy) \in Nat
        /\ left[r] <= Span(ask[r].policy) /\ wait[r] <= Span(ask[r].policy)
        /\ TicksPerSecond \in Nat
    BY NumbersFacts DEF RangeInv, Bounded
  <2> QED BY <1>1, <1>3, <2>1 DEF Bounded
<1>6. RangeInv'
  BY <1>1, <1>3, <1>4, <1>5 DEF RangeInv
<1>7. UnitInv'
  BY <1>1, <1>2, TickUnits
<1>8. WaitInv'
  BY <1>1, <1>3 DEF RangeInv, WaitInv
<1>9. ServerInv' /\ PromiseInv'
  BY <1>1 DEF ServerInv, PromiseInv, appVars
<1> QED BY <1>1, <1>6, <1>7, <1>8, <1>9, PhaseKept

LEMMA NextKeeps ==
    ASSUME Inv, [Next]_vars
    PROVE  Inv' /\ PromiseKept
<1>1. CASE \E r \in Requests : Request(r)
  BY <1>1, RequestKeeps
<1>2. CASE Lifespan \/ Storage \/ Probing \/ Time
  BY <1>2, LifespanKeeps, StorageKeeps, ProbingKeeps, TimeKeeps
<1>3. CASE UNCHANGED vars
  <2>1. UNCHANGED <<settings, appVars, redis, probe, steady, vouched, promised, rateVars>>
    BY <1>3 DEF vars, resourceVars, promiseVars
  <2>2. ServerInv' /\ PromiseInv'
    BY <2>1, RequestsKept DEF Inv, ServerInv, PromiseInv, StorageRequired, appVars
  <2> QED BY <2>1, <2>2, RequestsKept, PhaseKept DEF Inv
<1> QED BY <1>1, <1>2, <1>3 DEF Next

-----------------------------------------------------------------------------
(* The theorems.                                                             *)

\* The type invariant: logs and requests stay within their windows, a Retry-After never
\* exceeds the policy's window, and a resource is there or not.
THEOREM TypeCorrect == Spec => []TypeOK
<1>1. Inv => TypeOK
  BY DEF Inv, ServerInv, RangeInv, UnitInv, LogsOK, Bounded, TypeOK, RateTypeOK
<1> QED BY <1>1, InitHolds, NextKeeps, PTL DEF Spec

\* The moving window: unless it is told to fail open, enforce_rate_limit lets no more
\* units of work be done in any window than the policy's limit, whatever the limits, the
\* costs and the number of requests are and whichever calls fail.
THEOREM WindowBoundKept == Spec => []WindowBound
<1>1. Inv => WindowBound
  <2> SUFFICES ASSUME Inv, NEW p \in Policies
               PROVE  Cardinality(DOMAIN served[p]) <= Limit(p)
    BY DEF WindowBound
  <2>1. /\ DOMAIN served[p] \subseteq DOMAIN log[p]
        /\ IsFiniteSet(DOMAIN log[p]) /\ Cardinality(DOMAIN log[p]) <= Limit(p)
    BY DEF Inv, UnitInv, ServedInv, LimitInv
  <2>2. /\ Cardinality(DOMAIN served[p]) <= Cardinality(DOMAIN log[p])
        /\ Cardinality(DOMAIN served[p]) \in Nat /\ Cardinality(DOMAIN log[p]) \in Nat
    BY <2>1, FS_Subset, FS_CardinalityType
  <2> QED BY <2>1, <2>2, NumbersFacts
<1> QED BY <1>1, InitHolds, NextKeeps, PTL DEF Spec

\* A client that waits for what _get_retry_after_seconds returned never asks again
\* before the unit that get_window_stats reported has left the window, whatever the
\* limits, the costs and the fineness of the clock are.
THEOREM RetryAfterSuffices == Spec => []RetryAfterEnough
<1>1. Inv => RetryAfterEnough
  BY DEF Inv, WaitInv, RetryAfterEnough
<1> QED BY <1>1, InitHolds, NextKeeps, PTL DEF Spec

\* After GET /health/ready has answered 200, enforce_rate_limit refuses nothing for
\* want of storage until Redis fails, however many requests there are.
THEOREM ReadyIsKept == Spec => ReadyMeansServed
<1>1. ASSUME Inv, [Next]_vars
      PROVE  [\A r \in promised : phase'[r] # "unavailable"]_phase
  BY <1>1, NextKeeps DEF PromiseKept
<1>2. Inv /\ [Next]_vars => [\A r \in promised : phase'[r] # "unavailable"]_phase
  BY <1>1
<1>3. Inv /\ [Next]_vars => Inv'
  BY NextKeeps
<1> QED BY <1>2, <1>3, InitHolds, PTL DEF Spec, ReadyMeansServed

=============================================================================
