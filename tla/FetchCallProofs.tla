--------------------------- MODULE FetchCallProofs ---------------------------
(***************************************************************************)
(* For every setting and every server: no request goes where a check has   *)
(* not been, the body is the beginning of what was sent, a text is refused *)
(* for its bytes only where it is none or was cut, the time of a call is   *)
(* bounded, and whatever ends it has a status and a code.                  *)
(*                                                                         *)
(* Inv has a part for the targets, for the body and for the time;          *)
(* FieldInv, on top of it, has the ranges of the rest and what a failure   *)
(* says of the bytes.  What ends an attempt ends it in Raise or Answer,    *)
(* whose effect on each of them is shown once.                             *)
(***************************************************************************)
EXTENDS FetchCall, SequenceTheorems, TLAPS

\* The least of two numbers, as Min of FiniteSetsExt.
LEMMA MinOfTwo ==
    ASSUME NEW a \in Int, NEW b \in Int
    PROVE  Min({a, b}) = IF a <= b THEN a ELSE b
  BY DEF Min

LEMMA MaxOfTwo ==
    ASSUME NEW a \in Int, NEW b \in Int
    PROVE  Max({a, b}) = IF a >= b THEN a ELSE b
  BY DEF Max

-----------------------------------------------------------------------------
(* The invariant.                                                            *)

\* Ticks of the call that were not spent before the outbound limiter.
Own == elapsed - waited

\* What the attempts before number n may have taken, each with its backoff.
Spent(n) == (n - 1) * (UrlTimeout + BackoffMax)

AtMost(ticks, n, more) ==
    /\ ticks <= Spent(n) + more
    /\ ticks <= RetryTotalTimeout - 1 + BackoffMax + more

\* The ranges the rest relies on.
RangeInv ==
    /\ parsed \in BOOLEAN /\ stage \in Stages
    /\ attempt \in Nat /\ 1 <= attempt /\ attempt <= RetryAttempts
    /\ elapsed \in Nat /\ waited \in Nat /\ timer \in Int
    /\ body \in Seq(Symbols) /\ sent \in Seq(Symbols)

\* Nothing is left of an earlier attempt until a response is read.
BodyInv ==
    /\ stage \in {"waiting", "resolving", "requesting"} => body = <<>> /\ sent = <<>>
    /\ BodyIsPrefix

\* When a sleep is over, the next attempt begins within its bound.
TimeInv ==
    /\ stage = "waiting" => AtMost(Own, attempt, 0)
    /\ InAttempt => AtMost(Own - timer, attempt, 0) /\ timer <= UrlTimeout
    /\ stage = "sleeping" => /\ attempt < RetryAttempts
                             /\ AtMost(Own, attempt + 1, 0)
                             /\ AtMost(Own + timer, attempt + 1, 0)
    /\ stage = "parsing" => /\ parsed
                            /\ AtMost(Own - timer, attempt, UrlTimeout)
                            /\ timer <= ParseTimeout
    /\ stage = "answered" => AtMost(Own - (IF parsed THEN ParseTimeout ELSE 0), attempt,
                                    UrlTimeout)

Inv == RangeInv /\ RequestedTargetChecked /\ BodyInv /\ TimeInv

\* The calls of Raise in FetchCall are made with one of these.
Readable(f) == f.kind = "HTTPStatusError" => f.retry_after \in Nat \cup {NoWait}

LEMMA SpentFacts ==
    ASSUME NEW n \in Nat, 1 <= n
    PROVE  /\ Spent(n) \in Nat /\ Spent(1) = 0
           /\ Spent(n + 1) = Spent(n) + UrlTimeout + BackoffMax
  BY FetchAssumption DEF FetchAssumption, Spent

\* No attempt there may be ends later than FetchBound allows.
LEMMA SpentBound ==
    ASSUME NEW n \in Nat, 1 <= n, n <= RetryAttempts
    PROVE  Spent(n) + UrlTimeout
             <= RetryAttempts * UrlTimeout + (RetryAttempts - 1) * BackoffMax
<1> DEFINE K == UrlTimeout + BackoffMax
<1>1. K \in Nat /\ RetryAttempts - 1 \in Nat /\ n - 1 \in Nat
  BY FetchAssumption DEF FetchAssumption
<1>2. (n - 1) * K <= (RetryAttempts - 1) * K
  <2>1. RetryAttempts - 1 = (n - 1) + (RetryAttempts - n) /\ RetryAttempts - n \in Nat
    BY FetchAssumption DEF FetchAssumption
  <2>2. \A i, j, k \in Nat : (i + j) * k = i * k + j * k /\ j * k >= 0
    OBVIOUS
  <2> QED BY <1>1, <2>1, <2>2
<1>3. (RetryAttempts - 1) * K + UrlTimeout
        = RetryAttempts * UrlTimeout + (RetryAttempts - 1) * BackoffMax
  BY FetchAssumption DEF FetchAssumption
<1> QED BY <1>1, <1>2, <1>3, FetchAssumption DEF Spent, FetchAssumption

\* No wait between attempts is longer than the longest backoff.
LEMMA WaitBounded ==
    ASSUME RangeInv, NEW f, Readable(f), NEW ticks \in RetryWaits(f)
    PROVE  ticks \in Nat /\ ticks <= BackoffMax
<1>1. BackoffMax \in Nat /\ BackoffInitial \in Nat /\ Jitter \in Nat
  BY FetchAssumption DEF FetchAssumption
<1>2. CASE f.kind = "HTTPStatusError" /\ f.status \in {429, 503} /\ f.retry_after # NoWait
  <2>1. f.retry_after \in Nat
    BY <1>2 DEF Readable, NoWait
  <2> QED BY <1>1, <1>2, <2>1, MinOfTwo DEF RetryWaits
<1>3. CASE ~(f.kind = "HTTPStatusError" /\ f.status \in {429, 503} /\ f.retry_after # NoWait)
  <2>1. PICK j \in 0..Jitter :
          ticks = Max({0, Min({BackoffInitial * 2^(attempt - 1) + j, BackoffMax})})
    BY <1>3 DEF RetryWaits, Backoffs
  <2>2. 2^(attempt - 1) \in Int
    BY DEF RangeInv
  <2> DEFINE grown == BackoffInitial * 2^(attempt - 1) + j
             cut == Min({grown, BackoffMax})
  <2>3. grown \in Int
    BY <1>1, <2>2
  <2> HIDE DEF grown
  <2>4. cut \in Int /\ cut <= BackoffMax
    BY <1>1, <2>3, MinOfTwo
  <2>5. ticks = Max({0, cut})
    BY <2>1 DEF grown
  <2> HIDE DEF cut
  <2> QED BY <1>1, <2>4, <2>5, MaxOfTwo
<1> QED BY <1>2, <1>3

-----------------------------------------------------------------------------
(* How an attempt ends.                                                      *)

\* Empty is the beginning of empty.
LEMMA NothingRead ==
    ASSUME RangeInv
    PROVE  ByteLimit \in Nat \ {0} /\ <<>> = SubSeq(<<>>, 1, Min({ByteLimit, Len(<<>>)}))
<1>1. ByteLimit \in Nat \ {0}
  BY FetchAssumption DEF FetchAssumption, ByteLimit
<1>2. Min({ByteLimit, Len(<<>>)}) = 0
  BY <1>1, MinOfTwo
<1> QED BY <1>1, <1>2

LEMMA BodyReadSoFar ==
    ASSUME RangeInv, BodyInv, stage # "sleeping"
    PROVE  body = SubSeq(sent, 1, Min({ByteLimit, Len(sent)}))
<1>1. CASE stage \in {"waiting", "resolving", "requesting"}
  <2>1. body = <<>> /\ sent = <<>>
    BY <1>1 DEF BodyInv
  <2> QED BY <2>1, NothingRead
<1>2. CASE stage \in {"reading", "parsing", "answered"}
  BY <1>2 DEF BodyInv, BodyIsPrefix
<1> QED BY <1>1, <1>2 DEF RangeInv, Stages

\* An answer is in time if the stage before it was.
LEMMA AnswerKeeps ==
    ASSUME Inv, NEW f, Answer(f), stage # "sleeping",
           AtMost(Own - (IF parsed THEN ParseTimeout ELSE 0), attempt, UrlTimeout)
    PROVE  Inv'
<1> USE DEF Inv, Answer, call, place, response
<1>1. RangeInv'
  BY DEF RangeInv, Stages
<1>2. RequestedTargetChecked'
  BY DEF RequestedTargetChecked
<1>3. BodyInv'
  BY BodyReadSoFar DEF BodyInv, BodyIsPrefix, ByteLimit
<1>4. TimeInv'
  BY DEF TimeInv, AtMost, Own, InAttempt, Spent
<1> QED BY <1>1, <1>2, <1>3, <1>4

\* Where an attempt is, it has not lasted longer than a URL may take.
LEMMA AttemptInTime ==
    ASSUME Inv, stage = "waiting" \/ InAttempt
    PROVE  /\ AtMost(Own, attempt, UrlTimeout)
           /\ AtMost(Own - (IF parsed THEN ParseTimeout ELSE 0), attempt, UrlTimeout)
<1>1. /\ UrlTimeout \in Nat /\ ParseTimeout \in Nat /\ BackoffMax \in Nat
      /\ RetryTotalTimeout \in Nat
  BY FetchAssumption DEF FetchAssumption
<1>2. Spent(attempt) \in Nat /\ Own \in Int /\ timer \in Int
  BY SpentFacts DEF Inv, RangeInv, Own
<1>3. AtMost(Own, attempt, UrlTimeout)
  BY <1>1, <1>2 DEF Inv, TimeInv, AtMost, InAttempt
<1> QED BY <1>1, <1>2, <1>3 DEF AtMost

LEMMA RaiseKeeps ==
    ASSUME Inv, stage = "waiting" \/ InAttempt, NEW f, Readable(f), Raise(f)
    PROVE  Inv'
<1>1. CASE Answer(f)
  BY <1>1, AttemptInTime, AnswerKeeps DEF InAttempt
<1>2. CASE ~Answer(f)
  <2> USE DEF Inv, call, place, response
  <2>1. /\ ~ShouldStop /\ stage' = "sleeping"
        /\ timer' \in RetryWaits(f)
        /\ UNCHANGED <<call, attempt, elapsed, waited, place, response>>
    BY <1>2 DEF Raise
  <2>2. timer' \in Int /\ timer' <= BackoffMax
    BY <2>1, WaitBounded
  <2>3. RangeInv'
    BY <2>1, <2>2 DEF RangeInv, Stages
  <2>4. RequestedTargetChecked' /\ BodyInv'
    BY <2>1 DEF RequestedTargetChecked, BodyInv, BodyIsPrefix
  <2>5. attempt < RetryAttempts /\ elapsed <= RetryTotalTimeout - 1
    BY <2>1, FetchAssumption DEF ShouldStop, FetchAssumption, RangeInv
  <2>6. AtMost(Own, attempt + 1, 0) /\ AtMost(Own + timer', attempt + 1, 0)
    <3>1. /\ Own \in Int /\ Own <= Spent(attempt) + UrlTimeout
          /\ Own <= RetryTotalTimeout - 1
      BY <2>5, AttemptInTime, FetchAssumption DEF AtMost, RangeInv, Own, FetchAssumption
    <3>2. Spent(attempt + 1) = Spent(attempt) + UrlTimeout + BackoffMax
             /\ Spent(attempt) \in Nat
      BY SpentFacts DEF RangeInv
    <3> QED BY <2>2, <3>1, <3>2, FetchAssumption DEF AtMost, FetchAssumption
  <2>7. TimeInv'
    BY <2>1, <2>5, <2>6 DEF TimeInv, AtMost, Own, InAttempt, Spent
  <2> QED BY <2>3, <2>4, <2>7
<1> QED BY <1>1, <1>2

\* The last of the checks, in the tuple of all of them.
LEMMA CheckedLiteral ==
    ASSUME NEW u, ~IsRefused(u)
    PROVE  ~(IsLiteral(u) /\ IsBlocked(u.host))
<1>1. \A a, b, c, d, e, f, g : LET s == <<a, b, c, d, e, f, g>> IN DOMAIN s = 1..7 /\ s[7] = g
  OBVIOUS
<1>2. DOMAIN Checks(u) = 1..7 /\ Checks(u)[7] = <<IsLiteral(u) /\ IsBlocked(u.host), "internal_literal">>
  BY <1>1 DEF Checks
<1>3. 7 \in DOMAIN Checks(u) /\ 7 \notin Failed(u)
  BY <1>2 DEF IsRefused
<1>4. ~Checks(u)[7][1]
  BY <1>3 DEF Failed
<1>5. \A p, q : <<p, q>>[1] = p
  OBVIOUS
<1> QED BY <1>2, <1>4, <1>5

\* A URL that passes the checks is visited at an address that is not internal, or is
\* looked up.
LEMMA VisitKeeps ==
    ASSUME Inv, NEW u, NEW h, NEW t,
           \/ stage = "waiting" /\ t = 0
           \/ stage = "requesting" /\ t = timer,
           Visit(u, h, t)
    PROVE  Inv'
<1>1. CASE Raise(Raised("InvalidURL"))
  BY <1>1, RaiseKeeps DEF InAttempt, Readable, Raised, Failure
<1>2. CASE Raise(Refused(400, Refusal(u)))
  BY <1>2, RaiseKeeps DEF InAttempt, Readable, Refused, Failure
<1>3. CASE /\ ~IsRefused(u)
           /\ stage' = IF IsLiteral(u) THEN "requesting" ELSE "resolving"
           /\ target' = IF IsLiteral(u)
                        THEN Target(u.host, {u.host}, Normalized(u.host))
                        ELSE NoTarget
           /\ url' = u /\ timer' = t
           /\ UNCHANGED <<call, attempt, elapsed, waited, response, failure>>
  <2> USE <1>3 DEF Inv, call, response
  <2>1. RangeInv'
    BY DEF RangeInv, Stages
  <2>2. RequestedTargetChecked'
    <3>1. CASE IsLiteral(u)
      <4>1. ~(IsLiteral(u) /\ IsBlocked(u.host))
        BY CheckedLiteral
      <4> QED BY <3>1, <4>1 DEF RequestedTargetChecked, Target, IsBlocked, Normalized
    <3>2. CASE ~IsLiteral(u)
      BY <3>2 DEF RequestedTargetChecked
    <3> QED BY <3>1, <3>2
  <2>3. BodyInv'
    BY DEF BodyInv, BodyIsPrefix
  <2>4. TimeInv'
    <3>1. timer' <= UrlTimeout
      BY FetchAssumption DEF TimeInv, InAttempt, FetchAssumption
    <3>2. AtMost(Own - t, attempt, 0)
      BY DEF TimeInv, InAttempt, RangeInv, Own, AtMost
    <3> QED BY <3>1, <3>2 DEF TimeInv, InAttempt, AtMost, Own, Spent
  <2> QED BY <2>1, <2>2, <2>3, <2>4
<1> QED BY <1>1, <1>2, <1>3 DEF Visit

-----------------------------------------------------------------------------
(* One lemma for each group of actions.                                      *)

LEMMA InitKeeps == Init => Inv
<1> SUFFICES ASSUME Init PROVE Inv
  OBVIOUS
<1> USE FetchAssumption DEF Init, FetchAssumption
<1>1. RangeInv
  BY DEF RangeInv, Stages
<1>2. RequestedTargetChecked
  BY DEF RequestedTargetChecked
<1>3. BodyInv
  BY DEF BodyInv, BodyIsPrefix
<1>4. TimeInv
  <2>1. Own = 0 /\ Spent(1) = 0
    BY SpentFacts DEF Own
  <2> QED BY <2>1 DEF TimeInv, AtMost, InAttempt
<1> QED BY <1>1, <1>2, <1>3, <1>4 DEF Inv

\* The places where an exception is all that can happen.
LEMMA FailuresKeep ==
    ASSUME Inv, ResolveFails \/ SendFails \/ ErrorStatus \/ ReadFails \/ AttemptTimesOut
    PROVE  Inv'
<1>1. ASSUME NEW f, InAttempt, Readable(f), Raise(f) PROVE Inv'
  BY <1>1, RaiseKeeps
<1> USE DEF InAttempt, Readable, Raised, Refused, StatusError, Failure, IsAnswered
<1>2. CASE ResolveFails
  BY <1>1, <1>2 DEF ResolveFails
<1>3. CASE SendFails
  <2>1. PICK kind \in TimeoutExceptions \cup NetworkErrors \cup {"RemoteProtocolError"} :
          Raise(Raised(kind))
    BY <1>3 DEF SendFails
  <2>2. kind # "HTTPStatusError"
    BY DEF TimeoutExceptions, NetworkErrors
  <2> QED BY <1>1, <1>3, <2>1, <2>2 DEF SendFails
<1>4. CASE ErrorStatus
  <2>1. PICK status \in Statuses, wait \in RetryAfters : Raise(StatusError(status, wait))
    BY <1>4 DEF ErrorStatus
  <2>2. wait \in Nat \cup {NoWait}
    BY FetchAssumption DEF FetchAssumption
  <2> QED BY <1>1, <1>4, <2>1, <2>2 DEF ErrorStatus
<1>5. CASE ReadFails
  <2>1. PICK kind \in {"ReadTimeout", "ReadError"} \cup ProtocolErrors : Raise(Raised(kind))
    BY <1>5 DEF ReadFails
  <2>2. kind # "HTTPStatusError"
    BY DEF ProtocolErrors
  <2> QED BY <1>1, <1>5, <2>1, <2>2 DEF ReadFails
<1>6. CASE AttemptTimesOut
  BY <1>1, <1>6 DEF AttemptTimesOut
<1> QED BY <1>2, <1>3, <1>4, <1>5, <1>6

\* A URL is visited, or its redirect refused.
LEMMA VisitsKeep ==
    ASSUME Inv, Start \/ Redirect
    PROVE  Inv'
<1>1. CASE Start
  BY <1>1, VisitKeeps DEF Start
<1>2. CASE Redirect
  <2>1. stage = "requesting"
    BY <1>2 DEF Redirect, IsAnswered
  <2>2. ASSUME NEW u, NEW h, Visit(u, h, timer) PROVE Inv'
    BY <2>1, <2>2, VisitKeeps
  <2>3. ASSUME NEW detail, Raise(Refused(400, detail)) PROVE Inv'
    BY <2>1, <2>3, RaiseKeeps DEF InAttempt, Readable, Refused, Failure
  <2> QED BY <1>2, <2>2, <2>3 DEF Redirect
<1> QED BY <1>1, <1>2

\* What is pinned is one of the addresses, none of which is internal.
LEMMA ResolveKeeps ==
    ASSUME Inv, Resolve
    PROVE  Inv'
<1> PICK answer \in SUBSET Addresses :
      \/ \E ip \in Pins(answer) :
           /\ target' = Target(url.host, answer, ip)
           /\ stage' = "requesting"
           /\ UNCHANGED <<call, attempt, clock, hop, url, response, failure>>
      \/ /\ Pins(answer) = {}
         /\ Raise(Refused(400, IF answer = {} THEN "unresolved" ELSE "internal"))
  BY DEF Resolve
<1>1. stage = "resolving"
  BY DEF Resolve
<1>2. ASSUME NEW ip \in Pins(answer),
             target' = Target(url.host, answer, ip), stage' = "requesting",
             UNCHANGED <<call, attempt, clock, hop, url, response, failure>>
      PROVE  Inv'
  <2> USE <1>1, <1>2 DEF Inv, call, clock, response
  <2>1. RangeInv'
    BY DEF RangeInv, Stages
  <2>2. RequestedTargetChecked'
    BY DEF RequestedTargetChecked, Target, Pins, IsBlocked
  <2>3. BodyInv' /\ TimeInv'
    BY DEF BodyInv, BodyIsPrefix, TimeInv, InAttempt, AtMost, Own, Spent
  <2> QED BY <2>1, <2>2, <2>3
<1>3. CASE Raise(Refused(400, IF answer = {} THEN "unresolved" ELSE "internal"))
  BY <1>1, <1>3, RaiseKeeps DEF InAttempt, Readable, Refused, Failure
<1> QED BY <1>2, <1>3

LEMMA HeadersKeep ==
    ASSUME Inv, Headers
    PROVE  Inv'
<1>1. stage = "requesting"
  BY DEF Headers, IsAnswered
<1>2. CASE stage' = "reading" /\ UNCHANGED <<call, attempt, clock, place, body, sent, failure>>
  <2> USE <1>1, <1>2 DEF Inv, call, clock, place
  <2>1. RangeInv'
    BY DEF RangeInv, Stages
  <2>2. RequestedTargetChecked'
    BY DEF RequestedTargetChecked
  <2>3. BodyInv'
    <3>1. body = <<>> /\ sent = <<>>
      BY DEF BodyInv
    <3> QED BY <3>1, NothingRead DEF BodyInv, BodyIsPrefix, ByteLimit
  <2>4. TimeInv'
    BY DEF TimeInv, InAttempt, AtMost, Own, Spent
  <2> QED BY <2>1, <2>2, <2>3, <2>4
<1>3. ASSUME NEW status, NEW detail, Raise(Refused(status, detail)) PROVE Inv'
  BY <1>1, <1>3, RaiseKeeps DEF InAttempt, Readable, Refused, Failure
<1> QED BY <1>2, <1>3 DEF Headers

\* What fits of more after have, up to a limit.
LEMMA RoomLeft ==
    ASSUME NEW limit \in Nat, NEW have \in Nat, have < limit, NEW more \in Nat
    PROVE  /\ Min({more, limit - have}) \in 0..more
           /\ Min({limit, have + more}) = have + Min({more, limit - have})
<1>1. Min({more, limit - have}) = IF more <= limit - have THEN more ELSE limit - have
  BY MinOfTwo
<1>2. Min({limit, have + more}) = IF limit <= have + more THEN limit ELSE have + more
  BY MinOfTwo
<1> QED BY <1>1, <1>2

\* The beginning of two sequences that reaches into the second.
LEMMA BeginningOfBoth ==
    ASSUME NEW s \in Seq(Symbols), NEW c \in Seq(Symbols), NEW k \in 0..Len(c)
    PROVE  s \o SubSeq(c, 1, k) = SubSeq(s \o c, 1, Len(s) + k)
<1> DEFINE left == s \o SubSeq(c, 1, k)
           right == SubSeq(s \o c, 1, Len(s) + k)
<1>1. /\ left \in Seq(Symbols) /\ right \in Seq(Symbols)
      /\ Len(left) = Len(s) + k /\ Len(right) = Len(s) + k
  OBVIOUS
<1>2. \A i \in 1..(Len(s) + k) : left[i] = right[i]
  OBVIOUS
<1> HIDE DEF left, right
<1>3. left = right
  BY <1>1, <1>2, SeqEqual
<1> QED BY <1>3 DEF left, right

\* While the limit is not reached everything sent is kept; what a chunk adds is kept as
\* far as there is room.
LEMMA ChunkKeeps ==
    ASSUME Inv, Chunk
    PROVE  Inv'
<1> PICK chunk \in Chunks : body' = body \o Kept(chunk) /\ sent' = sent \o chunk
  BY DEF Chunk
<1>1. /\ stage = "reading" /\ Len(body) < ByteLimit
      /\ UNCHANGED <<call, stage, attempt, clock, place, type, failure>>
  BY DEF Chunk
<1>2. chunk \in Seq(Symbols) /\ Len(chunk) \in Nat
  <2>1. PICK n \in 0..MaxChunk : chunk \in [1..n -> Symbols]
    BY DEF Chunks, BoundedSeq, SeqOf
  <2> QED BY <2>1, FetchAssumption DEF FetchAssumption
<1>3. /\ ByteLimit \in Nat /\ body \in Seq(Symbols) /\ sent \in Seq(Symbols)
      /\ Len(body) \in Nat /\ Len(sent) \in Nat
  BY NothingRead DEF Inv, RangeInv
<1>4. body = sent
  <2>1. body = SubSeq(sent, 1, Min({ByteLimit, Len(sent)}))
    BY <1>1 DEF Inv, BodyInv, BodyIsPrefix
  <2> DEFINE came == Len(sent)
  <2> HIDE DEF came
  <2>2. Min({ByteLimit, came}) = IF ByteLimit <= came THEN ByteLimit ELSE came
    <3>1. ByteLimit \in Int /\ came \in Int
      BY <1>3 DEF came
    <3> QED BY <3>1, MinOfTwo
  <2>3. Len(sent) < ByteLimit
    BY <1>1, <1>3, <2>1, <2>2 DEF came
  <2> QED BY <1>3, <2>1, <2>2, <2>3 DEF came
<1> DEFINE kept == Min({Len(chunk), ByteLimit - Len(body)})
<1>5. kept \in 0..Len(chunk) /\ Min({ByteLimit, Len(body) + Len(chunk)}) = Len(body) + kept
  BY <1>1, <1>2, <1>3, RoomLeft
<1> HIDE DEF kept
<1>6. /\ Kept(chunk) = SubSeq(chunk, 1, kept)
      /\ Min({ByteLimit, Len(sent')}) = Len(sent) + kept
  <2>1. Len(sent') = Len(body) + Len(chunk)
    BY <1>2, <1>3, <1>4
  <2> QED BY <1>4, <1>5, <2>1 DEF Kept, kept
<1>7. sent \o SubSeq(chunk, 1, kept) = SubSeq(sent \o chunk, 1, Len(sent) + kept)
  BY <1>2, <1>3, <1>5, BeginningOfBoth
<1>8. RangeInv'
  <2>1. body' \in Seq(Symbols) /\ sent' \in Seq(Symbols)
    BY <1>2, <1>3, <1>5, <1>6
  <2> QED BY <1>1, <2>1 DEF Inv, RangeInv, call, clock
<1>9. BodyInv'
  <2>1. ByteLimit' = ByteLimit
    BY <1>1 DEF ByteLimit, call
  <2> QED BY <1>1, <1>4, <1>5, <1>6, <1>7, <2>1 DEF BodyInv, BodyIsPrefix
<1>10. RequestedTargetChecked' /\ TimeInv'
  BY <1>1 DEF Inv, RequestedTargetChecked, TimeInv, InAttempt, AtMost, Own, Spent, call, clock,
              place
<1> QED BY <1>8, <1>9, <1>10 DEF Inv

LEMMA BodyReadKeeps ==
    ASSUME Inv, BodyRead
    PROVE  Inv'
<1>1. stage = "reading"
  BY DEF BodyRead
<1>2. CASE Answer(NoFailure)
  BY <1>1, <1>2, AttemptInTime, AnswerKeeps DEF InAttempt
<1>3. CASE Raise(Refused(415, "bytes"))
  BY <1>1, <1>3, RaiseKeeps DEF InAttempt, Readable, Refused, Failure
<1>4. CASE /\ parsed /\ stage' = "parsing" /\ timer' = 0
           /\ UNCHANGED <<call, attempt, elapsed, waited, place, response, failure>>
  <2> USE <1>1, <1>4 DEF Inv, call, place, response
  <2>1. RangeInv'
    BY DEF RangeInv, Stages
  <2>2. RequestedTargetChecked' /\ BodyInv'
    BY DEF RequestedTargetChecked, BodyInv, BodyIsPrefix, ByteLimit
  <2>3. TimeInv'
    <3>1. AtMost(Own, attempt, UrlTimeout) /\ 0 <= ParseTimeout
      BY AttemptInTime, FetchAssumption DEF InAttempt, FetchAssumption
    <3>2. Own - 0 = Own
      BY DEF RangeInv, Own
    <3> QED BY <3>1, <3>2 DEF TimeInv, InAttempt, AtMost, Own, Spent
  <2> QED BY <2>1, <2>2, <2>3
<1> QED BY <1>1, <1>2, <1>3, <1>4 DEF BodyRead, Inv, RangeInv

LEMMA ParsingKeeps ==
    ASSUME Inv, Parse \/ ParseTimesOut
    PROVE  Inv'
<1>1. stage = "parsing"
  BY DEF Parse, ParseTimesOut
<1>2. AtMost(Own - (IF parsed THEN ParseTimeout ELSE 0), attempt, UrlTimeout)
  <2>1. parsed /\ AtMost(Own - timer, attempt, UrlTimeout) /\ timer <= ParseTimeout
    BY <1>1 DEF Inv, TimeInv
  <2>2. /\ ParseTimeout \in Nat /\ UrlTimeout \in Nat /\ BackoffMax \in Nat
        /\ RetryTotalTimeout \in Nat
    BY FetchAssumption DEF FetchAssumption
  <2>3. Own \in Int /\ timer \in Int /\ Spent(attempt) \in Nat
    BY SpentFacts DEF Inv, RangeInv, Own
  <2> QED BY <2>1, <2>2, <2>3 DEF AtMost
<1>3. PICK f : Answer(f)
  BY DEF Parse, ParseTimesOut
<1> QED BY <1>1, <1>2, <1>3, AnswerKeeps

\* The next attempt finds nothing of the last one, and no more time gone than it may.
LEMMA RetryKeeps ==
    ASSUME Inv, Retry
    PROVE  Inv'
<1> USE DEF Inv, Retry, call, clock
<1>1. RangeInv'
  BY FetchAssumption DEF RangeInv, Stages, TimeInv, FetchAssumption
<1>2. RequestedTargetChecked' /\ BodyInv'
  BY DEF RequestedTargetChecked, BodyInv, BodyIsPrefix
<1>3. TimeInv'
  BY DEF TimeInv, InAttempt, AtMost, Own, Spent
<1> QED BY <1>1, <1>2, <1>3

\* Time passes for the limit of the stage and for the call alike.
LEMMA TickKeeps ==
    ASSUME Inv, Tick
    PROVE  Inv'
<1> USE DEF Inv, call, place, response
<1>1. /\ elapsed' = elapsed + 1
      /\ UNCHANGED <<call, stage, attempt, place, response, failure>>
  BY DEF Tick
<1>2. RangeInv'
  BY <1>1 DEF Tick, RangeInv
<1>3. RequestedTargetChecked' /\ BodyInv'
  BY <1>1 DEF RequestedTargetChecked, BodyInv, BodyIsPrefix, ByteLimit
<1>4. TimeInv'
  <2>1. /\ Own \in Int /\ timer \in Int /\ attempt + 1 \in Nat
        /\ Spent(attempt) \in Nat /\ Spent(attempt + 1) \in Nat
        /\ UrlTimeout \in Nat /\ ParseTimeout \in Nat
        /\ BackoffMax \in Nat /\ RetryTotalTimeout \in Nat
    BY SpentFacts, FetchAssumption DEF RangeInv, Own, FetchAssumption
  <2>2. CASE stage = "waiting" /\ waited' = waited + 1 /\ timer' = timer
    <3>1. Own' = Own
      BY <1>1, <2>2 DEF RangeInv, Own
    <3> QED BY <1>1, <2>2, <3>1 DEF TimeInv, InAttempt, AtMost, Spent
  <2>3. CASE InAttempt /\ timer < UrlTimeout /\ timer' = timer + 1 /\ UNCHANGED waited
    <3>1. Own' - timer' = Own - timer /\ timer' <= UrlTimeout
      BY <1>1, <2>1, <2>3 DEF RangeInv, Own
    <3> QED BY <1>1, <2>3, <3>1 DEF TimeInv, InAttempt, AtMost, Spent
  <2>4. CASE stage = "sleeping" /\ timer > 0 /\ timer' = timer - 1 /\ UNCHANGED waited
    <3>1. Own' + timer' = Own + timer /\ Own' <= Own + timer /\ Own' \in Int
      BY <1>1, <2>1, <2>4 DEF RangeInv, Own
    <3>2. AtMost(Own', attempt + 1, 0)
      BY <2>1, <2>4, <3>1 DEF TimeInv, AtMost
    <3> QED BY <1>1, <2>4, <3>1, <3>2 DEF TimeInv, InAttempt, AtMost, Spent
  <2>5. CASE stage = "parsing" /\ timer < ParseTimeout /\ timer' = timer + 1 /\ UNCHANGED waited
    <3>1. Own' - timer' = Own - timer /\ timer' <= ParseTimeout
      BY <1>1, <2>1, <2>5 DEF RangeInv, Own
    <3> QED BY <1>1, <2>5, <3>1 DEF TimeInv, InAttempt, AtMost, Spent
  <2> QED BY <2>2, <2>3, <2>4, <2>5 DEF Tick
<1> QED BY <1>2, <1>3, <1>4

LEMMA StutterKeeps ==
    ASSUME Inv, UNCHANGED vars
    PROVE  Inv'
  BY DEF Inv, RangeInv, RequestedTargetChecked, BodyInv, BodyIsPrefix, ByteLimit, TimeInv, AtMost,
         Own, Spent, InAttempt, vars, call, clock, place, response

LEMMA NextKeeps == Inv /\ [Next]_vars => Inv'
  BY FailuresKeep, VisitsKeep, ResolveKeeps, HeadersKeep, ChunkKeeps, BodyReadKeeps,
     ParsingKeeps, RetryKeeps, TickKeeps, StutterKeeps DEF Next, Answered

-----------------------------------------------------------------------------
(* The ranges of the rest, and what a refusal of the bytes says of them.     *)

Longest == Max({UrlTimeout, ParseTimeout, BackoffMax})

\* A failure that the client can be told of.
Told(f) == f.kind \in Kinds /\ StatusOf(f) \in 400..599 /\ CodeOf(f) \in Codes

PlaceInv ==
    /\ given \in FirstUrls /\ url \in FirstUrls \cup Locations
    /\ hop \in 0..MaxRedirects
    /\ target.answer \subseteq Addresses
    /\ type \in ContentTypes

ClockInv == waited \in 0..MaxWait /\ timer \in 0..Longest

FailureInv ==
    /\ failure = NoFailure \/ Told(failure)
    /\ failure.detail = "bytes" => stage = "answered" /\ ~MatchesType(body, type)

FieldInv == PlaceInv /\ ClockInv /\ FailureInv

LEMMA LongestFacts ==
    /\ Longest \in Nat
    /\ UrlTimeout <= Longest /\ ParseTimeout <= Longest /\ BackoffMax <= Longest
<1>1. UrlTimeout \in Nat /\ ParseTimeout \in Nat /\ BackoffMax \in Nat
  BY FetchAssumption DEF FetchAssumption
<1>2. \A a, b, c \in Nat : \E m \in {a, b, c} : \A x \in {a, b, c} : m >= x
  OBVIOUS
<1>3. PICK m \in {UrlTimeout, ParseTimeout, BackoffMax} :
        \A x \in {UrlTimeout, ParseTimeout, BackoffMax} : m >= x
  BY <1>1, <1>2
<1>4. /\ Longest \in {UrlTimeout, ParseTimeout, BackoffMax}
      /\ \A x \in {UrlTimeout, ParseTimeout, BackoffMax} : Longest >= x
  BY <1>3 DEF Longest, Max
<1> QED BY <1>1, <1>4

LEMMA StatusFacts ==
    ASSUME NEW f
    PROVE  /\ f.kind = "HTTPException" => StatusOf(f) = f.status
           /\ f.kind \in {"TimeoutError"} \cup TimeoutExceptions => StatusOf(f) = 504
           /\ f.kind \in {"HTTPStatusError"} \cup (HTTPErrors \ TimeoutExceptions)
                 => StatusOf(f) = 502
           /\ f.kind \in OtherErrors => StatusOf(f) = 500
  BY DEF StatusOf, TimeoutExceptions, HTTPErrors, NetworkErrors, ProtocolErrors, OtherErrors

\* Every status above has a code.
LEMMA CodeFacts ==
    ASSUME NEW f, StatusOf(f) \in {400, 413, 415, 500, 502, 504},
           StatusOf(f) = 500 => f.kind \in OtherErrors
    PROVE  CodeOf(f) \in Codes
<1> DEFINE status == StatusOf(f)
<1>1. CASE f.kind \in OtherErrors
  BY <1>1 DEF CodeOf, Codes
<1>2. CASE f.kind \notin OtherErrors /\ f.detail \in DOMAIN OwnCode
  BY <1>2 DEF CodeOf, Codes
<1>3. CASE f.kind \notin OtherErrors /\ f.detail \notin DOMAIN OwnCode
  <2>1. status \in {400, 413, 415, 502, 504}
    BY <1>3
  <2>2. CodeOf(f) = CASE status = 400 -> "unsafe_url"
               [] status = 413 -> "content_too_large"
               [] status = 415 -> "unsupported_content_type"
               [] status = 504 -> "timeout"
               [] status = 502 -> IF f.kind = "HTTPStatusError" THEN "http_status"
                                  ELSE "network_error"
               [] OTHER -> "unknown_error"
    BY <1>3 DEF CodeOf
  <2> HIDE DEF status
  <2> QED BY <2>1, <2>2 DEF Codes
<1> QED BY <1>1, <1>2, <1>3

LEMMA RefusedTold ==
    ASSUME NEW status \in {400, 413, 415, 504}, NEW detail
    PROVE  Told(Refused(status, detail)) /\ Refused(status, detail).detail = detail
<1> DEFINE f == Refused(status, detail)
<1>1. f.kind = "HTTPException" /\ f.status = status /\ f.detail = detail
  BY DEF Refused, Failure
<1> HIDE DEF f
<1>2. StatusOf(f) = status /\ f.kind \in Kinds
  BY <1>1, StatusFacts DEF Kinds
<1>3. CodeOf(f) \in Codes
  BY <1>2, CodeFacts
<1> QED BY <1>1, <1>2, <1>3 DEF Told, f

LEMMA RaisedTold ==
    ASSUME NEW kind \in {"TimeoutError"} \cup HTTPErrors \cup OtherErrors
    PROVE  Told(Raised(kind)) /\ Raised(kind).detail = None
<1> DEFINE f == Raised(kind)
<1>1. f.kind = kind /\ f.detail = None
  BY DEF Raised, Failure
<1> HIDE DEF f
<1>2. f.kind \in Kinds
  BY <1>1 DEF Kinds
<1>3. \/ StatusOf(f) \in {502, 504}
      \/ StatusOf(f) = 500 /\ f.kind \in OtherErrors
  BY <1>1, StatusFacts DEF HTTPErrors
<1>4. CodeOf(f) \in Codes
  BY <1>3, CodeFacts
<1> QED BY <1>1, <1>2, <1>3, <1>4 DEF Told, f

LEMMA StatusTold ==
    ASSUME NEW status, NEW wait
    PROVE  Told(StatusError(status, wait)) /\ StatusError(status, wait).detail = None
<1> DEFINE f == StatusError(status, wait)
<1>1. f.kind = "HTTPStatusError" /\ f.detail = None
  BY DEF StatusError, Failure
<1> HIDE DEF f
<1>2. f.kind \in Kinds /\ StatusOf(f) = 502
  BY <1>1, StatusFacts DEF Kinds
<1>3. CodeOf(f) \in Codes
  BY <1>2, CodeFacts
<1> QED BY <1>1, <1>2, <1>3 DEF Told, f

\* No check of a URL is about bytes.
LEMMA RefusalFacts ==
    ASSUME NEW u, IsRefused(u)
    PROVE  Refusal(u) # "bytes"
<1> DEFINE F == Failed(u)
<1>1. \A a, b, c, d, e, f, g :
        LET s == <<a, b, c, d, e, f, g>>
        IN  /\ DOMAIN s = 1..7
            /\ s[1] = a /\ s[2] = b /\ s[3] = c /\ s[4] = d /\ s[5] = e /\ s[6] = f /\ s[7] = g
  OBVIOUS
<1>2. \A p, q : <<p, q>>[2] = q
  OBVIOUS
<1>3. DOMAIN Checks(u) = 1..7 /\ \A i \in 1..7 : Checks(u)[i][2] # "bytes"
  BY <1>1, <1>2 DEF Checks
<1>4. F \subseteq 1..7 /\ F # {}
  BY <1>3 DEF Failed, IsRefused
<1> HIDE DEF F
<1>5. \E x \in F : \A y \in F : x <= y
  <2>1. \A y \in F : y \in 1..7
    BY <1>4
  <2>2. CASE 1 \in F
    BY <2>1, <2>2
  <2>3. CASE 1 \notin F /\ 2 \in F
    BY <2>1, <2>3
  <2>4. CASE F \cap 1..2 = {} /\ 3 \in F
    BY <2>1, <2>4
  <2>5. CASE F \cap 1..3 = {} /\ 4 \in F
    BY <2>1, <2>5
  <2>6. CASE F \cap 1..4 = {} /\ 5 \in F
    BY <2>1, <2>6
  <2>7. CASE F \cap 1..5 = {} /\ 6 \in F
    BY <2>1, <2>7
  <2>8. CASE F \cap 1..6 = {}
    <3>1. \A y \in F : y = 7
      BY <2>1, <2>8
    <3>2. PICK x \in F : TRUE
      BY <1>4
    <3>3. \A y \in F : x <= y
      BY <3>1
    <3> QED BY <3>3
  <2> QED BY <2>2, <2>3, <2>4, <2>5, <2>6, <2>7, <2>8
<1>6. Min(F) \in F
  BY <1>5 DEF Min
<1> QED BY <1>3, <1>4, <1>6 DEF Refusal, F

\* What an attempt may fail with where it is: "bytes" is no reason to try again.
Raisable(f) ==
    /\ Told(f) /\ Readable(f)
    /\ f.detail = "bytes" => f.kind = "HTTPException" /\ ~MatchesType(body, type)

\* Only what was read in the stage "reading" is refused for its bytes.
LEMMA RefusedRaisable ==
    ASSUME NEW status \in {400, 413, 415, 504}, NEW detail, detail # "bytes"
    PROVE  Raisable(Refused(status, detail))
  BY RefusedTold DEF Raisable, Readable, Refused, Failure

LEMMA RaisedRaisable ==
    ASSUME NEW kind \in {"TimeoutError"} \cup HTTPErrors \cup OtherErrors
    PROVE  Raisable(Raised(kind))
<1>1. Raised(kind).kind # "HTTPStatusError"
  BY DEF Raised, Failure, HTTPErrors, TimeoutExceptions, NetworkErrors, ProtocolErrors, OtherErrors
<1> QED BY <1>1, RaisedTold DEF Raisable, Readable, None

LEMMA AnswerFields ==
    ASSUME FieldInv, NEW f, f = NoFailure \/ Told(f),
           f.detail = "bytes" => ~MatchesType(body, type), Answer(f)
    PROVE  FieldInv'
<1> USE DEF FieldInv, Answer, call, place, response
<1>1. PlaceInv'
  BY DEF PlaceInv
<1>2. ClockInv'
  BY LongestFacts DEF ClockInv, Longest
<1>3. FailureInv'
  BY DEF FailureInv, Told
<1> QED BY <1>1, <1>2, <1>3

LEMMA RaiseFields ==
    ASSUME Inv, FieldInv, NEW f, Raisable(f), Raise(f)
    PROVE  FieldInv'
<1>1. CASE Answer(f)
  BY <1>1, AnswerFields DEF Raisable
<1>2. CASE /\ IsRetryable(f) /\ stage' = "sleeping" /\ failure' = f
           /\ timer' \in RetryWaits(f)
           /\ UNCHANGED <<call, attempt, elapsed, waited, place, response>>
  <2> USE DEF FieldInv, call, place, response
  <2>1. PlaceInv'
    BY <1>2 DEF PlaceInv
  <2>2. ClockInv'
    <3>1. timer' \in Nat /\ timer' <= BackoffMax
      BY <1>2, WaitBounded DEF Raisable, Inv
    <3> QED BY <1>2, <3>1, LongestFacts, FetchAssumption DEF ClockInv, Longest, FetchAssumption
  <2>3. f.detail # "bytes"
    BY <1>2 DEF IsRetryable, Raisable, NetworkErrors
  <2>4. FailureInv'
    BY <1>2, <2>3 DEF FailureInv, Told, Raisable
  <2> QED BY <2>1, <2>2, <2>4
<1> QED BY <1>1, <1>2 DEF Raise

LEMMA VisitFields ==
    ASSUME Inv, FieldInv, stage # "answered",
           NEW u \in FirstUrls \cup Locations,
           NEW h, h \in 0..MaxRedirects \/ u.host = "unparsable",
           NEW t \in 0..Longest, Visit(u, h, t)
    PROVE  FieldInv'
<1>1. CASE u.host = "unparsable"
  <2>1. Raisable(Raised("InvalidURL"))
    BY RaisedRaisable DEF OtherErrors
  <2> QED BY <1>1, <2>1, RaiseFields DEF Visit
<1>2. CASE u.host # "unparsable" /\ IsRefused(u)
  <2>1. Raisable(Refused(400, Refusal(u)))
    BY <1>2, RefusedRaisable, RefusalFacts
  <2> QED BY <1>2, <2>1, RaiseFields DEF Visit
<1>3. CASE /\ h \in 0..MaxRedirects
           /\ stage' = IF IsLiteral(u) THEN "requesting" ELSE "resolving"
           /\ target' = IF IsLiteral(u)
                        THEN Target(u.host, {u.host}, Normalized(u.host))
                        ELSE NoTarget
           /\ url' = u /\ hop' = h /\ timer' = t
           /\ UNCHANGED <<call, attempt, elapsed, waited, response, failure>>
  <2> USE <1>3 DEF FieldInv, call, response
  <2>1. target'.answer \subseteq Addresses
    BY DEF NoTarget, Target, IsLiteral
  <2>2. PlaceInv'
    BY <2>1 DEF PlaceInv
  <2>3. ClockInv'
    BY DEF ClockInv, Longest
  <2>4. FailureInv'
    BY DEF FailureInv, Told
  <2> QED BY <2>2, <2>3, <2>4
<1> QED BY <1>1, <1>2, <1>3 DEF Visit

LEMMA InitFields == Init => FieldInv
<1> SUFFICES ASSUME Init PROVE FieldInv
  OBVIOUS
<1> USE DEF Init
<1>1. PlaceInv
  BY FetchAssumption DEF PlaceInv, FetchAssumption, NoTarget, Target, ContentTypes
<1>2. ClockInv
  BY FetchAssumption, LongestFacts DEF ClockInv, FetchAssumption
<1>3. FailureInv
  BY DEF FailureInv, NoFailure, Failure, None
<1> QED BY <1>1, <1>2, <1>3 DEF FieldInv

\* A URL is visited within the hops that are left, or one that no request is made for.
LEMMA VisitsFields ==
    ASSUME Inv, FieldInv, Start \/ Redirect
    PROVE  FieldInv'
<1>1. CASE Start
  <2>1. given \in FirstUrls /\ 0 \in 0..MaxRedirects /\ 0 \in 0..Longest
    BY LongestFacts, FetchAssumption DEF FieldInv, PlaceInv, FetchAssumption
  <2> QED BY <1>1, <2>1, VisitFields DEF Start
<1>2. CASE Redirect
  <2>1. stage = "requesting" /\ timer \in 0..Longest /\ hop \in 0..MaxRedirects
    BY <1>2 DEF Redirect, IsAnswered, FieldInv, ClockInv, PlaceInv
  <2>2. ASSUME NEW u \in Locations, hop < MaxRedirects \/ u.host = "unparsable",
               Visit(u, hop + 1, timer)
        PROVE  FieldInv'
    <3>1. hop + 1 \in 0..MaxRedirects \/ u.host = "unparsable"
      BY <2>1, <2>2, FetchAssumption DEF FetchAssumption
    <3> QED BY <2>1, <2>2, <3>1, VisitFields
  <2>3. ASSUME NEW detail \in {"too_many_redirects", "missing_location"},
               Raise(Refused(400, detail))
        PROVE  FieldInv'
    BY <2>3, RefusedRaisable, RaiseFields
  <2> QED BY <1>2, <2>2, <2>3 DEF Redirect
<1> QED BY <1>1, <1>2

LEMMA FailuresFields ==
    ASSUME Inv, FieldInv, ResolveFails \/ SendFails \/ ErrorStatus \/ ReadFails \/ AttemptTimesOut
    PROVE  FieldInv'
<1>1. ASSUME NEW kind \in {"TimeoutError"} \cup HTTPErrors \cup OtherErrors, Raise(Raised(kind))
      PROVE  FieldInv'
  BY <1>1, RaisedRaisable, RaiseFields
<1>2. CASE ResolveFails
  <2>1. CASE Raise(Refused(400, "unresolved"))
    BY <2>1, RefusedRaisable, RaiseFields
  <2>2. CASE Raise(Raised("UnicodeError"))
    BY <1>1, <2>2 DEF OtherErrors
  <2> QED BY <1>2, <2>1, <2>2 DEF ResolveFails
<1>3. CASE SendFails
  BY <1>1, <1>3 DEF SendFails, HTTPErrors, ProtocolErrors
<1>4. CASE ErrorStatus
  <2>1. PICK status \in Statuses, wait \in RetryAfters : Raise(StatusError(status, wait))
    BY <1>4 DEF ErrorStatus
  <2>2. wait \in Nat \cup {NoWait}
    BY FetchAssumption DEF FetchAssumption
  <2>3. Readable(StatusError(status, wait))
    BY <2>2 DEF Readable, StatusError, Failure
  <2>4. Raisable(StatusError(status, wait))
    BY <2>3, StatusTold DEF Raisable, None
  <2> QED BY <2>1, <2>4, RaiseFields
<1>5. CASE ReadFails
  BY <1>1, <1>5 DEF ReadFails, HTTPErrors, TimeoutExceptions, NetworkErrors
<1>6. CASE AttemptTimesOut
  BY <1>1, <1>6 DEF AttemptTimesOut
<1> QED BY <1>2, <1>3, <1>4, <1>5, <1>6

LEMMA ResolveFields ==
    ASSUME Inv, FieldInv, Resolve
    PROVE  FieldInv'
<1> PICK answer \in SUBSET Addresses :
      \/ \E ip \in Pins(answer) :
           /\ target' = Target(url.host, answer, ip)
           /\ stage' = "requesting"
           /\ UNCHANGED <<call, attempt, clock, hop, url, response, failure>>
      \/ /\ Pins(answer) = {}
         /\ Raise(Refused(400, IF answer = {} THEN "unresolved" ELSE "internal"))
  BY DEF Resolve
<1>1. CASE Raise(Refused(400, IF answer = {} THEN "unresolved" ELSE "internal"))
  BY <1>1, RefusedRaisable, RaiseFields
<1>2. ASSUME NEW ip, target' = Target(url.host, answer, ip),
             UNCHANGED <<call, attempt, clock, hop, url, response, failure>>
      PROVE  FieldInv'
  <2> USE <1>2 DEF FieldInv, call, clock, response
  <2>1. PlaceInv' /\ ClockInv'
    BY DEF PlaceInv, ClockInv, Longest, Target
  <2>2. FailureInv'
    BY DEF FailureInv, Told, Resolve
  <2> QED BY <2>1, <2>2
<1> QED BY <1>1, <1>2

LEMMA ReadingFields ==
    ASSUME Inv, FieldInv, Headers \/ Chunk \/ BodyRead
    PROVE  FieldInv'
<1>1. ASSUME NEW status \in {413, 415}, NEW detail, detail # "bytes",
             Raise(Refused(status, detail))
      PROVE  FieldInv'
  BY <1>1, RefusedRaisable, RaiseFields
<1>2. CASE Headers
  <2>1. ASSUME NEW t \in ContentTypes, type' = t,
               UNCHANGED <<call, attempt, clock, place, body, sent, failure>>
        PROVE  FieldInv'
    <3> USE <1>2, <2>1 DEF FieldInv, call, clock, place
    <3>1. PlaceInv' /\ ClockInv'
      BY DEF PlaceInv, ClockInv, Longest
    <3>2. FailureInv'
      BY DEF FailureInv, Told, Headers, IsAnswered
    <3> QED BY <3>1, <3>2
  <2> QED BY <1>1, <1>2, <2>1 DEF Headers
<1>3. CASE Chunk
  <2> USE <1>3 DEF Chunk, FieldInv, call, clock, place
  <2>1. PlaceInv' /\ ClockInv'
    BY DEF PlaceInv, ClockInv, Longest
  <2>2. FailureInv'
    BY DEF FailureInv, Told
  <2> QED BY <2>1, <2>2
<1>4. CASE BodyRead
  <2>1. CASE Answer(NoFailure)
    <3>1. NoFailure.detail # "bytes"
      BY DEF NoFailure, Failure, None
    <3> QED BY <2>1, <3>1, AnswerFields
  <2>2. CASE ~MatchesType(body, type) /\ Raise(Refused(415, "bytes"))
    <3>1. Raisable(Refused(415, "bytes"))
      BY <2>2, RefusedTold DEF Raisable, Readable, Refused, Failure
    <3> QED BY <2>2, <3>1, RaiseFields
  <2>3. CASE timer' = 0 /\ UNCHANGED <<call, attempt, elapsed, waited, place, response, failure>>
    <3> USE <1>4, <2>3 DEF FieldInv, call, place, response
    <3>1. PlaceInv' /\ ClockInv'
      BY LongestFacts DEF PlaceInv, ClockInv, Longest
    <3>2. FailureInv'
      BY DEF FailureInv, Told, BodyRead
    <3> QED BY <3>1, <3>2
  <2> QED BY <1>4, <2>1, <2>2, <2>3 DEF BodyRead
<1> QED BY <1>2, <1>3, <1>4

LEMMA ParsingFields ==
    ASSUME FieldInv, Parse \/ ParseTimesOut
    PROVE  FieldInv'
<1>1. CASE Answer(NoFailure)
  <2>1. NoFailure.detail # "bytes"
    BY DEF NoFailure, Failure, None
  <2> QED BY <1>1, <2>1, AnswerFields
<1>2. CASE Answer(Raised("ParserError"))
  BY <1>2, RaisedRaisable, AnswerFields DEF Raisable, OtherErrors
<1>3. ASSUME NEW status \in {400, 413, 415, 504}, NEW detail, detail # "bytes",
             Answer(Refused(status, detail))
      PROVE  FieldInv'
  BY <1>3, RefusedRaisable, AnswerFields DEF Raisable
<1> QED BY <1>1, <1>2, <1>3 DEF Parse, ParseTimesOut

\* Each limit of time is in the range of the timer.
LEMMA PassingFields ==
    ASSUME Inv, FieldInv, Retry \/ Tick
    PROVE  FieldInv'
<1>1. CASE Retry
  <2> USE <1>1 DEF Retry, FieldInv, call, clock
  <2>1. PlaceInv'
    BY FetchAssumption DEF PlaceInv, FetchAssumption, NoTarget, Target, ContentTypes
  <2>2. ClockInv'
    BY DEF ClockInv, Longest
  <2>3. FailureInv'
    BY DEF FailureInv, Told
  <2> QED BY <2>1, <2>2, <2>3
<1>2. CASE Tick
  <2> USE DEF FieldInv, call, place, response
  <2>1. UNCHANGED <<call, stage, attempt, place, response, failure>>
    BY <1>2 DEF Tick
  <2>2. PlaceInv' /\ FailureInv'
    BY <2>1 DEF PlaceInv, FailureInv, Told
  <2>3. waited' \in 0..MaxWait
    BY <1>2, FetchAssumption DEF Tick, ClockInv, FetchAssumption
  <2>4. timer' \in 0..Longest
    <3>1. timer \in 0..Longest
      BY DEF ClockInv
    <3>2. UrlTimeout \in Nat /\ ParseTimeout \in Nat
      BY FetchAssumption DEF FetchAssumption
    <3>3. \/ timer' = timer
          \/ timer' = timer + 1 /\ (timer < UrlTimeout \/ timer < ParseTimeout)
          \/ timer' = timer - 1 /\ timer > 0
      BY <1>2 DEF Tick
    <3> QED BY <3>1, <3>2, <3>3, LongestFacts
  <2> QED BY <2>2, <2>3, <2>4 DEF ClockInv, Longest
<1> QED BY <1>1, <1>2

LEMMA StutterFields ==
    ASSUME FieldInv, UNCHANGED vars
    PROVE  FieldInv'
  BY DEF FieldInv, PlaceInv, ClockInv, FailureInv, Told, Longest, vars, call, clock, place, response

LEMMA NextFields == Inv /\ FieldInv /\ [Next]_vars => FieldInv'
  BY VisitsFields, FailuresFields, ResolveFields, ReadingFields, ParsingFields, PassingFields,
     StutterFields DEF Next, Answered

LEMMA Invariance == Spec => []Inv
  BY InitKeeps, NextKeeps, PTL DEF Spec

LEMMA FieldInvariance == Spec => []FieldInv
  BY Invariance, InitFields, NextFields, PTL DEF Spec

\* Every variable of a call stays in its range, for every setting and every server: no
\* call makes more attempts than the settings allow, or an attempt more hops, and every
\* failure has a status and a code that the service knows.
THEOREM TypeCorrect == Spec => []TypeOK
<1>1. Inv /\ FieldInv => TypeOK
  <2> SUFFICES ASSUME Inv, FieldInv PROVE TypeOK
    OBVIOUS
  <2>1. attempt \in 1..RetryAttempts /\ timer \in 0..Max({UrlTimeout, ParseTimeout, BackoffMax})
    BY FetchAssumption DEF Inv, RangeInv, FieldInv, ClockInv, Longest, FetchAssumption
  <2>2. failure.kind \in Kinds
    BY DEF FieldInv, FailureInv, Told, NoFailure, Failure, Kinds
  <2> QED BY <2>1, <2>2 DEF TypeOK, Inv, RangeInv, FieldInv, PlaceInv, ClockInv, FailureInv, Told
<1> QED BY <1>1, Invariance, FieldInvariance, PTL

\* The beginning of what may be a text is one, but that it may end inside of a character.
LEMMA TextOrCut ==
    ASSUME NEW s \in Seq(Symbols), NEW n \in 0..Len(s), TextSoFar(s),
           ~LooksLikeText(SubSeq(s, 1, n))
    PROVE  Last(SubSeq(s, 1, n)) = "lead"
<1> DEFINE b == SubSeq(s, 1, n)
<1>1. Len(b) = n /\ DOMAIN b = 1..n /\ \A i \in 1..n : b[i] = s[i]
  OBVIOUS
<1>2. ~LooksLikeText(b)
  OBVIOUS
<1>3. DOMAIN s = 1..Len(s) /\ Len(s) \in Nat
  OBVIOUS
<1> HIDE DEF b
<1>4. \A i \in 1..n : /\ b[i] # "nul"
                      /\ b[i] = "cont" <=> i > 1 /\ b[i - 1] = "lead"
  <2> TAKE i \in 1..n
  <2>1. i \in DOMAIN s /\ (i > 1 => i - 1 \in 1..n)
    BY <1>3
  <2>2. /\ s[i] # "nul"
        /\ s[i] = "cont" <=> i > 1 /\ s[i - 1] = "lead"
    BY <2>1 DEF TextSoFar
  <2> QED BY <1>1, <2>1, <2>2
<1>5. PICK i \in 1..n : /\ b[i] = "lead"
                        /\ ~(i < n /\ b[i + 1] = "cont")
  BY <1>1, <1>2, <1>4 DEF LooksLikeText, Decodes
<1>6. i = n
  <2> SUFFICES ASSUME i < n PROVE FALSE
    BY <1>3
  <2>1. i + 1 \in 1..n /\ i + 1 > 1 /\ (i + 1) - 1 = i
    BY <1>3
  <2>2. b[i + 1] = "cont"
    BY <1>4, <1>5, <2>1
  <2> QED BY <1>5, <2>2
<1> QED BY <1>1, <1>5, <1>6 DEF Last, b

\* A response declared as text that may be text as far as it came is refused for its bytes
\* only where what was kept of it ends inside of a character.
THEOREM TextRefusal == Spec => []TextRefusedOnlyWhenCut
<1>1. Inv /\ FieldInv => TextRefusedOnlyWhenCut
  <2> SUFFICES ASSUME Inv, FieldInv, stage = "answered", failure.detail = "bytes",
                      type = "text/plain", TextSoFar(sent)
               PROVE  Last(body) = "lead"
    BY DEF TextRefusedOnlyWhenCut
  <2> DEFINE came == Len(sent)
             n == Min({ByteLimit, came})
  <2>1. ~LooksLikeText(body)
    BY DEF FieldInv, FailureInv, MatchesType
  <2>2. sent \in Seq(Symbols) /\ came \in Nat /\ ByteLimit \in Nat
    BY NothingRead DEF Inv, RangeInv
  <2>3. body = SubSeq(sent, 1, n)
    BY DEF Inv, BodyInv, BodyIsPrefix
  <2>4. n \in 0..Len(sent)
    <3> HIDE DEF came
    <3>1. n \in 0..came
      BY <2>2, MinOfTwo
    <3> QED BY <3>1 DEF came
  <2> HIDE DEF n
  <2> QED BY <2>1, <2>2, <2>3, <2>4, TextOrCut
<1> QED BY <1>1, Invariance, FieldInvariance, PTL

\* Every request goes to an address found for the host of its URL, with no internal one
\* among those found with it, in every attempt and after every redirect of fetch_url.
THEOREM TargetsChecked == Spec => []RequestedTargetChecked
<1>1. Inv => RequestedTargetChecked
  BY DEF Inv
<1> QED BY <1>1, Invariance, PTL

\* What fetch_url keeps is the beginning of what one response sent, to the byte limit.
THEOREM BodyIsBeginning == Spec => []BodyIsPrefix
<1>1. Inv => BodyIsPrefix
  BY DEF Inv, BodyInv
<1> QED BY <1>1, Invariance, PTL

\* The attempts, sleeps and redirects of fetch_url take no longer than FetchBound, the
\* waits for the outbound limiter left out, and a parser its timeout in addition.
THEOREM TimeBounded == Spec => []ElapsedBounded
<1>1. Inv => ElapsedBounded
  <2> SUFFICES ASSUME Inv PROVE ElapsedBounded
    OBVIOUS
  <2> DEFINE byAttempts == RetryAttempts * UrlTimeout + (RetryAttempts - 1) * BackoffMax
             byTime == RetryTotalTimeout - 1 + BackoffMax + UrlTimeout
             parsing == IF parsed /\ stage \in {"parsing", "answered"} THEN ParseTimeout ELSE 0
  <2>1. /\ UrlTimeout \in Nat /\ ParseTimeout \in Nat
        /\ BackoffMax \in Nat /\ RetryTotalTimeout \in Nat
        /\ RetryAttempts \in Nat /\ byAttempts \in Int /\ byTime \in Int
    BY FetchAssumption DEF FetchAssumption
  <2>2. Own \in Int /\ timer \in Int /\ Spent(attempt) \in Nat /\ Spent(attempt + 1) \in Nat
    BY SpentFacts DEF Inv, RangeInv, Own
  <2>3. \/ AtMost(Own - parsing, attempt, UrlTimeout)
        \/ stage = "sleeping" /\ attempt + 1 <= RetryAttempts /\ AtMost(Own, attempt + 1, 0)
    <3>1. CASE stage = "waiting" \/ InAttempt
      BY <2>2, <3>1, AttemptInTime DEF InAttempt
    <3>2. CASE stage = "sleeping"
      BY <2>1, <3>2 DEF Inv, TimeInv, RangeInv
    <3>3. CASE stage = "parsing"
      <4>1. parsing = ParseTimeout /\ AtMost(Own - timer, attempt, UrlTimeout)
              /\ timer <= ParseTimeout
        BY <3>3 DEF Inv, TimeInv
      <4> HIDE DEF parsing
      <4> QED BY <2>1, <2>2, <4>1 DEF AtMost
    <3>4. CASE stage = "answered"
      BY <3>4 DEF Inv, TimeInv
    <3> QED BY <3>1, <3>2, <3>3, <3>4 DEF Inv, RangeInv, Stages, InAttempt
  <2>4. Own - parsing <= byAttempts /\ Own - parsing <= byTime
    <3>1. CASE AtMost(Own - parsing, attempt, UrlTimeout)
      <4>1. Spent(attempt) + UrlTimeout <= byAttempts
        BY SpentBound DEF Inv, RangeInv
      <4>2. parsing \in Nat
        BY <2>1
      <4> HIDE DEF parsing, byAttempts
      <4> QED BY <2>1, <2>2, <3>1, <4>1, <4>2 DEF AtMost
    <3>2. CASE stage = "sleeping" /\ attempt + 1 <= RetryAttempts /\ AtMost(Own, attempt + 1, 0)
      <4>1. Spent(attempt + 1) + UrlTimeout <= byAttempts
        BY <3>2, SpentBound DEF Inv, RangeInv
      <4>2. parsing = 0
        BY <3>2
      <4> HIDE DEF parsing, byAttempts
      <4> QED BY <2>1, <2>2, <3>2, <4>1, <4>2 DEF AtMost
    <3> QED BY <2>3, <3>1, <3>2
  <2>5. FetchBound = IF byAttempts <= byTime THEN byAttempts ELSE byTime
    BY <2>1, MinOfTwo DEF FetchBound
  <2>6. parsing \in Nat
    BY <2>1
  <2> HIDE DEF byAttempts, byTime
  <2> QED BY <2>1, <2>2, <2>4, <2>5, <2>6 DEF ElapsedBounded, Own
<1> QED BY <1>1, Invariance, PTL

=============================================================================
