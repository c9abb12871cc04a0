------------------------------ MODULE FetchCall ------------------------------
(***************************************************************************)
(* One call of preview_url or preview_parsed_url (services/ingestion.py):  *)
(* fetch_url with its attempts, redirects, time limits and byte cap        *)
(* (services/fetching.py), then, for a parsed preview, parse_document.     *)
(*                                                                         *)
(* Time is told in ticks.  The limiters are those of FetchLimits: here the *)
(* outbound one lets the call in after at most MaxWait ticks in all, and   *)
(* the wait for the one of a host is a part of "requesting".               *)
(***************************************************************************)
EXTENDS UrlSafety, ResponseAdmission, IngestionErrors

CONSTANTS
    RetryAttempts, RetryTotalTimeout, BackoffInitial, BackoffMax,
    Jitter,          \* what tenacity adds to a backoff at most
    UrlTimeout, ParseTimeout, MaxRedirects, MaxPreviewBytes, MaxParseBytes,
    FirstUrls,       \* what the client may ask for
    Locations,       \* where a redirect may point
    Statuses,        \* statuses of a response that is an error
    RetryAfters,     \* what a Retry-After header may ask for
    MaxWait,         \* bound: ticks spent before the outbound limiter
    MaxChunk         \* bound: symbols that arrive at once

ASSUME FetchAssumption ==
    /\ {RetryAttempts, RetryTotalTimeout, UrlTimeout, ParseTimeout} \subseteq Nat \ {0}
    /\ {MaxPreviewBytes, MaxParseBytes, MaxChunk} \subseteq Nat \ {0}
    /\ BackoffInitial \in Nat \ {0} /\ BackoffMax \in Nat /\ BackoffInitial <= BackoffMax
    /\ {Jitter, MaxRedirects, MaxWait} \subseteq Nat
    /\ FirstUrls \cup Locations \subseteq Url
    /\ RetryAfters \subseteq Nat \cup {NoWait}

VARIABLES
    parsed,    \* which of the two previews it is
    given,     \* the URL asked for
    stage,
    attempt,   \* tenacity's attempt_number
    elapsed,   \* ticks since the first attempt began (tenacity's seconds_since_start)
    waited,    \* how many of them passed before the outbound limiter (history)
    timer,     \* ticks of the time limit of this stage that have passed, or ticks that
               \* are left to sleep
    hop,       \* index of the redirect loop
    url,       \* current_url
    target,    \* what validate_url_is_safe returned for it
    type,      \* Content-Type of the response
    body,      \* what is kept of it
    sent,      \* what came of it (history)
    failure    \* the exception that ended the last attempt

call == <<parsed, given>>
clock == <<elapsed, waited, timer>>
place == <<hop, url, target>>
response == <<type, body, sent>>
vars == <<call, stage, attempt, clock, place, response, failure>>

Stages == {"waiting", "resolving", "requesting", "reading", "sleeping", "parsing",
           "answered"}

\* Inside asyncio.timeout(url_timeout_seconds).
InAttempt == stage \in {"resolving", "requesting", "reading"}

NoTarget == Target("none", {}, "none")

\* preview_url reads max_preview_bytes of whatever it is; preview_parsed_url reads
\* max_parse_bytes, of the types it can parse.
ByteLimit == IF parsed THEN MaxParseBytes ELSE MaxPreviewBytes

Init ==
    /\ parsed \in BOOLEAN
    /\ given \in FirstUrls
    /\ stage = "waiting"
    /\ attempt = 1
    /\ elapsed = 0 /\ waited = 0 /\ timer = 0
    /\ hop = 0 /\ url = given /\ target = NoTarget
    /\ type = "missing" /\ body = <<>> /\ sent = <<>>
    /\ failure = NoFailure

-----------------------------------------------------------------------------
(* How an attempt ends.                                                      *)

\* is_retryable_exception, of a GET.
IsRetryable(f) ==
    \/ f.kind \in {"ConnectTimeout"} \cup NetworkErrors
    \/ f.kind = "HTTPStatusError" /\ f.status \in {429, 500, 502, 503, 504}

\* A slip that compares the attempt number with >.
StopLate == attempt > RetryAttempts \/ elapsed >= RetryTotalTimeout

\* should_stop_retry.
ShouldStop == attempt >= RetryAttempts \/ elapsed >= RetryTotalTimeout

\* wait_exponential_jitter, which is never below nought.
Backoffs(n) ==
    {Max({0, Min({BackoffInitial * 2^(n - 1) + j, BackoffMax})}) : j \in 0..Jitter}

\* A slip that waits as long as the server says.
ObedientWaits(f) ==
    IF f.kind = "HTTPStatusError" /\ f.status \in {429, 503} /\ f.retry_after # NoWait
    THEN {f.retry_after}
    ELSE Backoffs(attempt)

\* get_retry_wait_seconds: a Retry-After that can be read, cut to the longest backoff.
RetryWaits(f) ==
    IF f.kind = "HTTPStatusError" /\ f.status \in {429, 503} /\ f.retry_after # NoWait
    THEN {Min({f.retry_after, BackoffMax})}
    ELSE Backoffs(attempt)

\* The call is over; what it knows of the response is still to be told.
Answer(f) ==
    /\ stage' = "answered"
    /\ failure' = f
    /\ timer' = 0
    /\ UNCHANGED <<call, attempt, elapsed, waited, place, response>>

\* An exception leaves the attempt: another one follows a sleep, or it is the answer.
Raise(f) ==
    IF IsRetryable(f) /\ ~ShouldStop
    THEN /\ stage' = "sleeping"
         /\ failure' = f
         /\ timer' \in RetryWaits(f)
         /\ UNCHANGED <<call, attempt, elapsed, waited, place, response>>
    ELSE Answer(f)

\* The sleep is over, and fetch_url begins anew: nothing is left of the last attempt.
Retry ==
    /\ stage = "sleeping" /\ timer = 0
    /\ stage' = "waiting"
    /\ attempt' = attempt + 1
    /\ hop' = 0 /\ url' = given /\ target' = NoTarget
    /\ type' = "missing" /\ body' = <<>> /\ sent' = <<>>
    /\ UNCHANGED <<call, clock, failure>>

-----------------------------------------------------------------------------
(* Where the attempt goes.                                                   *)

\* validate_url_is_safe of a URL, as far as it goes by itself, t ticks into the attempt.
Visit(u, h, t) ==
    IF u.host = "unparsable" THEN Raise(Raised("InvalidURL"))
    ELSE IF IsRefused(u) THEN Raise(Refused(400, Refusal(u)))
    ELSE /\ stage' = IF IsLiteral(u) THEN "requesting" ELSE "resolving"
         /\ target' = IF IsLiteral(u)
                      THEN Target(u.host, {u.host}, Normalized(u.host))
                      ELSE NoTarget
         /\ url' = u /\ hop' = h /\ timer' = t
         /\ UNCHANGED <<call, attempt, elapsed, waited, response, failure>>

\* outbound_fetch_limiter.acquire() returns, and the time of the attempt begins.
Start == stage = "waiting" /\ Visit(given, 0, 0)

\* getaddrinfo has an answer: addresses, one of which is pinned, or none that will do.
Resolve ==
    /\ stage = "resolving"
    /\ \E answer \in SUBSET Addresses :
         \/ \E ip \in Pins(answer) :
              /\ target' = Target(url.host, answer, ip)
              /\ stage' = "requesting"
              /\ UNCHANGED <<call, attempt, clock, hop, url, response, failure>>
         \/ /\ Pins(answer) = {}
            /\ Raise(Refused(400, IF answer = {} THEN "unresolved" ELSE "internal"))

\* getaddrinfo fails: gaierror, or a name that cannot be encoded.
ResolveFails ==
    /\ stage = "resolving"
    /\ Raise(Refused(400, "unresolved")) \/ Raise(Raised("UnicodeError"))

\* client.send raises.
SendFails ==
    /\ stage = "requesting"
    /\ \E kind \in TimeoutExceptions \cup NetworkErrors \cup {"RemoteProtocolError"} :
         Raise(Raised(kind))

\* Nobody listens on port zero.
IsAnswered == stage = "requesting" /\ url.port # "zero"

\* A slip that follows a redirect without looking where it leads.
FollowUnchecked ==
    /\ IsAnswered /\ hop < MaxRedirects
    /\ \E u \in Locations : ~IsRefused(u) /\ url' = u
    /\ hop' = hop + 1
    /\ UNCHANGED <<call, stage, attempt, clock, target, response, failure>>

\* A redirect: the loop goes on with the URL it names, or has no turn left.
Redirect ==
    /\ IsAnswered
    /\ \/ \E u \in Locations :
            IF hop < MaxRedirects \/ u.host = "unparsable"
            THEN Visit(u, hop + 1, timer)
            ELSE Raise(Refused(400, "too_many_redirects"))
       \/ Raise(Refused(400, "missing_location"))

-----------------------------------------------------------------------------
(* The response.                                                             *)

\* raise_for_status.
ErrorStatus ==
    /\ IsAnswered
    /\ \E status \in Statuses, wait \in RetryAfters : Raise(StatusError(status, wait))

\* The headers of a response that is no error, and what they let through.
Headers ==
    /\ IsAnswered
    /\ \E declared \in {NoLength} \cup 0..(ByteLimit + 1), t \in ContentTypes :
         IF DeclaresTooMuch(declared, ByteLimit) THEN Raise(Refused(413, "declared_length"))
         ELSE IF parsed /\ TypeRefused(t, MediaTypes) THEN Raise(Refused(415, "type"))
         ELSE /\ stage' = "reading"
              /\ type' = t
              /\ UNCHANGED <<call, attempt, clock, place, body, sent, failure>>

\* A slip that cuts each chunk to the limit instead of to what is left of it.
CutEach(chunk) == SubSeq(chunk, 1, Min({Len(chunk), ByteLimit}))

\* chunk[:remaining].
Kept(chunk) == SubSeq(chunk, 1, Min({Len(chunk), ByteLimit - Len(body)}))

Chunks == BoundedSeq(Symbols, MaxChunk) \ {<<>>}

Chunk ==
    /\ stage = "reading" /\ Len(body) < ByteLimit
    /\ \E chunk \in Chunks : /\ body' = body \o Kept(chunk)
                            /\ sent' = sent \o chunk
    /\ UNCHANGED <<call, stage, attempt, clock, place, type, failure>>

\* The response ends, or a chunk too many breaks the loop: that the limit is reached is
\* only seen when the next chunk comes.
BodyRead ==
    /\ stage = "reading"
    /\ IF ~parsed THEN Answer(NoFailure)
       ELSE IF ~MatchesType(body, type) THEN Raise(Refused(415, "bytes"))
       ELSE /\ stage' = "parsing"
            /\ timer' = 0
            /\ UNCHANGED <<call, attempt, elapsed, waited, place, response, failure>>

ReadFails ==
    /\ stage = "reading"
    /\ \E kind \in {"ReadTimeout", "ReadError"} \cup ProtocolErrors : Raise(Raised(kind))

-----------------------------------------------------------------------------
(* parse_document, whose pool of threads is ParserPool's.                    *)

\* Text always has a text.  PdfReader and the pages' text may fail, and there may be too
\* many pages; counting them may fail too, outside of the try blocks.  Around the parser
\* of HTML, which may reject what it reads or nest too deep, there is none.
Parse ==
    /\ stage = "parsing"
    /\ \/ Answer(NoFailure)
       \/ type # "text/plain" /\ Answer(Raised("ParserError"))
       \/ /\ type = "application/pdf"
          /\ \/ Answer(Refused(400, "pdf_malformed"))
             \/ Answer(Refused(413, "pdf_pages"))

ParseTimesOut ==
    /\ stage = "parsing" /\ timer = ParseTimeout
    /\ Answer(Refused(504, "parse_timeout"))

-----------------------------------------------------------------------------
(* Time.                                                                     *)

\* asyncio.timeout cancels what the attempt awaits.
AttemptTimesOut == InAttempt /\ timer = UrlTimeout /\ Raise(Raised("TimeoutError"))

\* A limit that is reached acts before more time passes.
Tick ==
    /\ \/ stage = "waiting" /\ waited < MaxWait /\ waited' = waited + 1 /\ timer' = timer
       \/ InAttempt /\ timer < UrlTimeout /\ timer' = timer + 1 /\ UNCHANGED waited
       \/ stage = "sleeping" /\ timer > 0 /\ timer' = timer - 1 /\ UNCHANGED waited
       \/ stage = "parsing" /\ timer < ParseTimeout /\ timer' = timer + 1 /\ UNCHANGED waited
    /\ elapsed' = elapsed + 1
    /\ UNCHANGED <<call, stage, attempt, place, response, failure>>

Answered == stage = "answered" /\ UNCHANGED vars

Next ==
    \/ Start \/ Resolve \/ ResolveFails \/ SendFails \/ Redirect \/ ErrorStatus \/ Headers
    \/ Chunk \/ BodyRead \/ ReadFails \/ Parse \/ ParseTimesOut
    \/ AttemptTimesOut \/ Retry \/ Tick
    \/ Answered

Spec == Init /\ [][Next]_vars

-----------------------------------------------------------------------------
(* Properties.                                                               *)

\* Every variable stays in its range: no call makes more attempts, or an attempt more
\* hops, than the settings allow, and every answer has a status and a code.
TypeOK ==
    /\ parsed \in BOOLEAN /\ given \in FirstUrls /\ url \in FirstUrls \cup Locations
    /\ stage \in Stages
    /\ attempt \in 1..RetryAttempts
    /\ waited \in 0..MaxWait /\ elapsed \in Nat
    /\ timer \in 0..Max({UrlTimeout, ParseTimeout, BackoffMax})
    /\ hop \in 0..MaxRedirects
    /\ target.answer \subseteq Addresses
    /\ type \in ContentTypes
    /\ body \in Seq(Symbols) /\ sent \in Seq(Symbols)
    /\ failure.kind \in Kinds
    /\ stage = "answered" /\ failure # NoFailure
           => StatusOf(failure) \in 400..599 /\ CodeOf(failure) \in Codes

\* The longest that fetch_url may take, the waits for the outbound limiter left out:
\* each attempt up to the timeout of a URL, with a backoff before the next, and none
\* begins a backoff when the total time is over.
FetchBound ==
    Min({RetryAttempts * UrlTimeout + (RetryAttempts - 1) * BackoffMax,
         RetryTotalTimeout - 1 + BackoffMax + UrlTimeout})

\* "retry attempts and total timeout" (README.md), whatever the servers do and ask for:
\* the attempts, redirects, sleeps and Retry-After headers of a call never add up to
\* more than that, and one more parser timeout if it is to be parsed.
ElapsedBounded ==
    elapsed - waited <= FetchBound + (IF parsed /\ stage \in {"parsing", "answered"}
                                      THEN ParseTimeout ELSE 0)

\* What is kept of a response is the beginning of it, to the byte limit, however it is
\* cut in chunks and whatever was read in earlier attempts.
BodyIsPrefix ==
    stage \in {"reading", "parsing", "answered"}
        => body = SubSeq(sent, 1, Min({ByteLimit, Len(sent)}))

\* Up to its last byte a sequence may be the beginning of a text.
TextSoFar(s) ==
    \A i \in DOMAIN s : /\ s[i] # "nul"
                        /\ s[i] = "cont" <=> i > 1 /\ s[i - 1] = "lead"

\* "Reject content whose bytes clearly contradict the declared media type."
\* (core/content_sniffing.py): a text is refused for its bytes only if it is none, or if
\* it breaks off inside of a character, as the byte limit may make it do.
TextRefusedOnlyWhenCut ==
    stage = "answered" /\ failure.detail = "bytes" /\ type = "text/plain"
        => \/ ~TextSoFar(sent)
           \/ Last(body) = "lead"

\* "redirect revalidation" (docs/architecture.md): whatever came before in this attempt or
\* another, a request goes to an address found for the very host of the URL at hand, and
\* no address found with it is internal, as IPv4 or as IPv6 that maps it.
RequestedTargetChecked ==
    stage \in {"requesting", "reading"}
        => /\ target.hostname = url.host
           /\ target.resolved_ip \in {Normalized(ip) : ip \in target.answer}
           /\ \A ip \in target.answer : Normalized(ip) \notin Internal

=============================================================================
