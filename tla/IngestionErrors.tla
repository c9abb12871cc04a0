--------------------------- MODULE IngestionErrors ---------------------------
(***************************************************************************)
(* How a failed preview is told to the client: what fetch_url and          *)
(* parse_document raise, the except clauses of preview_url and             *)
(* preview_parsed_url (services/ingestion.py), and the code that           *)
(* build_ingestion_error picks for an item of a batch.                     *)
(*                                                                         *)
(* A failure is a record: the kind of the exception; the status, that of   *)
(* the HTTPException or of the response; the detail of an HTTPException;   *)
(* the seconds a response asks to wait.                                    *)
(***************************************************************************)
EXTENDS Integers

None == "none"
NoWait == -1

Failure(kind, status, detail, wait) ==
    [kind |-> kind, status |-> status, detail |-> detail, retry_after |-> wait]

NoFailure == Failure(None, 0, None, NoWait)
Refused(status, detail) == Failure("HTTPException", status, detail, NoWait)
Raised(kind) == Failure(kind, 0, None, NoWait)
StatusError(status, wait) == Failure("HTTPStatusError", status, None, wait)

\* The branches of httpx's exceptions that matter here.  InvalidURL and what a lookup
\* or a parser may raise besides (OtherErrors) are on none of them.
TimeoutExceptions == {"ConnectTimeout", "ReadTimeout", "WriteTimeout", "PoolTimeout"}
NetworkErrors == {"ConnectError", "ReadError", "WriteError"}
ProtocolErrors == {"RemoteProtocolError", "DecodingError"}
HTTPErrors == TimeoutExceptions \cup NetworkErrors \cup ProtocolErrors
OtherErrors == {"InvalidURL", "UnicodeError", "ParserError"}

Kinds == {None, "HTTPException", "HTTPStatusError", "TimeoutError"}
            \cup HTTPErrors \cup OtherErrors

\* The except clauses, in their order; one that nothing catches is a 500.
StatusOf(failure) ==
    CASE failure.kind = "HTTPException" -> failure.status
      [] failure.kind \in {"TimeoutError"} \cup TimeoutExceptions -> 504
      [] failure.kind \in {"HTTPStatusError"} \cup (HTTPErrors \ TimeoutExceptions) -> 502
      [] failure.kind \in OtherErrors -> 500

\* build_ingestion_error: the details that have a code of their own come before the
\* statuses.  An error that nothing catches ends the whole batch and has no code.
OwnCode == [too_many_redirects |-> "too_many_redirects",
            missing_location |-> "redirect_error",
            scheme |-> "unsupported_url_scheme",
            credentials |-> "url_credentials_not_allowed",
            port_not_allowed |-> "url_port_not_allowed",
            port_invalid |-> "url_port_invalid"]

CodeOf(failure) ==
    LET status == StatusOf(failure)
    IN  IF failure.kind \in OtherErrors THEN None
        ELSE IF failure.detail \in DOMAIN OwnCode THEN OwnCode[failure.detail]
        ELSE CASE status = 400 -> "unsafe_url"
               [] status = 413 -> "content_too_large"
               [] status = 415 -> "unsupported_content_type"
               [] status = 504 -> "timeout"
               [] status = 502 -> IF failure.kind = "HTTPStatusError" THEN "http_status"
                                  ELSE "network_error"
               [] OTHER -> "unknown_error"

\* The codes a failure may have: "unknown_error" is for those that cannot be.
Codes == {OwnCode[d] : d \in DOMAIN OwnCode}
            \cup {None, "unsafe_url", "content_too_large", "unsupported_content_type",
                  "timeout", "http_status", "network_error"}

=============================================================================
