------------------------------ MODULE UrlSafety ------------------------------
(***************************************************************************)
(* core/url_safety.py: which URLs may be fetched, and at which address.    *)
(*                                                                         *)
(* A URL is what the checks tell apart of it.  Its host is a name, one of  *)
(* the literal addresses, or a case of its own: "localhost", "none" (no    *)
(* host), "unparsable" (httpx.URL itself refuses the text).  Its port is   *)
(* allowed (or left out), another one, zero, or no number in range.        *)
(***************************************************************************)
EXTENDS Integers, Sequences, FiniteSetsExt

CONSTANTS
    Names,      \* hostnames that only the resolver can answer for
    Addresses,
    IPv4Of,     \* the address each stands for: itself, but the IPv4 address that an
                \* IPv6 address maps
    Internal    \* those private, loopback, link-local, multicast, reserved, unspecified
                \* or of the metadata service, none of them mapped

ASSUME AddressesAssumption ==
    /\ IPv4Of \in [Addresses -> Addresses]
    /\ \A ip \in Addresses : IPv4Of[IPv4Of[ip]] = IPv4Of[ip]
    /\ Internal \subseteq {ip \in Addresses : IPv4Of[ip] = ip}
    /\ Names \cap (Addresses \cup {"localhost", "none", "unparsable"}) = {}

Hosts == Names \cup Addresses \cup {"localhost", "none", "unparsable"}

Url == [scheme : {"http", "https", "other"}, userinfo : BOOLEAN, host : Hosts,
        port : {"allowed", "other", "zero", "invalid"}]

\* _normalize_ip.
Normalized(ip) == IPv4Of[ip]

IsBlocked(ip) == Normalized(ip) \in Internal

-----------------------------------------------------------------------------
(* validate_url_is_safe, up to the lookup.  Port zero is falsy: it passes   *)
(* for the scheme's own port.                                               *)

IsLiteral(url) == url.host \in Addresses

\* Each check and what it is refused with, in the order of the code.
Checks(url) ==
    << <<url.scheme \notin {"http", "https"}, "scheme">>,
       <<url.userinfo, "credentials">>,
       <<url.host = "none", "hostname">>,
       <<url.host = "localhost", "localhost">>,
       <<url.port = "invalid", "port_invalid">>,
       <<url.port = "other", "port_not_allowed">>,
       <<IsLiteral(url) /\ IsBlocked(url.host), "internal_literal">> >>

Failed(url) == {i \in DOMAIN Checks(url) : Checks(url)[i][1]}

IsRefused(url) == Failed(url) # {}
Refusal(url) == Checks(url)[Min(Failed(url))][2]

-----------------------------------------------------------------------------
(* The rest of it: where the request goes.                                  *)

\* The addresses that may be pinned, none if one of them is blocked: a set has no
\* first member, so any of them may be the one.
Pins(answer) ==
    IF \E ip \in answer : IsBlocked(ip) THEN {} ELSE {Normalized(ip) : ip \in answer}

\* SafeFetchTarget, with the addresses the lookup brought.
Target(host, answer, ip) == [hostname |-> host, answer |-> answer, resolved_ip |-> ip]

=============================================================================
