----------------------------- MODULE MCFetchCall -----------------------------
(***************************************************************************)
(* FetchCall on a small instance.                                          *)
(***************************************************************************)
EXTENDS FetchCall

CONSTANTS name, pub, internal, mapped

MCIPv4Of == [ip \in {pub, internal, mapped} |-> IF ip = mapped THEN internal ELSE ip]

Http(host) == [scheme |-> "http", userinfo |-> FALSE, host |-> host, port |-> "allowed"]

MCFirstUrls == {Http(name), [Http(pub) EXCEPT !.port = "zero"]}

\* One URL for each check, and two that fetches go on to.
MCLocations ==
    {Http(name), [Http(pub) EXCEPT !.scheme = "https"], Http(mapped), Http("localhost"),
     Http("none"), Http("unparsable")}
        \cup {[Http(name) EXCEPT !.scheme = "other"], [Http(name) EXCEPT !.userinfo = TRUE],
              [Http(name) EXCEPT !.port = "other"], [Http(name) EXCEPT !.port = "invalid"]}

\* No header, or none that can be read; at once; longer than any backoff.
MCRetryAfters == {NoWait, 0, 3}

===============================================================================
