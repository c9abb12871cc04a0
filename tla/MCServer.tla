------------------------------- MODULE MCServer -------------------------------
(***************************************************************************)
(* Server on a small instance.                                             *)
(***************************************************************************)
EXTENDS Server

Switches(enabled, open, database) ==
    [rate_limit_enabled |-> enabled, rate_limit_fail_open |-> open, database_enabled |-> database]

\* Each switch both ways, and the limiter that must have its storage with the longest probe.
MCDeployments == {Switches(TRUE, FALSE, TRUE), Switches(TRUE, TRUE, FALSE),
                  Switches(FALSE, FALSE, TRUE)}

===============================================================================
