-------------------------- MODULE MCIngestionSystem --------------------------
(***************************************************************************)
(* IngestionSystem on small instances.                                     *)
(***************************************************************************)
EXTENDS IngestionSystem, TLC

\* Attempts of one mode, commands and URLs are interchangeable.
Symmetry ==
    Permutations(ParsedAttempts) \cup Permutations(Attempts \ ParsedAttempts)
        \cup Permutations(Admins) \cup Permutations(Urls)

=============================================================================
