---------------------------- MODULE MCFetchLimits ----------------------------
(***************************************************************************)
(* FetchLimits on small instances.                                         *)
(***************************************************************************)
EXTENDS FetchLimits, TLC

\* Tasks are interchangeable, and so are hosts.  (Limiter objects are not: a new
\* one is picked with CHOOSE.)
Symmetry == Permutations(Fetches) \cup Permutations(Hosts)

=============================================================================
