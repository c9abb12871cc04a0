----------------------------- MODULE MCParserPool -----------------------------
(***************************************************************************)
(* ParserPool on small instances.                                          *)
(***************************************************************************)
EXTENDS ParserPool

=============================================================================
