--------------------------- MODULE MCBatchIngestion ---------------------------
(***************************************************************************)
(* The instance of BatchIngestion that TLC checks.                         *)
(***************************************************************************)
EXTENDS BatchIngestion

=============================================================================
