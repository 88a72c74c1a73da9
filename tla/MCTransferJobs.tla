--------------------------- MODULE MCTransferJobs ---------------------------
(* Model-checking instance of TransferJobs.                                *)
EXTENDS TransferJobs
=============================================================================
