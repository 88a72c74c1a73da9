---------------------------- MODULE MCUploadJob -----------------------------
(* Model-checking instance of UploadJob.                                   *)
EXTENDS UploadJob
=============================================================================
