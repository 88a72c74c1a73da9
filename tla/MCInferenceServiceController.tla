-------------------- MODULE MCInferenceServiceController --------------------
(* Small instances of InferenceServiceController for TLC. *)
EXTENDS InferenceServiceController

CONSTANTS k1, k2, v1
=============================================================================
