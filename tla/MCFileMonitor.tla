--------------------------- MODULE MCFileMonitor ---------------------------
(* Small instances of FileMonitor for TLC: two subscriptions for the same  *)
(* file.                                                                   *)
EXTENDS FileMonitor, TLC

CONSTANTS f1, s1, s2

OneFile == s1 :> f1 @@ s2 :> f1
=============================================================================
