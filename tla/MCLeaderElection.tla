-------------------------- MODULE MCLeaderElection --------------------------
(* Small instances of LeaderElection for TLC. *)
EXTENDS LeaderElection
CONSTANTS n1, n2, c1, c2
=============================================================================
