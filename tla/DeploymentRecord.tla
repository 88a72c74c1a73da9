-------------------------- MODULE DeploymentRecord --------------------------
(***************************************************************************)
(* What the inference service controller promises about the registry, seen *)
(* from outside: every InferenceService of the cluster (one per UID) has a *)
(* life, and at most one record in the model registry.  The record is made *)
(* while the service exists and is set to UNDEPLOYED only when the service *)
(* is being deleted; it never becomes DEPLOYED again.                      *)
(***************************************************************************)
CONSTANT Service

VARIABLES life,   \* of the service in the cluster
          record  \* desired state of its record in the registry

vars == <<life, record>>

TypeOK == /\ life \in [Service -> {"absent", "live", "deleting", "gone"}]
          /\ record \in [Service -> {"none", "DEPLOYED", "UNDEPLOYED"}]

Init == /\ life = [s \in Service |-> "absent"]
        /\ record = [s \in Service |-> "none"]

Move(s, from, to) == /\ life[s] = from
                     /\ life' = [life EXCEPT ![s] = to]
                     /\ UNCHANGED record

Appear(s) == Move(s, "absent", "live")

Delete(s) == Move(s, "live", "deleting")

Vanish(s) == Move(s, "deleting", "gone")

(* The deletion may be requested while the record is being made.           *)
Deploy(s) == /\ life[s] \in {"live", "deleting"}
             /\ record[s] = "none"
             /\ record' = [record EXCEPT ![s] = "DEPLOYED"]
             /\ UNCHANGED life

Undeploy(s) == /\ life[s] \in {"deleting", "gone"}
               /\ record[s] = "DEPLOYED"
               /\ record' = [record EXCEPT ![s] = "UNDEPLOYED"]
               /\ UNCHANGED life

Next == \E s \in Service : \/ Appear(s)
                           \/ Delete(s)
                           \/ Vanish(s)
                           \/ Deploy(s)
                           \/ Undeploy(s)

Spec == Init /\ [][Next]_vars
=============================================================================
