---------------------------- MODULE TransferJobs ----------------------------
(***************************************************************************)
(* Model transfer jobs of the UI's back end                                *)
(* (ui/bff/internal/repositories/model_transfer_jobs.go): a request        *)
(* creates a ConfigMap, Secrets and, for some registries, CA bundles, then *)
(* the Job that mounts them, and makes the Job their owner; a retry does   *)
(* the same for a new Job, with a copy of the destination's credentials.   *)
(* The Jobs are those of UploadJob.                                        *)
(***************************************************************************)
EXTENDS UploadJob

CONSTANTS Needed,  \* the objects a job needs: the CA bundles and the source's
                   \* credentials depend on the registry and on the source
          MaxLost  \* bound: calls of the back end that fail, and its crashes

Resource == {"configmap", "source", "dest", "ca"}

ASSUME NeededAssumption == Needed \subseteq Resource /\ {"configmap", "dest"} \subseteq Needed
ASSUME LostAssumption == MaxLost \in Nat

VARIABLES
    req,       \* per job: where the request that creates it is
    resources, \* per job: its ConfigMaps and Secrets that exist
    owned,     \* per job: they all have the Job for their owner
    old,       \* the job it retries and deletes afterwards, or itself
    excused,   \* history: requests that lost a call they could not repair
    lost

bffVars == <<req, resources, owned, old, excused, lost>>
vars == <<uploadVars, bffVars>>

Phases == {"none", "clone", "create", "own", "deleteOld", "ended"}

Init ==
    /\ UploadInit
    /\ req = [j \in Job |-> "none"]
    /\ resources = [j \in Job |-> {}]
    /\ owned = [j \in Job |-> FALSE]
    /\ old = [j \in Job |-> j]
    /\ excused = [j \in Job |-> FALSE]
    /\ lost = 0

-----------------------------------------------------------------------------
To(j, phase) == req' = [req EXCEPT ![j] = phase]

Lose == lost < MaxLost /\ lost' = lost + 1

(* createModelTransferJobResources(), after its validation.                *)
CreateModelTransferJob(j) ==
    /\ req[j] = "none"
    /\ To(j, "create")
    /\ UNCHANGED <<uploadVars, resources, owned, old, excused, lost>>

(* isK8sJobFailed()                                                        *)
IsK8sJobFailed(k) == failures[k] > 0 \/ job[k] = "failed"

Exists(k) == job[k] \in {"active", "complete", "failed"}

(* UpdateModelTransferJob(): the old job must be there, have failed, and   *)
(* have its destination secret, which is copied unless the request brings  *)
(* credentials.  A deletion of the old job that fails later is only        *)
(* logged, as if it had not been asked for.                                *)
UpdateModelTransferJob(j, k) ==
    /\ req[j] = "none" /\ j # k
    /\ Exists(k) /\ IsK8sJobFailed(k)
    /\ "dest" \in resources[k]
    /\ \E phase \in {"clone", "create"} : To(j, phase)
    /\ \E deleteOldJob \in BOOLEAN :
          old' = [old EXCEPT ![j] = IF deleteOldJob THEN k ELSE j]
    /\ UNCHANGED <<uploadVars, resources, owned, excused, lost>>

(* Mutant: the copy is not known as the destination secret.                *)
CloneUnderOtherName(j) ==
    /\ req[j] = "clone"
    /\ resources' = [resources EXCEPT ![j] = {"copy"}]
    /\ To(j, "create")
    /\ UNCHANGED <<uploadVars, owned, old, excused, lost>>

(* cloneDestSecretFromExisting()                                           *)
CloneDestSecret(j) ==
    /\ req[j] = "clone"
    /\ resources' = [resources EXCEPT ![j] = {"dest"}]
    /\ To(j, "create")
    /\ UNCHANGED <<uploadVars, owned, old, excused, lost>>

(* The object a request creates next, if any: the first that is needed and *)
(* missing.  A destination secret that was copied takes the place of a new *)
(* one.                                                                    *)
Order == <<"configmap", "source", "dest", "ca">>

NextObject(j) ==
    LET missing == {i \in 1..4 : Order[i] \in Needed \ resources[j]}
    IN  IF req[j] = "clone" THEN {"dest"}
        ELSE {Order[i] : i \in {i \in missing : \A h \in missing : i <= h}}

CreateResource(j) ==
    /\ req[j] = "create"
    /\ \E r \in NextObject(j) : resources' = [resources EXCEPT ![j] = @ \cup {r}]
    /\ UNCHANGED <<uploadVars, req, owned, old, excused, lost>>

(* Mutant: the destination secret is not cleaned up.                       *)
CreateFailsKeepsDest(j) ==
    /\ req[j] \in {"clone", "create"}
    /\ Lose
    /\ \E left \in {{}, resources[j]}, stray \in SUBSET NextObject(j) :
          /\ resources' = [resources EXCEPT ![j] = left \cup stray \cup (@ \cap {"dest"})]
          /\ excused' = [excused EXCEPT ![j] = left \cup stray # {}]
    /\ To(j, "ended")
    /\ UNCHANGED <<uploadVars, owned, old>>

(* A call fails, that which creates the Job included, and                  *)
(* cleanupCreatedResources() deletes what was created before it; a delete  *)
(* that fails as well is only logged (which of them stays is abstracted).  *)
(* The call may have been done and its answer lost: generateName left the  *)
(* request without the object's name, and it stays.                        *)
CreateFails(j) ==
    /\ req[j] \in {"clone", "create"}
    /\ Lose
    /\ \E left \in {{}, resources[j]}, stray \in SUBSET NextObject(j) :
          /\ resources' = [resources EXCEPT ![j] = left \cup stray]
          /\ excused' = [excused EXCEPT ![j] = left \cup stray # {}]
    /\ To(j, "ended")
    /\ UNCHANGED <<uploadVars, owned, old>>

(* The merged payload of a retry is invalid: the copied secret stays.      *)
InvalidRetry(j) ==
    /\ req[j] = "create" /\ resources[j] = {"dest"}
    /\ To(j, "ended")
    /\ excused' = [excused EXCEPT ![j] = TRUE]
    /\ UNCHANGED <<uploadVars, resources, owned, old, lost>>

CreateJob(j) ==
    /\ req[j] = "create" /\ resources[j] = Needed
    /\ Submit(j)
    /\ To(j, "own")
    /\ UNCHANGED <<resources, owned, old, excused, lost>>

(* The Job is created but the answer is lost: its resources are deleted.   *)
CreateJobUnanswered(j) ==
    /\ req[j] = "create" /\ resources[j] = Needed
    /\ Lose
    /\ Submit(j)
    /\ resources' = [resources EXCEPT ![j] = {}]
    /\ excused' = [excused EXCEPT ![j] = TRUE]
    /\ To(j, "ended")
    /\ UNCHANGED <<owned, old>>

(* The owner references are patched; a patch that fails is only logged.    *)
(* What names an owner that is gone by now is garbage collected.           *)
Own(j) ==
    /\ req[j] = "own"
    /\ owned' = [owned EXCEPT ![j] = TRUE]
    /\ resources' = [resources EXCEPT ![j] = IF job[j] = "deleted" THEN {} ELSE @]
    /\ To(j, "deleteOld")
    /\ UNCHANGED <<uploadVars, old, excused, lost>>

OwnFails(j) ==
    /\ req[j] = "own"
    /\ Lose
    /\ excused' = [excused EXCEPT ![j] = TRUE]
    /\ To(j, "deleteOld")
    /\ UNCHANGED <<uploadVars, resources, owned, old>>

(* Mutant: the old job is started again.                                   *)
RestartOld(j) ==
    /\ req[j] = "deleteOld"
    /\ IF old[j] # j /\ Exists(old[j])
       THEN job' = [job EXCEPT ![old[j]] = "active"]
            /\ UNCHANGED <<intent, failures, pod, seen, registry, uploaded, faults>>
       ELSE UNCHANGED uploadVars
    /\ To(j, "ended")
    /\ UNCHANGED <<resources, owned, old, excused, lost>>

(* A Job that is deleted is no longer the owner of its objects: they are   *)
(* orphaned with its pods.                                                 *)
Disown(k) == Delete(k) /\ owned' = [owned EXCEPT ![k] = FALSE]

(* A retry deletes the old job if it was asked to.                         *)
DeleteOld(j) ==
    /\ req[j] = "deleteOld"
    /\ IF old[j] # j /\ Exists(old[j]) THEN Disown(old[j]) ELSE UNCHANGED <<uploadVars, owned>>
    /\ To(j, "ended")
    /\ UNCHANGED <<resources, old, excused, lost>>

DeleteModelTransferJob(j) == Disown(j) /\ UNCHANGED <<req, resources, old, excused, lost>>

(* The back end stops in the middle of a request.                          *)
Crash(j) ==
    /\ req[j] \in {"create", "own", "deleteOld"}
    /\ Lose
    /\ excused' = [excused EXCEPT ![j] = TRUE]
    /\ To(j, "ended")
    /\ UNCHANGED <<uploadVars, resources, owned, old>>

(* A pod starts once everything it mounts is there.                        *)
Mount(j) == Needed \subseteq resources[j] /\ StartPod(j) /\ UNCHANGED bffVars

-----------------------------------------------------------------------------
Next ==
    \/ RunNext /\ UNCHANGED bffVars
    \/ \E j \in Job :
          \/ CreateModelTransferJob(j) \/ DeleteModelTransferJob(j)
          \/ \E k \in Job : UpdateModelTransferJob(j, k)
          \/ CloneDestSecret(j) \/ CreateResource(j) \/ CreateFails(j) \/ InvalidRetry(j)
          \/ CreateJob(j) \/ CreateJobUnanswered(j) \/ Own(j) \/ OwnFails(j)
          \/ DeleteOld(j) \/ Crash(j) \/ Mount(j)

Spec == Init /\ [][Next]_vars

-----------------------------------------------------------------------------
TypeOK ==
    /\ UploadTypeOK
    /\ req \in [Job -> Phases]
    /\ resources \in [Job -> SUBSET Resource]
    /\ owned \in [Job -> BOOLEAN]
    /\ old \in [Job -> Job]
    /\ excused \in [Job -> BOOLEAN]
    /\ lost \in 0..MaxLost

(* A request that ended leaves no ConfigMap and no Secret behind that its  *)
(* Job does not own, and a Job has what its pods mount.  Excused are       *)
(* requests that lost a call, and objects whose Job was deleted.           *)
NoLeak ==
    \A j \in Job : ~excused[j] /\ job[j] # "deleted" =>
       /\ req[j] = "ended" => resources[j] = {} \/ owned[j]
       /\ job[j] # "none" => resources[j] = Needed

(* No ConfigMap and no Secret names an owner that is gone, which would     *)
(* have it garbage collected under the pods that still mount it, whoever   *)
(* deletes the Job while the owner references are being patched.           *)
NoDanglingOwner == \A j \in Job : owned[j] => Exists(j) \/ resources[j] = {}

(* A job goes only when a user deletes it, or for a retry that already has *)
(* its own Job: a retry that fails half-way, or a back end that crashes,   *)
(* never leaves the user without both.                                     *)
ReplacedFirst ==
    [][\A k \in Job : job[k] # "deleted" /\ job'[k] = "deleted" =>
          \/ DeleteModelTransferJob(k)
          \/ \E j \in Job \ {k} : old[j] = k /\ job[j] # "none"]_vars
=============================================================================
