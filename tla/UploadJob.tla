----------------------------- MODULE UploadJob ------------------------------
(***************************************************************************)
(* The async-upload job (jobs/async-upload): Kubernetes runs the pods of a *)
(* job one after the other until one succeeds or backoffLimit is used up;  *)
(* each pod transfers a model to its destination and then, call by call,   *)
(* records it in the model registry.  Jobs with the same intent (a job and *)
(* its retry) and other clients of the registry run beside each other.     *)
(*                                                                         *)
(* The registry is seen through one registered model, one version of it    *)
(* and the artifacts of that version; names are unique in it.              *)
(***************************************************************************)
EXTENDS Integers, FiniteSets

CONSTANTS Job,
          BackoffLimit,  \* of the Kubernetes Job
          MaxFaults      \* bound: pods and calls that fail

ASSUME JobAssumption == IsFiniteSet(Job)
ASSUME LimitAssumption == BackoffLimit \in Nat /\ MaxFaults \in Nat

VARIABLES
    intent,         \* of all the jobs
    job, failures,  \* the Job objects: their condition, and status.failed
    pod,            \* per job: where its pod is in main()
    seen,           \* the artifact as that pod read it
    model, version, \* the registry: whether the two exist
    artifacts, art, \* number of artifacts recorded; the last one
    uploaded,       \* the destination holds the model
    faults

registry == <<model, version, artifacts, art>>
uploadVars == <<intent, job, failures, pod, seen, registry, uploaded, faults>>

Intents == {"create_model", "create_version", "update_artifact"}
Artifact == [state : {"UNKNOWN", "PENDING", "LIVE"}, uri : {"old", "new"}]
Steps == {"validate", "getPending", "setPending", "transfer", "findModel",
          "createModel", "getModel", "findVersion", "createVersion",
          "createArtifact", "setLive", "getArtifact", "updateArtifact", "report"}
Conditions == {"none", "active", "complete", "failed", "deleted"}

Creates == intent # "update_artifact"

UploadInit ==
    /\ intent \in Intents
    /\ job = [j \in Job |-> "none"]
    /\ failures = [j \in Job |-> 0]
    /\ pod = [j \in Job |-> "none"]
    /\ art = [state |-> "UNKNOWN", uri |-> "old"]
    /\ seen = [j \in Job |-> art]
    /\ model = (intent # "create_model")
    /\ version = ~Creates
    /\ artifacts = IF Creates THEN 0 ELSE 1
    /\ uploaded = FALSE
    /\ faults = 0

-----------------------------------------------------------------------------
Fault == faults < MaxFaults /\ faults' = faults + 1

(* The pod of job j goes on to step s, or ends.                            *)
PodAt(j, s) == pod' = [pod EXCEPT ![j] = s]

(* A Job object appears, and goes.  DeleteOptions name no propagation      *)
(* policy, so that the API server orphans what the Job owns: a pod that    *)
(* runs goes on.                                                           *)
Submit(j) ==
    /\ job[j] = "none"
    /\ job' = [job EXCEPT ![j] = "active"]
    /\ UNCHANGED <<intent, failures, pod, seen, registry, uploaded, faults>>

Delete(j) ==
    /\ job[j] \in {"active", "complete", "failed"}
    /\ job' = [job EXCEPT ![j] = "deleted"]
    /\ UNCHANGED <<intent, failures, pod, seen, registry, uploaded, faults>>

(* The Job controller starts a pod, and counts one that ended.             *)
StartPod(j) ==
    /\ job[j] = "active" /\ pod[j] = "none"
    /\ PodAt(j, IF Creates THEN "validate" ELSE "getPending")
    /\ UNCHANGED <<intent, job, failures, seen, registry, uploaded, faults>>

CountPod(j) ==
    /\ job[j] = "active"
    /\ \/ /\ pod[j] = "failed"
          /\ failures' = [failures EXCEPT ![j] = @ + 1]
          /\ job' = [job EXCEPT ![j] = IF failures[j] = BackoffLimit THEN "failed" ELSE @]
       \/ /\ pod[j] = "succeeded"
          /\ job' = [job EXCEPT ![j] = "complete"]
          /\ UNCHANGED failures
    /\ PodAt(j, "none")
    /\ UNCHANGED <<intent, seen, registry, uploaded, faults>>

-----------------------------------------------------------------------------
(* main(), for the intents that create.                                    *)

(* Mutant: the check waits for the name to be free.                        *)
ValidateWaits(j) ==
    /\ pod[j] = "validate"
    /\ (intent = "create_model" /\ ~model) \/ (intent # "create_model" /\ model /\ ~version)
    /\ PodAt(j, "transfer")
    /\ UNCHANGED <<intent, job, failures, seen, registry, uploaded, faults>>

(* The fast-fail checks: validate_create_model_intent() and                *)
(* validate_create_version_intent().                                       *)
Validate(j) ==
    /\ pod[j] = "validate"
    /\ PodAt(j, IF intent = "create_model"
                THEN (IF model THEN "failed" ELSE "transfer")
                ELSE (IF model /\ ~version THEN "transfer" ELSE "failed"))
    /\ UNCHANGED <<intent, job, failures, seen, registry, uploaded, faults>>

AfterTransfer ==
    IF intent = "create_model" THEN "findModel"
    ELSE IF intent = "create_version" THEN "getModel" ELSE "getArtifact"

(* Mutant: the destination is written after the registry.                  *)
TransferLater(j) ==
    /\ pod[j] = "transfer"
    /\ PodAt(j, AfterTransfer)
    /\ UNCHANGED <<intent, job, failures, seen, registry, uploaded, faults>>

(* perform_download(), signing and perform_upload().                       *)
Transfer(j) ==
    /\ pod[j] = "transfer"
    /\ uploaded' = TRUE
    /\ PodAt(j, AfterTransfer)
    /\ UNCHANGED <<intent, job, failures, seen, registry, faults>>

(* _register_model() takes a model that is there for its own.              *)
FindModel(j) ==
    /\ pod[j] \in {"findModel", "getModel"}
    /\ PodAt(j, IF model THEN "findVersion"
                ELSE IF pod[j] = "findModel" THEN "createModel" ELSE "failed")
    /\ UNCHANGED <<intent, job, failures, seen, registry, uploaded, faults>>

(* The registry refuses a second entity of a name.                         *)
CreateModel(j) ==
    /\ pod[j] = "createModel"
    /\ PodAt(j, IF model THEN "failed" ELSE "findVersion")
    /\ model' = TRUE
    /\ UNCHANGED <<intent, job, failures, seen, version, artifacts, art, uploaded, faults>>

(* _register_new_version() does not take a version that is there.          *)
FindVersion(j) ==
    /\ pod[j] = "findVersion"
    /\ PodAt(j, IF version THEN "failed" ELSE "createVersion")
    /\ UNCHANGED <<intent, job, failures, seen, registry, uploaded, faults>>

(* Mutant: the registry takes a second version of the name.                *)
CreateVersionTwice(j) ==
    /\ pod[j] = "createVersion"
    /\ PodAt(j, "createArtifact")
    /\ version' = TRUE
    /\ UNCHANGED <<intent, job, failures, seen, model, artifacts, art, uploaded, faults>>

CreateVersion(j) ==
    /\ pod[j] = "createVersion"
    /\ PodAt(j, IF version THEN "failed" ELSE "createArtifact")
    /\ version' = TRUE
    /\ UNCHANGED <<intent, job, failures, seen, model, artifacts, art, uploaded, faults>>

CreateArtifact(j) ==
    /\ pod[j] = "createArtifact"
    /\ artifacts' = artifacts + 1
    /\ art' = [state |-> "UNKNOWN", uri |-> "new"]
    /\ PodAt(j, "setLive")
    /\ UNCHANGED <<intent, job, failures, seen, model, version, uploaded, faults>>

SetLive(j) ==
    /\ pod[j] = "setLive"
    /\ art' = [state |-> "LIVE", uri |-> "new"]
    /\ PodAt(j, "report")
    /\ UNCHANGED <<intent, job, failures, seen, model, version, artifacts, uploaded, faults>>

-----------------------------------------------------------------------------
(* main(), for update_artifact: the whole artifact is read and, with its   *)
(* new state, written back.                                                *)

GetPending(j) ==
    /\ pod[j] = "getPending"
    /\ seen' = [seen EXCEPT ![j] = art]
    /\ PodAt(j, "setPending")
    /\ UNCHANGED <<intent, job, failures, registry, uploaded, faults>>

SetPending(j) ==
    /\ pod[j] = "setPending"
    /\ art' = [seen[j] EXCEPT !.state = "PENDING"]
    /\ PodAt(j, "transfer")
    /\ UNCHANGED <<intent, job, failures, seen, model, version, artifacts, uploaded, faults>>

GetArtifact(j) ==
    /\ pod[j] = "getArtifact"
    /\ seen' = [seen EXCEPT ![j] = art]
    /\ PodAt(j, "updateArtifact")
    /\ UNCHANGED <<intent, job, failures, registry, uploaded, faults>>

(* Mutant: only the URI is set.                                            *)
UpdateArtifactUri(j) ==
    /\ pod[j] = "updateArtifact"
    /\ art' = [seen[j] EXCEPT !.uri = "new"]
    /\ PodAt(j, "report")
    /\ UNCHANGED <<intent, job, failures, seen, model, version, artifacts, uploaded, faults>>

(* update_model_artifact_uri().                                            *)
UpdateArtifact(j) ==
    /\ pod[j] = "updateArtifact"
    /\ art' = [seen[j] EXCEPT !.state = "LIVE", !.uri = "new"]
    /\ PodAt(j, "report")
    /\ UNCHANGED <<intent, job, failures, seen, model, version, artifacts, uploaded, faults>>

-----------------------------------------------------------------------------
(* write_success_result(): the ids go to the termination message.          *)
Report(j) ==
    /\ pod[j] = "report"
    /\ PodAt(j, "succeeded")
    /\ UNCHANGED <<intent, job, failures, seen, registry, uploaded, faults>>

(* A step raises an exception, or the pod is killed, after or instead of   *)
(* the call it makes: the last one too can be done and its pod fail.       *)
PodFails(j) ==
    /\ pod[j] \in Steps
    /\ Fault
    /\ PodAt(j, "failed")
    /\ UNCHANGED <<intent, job, failures, seen, registry, uploaded>>

(* Another client registers the model, or the version.                     *)
Register ==
    /\ Creates
    /\ \/ ~model /\ model' = TRUE /\ UNCHANGED version
       \/ model /\ ~version /\ version' = TRUE /\ UNCHANGED model
    /\ UNCHANGED <<intent, job, failures, pod, seen, artifacts, art, uploaded, faults>>

PodStep(j) ==
    \/ Validate(j) \/ Transfer(j) \/ FindModel(j) \/ CreateModel(j)
    \/ FindVersion(j) \/ CreateVersion(j) \/ CreateArtifact(j) \/ SetLive(j)
    \/ GetPending(j) \/ SetPending(j) \/ GetArtifact(j) \/ UpdateArtifact(j)
    \/ Report(j)

RunNext == (\E j \in Job : CountPod(j) \/ PodStep(j) \/ PodFails(j)) \/ Register

UploadNext == RunNext \/ \E j \in Job : Submit(j) \/ Delete(j) \/ StartPod(j)

UploadSpec == UploadInit /\ [][UploadNext]_uploadVars

(* The Job controller starts and counts pods, and a pod takes its steps.   *)
UploadFairSpec ==
    UploadSpec /\ \A j \in Job : WF_uploadVars(StartPod(j) \/ CountPod(j) \/ PodStep(j))

-----------------------------------------------------------------------------
UploadTypeOK ==
    /\ intent \in Intents
    /\ job \in [Job -> Conditions]
    /\ failures \in [Job -> 0..BackoffLimit + 1]
    /\ pod \in [Job -> Steps \cup {"none", "failed", "succeeded"}]
    /\ seen \in [Job -> Artifact]
    /\ model \in BOOLEAN /\ version \in BOOLEAN
    /\ artifacts \in Nat
    /\ art \in Artifact
    /\ uploaded \in BOOLEAN
    /\ faults \in 0..MaxFaults

(* A version gets one artifact, and one job can complete, although jobs    *)
(* and their pods check for the version, transfer and create it beside     *)
(* each other and after failures; a completed job's artifact is LIVE and   *)
(* has its URI.                                                            *)
OneArtifact ==
    Creates =>
       /\ artifacts <= 1
       /\ \A j, k \in Job : job[j] = "complete" /\ job[k] = "complete" => j = k
       /\ (\E j \in Job : job[j] = "complete") =>
             artifacts = 1 /\ art = [state |-> "LIVE", uri |-> "new"]

(* No artifact is recorded with the destination's URI, LIVE or not, before *)
(* the destination holds the model.                                        *)
UriIsUploaded == art.uri = "new" => uploaded

(* LIVE is for artifacts with the URI of a destination that holds the      *)
(* model, although pods write back whole artifacts that they read earlier. *)
LiveIsUploaded == art.state = "LIVE" => art.uri = "new" /\ uploaded

(* What a creating job published no later pod, retry or job changes: each  *)
(* fails at the check for the model or the version, or at the creation.    *)
LiveIsFinal == [][Creates /\ art.state = "LIVE" => art' = art]_uploadVars

(* A job is given up with exactly one pod more than backoffLimit, never    *)
(* before and never after, whatever is deleted or completes meanwhile.     *)
BudgetSpent ==
    \A j \in Job :
        /\ job[j] \in {"none", "active", "complete"} => failures[j] <= BackoffLimit
        /\ job[j] = "failed" => failures[j] = BackoffLimit + 1

(* An artifact is PENDING only while some job owes it an end: one whose    *)
(* pod runs or can be started again, or that was given up or deleted       *)
(* before its pod had updated the artifact; a job whose pod has leaves none *)
(* of its own.                                                             *)
PendingIsOwed ==
    art.state = "PENDING" =>
        \E j \in Job : job[j] \in {"active", "failed", "deleted"}
                      /\ pod[j] \notin {"report", "succeeded"}

(* Every job comes to an end, whatever its pods meet: it is completed,     *)
(* failed or deleted.                                                      *)
JobsEnd == \A j \in Job : job[j] = "active" ~> job[j] # "active"

(* No artifact stays PENDING, unless a job was given up.                   *)
PendingSettles ==
    <>[](art.state = "PENDING" => \E j \in Job : job[j] \in {"failed", "deleted"})
=============================================================================
