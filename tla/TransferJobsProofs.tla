------------------------- MODULE TransferJobsProofs -------------------------
(***************************************************************************)
(* Proofs about TransferJobs: the jobs the back end creates and deletes    *)
(* are jobs of UploadJob, so that what is proved there holds here, and no  *)
(* request leaves objects behind.                                          *)
(***************************************************************************)
EXTENDS TransferJobs, UploadJobProofs

(* What exists of job j at each phase of the request that creates it.      *)
Progress(j) ==
    /\ job[j] # "none" => req[j] \in {"own", "deleteOld", "ended"}
    /\ req[j] \in {"none", "clone"} => resources[j] = {}
    /\ req[j] = "create" => resources[j] \subseteq Needed
    /\ req[j] = "own" => resources[j] = Needed
    /\ req[j] = "deleteOld" => owned[j] \/ excused[j] \/ job[j] = "deleted"
    /\ ~excused[j] /\ job[j] # "deleted" =>
          /\ req[j] = "ended" => resources[j] = {} \/ owned[j]
          /\ job[j] # "none" => resources[j] = Needed

BffTypeOK ==
    /\ req \in [Job -> Phases]
    /\ resources \in [Job -> SUBSET Resource]
    /\ owned \in [Job -> BOOLEAN]
    /\ old \in [Job -> Job]
    /\ excused \in [Job -> BOOLEAN]
    /\ lost \in 0..MaxLost

BffInv == BffTypeOK /\ \A j \in Job : Progress(j)

(* The actions that are a request's own.                                   *)
RequestStep(j) ==
    \/ CreateModelTransferJob(j) \/ DeleteModelTransferJob(j)
    \/ \E k \in Job : UpdateModelTransferJob(j, k)
    \/ CloneDestSecret(j) \/ CreateResource(j) \/ CreateFails(j) \/ InvalidRetry(j)
    \/ CreateJob(j) \/ CreateJobUnanswered(j) \/ Own(j) \/ OwnFails(j)
    \/ DeleteOld(j) \/ Crash(j) \/ Mount(j)

-----------------------------------------------------------------------------
(* A step of the back end is one of the upload's, or leaves it alone.      *)
LEMMA StepRefines == BffTypeOK /\ [Next]_vars => [UploadNext]_uploadVars
<1> SUFFICES ASSUME BffTypeOK, [Next]_vars PROVE [UploadNext]_uploadVars
  OBVIOUS
<1>1. CASE UNCHANGED vars
  BY <1>1 DEF vars
<1>2. CASE RunNext
  BY <1>2 DEF UploadNext
<1>3. ASSUME NEW j \in Job, DeleteModelTransferJob(j) \/ CreateJob(j) \/ CreateJobUnanswered(j) \/ Mount(j)
      PROVE UploadNext
  BY <1>3 DEF DeleteModelTransferJob, Disown, CreateJob, CreateJobUnanswered, Mount, UploadNext
<1>4. ASSUME NEW j \in Job, DeleteOld(j) PROVE [UploadNext]_uploadVars
  <2>1. old[j] \in Job
    BY DEF BffTypeOK
  <2> QED
    BY <1>4, <2>1 DEF DeleteOld, Disown, UploadNext
<1>5. ASSUME NEW j \in Job,
             \/ CreateModelTransferJob(j) \/ \E k \in Job : UpdateModelTransferJob(j, k)
             \/ CloneDestSecret(j) \/ CreateResource(j) \/ CreateFails(j) \/ InvalidRetry(j)
             \/ Own(j) \/ OwnFails(j) \/ Crash(j)
      PROVE UNCHANGED uploadVars
  BY <1>5 DEF CreateModelTransferJob, UpdateModelTransferJob, CloneDestSecret, CreateResource,
              CreateFails, InvalidRetry, Own, OwnFails, Crash
<1> QED
  BY <1>1, <1>2, <1>3, <1>4, <1>5 DEF Next

-----------------------------------------------------------------------------
(* No step of the upload creates a Job object but Submit, and none deletes *)
(* one but Delete.                                                         *)
LEMMA RunKeepsJobs ==
    ASSUME UploadTypeOK, RunNext, NEW j \in Job
    PROVE  /\ job'[j] # "none" => job[j] # "none"
           /\ job'[j] = "deleted" <=> job[j] = "deleted"
BY DEF UploadTypeOK, RunNext, CountPod, PodStep, PodFails, Register, Validate, Transfer,
       FindModel, CreateModel, FindVersion, CreateVersion, CreateArtifact, SetLive,
       GetPending, SetPending, GetArtifact, UpdateArtifact, Report

(* A request creates only what its Job needs.                              *)
LEMMA NextIsNeeded == ASSUME NEW j \in Job PROVE NextObject(j) \subseteq Needed
BY NeededAssumption DEF NextObject

LEMMA BffStep == UploadTypeOK /\ BffInv /\ [Next]_vars => BffInv'
<1> SUFFICES ASSUME UploadTypeOK, BffInv, [Next]_vars PROVE BffInv'
  OBVIOUS
<1> USE NeededAssumption, LostAssumption
<1> USE DEF BffInv
<1>1. CASE UNCHANGED vars
  BY <1>1 DEF vars, uploadVars, bffVars, BffTypeOK, Progress
<1>2. CASE RunNext /\ UNCHANGED bffVars
  <2>1. BffTypeOK'
    BY <1>2 DEF bffVars, BffTypeOK
  <2>2. \A j \in Job : Progress(j)'
    BY <1>2, RunKeepsJobs DEF bffVars, Progress
  <2> QED
    BY <2>1, <2>2
<1>3. ASSUME NEW j \in Job, RequestStep(j) PROVE BffInv'
  <2> USE DEF BffTypeOK, Progress, To, Lose, uploadVars
  <2>1. CASE CreateModelTransferJob(j)
    BY <2>1 DEF CreateModelTransferJob, Phases
  <2>2. ASSUME NEW k \in Job, UpdateModelTransferJob(j, k) PROVE BffInv'
    <3>1. PICK d \in Job : old' = [old EXCEPT ![j] = d]
      BY <2>2 DEF UpdateModelTransferJob
    <3> QED
      BY <2>2, <3>1 DEF UpdateModelTransferJob, Phases
  <2>3. CASE CloneDestSecret(j)
    BY <2>3 DEF CloneDestSecret, Phases, Resource
  <2>4. CASE CreateResource(j)
    <3>1. PICK r \in Needed : resources' = [resources EXCEPT ![j] = @ \cup {r}]
      BY <2>4, NextIsNeeded DEF CreateResource
    <3> QED
      BY <2>4, <3>1 DEF CreateResource, Resource
  <2>5. CASE CreateFails(j)
    <3>0. PICK kept \in {{}, resources[j]}, stray \in SUBSET NextObject(j) :
             /\ resources' = [resources EXCEPT ![j] = kept \cup stray]
             /\ excused' = [excused EXCEPT ![j] = kept \cup stray # {}]
      BY <2>5 DEF CreateFails
    <3> DEFINE left == kept \cup stray
    <3>1. /\ left \in SUBSET Resource
          /\ resources' = [resources EXCEPT ![j] = left]
          /\ excused' = [excused EXCEPT ![j] = left # {}]
      BY <3>0, NextIsNeeded
    <3> HIDE DEF left
    <3>2. CASE left = {}
      <4>1. excused' = [excused EXCEPT ![j] = FALSE]
        BY <3>1, <3>2, Zenon
      <4>2. resources' = [resources EXCEPT ![j] = {}]
        BY <3>1, <3>2
      <4> QED
        BY <2>5, <4>1, <4>2 DEF CreateFails, Phases
    <3>3. CASE left # {}
      <4>1. excused' = [excused EXCEPT ![j] = TRUE]
        BY <3>1, <3>3, Zenon
      <4>2. resources' = [resources EXCEPT ![j] = left]
        BY <3>1
      <4> QED
        BY <2>5, <3>1, <4>1, <4>2 DEF CreateFails, Phases
    <3> QED
      BY <3>2, <3>3
  <2>6. CASE InvalidRetry(j)
    BY <2>6 DEF InvalidRetry, Phases
  <2>7. CASE CreateJob(j)
    BY <2>7 DEF CreateJob, Submit, Phases, UploadTypeOK
  <2>8. CASE CreateJobUnanswered(j)
    BY <2>8 DEF CreateJobUnanswered, Submit, Phases, UploadTypeOK
  <2>9. CASE Own(j)
    BY <2>9 DEF Own, Phases
  <2>10. CASE OwnFails(j)
    <3>1. BffTypeOK'
      BY <2>10 DEF OwnFails, Phases
    <3>2. ASSUME NEW k \in Job PROVE Progress(k)'
      <4>1. CASE k = j
        BY <2>10, <4>1 DEF OwnFails
      <4>2. CASE k # j
        <5>1. /\ req'[k] = req[k] /\ excused'[k] = excused[k]
              /\ UNCHANGED <<job, resources, owned>>
          BY <2>10, <4>2 DEF OwnFails
        <5>2. Progress(k)
          OBVIOUS
        <5> HIDE DEF BffTypeOK
        <5> QED
          BY <5>1, <5>2
      <4> QED
        BY <4>1, <4>2
    <3> QED
      BY <3>1, <3>2
  <2>11. CASE DeleteOld(j)
    <3> DEFINE d == old[j]
    <3>1. CASE d # j /\ Exists(d)
      <4>1. /\ d \in Job /\ req[j] = "deleteOld" /\ job[d] # "none"
            /\ job' = [job EXCEPT ![d] = "deleted"] /\ owned' = [owned EXCEPT ![d] = FALSE]
            /\ req' = [req EXCEPT ![j] = "ended"]
            /\ UNCHANGED <<resources, old, excused, lost>>
        BY <2>11, <3>1 DEF DeleteOld, Disown, Delete
      <4> HIDE DEF d
      <4>2. BffTypeOK'
        BY <4>1 DEF Phases
      <4>3. ASSUME NEW k \in Job PROVE Progress(k)'
        <5>1. Progress(k) /\ job \in [Job -> Conditions]
          BY DEF UploadTypeOK
        <5>2. CASE k = d
          BY <3>1, <4>1, <5>1, <5>2
        <5>3. CASE k # d
          BY <4>1, <5>1, <5>3
        <5> QED
          BY <5>2, <5>3
      <4> QED
        BY <4>2, <4>3
    <3>2. CASE ~(d # j /\ Exists(d))
      <4>1. /\ req[j] = "deleteOld" /\ req' = [req EXCEPT ![j] = "ended"]
            /\ UNCHANGED <<job, owned, resources, old, excused, lost>>
        BY <2>11, <3>2 DEF DeleteOld
      <4>2. BffTypeOK'
        BY <4>1 DEF Phases
      <4>3. ASSUME NEW k \in Job PROVE Progress(k)'
        BY <4>1
      <4> QED
        BY <4>2, <4>3
    <3> QED
      BY <3>1, <3>2
  <2>12. CASE Crash(j)
    BY <2>12 DEF Crash, Phases
  <2>13. CASE DeleteModelTransferJob(j)
    BY <2>13 DEF DeleteModelTransferJob, Disown, Delete, UploadTypeOK
  <2>14. CASE Mount(j)
    BY <2>14 DEF Mount, StartPod, bffVars
  <2> QED
    BY <1>3, <2>1, <2>2, <2>3, <2>4, <2>5, <2>6, <2>7, <2>8, <2>9, <2>10, <2>11, <2>12,
       <2>13, <2>14 DEF RequestStep
<1> QED
  BY <1>1, <1>2, <1>3 DEF Next, RequestStep

LEMMA TransferInductive == Spec => [](IndInv /\ BffInv) /\ UploadSpec
<1>1. Init => IndInv /\ BffInv
  <2> SUFFICES ASSUME Init PROVE IndInv /\ BffInv
    OBVIOUS
  <2>1. IndInv
    BY InitIndInv DEF Init
  <2>2. BffInv
    BY LostAssumption DEF Init, UploadInit, BffInv, BffTypeOK, Progress, Phases
  <2> QED
    BY <2>1, <2>2
<1>2. IndInv /\ BffInv /\ [Next]_vars => (IndInv /\ BffInv)' /\ [UploadNext]_uploadVars
  BY StepRefines, BffStep, IndInvStep DEF BffInv, IndInv
<1>3. Init => UploadInit
  BY DEF Init
<1> QED
  BY <1>1, <1>2, <1>3, PTL DEF Spec, UploadSpec

-----------------------------------------------------------------------------
(* The jobs of the back end, its retries and its deletions, crashes and    *)
(* lost calls included, are the jobs of UploadJob.                         *)
THEOREM TransfersAreUploads == Spec => UploadSpec
BY TransferInductive, PTL

(* Requests, objects and owners keep their types.                          *)
THEOREM TransferTypeCorrect == Spec => []TypeOK
<1>1. IndInv /\ BffInv => TypeOK
  BY DEF IndInv, BffInv, BffTypeOK, TypeOK
<1> QED
  BY <1>1, TransferInductive, PTL

(* A request that ended without losing a call leaves no ConfigMap and no   *)
(* Secret that its Job does not own, and no Job without what it mounts.    *)
THEOREM NothingLeaks == Spec => []NoLeak
<1>1. BffInv => NoLeak
  BY DEF BffInv, Progress, NoLeak
<1> QED
  BY <1>1, TransferInductive, PTL

(* A retry, and the pods a deleted job leaves behind, cannot give a        *)
(* version a second artifact.                                              *)
THEOREM TransferArtifactIsUnique == Spec => []OneArtifact
BY TransfersAreUploads, ArtifactIsUnique, PTL

(* Nor can they change an artifact that is LIVE, or make one LIVE whose    *)
(* model is not at the destination.                                        *)
THEOREM TransferLiveStays == Spec => LiveIsFinal /\ []LiveIsUploaded
BY TransfersAreUploads, LiveStays, LiveWasUploaded, PTL

(* And however they are retried and deleted, an artifact is PENDING only   *)
(* while one of them has not succeeded.                                    *)
THEOREM TransferPendingHasDebtor == Spec => []PendingIsOwed
BY TransfersAreUploads, PendingHasDebtor, PTL

-----------------------------------------------------------------------------
(* Owners exist, and a request past the creation of its Job has one.       *)
Owners ==
    /\ NoDanglingOwner
    /\ \A j \in Job : req[j] \in {"own", "deleteOld"} => job[j] # "none"
    /\ \A j \in Job : owned[j] => req[j] \in {"deleteOld", "ended"}

(* Every step keeps owners and requests with their Jobs.                   *)
LEMMA OwnersStep == UploadTypeOK /\ BffInv /\ Owners /\ [Next]_vars => Owners'
<1> SUFFICES ASSUME UploadTypeOK, BffInv, Owners, [Next]_vars PROVE Owners'
  OBVIOUS
<1> USE DEF BffInv, BffTypeOK, UploadTypeOK, Owners, NoDanglingOwner, Exists, Conditions
<1>1. CASE UNCHANGED vars
  BY <1>1 DEF vars, uploadVars, bffVars
<1>2. CASE RunNext /\ UNCHANGED bffVars
  <2>1. ASSUME NEW j \in Job PROVE (Exists(j) => Exists(j)') /\ (job[j] # "none" => job'[j] # "none")
    <3>1. ASSUME NEW k \in Job, CountPod(k)
          PROVE  (Exists(j) => Exists(j)') /\ (job[j] # "none" => job'[j] # "none")
      BY <3>1 DEF CountPod
    <3>2. ASSUME NEW k \in Job, PodStep(k) PROVE UNCHANGED job
      BY <3>2 DEF PodStep, Validate, Transfer, FindModel, CreateModel, FindVersion,
           CreateVersion, CreateArtifact, SetLive, GetPending, SetPending, GetArtifact,
           UpdateArtifact, Report
    <3>3. ASSUME NEW k \in Job, PodFails(k) PROVE UNCHANGED job
      BY <3>3 DEF PodFails
    <3>4. CASE Register
      BY <3>4 DEF Register
    <3> QED
      BY <1>2, <3>1, <3>2, <3>3, <3>4 DEF RunNext
  <2> QED
    BY <1>2, <2>1 DEF bffVars
<1>3. ASSUME NEW j \in Job, RequestStep(j) PROVE Owners'
  <2> USE DEF To, uploadVars
  <2>1. CASE CreateModelTransferJob(j)
    BY <2>1 DEF CreateModelTransferJob
  <2>2. ASSUME NEW k \in Job, UpdateModelTransferJob(j, k) PROVE Owners'
    BY <2>2 DEF UpdateModelTransferJob
  <2>3. CASE CloneDestSecret(j)
    BY <2>3 DEF CloneDestSecret, Progress
  <2>4. CASE CreateResource(j)
    BY <2>4 DEF CreateResource
  <2>5. CASE CreateFails(j)
    BY <2>5 DEF CreateFails
  <2>6. CASE InvalidRetry(j)
    BY <2>6 DEF InvalidRetry
  <2>7. CASE CreateJob(j)
    BY <2>7 DEF CreateJob, Submit
  <2>8. CASE CreateJobUnanswered(j)
    BY <2>8 DEF CreateJobUnanswered, Submit
  <2>9. CASE Own(j)
    BY <2>9 DEF Own
  <2>10. CASE OwnFails(j)
    BY <2>10 DEF OwnFails
  <2>11. CASE DeleteOld(j)
    BY <2>11 DEF DeleteOld, Disown, Delete
  <2>12. CASE Crash(j)
    BY <2>12 DEF Crash
  <2>13. CASE DeleteModelTransferJob(j)
    BY <2>13 DEF DeleteModelTransferJob, Disown, Delete
  <2>14. CASE Mount(j)
    BY <2>14 DEF Mount, StartPod, bffVars
  <2> QED
    BY <1>3, <2>1, <2>2, <2>3, <2>4, <2>5, <2>6, <2>7, <2>8, <2>9, <2>10, <2>11, <2>12,
       <2>13, <2>14 DEF RequestStep
<1> QED
  BY <1>1, <1>2, <1>3 DEF Next, RequestStep

(* Owners holds in every state.                                            *)
LEMMA OwnersInductive == Spec => [](IndInv /\ BffInv /\ Owners)
<1>1. Init => Owners
  BY DEF Init, UploadInit, Owners, NoDanglingOwner
<1>2. IndInv => UploadTypeOK
  BY DEF IndInv
<1> QED
  BY <1>1, <1>2, OwnersStep, TransferInductive, PTL DEF Spec

(* No object is left with an owner that is gone.                           *)
THEOREM OwnersExist == Spec => []NoDanglingOwner
<1>1. Owners => NoDanglingOwner
  BY DEF Owners
<1> QED
  BY <1>1, OwnersInductive, PTL

(* A retry deletes the job it replaces only after it has created its own.  *)
THEOREM RetryReplacesFirst == Spec => ReplacedFirst
<1>1. IndInv /\ BffInv /\ Owners /\ [Next]_vars =>
        [\A k \in Job : job[k] # "deleted" /\ job'[k] = "deleted" =>
            \/ DeleteModelTransferJob(k)
            \/ \E j \in Job \ {k} : old[j] = k /\ job[j] # "none"]_vars
  <2> SUFFICES ASSUME IndInv, BffInv, Owners, Next,
                      NEW k \in Job, job[k] # "deleted", job'[k] = "deleted"
               PROVE  \/ DeleteModelTransferJob(k)
                      \/ \E j \in Job \ {k} : old[j] = k /\ job[j] # "none"
    OBVIOUS
  <2>0. UploadTypeOK /\ BffTypeOK
    BY DEF IndInv, BffInv
  <2>1. ~RunNext
    BY <2>0, RunKeepsJobs
  <2>2. ASSUME NEW j \in Job, DeleteModelTransferJob(j) PROVE DeleteModelTransferJob(k)
    BY <2>0, <2>2 DEF DeleteModelTransferJob, Disown, Delete, UploadTypeOK
  <2>3. ASSUME NEW j \in Job, DeleteOld(j)
        PROVE  j # k /\ old[j] = k /\ job[j] # "none"
    BY <2>0, <2>3 DEF DeleteOld, Disown, Delete, uploadVars, UploadTypeOK, BffTypeOK, Owners
  <2>4. ASSUME NEW j \in Job, CreateJob(j) \/ CreateJobUnanswered(j) PROVE FALSE
    BY <2>0, <2>4 DEF CreateJob, CreateJobUnanswered, Submit, UploadTypeOK
  <2>5. ASSUME NEW j \in Job,
               \/ CreateModelTransferJob(j) \/ \E i \in Job : UpdateModelTransferJob(j, i)
               \/ CloneDestSecret(j) \/ CreateResource(j) \/ CreateFails(j) \/ InvalidRetry(j)
               \/ Own(j) \/ OwnFails(j) \/ Crash(j) \/ Mount(j)
        PROVE  FALSE
    BY <2>5 DEF CreateModelTransferJob, UpdateModelTransferJob, CloneDestSecret, CreateResource,
                CreateFails, InvalidRetry, Own, OwnFails, Crash, Mount, StartPod, uploadVars
  <2> QED
    BY <2>1, <2>2, <2>3, <2>4, <2>5 DEF Next
<1> QED
  BY <1>1, OwnersInductive, PTL DEF Spec, ReplacedFirst
=============================================================================
