-------------------------- MODULE UploadJobProofs ---------------------------
(***************************************************************************)
(* Proofs about UploadJob, for any finite set of jobs, any backoffLimit    *)
(* and any number of faults.                                               *)
(***************************************************************************)
EXTENDS UploadJob, TLAPS

(* The steps from the transfer on.                                         *)
Uploaded == {"findModel", "createModel", "getModel", "findVersion", "createVersion",
             "createArtifact", "setLive", "getArtifact", "updateArtifact"}

(* The last failure that is allowed ends a job.                            *)
Budget == \A j \in Job : job[j] \in {"none", "active"} => failures[j] <= BackoffLimit

(* What a pod read or wrote was uploaded before.                           *)
Sound ==
    /\ UriIsUploaded
    /\ \A j \in Job : seen[j].uri = "new" => uploaded
    /\ \A j \in Job : pod[j] \in Uploaded => uploaded

(* Job j created the version and may still record the artifact, or did.    *)
Holder(j) == pod[j] \in {"createArtifact", "setLive", "report", "succeeded"} \/ job[j] = "complete"

(* A pod takes only the steps of its intent.                               *)
Fits == \A j \in Job : pod[j] \notin {"getPending", "setPending", "getArtifact", "updateArtifact"}

(* At most one job, or rather one of its pods, created the version, and    *)
(* what it did since then can be read off the registry.                    *)
Exclusive ==
    /\ ~version => artifacts = 0
    /\ \A j \in Job : Holder(j) => version
    /\ \A j, k \in Job : Holder(j) /\ Holder(k) => j = k
    /\ artifacts <= 1
    /\ \A j \in Job : pod[j] = "createArtifact" => artifacts = 0
    /\ \A j \in Job : pod[j] = "setLive" => artifacts = 1
    /\ \A j \in Job : pod[j] \in {"report", "succeeded"} \/ job[j] = "complete" =>
          artifacts = 1 /\ art = [state |-> "LIVE", uri |-> "new"]

IndInv == UploadTypeOK /\ Budget /\ Sound /\ (Creates => Fits /\ Exclusive)

-----------------------------------------------------------------------------
LEMMA InitIndInv == UploadInit => IndInv
<1> SUFFICES ASSUME UploadInit PROVE IndInv
  OBVIOUS
<1> USE DEF UploadInit
<1>1. art \in Artifact
  BY DEF Artifact
<1>2. UploadTypeOK
  <2>1. /\ job \in [Job -> Conditions]
        /\ failures \in [Job -> 0..BackoffLimit + 1]
        /\ pod \in [Job -> Steps \cup {"none", "failed", "succeeded"}]
        /\ seen \in [Job -> Artifact]
        /\ artifacts \in Nat /\ faults \in 0..MaxFaults
    BY <1>1, LimitAssumption DEF Conditions
  <2>2. intent \in Intents /\ model \in BOOLEAN /\ version \in BOOLEAN /\ uploaded \in BOOLEAN
    BY Zenon
  <2> QED
    BY <1>1, <2>1, <2>2 DEF UploadTypeOK
<1>3. Budget
  BY LimitAssumption DEF Budget
<1>4. Sound
  BY DEF Sound, UriIsUploaded, Uploaded
<1>5. Creates => Fits /\ Exclusive
  BY DEF Creates, Fits, Exclusive, Holder
<1> QED
  BY <1>2, <1>3, <1>4, <1>5 DEF IndInv

-----------------------------------------------------------------------------
(* Every step keeps the types, and the budget of failures.                 *)
LEMMA TypeStep == UploadTypeOK /\ Budget /\ [UploadNext]_uploadVars => UploadTypeOK' /\ Budget'
<1> SUFFICES ASSUME UploadTypeOK, Budget, [UploadNext]_uploadVars
             PROVE UploadTypeOK' /\ Budget'
  OBVIOUS
<1> USE LimitAssumption
<1> USE DEF UploadTypeOK, Budget, registry, PodAt
<1>1. CASE UNCHANGED uploadVars
  BY <1>1 DEF uploadVars
<1>2. ASSUME NEW j \in Job, Submit(j) \/ Delete(j) PROVE UploadTypeOK' /\ Budget'
  <2>1. job' \in [Job -> Conditions]
    BY <1>2 DEF Submit, Delete, Conditions
  <2>2. Budget'
    BY <1>2 DEF Submit, Delete, Conditions
  <2> QED
    BY <1>2, <2>1, <2>2 DEF Submit, Delete
<1>3. ASSUME NEW j \in Job, StartPod(j) PROVE UploadTypeOK' /\ Budget'
  BY <1>3 DEF StartPod, Steps
<1>4. ASSUME NEW j \in Job, CountPod(j) PROVE UploadTypeOK' /\ Budget'
  <2>1. failures[j] \in 0..BackoffLimit
    BY <1>4 DEF CountPod
  <2>2. failures' \in [Job -> 0..BackoffLimit + 1] /\ job' \in [Job -> Conditions]
    BY <1>4, <2>1 DEF CountPod, Conditions
  <2>3. Budget'
    <3> SUFFICES ASSUME NEW k \in Job, job'[k] \in {"none", "active"}
                 PROVE failures'[k] <= BackoffLimit
      OBVIOUS
    <3>1. CASE k = j
      BY <1>4, <2>1, <3>1 DEF CountPod
    <3>2. CASE k # j
      BY <1>4, <3>2 DEF CountPod
    <3> QED
      BY <3>1, <3>2
  <2> QED
    BY <1>4, <2>2, <2>3 DEF CountPod
<1>5. ASSUME NEW j \in Job, PodStep(j) PROVE UploadTypeOK' /\ Budget'
  <2> USE DEF Steps
  <2>1. CASE Validate(j)
    BY <2>1 DEF Validate
  <2>2. CASE Transfer(j)
    BY <2>2 DEF Transfer, AfterTransfer
  <2>3. CASE FindModel(j)
    BY <2>3 DEF FindModel
  <2>4. CASE CreateModel(j)
    BY <2>4 DEF CreateModel
  <2>5. CASE FindVersion(j)
    BY <2>5 DEF FindVersion
  <2>6. CASE CreateVersion(j)
    BY <2>6 DEF CreateVersion
  <2>7. CASE CreateArtifact(j)
    BY <2>7 DEF CreateArtifact, Artifact
  <2>8. CASE SetLive(j)
    BY <2>8 DEF SetLive, Artifact
  <2>9. CASE GetPending(j)
    BY <2>9 DEF GetPending
  <2>10. CASE SetPending(j)
    BY <2>10 DEF SetPending, Artifact
  <2>11. CASE GetArtifact(j)
    BY <2>11 DEF GetArtifact
  <2>12. CASE UpdateArtifact(j)
    BY <2>12 DEF UpdateArtifact, Artifact
  <2>13. CASE Report(j)
    BY <2>13 DEF Report
  <2> QED
    BY <1>5, <2>1, <2>2, <2>3, <2>4, <2>5, <2>6, <2>7, <2>8, <2>9, <2>10, <2>11, <2>12,
       <2>13 DEF PodStep
<1>6. ASSUME NEW j \in Job, PodFails(j) PROVE UploadTypeOK' /\ Budget'
  BY <1>6 DEF PodFails, Fault
<1>7. CASE Register
  BY <1>7 DEF Register
<1> QED
  BY <1>1, <1>2, <1>3, <1>4, <1>5, <1>6, <1>7 DEF UploadNext, RunNext

(* Every step keeps the destination ahead of the registry.                 *)
LEMMA SoundStep == UploadTypeOK /\ Sound /\ [UploadNext]_uploadVars => Sound'
<1> SUFFICES ASSUME UploadTypeOK, Sound, [UploadNext]_uploadVars PROVE Sound'
  OBVIOUS
<1> USE DEF UploadTypeOK, Sound, UriIsUploaded, Uploaded, registry, PodAt
<1>1. CASE UNCHANGED uploadVars
  BY <1>1 DEF uploadVars
<1>2. ASSUME NEW j \in Job, Submit(j) \/ Delete(j) \/ StartPod(j) \/ CountPod(j) PROVE Sound'
  BY <1>2 DEF Submit, Delete, StartPod, CountPod
<1>3. ASSUME NEW j \in Job, PodStep(j) PROVE Sound'
  <2>1. CASE Validate(j)
    BY <2>1 DEF Validate
  <2>2. CASE Transfer(j)
    BY <2>2 DEF Transfer, AfterTransfer
  <2>3. CASE FindModel(j)
    BY <2>3 DEF FindModel
  <2>4. CASE CreateModel(j)
    BY <2>4 DEF CreateModel
  <2>5. CASE FindVersion(j)
    BY <2>5 DEF FindVersion
  <2>6. CASE CreateVersion(j)
    BY <2>6 DEF CreateVersion
  <2>7. CASE CreateArtifact(j)
    BY <2>7 DEF CreateArtifact
  <2>8. CASE SetLive(j)
    BY <2>8 DEF SetLive
  <2>9. CASE GetPending(j)
    BY <2>9 DEF GetPending
  <2>10. CASE SetPending(j)
    BY <2>10 DEF SetPending, Artifact
  <2>11. CASE GetArtifact(j)
    BY <2>11 DEF GetArtifact
  <2>12. CASE UpdateArtifact(j)
    BY <2>12 DEF UpdateArtifact
  <2>13. CASE Report(j)
    BY <2>13 DEF Report
  <2> QED
    BY <1>3, <2>1, <2>2, <2>3, <2>4, <2>5, <2>6, <2>7, <2>8, <2>9, <2>10, <2>11, <2>12,
       <2>13 DEF PodStep
<1>4. ASSUME NEW j \in Job, PodFails(j) PROVE Sound'
  BY <1>4 DEF PodFails
<1>5. CASE Register
  BY <1>5 DEF Register
<1> QED
  BY <1>1, <1>2, <1>3, <1>4, <1>5 DEF UploadNext, RunNext

-----------------------------------------------------------------------------
(* A step that leaves the registry alone, and makes no pod a holder that   *)
(* was none (one that is may report), keeps the version exclusive.         *)
LEMMA QuietStep ==
    ASSUME UploadTypeOK, Exclusive, UNCHANGED <<version, artifacts, art>>,
           \A k \in Job : pod'[k] \in {"createArtifact", "setLive", "report", "succeeded"} =>
             pod'[k] = pod[k] \/ (pod[k] = "report" /\ pod'[k] = "succeeded"),
           \A k \in Job : job'[k] = "complete" => job[k] = "complete" \/ pod[k] = "succeeded"
    PROVE  Exclusive'
BY DEF Exclusive, Holder

LEMMA ExclusiveStep ==
    UploadTypeOK /\ Creates /\ Fits /\ Exclusive /\ [UploadNext]_uploadVars => Fits' /\ Exclusive'
<1> SUFFICES ASSUME UploadTypeOK, Creates, Fits, Exclusive, [UploadNext]_uploadVars
             PROVE Fits' /\ Exclusive'
  OBVIOUS
<1> USE DEF UploadTypeOK, registry, PodAt
<1>1. CASE UNCHANGED uploadVars
  BY <1>1 DEF uploadVars, Fits, Exclusive, Holder
<1>2. ASSUME NEW j \in Job, Submit(j) \/ Delete(j) \/ StartPod(j) \/ CountPod(j) \/ PodFails(j)
      PROVE Fits' /\ Exclusive'
  <2>1. Fits'
    BY <1>2 DEF Submit, Delete, StartPod, CountPod, PodFails, Fits
  <2>2. UNCHANGED <<version, artifacts, art>>
    BY <1>2 DEF Submit, Delete, StartPod, CountPod, PodFails
  <2>3. \A k \in Job : pod'[k] \in {"createArtifact", "setLive", "report", "succeeded"} =>
             pod'[k] = pod[k] \/ (pod[k] = "report" /\ pod'[k] = "succeeded")
    BY <1>2 DEF Submit, Delete, StartPod, CountPod, PodFails
  <2>4. \A k \in Job : job'[k] = "complete" => job[k] = "complete" \/ pod[k] = "succeeded"
    BY <1>2 DEF Submit, Delete, StartPod, CountPod, PodFails
  <2> QED
    BY <2>1, <2>2, <2>3, <2>4, QuietStep
<1>3. ASSUME NEW j \in Job, Validate(j) \/ Transfer(j) \/ FindModel(j) \/ CreateModel(j)
                             \/ FindVersion(j) \/ Report(j)
      PROVE Fits' /\ Exclusive'
  <2>1. Fits'
    BY <1>3 DEF Validate, Transfer, AfterTransfer, FindModel, CreateModel, FindVersion, Report, Fits, Creates, Intents
  <2>2. UNCHANGED <<version, artifacts, art, job>>
    BY <1>3 DEF Validate, Transfer, FindModel, CreateModel, FindVersion, Report
  <2>3. \A k \in Job : pod'[k] \in {"createArtifact", "setLive", "report", "succeeded"} =>
             pod'[k] = pod[k] \/ (pod[k] = "report" /\ pod'[k] = "succeeded")
    BY <1>3 DEF Validate, Transfer, AfterTransfer, FindModel, CreateModel, FindVersion, Report
  <2> QED
    BY <2>1, <2>2, <2>3, QuietStep
<1>4. ASSUME NEW j \in Job, CreateVersion(j) PROVE Fits' /\ Exclusive'
  <2>1. Fits'
    BY <1>4 DEF CreateVersion, Fits
  <2>2. CASE version
    BY <1>4, <2>1, <2>2, QuietStep DEF CreateVersion
  <2>3. CASE ~version
    BY <1>4, <2>1, <2>3 DEF CreateVersion, Exclusive, Holder
  <2> QED
    BY <2>2, <2>3
<1>5. ASSUME NEW j \in Job, CreateArtifact(j) PROVE Fits' /\ Exclusive'
  BY <1>5 DEF CreateArtifact, Fits, Exclusive, Holder
<1>6. ASSUME NEW j \in Job, SetLive(j) PROVE Fits' /\ Exclusive'
  BY <1>6 DEF SetLive, Fits, Exclusive, Holder
<1>7. ASSUME NEW j \in Job, GetPending(j) \/ SetPending(j) \/ GetArtifact(j) \/ UpdateArtifact(j)
      PROVE FALSE
  BY <1>7 DEF GetPending, SetPending, GetArtifact, UpdateArtifact, Fits
<1>8. CASE Register
  <2>1. Fits'
    BY <1>8 DEF Register, Fits
  <2> QED
    BY <1>8, <2>1 DEF Register, Exclusive, Holder
<1> QED
  BY <1>1, <1>2, <1>3, <1>4, <1>5, <1>6, <1>7, <1>8 DEF UploadNext, RunNext, PodStep

LEMMA IndInvStep == IndInv /\ [UploadNext]_uploadVars => IndInv'
<1> SUFFICES ASSUME IndInv, [UploadNext]_uploadVars PROVE IndInv'
  OBVIOUS
<1>1. intent' = intent
  BY DEF UploadNext, RunNext, PodStep, uploadVars, Submit, Delete, StartPod, CountPod, PodFails,
         Register, Validate, Transfer, FindModel, CreateModel, FindVersion, CreateVersion,
         CreateArtifact, SetLive, GetPending, SetPending, GetArtifact, UpdateArtifact, Report
<1> QED
  BY <1>1, TypeStep, SoundStep, ExclusiveStep DEF IndInv, Creates

LEMMA UploadInductive == UploadSpec => []IndInv
BY InitIndInv, IndInvStep, PTL DEF UploadSpec

-----------------------------------------------------------------------------
(* Job conditions, failure counts, pods and the registry keep their types; *)
(* no job has more than backoffLimit + 1 failed pods.                      *)
THEOREM UploadTypeCorrect == UploadSpec => []UploadTypeOK
<1>1. IndInv => UploadTypeOK
  BY DEF IndInv
<1> QED
  BY <1>1, UploadInductive, PTL

(* However jobs, their pods and other clients interleave, a version gets   *)
(* one artifact, one job completes, and the artifact of a completed job is *)
(* LIVE with the URI of the destination.                                   *)
THEOREM ArtifactIsUnique == UploadSpec => []OneArtifact
<1>1. IndInv => OneArtifact
  BY DEF IndInv, Exclusive, Holder, OneArtifact
<1> QED
  BY <1>1, UploadInductive, PTL

(* The registry never names a destination that does not hold the model.    *)
THEOREM UriWasUploaded == UploadSpec => []UriIsUploaded
<1>1. IndInv => UriIsUploaded
  BY DEF IndInv, Sound
<1> QED
  BY <1>1, UploadInductive, PTL

-----------------------------------------------------------------------------
(* LIVE artifacts have the new URI, and are recorded.                      *)
Published ==
    /\ art.state = "LIVE" => art.uri = "new"
    /\ Creates /\ artifacts = 0 => art.state # "LIVE"

(* Every step keeps LIVE for recorded artifacts with the new URI.           *)
LEMMA PublishedStep == IndInv /\ Published /\ [UploadNext]_uploadVars => Published'
<1> SUFFICES ASSUME IndInv, Published, [UploadNext]_uploadVars PROVE Published'
  OBVIOUS
<1>0. UploadTypeOK /\ (Creates => Fits /\ Exclusive)
  BY DEF IndInv
<1> USE <1>0 DEF UploadTypeOK, Published, Creates, registry, Artifact
<1>1. CASE UNCHANGED <<intent, artifacts, art>>
  BY <1>1
<1>2. ASSUME NEW j \in Job, CreateArtifact(j) PROVE Published'
  BY <1>2 DEF CreateArtifact
<1>3. ASSUME NEW j \in Job, SetLive(j) PROVE Published'
  <2>1. pod[j] = "setLive" /\ UNCHANGED <<intent, artifacts>>
        /\ art' = [state |-> "LIVE", uri |-> "new"]
    BY <1>3 DEF SetLive
  <2>2. Creates => artifacts = 1
    BY <2>1 DEF Exclusive
  <2> QED
    BY <2>1, <2>2
<1>4. ASSUME NEW j \in Job, SetPending(j) PROVE Published'
  BY <1>4 DEF SetPending
<1>5. ASSUME NEW j \in Job, UpdateArtifact(j) PROVE Published'
  <2>1. ~Creates
    BY <1>5 DEF UpdateArtifact, Fits
  <2> QED
    BY <1>5, <2>1 DEF UpdateArtifact
<1>6. ASSUME NEW j \in Job, Submit(j) \/ Delete(j) \/ StartPod(j) \/ CountPod(j) \/ PodFails(j)
      PROVE UNCHANGED <<intent, artifacts, art>>
  BY <1>6 DEF Submit, Delete, StartPod, CountPod, PodFails
<1>7. ASSUME NEW j \in Job, Validate(j) \/ Transfer(j) \/ FindModel(j) \/ CreateModel(j)
                             \/ FindVersion(j) \/ CreateVersion(j) \/ GetPending(j) \/ GetArtifact(j)
                             \/ Report(j)
      PROVE UNCHANGED <<intent, artifacts, art>>
  BY <1>7 DEF Validate, Transfer, FindModel, CreateModel, FindVersion, CreateVersion,
              GetPending, GetArtifact, Report
<1>8. ASSUME Register \/ UNCHANGED uploadVars PROVE UNCHANGED <<intent, artifacts, art>>
  BY <1>8 DEF Register, uploadVars
<1> HIDE <1>0 DEF Published
<1> QED
  BY <1>1, <1>2, <1>3, <1>4, <1>5, <1>6, <1>7, <1>8 DEF UploadNext, RunNext, PodStep

(* Published holds in every state, beside IndInv.                          *)
LEMMA PublishedInductive == UploadSpec => [](IndInv /\ Published)
<1>1. UploadInit => Published
  BY DEF UploadInit, Published
<1> QED
  BY <1>1, PublishedStep, UploadInductive, PTL DEF UploadSpec

(* What is LIVE has the destination's URI, and the destination holds it.   *)
THEOREM LiveWasUploaded == UploadSpec => []LiveIsUploaded
<1>1. IndInv /\ Published => LiveIsUploaded
  BY DEF IndInv, Sound, UriIsUploaded, Published, LiveIsUploaded
<1> QED
  BY <1>1, PublishedInductive, PTL

(* No step of any pod, job or client changes an artifact that a creating   *)
(* job made LIVE.                                                          *)
THEOREM LiveStays == UploadSpec => LiveIsFinal
<1>1. IndInv /\ Published /\ [UploadNext]_uploadVars =>
        [Creates /\ art.state = "LIVE" => art' = art]_uploadVars
  <2> SUFFICES ASSUME IndInv, Published, UploadNext, Creates, art.state = "LIVE"
               PROVE art' = art
    OBVIOUS
  <2>1. UploadTypeOK /\ Fits /\ Exclusive
    BY DEF IndInv
  <2> USE DEF registry
  <2>2. ASSUME NEW j \in Job, CreateArtifact(j) PROVE FALSE
    BY <2>1, <2>2 DEF CreateArtifact, Exclusive, Published
  <2>3. ASSUME NEW j \in Job, SetLive(j) PROVE art' = art
    BY <2>1, <2>3 DEF SetLive, UploadTypeOK, Artifact, Published
  <2>4. ASSUME NEW j \in Job, SetPending(j) \/ UpdateArtifact(j) PROVE FALSE
    BY <2>1, <2>4 DEF SetPending, UpdateArtifact, Fits
  <2>5. ASSUME NEW j \in Job, Submit(j) \/ Delete(j) \/ StartPod(j) \/ CountPod(j) \/ PodFails(j)
        PROVE art' = art
    BY <2>5 DEF Submit, Delete, StartPod, CountPod, PodFails
  <2>6. ASSUME NEW j \in Job, Validate(j) \/ Transfer(j) \/ FindModel(j) \/ CreateModel(j)
                               \/ FindVersion(j) \/ CreateVersion(j) \/ GetPending(j) \/ GetArtifact(j)
                               \/ Report(j)
        PROVE art' = art
    BY <2>6 DEF Validate, Transfer, FindModel, CreateModel, FindVersion, CreateVersion,
                GetPending, GetArtifact, Report
  <2>7. ASSUME Register PROVE art' = art
    BY <2>7 DEF Register
  <2> QED
    BY <2>2, <2>3, <2>4, <2>5, <2>6, <2>7 DEF UploadNext, RunNext, PodStep
<1> QED
  BY <1>1, PublishedInductive, PTL DEF UploadSpec, LiveIsFinal

(* A job fails with exactly one failed pod more than backoffLimit.         *)
THEOREM RetriesBounded == UploadSpec => []BudgetSpent
<1>1. UploadInit => BudgetSpent
  BY LimitAssumption DEF UploadInit, BudgetSpent
<1>2. IndInv /\ BudgetSpent /\ [UploadNext]_uploadVars => BudgetSpent'
  <2> SUFFICES ASSUME IndInv, BudgetSpent, [UploadNext]_uploadVars PROVE BudgetSpent'
    OBVIOUS
  <2>0. UploadTypeOK
    BY DEF IndInv
  <2> USE <2>0, LimitAssumption DEF UploadTypeOK, BudgetSpent, registry
  <2>1. CASE UNCHANGED <<job, failures>>
    BY <2>1
  <2>2. ASSUME NEW j \in Job, Submit(j) \/ Delete(j) PROVE BudgetSpent'
    BY <2>2 DEF Submit, Delete
  <2>3. ASSUME NEW j \in Job, CountPod(j) PROVE BudgetSpent'
    <3> SUFFICES ASSUME NEW k \in Job
                 PROVE /\ job'[k] \in {"none", "active", "complete"} => failures'[k] <= BackoffLimit
                       /\ job'[k] = "failed" => failures'[k] = BackoffLimit + 1
      OBVIOUS
    <3>1. CASE k = j
      BY <2>3, <3>1 DEF CountPod
    <3>2. CASE k # j
      BY <2>3, <3>2 DEF CountPod
    <3> QED
      BY <3>1, <3>2
  <2>4. ASSUME NEW j \in Job, StartPod(j) \/ PodFails(j) PROVE UNCHANGED <<job, failures>>
    BY <2>4 DEF StartPod, PodFails
  <2>5. ASSUME NEW j \in Job, PodStep(j) PROVE UNCHANGED <<job, failures>>
    BY <2>5 DEF PodStep, Validate, Transfer, FindModel, CreateModel, FindVersion, CreateVersion,
                CreateArtifact, SetLive, GetPending, SetPending, GetArtifact, UpdateArtifact,
                Report
  <2>6. ASSUME Register \/ UNCHANGED uploadVars PROVE UNCHANGED <<job, failures>>
    BY <2>6 DEF Register, uploadVars
  <2> HIDE <2>0 DEF BudgetSpent
  <2> QED
    BY <2>1, <2>2, <2>3, <2>4, <2>5, <2>6 DEF UploadNext, RunNext
<1> QED
  BY <1>1, <1>2, UploadInductive, PTL DEF UploadSpec

-----------------------------------------------------------------------------
(* Only jobs that are active, or were deleted while it ran, have a pod.    *)
Owned == \A j \in Job : pod[j] # "none" => job[j] \in {"active", "deleted"}

(* The state is PENDING from setPending on, which only such a pod reaches; *)
(* the job stays in debt until its pod has updated the artifact.           *)
LEMMA OwedStep ==
    UploadTypeOK /\ Owned /\ PendingIsOwed /\ [UploadNext]_uploadVars
        => Owned' /\ PendingIsOwed'
<1> SUFFICES ASSUME UploadTypeOK, Owned, PendingIsOwed, [UploadNext]_uploadVars
             PROVE Owned' /\ PendingIsOwed'
  OBVIOUS
<1> DEFINE Owes(j) == /\ job[j] \in {"active", "failed", "deleted"}
                      /\ pod[j] \notin {"report", "succeeded"}
<1>0. job \in [Job -> Conditions] /\ pod \in [Job -> Steps \cup {"none", "failed", "succeeded"}]
      /\ seen \in [Job -> Artifact] /\ art \in Artifact
  BY DEF UploadTypeOK
<1>1. ASSUME art' = art, \A j \in Job : Owes(j) => Owes(j)' PROVE PendingIsOwed'
  BY <1>1 DEF PendingIsOwed
<1>2. ASSUME NEW j \in Job, Submit(j) \/ Delete(j) PROVE Owned' /\ PendingIsOwed'
  <2>1. PICK x \in {"active", "deleted"} : job' = [job EXCEPT ![j] = x]
    BY <1>2 DEF Submit, Delete
  <2>2. UNCHANGED <<pod, art>>
    BY <1>2 DEF Submit, Delete, registry
  <2>3. Owned'
    BY <1>0, <2>1, <2>2 DEF Owned
  <2>4. \A k \in Job : Owes(k) => Owes(k)'
    BY <1>0, <2>1, <2>2
  <2> QED
    BY <1>1, <2>2, <2>3, <2>4
<1>3. ASSUME NEW j \in Job, StartPod(j) \/ PodFails(j) PROVE Owned' /\ PendingIsOwed'
  <2>1. PICK x \in {"validate", "getPending", "failed"} : pod' = [pod EXCEPT ![j] = x]
    BY <1>3 DEF StartPod, PodFails, PodAt
  <2>2. UNCHANGED <<job, art>> /\ (job[j] = "active" \/ pod[j] # "none")
    BY <1>3 DEF StartPod, PodFails, registry, Steps
  <2>3. Owned'
    BY <1>0, <2>1, <2>2 DEF Owned
  <2>4. \A k \in Job : Owes(k) => Owes(k)'
    BY <1>0, <2>1, <2>2
  <2> QED
    BY <1>1, <2>2, <2>3, <2>4
<1>4. ASSUME NEW j \in Job, CountPod(j) PROVE Owned' /\ PendingIsOwed'
  <2>1. pod' = [pod EXCEPT ![j] = "none"] /\ art' = art
    BY <1>4 DEF CountPod, PodAt, registry
  <2>2. PICK x \in Conditions : job' = [job EXCEPT ![j] = x]
                              /\ (pod[j] # "succeeded" => x \in {"active", "failed"})
    BY <1>4 DEF CountPod, Conditions
  <2>3. Owned'
    BY <1>0, <2>1, <2>2 DEF Owned
  <2>4. \A k \in Job : Owes(k) => Owes(k)'
    BY <1>0, <2>1, <2>2
  <2> QED
    BY <1>1, <2>1, <2>3, <2>4
<1>5. ASSUME NEW j \in Job, PodStep(j) PROVE Owned' /\ PendingIsOwed'
  <2>1. job' = job /\ pod[j] # "none"
    BY <1>5 DEF PodStep, Validate, Transfer, FindModel, CreateModel, FindVersion, CreateVersion,
       CreateArtifact, SetLive, GetPending, SetPending, GetArtifact, UpdateArtifact, Report
  <2>2. PICK x : pod' = [pod EXCEPT ![j] = x]
    BY <1>5 DEF PodStep, Validate, Transfer, FindModel, CreateModel, FindVersion, CreateVersion,
       CreateArtifact, SetLive, GetPending, SetPending, GetArtifact, UpdateArtifact, Report,
       PodAt
  <2>3. pod'[j] = x /\ \A k \in Job : k # j => pod'[k] = pod[k]
    BY <1>0, <2>2
  <2>4. job[j] \in {"active", "deleted"}
    BY <2>1 DEF Owned
  <2>5. Owned'
    BY <2>1, <2>3, <2>4 DEF Owned
  <2>6. CASE SetPending(j)
    <3>1. pod'[j] = "transfer"
      BY <1>0, <2>6 DEF SetPending, PodAt
    <3> QED
      BY <2>1, <2>4, <2>5, <3>1 DEF PendingIsOwed
  <2>7. CASE CreateArtifact(j) \/ SetLive(j) \/ UpdateArtifact(j)
    <3>1. art'.state # "PENDING"
      <4>1. CASE CreateArtifact(j) \/ SetLive(j)
        BY <4>1 DEF CreateArtifact, SetLive
      <4>2. CASE UpdateArtifact(j)
        <5>1. seen[j] \in Artifact /\ art' = [seen[j] EXCEPT !.state = "LIVE", !.uri = "new"]
          BY <1>0, <4>2 DEF UpdateArtifact
        <5> QED
          BY <5>1 DEF Artifact
      <4> QED
        BY <2>7, <4>1, <4>2
    <3> QED
      BY <2>5, <3>1 DEF PendingIsOwed
  <2>8. CASE \/ Validate(j) \/ Transfer(j) \/ FindModel(j) \/ CreateModel(j) \/ FindVersion(j)
             \/ CreateVersion(j) \/ GetPending(j) \/ GetArtifact(j)
    <3>1. art' = art
      BY <2>8 DEF Validate, Transfer, FindModel, CreateModel, FindVersion, CreateVersion,
         GetPending, GetArtifact, registry
    <3>2. PICK y \in (Steps \ {"report"}) \cup {"failed"} : PodAt(j, y)
      <4>1. CASE Validate(j) \/ FindModel(j)
        BY <4>1 DEF Validate, FindModel, Steps
      <4>2. CASE Transfer(j)
        BY <4>2 DEF Transfer, AfterTransfer, Steps
      <4>3. CASE CreateModel(j) \/ FindVersion(j) \/ CreateVersion(j)
        BY <4>3 DEF CreateModel, FindVersion, CreateVersion, Steps
      <4>4. CASE GetPending(j) \/ GetArtifact(j)
        BY <4>4 DEF GetPending, GetArtifact, Steps
      <4> QED
        BY <2>8, <4>1, <4>2, <4>3, <4>4
    <3>3. pod'[j] \notin {"report", "succeeded"}
      BY <1>0, <3>2 DEF PodAt, Steps
    <3>4. \A k \in Job : Owes(k) => Owes(k)'
      BY <2>1, <2>3, <3>3
    <3> QED
      BY <1>1, <2>5, <3>1, <3>4
  <2>9. CASE Report(j)
    <3>1. art' = art /\ pod[j] = "report"
      BY <2>9 DEF Report, registry
    <3>2. \A k \in Job : Owes(k) => Owes(k)'
      BY <2>1, <2>3, <3>1
    <3> QED
      BY <1>1, <2>5, <3>1, <3>2
  <2> QED
    BY <1>5, <2>6, <2>7, <2>8, <2>9 DEF PodStep
<1>6. CASE Register \/ UNCHANGED uploadVars
  <2>1. UNCHANGED <<job, pod, art>>
    BY <1>6 DEF Register, uploadVars, registry
  <2> QED
    BY <2>1 DEF Owned, PendingIsOwed
<1> QED
  BY <1>2, <1>3, <1>4, <1>5, <1>6 DEF UploadNext, RunNext

(* The safety half of PendingSettles: jobs write back whole artifacts that *)
(* they read earlier, and yet one is PENDING only while a job that has not *)
(* succeeded is there to answer for it.                                    *)
THEOREM PendingHasDebtor == UploadSpec => []PendingIsOwed
<1>1. UploadInit => Owned /\ PendingIsOwed
  BY DEF UploadInit, Owned, PendingIsOwed
<1>2. UploadSpec => []UploadTypeOK
  BY UploadTypeCorrect
<1> QED
  BY <1>1, <1>2, OwedStep, PTL DEF UploadSpec
=============================================================================
