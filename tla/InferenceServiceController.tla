--------------------- MODULE InferenceServiceController ---------------------
(***************************************************************************)
(* The controller that mirrors KServe InferenceServices (ISVCs) into the   *)
(* model registry (pkg/inferenceservice-controller/controller.go).         *)
(*                                                                         *)
(* One worker reconciles the ISVCs of a namespace one at a time.  Every    *)
(* call Reconcile() makes is a step: the API server, the registry and the  *)
(* users go on in between, and the controller may crash.  Reconcile()      *)
(* starts from a copy of the informer's cache, which may be behind; an     *)
(* Update() succeeds only while the copy has the object's resourceVersion. *)
(* Versions are not numbered: synced and fresh say whether the cache and   *)
(* the worker's copy have the current one.                                 *)
(***************************************************************************)
EXTENDS Integers

CONSTANTS Key,        \* names of ISVCs
          NoKey,      \* the worker is not at work
          Url,        \* values of status.url
          NoUrl,      \* status.url is nil, or the record has no url property
          ByUrl,      \* the ISVCs whose annotation gives the registry's URL
          MaxUid,     \* bound: incarnations of a name
          MaxEdits,   \* bound: changes of status.url and of labels
          MaxCrashes  \* bound: crashes of the controller

ASSUME KeyAssumption == NoKey \notin Key /\ ByUrl \subseteq Key
ASSUME UrlAssumption == NoUrl \notin Url
ASSUME BoundsAssumption == /\ MaxUid \in Nat
                           /\ MaxEdits \in Nat
                           /\ MaxCrashes \in Nat

VARIABLES
    isvc,     \* the objects in the API server
    born,     \* UIDs given out, by name
    cache,    \* the informer's copies
    synced,   \* the cached copy is the current version
    queue,    \* the work queue
    pc, cur,  \* the call Reconcile() makes next, and for which ISVC
    copy,     \* the isvc of Reconcile()
    fresh,    \* it has the current resourceVersion
    found,    \* id of mrIs, 0 while it has none
    mrIs,     \* the registry's InferenceServices, by name (name/UID)
    servEnv,  \* the registry has the namespace's ServingEnvironment
    up, svc,  \* the registry answers; its Service object can be found
    edits, crashes,
    excused   \* history: services whose record the deletion could not reach

cluster  == <<isvc, born>>
informer == <<cache, synced>>
worker   == <<pc, cur, copy, fresh, found>>
registry == <<mrIs, servEnv>>
world    == <<up, svc>>
bounds   == <<edits, crashes>>
vars == <<cluster, informer, queue, worker, registry, world, bounds, excused>>

Uid == 1..MaxUid
Urls == Url \cup {NoUrl}

(* id is the label with the id of the registry's record, here the UID the  *)
(* record is named after; model says that registeredModelIDLabel is set.   *)
Object == [uid : 0..MaxUid, marked : BOOLEAN, fin : BOOLEAN,
           model : BOOLEAN, id : 0..MaxUid, url : Urls]
NoObject == [uid |-> 0, marked |-> FALSE, fin |-> FALSE,
             model |-> FALSE, id |-> 0, url |-> NoUrl]

Row == [state : {"none", "DEPLOYED", "UNDEPLOYED"}, url : Urls]
NoRow == [state |-> "none", url |-> NoUrl]

PCs == {"idle", "lookup", "onDeletion", "removeFinalizer", "init",
        "addFinalizer", "servingEnvironment", "findIS", "createIS", "getIS",
        "updateIS", "setLabel"}

Exists(o) == o.uid # 0
Labelled(o) == o.id # 0 \/ o.model

Init ==
    /\ isvc = [k \in Key |-> NoObject]
    /\ born = [k \in Key |-> 0]
    /\ cache = [k \in Key |-> NoObject]
    /\ synced = [k \in Key |-> TRUE]
    /\ queue = {}
    /\ pc = "idle"
    /\ cur = NoKey
    /\ copy = NoObject
    /\ fresh = FALSE
    /\ found = 0
    /\ mrIs = [s \in Key \X Uid |-> NoRow]
    /\ servEnv = FALSE
    /\ up = TRUE
    /\ svc = TRUE
    /\ edits = 0
    /\ crashes = 0
    /\ excused = {}

-----------------------------------------------------------------------------
(* The API server, its users and KServe.                                   *)

(* Somebody other than the controller changes an object.                   *)
Write(k, o) ==
    /\ isvc' = [isvc EXCEPT ![k] = o]
    /\ synced' = [synced EXCEPT ![k] = FALSE]
    /\ fresh' = (fresh /\ cur # k)
    /\ UNCHANGED <<cache, queue, pc, cur, copy, found, registry, world, crashes>>

(* An ISVC is created, perhaps from a manifest that still carries the id   *)
(* label of an earlier incarnation.                                        *)
Apply(k) ==
    /\ ~Exists(isvc[k])
    /\ born[k] < MaxUid
    /\ born' = [born EXCEPT ![k] = @ + 1]
    /\ \E id \in {0} \cup {u \in Uid : mrIs[<<k, u>>] # NoRow} :
          Write(k, [NoObject EXCEPT !.uid = born[k] + 1, !.model = TRUE, !.id = id])
    /\ UNCHANGED <<edits, excused>>

(* A deletion only sets the deletionTimestamp while there are finalizers,  *)
(* KServe's among them.                                                    *)
Delete(k) ==
    /\ Exists(isvc[k]) /\ ~isvc[k].marked
    /\ Write(k, [isvc[k] EXCEPT !.marked = TRUE])
    /\ excused' = excused \cup
          (IF isvc[k].id = isvc[k].uid THEN {} ELSE {<<k, isvc[k].uid>>})
    /\ UNCHANGED <<born, edits>>

Reap(k) ==
    /\ isvc[k].marked /\ ~isvc[k].fin
    /\ Write(k, NoObject)
    /\ UNCHANGED <<born, edits, excused>>

ChangeUrl(k) ==
    /\ Exists(isvc[k])
    /\ edits < MaxEdits
    /\ edits' = edits + 1
    /\ \E v \in Urls \ {isvc[k].url} : Write(k, [isvc[k] EXCEPT !.url = v])
    /\ UNCHANGED <<born, excused>>

(* Labels are removed, by an apply that does not have them.                *)
RemoveLabels(k) ==
    /\ Exists(isvc[k])
    /\ edits < MaxEdits
    /\ edits' = edits + 1
    /\ \E m \in {isvc[k].model, FALSE} :
          Write(k, [isvc[k] EXCEPT !.id = 0, !.model = m])
    /\ excused' = excused \cup
          (IF isvc[k].marked THEN {<<k, isvc[k].uid>>} ELSE {})
    /\ UNCHANGED born

(* A watch event brings the cache up to date and queues the ISVC.          *)
Deliver(k) ==
    /\ ~synced[k]
    /\ cache' = [cache EXCEPT ![k] = isvc[k]]
    /\ synced' = [synced EXCEPT ![k] = TRUE]
    /\ queue' = queue \cup {k}
    /\ UNCHANGED <<cluster, worker, registry, world, bounds, excused>>

(* The registry goes away and comes back, and so does its Service.         *)
Outage ==
    /\ \/ up' = ~up /\ UNCHANGED svc
       \/ svc' = ~svc /\ UNCHANGED up
    /\ UNCHANGED <<cluster, informer, queue, worker, registry, bounds, excused>>

-----------------------------------------------------------------------------
(* Reconcile().                                                            *)

Idle == /\ pc' = "idle"
        /\ cur' = NoKey
        /\ copy' = NoObject
        /\ fresh' = FALSE
        /\ found' = 0

Return == Idle /\ UNCHANGED queue
ReturnError == Idle /\ queue' = queue \cup {cur}

GoTo(l) == pc' = l /\ UNCHANGED <<cur, copy, fresh, found, queue>>

(* client.Update(o): the response replaces the copy.                       *)
Update(o) ==
    /\ fresh
    /\ isvc' = [isvc EXCEPT ![cur] = o]
    /\ synced' = [synced EXCEPT ![cur] = FALSE]
    /\ UNCHANGED <<born, cache>>

UpdateFails == ~fresh /\ UNCHANGED <<cluster, informer>>

(* Get(), the early returns and the choice of the branch.                  *)
Get(k) ==
    LET o == cache[k]
        skip == ~Exists(o) \/ ~Labelled(o) \/ (o.marked /\ ~o.fin)
    IN  /\ pc = "idle"
        /\ k \in queue
        /\ queue' = queue \ {k}
        /\ \/ skip /\ UNCHANGED worker
           \/ /\ ~skip
              /\ pc' = IF o.marked THEN "lookup" ELSE "init"
              /\ cur' = k
              /\ copy' = o
              /\ fresh' = synced[k]
              /\ UNCHANGED found
        /\ UNCHANGED <<cluster, informer, registry, world, bounds, excused>>

(* initModelRegistryService(): an annotation, or the one Service found.    *)
ServiceFound == svc \/ cur \in ByUrl

(* Mutant: an unavailable registry makes the deletion fail.                *)
LookupGivesUp ==
    LET reachable == ServiceFound /\ up
        hit == reachable /\ copy.id # 0 /\ mrIs[<<cur, copy.id>>] # NoRow
    IN  /\ pc = "lookup"
        /\ \/ reachable /\ GoTo(IF hit THEN "onDeletion" ELSE "removeFinalizer")
           \/ ~reachable /\ ReturnError
        /\ UNCHANGED <<cluster, informer, registry, world, bounds, excused>>

(* Deletion: whatever fails here, the finalizer is removed afterwards.     *)
Lookup ==
    LET reachable == ServiceFound /\ up
        hit == reachable /\ copy.id # 0 /\ mrIs[<<cur, copy.id>>] # NoRow
    IN  /\ pc = "lookup"
        /\ GoTo(IF hit THEN "onDeletion" ELSE "removeFinalizer")
        /\ excused' = IF reachable THEN excused ELSE excused \cup {<<cur, copy.uid>>}
        /\ UNCHANGED <<cluster, informer, registry, world, bounds>>

(* Mutant: UNDEPLOYED is written only where it is already.                 *)
OnDeletionInverted ==
    /\ pc = "onDeletion"
    /\ GoTo("removeFinalizer")
    /\ excused' = IF up THEN excused ELSE excused \cup {<<cur, copy.uid>>}
    /\ UNCHANGED <<cluster, informer, registry, world, bounds>>

OnDeletion ==
    LET s == <<cur, copy.id>>
    IN  /\ pc = "onDeletion"
        /\ mrIs' = IF up /\ mrIs[s].state = "DEPLOYED"
                   THEN [mrIs EXCEPT ![s].state = "UNDEPLOYED"] ELSE mrIs
        /\ excused' = IF up THEN excused ELSE excused \cup {<<cur, copy.uid>>}
        /\ GoTo("removeFinalizer")
        /\ UNCHANGED <<cluster, informer, servEnv, world, bounds>>

(* A conflict is retried; that the object is gone is no error.             *)
RemoveFinalizer ==
    /\ pc = "removeFinalizer"
    /\ \/ Update([copy EXCEPT !.fin = FALSE]) /\ Return
       \/ UpdateFails /\ Exists(isvc[cur]) /\ ReturnError
       \/ UpdateFails /\ ~Exists(isvc[cur]) /\ Return
    /\ UNCHANGED <<registry, world, bounds, excused>>

InitModelRegistryService ==
    /\ pc = "init"
    /\ \/ ServiceFound /\ GoTo("addFinalizer")
       \/ ~ServiceFound /\ ReturnError
    /\ UNCHANGED <<cluster, informer, registry, world, bounds, excused>>

(* Mutant: a failed Update() of the finalizer is only logged.              *)
AddFinalizerUnchecked ==
    /\ pc = "addFinalizer"
    /\ \/ copy.fin /\ GoTo("servingEnvironment") /\ UNCHANGED <<cluster, informer>>
       \/ /\ ~copy.fin
          /\ Update([copy EXCEPT !.fin = TRUE])
          /\ copy' = [copy EXCEPT !.fin = TRUE]
          /\ pc' = "servingEnvironment"
          /\ UNCHANGED <<cur, fresh, found, queue>>
       \/ ~copy.fin /\ UpdateFails /\ GoTo("servingEnvironment")
    /\ UNCHANGED <<registry, world, bounds, excused>>

AddFinalizer ==
    /\ pc = "addFinalizer"
    /\ \/ copy.fin /\ GoTo("servingEnvironment") /\ UNCHANGED <<cluster, informer>>
       \/ /\ ~copy.fin
          /\ Update([copy EXCEPT !.fin = TRUE])
          /\ copy' = [copy EXCEPT !.fin = TRUE]
          /\ pc' = "servingEnvironment"
          /\ UNCHANGED <<cur, fresh, found, queue>>
       \/ ~copy.fin /\ UpdateFails /\ ReturnError
    /\ UNCHANGED <<registry, world, bounds, excused>>

(* Find, and on any error create: the second is refused when it exists.    *)
GetOrCreateServingEnvironment ==
    /\ pc = "servingEnvironment"
    /\ \/ up /\ servEnv' = TRUE /\ GoTo(IF copy.id # 0 THEN "getIS" ELSE "findIS")
       \/ ~up /\ ReturnError /\ UNCHANGED servEnv
    /\ UNCHANGED <<cluster, informer, mrIs, world, bounds, excused>>

(* createMRInferenceService(): any error of the search leads to a creation.*)
FindInferenceService ==
    LET hit == up /\ mrIs[<<cur, copy.uid>>] # NoRow
    IN  /\ pc = "findIS"
        /\ pc' = IF hit THEN "setLabel" ELSE "createIS"
        /\ found' = IF hit THEN copy.uid ELSE found
        /\ UNCHANGED <<cluster, informer, queue, cur, copy, fresh, registry, world, bounds, excused>>

(* Mutant: the record is created without a desired state.                  *)
CreateInferenceServiceNoState ==
    LET s == <<cur, copy.uid>>
    IN  /\ pc = "createIS"
        /\ \/ /\ up /\ mrIs[s] = NoRow
              /\ mrIs' = [mrIs EXCEPT ![s] = [state |-> "nil", url |-> copy.url]]
              /\ pc' = "setLabel"
              /\ found' = copy.uid
              /\ UNCHANGED <<cur, copy, fresh, queue>>
           \/ /\ ~(up /\ mrIs[s] = NoRow)
              /\ ReturnError
              /\ UNCHANGED mrIs
        /\ UNCHANGED <<cluster, informer, servEnv, world, bounds, excused>>

CreateInferenceService ==
    LET s == <<cur, copy.uid>>
    IN  /\ pc = "createIS"
        /\ \/ /\ up /\ mrIs[s] = NoRow
              /\ mrIs' = [mrIs EXCEPT ![s] = [state |-> "DEPLOYED", url |-> copy.url]]
              /\ pc' = "setLabel"
              /\ found' = copy.uid
              /\ UNCHANGED <<cur, copy, fresh, queue>>
           \/ /\ ~(up /\ mrIs[s] = NoRow)
              /\ ReturnError
              /\ UNCHANGED mrIs
        /\ UNCHANGED <<cluster, informer, servEnv, world, bounds, excused>>

(* Mutant: a nil status.url is never a difference.                         *)
CheckURLDiffNilSame(o, url) == o.url # NoUrl /\ o.url # url

CheckURLDiff(o, url) == o.url # url

GetInferenceService ==
    LET s == <<cur, copy.id>>
    IN  /\ pc = "getIS"
        /\ \/ /\ up /\ mrIs[s] # NoRow
              /\ IF CheckURLDiff(copy, mrIs[s].url)
                 THEN GoTo("updateIS") ELSE Return
           \/ ~(up /\ mrIs[s] # NoRow) /\ ReturnError
        /\ UNCHANGED <<cluster, informer, registry, world, bounds, excused>>

(* The id label is set already: Reconcile() ends after the update.         *)
UpdateInferenceService ==
    /\ pc = "updateIS"
    /\ \/ /\ up
          /\ mrIs' = [mrIs EXCEPT ![<<cur, copy.id>>].url = copy.url]
          /\ Return
       \/ ~up /\ ReturnError /\ UNCHANGED mrIs
    /\ UNCHANGED <<cluster, informer, servEnv, world, bounds, excused>>

SetLabel ==
    /\ pc = "setLabel"
    /\ \/ Update([copy EXCEPT !.id = found]) /\ Return
       \/ UpdateFails /\ ReturnError
    /\ UNCHANGED <<registry, world, bounds, excused>>

(* The controller dies and is started again: the cache is filled anew and  *)
(* every ISVC found is queued.                                             *)
Crash ==
    /\ crashes < MaxCrashes
    /\ crashes' = crashes + 1
    /\ cache' = isvc
    /\ synced' = [k \in Key |-> TRUE]
    /\ queue' = {k \in Key : Exists(isvc[k])}
    /\ Idle
    /\ UNCHANGED <<cluster, registry, world, edits, excused>>

-----------------------------------------------------------------------------
Work ==
    \/ Lookup \/ OnDeletion \/ RemoveFinalizer
    \/ InitModelRegistryService \/ AddFinalizer
    \/ GetOrCreateServingEnvironment
    \/ FindInferenceService \/ CreateInferenceService
    \/ GetInferenceService \/ UpdateInferenceService
    \/ SetLabel

Next ==
    \/ \E k \in Key : \/ Apply(k) \/ Delete(k) \/ Reap(k)
                      \/ ChangeUrl(k) \/ RemoveLabels(k)
                      \/ Deliver(k) \/ Get(k)
    \/ Work
    \/ Outage
    \/ Crash

Spec == Init /\ [][Next]_vars

(* The worker runs, watch events arrive, the queue is first in, first out  *)
(* (so every queued ISVC has its turn), and other finalizers are removed.  *)
FairSpec ==
    /\ Spec
    /\ WF_vars(Work)
    /\ \A k \in Key : /\ WF_vars(Deliver(k))
                      /\ SF_vars(Get(k))
                      /\ WF_vars(Reap(k))

-----------------------------------------------------------------------------
ClusterType ==
    /\ isvc \in [Key -> Object]
    /\ born \in [Key -> 0..MaxUid]
    /\ cache \in [Key -> Object]
    /\ synced \in [Key -> BOOLEAN]
    /\ edits \in 0..MaxEdits /\ crashes \in 0..MaxCrashes

WorkerType ==
    /\ queue \subseteq Key
    /\ pc \in PCs
    /\ cur \in Key \cup {NoKey}
    /\ cur = NoKey <=> pc = "idle"
    /\ copy \in Object
    /\ fresh \in BOOLEAN
    /\ found \in 0..MaxUid

RegistryType ==
    /\ mrIs \in [Key \X Uid -> Row]
    /\ servEnv \in BOOLEAN
    /\ up \in BOOLEAN /\ svc \in BOOLEAN
    /\ excused \subseteq Key \X (0..MaxUid)

TypeOK == ClusterType /\ WorkerType /\ RegistryType

(* The life of a service, from the API server's point of view.             *)
Life == [s \in Key \X Uid |->
           IF born[s[1]] < s[2] THEN "absent"
           ELSE IF isvc[s[1]].uid # s[2] THEN "gone"
           ELSE IF isvc[s[1]].marked THEN "deleting" ELSE "live"]

Record == [s \in Key \X Uid |-> mrIs[s].state]

Abstract == INSTANCE DeploymentRecord
              WITH Service <- Key \X Uid, life <- Life, record <- Record

(* The controller implements the deployment record: whatever the cache     *)
(* still shows, nothing is recorded for a service that is gone, a record   *)
(* is not set to UNDEPLOYED while its service lives, and it never goes     *)
(* back.  Rests on the finalizer being stored before the first registry    *)
(* write of Reconcile().                                                   *)
Refinement == Abstract!Spec

(* Once a service is gone its record is not DEPLOYED, except where the     *)
(* deletion met an unreachable registry or had no id label to go by.       *)
UndeployedWhenGone ==
    \A s \in Key \X Uid :
       Life[s] = "gone" /\ s \notin excused => mrIs[s].state # "DEPLOYED"

(* What the proofs need beyond these.  A version of object k that the      *)
(* cache or the worker has: a deletion it shows is not undone, an unmarked *)
(* one with the finalizer belongs to an object that still has it, and one  *)
(* with its own id label got it from SetLabel.                             *)
Version(c, k) ==
    /\ c.uid <= born[k]
    /\ c.id <= c.uid
    /\ c.uid = 0 => ~c.marked /\ ~c.fin
    /\ c.marked /\ isvc[k].uid = c.uid => isvc[k].marked
    /\ c.fin /\ ~c.marked => isvc[k].uid = c.uid /\ isvc[k].fin
    /\ c.marked /\ <<k, c.uid>> \notin excused => c.id = c.uid
    /\ c.id = c.uid /\ c.uid # 0 /\ ~c.marked => c.fin

Versions ==
    \A k \in Key :
       /\ isvc[k].uid \in {0, born[k]}
       /\ Version(isvc[k], k)
       /\ Version(cache[k], k)
       /\ synced[k] => cache[k] = isvc[k]

(* The worker's copy; the cache is never behind a deletion the worker saw. *)
WorkerCopy ==
    pc # "idle" =>
       /\ copy.uid # 0
       /\ Version(copy, cur)
       /\ fresh => copy = isvc[cur]
       /\ copy.marked => \/ cache[cur].uid = 0
                         \/ cache[cur].uid > copy.uid
                         \/ cache[cur].uid = copy.uid /\ cache[cur].marked

Branch ==
    /\ pc \in {"lookup", "onDeletion", "removeFinalizer"} <=> pc # "idle" /\ copy.marked
    /\ copy.marked => copy.fin
    /\ pc \in {"servingEnvironment", "findIS", "createIS", "getIS", "updateIS", "setLabel"}
          => copy.fin
    /\ pc \in {"onDeletion", "getIS", "updateIS"} => copy.id # 0
    /\ pc = "setLabel" => found = copy.uid

Rows ==
    /\ \A k \in Key, u \in Uid :
          mrIs[<<k, u>>] # NoRow => mrIs[<<k, u>>].state # "none" /\ u <= born[k]
    /\ \A k \in Key : isvc[k].marked /\ ~isvc[k].fin /\ <<k, isvc[k].uid>> \notin excused
                         => mrIs[<<k, isvc[k].uid>>].state # "DEPLOYED"
    /\ pc = "removeFinalizer" /\ <<cur, copy.uid>> \notin excused
          => mrIs[<<cur, copy.uid>>].state # "DEPLOYED"
    /\ pc = "updateIS" => mrIs[<<cur, copy.id>>] # NoRow

(* An id label that resolves: the record it names is in the registry.      *)
Resolves(o, k) == o.id # 0 => mrIs[<<k, o.id>>] # NoRow

(* No version of an ISVC that is stored, cached or worked on carries the   *)
(* id of a record the registry does not have, whatever was deleted,        *)
(* applied again or lost in a crash: onDeletion and the update of the URL  *)
(* can fail only because the registry does not answer.                     *)
LabelsResolve ==
    /\ \A k \in Key : Resolves(isvc[k], k) /\ Resolves(cache[k], k)
    /\ pc # "idle" => Resolves(copy, cur)
    /\ pc = "setLabel" => mrIs[<<cur, found>>] # NoRow

(* A registry record never disappears, and its desired state goes from     *)
(* DEPLOYED to UNDEPLOYED only while or after its service is deleted.      *)
UndeployedByDeletion ==
    [][\A s \in Key \X Uid :
         /\ mrIs[s] # NoRow => mrIs'[s] # NoRow
         /\ mrIs[s].state = "UNDEPLOYED" => mrIs'[s].state = "UNDEPLOYED"
         /\ mrIs'[s].state = "UNDEPLOYED" /\ mrIs[s].state # "UNDEPLOYED"
               => mrIs[s].state = "DEPLOYED" /\ Life[s] \in {"deleting", "gone"}]_vars

IInv == TypeOK /\ Versions /\ WorkerCopy /\ Branch /\ Rows /\ UndeployedWhenGone

(* The finalizer of a deleted ISVC that has a registry label is removed,   *)
(* even if the registry never answers again.                               *)
DeletionNotBlocked ==
    \A k \in Key : (isvc[k].marked /\ isvc[k].fin /\ Labelled(isvc[k]))
                      ~> ~(isvc[k].marked /\ isvc[k].fin /\ Labelled(isvc[k]))

InSync(o, k) == o.id # 0 /\ mrIs[<<k, o.id>>].state # "none" /\ mrIs[<<k, o.id>>].url = o.url

(* Reconcile() will not look at k again before k changes.                  *)
Settled(k) == synced[k] /\ k \notin queue /\ cur # k

(* No wake-up is lost: an ISVC the controller is done with has its id      *)
(* label and a record with its current URL, or is deleted and has lost the *)
(* controller's finalizer.  A reconciliation that ends early, works on an  *)
(* old version or is cut off by a crash leaves the ISVC queued, or changed *)
(* and not yet delivered.                                                  *)
SettledInSync ==
    \A k \in Key : Settled(k) /\ Exists(isvc[k]) /\ Labelled(isvc[k]) =>
        IF isvc[k].marked THEN ~isvc[k].fin ELSE InSync(isvc[k], k)

(* ... because a version that is worked on and not followed by another     *)
(* event is the current one.                                               *)
CopyCurrent == pc # "idle" /\ synced[cur] /\ cur \notin queue => copy = isvc[cur]

(* With a registry that stays reachable every ISVC that stays has, in the  *)
(* end, its id label and a record with its current URL, whatever crashed   *)
(* or conflicted on the way.                                               *)
EventuallyInSync ==
    <>[](up /\ svc) =>
       \A k \in Key : <>[](Exists(isvc[k]) /\ ~isvc[k].marked /\ Labelled(isvc[k])
                              => InSync(isvc[k], k))
=============================================================================
