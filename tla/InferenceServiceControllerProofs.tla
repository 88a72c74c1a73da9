------------------ MODULE InferenceServiceControllerProofs ------------------
(***************************************************************************)
(* Proofs about InferenceServiceController for any set of ISVCs and any    *)
(* number of incarnations, edits and crashes.                              *)
(***************************************************************************)
EXTENDS InferenceServiceController, TLAPS

USE KeyAssumption, UrlAssumption, BoundsAssumption

(* What the model builds out of objects and rows are objects and rows.     *)
LEMMA Empty == NoObject \in Object /\ NoRow \in Row
  BY DEF NoObject, NoRow, Object, Row, Urls

(* The types of the fields of an object. *)
LEMMA Fields ==
    ASSUME NEW o \in Object
    PROVE  /\ o.uid \in 0..MaxUid
           /\ o.marked \in BOOLEAN
           /\ o.fin \in BOOLEAN
           /\ o.model \in BOOLEAN
           /\ o.id \in 0..MaxUid
           /\ o.url \in Urls
  BY DEF Object

(* An object stays one when a user or Reconcile() changes a field. *)
LEMMA Edited ==
    ASSUME NEW o \in Object, NEW u \in 0..MaxUid, NEW b \in BOOLEAN, NEW v \in Urls
    PROVE  /\ [o EXCEPT !.marked = TRUE] \in Object
           /\ [o EXCEPT !.fin = b] \in Object
           /\ [o EXCEPT !.id = u] \in Object
           /\ [o EXCEPT !.id = u, !.model = b] \in Object
           /\ [o EXCEPT !.url = v] \in Object
  BY DEF Object

(* What Apply creates is an object. *)
LEMMA Applied ==
    ASSUME NEW u \in 0..MaxUid, NEW i \in 0..MaxUid
    PROVE  [NoObject EXCEPT !.uid = u, !.model = TRUE, !.id = i] \in Object
  BY DEF Object, NoObject, Urls

(* The rows the registry is asked to store are rows. *)
LEMMA Saved ==
    ASSUME NEW r \in Row, NEW v \in Urls
    PROVE  /\ [r EXCEPT !.state = "UNDEPLOYED"] \in Row
           /\ [r EXCEPT !.url = v] \in Row
           /\ [state |-> "DEPLOYED", url |-> v] \in Row
  BY DEF Row

(* Reconcile() returns, or goes on to its next call. *)
LEMMA IdleType ==
    ASSUME TypeOK, pc # "idle", Idle, queue' \in {queue, queue \cup {cur}}
    PROVE  WorkerType'
  <1> USE DEF TypeOK, Idle, WorkerType
  <1>1. copy' \in Object BY Empty
  <1>2. found' \in 0..MaxUid OBVIOUS
  <1>3. pc' \in PCs BY DEF PCs
  <1> QED BY <1>1, <1>2, <1>3

(* Reconcile() goes on to its next call. *)
LEMMA GoToType ==
    ASSUME TypeOK, pc # "idle", NEW l \in PCs \ {"idle"}, GoTo(l)
    PROVE  WorkerType'
  BY DEF TypeOK, GoTo, WorkerType

(* An object is written by somebody else, or by the worker. *)
LEMMA WriteType ==
    ASSUME TypeOK, NEW k \in Key, NEW o \in Object, Write(k, o)
    PROVE  /\ WorkerType'
           /\ isvc' \in [Key -> Object]
           /\ synced' \in [Key -> BOOLEAN]
  BY DEF TypeOK, Write, WorkerType, ClusterType

(* The worker stores its copy. *)
LEMMA UpdateType ==
    ASSUME TypeOK, pc # "idle", NEW o \in Object, Update(o), UNCHANGED bounds
    PROVE  ClusterType'
  BY DEF TypeOK, Update, WorkerType, ClusterType, bounds

(* Every step of the controller, its users and its services keeps every    *)
(* variable in its type.                                                   *)
LEMMA TypeStep == TypeOK /\ [Next]_vars => TypeOK'
  <1> SUFFICES ASSUME TypeOK, [Next]_vars
               PROVE  TypeOK'
    OBVIOUS
  <1> USE DEF TypeOK
  <1>a. ASSUME UNCHANGED <<cluster, informer, bounds>> PROVE ClusterType'
    BY <1>a DEF ClusterType, cluster, informer, bounds
  <1>b. ASSUME UNCHANGED <<registry, world, excused>> PROVE RegistryType'
    BY <1>b DEF RegistryType, registry, world
  <1>c. pc # "idle" => cur \in Key
    BY DEF WorkerType
  <1>d. copy.uid \in 0..MaxUid /\ copy.id \in 0..MaxUid /\ copy.url \in Urls
    BY Fields DEF WorkerType
  <1>e. 0 \in 0..MaxUid /\ NoUrl \in Urls
    BY DEF Urls
  <1>1. ASSUME NEW k \in Key, Apply(k) PROVE TypeOK'
    <2>1. PICK id \in {0} \cup {u \in Uid : mrIs[<<k, u>>] # NoRow} :
             Write(k, [NoObject EXCEPT !.uid = born[k] + 1, !.model = TRUE, !.id = id])
      BY <1>1 DEF Apply
    <2>2. born[k] + 1 \in 0..MaxUid /\ id \in 0..MaxUid
      BY <1>1, <2>1 DEF Apply, ClusterType, Uid
    <2>3. [NoObject EXCEPT !.uid = born[k] + 1, !.model = TRUE, !.id = id] \in Object
      BY <2>2, Applied
    <2>4. WorkerType' /\ isvc' \in [Key -> Object] /\ synced' \in [Key -> BOOLEAN]
      BY <2>1, <2>3, WriteType
    <2>5. RegistryType' BY <1>1, <2>1, <1>b DEF Apply, Write
    <2>6. ClusterType' BY <1>1, <2>1, <2>2, <2>4 DEF Apply, Write, ClusterType
    <2> QED BY <2>4, <2>5, <2>6
  <1>2. ASSUME NEW k \in Key, Delete(k) PROVE TypeOK'
    <2>1. [isvc[k] EXCEPT !.marked = TRUE] \in Object /\ isvc[k].uid \in 0..MaxUid
      BY Fields, Edited, <1>e DEF ClusterType
    <2>2. WorkerType' /\ isvc' \in [Key -> Object] /\ synced' \in [Key -> BOOLEAN]
      BY <1>2, <2>1, WriteType DEF Delete
    <2>3. ClusterType' BY <1>2, <2>2 DEF Delete, Write, ClusterType
    <2>4. RegistryType' BY <1>2, <2>1 DEF Delete, Write, RegistryType, registry, world
    <2> QED BY <2>2, <2>3, <2>4
  <1>3. ASSUME NEW k \in Key, Reap(k) PROVE TypeOK'
    <2>1. WorkerType' /\ isvc' \in [Key -> Object] /\ synced' \in [Key -> BOOLEAN]
      BY <1>3, Empty, WriteType DEF Reap
    <2>2. ClusterType' BY <1>3, <2>1 DEF Reap, Write, ClusterType
    <2>3. RegistryType' BY <1>3, <1>b DEF Reap, Write
    <2> QED BY <2>1, <2>2, <2>3
  <1>4. ASSUME NEW k \in Key, ChangeUrl(k) PROVE TypeOK'
    <2>1. PICK v \in Urls : Write(k, [isvc[k] EXCEPT !.url = v])
      BY <1>4 DEF ChangeUrl
    <2>2. [isvc[k] EXCEPT !.url = v] \in Object
      BY Edited, <1>e DEF ClusterType
    <2>3. WorkerType' /\ isvc' \in [Key -> Object] /\ synced' \in [Key -> BOOLEAN]
      BY <2>1, <2>2, WriteType
    <2>4. ClusterType' BY <1>4, <2>1, <2>3 DEF ChangeUrl, Write, ClusterType
    <2>5. RegistryType' BY <1>4, <2>1, <1>b DEF ChangeUrl, Write
    <2> QED BY <2>3, <2>4, <2>5
  <1>5. ASSUME NEW k \in Key, RemoveLabels(k) PROVE TypeOK'
    <2>1. PICK m \in {isvc[k].model, FALSE} :
             Write(k, [isvc[k] EXCEPT !.id = 0, !.model = m])
      BY <1>5 DEF RemoveLabels
    <2>2. m \in BOOLEAN /\ isvc[k].uid \in 0..MaxUid
      BY Fields DEF ClusterType
    <2>3. [isvc[k] EXCEPT !.id = 0, !.model = m] \in Object
      BY <2>2, Edited, <1>e DEF ClusterType
    <2>4. WorkerType' /\ isvc' \in [Key -> Object] /\ synced' \in [Key -> BOOLEAN]
      BY <2>1, <2>3, WriteType
    <2>5. ClusterType' BY <1>5, <2>1, <2>4 DEF RemoveLabels, Write, ClusterType
    <2>6. RegistryType' BY <1>5, <2>1, <2>2 DEF RemoveLabels, Write, RegistryType, registry, world
    <2> QED BY <2>4, <2>5, <2>6
  <1>6. ASSUME NEW k \in Key, Deliver(k) PROVE TypeOK'
    <2>1. ClusterType' BY <1>6 DEF Deliver, ClusterType, cluster, bounds
    <2>2. WorkerType' BY <1>6 DEF Deliver, WorkerType, worker
    <2>3. RegistryType' BY <1>6, <1>b DEF Deliver
    <2> QED BY <2>1, <2>2, <2>3
  <1>7. ASSUME NEW k \in Key, Get(k) PROVE TypeOK'
    <2>1. WorkerType' BY <1>7 DEF Get, ClusterType, WorkerType, worker, PCs
    <2> QED BY <1>7, <2>1, <1>a, <1>b DEF Get
  <1>8. CASE Lookup
    <2>1. WorkerType' BY <1>8, GoToType DEF Lookup, PCs
    <2>2. ClusterType' BY <1>8, <1>a DEF Lookup
    <2>3. RegistryType' BY <1>8, <1>c, <1>d DEF Lookup, RegistryType, registry, world
    <2> QED BY <2>1, <2>2, <2>3
  <1>9. CASE OnDeletion
    <2>1. WorkerType' BY <1>9, GoToType DEF OnDeletion, PCs
    <2>2. ClusterType' BY <1>9, <1>a DEF OnDeletion
    <2>3. mrIs' \in [Key \X Uid -> Row]
      BY <1>9, Saved, <1>e DEF OnDeletion, RegistryType
    <2>4. RegistryType' BY <1>9, <1>c, <1>d, <2>3 DEF OnDeletion, RegistryType, world
    <2> QED BY <2>1, <2>2, <2>4
  <1>10. CASE RemoveFinalizer
    <2>1. [copy EXCEPT !.fin = FALSE] \in Object
      BY Edited, <1>e DEF WorkerType
    <2>2. WorkerType' BY <1>10, IdleType DEF RemoveFinalizer, Return, ReturnError
    <2>3. ClusterType'
      BY <1>10, <1>a, <2>1, UpdateType DEF RemoveFinalizer, UpdateFails
    <2>4. RegistryType' BY <1>10, <1>b DEF RemoveFinalizer
    <2> QED BY <2>2, <2>3, <2>4
  <1>11. CASE InitModelRegistryService
    <2>1. WorkerType'
      BY <1>11, GoToType, IdleType DEF InitModelRegistryService, ReturnError, PCs
    <2> QED BY <1>11, <2>1, <1>a, <1>b DEF InitModelRegistryService
  <1>12. CASE AddFinalizer
    <2>1. [copy EXCEPT !.fin = TRUE] \in Object
      BY Edited, <1>e DEF WorkerType
    <2>2. WorkerType'
      <3>1. CASE GoTo("servingEnvironment") BY <1>12, <3>1, GoToType DEF AddFinalizer, PCs
      <3>2. CASE ReturnError BY <1>12, <3>2, IdleType DEF AddFinalizer, ReturnError
      <3>3. CASE /\ copy' = [copy EXCEPT !.fin = TRUE]
                 /\ pc' = "servingEnvironment"
                 /\ UNCHANGED <<cur, fresh, found, queue>>
        BY <1>12, <1>c, <2>1, <3>3 DEF AddFinalizer, WorkerType, PCs
      <3> QED BY <1>12, <3>1, <3>2, <3>3 DEF AddFinalizer
    <2>3. ClusterType' BY <1>12, <1>a, <2>1, UpdateType DEF AddFinalizer, UpdateFails
    <2>4. RegistryType' BY <1>12, <1>b DEF AddFinalizer
    <2> QED BY <2>2, <2>3, <2>4
  <1>13. CASE GetOrCreateServingEnvironment
    <2>1. WorkerType'
      BY <1>13, GoToType, IdleType DEF GetOrCreateServingEnvironment, ReturnError, PCs
    <2>2. RegistryType' BY <1>13 DEF GetOrCreateServingEnvironment, RegistryType, world
    <2> QED BY <1>13, <2>1, <2>2, <1>a DEF GetOrCreateServingEnvironment
  <1>14. CASE FindInferenceService
    <2>1. WorkerType' BY <1>14, <1>c, <1>d DEF FindInferenceService, WorkerType, PCs
    <2> QED BY <1>14, <2>1, <1>a, <1>b DEF FindInferenceService
  <1>15. CASE CreateInferenceService
    <2>1. WorkerType'
      <3>1. CASE ReturnError BY <1>15, <3>1, IdleType DEF CreateInferenceService, ReturnError
      <3>2. CASE pc' = "setLabel" /\ found' = copy.uid /\ UNCHANGED <<cur, copy, fresh, queue>>
        BY <1>15, <1>c, <1>d, <3>2 DEF CreateInferenceService, WorkerType, PCs
      <3> QED BY <1>15, <3>1, <3>2 DEF CreateInferenceService
    <2>2. [state |-> "DEPLOYED", url |-> copy.url] \in Row BY <1>d DEF Row
    <2>3. RegistryType' BY <1>15, <2>2 DEF CreateInferenceService, RegistryType, world
    <2> QED BY <1>15, <2>1, <2>3, <1>a DEF CreateInferenceService
  <1>16. CASE GetInferenceService
    <2>1. WorkerType'
      BY <1>16, GoToType, IdleType DEF GetInferenceService, Return, ReturnError, PCs
    <2> QED BY <1>16, <2>1, <1>a, <1>b DEF GetInferenceService
  <1>17. CASE UpdateInferenceService
    <2>1. WorkerType' BY <1>17, IdleType DEF UpdateInferenceService, Return, ReturnError
    <2>2. mrIs' \in [Key \X Uid -> Row]
      <3>1. CASE mrIs' = mrIs BY <3>1 DEF RegistryType
      <3>2. CASE mrIs' = [mrIs EXCEPT ![<<cur, copy.id>>].url = copy.url]
        <4>1. \A r \in Row : [r EXCEPT !.url = copy.url] \in Row
          BY <1>d, Saved
        <4> QED BY <3>2, <4>1 DEF RegistryType
      <3> QED BY <1>17, <3>1, <3>2 DEF UpdateInferenceService
    <2>3. RegistryType' BY <1>17, <2>2 DEF UpdateInferenceService, RegistryType, world
    <2> QED BY <1>17, <2>1, <2>3, <1>a DEF UpdateInferenceService
  <1>18. CASE SetLabel
    <2>1. [copy EXCEPT !.id = found] \in Object
      BY Edited, <1>e DEF WorkerType
    <2>2. WorkerType' BY <1>18, IdleType DEF SetLabel, Return, ReturnError
    <2>3. ClusterType' BY <1>18, <1>a, <2>1, UpdateType DEF SetLabel, UpdateFails
    <2>4. RegistryType' BY <1>18, <1>b DEF SetLabel
    <2> QED BY <2>2, <2>3, <2>4
  <1>19. CASE Outage
    <2>1. WorkerType' BY <1>19 DEF Outage, WorkerType, worker
    <2>2. RegistryType' BY <1>19 DEF Outage, RegistryType, registry
    <2> QED BY <1>19, <2>1, <2>2, <1>a DEF Outage
  <1>20. CASE Crash
    <2>1. WorkerType'
      <3>1. copy' \in Object BY <1>20, Empty DEF Crash, Idle
      <3>2. pc' \in PCs /\ found' \in 0..MaxUid BY <1>20, <1>e DEF Crash, Idle, PCs
      <3>3. queue' \subseteq Key BY <1>20 DEF Crash
      <3> QED BY <1>20, <3>1, <3>2, <3>3 DEF Crash, Idle, WorkerType
    <2>2. ClusterType' BY <1>20 DEF Crash, ClusterType, cluster
    <2>3. RegistryType' BY <1>20, <1>b DEF Crash
    <2> QED BY <2>1, <2>2, <2>3
  <1>21. CASE UNCHANGED vars
    <2>1. WorkerType' BY <1>21 DEF vars, worker, WorkerType
    <2> QED BY <1>21, <2>1, <1>a, <1>b DEF vars
  <1> QED BY <1>1, <1>2, <1>3, <1>4, <1>5, <1>6, <1>7, <1>8, <1>9, <1>10,
             <1>11, <1>12, <1>13, <1>14, <1>15, <1>16, <1>17, <1>18, <1>19,
             <1>20, <1>21 DEF Next, Work

(* The initial state satisfies the inductive invariant. *)
LEMMA InitIInv == Init => IInv
  <1> SUFFICES ASSUME Init PROVE IInv
    OBVIOUS
  <1>1. TypeOK
    <2>1. ClusterType BY Empty DEF Init, ClusterType
    <2>2. WorkerType
      <3>1. copy \in Object BY Empty DEF Init
      <3>2. pc \in PCs /\ found \in 0..MaxUid BY DEF Init, PCs
      <3> QED BY <3>1, <3>2 DEF Init, WorkerType
    <2>3. RegistryType BY Empty DEF Init, RegistryType
    <2> QED BY <2>1, <2>2, <2>3 DEF TypeOK
  <1>2. Versions
    <2>1. ASSUME NEW k \in Key PROVE Version(NoObject, k)
      BY DEF Init, Version, NoObject
    <2>2. NoObject.uid = 0 BY DEF NoObject
    <2> QED BY <2>1, <2>2 DEF Init, Versions
  <1>3. WorkerCopy /\ Branch BY DEF Init, WorkerCopy, Branch, NoObject
  <1>4. Rows BY DEF Init, Rows, NoObject, NoRow
  <1>5. UndeployedWhenGone BY DEF Init, UndeployedWhenGone, NoRow
  <1> QED BY <1>1, <1>2, <1>3, <1>4, <1>5 DEF IInv

(* A user or KServe edits an object that exists: older versions stay older *)
(* versions.                                                               *)
LEMMA EditVersions ==
    ASSUME IInv, TypeOK', NEW k \in Key, NEW o \in Object, Write(k, o),
           born' = born, excused \subseteq excused',
           isvc[k].uid # 0, o.uid = isvc[k].uid, o.fin = isvc[k].fin,
           isvc[k].marked => o.marked, o.id \in {isvc[k].id, 0},
           o.marked /\ <<k, o.uid>> \notin excused' => o.id = o.uid
    PROVE  Versions' /\ WorkerCopy' /\ Branch'
  <1> USE DEF IInv
  <1>1. \A j \in Key : j # k => isvc'[j] = isvc[j] /\ synced'[j] = synced[j]
    BY DEF Write, TypeOK, ClusterType
  <1>2. isvc'[k] = o /\ ~synced'[k] /\ cache' = cache
    BY DEF Write, TypeOK, ClusterType
  <1>3. ASSUME NEW j \in Key, NEW c \in Object, Version(c, j) PROVE Version(c, j)'
    BY <1>1, <1>2, <1>3, Fields DEF Version, Versions, TypeOK, ClusterType
  <1>4. Version(o, k)'
    <2>1. /\ isvc[k].uid \in {0, born[k]}
          /\ Version(isvc[k], k)
      BY DEF Versions
    <2>2. born[k] \in 0..MaxUid /\ born' = born /\ isvc[k] \in Object
      BY DEF TypeOK, ClusterType
    <2> QED BY <1>2, <2>1, <2>2, Fields DEF Version
  <1>5. Versions'
    BY <1>1, <1>2, <1>3, <1>4 DEF Versions, TypeOK, ClusterType
  <1>6. WorkerCopy'
    <2> SUFFICES ASSUME pc' # "idle" PROVE WorkerCopy!2'
      BY DEF WorkerCopy
    <2> QED BY <1>1, <1>2, <1>3 DEF WorkerCopy, Write, TypeOK, WorkerType
  <1>7. Branch' BY DEF Branch, Write
  <1> QED BY <1>5, <1>6, <1>7

(* Nothing in the cluster or in the cache changes. *)
LEMMA QuietVersions ==
    ASSUME IInv, UNCHANGED <<cluster, informer>>, excused \subseteq excused'
    PROVE  /\ Versions'
           /\ \A k \in Key, c \in Object : Version(c, k) => Version(c, k)'
  <1>1. ASSUME NEW k \in Key, NEW c \in Object, Version(c, k) PROVE Version(c, k)'
    BY <1>1 DEF Version, cluster
  <1> QED BY <1>1 DEF IInv, Versions, TypeOK, ClusterType, cluster, informer

(* Reconcile() goes on with the same copy, or returns. *)
LEMMA QuietCopy ==
    ASSUME IInv, TypeOK', UNCHANGED <<cluster, informer>>, excused \subseteq excused',
           \/ pc # "idle" /\ UNCHANGED <<cur, copy, fresh>>
           \/ Idle
    PROVE  Versions' /\ WorkerCopy'
  <1>1. Versions' /\ \A k \in Key, c \in Object : Version(c, k) => Version(c, k)'
    BY QuietVersions
  <1>2. CASE Idle BY <1>1, <1>2 DEF WorkerCopy, Idle
  <1>3. CASE pc # "idle" /\ UNCHANGED <<cur, copy, fresh>>
    BY <1>1, <1>3 DEF IInv, WorkerCopy, TypeOK, WorkerType, cluster, informer
  <1> QED BY <1>1, <1>2, <1>3

(* A record is not DEPLOYED for a service that is gone: it was not before, *)
(* or the service is only now gone.                                        *)
LEMMA KeepUndeployed ==
    ASSUME IInv, excused \subseteq excused',
           \A s \in Key \X Uid :
              /\ Life'[s] = "gone" => Life[s] = "gone"
              /\ mrIs'[s].state = "DEPLOYED" => mrIs[s].state = "DEPLOYED" \/ Life[s] # "gone"
    PROVE  UndeployedWhenGone'
  BY DEF IInv, UndeployedWhenGone

(* The life of a service, by name and UID. *)
LEMMA LifeOf ==
    ASSUME NEW k \in Key, NEW u \in Uid
    PROVE  /\ Life[<<k, u>>] = IF born[k] < u THEN "absent"
                               ELSE IF isvc[k].uid # u THEN "gone"
                               ELSE IF isvc[k].marked THEN "deleting" ELSE "live"
           /\ Life'[<<k, u>>] = IF born'[k] < u THEN "absent"
                                ELSE IF isvc'[k].uid # u THEN "gone"
                                ELSE IF isvc'[k].marked THEN "deleting" ELSE "live"
  BY DEF Life

(* Edits of an existing object that keep its UID and finalizer. *)
LEMMA EditStep ==
    ASSUME IInv, TypeOK', NEW k \in Key, NEW o \in Object, Write(k, o),
           born' = born, excused \subseteq excused',
           isvc[k].uid # 0, o.uid = isvc[k].uid, o.fin = isvc[k].fin,
           isvc[k].marked => o.marked, o.id \in {isvc[k].id, 0},
           o.marked /\ <<k, o.uid>> \notin excused' => o.id = o.uid
    PROVE  IInv'
  <1>1. Versions' /\ WorkerCopy' /\ Branch'
    BY EditVersions
  <1>2. isvc' = [isvc EXCEPT ![k] = o] /\ isvc \in [Key -> Object]
    BY DEF Write, IInv, TypeOK, ClusterType
  <1>3. UNCHANGED <<mrIs, pc, cur, copy>>
    BY DEF Write, registry
  <1>4. Rows'
    <2>1. ASSUME NEW j \in Key, isvc'[j].marked, ~isvc'[j].fin,
                 <<j, isvc'[j].uid>> \notin excused'
          PROVE  mrIs'[<<j, isvc'[j].uid>>].state # "DEPLOYED"
      <3>1. CASE j # k BY <1>2, <1>3, <2>1, <3>1 DEF IInv, Rows
      <3>2. CASE j = k /\ isvc[k].marked BY <1>2, <1>3, <2>1, <3>2 DEF IInv, Rows
      <3>3. CASE j = k /\ ~isvc[k].marked
        <4>1. isvc[k].id = isvc[k].uid \/ (o.id = 0 /\ o.id = o.uid)
          BY <1>2, <2>1, <3>3
        <4> QED BY <1>2, <2>1, <3>3, <4>1 DEF IInv, Versions, Version
      <3> QED BY <3>1, <3>2, <3>3
    <2> QED BY <1>3, <2>1 DEF IInv, Rows
  <1>5. UndeployedWhenGone'
    <2>1. ASSUME NEW j \in Key, NEW u \in Uid, Life'[<<j, u>>] = "gone"
          PROVE  Life[<<j, u>>] = "gone"
      BY <1>2, <2>1, LifeOf
    <2> QED BY <1>3, <2>1, KeepUndeployed
  <1> QED BY <1>1, <1>4, <1>5 DEF IInv

(* A name is taken again: every version seen so far is of an older UID.    *)
LEMMA ApplyStep ==
    ASSUME IInv, TypeOK', NEW k \in Key, Apply(k)
    PROVE  IInv'
  <1> USE DEF IInv
  <1>1. PICK id \in {0} \cup {u \in Uid : mrIs[<<k, u>>] # NoRow} :
           Write(k, [NoObject EXCEPT !.uid = born[k] + 1, !.model = TRUE, !.id = id])
    BY DEF Apply
  <1>0. PICK o : o = [NoObject EXCEPT !.uid = born[k] + 1, !.model = TRUE, !.id = id]
    OBVIOUS
  <1>2. /\ isvc' = [isvc EXCEPT ![k] = o] /\ isvc \in [Key -> Object]
        /\ synced' = [synced EXCEPT ![k] = FALSE] /\ synced \in [Key -> BOOLEAN]
        /\ born' = [born EXCEPT ![k] = @ + 1] /\ born \in [Key -> 0..MaxUid]
        /\ cache \in [Key -> Object]
        /\ UNCHANGED <<mrIs, pc, cur, copy, found, cache, excused>>
        /\ fresh' = (fresh /\ cur # k)
    BY <1>0, <1>1 DEF Write, Apply, registry, TypeOK, ClusterType
  <1>3. o.uid = born[k] + 1 /\ o.id = id /\ ~o.marked /\ ~o.fin
    BY <1>0 DEF NoObject
  <1>4. id <= born[k] /\ id \in 0..MaxUid
    BY <1>1, <1>2 DEF Rows, Uid
  <1>5. isvc[k].uid = 0
    BY DEF Apply, Exists
  <1>6. ASSUME NEW j \in Key, NEW c \in Object, Version(c, j) PROVE Version(c, j)'
    <2>1. c.uid \in 0..MaxUid /\ born[j] \in 0..MaxUid BY <1>2, Fields
    <2>2. CASE j # k BY <1>2, <1>6, <2>2 DEF Version
    <2>3. CASE j = k
      <3>1. c.uid # o.uid BY <1>3, <1>6, <2>1, <2>3 DEF Version
      <3> QED BY <1>2, <1>3, <1>5, <1>6, <2>1, <2>3, <3>1 DEF Version
    <2> QED BY <2>2, <2>3
  <1>7. Version(o, k)' BY <1>2, <1>3, <1>4 DEF Version
  <1>8. Versions'
    <2>1. \A j \in Key : j # k => isvc'[j] = isvc[j] /\ born'[j] = born[j] /\ synced'[j] = synced[j]
      BY <1>2
    <2>2. isvc'[k] = o /\ born'[k] = o.uid /\ ~synced'[k] /\ cache' = cache
      BY <1>2, <1>3
    <2>3. o \in Object /\ \A j \in Key : isvc[j] \in Object /\ cache[j] \in Object
      BY <1>2, TypeOK' DEF TypeOK, ClusterType
    <2>4. ASSUME NEW j \in Key PROVE Versions!(j)'
      <3>1. Version(isvc[j], j) /\ Version(cache[j], j) BY DEF Versions
      <3>2. CASE j = k BY <1>6, <1>7, <2>2, <2>3, <3>1, <3>2
      <3>3. CASE j # k
        <4>1. isvc'[j] = isvc[j] /\ cache'[j] = cache[j] /\ born'[j] = born[j] /\ synced'[j] = synced[j]
          BY <2>1, <2>2, <3>3
        <4>2. Version(isvc[j], j)' /\ Version(cache[j], j)'
          BY <1>6, <2>3, <3>1, <4>1
        <4>3. isvc[j].uid \in {0, born[j]} /\ (synced[j] => cache[j] = isvc[j])
          BY DEF Versions
        <4> QED BY <4>1, <4>2, <4>3
      <3> QED BY <3>2, <3>3
    <2> QED BY <2>4 DEF Versions
  <1>9. WorkerCopy' /\ Branch'
    <2>1. Branch' BY <1>2 DEF Branch
    <2>2. WorkerCopy'
      <3> SUFFICES ASSUME pc # "idle" PROVE WorkerCopy'
        BY <1>2 DEF WorkerCopy
      <3>1. cur \in Key /\ copy \in Object BY DEF TypeOK, WorkerType
      <3>2. Version(copy, cur)' BY <1>2, <1>6, <3>1 DEF WorkerCopy, Version
      <3> QED BY <1>2, <3>1, <3>2 DEF WorkerCopy
    <2> QED BY <2>1, <2>2
  <1>10. Rows'
    <2>1. ASSUME NEW j \in Key, NEW u \in Uid, mrIs[<<j, u>>] # NoRow
          PROVE  u <= born'[j]
      <3>1. u <= born[j] /\ born[j] \in 0..MaxUid /\ u \in Nat
        BY <1>2, <2>1 DEF Rows, Uid
      <3>2. born'[j] = born[j] \/ born'[j] = born[j] + 1 BY <1>2
      <3> QED BY <3>1, <3>2
    <2>2. \A j \in Key : isvc'[j].marked => isvc'[j] = isvc[j]
      BY <1>2, <1>3
    <2> QED BY <1>2, <2>1, <2>2 DEF Rows
  <1>11. UndeployedWhenGone'
    <2>1. ASSUME NEW j \in Key, NEW u \in Uid, Life'[<<j, u>>] = "gone"
          PROVE  Life[<<j, u>>] = "gone"
      <3>1. CASE j # k BY <1>2, <2>1, <3>1, LifeOf
      <3>2. CASE j = k
        <4>1. /\ ~(born'[k] < u) /\ isvc'[k].uid # u
              /\ Life[<<k, u>>] = IF born[k] < u THEN "absent"
                                  ELSE IF isvc[k].uid # u THEN "gone"
                                  ELSE IF isvc[k].marked THEN "deleting" ELSE "live"
          BY <2>1, <3>2, LifeOf
        <4>2. born'[k] = born[k] + 1 /\ isvc'[k].uid = born[k] + 1 /\ born[k] \in Nat
          BY <1>2, <1>3
        <4>3. u \in Nat \ {0} BY DEF Uid
        <4>4. ~(born[k] < u) BY <4>1, <4>2, <4>3
        <4> QED BY <1>5, <3>2, <4>1, <4>3, <4>4
      <3> QED BY <3>1, <3>2
    <2> QED BY <1>2, <2>1, KeepUndeployed
  <1> QED BY <1>8, <1>9, <1>10, <1>11

(* An object without our finalizer goes away; its record was written       *)
(* before the finalizer was removed.                                       *)
LEMMA ReapStep ==
    ASSUME IInv, TypeOK', NEW k \in Key, Reap(k)
    PROVE  IInv'
  <1> USE DEF IInv
  <1>1. /\ isvc' = [isvc EXCEPT ![k] = NoObject] /\ isvc \in [Key -> Object]
        /\ synced' = [synced EXCEPT ![k] = FALSE] /\ synced \in [Key -> BOOLEAN]
        /\ cache \in [Key -> Object] /\ born \in [Key -> 0..MaxUid]
        /\ UNCHANGED <<mrIs, pc, cur, copy, found, cache, excused, born>>
        /\ fresh' = (fresh /\ cur # k)
    BY DEF Reap, Write, registry, TypeOK, ClusterType
  <1>2. NoObject.uid = 0 /\ NoObject.id = 0 /\ ~NoObject.marked /\ ~NoObject.fin
    BY DEF NoObject
  <1>3. isvc[k].marked /\ ~isvc[k].fin /\ isvc[k].uid \in Uid
    <2>1. isvc[k].uid \in 0..MaxUid BY <1>1, Fields
    <2>2. isvc[k].marked /\ ~isvc[k].fin BY DEF Reap
    <2>3. isvc[k].uid # 0 BY <2>2 DEF Versions, Version
    <2> QED BY <2>1, <2>2, <2>3 DEF Uid
  <1>4. ASSUME NEW j \in Key, NEW c \in Object, Version(c, j) PROVE Version(c, j)'
    <2>1. CASE j # k BY <1>1, <1>4, <2>1 DEF Version
    <2>2. CASE j = k
      <3>1. ~(c.fin /\ ~c.marked) BY <1>3, <1>4, <2>2 DEF Version
      <3>2. c.uid = 0 => ~c.marked BY <1>4 DEF Version
      <3> QED BY <1>1, <1>2, <1>4, <2>2, <3>1, <3>2 DEF Version
    <2> QED BY <2>1, <2>2
  <1>5. Version(NoObject, k)'
    BY <1>1, <1>2 DEF Version
  <1>6. Versions'
    <2>1. \A j \in Key : j # k => isvc'[j] = isvc[j] /\ synced'[j] = synced[j]
      BY <1>1
    <2>2. isvc'[k] = NoObject /\ ~synced'[k] /\ cache' = cache /\ born' = born
      BY <1>1
    <2>3. \A j \in Key : isvc[j] \in Object /\ cache[j] \in Object
      BY <1>1
    <2>4. ASSUME NEW j \in Key PROVE Versions!(j)'
      <3>1. Version(isvc[j], j) /\ Version(cache[j], j) BY DEF Versions
      <3>2. CASE j = k BY <1>2, <1>4, <1>5, <2>2, <2>3, <3>1, <3>2
      <3>3. CASE j # k
        <4>1. isvc'[j] = isvc[j] /\ cache'[j] = cache[j] /\ born'[j] = born[j] /\ synced'[j] = synced[j]
          BY <2>1, <2>2, <3>3
        <4>2. Version(isvc[j], j)' /\ Version(cache[j], j)'
          BY <1>4, <2>3, <3>1, <4>1
        <4>3. isvc[j].uid \in {0, born[j]} /\ (synced[j] => cache[j] = isvc[j])
          BY DEF Versions
        <4> QED BY <4>1, <4>2, <4>3
      <3> QED BY <3>2, <3>3
    <2> QED BY <2>4 DEF Versions
  <1>7. WorkerCopy' /\ Branch'
    <2>1. Branch' BY <1>1 DEF Branch
    <2>2. WorkerCopy'
      <3> SUFFICES ASSUME pc # "idle" PROVE WorkerCopy'
        BY <1>1 DEF WorkerCopy
      <3>1. cur \in Key /\ copy \in Object BY DEF TypeOK, WorkerType
      <3>2. Version(copy, cur)' BY <1>1, <1>4, <3>1 DEF WorkerCopy, Version
      <3> QED BY <1>1, <3>1, <3>2 DEF WorkerCopy
    <2> QED BY <2>1, <2>2
  <1>8. Rows' BY <1>1, <1>2 DEF Rows
  <1>9. ASSUME NEW j \in Key, NEW u \in Uid, Life'[<<j, u>>] = "gone",
               <<j, u>> \notin excused
        PROVE  mrIs[<<j, u>>].state # "DEPLOYED"
    <2>1. CASE Life[<<j, u>>] = "gone" BY <1>9, <2>1 DEF UndeployedWhenGone
    <2>2. CASE Life[<<j, u>>] # "gone"
      <3>1. j = k /\ isvc[k].uid = u BY <1>1, <1>9, <2>2, LifeOf
      <3> QED BY <1>3, <1>9, <3>1 DEF Rows
    <2> QED BY <2>1, <2>2
  <1>10. UndeployedWhenGone' BY <1>1, <1>9 DEF UndeployedWhenGone
  <1> QED BY <1>6, <1>7, <1>8, <1>10

(* The life of a service depends on the cluster only. *)
LEMMA QuietLife ==
    ASSUME IInv, UNCHANGED cluster, excused \subseteq excused',
           \A s \in Key \X Uid :
              mrIs'[s].state = "DEPLOYED" => mrIs[s].state = "DEPLOYED" \/ Life[s] # "gone"
    PROVE  UndeployedWhenGone'
  <1>1. Life' = Life BY DEF Life, cluster
  <1> QED BY <1>1, KeepUndeployed

(* A watch event: the cache skips to the current version. *)
LEMMA DeliverStep ==
    ASSUME IInv, TypeOK', NEW k \in Key, Deliver(k)
    PROVE  IInv'
  <1> USE DEF IInv
  <1>1. /\ cache' = [cache EXCEPT ![k] = isvc[k]] /\ cache \in [Key -> Object]
        /\ synced' = [synced EXCEPT ![k] = TRUE] /\ synced \in [Key -> BOOLEAN]
        /\ UNCHANGED <<isvc, born, pc, cur, copy, fresh, found, mrIs, excused>>
    BY DEF Deliver, TypeOK, ClusterType, cluster, worker, registry
  <1>2. ASSUME NEW c, NEW j \in Key, Version(c, j) PROVE Version(c, j)'
    BY <1>1, <1>2 DEF Version
  <1>3. Versions'
    <2>1. ASSUME NEW j \in Key PROVE Versions!(j)'
      <3>1. Version(isvc[j], j) /\ Version(cache[j], j) BY DEF Versions
      <3>2. Version(isvc[j], j)' BY <1>1, <1>2, <3>1
      <3>3. cache'[j] = IF j = k THEN isvc[j] ELSE cache[j] BY <1>1
      <3>4. Version(cache[j], j)' BY <1>1, <1>2, <3>1, <3>3
      <3> QED BY <1>1, <3>2, <3>3, <3>4 DEF Versions
    <2> QED BY <2>1 DEF Versions
  <1>4. WorkerCopy'
    <2> SUFFICES ASSUME pc # "idle" PROVE WorkerCopy'
      BY <1>1 DEF WorkerCopy
    <2>1. cur \in Key /\ copy \in Object /\ isvc[k] \in Object /\ born[k] \in 0..MaxUid
      BY DEF TypeOK, WorkerType, ClusterType
    <2>2. Version(copy, cur) /\ Version(copy, cur)' BY <1>1, <1>2, <2>1 DEF WorkerCopy
    <2>3. cur = k /\ copy.marked => \/ isvc[k].uid = 0
                                    \/ isvc[k].uid > copy.uid
                                    \/ isvc[k].uid = copy.uid /\ isvc[k].marked
      <3>1. isvc[k].uid \in {0, born[k]} BY DEF Versions
      <3>2. isvc[k].uid \in Nat /\ copy.uid \in Nat BY <2>1, Fields
      <3> QED BY <2>1, <2>2, <3>1, <3>2 DEF Version
    <2> QED BY <1>1, <2>1, <2>2, <2>3 DEF WorkerCopy
  <1>5. Branch' /\ Rows' BY <1>1 DEF Branch, Rows
  <1>6. UndeployedWhenGone' BY <1>1, QuietLife DEF cluster
  <1> QED BY <1>3, <1>4, <1>5, <1>6

(* Reconcile() starts from the cached version. *)
LEMMA GetStep ==
    ASSUME IInv, TypeOK', NEW k \in Key, Get(k)
    PROVE  IInv'
  <1> USE DEF IInv
  <1>1. UNCHANGED <<cluster, informer, mrIs, excused>> /\ pc = "idle"
    BY DEF Get, registry
  <1>2. Versions' /\ \A j \in Key, c \in Object : Version(c, j) => Version(c, j)'
    BY <1>1, QuietVersions
  <1>3. UndeployedWhenGone' BY <1>1, QuietLife
  <1>4. CASE UNCHANGED worker
    BY <1>1, <1>2, <1>3, <1>4 DEF WorkerCopy, Branch, Rows, worker, cluster
  <1>5. CASE ~UNCHANGED worker
    <2>1. /\ Exists(cache[k]) /\ ~(cache[k].marked /\ ~cache[k].fin)
          /\ pc' = IF cache[k].marked THEN "lookup" ELSE "init"
          /\ cur' = k /\ copy' = cache[k] /\ fresh' = synced[k]
      BY <1>5 DEF Get
    <2>2. cache[k] \in Object BY DEF TypeOK, ClusterType
    <2>3. Version(copy, cur)'
      BY <1>1, <1>2, <2>1, <2>2 DEF Versions, Version, cluster
    <2>4. WorkerCopy'
      BY <1>1, <2>1, <2>3 DEF WorkerCopy, Versions, Exists, informer, cluster
    <2>5. Branch' BY <2>1, <2>2, Fields DEF Branch
    <2>6. Rows' BY <1>1, <2>1 DEF Rows, cluster
    <2> QED BY <1>2, <1>3, <2>4, <2>5, <2>6
  <1> QED BY <1>4, <1>5

(* The calls of the deletion branch before the finalizer is removed. *)
LEMMA LookupStep ==
    ASSUME IInv, TypeOK', Lookup
    PROVE  IInv'
  <1> USE DEF IInv
  <1>1. /\ UNCHANGED <<cluster, informer, mrIs, cur, copy, fresh, found>>
        /\ excused \subseteq excused' /\ pc = "lookup"
        /\ pc' \in {"onDeletion", "removeFinalizer"}
    BY DEF Lookup, GoTo, registry
  <1>2. cur \in Key /\ copy \in Object /\ copy.id \in 0..MaxUid /\ copy.uid \in 0..MaxUid
    BY <1>1, Fields DEF TypeOK, WorkerType
  <1>3. Versions' /\ WorkerCopy' BY <1>1, QuietCopy
  <1>4. pc' = "onDeletion" => copy.id # 0 BY DEF Lookup, GoTo
  <1>5. Branch' BY <1>1, <1>4 DEF Branch
  <1>6. ASSUME pc' = "removeFinalizer", <<cur, copy.uid>> \notin excused'
        PROVE  mrIs[<<cur, copy.uid>>].state # "DEPLOYED"
    <2>1. ServiceFound /\ up /\ excused' = excused
      BY <1>6 DEF Lookup
    <2>2. copy.marked /\ copy.uid # 0 /\ copy.id = copy.uid
      BY <1>1, <1>6, <2>1 DEF Branch, WorkerCopy, Version
    <2>3. mrIs[<<cur, copy.uid>>] = NoRow
      BY <1>6, <2>1, <2>2 DEF Lookup, GoTo
    <2> QED BY <2>3 DEF NoRow
  <1>7. Rows' BY <1>1, <1>6 DEF Rows, cluster
  <1>8. UndeployedWhenGone' BY <1>1, QuietLife
  <1> QED BY <1>3, <1>5, <1>7, <1>8

(* UNDEPLOYED is written before the finalizer is removed. *)
LEMMA OnDeletionStep ==
    ASSUME IInv, TypeOK', OnDeletion
    PROVE  IInv'
  <1> USE DEF IInv
  <1>1. /\ UNCHANGED <<cluster, informer, cur, copy, fresh, found>>
        /\ excused \subseteq excused' /\ pc = "onDeletion"
        /\ pc' = "removeFinalizer"
    BY DEF OnDeletion, GoTo
  <1>2. cur \in Key /\ copy \in Object /\ copy.id \in Uid
    BY <1>1, Fields DEF TypeOK, WorkerType, Branch, Uid
  <1>3. Versions' /\ WorkerCopy' BY <1>1, QuietCopy
  <1>4. Branch' BY <1>1 DEF Branch
  <1>5. mrIs \in [Key \X Uid -> Row] BY DEF TypeOK, RegistryType
  <1>6. \A s \in Key \X Uid :
           /\ mrIs'[s] = mrIs[s] \/ (mrIs[s].state = "DEPLOYED" /\ mrIs'[s].state = "UNDEPLOYED")
           /\ up /\ s = <<cur, copy.id>> => mrIs'[s].state # "DEPLOYED"
    BY <1>2, <1>5 DEF OnDeletion, Row
  <1>7. ASSUME <<cur, copy.uid>> \notin excused'
        PROVE  mrIs'[<<cur, copy.uid>>].state # "DEPLOYED"
    <2>1. up /\ excused' = excused BY <1>7 DEF OnDeletion
    <2>2. copy.id = copy.uid BY <1>1, <1>7, <2>1 DEF Branch, WorkerCopy, Version
    <2> QED BY <1>2, <1>6, <2>1, <2>2
  <1>8. Rows'
    <2>1. ASSUME NEW k \in Key, NEW u \in Uid, mrIs'[<<k, u>>] # NoRow
          PROVE  mrIs'[<<k, u>>].state # "none" /\ u <= born'[k]
      <3>1. <<k, u>> \in Key \X Uid /\ mrIs[<<k, u>>] # NoRow
        BY <1>6, <2>1 DEF NoRow
      <3> QED BY <1>1, <1>6, <3>1 DEF Rows, cluster
    <2>2. ASSUME NEW k \in Key, isvc[k].marked, ~isvc[k].fin,
                 <<k, isvc[k].uid>> \notin excused'
          PROVE  mrIs'[<<k, isvc[k].uid>>].state # "DEPLOYED"
      <3>1. isvc[k].uid \in Uid
        <4>1. isvc[k].uid \in 0..MaxUid BY Fields DEF TypeOK, ClusterType
        <4>2. isvc[k].uid # 0 BY <2>2 DEF Versions, Version
        <4> QED BY <4>1, <4>2 DEF Uid
      <3>2. mrIs[<<k, isvc[k].uid>>].state # "DEPLOYED" BY <1>1, <2>2 DEF Rows
      <3> QED BY <1>6, <3>1, <3>2
    <2> QED BY <1>1, <1>7, <2>1, <2>2 DEF Rows, cluster
  <1>9. UndeployedWhenGone' BY <1>1, <1>6, QuietLife
  <1> QED BY <1>3, <1>4, <1>8, <1>9

(* The finalizer is removed: every version the cache still has of this     *)
(* service shows the deletion.                                             *)
LEMMA RemoveFinalizerStep ==
    ASSUME IInv, TypeOK', RemoveFinalizer
    PROVE  IInv'
  <1> USE DEF IInv
  <1>1. Idle /\ UNCHANGED <<born, cache, mrIs, excused>> /\ pc = "removeFinalizer"
    BY DEF RemoveFinalizer, Return, ReturnError, Update, UpdateFails, registry,
           cluster, informer
  <1>2. WorkerCopy' /\ Branch'
    BY <1>1 DEF Idle, WorkerCopy, Branch, NoObject
  <1>3. CASE UpdateFails
    <2>1. Versions' BY <1>1, <1>3, QuietVersions DEF UpdateFails
    <2>2. Rows' BY <1>1, <1>3 DEF Rows, UpdateFails, Idle, cluster
    <2>3. UndeployedWhenGone' BY <1>1, <1>3, QuietLife DEF UpdateFails
    <2> QED BY <1>2, <2>1, <2>2, <2>3
  <1>4. CASE Update([copy EXCEPT !.fin = FALSE])
    <2>0. PICK o : o = [copy EXCEPT !.fin = FALSE]
      OBVIOUS
    <2>1. /\ cur \in Key /\ copy \in Object /\ isvc[cur] = copy /\ copy.marked
          /\ isvc \in [Key -> Object] /\ isvc' = [isvc EXCEPT ![cur] = o]
          /\ synced \in [Key -> BOOLEAN] /\ synced' = [synced EXCEPT ![cur] = FALSE]
      BY <1>1, <1>4, <2>0 DEF Update, WorkerCopy, Branch, TypeOK, WorkerType, ClusterType
    <2>2. o.uid = copy.uid /\ o.marked = copy.marked /\ o.id = copy.id /\ ~o.fin
      BY <2>0, <2>1 DEF Object
    <2>3. ASSUME NEW j \in Key PROVE Versions!(j)'
      <3>1. CASE j # cur
        <4>1. isvc'[j] = isvc[j] /\ synced'[j] = synced[j] BY <2>1, <3>1
        <4>2. Versions!(j) BY DEF Versions
        <4> QED BY <1>1, <4>1, <4>2 DEF Version
      <3>2. CASE j = cur
        <4>1. isvc'[j] = o /\ ~synced'[j] BY <2>1, <3>2
        <4>2. Version(copy, j) /\ Version(cache[j], j) /\ isvc[j].uid \in {0, born[j]}
          BY <2>1, <3>2 DEF Versions
        <4>3. Version(isvc[j], j)' BY <1>1, <2>1, <2>2, <4>1, <4>2 DEF Version
        <4>4. ~(cache[j].uid = copy.uid /\ ~cache[j].marked)
          <5>1. copy.uid # 0 /\ copy.uid \in Nat /\ cache[j].uid \in Nat
            BY <1>1, <2>1, Fields DEF WorkerCopy, TypeOK, ClusterType
          <5> QED BY <1>1, <2>1, <3>2, <5>1 DEF WorkerCopy
        <4>5. Version(cache[j], j)'
          BY <1>1, <2>1, <2>2, <3>2, <4>1, <4>2, <4>4 DEF Version
        <4> QED BY <1>1, <2>1, <2>2, <3>2, <4>1, <4>2, <4>3, <4>5
      <3> QED BY <3>1, <3>2
    <2>4. Versions' BY <2>3 DEF Versions
    <2>5. Rows'
      <3>1. ASSUME NEW j \in Key, isvc'[j].marked, ~isvc'[j].fin,
                   <<j, isvc'[j].uid>> \notin excused
            PROVE  mrIs[<<j, isvc'[j].uid>>].state # "DEPLOYED"
        <4>1. CASE j # cur BY <2>1, <3>1, <4>1 DEF Rows
        <4>2. CASE j = cur BY <1>1, <2>1, <2>2, <3>1, <4>2 DEF Rows
        <4> QED BY <4>1, <4>2
      <3> QED BY <1>1, <3>1 DEF Rows, Idle
    <2>6. UndeployedWhenGone'
      <3>1. ASSUME NEW j \in Key, NEW u \in Uid PROVE Life'[<<j, u>>] = Life[<<j, u>>]
        <4>1. /\ isvc'[j].uid = isvc[j].uid
              /\ isvc'[j].marked = isvc[j].marked
              /\ born' = born
          BY <1>1, <2>1, <2>2
        <4> QED BY <4>1, LifeOf
      <3> QED BY <1>1, <3>1, KeepUndeployed
    <2> QED BY <1>2, <2>4, <2>5, <2>6
  <1> QED BY <1>3, <1>4 DEF RemoveFinalizer

(* The worker stores the finalizer or the id label. *)
LEMMA OwnUpdate ==
    ASSUME IInv, TypeOK', pc # "idle", NEW k \in Key, cur = k, NEW o \in Object, Update(o), 
           UNCHANGED excused, ~copy.marked, o.uid = copy.uid, ~o.marked, o.fin, o.id \in {copy.id, copy.uid}
    PROVE  /\ Versions'
           /\ Version(o, k)'
           /\ isvc'[k] = o
           /\ UNCHANGED mrIs => UndeployedWhenGone'
           /\ \A j \in Key : isvc'[j].marked => isvc'[j] = isvc[j]
  <1> USE DEF IInv
  <1>1. /\ cur \in Key /\ copy \in Object /\ isvc[cur] = copy /\ copy.uid # 0
        /\ isvc \in [Key -> Object] /\ isvc' = [isvc EXCEPT ![cur] = o]
        /\ synced \in [Key -> BOOLEAN] /\ synced' = [synced EXCEPT ![cur] = FALSE]
        /\ cache \in [Key -> Object] /\ UNCHANGED <<born, cache>>
    BY DEF Update, WorkerCopy, TypeOK, WorkerType, ClusterType
  <1>2. Version(copy, cur) BY DEF WorkerCopy
  <1>3. Version(o, k)'
    <2>1. o.id <= o.uid BY <1>1, <1>2, Fields DEF Version
    <2> QED BY <1>1, <1>2, <2>1 DEF Version
  <1>4. ASSUME NEW j \in Key PROVE Versions!(j)'
    <2>1. CASE j # cur
      <3>1. isvc'[j] = isvc[j] /\ synced'[j] = synced[j] BY <1>1, <2>1
      <3>2. Versions!(j) BY DEF Versions
      <3> QED BY <1>1, <3>1, <3>2 DEF Version
    <2>2. CASE j = cur
      <3>1. isvc'[j] = o /\ ~synced'[j] BY <1>1, <2>2
      <3>2. Version(cache[j], j) /\ isvc[j].uid \in {0, born[j]} BY DEF Versions
      <3>3. Version(cache[j], j)'
        BY <1>1, <2>2, <3>1, <3>2 DEF Version
      <3> QED BY <1>1, <1>3, <2>2, <3>1, <3>2, <3>3
    <2> QED BY <2>1, <2>2
  <1>5. Versions' BY <1>4 DEF Versions
  <1>6. ASSUME UNCHANGED mrIs PROVE UndeployedWhenGone'
    <2>1. ASSUME NEW j \in Key, NEW u \in Uid, Life'[<<j, u>>] = "gone"
          PROVE  Life[<<j, u>>] = "gone"
      BY <1>1, <2>1, LifeOf
    <2> QED BY <1>6, <2>1, KeepUndeployed
  <1> QED BY <1>1, <1>3, <1>5, <1>6

(* The finalizer is stored before the first write to the registry. *)
LEMMA AddFinalizerStep ==
    ASSUME IInv, TypeOK', AddFinalizer
    PROVE  IInv'
  <1> USE DEF IInv
  <1>1. UNCHANGED <<mrIs, excused>> /\ pc = "addFinalizer" /\ ~copy.marked
    BY DEF AddFinalizer, registry, Branch
  <1>2. CASE copy.fin /\ GoTo("servingEnvironment") /\ UNCHANGED <<cluster, informer>>
    <2>1. Versions' /\ WorkerCopy' BY <1>1, <1>2, QuietCopy DEF GoTo
    <2>2. Branch' /\ Rows' BY <1>1, <1>2 DEF Branch, Rows, GoTo, cluster
    <2> QED BY <1>1, <1>2, <2>1, <2>2, QuietLife
  <1>3. CASE UpdateFails /\ ReturnError
    <2>1. Versions' /\ WorkerCopy'
      BY <1>1, <1>3, QuietCopy DEF UpdateFails, ReturnError
    <2>2. Branch' BY <1>3 DEF Branch, ReturnError, Idle, NoObject
    <2>3. Rows' BY <1>1, <1>3 DEF Rows, UpdateFails, ReturnError, Idle, cluster
    <2> QED BY <1>1, <1>3, <2>1, <2>2, <2>3, QuietLife DEF UpdateFails
  <1>4. CASE /\ Update([copy EXCEPT !.fin = TRUE])
             /\ copy' = [copy EXCEPT !.fin = TRUE]
             /\ pc' = "servingEnvironment"
             /\ UNCHANGED <<cur, fresh, found, queue>>
    <2>0. PICK o : o = [copy EXCEPT !.fin = TRUE]
      OBVIOUS
    <2>1. copy \in Object /\ copy' \in Object BY DEF TypeOK, WorkerType
    <2>2. o \in Object /\ o.uid = copy.uid /\ o.marked = copy.marked /\ o.fin /\ o.id = copy.id
      BY <1>4, <2>0, <2>1 DEF Object
    <2>a. PICK j \in Key : cur = j BY <1>1 DEF TypeOK, WorkerType
    <2>3. /\ Versions' /\ Version(o, j)' /\ isvc'[j] = o /\ UndeployedWhenGone'
          /\ \A k \in Key : isvc'[k].marked => isvc'[k] = isvc[k]
      BY <1>1, <1>4, <2>a, <2>0, <2>2, OwnUpdate
    <2>4. born' = born BY <1>4 DEF Update
    <2>5. copy' = o /\ cur' = j BY <1>4, <2>0, <2>a
    <2>6. Version(copy, cur)' BY <2>3, <2>5 DEF Version
    <2>7. WorkerCopy'
      BY <1>1, <2>2, <2>3, <2>5, <2>6 DEF WorkerCopy
    <2>8. Branch' BY <1>1, <1>4, <2>2, <2>5 DEF Branch
    <2>9. Rows' BY <1>1, <1>4, <2>3, <2>4 DEF Rows
    <2> QED BY <2>3, <2>7, <2>8, <2>9
  <1> QED BY <1>2, <1>3, <1>4 DEF AddFinalizer

(* The id label is stored on an object that has the finalizer. *)
LEMMA SetLabelStep ==
    ASSUME IInv, TypeOK', SetLabel
    PROVE  IInv'
  <1> USE DEF IInv
  <1>1. /\ UNCHANGED <<mrIs, excused>> /\ pc = "setLabel" /\ ~copy.marked
        /\ copy.fin /\ found = copy.uid /\ Idle
    BY DEF SetLabel, Return, ReturnError, registry, Branch
  <1>2. WorkerCopy' /\ Branch' BY <1>1 DEF Idle, WorkerCopy, Branch, NoObject
  <1>3. CASE UpdateFails
    <2>1. Versions' BY <1>1, <1>3, QuietVersions DEF UpdateFails
    <2>2. Rows' BY <1>1, <1>3 DEF Rows, UpdateFails, Idle, cluster
    <2>3. UndeployedWhenGone' BY <1>1, <1>3, QuietLife DEF UpdateFails
    <2> QED BY <1>2, <2>1, <2>2, <2>3
  <1>4. CASE Update([copy EXCEPT !.id = found])
    <2>0. PICK o : o = [copy EXCEPT !.id = found]
      OBVIOUS
    <2>1. copy \in Object /\ found \in 0..MaxUid BY DEF TypeOK, WorkerType
    <2>2. o \in Object /\ o.uid = copy.uid /\ o.marked = copy.marked /\ o.fin = copy.fin /\ o.id = found
      BY <2>0, <2>1 DEF Object
    <2>a. PICK j \in Key : cur = j BY <1>1 DEF TypeOK, WorkerType
    <2>3. /\ Versions' /\ UndeployedWhenGone'
          /\ \A k \in Key : isvc'[k].marked => isvc'[k] = isvc[k]
      BY <1>1, <1>4, <2>0, <2>a, <2>2, OwnUpdate
    <2>4. born' = born BY <1>4 DEF Update
    <2>5. Rows' BY <1>1, <2>3, <2>4 DEF Rows, Idle
    <2> QED BY <1>2, <2>3, <2>5
  <1> QED BY <1>3, <1>4 DEF SetLabel

(* Reconcile() reads, fails or goes on without writing anything. *)
LEMMA QuietStep ==
    ASSUME IInv, TypeOK', UNCHANGED <<cluster, informer, mrIs, excused>>, pc # "idle",
           Idle \/ UNCHANGED <<cur, copy, fresh>>,
           Branch', pc' # "removeFinalizer",
           pc' = "updateIS" => mrIs[<<cur, copy.id>>] # NoRow /\ UNCHANGED <<cur, copy>>
    PROVE  IInv'
  <1>1. Versions' /\ WorkerCopy' BY QuietCopy
  <1>2. Rows' BY DEF IInv, Rows, cluster
  <1>3. UndeployedWhenGone' BY QuietLife
  <1> QED BY <1>1, <1>2, <1>3 DEF IInv

(* The calls of Reconcile() that only read the registry, or create the     *)
(* serving environment.                                                    *)
LEMMA ReadStep ==
    ASSUME IInv, TypeOK',
           \/ InitModelRegistryService \/ GetOrCreateServingEnvironment
           \/ FindInferenceService \/ GetInferenceService
    PROVE  IInv'
  <1> USE DEF IInv
  <1>1. CASE InitModelRegistryService
    <2>1. CASE GoTo("addFinalizer")
      <3>1. Branch' BY <1>1, <2>1 DEF InitModelRegistryService, GoTo, Branch
      <3> QED BY <1>1, <2>1, <3>1, QuietStep DEF InitModelRegistryService, GoTo, registry
    <2>2. CASE ReturnError
      <3>1. Branch' BY <2>2 DEF ReturnError, Idle, Branch, NoObject
      <3>2. Idle /\ pc' = "idle" BY <2>2 DEF ReturnError, Idle
      <3> QED BY <1>1, <3>1, <3>2, QuietStep DEF InitModelRegistryService, registry
    <2> QED BY <1>1, <2>1, <2>2 DEF InitModelRegistryService
  <1>2. CASE GetOrCreateServingEnvironment
    <2>1. CASE ReturnError
      <3>1. Branch' BY <2>1 DEF ReturnError, Idle, Branch, NoObject
      <3>2. Idle /\ pc' = "idle" BY <2>1 DEF ReturnError, Idle
      <3> QED BY <1>2, <3>1, <3>2, QuietStep DEF GetOrCreateServingEnvironment
    <2>2. CASE GoTo(IF copy.id # 0 THEN "getIS" ELSE "findIS")
      <3>1. Branch' BY <1>2, <2>2 DEF GetOrCreateServingEnvironment, GoTo, Branch
      <3> QED BY <1>2, <2>2, <3>1, QuietStep DEF GetOrCreateServingEnvironment, GoTo
    <2> QED BY <1>2, <2>1, <2>2 DEF GetOrCreateServingEnvironment
  <1>3. CASE FindInferenceService
    <2>1. Branch' BY <1>3 DEF FindInferenceService, Branch
    <2> QED BY <1>3, <2>1, QuietStep DEF FindInferenceService, registry
  <1>4. CASE GetInferenceService
    <2>1. CASE Idle
      <3>1. Branch' BY <2>1 DEF Idle, Branch, NoObject
      <3>2. pc' = "idle" BY <2>1 DEF Idle
      <3> QED BY <1>4, <2>1, <3>1, <3>2, QuietStep DEF GetInferenceService, registry
    <2>2. CASE GoTo("updateIS") /\ mrIs[<<cur, copy.id>>] # NoRow
      <3>1. Branch' BY <1>4, <2>2 DEF GetInferenceService, GoTo, Branch
      <3> QED BY <1>4, <2>2, <3>1, QuietStep DEF GetInferenceService, GoTo, registry
    <2> QED BY <1>4, <2>1, <2>2 DEF GetInferenceService, Return, ReturnError
  <1> QED BY <1>1, <1>2, <1>3, <1>4

(* The object whose record the worker writes outside a deletion still      *)
(* exists: it has the finalizer that was stored before.                    *)
LEMMA StillThere ==
    ASSUME IInv, pc \in {"createIS", "updateIS", "setLabel"}
    PROVE  /\ cur \in Key /\ copy.uid \in Uid
           /\ isvc[cur].uid = copy.uid
           /\ copy.uid <= born[cur]
           /\ Life[<<cur, copy.uid>>] \in {"live", "deleting"}
  <1> USE DEF IInv
  <1>1. cur \in Key /\ copy \in Object /\ born[cur] \in 0..MaxUid
    BY DEF TypeOK, WorkerType, ClusterType
  <1>2. copy.uid \in 0..MaxUid /\ copy.uid # 0
    BY <1>1, Fields DEF WorkerCopy
  <1>3. copy.uid \in Uid BY <1>2 DEF Uid
  <1>4. isvc[cur].uid = copy.uid /\ copy.uid <= born[cur]
    BY DEF WorkerCopy, Version, Branch
  <1>5. ~(born[cur] < copy.uid) BY <1>1, <1>2, <1>4
  <1> QED BY <1>1, <1>3, <1>4, <1>5, LifeOf

(* The record is created while its service exists. *)
LEMMA CreateStep ==
    ASSUME IInv, TypeOK', CreateInferenceService
    PROVE  IInv'
  <1> USE DEF IInv
  <1>1. UNCHANGED <<cluster, informer, excused>> /\ pc = "createIS"
    BY DEF CreateInferenceService
  <1>2. CASE ReturnError /\ UNCHANGED mrIs
    <2>1. Branch' BY <1>2 DEF ReturnError, Idle, Branch, NoObject
    <2>2. Idle /\ pc' = "idle" BY <1>2 DEF ReturnError, Idle
    <2> QED BY <1>1, <1>2, <2>1, <2>2, QuietStep
  <1>3. CASE /\ mrIs' = [mrIs EXCEPT ![<<cur, copy.uid>>] = [state |-> "DEPLOYED", url |-> copy.url]]
             /\ pc' = "setLabel" /\ found' = copy.uid /\ UNCHANGED <<cur, copy, fresh, queue>>
    <2>1. Versions' /\ WorkerCopy' BY <1>1, <1>3, QuietCopy
    <2>2. Branch' BY <1>1, <1>3 DEF Branch
    <2>3. /\ cur \in Key /\ copy.uid \in Uid /\ isvc[cur].uid = copy.uid
          /\ copy.uid <= born[cur] /\ Life[<<cur, copy.uid>>] \in {"live", "deleting"}
      BY <1>1, StillThere
    <2>4. mrIs \in [Key \X Uid -> Row] BY DEF TypeOK, RegistryType
    <2>5. \A s \in Key \X Uid : mrIs'[s] = IF s = <<cur, copy.uid>>
              THEN [state |-> "DEPLOYED", url |-> copy.url] ELSE mrIs[s]
      BY <1>3, <2>4
    <2>6. Rows'
      <3>1. ASSUME NEW k \in Key, NEW u \in Uid, mrIs'[<<k, u>>] # NoRow
            PROVE  mrIs'[<<k, u>>].state # "none" /\ u <= born'[k]
        <4>1. CASE <<k, u>> = <<cur, copy.uid>> BY <1>1, <2>3, <2>5, <4>1 DEF cluster
        <4>2. CASE <<k, u>> # <<cur, copy.uid>>
          <5>1. mrIs'[<<k, u>>] = mrIs[<<k, u>>] BY <2>5, <4>2
          <5> QED BY <1>1, <3>1, <5>1 DEF Rows, cluster
        <4> QED BY <4>1, <4>2
      <3>2. ASSUME NEW k \in Key, isvc[k].marked, ~isvc[k].fin,
                   <<k, isvc[k].uid>> \notin excused
            PROVE  mrIs'[<<k, isvc[k].uid>>].state # "DEPLOYED"
        <4>1. k # cur BY <1>1, <2>3, <3>2 DEF WorkerCopy, Version, Branch
        <4>2. isvc[k].uid \in Uid
          <5>1. isvc[k].uid \in 0..MaxUid BY Fields DEF TypeOK, ClusterType
          <5>2. isvc[k].uid # 0 BY <3>2 DEF Versions, Version
          <5> QED BY <5>1, <5>2 DEF Uid
        <4>3. mrIs'[<<k, isvc[k].uid>>] = mrIs[<<k, isvc[k].uid>>] BY <2>5, <4>1, <4>2
        <4> QED BY <3>2, <4>3 DEF Rows
      <3> QED BY <1>1, <1>3, <3>1, <3>2 DEF Rows, cluster
    <2>7. UndeployedWhenGone'
      <3>1. ASSUME NEW s \in Key \X Uid, mrIs'[s].state = "DEPLOYED"
            PROVE  mrIs[s].state = "DEPLOYED" \/ Life[s] # "gone"
        <4>1. CASE s = <<cur, copy.uid>> BY <2>3, <4>1
        <4>2. CASE s # <<cur, copy.uid>> BY <2>5, <3>1, <4>2
        <4> QED BY <4>1, <4>2
      <3> QED BY <1>1, <3>1, QuietLife
    <2> QED BY <2>1, <2>2, <2>6, <2>7
  <1> QED BY <1>2, <1>3 DEF CreateInferenceService

(* The URL of an existing record is updated; its state is kept. *)
LEMMA UpdateUrl ==
    ASSUME IInv, UpdateInferenceService
    PROVE  \A s \in Key \X Uid : /\ mrIs'[s].state = mrIs[s].state
                                 /\ mrIs[s] = NoRow => mrIs'[s] = NoRow
  <1> USE DEF IInv
  <1>1. CASE UNCHANGED mrIs BY <1>1
  <1>2. CASE mrIs' = [mrIs EXCEPT ![<<cur, copy.id>>].url = copy.url]
    <2>1. mrIs \in [Key \X Uid -> Row] BY DEF TypeOK, RegistryType
    <2>2. mrIs[<<cur, copy.id>>] # NoRow BY DEF UpdateInferenceService, Rows
    <2>3. ASSUME NEW s \in Key \X Uid
          PROVE  /\ mrIs'[s].state = mrIs[s].state
                 /\ mrIs[s] = NoRow => mrIs'[s] = NoRow
      <3>1. CASE s = <<cur, copy.id>>
        <4>1. mrIs'[s] = [mrIs[s] EXCEPT !.url = copy.url] /\ mrIs[s] \in Row
          BY <1>2, <2>1, <3>1
        <4> QED BY <2>2, <3>1, <4>1 DEF Row
      <3>2. CASE s # <<cur, copy.id>> BY <1>2, <2>1, <3>2
      <3> QED BY <3>1, <3>2
    <2> QED BY <2>3
  <1> QED BY <1>1, <1>2 DEF UpdateInferenceService

(* UpdateInferenceService keeps the invariant. *)
LEMMA UpdateStep ==
    ASSUME IInv, TypeOK', UpdateInferenceService
    PROVE  IInv'
  <1> USE DEF IInv
  <1>1. UNCHANGED <<cluster, informer, excused>> /\ Idle
    BY DEF UpdateInferenceService, Return, ReturnError
  <1>2. Versions' /\ WorkerCopy' BY <1>1, QuietCopy
  <1>3. Branch' BY <1>1 DEF Idle, Branch, NoObject
  <1>4. \A s \in Key \X Uid : /\ mrIs'[s].state = mrIs[s].state
                              /\ mrIs[s] = NoRow => mrIs'[s] = NoRow
    BY UpdateUrl
  <1>5. Rows'
    <2>1. ASSUME NEW k \in Key, NEW u \in Uid, mrIs'[<<k, u>>] # NoRow
          PROVE  mrIs'[<<k, u>>].state # "none" /\ u <= born[k]
      <3>1. <<k, u>> \in Key \X Uid OBVIOUS
      <3> QED BY <1>4, <2>1, <3>1 DEF Rows
    <2>2. ASSUME NEW k \in Key, isvc[k].marked, ~isvc[k].fin,
                 <<k, isvc[k].uid>> \notin excused
          PROVE  mrIs'[<<k, isvc[k].uid>>].state # "DEPLOYED"
      <3>1. isvc[k].uid \in 0..MaxUid BY Fields DEF TypeOK, ClusterType
      <3>2. isvc[k].uid # 0 BY <2>2 DEF Versions, Version
      <3>3. isvc[k].uid \in Uid BY <3>1, <3>2 DEF Uid
      <3>4. mrIs'[<<k, isvc[k].uid>>].state = mrIs[<<k, isvc[k].uid>>].state
        BY <1>4, <3>3
      <3> QED BY <2>2, <3>4 DEF Rows
    <2> QED BY <1>1, <2>1, <2>2 DEF Rows, Idle, cluster
  <1>6. UndeployedWhenGone' BY <1>1, <1>4, QuietLife
  <1> QED BY <1>2, <1>3, <1>5, <1>6

(* Deletions and edits of an ISVC by its users. *)
LEMMA UserStep ==
    ASSUME IInv, TypeOK', NEW k \in Key, Delete(k) \/ ChangeUrl(k) \/ RemoveLabels(k)
    PROVE  IInv'
  <1> USE DEF IInv
  <1>1. isvc[k] \in Object /\ isvc[k].uid # 0 /\ isvc[k].marked \in BOOLEAN
    BY Fields DEF TypeOK, ClusterType, Delete, ChangeUrl, RemoveLabels, Exists
  <1>2. isvc[k].marked /\ <<k, isvc[k].uid>> \notin excused => isvc[k].id = isvc[k].uid
    BY DEF Versions, Version
  <1>3. CASE Delete(k)
    <2>0. PICK o : o = [isvc[k] EXCEPT !.marked = TRUE] OBVIOUS
    <2>1. o \in Object /\ o.uid = isvc[k].uid /\ o.fin = isvc[k].fin /\ o.marked /\ o.id = isvc[k].id
      BY <1>1, <2>0 DEF Object
    <2>2. Write(k, o) BY <1>3, <2>0 DEF Delete
    <2>3. born' = born /\ excused \subseteq excused' BY <1>3 DEF Delete
    <2>4. <<k, o.uid>> \notin excused' => o.id = o.uid BY <1>3, <2>1 DEF Delete
    <2> QED BY <1>1, <2>1, <2>2, <2>3, <2>4, EditStep
  <1>4. CASE ChangeUrl(k)
    <2>1. PICK v \in Urls : Write(k, [isvc[k] EXCEPT !.url = v])
      BY <1>4 DEF ChangeUrl
    <2>0. PICK o : o = [isvc[k] EXCEPT !.url = v] OBVIOUS
    <2>2. /\ o \in Object /\ o.uid = isvc[k].uid /\ o.fin = isvc[k].fin
          /\ o.marked = isvc[k].marked /\ o.id = isvc[k].id
      BY <1>1, <2>0 DEF Object
    <2>3. Write(k, o) BY <2>0, <2>1
    <2>4. born' = born /\ excused' = excused BY <1>4 DEF ChangeUrl
    <2> QED BY <1>1, <1>2, <2>2, <2>3, <2>4, EditStep
  <1>5. CASE RemoveLabels(k)
    <2>1. PICK m \in {isvc[k].model, FALSE} :
             Write(k, [isvc[k] EXCEPT !.id = 0, !.model = m])
      BY <1>5 DEF RemoveLabels
    <2>0. PICK o : o = [isvc[k] EXCEPT !.id = 0, !.model = m] OBVIOUS
    <2>2. m \in BOOLEAN /\ 0 \in 0..MaxUid
      <3>1. isvc[k].model \in BOOLEAN BY <1>1, Fields
      <3>2. 0 \in 0..MaxUid OBVIOUS
      <3> QED BY <2>1, <3>1, <3>2
    <2>3. /\ o \in Object /\ o.uid = isvc[k].uid /\ o.fin = isvc[k].fin
          /\ o.marked = isvc[k].marked /\ o.id = 0
      BY <1>1, <2>0, <2>2 DEF Object
    <2>4. Write(k, o) BY <2>0, <2>1
    <2>5. /\ born' = born /\ excused \subseteq excused'
          /\ isvc[k].marked => <<k, isvc[k].uid>> \in excused'
      BY <1>5 DEF RemoveLabels
    <2> QED BY <1>1, <2>3, <2>4, <2>5, EditStep
  <1> QED BY <1>3, <1>4, <1>5

(* A restart fills the cache with the current versions. *)
LEMMA CrashStep ==
    ASSUME IInv, TypeOK', Crash
    PROVE  IInv'
  <1> USE DEF IInv
  <1>1. /\ cache' = isvc /\ synced' = [k \in Key |-> TRUE] /\ Idle
        /\ UNCHANGED <<isvc, born, mrIs, excused>>
    BY DEF Crash, cluster, registry
  <1>2. ASSUME NEW j \in Key PROVE Versions!(j)'
    <2>1. Versions!(j) BY DEF Versions
    <2>2. Version(isvc[j], j)' BY <1>1, <2>1 DEF Version
    <2>3. Version(cache[j], j)' BY <1>1, <2>2 DEF Version
    <2> QED BY <1>1, <2>1, <2>2, <2>3
  <1>3. Versions' BY <1>2 DEF Versions
  <1>4. WorkerCopy' /\ Branch' BY <1>1 DEF Idle, WorkerCopy, Branch, NoObject
  <1>5. Rows' BY <1>1 DEF Idle, Rows
  <1>6. UndeployedWhenGone' BY <1>1, QuietLife DEF cluster
  <1> QED BY <1>3, <1>4, <1>5, <1>6

(* Nothing the invariant speaks of changes. *)
LEMMA StutterStep ==
    ASSUME IInv, TypeOK', UNCHANGED <<cluster, informer, worker, registry, excused>>
    PROVE  IInv'
  <1>1. Versions' BY QuietVersions
  <1>2. UndeployedWhenGone' BY QuietLife DEF registry
  <1>3. WorkerCopy' BY DEF IInv, WorkerCopy, Version, worker, cluster, informer
  <1>4. Branch' BY DEF IInv, Branch, worker
  <1>5. Rows' BY DEF IInv, Rows, worker, cluster, registry
  <1> QED BY <1>1, <1>2, <1>3, <1>4, <1>5 DEF IInv

(* Every step keeps the inductive invariant. *)
LEMMA StepIInv == IInv /\ [Next]_vars => IInv'
  <1> SUFFICES ASSUME IInv, [Next]_vars
               PROVE  IInv'
    OBVIOUS
  <1>t. TypeOK' BY TypeStep DEF IInv
  <1>1. ASSUME NEW k \in Key, Apply(k) PROVE IInv' BY <1>1, <1>t, ApplyStep
  <1>2. ASSUME NEW k \in Key, Delete(k) \/ ChangeUrl(k) \/ RemoveLabels(k) PROVE IInv'
    BY <1>2, <1>t, UserStep
  <1>3. ASSUME NEW k \in Key, Reap(k) PROVE IInv' BY <1>3, <1>t, ReapStep
  <1>4. ASSUME NEW k \in Key, Deliver(k) PROVE IInv' BY <1>4, <1>t, DeliverStep
  <1>5. ASSUME NEW k \in Key, Get(k) PROVE IInv' BY <1>5, <1>t, GetStep
  <1>6. CASE Lookup BY <1>6, <1>t, LookupStep
  <1>7. CASE OnDeletion BY <1>7, <1>t, OnDeletionStep
  <1>8. CASE RemoveFinalizer BY <1>8, <1>t, RemoveFinalizerStep
  <1>9. CASE \/ InitModelRegistryService \/ GetOrCreateServingEnvironment
             \/ FindInferenceService \/ GetInferenceService
    BY <1>9, <1>t, ReadStep
  <1>10. CASE AddFinalizer BY <1>10, <1>t, AddFinalizerStep
  <1>11. CASE CreateInferenceService BY <1>11, <1>t, CreateStep
  <1>12. CASE UpdateInferenceService BY <1>12, <1>t, UpdateStep
  <1>13. CASE SetLabel BY <1>13, <1>t, SetLabelStep
  <1>14. CASE Outage BY <1>14, <1>t, StutterStep DEF Outage
  <1>15. CASE Crash BY <1>15, <1>t, CrashStep
  <1>16. CASE UNCHANGED vars BY <1>16, <1>t, StutterStep DEF vars
  <1> QED BY <1>1, <1>2, <1>3, <1>4, <1>5, <1>6, <1>7, <1>8, <1>9, <1>10,
             <1>11, <1>12, <1>13, <1>14, <1>15, <1>16 DEF Next, Work

(* The inductive invariant holds throughout. *)
LEMMA Always == Spec => []IInv
  BY InitIInv, StepIInv, PTL DEF Spec

(* Every variable keeps its type, in particular the worker has a key       *)
(* exactly while Reconcile() runs.                                         *)
THEOREM TypeCorrect == Spec => []TypeOK
  <1>1. IInv => TypeOK BY DEF IInv
  <1> QED BY <1>1, Always, PTL

(* A service that is gone has no DEPLOYED record, unless its deletion met  *)
(* an unreachable registry or no id label: for every number of services,   *)
(* incarnations, edits, conflicts and crashes.                             *)
THEOREM Undeployed == Spec => []UndeployedWhenGone
  <1>1. IInv => UndeployedWhenGone BY DEF IInv
  <1> QED BY <1>1, Always, PTL

(* The controller's initial state is the deployment record's. *)
LEMMA AbstractInit == Init => Abstract!Init
  <1> SUFFICES ASSUME Init PROVE Abstract!Init
    OBVIOUS
  <1>1. ASSUME NEW k \in Key, NEW u \in Uid PROVE Life[<<k, u>>] = "absent"
    <2>1. born[k] = 0 BY DEF Init
    <2>2. u \in Nat \ {0} BY DEF Uid
    <2> QED BY <2>1, <2>2, LifeOf
  <1>2. Life = [s \in Key \X Uid |-> "absent"] BY <1>1 DEF Life
  <1>3. Record = [s \in Key \X Uid |-> "none"] BY DEF Init, Record, NoRow
  <1> QED BY <1>2, <1>3 DEF Abstract!Init

(* One object changes, and no record: only its own service can move.       *)
LEMMA AbstractMove ==
    ASSUME TypeOK, TypeOK', NEW k \in Key, UNCHANGED mrIs,
           \A j \in Key : j # k => isvc'[j] = isvc[j] /\ born'[j] = born[j]
    PROVE  /\ Record' = Record
           /\ \A s \in Key \X Uid : s[1] # k => Life'[s] = Life[s]
           /\ \A s \in Key \X Uid :
                 (\A u \in Uid : <<k, u>> # s => Life'[<<k, u>>] = Life[<<k, u>>])
                    => Life' = [Life EXCEPT ![s] = Life'[s]]
  <1>1. Record' = Record BY DEF Record
  <1>2. ASSUME NEW s \in Key \X Uid, s[1] # k PROVE Life'[s] = Life[s]
    BY <1>2 DEF Life
  <1>3. ASSUME NEW s \in Key \X Uid,
               \A u \in Uid : <<k, u>> # s => Life'[<<k, u>>] = Life[<<k, u>>]
        PROVE  Life' = [Life EXCEPT ![s] = Life'[s]]
    <2>1. \A t \in Key \X Uid : t # s => Life'[t] = Life[t]
      <3>1. ASSUME NEW j \in Key, NEW u \in Uid, <<j, u>> # s
            PROVE  Life'[<<j, u>>] = Life[<<j, u>>]
        BY <1>2, <1>3, <3>1
      <3> QED BY <3>1
    <2>2. Life' = [t \in Key \X Uid |-> Life'[t]] BY DEF Life
    <2>3. Life = [t \in Key \X Uid |-> Life[t]] BY DEF Life
    <2> QED BY <2>1, <2>2, <2>3
  <1> QED BY <1>1, <1>2, <1>3

(* A service appears, is marked or disappears in the API server. *)
LEMMA AbstractLife ==
    ASSUME IInv, TypeOK', NEW k \in Key, Apply(k) \/ Delete(k) \/ Reap(k)
    PROVE  Abstract!Next
  <1> USE DEF IInv
  <1>1. /\ isvc \in [Key -> Object] /\ born \in [Key -> 0..MaxUid] /\ TypeOK
        /\ isvc[k] \in Object /\ isvc[k].uid \in 0..MaxUid /\ isvc[k].marked \in BOOLEAN
    BY Fields DEF TypeOK, ClusterType
  <1>2. PICK o \in Object : isvc' = [isvc EXCEPT ![k] = o] /\ UNCHANGED mrIs
    <2>1. isvc' \in [Key -> Object] BY DEF TypeOK, ClusterType
    <2>2. PICK o : isvc' = [isvc EXCEPT ![k] = o] /\ UNCHANGED mrIs
      BY DEF Apply, Delete, Reap, Write, registry
    <2>3. o \in Object
      <3>1. isvc'[k] = o BY <1>1, <2>2
      <3> QED BY <2>1, <3>1
    <2> QED BY <2>2, <2>3
  <1>3. isvc'[k] = o /\ \A j \in Key : j # k => isvc'[j] = isvc[j] /\ born'[j] = born[j]
    BY <1>1, <1>2 DEF Apply, Delete, Reap
  <1>4. /\ Record' = Record
        /\ \A s \in Key \X Uid :
              (\A u \in Uid : <<k, u>> # s => Life'[<<k, u>>] = Life[<<k, u>>])
                 => Life' = [Life EXCEPT ![s] = Life'[s]]
    BY <1>1, <1>2, <1>3, AbstractMove
  <1>5. CASE Apply(k)
    <2>1. born'[k] = born[k] + 1 /\ born[k] + 1 \in Uid /\ isvc[k].uid = 0 /\ born[k] \in Nat
      <3>1. isvc[k].uid = 0 /\ born[k] < MaxUid BY <1>5 DEF Apply, Exists
      <3>2. born[k] \in 0..MaxUid /\ born' = [born EXCEPT ![k] = @ + 1]
        BY <1>1, <1>5 DEF Apply
      <3>3. born[k] \in Nat /\ born[k] + 1 \in Uid BY <3>1, <3>2 DEF Uid
      <3> QED BY <1>1, <3>1, <3>2, <3>3
    <2>2. PICK id : Write(k, [NoObject EXCEPT !.uid = born[k] + 1, !.model = TRUE, !.id = id])
      BY <1>5 DEF Apply
    <2>3. o = [NoObject EXCEPT !.uid = born[k] + 1, !.model = TRUE, !.id = id]
      BY <1>1, <1>3, <2>2 DEF Write
    <2>4. o.uid = born[k] + 1 /\ ~o.marked BY <2>3 DEF NoObject
    <2>5. PICK v \in Uid : v = born[k] + 1 BY <2>1
    <2>6. ASSUME NEW u \in Uid, u # v PROVE Life'[<<k, u>>] = Life[<<k, u>>]
      <3>1. u \in Nat \ {0} BY DEF Uid
      <3>2. born[k] < u <=> born'[k] < u BY <2>1, <2>5, <2>6, <3>1
      <3> QED BY <1>3, <2>1, <2>4, <2>5, <2>6, <3>1, <3>2, LifeOf
    <2>7. Life[<<k, v>>] = "absent" /\ Life'[<<k, v>>] = "live"
      BY <1>3, <2>1, <2>4, <2>5, LifeOf
    <2>8. Life' = [Life EXCEPT ![<<k, v>>] = "live"]
      BY <1>4, <2>6, <2>7
    <2>9. Abstract!Appear(<<k, v>>)
      BY <1>4, <2>7, <2>8 DEF Abstract!Appear, Abstract!Move
    <2> QED BY <2>9 DEF Abstract!Next
  <1>6. CASE Delete(k)
    <2>1. isvc[k].uid # 0 /\ ~isvc[k].marked /\ born' = born
      BY <1>6 DEF Delete, Exists
    <2>2. o = [isvc[k] EXCEPT !.marked = TRUE]
      BY <1>1, <1>3, <1>6 DEF Delete, Write
    <2>3. o.uid = isvc[k].uid /\ o.marked BY <1>1, <2>2 DEF Object
    <2>4. PICK v \in Uid : v = isvc[k].uid
      <3>1. isvc[k].uid \in Uid BY <1>1, <2>1 DEF Uid
      <3> QED BY <3>1
    <2>5. isvc[k].uid = born[k] /\ ~(born[k] < v)
      <3>1. isvc[k].uid = born[k] BY <2>1 DEF Versions
      <3> QED BY <1>1, <2>4, <3>1
    <2>6. ASSUME NEW u \in Uid, u # v PROVE Life'[<<k, u>>] = Life[<<k, u>>]
      BY <1>3, <2>1, <2>3, <2>4, <2>6, LifeOf
    <2>7. Life[<<k, v>>] = "live" /\ Life'[<<k, v>>] = "deleting"
      BY <1>3, <2>1, <2>3, <2>4, <2>5, LifeOf
    <2>8. Life' = [Life EXCEPT ![<<k, v>>] = "deleting"]
      BY <1>4, <2>6, <2>7
    <2>9. Abstract!Delete(<<k, v>>)
      BY <1>4, <2>7, <2>8 DEF Abstract!Delete, Abstract!Move
    <2> QED BY <2>9 DEF Abstract!Next
  <1>7. CASE Reap(k)
    <2>1. isvc[k].marked /\ born' = born BY <1>7 DEF Reap
    <2>2. o = NoObject BY <1>1, <1>3, <1>7 DEF Reap, Write
    <2>3. o.uid = 0 BY <2>2 DEF NoObject
    <2>4. isvc[k].uid # 0 BY <2>1 DEF Versions, Version
    <2>5. PICK v \in Uid : v = isvc[k].uid
      <3>1. isvc[k].uid \in Uid BY <1>1, <2>4 DEF Uid
      <3> QED BY <3>1
    <2>6. isvc[k].uid = born[k] /\ ~(born[k] < v)
      <3>1. isvc[k].uid = born[k] BY <2>4 DEF Versions
      <3> QED BY <1>1, <2>5, <3>1
    <2>7. ASSUME NEW u \in Uid, u # v PROVE Life'[<<k, u>>] = Life[<<k, u>>]
      <3>1. u # 0 BY DEF Uid
      <3> QED BY <1>3, <2>1, <2>3, <2>5, <2>7, <3>1, LifeOf
    <2>8. Life[<<k, v>>] = "deleting" /\ Life'[<<k, v>>] = "gone"
      <3>1. v # 0 BY DEF Uid
      <3> QED BY <1>3, <2>1, <2>3, <2>5, <2>6, <3>1, LifeOf
    <2>9. Life' = [Life EXCEPT ![<<k, v>>] = "gone"]
      BY <1>4, <2>7, <2>8
    <2>10. Abstract!Vanish(<<k, v>>)
      BY <1>4, <2>8, <2>9 DEF Abstract!Vanish, Abstract!Move
    <2> QED BY <2>10 DEF Abstract!Next
  <1> QED BY <1>5, <1>6, <1>7

(* Edits of an object that keep its UID and its deletionTimestamp are      *)
(* invisible.                                                              *)
LEMMA AbstractStutter ==
    ASSUME TypeOK, TypeOK', born' = born, Record' = Record,
           \A j \in Key : isvc'[j].uid = isvc[j].uid /\ isvc'[j].marked = isvc[j].marked
    PROVE  UNCHANGED <<Life, Record>>
  <1>1. Life' = Life
    <2>1. ASSUME NEW j \in Key, NEW u \in Uid PROVE Life'[<<j, u>>] = Life[<<j, u>>]
      BY LifeOf
    <2>2. \A s \in Key \X Uid : Life'[s] = Life[s] BY <2>1
    <2>3. Life' = [t \in Key \X Uid |-> Life'[t]] BY DEF Life
    <2>4. Life = [t \in Key \X Uid |-> Life[t]] BY DEF Life
    <2> QED BY <2>2, <2>3, <2>4
  <1> QED BY <1>1

(* The registry writes: UNDEPLOYED only for a service that is being        *)
(* deleted or gone, DEPLOYED only for one that exists.                     *)
LEMMA AbstractRecord ==
    ASSUME IInv, TypeOK', OnDeletion \/ CreateInferenceService \/ UpdateInferenceService
    PROVE  Abstract!Next \/ UNCHANGED <<Life, Record>>
  <1> USE DEF IInv
  <1>1. /\ Life' = Life /\ mrIs \in [Key \X Uid -> Row] /\ mrIs' \in [Key \X Uid -> Row]
        /\ pc # "idle"
    BY DEF OnDeletion, CreateInferenceService, UpdateInferenceService, Life, cluster,
           TypeOK, RegistryType
  <1>2. CASE UNCHANGED mrIs BY <1>1, <1>2 DEF Record
  <1>3. CASE OnDeletion /\ mrIs' # mrIs
    <2>1. /\ pc = "onDeletion" /\ mrIs[<<cur, copy.id>>].state = "DEPLOYED"
          /\ mrIs' = [mrIs EXCEPT ![<<cur, copy.id>>].state = "UNDEPLOYED"]
      BY <1>3 DEF OnDeletion
    <2>2. /\ cur \in Key /\ copy \in Object /\ born[cur] \in 0..MaxUid
          /\ isvc[cur].uid \in {0, born[cur]} /\ isvc[cur].uid \in 0..MaxUid
      BY <1>1, Fields DEF TypeOK, WorkerType, ClusterType, Versions
    <2>3. copy.uid \in 0..MaxUid /\ copy.id \in 0..MaxUid BY <2>2, Fields
    <2>4. copy.id # 0 /\ copy.marked BY <2>1 DEF Branch
    <2>5. PICK v \in Uid : v = copy.id
      <3>1. copy.id \in Uid BY <2>3, <2>4 DEF Uid
      <3> QED BY <3>1
    <2>6. /\ copy.id <= copy.uid /\ copy.uid <= born[cur]
          /\ isvc[cur].uid = copy.uid => isvc[cur].marked
      BY <1>1, <2>4 DEF WorkerCopy, Version
    <2>7. ~(born[cur] < v) /\ (isvc[cur].uid = v => isvc[cur].marked)
      BY <2>2, <2>3, <2>4, <2>5, <2>6
    <2>8. Life[<<cur, v>>] \in {"deleting", "gone"} BY <2>2, <2>7, LifeOf
    <2>9. Record[<<cur, v>>] = "DEPLOYED" BY <2>1, <2>2, <2>5 DEF Record
    <2>10. Record' = [Record EXCEPT ![<<cur, v>>] = "UNDEPLOYED"]
      <3> DEFINE t == <<cur, v>>
      <3>1. t \in Key \X Uid /\ mrIs' = [mrIs EXCEPT ![t].state = "UNDEPLOYED"]
        BY <2>1, <2>2, <2>5
      <3> HIDE DEF t
      <3>2. mrIs'[t].state = "UNDEPLOYED" BY <1>1, <3>1 DEF Row
      <3>3. \A s \in Key \X Uid : s # t => mrIs'[s] = mrIs[s] BY <1>1, <3>1
      <3>4. \A s \in Key \X Uid : s # t => Record'[s] = Record[s] BY <3>3 DEF Record
      <3>5. Record'[t] = "UNDEPLOYED" BY <3>1, <3>2 DEF Record
      <3>6. Record' = [Record EXCEPT ![t] = "UNDEPLOYED"]
        BY <3>1, <3>4, <3>5 DEF Record
      <3> QED BY <3>6 DEF t
    <2>11. Abstract!Undeploy(<<cur, v>>)
      BY <1>1, <2>8, <2>9, <2>10 DEF Abstract!Undeploy
    <2> QED BY <2>2, <2>11 DEF Abstract!Next
  <1>4. CASE CreateInferenceService /\ mrIs' # mrIs
    <2>1. /\ pc = "createIS" /\ mrIs[<<cur, copy.uid>>] = NoRow
          /\ mrIs' = [mrIs EXCEPT ![<<cur, copy.uid>>] = [state |-> "DEPLOYED", url |-> copy.url]]
      BY <1>4 DEF CreateInferenceService
    <2>2. cur \in Key /\ copy.uid \in Uid /\ Life[<<cur, copy.uid>>] \in {"live", "deleting"}
      BY <2>1, StillThere
    <2>3. Record[<<cur, copy.uid>>] = "none" BY <2>1, <2>2 DEF Record, NoRow
    <2>4. Record' = [Record EXCEPT ![<<cur, copy.uid>>] = "DEPLOYED"]
      BY <1>1, <2>1, <2>2 DEF Record
    <2>5. Abstract!Deploy(<<cur, copy.uid>>)
      BY <1>1, <2>2, <2>3, <2>4 DEF Abstract!Deploy
    <2> QED BY <2>2, <2>5 DEF Abstract!Next
  <1>5. CASE UpdateInferenceService
    <2>1. Record' = Record BY <1>5, UpdateUrl DEF Record
    <2> QED BY <1>1, <2>1
  <1> QED BY <1>2, <1>3, <1>4, <1>5

(* Reconcile() stores the finalizer or the label, or takes the finalizer   *)
(* away: the object's life is not touched.                                 *)
LEMMA AbstractUpdate ==
    ASSUME IInv, TypeOK', AddFinalizer \/ SetLabel \/ RemoveFinalizer
    PROVE  UNCHANGED <<Life, Record>>
  <1> USE DEF IInv
  <1>1. UNCHANGED mrIs /\ born' = born /\ cur \in Key /\ pc # "idle"
        /\ isvc \in [Key -> Object] /\ TypeOK /\ copy \in Object
    BY DEF AddFinalizer, SetLabel, RemoveFinalizer, Update, UpdateFails, registry, cluster,
           TypeOK, WorkerType, ClusterType
  <1>2. Record' = Record BY <1>1 DEF Record
  <1>3. CASE isvc' = isvc BY <1>1, <1>2, <1>3, AbstractStutter
  <1>4. CASE isvc' # isvc
    <2>1. fresh /\ \/ isvc' = [isvc EXCEPT ![cur] = [copy EXCEPT !.fin = TRUE]]
                   \/ isvc' = [isvc EXCEPT ![cur] = [copy EXCEPT !.fin = FALSE]]
                   \/ isvc' = [isvc EXCEPT ![cur] = [copy EXCEPT !.id = found]]
      BY <1>4 DEF AddFinalizer, SetLabel, RemoveFinalizer, Update, UpdateFails, cluster
    <2>2. PICK o : /\ isvc' = [isvc EXCEPT ![cur] = o]
                   /\ o.uid = copy.uid /\ o.marked = copy.marked
      BY <1>1, <2>1 DEF Object
    <2>3. isvc[cur] = copy BY <1>1, <2>1 DEF WorkerCopy
    <2>4. \A j \in Key : isvc'[j].uid = isvc[j].uid /\ isvc'[j].marked = isvc[j].marked
      BY <1>1, <2>2, <2>3
    <2> QED BY <1>1, <1>2, <2>4, AbstractStutter
  <1> QED BY <1>3, <1>4

(* Every step is a step of the deployment record or invisible. *)
LEMMA AbstractStep == IInv /\ [Next]_vars => [Abstract!Next]_<<Life, Record>>
  <1> SUFFICES ASSUME IInv, [Next]_vars
               PROVE  Abstract!Next \/ UNCHANGED <<Life, Record>>
    OBVIOUS
  <1>t. TypeOK /\ TypeOK' BY TypeStep DEF IInv
  <1>a. ASSUME UNCHANGED <<isvc, born, mrIs>> PROVE UNCHANGED <<Life, Record>>
    BY <1>a DEF Life, Record
  <1>1. ASSUME NEW k \in Key, Apply(k) \/ Delete(k) \/ Reap(k) PROVE Abstract!Next
    BY <1>1, <1>t, AbstractLife
  <1>2. ASSUME NEW k \in Key, ChangeUrl(k) \/ RemoveLabels(k)
        PROVE  UNCHANGED <<Life, Record>>
    <2>1. isvc \in [Key -> Object] /\ isvc[k] \in Object BY <1>t DEF TypeOK, ClusterType
    <2>2. PICK o : /\ isvc' = [isvc EXCEPT ![k] = o]
                   /\ o.uid = isvc[k].uid /\ o.marked = isvc[k].marked
      <3>1. CASE ChangeUrl(k)
        <4>1. PICK v : isvc' = [isvc EXCEPT ![k] = [isvc[k] EXCEPT !.url = v]]
          BY <3>1 DEF ChangeUrl, Write
        <4>2. PICK o : o = [isvc[k] EXCEPT !.url = v] OBVIOUS
        <4>3. o.uid = isvc[k].uid /\ o.marked = isvc[k].marked BY <2>1, <4>2 DEF Object
        <4> QED BY <4>1, <4>2, <4>3
      <3>2. CASE RemoveLabels(k)
        <4>1. PICK m : isvc' = [isvc EXCEPT ![k] = [isvc[k] EXCEPT !.id = 0, !.model = m]]
          BY <3>2 DEF RemoveLabels, Write
        <4>2. PICK o : o = [isvc[k] EXCEPT !.id = 0, !.model = m] OBVIOUS
        <4>3. o.uid = isvc[k].uid /\ o.marked = isvc[k].marked BY <2>1, <4>2 DEF Object
        <4> QED BY <4>1, <4>2, <4>3
      <3> QED BY <1>2, <3>1, <3>2
    <2>3. born' = born /\ Record' = Record
      BY <1>2 DEF ChangeUrl, RemoveLabels, Write, registry, Record
    <2>4. \A j \in Key : isvc'[j].uid = isvc[j].uid /\ isvc'[j].marked = isvc[j].marked
      BY <2>1, <2>2
    <2> QED BY <1>t, <2>3, <2>4, AbstractStutter
  <1>3. ASSUME NEW k \in Key, Deliver(k) \/ Get(k) PROVE UNCHANGED <<Life, Record>>
    BY <1>3, <1>a DEF Deliver, Get, cluster, registry
  <1>4. CASE OnDeletion \/ CreateInferenceService \/ UpdateInferenceService
    BY <1>4, <1>t, AbstractRecord
  <1>5. CASE AddFinalizer \/ SetLabel \/ RemoveFinalizer
    BY <1>5, <1>t, AbstractUpdate
  <1>6. CASE \/ Lookup \/ InitModelRegistryService \/ GetOrCreateServingEnvironment
             \/ FindInferenceService \/ GetInferenceService \/ Outage \/ Crash
    BY <1>6, <1>a DEF Lookup, InitModelRegistryService, GetOrCreateServingEnvironment,
         FindInferenceService, GetInferenceService, Outage, Crash, cluster, registry
  <1>7. CASE UNCHANGED vars BY <1>7, <1>a DEF vars, cluster, registry
  <1> QED BY <1>1, <1>2, <1>3, <1>4, <1>5, <1>6, <1>7 DEF Next, Work

(* The controller implements the deployment record: no record is made for  *)
(* a service that is gone, none is UNDEPLOYED while its service lives, and *)
(* none returns from UNDEPLOYED, however stale the cache is.               *)
THEOREM Implements == Spec => Refinement
  <1>1. Init => Abstract!Init BY AbstractInit
  <1>2. IInv /\ [Next]_vars => [Abstract!Next]_<<Life, Record>> BY AbstractStep
  <1> QED BY <1>1, <1>2, Always, PTL DEF Spec, Refinement, Abstract!Spec, Abstract!vars

(* A record of the registry is a row whose state is not none. *)
LEMMA Recorded ==
    ASSUME IInv, NEW s \in Key \X Uid
    PROVE  mrIs[s] # NoRow <=> Record[s] # "none"
  <1>1. PICK k \in Key, u \in Uid : s = <<k, u>> OBVIOUS
  <1>2. mrIs[s] # NoRow => mrIs[s].state # "none" BY <1>1 DEF IInv, Rows
  <1>3. mrIs[s] = NoRow => mrIs[s].state = "none" BY DEF NoRow
  <1> QED BY <1>2, <1>3 DEF Record

(* What a step of the deployment record may do to one record. *)
LEMMA RecordMove ==
    ASSUME Abstract!Next \/ UNCHANGED <<Life, Record>>, NEW s \in Key \X Uid
    PROVE  \/ Record'[s] = Record[s]
           \/ Record[s] = "none" /\ Record'[s] = "DEPLOYED"
           \/ /\ Record[s] = "DEPLOYED" /\ Record'[s] = "UNDEPLOYED"
              /\ Life[s] \in {"deleting", "gone"}
  <1>1. CASE UNCHANGED <<Life, Record>> BY <1>1
  <1>2. CASE Abstract!Next
    <2>1. PICK t \in Key \X Uid :
             \/ Abstract!Appear(t) \/ Abstract!Delete(t) \/ Abstract!Vanish(t)
             \/ Abstract!Deploy(t) \/ Abstract!Undeploy(t)
      BY <1>2 DEF Abstract!Next
    <2>2. CASE Abstract!Appear(t) \/ Abstract!Delete(t) \/ Abstract!Vanish(t)
      BY <2>2 DEF Abstract!Appear, Abstract!Delete, Abstract!Vanish, Abstract!Move
    <2>f. Record = [r \in Key \X Uid |-> Record[r]] BY DEF Record
    <2>3. CASE Abstract!Deploy(t)
      <3>1. Record[t] = "none" /\ Record' = [Record EXCEPT ![t] = "DEPLOYED"]
        BY <2>3 DEF Abstract!Deploy
      <3> QED BY <2>f, <3>1
    <2>4. CASE Abstract!Undeploy(t)
      <3>1. /\ Record[t] = "DEPLOYED" /\ Record' = [Record EXCEPT ![t] = "UNDEPLOYED"]
            /\ Life[t] \in {"deleting", "gone"}
        BY <2>4 DEF Abstract!Undeploy
      <3> QED BY <2>f, <3>1
    <2> QED BY <2>1, <2>2, <2>3, <2>4
  <1> QED BY <1>1, <1>2

(* The registry's records never disappear. *)
LEMMA RowsStay ==
    ASSUME IInv, IInv', [Next]_vars, NEW s \in Key \X Uid, mrIs[s] # NoRow
    PROVE  mrIs'[s] # NoRow
  <1>1. Record[s] # "none" BY Recorded
  <1>2. Abstract!Next \/ UNCHANGED <<Life, Record>> BY AbstractStep
  <1>3. Record'[s] # "none" BY <1>1, <1>2, RecordMove
  <1>4. mrIs'[s].state # "none" BY <1>3 DEF Record
  <1> QED BY <1>4 DEF NoRow

(* What the refinement means for the registry: records are not lost, a     *)
(* deployment is recorded as ended only when the user deleted the service, *)
(* and that is never taken back.                                           *)
THEOREM OnlyDeletionUndeploys == Spec => UndeployedByDeletion
  <1>1. ASSUME IInv, IInv', [Next]_vars, NEW s \in Key \X Uid
        PROVE  /\ mrIs[s] # NoRow => mrIs'[s] # NoRow
               /\ mrIs[s].state = "UNDEPLOYED" => mrIs'[s].state = "UNDEPLOYED"
               /\ mrIs'[s].state = "UNDEPLOYED" /\ mrIs[s].state # "UNDEPLOYED"
                     => mrIs[s].state = "DEPLOYED" /\ Life[s] \in {"deleting", "gone"}
    <2>1. mrIs[s] # NoRow => mrIs'[s] # NoRow BY <1>1, RowsStay
    <2>2. Abstract!Next \/ UNCHANGED <<Life, Record>> BY <1>1, AbstractStep
    <2>3. Record[s] = mrIs[s].state /\ Record'[s] = mrIs'[s].state BY DEF Record
    <2> QED BY <2>1, <2>2, <2>3, RecordMove
  <1>2. IInv /\ IInv' /\ [Next]_vars
           => [\A s \in Key \X Uid :
                 /\ mrIs[s] # NoRow => mrIs'[s] # NoRow
                 /\ mrIs[s].state = "UNDEPLOYED" => mrIs'[s].state = "UNDEPLOYED"
                 /\ mrIs'[s].state = "UNDEPLOYED" /\ mrIs[s].state # "UNDEPLOYED"
                       => mrIs[s].state = "DEPLOYED" /\ Life[s] \in {"deleting", "gone"}]_vars
    BY <1>1
  <1> QED BY <1>2, Always, PTL DEF Spec, UndeployedByDeletion

(* A label that resolved goes on resolving. *)
LEMMA ResolvesStays ==
    ASSUME IInv, IInv', [Next]_vars, NEW o \in Object, NEW k \in Key, Resolves(o, k)
    PROVE  o.id # 0 => mrIs'[<<k, o.id>>] # NoRow
  <1> SUFFICES ASSUME o.id # 0 PROVE mrIs'[<<k, o.id>>] # NoRow
    OBVIOUS
  <1>1. <<k, o.id>> \in Key \X Uid BY Fields DEF Uid
  <1> QED BY <1>1, RowsStay DEF Resolves

(* Every version of an object that a step stores has a label that was on   *)
(* an earlier version, is empty, or names a record that exists.            *)
LEMMA LabelsStep ==
    ASSUME IInv, IInv', LabelsResolve, [Next]_vars
    PROVE  LabelsResolve'
  <1>t. /\ isvc \in [Key -> Object] /\ cache \in [Key -> Object] /\ copy \in Object
        /\ pc # "idle" => cur \in Key
    BY DEF IInv, TypeOK, ClusterType, WorkerType
  <1>r. ASSUME NEW o \in Object, NEW k \in Key, Resolves(o, k)
        PROVE  o.id # 0 => mrIs'[<<k, o.id>>] # NoRow
    BY <1>r, ResolvesStays
  <1>o. \A k \in Key : /\ isvc[k].id # 0 => mrIs'[<<k, isvc[k].id>>] # NoRow
                       /\ cache[k].id # 0 => mrIs'[<<k, cache[k].id>>] # NoRow
    BY <1>t, <1>r DEF LabelsResolve
  <1>c. pc # "idle" => (copy.id # 0 => mrIs'[<<cur, copy.id>>] # NoRow)
    BY <1>t, <1>r DEF LabelsResolve
  <1>f. pc = "setLabel" => found = copy.uid /\ mrIs'[<<cur, found>>] # NoRow
    <2> SUFFICES ASSUME pc = "setLabel" PROVE found = copy.uid /\ mrIs'[<<cur, found>>] # NoRow
      OBVIOUS
    <2>1. found = copy.uid BY DEF IInv, Branch
    <2>2. <<cur, found>> \in Key \X Uid BY <2>1, StillThere
    <2> QED BY <2>1, <2>2, RowsStay DEF LabelsResolve
  <1> DEFINE StoredOK == \A k \in Key : isvc'[k].id # 0 => mrIs'[<<k, isvc'[k].id>>] # NoRow
             CachedOK == \A k \in Key : cache'[k] \in {cache[k], isvc[k]}
             CopyOK == /\ copy'.id # 0 => mrIs'[<<cur', copy'.id>>] # NoRow
                       /\ pc' = "setLabel" => mrIs'[<<cur', found'>>] # NoRow
  <1>1. StoredOK
    <2>w. ASSUME NEW k \in Key, NEW o, isvc' = [isvc EXCEPT ![k] = o],
                 o.id # 0 => mrIs'[<<k, o.id>>] # NoRow
          PROVE  StoredOK
      BY <2>w, <1>t, <1>o
    <2>1. ASSUME NEW k \in Key, Apply(k) PROVE StoredOK
      <3>1. PICK id \in {0} \cup {u \in Uid : mrIs[<<k, u>>] # NoRow} :
               Write(k, [NoObject EXCEPT !.uid = born[k] + 1, !.model = TRUE, !.id = id])
        BY <2>1 DEF Apply
      <3>2. PICK o : o = [NoObject EXCEPT !.uid = born[k] + 1, !.model = TRUE, !.id = id]
        OBVIOUS
      <3>3. o.id = id BY <3>2 DEF NoObject
      <3>4. id # 0 => mrIs[<<k, id>>] # NoRow BY <3>1
      <3>5. mrIs' = mrIs /\ isvc' = [isvc EXCEPT ![k] = o]
        BY <3>1, <3>2 DEF Write, registry
      <3> QED BY <3>3, <3>4, <3>5, <2>w
    <2>2. ASSUME NEW k \in Key, Delete(k) \/ ChangeUrl(k) \/ Reap(k) \/ RemoveLabels(k)
          PROVE  StoredOK
      <3>1. PICK o : isvc' = [isvc EXCEPT ![k] = o] /\ o.id \in {0, isvc[k].id}
        <4>0. isvc[k] \in Object BY <1>t
        <4>1. CASE Delete(k)
          <5>1. PICK o : o = [isvc[k] EXCEPT !.marked = TRUE] OBVIOUS
          <5>2. o.id = isvc[k].id BY <4>0, <5>1 DEF Object
          <5> QED BY <4>1, <5>1, <5>2 DEF Delete, Write
        <4>2. CASE ChangeUrl(k)
          <5>0. PICK v : isvc' = [isvc EXCEPT ![k] = [isvc[k] EXCEPT !.url = v]]
            BY <4>2 DEF ChangeUrl, Write
          <5>1. PICK o : o = [isvc[k] EXCEPT !.url = v] OBVIOUS
          <5>2. o.id = isvc[k].id BY <4>0, <5>1 DEF Object
          <5> QED BY <5>0, <5>1, <5>2
        <4>3. CASE Reap(k)
          <5>1. NoObject.id = 0 BY DEF NoObject
          <5> QED BY <4>3, <5>1 DEF Reap, Write
        <4>4. CASE RemoveLabels(k)
          <5>0. PICK m : isvc' = [isvc EXCEPT ![k] = [isvc[k] EXCEPT !.id = 0, !.model = m]]
            BY <4>4 DEF RemoveLabels, Write
          <5>1. PICK o : o = [isvc[k] EXCEPT !.id = 0, !.model = m] OBVIOUS
          <5>2. o.id = 0 BY <4>0, <5>1 DEF Object
          <5> QED BY <5>0, <5>1, <5>2
        <4> QED BY <2>2, <4>1, <4>2, <4>3, <4>4
      <3> QED BY <3>1, <2>w, <1>o
    <2>3. CASE AddFinalizer \/ RemoveFinalizer \/ SetLabel
      <3>0. pc # "idle" /\ cur \in Key
        BY <2>3, <1>t DEF AddFinalizer, RemoveFinalizer, SetLabel
      <3>1. \/ isvc' = isvc
            \/ isvc' = [isvc EXCEPT ![cur] = [copy EXCEPT !.fin = TRUE]]
            \/ isvc' = [isvc EXCEPT ![cur] = [copy EXCEPT !.fin = FALSE]]
            \/ pc = "setLabel" /\ isvc' = [isvc EXCEPT ![cur] = [copy EXCEPT !.id = found]]
        BY <2>3 DEF AddFinalizer, RemoveFinalizer, SetLabel, Update, UpdateFails, cluster
      <3>2. ASSUME NEW b \in BOOLEAN, isvc' = [isvc EXCEPT ![cur] = [copy EXCEPT !.fin = b]]
            PROVE  StoredOK
        <4>1. PICK o : o = [copy EXCEPT !.fin = b] OBVIOUS
        <4>2. o.id = copy.id BY <1>t, <4>1 DEF Object
        <4> QED BY <3>0, <3>2, <4>1, <4>2, <1>c, <2>w
      <3>3. CASE pc = "setLabel" /\ isvc' = [isvc EXCEPT ![cur] = [copy EXCEPT !.id = found]]
        <4>1. PICK o : o = [copy EXCEPT !.id = found] OBVIOUS
        <4>2. o.id = found BY <1>t, <4>1 DEF Object
        <4> QED BY <3>0, <3>3, <4>1, <4>2, <1>f, <2>w
      <3> QED BY <3>1, <3>2, <3>3, <1>o
    <2>4. CASE isvc' = isvc BY <2>4, <1>o
    <2>5. ASSUME NEW k \in Key, Deliver(k) \/ Get(k) PROVE isvc' = isvc
      BY <2>5 DEF Deliver, Get, cluster
    <2>6. CASE \/ Lookup \/ OnDeletion \/ InitModelRegistryService
               \/ GetOrCreateServingEnvironment \/ FindInferenceService
               \/ CreateInferenceService \/ GetInferenceService \/ UpdateInferenceService
               \/ Outage \/ Crash \/ UNCHANGED vars
      <3>1. isvc' = isvc
        BY <2>6 DEF Lookup, OnDeletion, InitModelRegistryService, GetOrCreateServingEnvironment,
             FindInferenceService, CreateInferenceService, GetInferenceService,
             UpdateInferenceService, Outage, Crash, vars, cluster
      <3> QED BY <3>1, <2>4
    <2> QED BY <2>1, <2>2, <2>3, <2>4, <2>5, <2>6 DEF Next, Work
  <1>2. \A k \in Key : cache'[k].id # 0 => mrIs'[<<k, cache'[k].id>>] # NoRow
    <2>1. CachedOK
      <3>1. ASSUME NEW j \in Key, Deliver(j) PROVE CachedOK
        BY <3>1, <1>t DEF Deliver
      <3>2. CASE Crash BY <3>2 DEF Crash
      <3>3. CASE cache' = cache BY <3>3
      <3>4. ASSUME NEW j \in Key, \/ Apply(j) \/ Delete(j) \/ Reap(j)
                                  \/ ChangeUrl(j) \/ RemoveLabels(j) \/ Get(j)
            PROVE  cache' = cache
        BY <3>4 DEF Apply, Delete, Reap, ChangeUrl, RemoveLabels, Get, Write, informer
      <3>5. CASE Work \/ Outage \/ UNCHANGED vars
        BY <3>5, <3>3 DEF Work, Lookup, OnDeletion, RemoveFinalizer, InitModelRegistryService,
             AddFinalizer, GetOrCreateServingEnvironment, FindInferenceService,
             CreateInferenceService, GetInferenceService, UpdateInferenceService, SetLabel,
             Update, UpdateFails, Outage, vars, informer
      <3> QED BY <3>1, <3>2, <3>3, <3>4, <3>5 DEF Next
    <2> QED BY <2>1, <1>o
  <1>3. pc' # "idle" => CopyOK
    <2> SUFFICES ASSUME pc' # "idle" PROVE CopyOK
      OBVIOUS
    <2>1. ASSUME NEW k \in Key, Get(k) PROVE CopyOK
      <3>1. CASE UNCHANGED worker
        <4>1. pc = "idle" /\ pc' = pc BY <2>1, <3>1 DEF Get, worker
        <4> QED BY <4>1
      <3>2. CASE ~UNCHANGED worker
        <4>1. cur' = k /\ copy' = cache[k] /\ pc' # "setLabel" BY <2>1, <3>2 DEF Get
        <4> QED BY <4>1, <1>o
      <3> QED BY <3>1, <3>2
    <2>2. CASE UNCHANGED <<pc, cur, copy, found>> BY <2>2, <1>c, <1>f
    <2>3. ASSUME NEW l \in PCs \ {"setLabel"}, pc # "idle", GoTo(l) PROVE CopyOK
      BY <2>3, <1>c DEF GoTo
    <2>4. CASE Idle BY <2>4 DEF Idle
    <2>5. CASE FindInferenceService
      <3>1. pc # "idle" /\ cur' = cur /\ copy' = copy /\ mrIs' = mrIs
            /\ (pc' = "setLabel" => found' = copy.uid /\ mrIs[<<cur, copy.uid>>] # NoRow)
        BY <2>5 DEF FindInferenceService, registry
      <3> QED BY <3>1, <1>c
    <2>6. CASE CreateInferenceService /\ ~Idle
      <3>1. /\ pc = "createIS" /\ cur' = cur /\ copy' = copy /\ found' = copy.uid
            /\ mrIs' = [mrIs EXCEPT ![<<cur, copy.uid>>] = [state |-> "DEPLOYED", url |-> copy.url]]
        BY <2>6 DEF CreateInferenceService, ReturnError
      <3>2. <<cur, copy.uid>> \in Key \X Uid BY <3>1, StillThere
      <3>3. mrIs'[<<cur, copy.uid>>].state = "DEPLOYED"
        BY <3>1, <3>2 DEF IInv, TypeOK, RegistryType
      <3>4. mrIs'[<<cur, found'>>] # NoRow BY <3>1, <3>3 DEF NoRow
      <3> QED BY <3>1, <3>4, <1>c
    <2>7. CASE AddFinalizer
      <3>1. CASE /\ copy' = [copy EXCEPT !.fin = TRUE] /\ pc' = "servingEnvironment"
                 /\ UNCHANGED <<cur, fresh, found, queue>>
        <4>1. copy'.id = copy.id BY <1>t, <3>1 DEF Object
        <4>2. pc # "idle" BY <2>7 DEF AddFinalizer
        <4> QED BY <3>1, <4>1, <4>2, <1>c
      <3>2. CASE GoTo("servingEnvironment")
        BY <2>7, <3>2, <2>3 DEF AddFinalizer, PCs
      <3> QED BY <2>7, <2>4, <3>1, <3>2 DEF AddFinalizer, ReturnError
    <2>8. CASE Lookup \/ OnDeletion \/ InitModelRegistryService
               \/ GetOrCreateServingEnvironment \/ GetInferenceService
      <3>1. pc # "idle" /\ (Idle \/ \E l \in PCs \ {"setLabel"} : GoTo(l))
        BY <2>8 DEF Lookup, OnDeletion, InitModelRegistryService,
             GetOrCreateServingEnvironment, GetInferenceService, Return, ReturnError, PCs
      <3> QED BY <3>1, <2>3, <2>4
    <2>9. CASE RemoveFinalizer \/ UpdateInferenceService \/ SetLabel \/ Crash
      BY <2>9, <2>4 DEF RemoveFinalizer, UpdateInferenceService, SetLabel, Crash, Return, ReturnError
    <2>10. ASSUME NEW k \in Key, \/ Apply(k) \/ Delete(k) \/ Reap(k) \/ ChangeUrl(k)
                                 \/ RemoveLabels(k) \/ Deliver(k)
           PROVE  UNCHANGED <<pc, cur, copy, found>>
      BY <2>10 DEF Apply, Delete, Reap, ChangeUrl, RemoveLabels, Deliver, Write, worker
    <2>11. CASE Outage \/ UNCHANGED vars
      BY <2>11, <2>2 DEF Outage, vars, worker
    <2> QED BY <2>1, <2>2, <2>4, <2>5, <2>6, <2>7, <2>8, <2>9, <2>10, <2>11 DEF Next, Work
  <1> QED BY <1>1, <1>2, <1>3 DEF LabelsResolve, Resolves

(* Wherever the id label comes from (the record Reconcile() created or     *)
(* found, an old manifest, a stale cache), the registry has the record.    *)
THEOREM LabelsNeverDangle == Spec => []LabelsResolve
  <1>1. Init => LabelsResolve BY DEF Init, LabelsResolve, Resolves, NoObject
  <1>2. IInv /\ IInv' /\ LabelsResolve /\ [Next]_vars => LabelsResolve' BY LabelsStep
  <1> QED BY <1>1, <1>2, Always, PTL DEF Spec
-----------------------------------------------------------------------------
(* A step of Reconcile() concerns its own ISVC only.                       *)
LEMMA WorkElsewhere ==
    ASSUME IInv, Work, NEW k \in Key, k # cur
    PROVE  /\ isvc'[k] = isvc[k] /\ synced'[k] = synced[k]
           /\ k \in queue' <=> k \in queue
           /\ \A u \in Uid : mrIs'[<<k, u>>] = mrIs[<<k, u>>]
  <1>0. /\ isvc \in [Key -> Object] /\ synced \in [Key -> BOOLEAN]
        /\ mrIs \in [Key \X Uid -> Row]
    BY DEF IInv, TypeOK, ClusterType, RegistryType
  <1>1. isvc' = isvc \/ \E o : isvc' = [isvc EXCEPT ![cur] = o]
    BY DEF Work, Lookup, OnDeletion, RemoveFinalizer, InitModelRegistryService,
         AddFinalizer, GetOrCreateServingEnvironment, FindInferenceService,
         CreateInferenceService, GetInferenceService, UpdateInferenceService, SetLabel,
         Update, UpdateFails, cluster
  <1>2. synced' = synced \/ synced' = [synced EXCEPT ![cur] = FALSE]
    BY DEF Work, Lookup, OnDeletion, RemoveFinalizer, InitModelRegistryService,
         AddFinalizer, GetOrCreateServingEnvironment, FindInferenceService,
         CreateInferenceService, GetInferenceService, UpdateInferenceService, SetLabel,
         Update, UpdateFails, informer
  <1>3. queue' = queue \/ queue' = queue \cup {cur}
    BY DEF Work, Lookup, OnDeletion, RemoveFinalizer, InitModelRegistryService,
         AddFinalizer, GetOrCreateServingEnvironment, FindInferenceService,
         CreateInferenceService, GetInferenceService, UpdateInferenceService, SetLabel,
         GoTo, Return, ReturnError
  <1>4. mrIs' = mrIs \/ \E u, row : mrIs' = [mrIs EXCEPT ![<<cur, u>>] = row]
    BY DEF Work, Lookup, OnDeletion, RemoveFinalizer, InitModelRegistryService,
         AddFinalizer, GetOrCreateServingEnvironment, FindInferenceService,
         CreateInferenceService, GetInferenceService, UpdateInferenceService, SetLabel,
         registry
  <1>5. ASSUME NEW u \in Uid PROVE mrIs'[<<k, u>>] = mrIs[<<k, u>>]
    <2>1. <<k, u>> \in Key \X Uid /\ \A v : <<cur, v>> # <<k, u>> OBVIOUS
    <2> QED BY <1>0, <1>4, <2>1
  <1>6. isvc'[k] = isvc[k] BY <1>0, <1>1
  <1>7. synced'[k] = synced[k] BY <1>0, <1>2
  <1> QED BY <1>3, <1>5, <1>6, <1>7

(* What Reconcile() leaves without an error and without a change of the    *)
(* ISVC is in sync.                                                        *)
LEMMA WorkEnds ==
    ASSUME IInv, CopyCurrent, Work, NEW k \in Key, k = cur, Settled(k)',
           Exists(isvc'[k])
    PROVE  ~isvc'[k].marked /\ InSync(isvc[k], k)'
  <1>0. /\ isvc \in [Key -> Object] /\ synced \in [Key -> BOOLEAN]
        /\ mrIs \in [Key \X Uid -> Row]
        /\ pc # "idle" /\ cur \in Key /\ copy \in Object
    BY DEF IInv, TypeOK, ClusterType, RegistryType, WorkerType, Work, Lookup,
         OnDeletion, RemoveFinalizer, InitModelRegistryService,
         AddFinalizer, GetOrCreateServingEnvironment, FindInferenceService,
         CreateInferenceService, GetInferenceService, UpdateInferenceService, SetLabel
  <1>s. cur' # cur /\ synced'[cur] /\ cur \notin queue' /\ Exists(isvc'[cur])
    BY DEF Settled
  <1>1. ASSUME NEW o, Update(o) PROVE FALSE
    BY <1>0, <1>1, <1>s DEF Update
  <1>2. ~ReturnError BY <1>s DEF ReturnError
  <1>3. ASSUME NEW l, GoTo(l) PROVE FALSE BY <1>3, <1>s DEF GoTo
  <1>4. \/ RemoveFinalizer /\ UpdateFails
        \/ GetInferenceService /\ Return
        \/ UpdateInferenceService /\ Return
    BY <1>1, <1>2, <1>3, <1>s DEF Work, Lookup, OnDeletion, RemoveFinalizer,
         InitModelRegistryService, AddFinalizer, GetOrCreateServingEnvironment,
         FindInferenceService, CreateInferenceService, GetInferenceService,
         UpdateInferenceService, SetLabel
  <1>5. ~(RemoveFinalizer /\ UpdateFails)
    BY <1>1, <1>2, <1>s DEF RemoveFinalizer, UpdateFails, cluster
  <1>6. /\ GetInferenceService \/ UpdateInferenceService
        /\ queue' = queue /\ cur' = NoKey /\ UNCHANGED <<isvc, synced>>
        /\ pc \in {"getIS", "updateIS"}
    BY <1>4, <1>5 DEF GetInferenceService, UpdateInferenceService, Return, Idle,
         cluster, informer
  <1>7. copy = isvc[cur] BY <1>0, <1>6, <1>s DEF CopyCurrent
  <1>8. ~copy.marked /\ copy.id # 0 BY <1>0, <1>6 DEF IInv, Branch
  <1> DEFINE s == <<cur, copy.id>>
  <1>9. s \in Key \X Uid
    <2>1. copy.id \in 0..MaxUid BY <1>0, Fields
    <2> QED BY <1>0, <1>8, <2>1 DEF Uid
  <1>10. mrIs[s] # NoRow => mrIs[s].state # "none"
    BY <1>9 DEF IInv, Rows
  <1> HIDE DEF s
  <1>11. mrIs'[s].state # "none" /\ mrIs'[s].url = copy.url
    <2>1. CASE GetInferenceService
      <3>1. mrIs[s] # NoRow /\ mrIs' = mrIs /\ ~CheckURLDiff(copy, mrIs[s].url)
        BY <2>1, <1>2, <1>3 DEF GetInferenceService, registry, s
      <3> QED BY <3>1, <1>10 DEF CheckURLDiff
    <2>2. CASE UpdateInferenceService
      <3>1. mrIs' = [mrIs EXCEPT ![s].url = copy.url] /\ mrIs[s] # NoRow
        BY <2>2, <1>2 DEF UpdateInferenceService, IInv, Rows, s
      <3> QED BY <3>1, <1>0, <1>9, <1>10 DEF Row
    <2> QED BY <1>6, <2>1, <2>2
  <1> QED BY <1>6, <1>7, <1>8, <1>11 DEF InSync, s

(* The version Reconcile() works on stays the current one, or another      *)
(* event is due.                                                           *)
LEMMA CopyCurrentStep ==
    ASSUME IInv, CopyCurrent, [Next]_vars PROVE CopyCurrent'
  <1>0. /\ isvc \in [Key -> Object] /\ synced \in [Key -> BOOLEAN]
        /\ cur \in Key \cup {NoKey} /\ (cur = NoKey <=> pc = "idle")
        /\ \A k \in Key : synced[k] => cache[k] = isvc[k]
    BY DEF IInv, TypeOK, ClusterType, WorkerType, Versions
  <1>1. CASE UNCHANGED vars
    BY <1>1 DEF vars, cluster, informer, worker, CopyCurrent
  <1>2. ASSUME NEW k \in Key, NEW o, Write(k, o) PROVE CopyCurrent'
    BY <1>0, <1>2 DEF Write, CopyCurrent
  <1>3. ASSUME NEW k \in Key, Deliver(k) PROVE CopyCurrent'
    BY <1>0, <1>3 DEF Deliver, CopyCurrent, cluster, worker
  <1>4. ASSUME NEW k \in Key, Get(k) PROVE CopyCurrent'
    <2>1. UNCHANGED <<isvc, synced, cache>> /\ pc = "idle" BY <1>4 DEF Get, cluster, informer
    <2>2. (pc' = pc) \/ (cur' = k /\ copy' = cache[k]) BY <1>4 DEF Get, worker
    <2> QED BY <1>0, <2>1, <2>2 DEF CopyCurrent
  <1>5. CASE Outage BY <1>5 DEF Outage, cluster, informer, worker, CopyCurrent
  <1>6. CASE Crash BY <1>6 DEF Crash, Idle, CopyCurrent
  <1>7. CASE Work
    <2>1. CASE Idle BY <2>1 DEF Idle, CopyCurrent
    <2>2. ASSUME NEW o, Update(o), cur' = cur PROVE CopyCurrent'
      <3>1. cur = NoKey => pc = "idle" BY <1>0
      <3>2. pc # "idle" BY <1>7 DEF Work, Lookup, OnDeletion, RemoveFinalizer,
         InitModelRegistryService, AddFinalizer, GetOrCreateServingEnvironment,
         FindInferenceService, CreateInferenceService, GetInferenceService,
         UpdateInferenceService, SetLabel
      <3>3. ~synced'[cur'] BY <1>0, <2>2, <3>1, <3>2 DEF Update
      <3> QED BY <3>3 DEF CopyCurrent
    <2>3. CASE /\ UNCHANGED <<isvc, synced, cur, copy, queue>> /\ pc # "idle"
      BY <2>3 DEF CopyCurrent
    <2> QED BY <1>7, <2>1, <2>2, <2>3 DEF Work, Lookup, OnDeletion, RemoveFinalizer,
         InitModelRegistryService, AddFinalizer, GetOrCreateServingEnvironment,
         FindInferenceService, CreateInferenceService, GetInferenceService,
         UpdateInferenceService, SetLabel, UpdateFails, Return, ReturnError, GoTo,
         cluster, informer
  <1> QED BY <1>1, <1>2, <1>3, <1>4, <1>5, <1>6, <1>7 DEF Next, Apply, Delete, Reap,
         ChangeUrl, RemoveLabels

(* Every step leaves the ISVCs the controller is done with in sync.        *)
LEMMA SettledStep ==
    ASSUME IInv, IInv', CopyCurrent, SettledInSync, [Next]_vars PROVE SettledInSync'
  <1> SUFFICES ASSUME NEW k \in Key, Settled(k)', Exists(isvc'[k]), Labelled(isvc'[k])
               PROVE  IF isvc'[k].marked THEN ~isvc'[k].fin ELSE InSync(isvc[k], k)'
    BY DEF SettledInSync
  <1>0. /\ isvc \in [Key -> Object] /\ synced \in [Key -> BOOLEAN]
        /\ cur \in Key \cup {NoKey} /\ (cur = NoKey <=> pc = "idle")
        /\ \A j \in Key : synced[j] => cache[j] = isvc[j]
        /\ \A j \in Key : isvc'[j].id \in 0..MaxUid
    BY Fields DEF IInv, TypeOK, ClusterType, WorkerType, Versions
  <1>s. synced'[k] /\ k \notin queue' /\ cur' # k BY DEF Settled
  <1>f. ASSUME Settled(k), isvc'[k] = isvc[k],
               \A u \in Uid : mrIs'[<<k, u>>] = mrIs[<<k, u>>]
        PROVE  IF isvc'[k].marked THEN ~isvc'[k].fin ELSE InSync(isvc[k], k)'
    <2>1. IF isvc[k].marked THEN ~isvc[k].fin ELSE InSync(isvc[k], k)
      BY <1>f DEF SettledInSync
    <2>2. isvc[k].id # 0 => isvc[k].id \in Uid BY <1>0, <1>f DEF Uid
    <2> QED BY <1>f, <2>1, <2>2 DEF InSync
  <1>g. CASE Settled(k) /\ isvc'[k] = isvc[k] /\ mrIs' = mrIs BY <1>f, <1>g
  <1>1. CASE UNCHANGED vars
    BY <1>1, <1>s, <1>g DEF vars, cluster, informer, worker, registry, Settled
  <1>2. ASSUME NEW j \in Key, NEW o, Write(j, o)
        PROVE  IF isvc'[k].marked THEN ~isvc'[k].fin ELSE InSync(isvc[k], k)'
    <2>1. j # k BY <1>0, <1>2, <1>s DEF Write
    <2>2. isvc'[k] = isvc[k] /\ synced'[k] = synced[k] BY <1>0, <1>2, <2>1 DEF Write
    <2>3. UNCHANGED <<queue, cur, mrIs>> BY <1>2 DEF Write, registry
    <2> QED BY <1>s, <1>g, <2>2, <2>3 DEF Settled
  <1>3. ASSUME NEW j \in Key, Deliver(j)
        PROVE  IF isvc'[k].marked THEN ~isvc'[k].fin ELSE InSync(isvc[k], k)'
    <2>1. j # k BY <1>3, <1>s DEF Deliver
    <2>2. synced'[k] = synced[k] /\ k \notin queue BY <1>0, <1>3, <1>s, <2>1 DEF Deliver
    <2>3. UNCHANGED <<isvc, cur, mrIs>> BY <1>3 DEF Deliver, cluster, worker, registry
    <2> QED BY <1>s, <1>g, <2>2, <2>3 DEF Settled
  <1>4. ASSUME NEW j \in Key, Get(j)
        PROVE  IF isvc'[k].marked THEN ~isvc'[k].fin ELSE InSync(isvc[k], k)'
    <2>1. UNCHANGED <<isvc, synced, cache, mrIs>> /\ cur = NoKey /\ cur # k
      BY <1>0, <1>4 DEF Get, cluster, informer, registry
    <2>2. CASE j # k BY <1>4, <1>s, <1>g, <2>1, <2>2 DEF Get, Settled
    <2>3. CASE j = k
      <3>1. \/ ~Exists(cache[k]) \/ ~Labelled(cache[k])
            \/ (cache[k].marked /\ ~cache[k].fin)
        BY <1>4, <1>s, <2>3 DEF Get
      <3>2. cache[k] = isvc'[k] BY <1>0, <1>s, <2>1
      <3> QED BY <3>1, <3>2
    <2> QED BY <2>2, <2>3
  <1>5. CASE Outage
    BY <1>5, <1>s, <1>g DEF Outage, cluster, informer, worker, registry, Settled
  <1>6. CASE Crash BY <1>6, <1>s DEF Crash, cluster
  <1>7. CASE Work
    <2>1. CASE cur = k
      BY <1>7, <2>1, WorkEnds
    <2>2. CASE cur # k
      BY <1>7, <2>2, <1>s, <1>f, WorkElsewhere DEF Settled
    <2> QED BY <2>1, <2>2
  <1> QED BY <1>1, <1>2, <1>3, <1>4, <1>5, <1>6, <1>7 DEF Next, Apply, Delete, Reap,
         ChangeUrl, RemoveLabels

(* The controller is done only with ISVCs that are in sync with the        *)
(* registry: Reconcile() that failed, met a conflict, ran on a stale cache *)
(* or was cut off is always followed by another one.                       *)
THEOREM NoWakeUpIsLost == Spec => []SettledInSync
  <1>1. Init => CopyCurrent /\ SettledInSync
    BY DEF Init, CopyCurrent, SettledInSync, Exists, NoObject
  <1>2. IInv /\ IInv' /\ CopyCurrent /\ SettledInSync /\ [Next]_vars
          => CopyCurrent' /\ SettledInSync'
    BY CopyCurrentStep, SettledStep
  <1> QED BY <1>1, <1>2, Always, PTL DEF Spec
=============================================================================
