------------------------- MODULE ModelLoaderProofs -------------------------
(***************************************************************************)
(* Proofs about ModelLoader for any sources, models, catalog contents,     *)
(* watchers and bounds.  IInv is the inductive invariant.                  *)
(***************************************************************************)
EXTENDS ModelLoader, TLAPS

USE ContentsAssumption, BoundsAssumption, SwitchAssumption

(* The leader callback and the watchers are callers. *)
LEMMA Callers == Leader \in Caller /\ Watcher \subseteq Caller
  BY DEF Caller

(* The fields of a forwarder's state have their types. *)
LEMMA FwdFields ==
  ASSUME NEW f \in FwdType
  PROVE  /\ f.at \in FwdPCs
         /\ f.event \in BOOLEAN
         /\ f.todo \subseteq Model /\ f.failed \subseteq Model
         /\ f.names \subseteq Model /\ f.cur \subseteq Model
  BY DEF FwdType

(* Every update the actions make to a forwarder's state leaves it one. *)
LEMMA FwdUpdates ==
  ASSUME NEW f \in FwdType, NEW p \in FwdPCs,
         NEW a \in SUBSET Model, NEW b \in SUBSET Model, NEW c \in SUBSET Model
  PROVE  /\ [f EXCEPT !.at = p] \in FwdType
         /\ [f EXCEPT !.at = p, !.cur = a] \in FwdType
         /\ [f EXCEPT !.at = p, !.names = a, !.failed = b] \in FwdType
         /\ [f EXCEPT !.at = p, !.todo = a, !.names = b, !.cur = c] \in FwdType
  BY DEF FwdType

(* A file event or its absence leaves a forwarder's state one. *)
LEMMA FwdEvent ==
  ASSUME NEW f \in FwdType, NEW e \in BOOLEAN
  PROVE  [f EXCEPT !.event = e] \in FwdType
  BY DEF FwdType

(* So does a reading of the catalog file. *)
LEMMA FwdReading ==
  ASSUME NEW f \in FwdType, NEW e \in BOOLEAN,
         NEW a \in SUBSET Model, NEW b \in SUBSET Model
  PROVE  [f EXCEPT !.at = "emit", !.todo = a, !.failed = b, !.event = e]
           \in FwdType
  BY DEF FwdType, FwdPCs

(* Every step keeps every variable in its type. *)
LEMMA TypeStep == TypeOK /\ [Next]_vars => TypeOK'
  <1> SUFFICES ASSUME TypeOK, [Next]_vars
               PROVE  TypeOK'
    OBVIOUS
  <1> USE Callers DEF TypeOK, files, lead, ops, ctxs, data
  <1>1. ASSUME NEW w \in Watcher, NEW s \in Source, NEW v \in Settings,
               EditConfig(w, s, v)
        PROVE  TypeOK'
    BY <1>1 DEF EditConfig, MayEdit, CallerPCs
  <1>2. ASSUME NEW s \in Source, NEW d \in Contents, EditCatalog(s, d)
        PROVE  TypeOK'
    <2>1. edits' \in 0..MaxEdits BY <1>2 DEF EditCatalog, MayEdit
    <2>2. fwd' \in [Run -> [Source -> FwdType]]
      <3> SUFFICES ASSUME NEW r \in Run, fwd[r][s].at \notin {"none", "closed"}
                   PROVE  [fwd[r] EXCEPT ![s].event = TRUE] \in [Source -> FwdType]
        BY <1>2 DEF EditCatalog
      <3>1. fwd[r][s] \in FwdType /\ TRUE \in BOOLEAN OBVIOUS
      <3>2. [fwd[r][s] EXCEPT !.event = TRUE] \in FwdType BY <3>1, FwdEvent
      <3> QED BY <3>2
    <2> QED BY <1>2, <2>1, <2>2 DEF EditCatalog
  <1>3. CASE Elected
    BY <1>3 DEF Elected, CallerPCs
  <1>4. CASE Deposed
    BY <1>4 DEF Deposed, CallerPCs
  <1>5. CASE BeginTerm
    BY <1>5 DEF BeginTerm, CallerPCs
  <1>6. CASE LeaderReady
    BY <1>6 DEF LeaderReady, CallerPCs
  <1>7. CASE EndTerm
    BY <1>7 DEF EndTerm, CallerPCs
  <1>8. CASE UnsetLeader
    BY <1>8 DEF UnsetLeader, CallerPCs
  <1>9. CASE LeaderReadyFails
    <2>1. errors' \in 0..MaxErrors BY <1>9 DEF LeaderReadyFails, Error
    <2>2. pc' \in [Caller -> CallerPCs]
      BY <1>9 DEF LeaderReadyFails, GiveUpTerm, CallerPCs
    <2>3. UNCHANGED <<files, sources, run, todo, ctxs, loaded, fwd, writer,
                      data, cleaned, leadCtx, terms>>
      BY <1>9 DEF LeaderReadyFails, GiveUpTerm
    <2>4. healthy' \in BOOLEAN /\ isLeader' \in BOOLEAN
      BY <1>9 DEF LeaderReadyFails, GiveUpTerm
    <2> QED BY <2>1, <2>2, <2>3, <2>4
  <1>10. ASSUME NEW w \in Watcher, TakeEvent(w) PROVE TypeOK'
    BY <1>10 DEF TakeEvent, CallerPCs
  <1>11. ASSUME NEW w \in Watcher, ReloadParsing(w) PROVE TypeOK'
    BY <1>11 DEF ReloadParsing, CallerPCs
  <1>12. ASSUME NEW w \in Watcher, ShouldWriteDatabase(w) PROVE TypeOK'
    BY <1>12 DEF ShouldWriteDatabase, CallerPCs
  <1>13. ASSUME NEW w \in Watcher, ReloadFails(w) PROVE TypeOK'
    <2>1. errors' \in 0..MaxErrors BY <1>13 DEF ReloadFails, Error
    <2>2. pc' \in [Caller -> CallerPCs] BY <1>13 DEF ReloadFails, CallerPCs
    <2>3. sources' \in [Source -> Settings] BY <1>13 DEF ReloadFails
    <2>4. UNCHANGED <<files, lead, run, todo, ctxs, loaded, fwd, writer, data,
                      cleaned>>
      BY <1>13 DEF ReloadFails
    <2>5. healthy' \in BOOLEAN BY <1>13 DEF ReloadFails
    <2> QED BY <2>1, <2>2, <2>3, <2>4, <2>5
  <1>14. ASSUME NEW c \in Caller, SetCloser(c) PROVE TypeOK'
    <2>1. runs + 1 \in Run BY <1>14 DEF SetCloser, Run, MaxRuns
    <2>2. /\ runs' \in 0..MaxRuns
          /\ closer' \in 0..MaxRuns
          /\ run' \in [Caller -> 0..MaxRuns]
      BY <1>14, <2>1 DEF SetCloser, Run, MaxRuns
    <2>3. byLeader' \subseteq Run BY <1>14, <2>1 DEF SetCloser
    <2>4. closer \in Run \cup {0} BY DEF Run, MaxRuns
    <2>5. cancelled' \subseteq Run BY <1>14, <2>1, <2>4 DEF SetCloser
    <2> QED BY <1>14, <2>2, <2>3, <2>5 DEF SetCloser, CallerPCs
  <1>15. ASSUME NEW c \in Caller, Drain(c) PROVE TypeOK'
    BY <1>15 DEF Drain, CallerPCs
  <1>16. ASSUME NEW c \in Caller, Cleanup(c) PROVE TypeOK'
    <2>1. errors' \in 0..MaxErrors BY <1>16 DEF Cleanup, Error
    <2>2. db' \in [Source -> SUBSET Model] BY <1>16 DEF Cleanup, Forget
    <2>3. status' \in [Source -> Statuses]
      BY <1>16 DEF Cleanup, ForgetStatus, Statuses
    <2> QED BY <1>16, <2>1, <2>2, <2>3 DEF Cleanup, CallerPCs
  <1>17. ASSUME NEW c \in Caller, CleanupFails(c) PROVE TypeOK'
    <2>1. errors' \in 0..MaxErrors BY <1>17 DEF CleanupFails, Error
    <2>2. db' \in [Source -> SUBSET Model] BY <1>17 DEF CleanupFails, Forget
    <2>3. status' \in [Source -> Statuses]
      BY <1>17 DEF CleanupFails, ForgetStatus, Statuses
    <2>4. pc' \in [Caller -> CallerPCs]
      BY <1>17 DEF CleanupFails, GiveUpTerm, CallerPCs
    <2>5. healthy' \in BOOLEAN BY <1>17 DEF CleanupFails, GiveUpTerm
    <2>6. isLeader' \in BOOLEAN /\ UNCHANGED <<leadCtx, terms>>
      BY <1>17 DEF CleanupFails, GiveUpTerm
    <2>7. UNCHANGED <<files, sources, run, todo, ctxs, loaded, fwd, writer,
                      cleaned>>
      BY <1>17 DEF CleanupFails
    <2> QED BY <2>1, <2>2, <2>3, <2>4, <2>5, <2>6, <2>7
  <1>18. ASSUME NEW c \in Caller, LoadAllModels(c) PROVE TypeOK'
    <2>1. todo' \in [Caller -> SUBSET (Source \X Settings)]
      BY <1>18 DEF LoadAllModels
    <2> QED BY <1>18, <2>1 DEF LoadAllModels, CallerPCs
  <1>19. ASSUME NEW c \in Caller, NEW s \in Source, NEW v \in Settings,
               ReadSource(c, s, v)
        PROVE  TypeOK'
    <2>1. errors' \in 0..MaxErrors BY <1>19 DEF ReadSource, SaveSourceStatus, Error
    <2>2. status' \in [Source -> Statuses]
      BY <1>19 DEF ReadSource, SaveSourceStatus, Statuses
    <2>3. fwd' \in [Run -> [Source -> FwdType]]
      <3>1. CASE UNCHANGED fwd BY <3>1
      <3>2. CASE fwd' = [fwd EXCEPT ![run[c]][s].at = "read"]
        <4>1. CASE run[c] \in Run
          <5>1. "read" \in FwdPCs /\ fwd[run[c]][s] \in FwdType
            BY <4>1 DEF FwdPCs
          <5>2. [fwd[run[c]][s] EXCEPT !.at = "read"] \in FwdType
            BY <5>1, FwdUpdates
          <5> QED BY <3>2, <4>1, <5>2
        <4>2. CASE run[c] \notin Run BY <3>2, <4>2
        <4> QED BY <4>1, <4>2
      <3> QED BY <1>19, <3>1, <3>2 DEF ReadSource
    <2>4. loaded' \subseteq Source BY <1>19 DEF ReadSource
    <2>5. todo' \in [Caller -> SUBSET (Source \X Settings)] BY <1>19 DEF ReadSource
    <2>6. UNCHANGED <<files, sources, lead, healthy, pc, run, ctxs, writer, db,
                      cleaned>>
      BY <1>19 DEF ReadSource
    <2> QED BY <2>1, <2>2, <2>3, <2>4, <2>5, <2>6
  <1>20. ASSUME NEW c \in Caller, SpawnWriter(c) PROVE TypeOK'
    <2>1. writer' \in [Run -> WriterType]
      <3>1. CASE run[c] \in Run
        <4>1. [writer[run[c]] EXCEPT !.at = "recv"] \in WriterType
          BY <3>1 DEF WriterType, WriterPCs
        <4> QED BY <1>20, <3>1, <4>1 DEF SpawnWriter
      <3>2. CASE run[c] \notin Run BY <1>20, <3>2 DEF SpawnWriter
      <3> QED BY <3>1, <3>2
    <2> QED BY <1>20, <2>1 DEF SpawnWriter, CallerPCs
  <1>21. ASSUME NEW c \in Caller, Settle(c) PROVE TypeOK'
    BY <1>21 DEF Settle, CallerPCs
  <1>22. ASSUME NEW r \in Run, NEW s \in Source, ProviderReads(r, s)
        PROVE  TypeOK'
    <2> DEFINE f == fwd[r][s]
    <2>1. f \in FwdType /\ content[s] \in Contents OBVIOUS
    <2>2. content[s].ok \in SUBSET Model /\ content[s].bad \in SUBSET Model
      BY <2>1
    <2>3. (f.event /\ f.at = "read") \in BOOLEAN OBVIOUS
    <2>4. [f EXCEPT !.at = "emit", !.todo = content[s].ok,
                    !.failed = content[s].bad,
                    !.event = f.event /\ f.at = "read"] \in FwdType
      <3> HIDE DEF f
      <3> QED BY <2>1, <2>2, <2>3, FwdReading
    <2>5. fwd' \in [Run -> [Source -> FwdType]]
      BY <1>22, <2>4 DEF ProviderReads, MoveFwd
    <2> QED BY <1>22, <2>5 DEF ProviderReads
  <1>23. ASSUME NEW r \in Run, NEW s \in Source, NEW m \in Model,
               Emit(r, s, m)
        PROVE  TypeOK'
    <2> DEFINE f == fwd[r][s]
    <2>1. f \in FwdType OBVIOUS
    <2>2. /\ "send" \in FwdPCs
          /\ f.todo \ {m} \in SUBSET Model
          /\ f.names \cup {m} \in SUBSET Model
          /\ {m} \in SUBSET Model
      BY <2>1, FwdFields DEF FwdPCs
    <2>3. [f EXCEPT !.at = "send", !.todo = f.todo \ {m},
                    !.names = f.names \cup {m}, !.cur = {m}] \in FwdType
      BY <2>1, <2>2, FwdUpdates
    <2>4. fwd' \in [Run -> [Source -> FwdType]]
      BY <1>23, <2>3 DEF Emit, MoveFwd
    <2> QED BY <1>23, <2>4 DEF Emit
  <1>24. ASSUME NEW r \in Run, NEW s \in Source, Send(r, s) PROVE TypeOK'
    <2> DEFINE f == fwd[r][s]
    <2>1. f \in FwdType OBVIOUS
    <2>2. "emit" \in FwdPCs /\ f.cur \subseteq Model /\ {} \in SUBSET Model
      BY <2>1, FwdFields DEF FwdPCs
    <2>3. [f EXCEPT !.at = "emit", !.cur = {}] \in FwdType
      BY <2>1, <2>2, FwdUpdates
    <2>4. fwd' \in [Run -> [Source -> FwdType]]
      BY <1>24, <2>3 DEF Send, MoveFwd
    <2>5. [at |-> "got", rec |-> {s} \X f.cur] \in WriterType
      BY <2>2 DEF WriterType, WriterPCs
    <2>6. writer' \in [Run -> WriterType] BY <1>24, <2>5 DEF Send
    <2> QED BY <1>24, <2>4, <2>6 DEF Send
  <1>25. ASSUME NEW r \in Run, NEW s \in Source, EndBatch(r, s)
        PROVE  TypeOK'
    <2> DEFINE f == fwd[r][s]
               p == IF CompleteFailure(f) THEN "status" ELSE "marker"
    <2>1. f \in FwdType OBVIOUS
    <2>2. p \in FwdPCs BY DEF FwdPCs
    <2>3. [f EXCEPT !.at = p] \in FwdType BY <2>1, <2>2, FwdUpdates
    <2>4. fwd' \in [Run -> [Source -> FwdType]]
      BY <1>25, <2>3 DEF EndBatch, MoveFwd
    <2> QED BY <1>25, <2>4 DEF EndBatch
  <1>26. ASSUME NEW r \in Run, NEW s \in Source, TrackRemoval(r, s)
        PROVE  TypeOK'
    <2> DEFINE f == fwd[r][s]
    <2>1. f \in FwdType OBVIOUS
    <2>2. "remove" \in FwdPCs
      BY <2>1, FwdFields DEF FwdPCs
    <2>3. [f EXCEPT !.at = "remove"] \in FwdType
      BY <2>1, <2>2, FwdUpdates
    <2>4. fwd' \in [Run -> [Source -> FwdType]]
      BY <1>26, <2>3 DEF TrackRemoval, MoveFwd
    <2> QED BY <1>26, <2>4 DEF TrackRemoval
  <1>27. ASSUME NEW r \in Run, NEW s \in Source, RemoveOrphans(r, s)
        PROVE  TypeOK'
    <2> DEFINE f == fwd[r][s]
    <2>1. f \in FwdType OBVIOUS
    <2>2. "status" \in FwdPCs
      BY <2>1, FwdFields DEF FwdPCs
    <2>3. [f EXCEPT !.at = "status"] \in FwdType
      BY <2>1, <2>2, FwdUpdates
    <2>4. fwd' \in [Run -> [Source -> FwdType]]
      BY <1>27, <2>3 DEF RemoveOrphans, MoveFwd
    <2>5. errors' \in 0..MaxErrors BY <1>27 DEF RemoveOrphans, Error
    <2>6. db' \in [Source -> SUBSET Model] BY <1>27 DEF RemoveOrphans
    <2> QED BY <1>27, <2>4, <2>5, <2>6 DEF RemoveOrphans
  <1>28a. ASSUME NEW r \in Run, NEW s \in Source, CheckStatus(r, s)
        PROVE  TypeOK'
    <2> DEFINE f == fwd[r][s]
    <2>1. f \in FwdType OBVIOUS
    <2>2. "idle" \in FwdPCs /\ "save" \in FwdPCs /\ {} \in SUBSET Model
      BY DEF FwdPCs
    <2>3. /\ [f EXCEPT !.at = "idle", !.names = {}, !.failed = {}] \in FwdType
          /\ [f EXCEPT !.at = "save"] \in FwdType
      BY <2>1, <2>2, FwdUpdates
    <2>4. PICK g \in FwdType : fwd' = [fwd EXCEPT ![r][s] = g]
      <3>1. CASE r \in cancelled BY <1>28a, <2>3, <3>1 DEF CheckStatus, MoveFwd
      <3>2. CASE r \notin cancelled BY <1>28a, <2>3, <3>2 DEF CheckStatus, MoveFwd
      <3> QED BY <3>1, <3>2
    <2>5. fwd' \in [Run -> [Source -> FwdType]] BY <2>4
    <2> QED BY <1>28a, <2>5 DEF CheckStatus
  <1>28. ASSUME NEW r \in Run, NEW s \in Source, SaveStatus(r, s)
        PROVE  TypeOK'
    <2> DEFINE f == fwd[r][s]
    <2>1. f \in FwdType OBVIOUS
    <2>2. "idle" \in FwdPCs /\ {} \in SUBSET Model
      BY <2>1, FwdFields DEF FwdPCs
    <2>3. [f EXCEPT !.at = "idle", !.names = {}, !.failed = {}] \in FwdType
      BY <2>1, <2>2, FwdUpdates
    <2>4. fwd' \in [Run -> [Source -> FwdType]]
      BY <1>28, <2>3 DEF SaveStatus, MoveFwd
    <2>5. errors' \in 0..MaxErrors BY <1>28 DEF SaveStatus, SaveSourceStatus, Error
    <2>6. status' \in [Source -> Statuses]
      BY <1>28 DEF SaveStatus, SaveSourceStatus, StatusOf, Statuses
    <2> QED BY <1>28, <2>4, <2>5, <2>6 DEF SaveStatus
  <1>29. ASSUME NEW r \in Run, NEW s \in Source, ProviderStops(r, s)
        PROVE  TypeOK'
    <2>1. [NoFwd EXCEPT !.at = "closed"] \in FwdType
      BY DEF NoFwd, FwdType, FwdPCs
    <2>2. fwd' \in [Run -> [Source -> FwdType]]
      BY <1>29, <2>1 DEF ProviderStops, MoveFwd
    <2> QED BY <1>29, <2>2 DEF ProviderStops
  <1>30. ASSUME NEW r \in Run, CheckRecord(r) PROVE TypeOK'
    <2>1. /\ [writer[r] EXCEPT !.at = "save"] \in WriterType
          /\ [at |-> "done", rec |-> {}] \in WriterType
      BY DEF WriterType, WriterPCs
    <2>2. writer' \in [Run -> WriterType] BY <1>30, <2>1 DEF CheckRecord
    <2> QED BY <1>30, <2>2 DEF CheckRecord
  <1>31. ASSUME NEW r \in Run, SaveModel(r) PROVE TypeOK'
    <2>1. [at |-> "recv", rec |-> {}] \in WriterType BY DEF WriterType, WriterPCs
    <2>2. writer' \in [Run -> WriterType] BY <1>31, <2>1 DEF SaveModel
    <2>3. errors' \in 0..MaxErrors BY <1>31 DEF SaveModel, Error
    <2>4. db' \in [Source -> SUBSET Model]
      <3>1. \/ db' = db
            \/ db' = [s \in Source |-> db[s] \cup
                                        {m \in Model : <<s, m>> \in writer[r].rec}]
        BY <1>31, Zenon DEF SaveModel
      <3>2. \A s \in Source : db[s] \cup {m \in Model : <<s, m>> \in writer[r].rec}
                                  \in SUBSET Model
        OBVIOUS
      <3> QED BY <3>1, <3>2
    <2> QED BY <1>31, <2>2, <2>3, <2>4 DEF SaveModel
  <1>32. ASSUME NEW r \in Run, ChannelClosed(r) PROVE TypeOK'
    <2>1. [writer[r] EXCEPT !.at = "done"] \in WriterType
      BY DEF WriterType, WriterPCs
    <2>2. writer' \in [Run -> WriterType] BY <1>32, <2>1 DEF ChannelClosed
    <2> QED BY <1>32, <2>2 DEF ChannelClosed
  <1>33. CASE UNCHANGED vars
    BY <1>33 DEF vars
  <1> QED BY <1>1, <1>2, <1>3, <1>4, <1>5, <1>6, <1>7, <1>8, <1>9, <1>10,
             <1>11, <1>12, <1>13, <1>14, <1>15, <1>16, <1>17, <1>18, <1>19,
             <1>20, <1>21, <1>22, <1>23, <1>24, <1>25, <1>26, <1>27, <1>28a, <1>28,
             <1>29, <1>30, <1>31, <1>32, <1>33
          DEF Next, LeaderStep, WatchStep, Operate, Forward, Write

(* Every step keeps the runs in order and the earlier ones cancelled, and  *)
(* lets no writer of an earlier run past its check once a later run has    *)
(* drained.                                                                *)
LEMMA StepIInv == IInv /\ [Next]_vars => IInv'
  <1> SUFFICES ASSUME IInv, [Next]_vars
               PROVE  IInv'
    OBVIOUS
  <1>0. TypeOK'
    BY TypeStep DEF IInv
  <1> USE <1>0 DEF IInv, TypeOK, OneLiveRun, RunOrder, StaleChecked, Run,
                   MaxRuns, WriterType, files, lead, ops, ctxs, data
  <1>1. ASSUME NEW w \in Watcher, NEW s \in Source, NEW v \in Settings,
               EditConfig(w, s, v)
        PROVE  IInv'
    BY <1>1 DEF EditConfig, MayEdit
  <1>2. ASSUME NEW s \in Source, NEW d \in Contents, EditCatalog(s, d)
        PROVE  IInv'
    BY <1>2 DEF EditCatalog, MayEdit
  <1>3. CASE Elected
    BY <1>3 DEF Elected
  <1>4. CASE Deposed
    BY <1>4 DEF Deposed
  <1>5. CASE BeginTerm
    BY <1>5 DEF BeginTerm
  <1>6. CASE LeaderReady
    BY <1>6 DEF LeaderReady
  <1>7. CASE EndTerm
    BY <1>7 DEF EndTerm
  <1>8. CASE UnsetLeader
    BY <1>8 DEF UnsetLeader
  <1>9. CASE LeaderReadyFails
    BY <1>9 DEF LeaderReadyFails, GiveUpTerm, Error
  <1>10. ASSUME NEW w \in Watcher, TakeEvent(w) PROVE IInv'
    BY <1>10 DEF TakeEvent
  <1>11. ASSUME NEW w \in Watcher, ReloadParsing(w) PROVE IInv'
    BY <1>11 DEF ReloadParsing
  <1>12. ASSUME NEW w \in Watcher, ShouldWriteDatabase(w) PROVE IInv'
    BY <1>12 DEF ShouldWriteDatabase
  <1>13. ASSUME NEW w \in Watcher, ReloadFails(w) PROVE IInv'
    BY <1>13 DEF ReloadFails, Error
  <1>14. ASSUME NEW c \in Caller, SetCloser(c) PROVE IInv'
    <2>1. runs + 1 \in Run BY <1>14 DEF SetCloser
    <2>2. RunOrder' BY <1>14 DEF SetCloser
    <2>3. OneLiveRun'
      <3> SUFFICES ASSUME NEW r \in Run, r < runs + 1 PROVE r \in cancelled'
        BY <1>14 DEF SetCloser
      <3>1. CASE r = runs BY <1>14, <3>1 DEF SetCloser
      <3>2. CASE r < runs BY <1>14, <3>2 DEF SetCloser
      <3> QED BY <3>1, <3>2
    <2>4. StaleChecked' BY <1>14 DEF SetCloser
    <2> QED BY <2>2, <2>3, <2>4
  <1>15. ASSUME NEW c \in Caller, Drain(c) PROVE IInv'
    <2>1. ASSUME ~Timeouts, NEW r \in Run PROVE writer[r].at # "save"
      BY <1>15, <2>1 DEF Drain, WaitOver, Inflight, Busy
    <2>2. StaleChecked' BY <1>15, <2>1 DEF Drain
    <2> QED BY <1>15, <2>2 DEF Drain
  <1>16. ASSUME NEW c \in Caller, Cleanup(c) PROVE IInv'
    BY <1>16 DEF Cleanup, Forget, ForgetStatus, Error
  <1>17. ASSUME NEW c \in Caller, CleanupFails(c) PROVE IInv'
    BY <1>17 DEF CleanupFails, Forget, ForgetStatus, GiveUpTerm, Error
  <1>18. ASSUME NEW c \in Caller, LoadAllModels(c) PROVE IInv'
    BY <1>18 DEF LoadAllModels
  <1>19. ASSUME NEW c \in Caller, NEW s \in Source, NEW v \in Settings,
               ReadSource(c, s, v)
        PROVE  IInv'
    BY <1>19 DEF ReadSource, SaveSourceStatus, Error
  <1>20. ASSUME NEW c \in Caller, SpawnWriter(c) PROVE IInv'
    <2>1. /\ writer' = [writer EXCEPT ![run[c]].at = "recv"]
          /\ pc' = [pc EXCEPT ![c] = "settle"]
          /\ UNCHANGED <<runs, cancelled, closer, cleaned, run>>
      BY <1>20 DEF SpawnWriter
    <2>2. OneLiveRun' /\ RunOrder' BY <2>1
    <2>3. StaleChecked'
      <3>1. ASSUME NEW r \in Run, writer'[r].at = "save" PROVE writer[r].at = "save"
        <4>1. CASE r = run[c] BY <2>1, <3>1, <4>1
        <4>2. CASE r # run[c] BY <2>1, <3>1, <4>2
        <4> QED BY <4>1, <4>2
      <3>2. \A d \in Caller : pc'[d] = "cleanup" => pc[d] = "cleanup" BY <2>1
      <3>3. StaleChecked OBVIOUS
      <3> HIDE <1>0 DEF IInv, TypeOK
      <3> QED BY <2>1, <3>1, <3>2, <3>3
    <2> QED BY <2>2, <2>3
  <1>21. ASSUME NEW c \in Caller, Settle(c) PROVE IInv'
    BY <1>21 DEF Settle
  <1>22. ASSUME NEW r \in Run, NEW s \in Source, ProviderReads(r, s)
        PROVE  IInv'
    BY <1>22 DEF ProviderReads, MoveFwd
  <1>23. ASSUME NEW r \in Run, NEW s \in Source, NEW m \in Model,
               Emit(r, s, m)
        PROVE  IInv'
    BY <1>23 DEF Emit, MoveFwd
  <1>24. ASSUME NEW r \in Run, NEW s \in Source, Send(r, s) PROVE IInv'
    BY <1>24 DEF Send, MoveFwd
  <1>25. ASSUME NEW r \in Run, NEW s \in Source, EndBatch(r, s) PROVE IInv'
    BY <1>25 DEF EndBatch, MoveFwd
  <1>26. ASSUME NEW r \in Run, NEW s \in Source, TrackRemoval(r, s)
        PROVE  IInv'
    BY <1>26 DEF TrackRemoval, MoveFwd
  <1>27. ASSUME NEW r \in Run, NEW s \in Source, RemoveOrphans(r, s)
        PROVE  IInv'
    BY <1>27 DEF RemoveOrphans, MoveFwd, Error
  <1>28a. ASSUME NEW r \in Run, NEW s \in Source, CheckStatus(r, s)
        PROVE  IInv'
    BY <1>28a DEF CheckStatus, MoveFwd
  <1>28. ASSUME NEW r \in Run, NEW s \in Source, SaveStatus(r, s)
        PROVE  IInv'
    BY <1>28 DEF SaveStatus, MoveFwd, SaveSourceStatus, StatusOf, Error
  <1>29. ASSUME NEW r \in Run, NEW s \in Source, ProviderStops(r, s)
        PROVE  IInv'
    BY <1>29 DEF ProviderStops, MoveFwd, NoFwd
  <1>30. ASSUME NEW r \in Run, CheckRecord(r) PROVE IInv'
    <2>1. ASSUME NEW q \in Run, writer'[q].at = "save", q # r
          PROVE  writer[q].at = "save"
      BY <1>30, <2>1 DEF CheckRecord
    <2>2. ASSUME writer'[r].at = "save" PROVE runs <= r
      <3>1. r \notin cancelled BY <1>30, <2>2 DEF CheckRecord
      <3>2. r \in Nat /\ runs \in Nat BY DEF Run
      <3>3. r <= runs => r = runs BY <3>1 DEF OneLiveRun
      <3> QED BY <3>2, <3>3
    <2>3. StaleChecked' BY <1>30, <2>1, <2>2 DEF CheckRecord
    <2> QED BY <1>30, <2>3 DEF CheckRecord
  <1>31. ASSUME NEW r \in Run, SaveModel(r) PROVE IInv'
    <2>1. \A q \in Run : writer'[q].at = "save" => writer[q].at = "save"
      BY <1>31 DEF SaveModel
    <2>2. UNCHANGED <<pc, run, runs, closer, cancelled, cleaned>>
      BY <1>31 DEF SaveModel
    <2>3. StaleChecked' BY <2>1, <2>2
    <2>4. OneLiveRun' /\ RunOrder' BY <2>2
    <2> QED BY <2>3, <2>4
  <1>32. ASSUME NEW r \in Run, ChannelClosed(r) PROVE IInv'
    <2>1. \A q \in Run : writer'[q].at = "save" => writer[q].at = "save"
      BY <1>32 DEF ChannelClosed
    <2>2. UNCHANGED <<pc, run, runs, closer, cancelled, cleaned>>
      BY <1>32 DEF ChannelClosed
    <2>3. StaleChecked' BY <2>1, <2>2
    <2>4. OneLiveRun' /\ RunOrder' BY <2>2
    <2> QED BY <2>3, <2>4
  <1>33. CASE UNCHANGED vars
    BY <1>33 DEF vars
  <1> QED BY <1>1, <1>2, <1>3, <1>4, <1>5, <1>6, <1>7, <1>8, <1>9, <1>10,
             <1>11, <1>12, <1>13, <1>14, <1>15, <1>16, <1>17, <1>18, <1>19,
             <1>20, <1>21, <1>22, <1>23, <1>24, <1>25, <1>26, <1>27, <1>28a, <1>28,
             <1>29, <1>30, <1>31, <1>32, <1>33
          DEF Next, LeaderStep, WatchStep, Operate, Forward, Write

(* The initial states satisfy the inductive invariant. *)
LEMMA InitIInv == Init => IInv
  <1> SUFFICES ASSUME Init PROVE IInv
    OBVIOUS
  <1> USE DEF Init
  <1>1. TypeOK
    <2>1. NoFwd \in FwdType /\ NoWriter \in WriterType
      BY DEF NoFwd, NoWriter, FwdType, WriterType, FwdPCs, WriterPCs
    <2>2. /\ fwd \in [Run -> [Source -> FwdType]]
          /\ writer \in [Run -> WriterType]
      BY <2>1
    <2>3. token \in [Watcher -> BOOLEAN] OBVIOUS
    <2>4. db \in [Source -> SUBSET Model] OBVIOUS
    <2>5. /\ pc \in [Caller -> CallerPCs]
          /\ todo \in [Caller -> SUBSET (Source \X Settings)]
          /\ status \in [Source -> Statuses]
      BY DEF CallerPCs, Statuses
    <2>6. 0 \in 0..MaxRuns /\ run \in [Caller -> 0..MaxRuns] BY DEF MaxRuns
    <2>7. byLeader \subseteq Run /\ cancelled \subseteq Run /\ loaded \subseteq Source
      OBVIOUS
    <2>8. healthy \in BOOLEAN /\ isLeader \in BOOLEAN OBVIOUS
    <2> QED BY <2>2, <2>3, <2>4, <2>5, <2>6, <2>7, <2>8 DEF TypeOK
  <1>2. OneLiveRun BY DEF OneLiveRun, Run
  <1>3. RunOrder BY DEF RunOrder
  <1>4. StaleChecked BY DEF StaleChecked, NoWriter
  <1> QED BY <1>1, <1>2, <1>3, <1>4 DEF IInv

(* IInv holds in every state of every behaviour. *)
LEMMA Inductive == Spec => []IInv
  BY InitIInv, StepIInv, PTL DEF Spec

(* Plugin, loader, forwarders and writers keep every variable in its type. *)
THEOREM TypeCorrect == Spec => []TypeOK
  <1>1. IInv => TypeOK BY DEF IInv
  <1> QED BY <1>1, Inductive, PTL

(* setCloser preempts: however the leader callback and the watchers        *)
(* overlap, every run but the latest is cancelled.                         *)
THEOREM Preemption == Spec => []OneLiveRun
  <1>1. IInv => OneLiveRun BY DEF IInv
  <1> QED BY <1>1, Inductive, PTL

(* As long as the drain does not time out with writes going, no save of an *)
(* earlier run follows the cleanup of a later one.                         *)
THEOREM CleanupIsFinal ==
  ASSUME ~Timeouts
  PROVE  Spec => NoStaleInsert
  <1>1. IInv /\ [Next]_vars =>
          [\A r \in Run : (writer[r].at = "save" /\ db' # db /\ SaveModel(r))
                              => cleaned <= r]_vars
    BY DEF IInv, StaleChecked
  <1> QED BY <1>1, Inductive, PTL DEF Spec, NoStaleInsert

(* Where the other forwarders are is not touched by a start. *)
LEMMA StartedFwd ==
  ASSUME NEW F \in [Run -> [Source -> FwdType]], NEW r \in Run,
         NEW s \in Source, NEW q \in Run, NEW t \in Source
  PROVE  [F EXCEPT ![r][s].at = "read"][q][t].at =
           IF q = r /\ t = s THEN "read" ELSE F[q][t].at
  <1>1. F[r] \in [Source -> FwdType] /\ F[q] \in [Source -> FwdType] OBVIOUS
  <1>2. [F[r][s] EXCEPT !.at = "read"].at = "read" BY DEF FwdType
  <1> QED BY <1>1, <1>2

(* Nor is any by an event. *)
LEMMA WokenFwd ==
  ASSUME NEW g \in [Source -> FwdType], NEW s \in Source, NEW t \in Source
  PROVE  [g EXCEPT ![s].event = TRUE][t].at = g[t].at
  <1>1. [g[s] EXCEPT !.event = TRUE].at = g[s].at BY DEF FwdType
  <1> QED BY <1>1

(* An edit of a catalog moves no forwarder. *)
LEMMA EditCatalogAt ==
  ASSUME TypeOK, NEW s \in Source, NEW d \in Contents, EditCatalog(s, d)
  PROVE  \A r \in Run, q \in Source : fwd'[r][q].at = fwd[r][q].at
  <1> SUFFICES ASSUME NEW r \in Run, NEW q \in Source
               PROVE  fwd'[r][q].at = fwd[r][q].at
    OBVIOUS
  <1>1. fwd[r] \in [Source -> FwdType] BY DEF TypeOK
  <1>2. fwd'[r] = fwd[r] \/ fwd'[r] = [fwd[r] EXCEPT ![s].event = TRUE]
    BY DEF EditCatalog
  <1>3. [fwd[r] EXCEPT ![s].event = TRUE][q].at = fwd[r][q].at
    BY <1>1, WokenFwd
  <1> QED BY <1>2, <1>3

(* A caller that reads its sources starts forwarders of its own run only. *)
LEMMA ReadSourceAt ==
  ASSUME TypeOK, NEW c \in Caller, NEW s \in Source, NEW v \in Settings,
         ReadSource(c, s, v), run[c] \in Run
  PROVE  \A r \in Run, q \in Source :
            \/ fwd'[r][q].at = fwd[r][q].at
            \/ r = run[c] /\ fwd'[r][q].at = "read"
  <1> SUFFICES ASSUME NEW r \in Run, NEW q \in Source
               PROVE  \/ fwd'[r][q].at = fwd[r][q].at
                      \/ r = run[c] /\ fwd'[r][q].at = "read"
    OBVIOUS
  <1>1. fwd \in [Run -> [Source -> FwdType]] BY DEF TypeOK
  <1>2. fwd' = fwd \/ fwd' = [fwd EXCEPT ![run[c]][s].at = "read"]
    BY DEF ReadSource
  <1>3. [fwd EXCEPT ![run[c]][s].at = "read"][r][q].at =
           IF r = run[c] /\ q = s THEN "read" ELSE fwd[r][q].at
    BY <1>1, StartedFwd
  <1> QED BY <1>2, <1>3

(* Every step keeps the leader flag in the callback and the goroutines of  *)
(* a run with the run.                                                     *)
LEMMA OwnershipStep == IInv /\ RunOwnership /\ [Next]_vars => RunOwnership'
  <1> SUFFICES ASSUME IInv, RunOwnership, [Next]_vars
               PROVE  RunOwnership'
    OBVIOUS
  <1>0. TypeOK /\ TypeOK'
    BY TypeStep DEF IInv
  <1> USE <1>0, Callers, WatcherAssumption
      DEF IInv, TypeOK, RunOwnership, FlagInCallback, LoadersOwnRuns,
          FutureRunsIdle, ClosedIsCancelled, Loading, Run, MaxRuns,
          WriterType, FwdType, files, lead, ops, ctxs, data
  <1>1. ASSUME NEW w \in Watcher, NEW s \in Source, NEW v \in Settings,
               EditConfig(w, s, v)
        PROVE  RunOwnership'
    BY <1>1 DEF EditConfig
  <1>2. ASSUME NEW s \in Source, NEW d \in Contents, EditCatalog(s, d)
        PROVE  RunOwnership'
    <2>1. \A r \in Run, q \in Source : fwd'[r][q].at = fwd[r][q].at
      BY <1>2, EditCatalogAt
    <2>2. UNCHANGED <<isLeader, pc, run, writer, runs, cancelled>>
      BY <1>2 DEF EditCatalog
    <2> QED BY <2>1, <2>2
  <1>3. CASE Elected
    BY <1>3 DEF Elected
  <1>4. CASE Deposed
    BY <1>4 DEF Deposed
  <1>5. CASE BeginTerm
    BY <1>5 DEF BeginTerm
  <1>6. CASE LeaderReady
    BY <1>6 DEF LeaderReady
  <1>7. CASE EndTerm
    BY <1>7 DEF EndTerm
  <1>8. CASE UnsetLeader
    BY <1>8 DEF UnsetLeader
  <1>9. CASE LeaderReadyFails
    BY <1>9 DEF LeaderReadyFails, GiveUpTerm
  <1>10. ASSUME NEW w \in Watcher, TakeEvent(w) PROVE RunOwnership'
    BY <1>10 DEF TakeEvent
  <1>11. ASSUME NEW w \in Watcher, ReloadParsing(w) PROVE RunOwnership'
    BY <1>11 DEF ReloadParsing
  <1>12. ASSUME NEW w \in Watcher, ShouldWriteDatabase(w) PROVE RunOwnership'
    BY <1>12 DEF ShouldWriteDatabase
  <1>13. ASSUME NEW w \in Watcher, ReloadFails(w) PROVE RunOwnership'
    BY <1>13 DEF ReloadFails
  <1>14. ASSUME NEW c \in Caller, SetCloser(c) PROVE RunOwnership'
    <2>1. /\ pc' = [pc EXCEPT ![c] = "drain"] /\ pc[c] = "closer"
          /\ run' = [run EXCEPT ![c] = runs + 1]
          /\ runs' = runs + 1 /\ runs + 1 \in Run
          /\ cancelled \subseteq cancelled'
          /\ UNCHANGED <<isLeader, fwd, writer>>
      BY <1>14 DEF SetCloser
    <2>2. FlagInCallback' BY <2>1
    <2>3. FutureRunsIdle' BY <2>1
    <2>4. ClosedIsCancelled' BY <2>1
    <2>5. writer[runs + 1].at = "none" BY <2>1
    <2>6. \A d \in Caller : run[d] # runs + 1 BY DEF RunOrder
    <2>7. LoadersOwnRuns' BY <2>1, <2>5, <2>6
    <2> QED BY <2>2, <2>3, <2>4, <2>7
  <1>15. ASSUME NEW c \in Caller, Drain(c) PROVE RunOwnership'
    BY <1>15 DEF Drain
  <1>16. ASSUME NEW c \in Caller, Cleanup(c) PROVE RunOwnership'
    BY <1>16 DEF Cleanup
  <1>17. ASSUME NEW c \in Caller, CleanupFails(c) PROVE RunOwnership'
    BY <1>17 DEF CleanupFails, GiveUpTerm
  <1>18. ASSUME NEW c \in Caller, LoadAllModels(c) PROVE RunOwnership'
    BY <1>18 DEF LoadAllModels
  <1>19. ASSUME NEW c \in Caller, NEW s \in Source, NEW v \in Settings,
                ReadSource(c, s, v)
         PROVE  RunOwnership'
    <2>1. UNCHANGED <<isLeader, pc, run, writer, runs, cancelled>> /\ pc[c] = "read"
      BY <1>19 DEF ReadSource
    <2>2. run[c] \in Run /\ run[c] <= runs
      BY <2>1 DEF RunOrder
    <2>3. \A r \in Run, q \in Source :
             \/ fwd'[r][q].at = fwd[r][q].at
             \/ r = run[c] /\ fwd'[r][q].at = "read"
      BY <1>19, <2>2, ReadSourceAt
    <2>4. ASSUME NEW r \in Run, r > runs
          PROVE  writer[r].at = "none" /\ \A q \in Source : fwd'[r][q].at = "none"
      <3>1. r # run[c] BY <2>2, <2>4
      <3>2. writer[r].at = "none" /\ \A q \in Source : fwd[r][q].at = "none"
        BY <2>4
      <3> HIDE <1>0 DEF IInv, RunOwnership
      <3> QED BY <2>3, <3>1, <3>2
    <2>5. ClosedIsCancelled'
      <3>1. \A r \in Run, q \in Source : fwd[r][q].at = "closed" => r \in cancelled
        OBVIOUS
      <3> HIDE <1>0 DEF IInv, RunOwnership
      <3> QED BY <2>1, <2>3, <3>1
    <2>6. FlagInCallback' /\ LoadersOwnRuns' BY <2>1
    <2>7. FutureRunsIdle' BY <2>1, <2>4
    <2> QED BY <2>5, <2>6, <2>7
  <1>20. ASSUME NEW c \in Caller, SpawnWriter(c) PROVE RunOwnership'
    <2>1. /\ pc' = [pc EXCEPT ![c] = "settle"] /\ pc[c] = "read"
          /\ writer' = [writer EXCEPT ![run[c]].at = "recv"]
          /\ UNCHANGED <<isLeader, run, fwd, runs, cancelled>>
      BY <1>20 DEF SpawnWriter
    <2>2. run[c] \in Run /\ run[c] <= runs
      BY <2>1 DEF RunOrder
    <2>3. \A r \in Run : r # run[c] => writer'[r] = writer[r]
      BY <2>1, <2>2
    <2>4. FutureRunsIdle'
      <3> SUFFICES ASSUME NEW r \in Run, r > runs
                   PROVE  writer'[r].at = "none" /\ \A s \in Source : fwd[r][s].at = "none"
        BY <2>1
      <3>1. r # run[c] BY <2>2
      <3>2. writer[r].at = "none" /\ \A s \in Source : fwd[r][s].at = "none" OBVIOUS
      <3> HIDE <1>0 DEF IInv, RunOwnership
      <3> QED BY <2>3, <3>1, <3>2
    <2>5. LoadersOwnRuns'
      <3>1. ASSUME NEW d \in Caller, pc'[d] \in Loading
            PROVE  /\ run[d] \in Run /\ writer'[run[d]].at = "none"
                   /\ \A e \in Caller :
                         pc'[e] \in Loading /\ run[e] = run[d] => e = d
        <4>1. d # c /\ pc[d] = pc'[d] BY <2>1, <3>1
        <4>2. LoadersOwnRuns OBVIOUS
        <4>3. c \in Caller /\ pc[c] \in Loading /\ pc[d] \in Loading
          BY <2>1, <3>1, <4>1 DEF Loading
        <4>4. ASSUME NEW e \in Caller, pc'[e] \in Loading PROVE pc[e] \in Loading
          BY <2>1, <4>3, <4>4
        <4> HIDE <1>0 DEF IInv, RunOwnership, Loading
        <4>5. run[d] # run[c] /\ run[d] \in Run /\ writer[run[d]].at = "none"
          BY <4>1, <4>2, <4>3 DEF LoadersOwnRuns
        <4> QED BY <2>3, <4>2, <4>3, <4>4, <4>5 DEF LoadersOwnRuns
      <3> HIDE <1>0 DEF IInv, RunOwnership, Loading
      <3>2. UNCHANGED run BY <2>1
      <3> QED BY <3>1, <3>2 DEF LoadersOwnRuns
    <2>6. FlagInCallback' /\ ClosedIsCancelled' BY <2>1
    <2> QED BY <2>4, <2>5, <2>6
  <1>21. ASSUME NEW c \in Caller, Settle(c) PROVE RunOwnership'
    BY <1>21 DEF Settle
  <1>22. ASSUME NEW r \in Run, NEW s \in Source, ProviderReads(r, s)
         PROVE  RunOwnership'
    BY <1>22 DEF ProviderReads, MoveFwd
  <1>23. ASSUME NEW r \in Run, NEW s \in Source, NEW m \in Model, Emit(r, s, m)
         PROVE  RunOwnership'
    BY <1>23 DEF Emit, MoveFwd
  <1>24. ASSUME NEW r \in Run, NEW s \in Source, Send(r, s) PROVE RunOwnership'
    BY <1>24 DEF Send, MoveFwd
  <1>25. ASSUME NEW r \in Run, NEW s \in Source, EndBatch(r, s) PROVE RunOwnership'
    BY <1>25 DEF EndBatch, MoveFwd
  <1>26. ASSUME NEW r \in Run, NEW s \in Source, TrackRemoval(r, s)
         PROVE  RunOwnership'
    BY <1>26 DEF TrackRemoval, MoveFwd
  <1>27. ASSUME NEW r \in Run, NEW s \in Source, RemoveOrphans(r, s)
         PROVE  RunOwnership'
    BY <1>27 DEF RemoveOrphans, MoveFwd
  <1>28a. ASSUME NEW r \in Run, NEW s \in Source, CheckStatus(r, s)
         PROVE  RunOwnership'
    <2>0. fwd[r][s].at = "status" /\ UNCHANGED <<isLeader, pc, run, writer, runs, cancelled>>
      BY <1>28a DEF CheckStatus
    <2> DEFINE f == fwd[r][s]
               forgot == [f EXCEPT !.at = "idle", !.names = {}, !.failed = {}]
               checked == [f EXCEPT !.at = "save"]
    <2>a. forgot.at = "idle" /\ checked.at = "save"
      OBVIOUS
    <2>b. fwd' = [fwd EXCEPT ![r][s] = forgot] \/ fwd' = [fwd EXCEPT ![r][s] = checked]
      BY <1>28a, Zenon DEF CheckStatus, MoveFwd
    <2> HIDE DEF forgot, checked
    <2>1. PICK g : fwd' = [fwd EXCEPT ![r][s] = g] /\ g.at \in {"idle", "save"}
      BY <2>a, <2>b
    <2>2. \A q \in Run, t \in Source :
             fwd'[q][t].at = fwd[q][t].at \/ (q = r /\ fwd'[q][t].at \in {"idle", "save"})
      BY <2>1
    <2>3. ~(r > runs) BY <2>0
    <2>4. FlagInCallback' /\ LoadersOwnRuns' BY <2>0
    <2>5. FutureRunsIdle'
      <3> SUFFICES ASSUME NEW q \in Run, q > runs
                   PROVE  writer'[q].at = "none" /\ \A t \in Source : fwd'[q][t].at = "none"
        BY <2>0
      <3>1. writer[q].at = "none" /\ \A t \in Source : fwd[q][t].at = "none" OBVIOUS
      <3>2. q # r BY <2>3
      <3> QED BY <2>0, <2>2, <3>1, <3>2
    <2>6. ClosedIsCancelled'
      <3> SUFFICES ASSUME NEW q \in Run, NEW t \in Source, fwd'[q][t].at = "closed"
                   PROVE  q \in cancelled
        BY <2>0
      <3>1. fwd[q][t].at = "closed" BY <2>2
      <3> QED BY <3>1
    <2> QED BY <2>4, <2>5, <2>6
  <1>28. ASSUME NEW r \in Run, NEW s \in Source, SaveStatus(r, s)
         PROVE  RunOwnership'
    BY <1>28 DEF SaveStatus, MoveFwd
  <1>29. ASSUME NEW r \in Run, NEW s \in Source, ProviderStops(r, s)
         PROVE  RunOwnership'
    BY <1>29 DEF ProviderStops, MoveFwd, NoFwd
  <1>30. ASSUME NEW r \in Run, CheckRecord(r) PROVE RunOwnership'
    BY <1>30 DEF CheckRecord
  <1>31. ASSUME NEW r \in Run, SaveModel(r) PROVE RunOwnership'
    <2>1. /\ UNCHANGED <<isLeader, pc, run, fwd, runs, cancelled>>
          /\ writer[r].at = "save"
          /\ \A q \in Run : q # r => writer'[q] = writer[q]
      BY <1>31 DEF SaveModel
    <2>2. FlagInCallback' /\ ClosedIsCancelled' BY <2>1
    <2>3. LoadersOwnRuns'
      <3>1. LoadersOwnRuns OBVIOUS
      <3> HIDE <1>0 DEF IInv, RunOwnership, Loading
      <3> QED BY <2>1, <3>1 DEF LoadersOwnRuns
    <2>4. FutureRunsIdle'
      <3>1. FutureRunsIdle OBVIOUS
      <3> HIDE <1>0 DEF IInv, RunOwnership
      <3> QED BY <2>1, <3>1 DEF FutureRunsIdle
    <2> QED BY <2>2, <2>3, <2>4
  <1>32. ASSUME NEW r \in Run, ChannelClosed(r) PROVE RunOwnership'
    BY <1>32 DEF ChannelClosed
  <1>33. CASE UNCHANGED vars
    BY <1>33 DEF vars
  <1> QED BY <1>1, <1>2, <1>3, <1>4, <1>5, <1>6, <1>7, <1>8, <1>9, <1>10,
             <1>11, <1>12, <1>13, <1>14, <1>15, <1>16, <1>17, <1>18, <1>19,
             <1>20, <1>21, <1>22, <1>23, <1>24, <1>25, <1>26, <1>27, <1>28a, <1>28,
             <1>29, <1>30, <1>31, <1>32, <1>33
          DEF Next, LeaderStep, WatchStep, Operate, Forward, Write

(* The initial states satisfy the ownership invariant. *)
LEMMA InitOwnership == Init => RunOwnership
  BY Callers DEF Init, RunOwnership, FlagInCallback, LoadersOwnRuns, FutureRunsIdle,
     ClosedIsCancelled, Loading, NoFwd, NoWriter

(* The ownership invariant holds in every state. *)
LEMMA Ownership == Spec => [](IInv /\ RunOwnership)
  <1>1. Init => IInv /\ RunOwnership BY InitIInv, InitOwnership
  <1>2. IInv /\ RunOwnership /\ [Next]_vars => (IInv /\ RunOwnership)'
    BY StepIInv, OwnershipStep
  <1> QED BY <1>1, <1>2, PTL DEF Spec

(* A forwarder that steps has been started; it moves no other forwarder,   *)
(* and no writer but the one that waits for its record.                    *)
LEMMA ForwardFrame ==
  ASSUME TypeOK, NEW r \in Run, NEW s \in Source, Forward(r, s)
  PROVE  /\ fwd[r][s].at # "none"
         /\ \A q \in Run, t \in Source :
               q # r \/ t # s => fwd'[q][t] = fwd[q][t]
         /\ UNCHANGED <<isLeader, pc, cancelled, runs>>
         /\ \A q \in Run :
               \/ writer'[q] = writer[q]
               \/ writer[q].at = "recv" /\ writer'[q].at = "got"
  <1>1. fwd[r][s].at # "none"
    BY DEF Forward, ProviderReads, Emit, Send, EndBatch, TrackRemoval,
       RemoveOrphans,
           CheckStatus, SaveStatus, ProviderStops
  <1>2. \E f : MoveFwd(r, s, f)
    BY DEF Forward, ProviderReads, Emit, Send, EndBatch, TrackRemoval,
       RemoveOrphans,
           CheckStatus, SaveStatus, ProviderStops
  <1>3. \A q \in Run, t \in Source : q # r \/ t # s => fwd'[q][t] = fwd[q][t]
    <2>1. fwd \in [Run -> [Source -> FwdType]] BY DEF TypeOK
    <2>2. PICK f : fwd' = [fwd EXCEPT ![r][s] = f] BY <1>2 DEF MoveFwd
    <2>3. fwd[r] \in [Source -> FwdType] BY <2>1
    <2>4. fwd' = [fwd EXCEPT ![r] = [fwd[r] EXCEPT ![s] = f]] BY <2>2
    <2> QED BY <2>1, <2>3, <2>4
  <1>4. UNCHANGED <<isLeader, pc, cancelled, runs>>
    BY DEF Forward, ProviderReads, Emit, Send, EndBatch, TrackRemoval,
       RemoveOrphans,
           CheckStatus, SaveStatus, ProviderStops, lead, ops, ctxs
  <1>5. ASSUME NEW q \in Run
        PROVE  \/ writer'[q] = writer[q]
               \/ writer[q].at = "recv" /\ writer'[q].at = "got"
    <2>1. CASE Send(r, s)
      BY <2>1 DEF Send, TypeOK
    <2>2. CASE UNCHANGED writer
      BY <2>2
    <2> QED BY <2>1, <2>2 DEF Forward, ProviderReads, Emit, EndBatch, TrackRemoval,
               RemoveOrphans, CheckStatus, SaveStatus, ProviderStops
  <1> QED BY <1>1, <1>3, <1>4, <1>5

(* Only a spawn, a send and the writer itself move a writer. *)
LEMMA WriterFrame ==
  ASSUME Next
  PROVE  \/ UNCHANGED writer
         \/ \E c \in Caller : SpawnWriter(c)
         \/ \E r \in Run : Write(r) \/ \E s \in Source : Forward(r, s)
  <1>1. ASSUME NEW s \in Source, NEW w \in Watcher, NEW v \in Settings,
               EditConfig(w, s, v)
        PROVE  UNCHANGED writer
    BY <1>1 DEF EditConfig
  <1>2. ASSUME NEW s \in Source, NEW d \in Contents, EditCatalog(s, d)
        PROVE  UNCHANGED writer
    BY <1>2 DEF EditCatalog
  <1>3. ASSUME Elected \/ Deposed \/ LeaderStep \/ LeaderReadyFails
        PROVE  UNCHANGED writer
    BY <1>3 DEF Elected, Deposed, LeaderStep, BeginTerm, LeaderReady, EndTerm,
                UnsetLeader, LeaderReadyFails
  <1>4. ASSUME NEW w \in Watcher, WatchStep(w) \/ ReloadFails(w)
        PROVE  UNCHANGED writer
    BY <1>4 DEF WatchStep, TakeEvent, ReloadParsing, ShouldWriteDatabase,
       ReloadFails
  <1>5. ASSUME NEW c \in Caller, Operate(c) \/ CleanupFails(c), ~SpawnWriter(c)
        PROVE  UNCHANGED writer
    BY <1>5 DEF Operate, SetCloser, Drain, Cleanup, CleanupFails, LoadAllModels,
                ReadSource, Settle
  <1> QED BY <1>1, <1>2, <1>3, <1>4, <1>5 DEF Next

(* A record passes the check only in the current run and in the callback. *)
THEOREM CheckedInTerm == Spec => ChecksWithinTerm
  <1>1. IInv /\ RunOwnership /\ [Next]_vars =>
          [\A r \in Run : writer[r].at # "save" /\ writer'[r].at = "save" =>
              /\ pc[Leader] \notin {"idle", "begin"}
              /\ r = runs]_vars
    <2> SUFFICES ASSUME IInv, RunOwnership, Next,
                        NEW q \in Run, writer[q].at # "save", writer'[q].at = "save"
                 PROVE  pc[Leader] \notin {"idle", "begin"} /\ q = runs
      OBVIOUS
    <2> USE DEF IInv, TypeOK, WriterType
    <2>1. CheckRecord(q)
      <3>1. ASSUME NEW c \in Caller, SpawnWriter(c) PROVE FALSE
        BY <3>1 DEF SpawnWriter
      <3>2. ASSUME NEW r \in Run, NEW s \in Source, Forward(r, s) PROVE FALSE
        BY <3>2, ForwardFrame
      <3>3. ASSUME NEW r \in Run, SaveModel(r) \/ ChannelClosed(r) PROVE FALSE
        BY <3>3 DEF SaveModel, ChannelClosed
      <3>4. ASSUME NEW r \in Run, CheckRecord(r), r # q PROVE FALSE
        BY <3>4 DEF CheckRecord
      <3>5. writer' # writer OBVIOUS
      <3> HIDE DEF IInv, TypeOK, WriterType
      <3> QED BY <3>1, <3>2, <3>3, <3>4, <3>5, WriterFrame DEF Write
    <2>2. isLeader /\ q \notin cancelled /\ writer[q].at = "got"
      BY <2>1 DEF CheckRecord
    <2>3. q <= runs
      BY <2>2 DEF RunOwnership, FutureRunsIdle, Run, MaxRuns
    <2> QED BY <2>2, <2>3 DEF OneLiveRun, RunOwnership, FlagInCallback
  <1> QED BY <1>1, Ownership, PTL DEF Spec, ChecksWithinTerm

(* Every step leaves the forwarders of the live run with a writer. *)
LEMMA NotAbandonedStep ==
  IInv /\ RunOwnership /\ NotAbandoned /\ [Next]_vars => NotAbandoned'
  <1> SUFFICES ASSUME IInv, RunOwnership, NotAbandoned, [Next]_vars
               PROVE  NotAbandoned'
    OBVIOUS
  <1>0. TypeOK /\ TypeOK'
    BY TypeStep DEF IInv
  <1> USE <1>0, Callers, WatcherAssumption DEF IInv, TypeOK, NotAbandoned,
      WriterType, FwdType, files, lead,
          ops, ctxs, data
  <1>1. ASSUME NEW w \in Watcher, NEW s \in Source, NEW v \in Settings,
               EditConfig(w, s, v)
        PROVE  NotAbandoned'
    BY <1>1 DEF EditConfig
  <1>2. ASSUME NEW s \in Source, NEW d \in Contents, EditCatalog(s, d)
        PROVE  NotAbandoned'
    <2>1. \A r \in Run, q \in Source : fwd'[r][q].at = fwd[r][q].at
      BY <1>2, EditCatalogAt
    <2>2. UNCHANGED <<isLeader, pc, writer, cancelled>>
      BY <1>2 DEF EditCatalog
    <2> HIDE <1>0 DEF IInv, TypeOK
    <2> QED BY <2>1, <2>2
  <1>3. CASE Elected
    BY <1>3 DEF Elected
  <1>4. CASE Deposed
    BY <1>4 DEF Deposed
  <1>5. CASE BeginTerm
    BY <1>5 DEF BeginTerm
  <1>6. CASE LeaderReady
    BY <1>6 DEF LeaderReady
  <1>7. CASE EndTerm
    BY <1>7 DEF EndTerm
  <1>8. CASE UnsetLeader
    BY <1>8 DEF UnsetLeader
  <1>9. CASE LeaderReadyFails
    BY <1>9 DEF LeaderReadyFails, GiveUpTerm
  <1>10. ASSUME NEW w \in Watcher, WatchStep(w) \/ ReloadFails(w)
        PROVE  NotAbandoned'
    <2>1. /\ UNCHANGED <<isLeader, writer, fwd, cancelled>>
          /\ \A c \in Caller : c # w => pc'[c] = pc[c]
      BY <1>10 DEF WatchStep, TakeEvent, ReloadParsing, ShouldWriteDatabase,
                  ReloadFails
    <2>2. Leader \in Caller /\ Leader # w OBVIOUS
    <2> HIDE <1>0 DEF IInv, TypeOK
    <2> QED BY <2>1, <2>2
  <1>11. ASSUME NEW c \in Caller, SetCloser(c)
        PROVE  NotAbandoned'
    <2>1. cancelled \subseteq cancelled' /\ UNCHANGED <<fwd, writer, isLeader>>
      BY <1>11 DEF SetCloser
    <2>2. CASE pc[Leader] = pc'[Leader]
      BY <2>1, <2>2
    <2>3. CASE c = Leader
      <3>1. OneLiveRun' BY StepIInv
      <3>2. ASSUME NEW r \in Run, r \notin cancelled' PROVE r > runs
        BY <1>11, <3>1, <3>2 DEF OneLiveRun, SetCloser, Run, MaxRuns
      <3>3. ASSUME NEW r \in Run, r \notin cancelled' PROVE writer[r].at = "none"
        BY <3>2, <3>3 DEF RunOwnership, FutureRunsIdle
      <3> QED BY <2>1, <3>3
    <2> QED BY <1>11, <2>2, <2>3 DEF SetCloser
  <1>12. ASSUME NEW c \in Caller, Drain(c)
        PROVE  NotAbandoned'
    BY <1>12 DEF Drain
  <1>13. ASSUME NEW c \in Caller, Cleanup(c)
        PROVE  NotAbandoned'
    BY <1>13 DEF Cleanup
  <1>14. ASSUME NEW c \in Caller, CleanupFails(c)
        PROVE  NotAbandoned'
    BY <1>14 DEF CleanupFails, GiveUpTerm
  <1>15. ASSUME NEW c \in Caller, LoadAllModels(c)
        PROVE  NotAbandoned'
    BY <1>15 DEF LoadAllModels
  <1>16. ASSUME NEW c \in Caller, NEW s \in Source, NEW v \in Settings,
               ReadSource(c, s, v)
        PROVE  NotAbandoned'
    <2>1. pc[c] = "read" /\ UNCHANGED <<isLeader, pc, writer, cancelled>>
      BY <1>16 DEF ReadSource
    <2>2. run[c] \in Run /\ writer[run[c]].at = "none"
      BY <2>1 DEF RunOwnership, LoadersOwnRuns, Loading
    <2>3. \A r \in Run, q \in Source :
             \/ fwd'[r][q].at = fwd[r][q].at
             \/ r = run[c] /\ fwd'[r][q].at = "read"
      BY <1>16, <2>2, ReadSourceAt
    <2> HIDE <1>0 DEF IInv
    <2> QED BY <2>1, <2>2, <2>3
  <1>17. ASSUME NEW c \in Caller, SpawnWriter(c)
        PROVE  NotAbandoned'
    BY <1>17 DEF SpawnWriter
  <1>18. ASSUME NEW c \in Caller, Settle(c)
        PROVE  NotAbandoned'
    BY <1>18 DEF Settle
  <1>19. ASSUME NEW r \in Run, NEW s \in Source, Forward(r, s)
        PROVE  NotAbandoned'
    <2>1. /\ fwd[r][s].at # "none"
          /\ \A q \in Run, u \in Source :
                q # r \/ u # s => fwd'[q][u] = fwd[q][u]
          /\ UNCHANGED <<isLeader, pc, cancelled>>
          /\ \A q \in Run :
                \/ writer'[q] = writer[q]
                \/ writer[q].at = "recv" /\ writer'[q].at = "got"
      BY <1>19, ForwardFrame
    <2> HIDE <1>0 DEF IInv
    <2> QED BY <2>1
  <1>20. ASSUME NEW r \in Run, CheckRecord(r)
        PROVE  NotAbandoned'
    BY <1>20 DEF CheckRecord
  <1>21. ASSUME NEW r \in Run, SaveModel(r)
        PROVE  NotAbandoned'
    BY <1>21 DEF SaveModel
  <1>22. ASSUME NEW r \in Run, ChannelClosed(r)
        PROVE  NotAbandoned'
    <2>1. /\ UNCHANGED <<isLeader, pc, cancelled, fwd>>
          /\ \A q \in Run : q # r => writer'[q] = writer[q]
          /\ \A s \in Source : fwd[r][s].at \in {"none", "closed"}
      BY <1>22 DEF ChannelClosed
    <2>2. r \in cancelled \/ \A s \in Source : fwd[r][s].at = "none"
      BY <2>1 DEF RunOwnership, ClosedIsCancelled
    <2> HIDE <1>0 DEF IInv
    <2> QED BY <2>1, <2>2
  <1>23. CASE UNCHANGED vars
    BY <1>23 DEF vars
  <1> QED BY <1>1, <1>2, <1>3, <1>4, <1>5, <1>6, <1>7, <1>8, <1>9, <1>10,
             <1>11, <1>12, <1>13, <1>14, <1>15, <1>16, <1>17, <1>18, <1>19,
             <1>20, <1>21, <1>22, <1>23
          DEF Next, LeaderStep, Operate, Write

(* A leader's live run has its writer as long as it has forwarders: no     *)
(* send on the unbuffered channel blocks for ever.                         *)
THEOREM ForwardersServed == Spec => []NotAbandoned
  <1>1. Init => NotAbandoned BY DEF Init, NotAbandoned
  <1> QED BY <1>1, NotAbandonedStep, Ownership, PTL DEF Spec

(* Every step leaves only the leader past the check. *)
LEMMA OnlyLeaderStep ==
  IInv /\ OnlyLeaderWrites /\ [Next]_vars => OnlyLeaderWrites'
  <1> SUFFICES ASSUME IInv, OnlyLeaderWrites, [Next]_vars, ~Timeouts, MaxErrors = 0
               PROVE  \A q \in Run : writer'[q].at = "save" => isLeader'
    BY DEF OnlyLeaderWrites
  <1>0. errors = 0 /\ ~Error
    BY DEF IInv, TypeOK, Error
  <1> USE <1>0 DEF IInv, TypeOK, OnlyLeaderWrites, WriterType, files, lead,
                   ops, ctxs, data
  <1>1. ASSUME NEW w \in Watcher, NEW s \in Source, NEW v \in Settings,
               EditConfig(w, s, v)
        PROVE  \A q \in Run : writer'[q].at = "save" => isLeader'
    BY <1>1 DEF EditConfig
  <1>2. ASSUME NEW s \in Source, NEW d \in Contents, EditCatalog(s, d)
        PROVE  \A q \in Run : writer'[q].at = "save" => isLeader'
    BY <1>2 DEF EditCatalog
  <1>3. CASE Elected
    BY <1>3 DEF Elected
  <1>4. CASE Deposed
    BY <1>4 DEF Deposed
  <1>5. CASE BeginTerm
    BY <1>5 DEF BeginTerm
  <1>6. CASE LeaderReady
    BY <1>6 DEF LeaderReady
  <1>7. CASE EndTerm
    BY <1>7 DEF EndTerm
  <1>8. CASE UnsetLeader
    BY <1>8 DEF UnsetLeader, WaitOver, Inflight, Busy
  <1>9. CASE LeaderReadyFails
    BY <1>9 DEF LeaderReadyFails, GiveUpTerm
  <1>10. ASSUME NEW w \in Watcher, WatchStep(w) \/ ReloadFails(w)
        PROVE  \A q \in Run : writer'[q].at = "save" => isLeader'
    BY <1>10 DEF WatchStep, TakeEvent, ReloadParsing, ShouldWriteDatabase,
                ReloadFails
  <1>11. ASSUME NEW c \in Caller, SetCloser(c)
        PROVE  \A q \in Run : writer'[q].at = "save" => isLeader'
    BY <1>11 DEF SetCloser
  <1>12. ASSUME NEW c \in Caller, Drain(c)
        PROVE  \A q \in Run : writer'[q].at = "save" => isLeader'
    BY <1>12 DEF Drain
  <1>13. ASSUME NEW c \in Caller, Cleanup(c)
        PROVE  \A q \in Run : writer'[q].at = "save" => isLeader'
    BY <1>13 DEF Cleanup
  <1>14. ASSUME NEW c \in Caller, CleanupFails(c)
        PROVE  \A q \in Run : writer'[q].at = "save" => isLeader'
    BY <1>14 DEF CleanupFails, GiveUpTerm
  <1>15. ASSUME NEW c \in Caller, LoadAllModels(c)
        PROVE  \A q \in Run : writer'[q].at = "save" => isLeader'
    BY <1>15 DEF LoadAllModels
  <1>16. ASSUME NEW c \in Caller, NEW s \in Source, NEW v \in Settings,
               ReadSource(c, s, v)
        PROVE  \A q \in Run : writer'[q].at = "save" => isLeader'
    BY <1>16 DEF ReadSource
  <1>17. ASSUME NEW c \in Caller, SpawnWriter(c)
        PROVE  \A q \in Run : writer'[q].at = "save" => isLeader'
    BY <1>17 DEF SpawnWriter
  <1>18. ASSUME NEW c \in Caller, Settle(c)
        PROVE  \A q \in Run : writer'[q].at = "save" => isLeader'
    BY <1>18 DEF Settle
  <1>19. ASSUME NEW r \in Run, NEW s \in Source, Forward(r, s)
        PROVE  \A q \in Run : writer'[q].at = "save" => isLeader'
    BY <1>19, ForwardFrame
  <1>20. ASSUME NEW r \in Run, CheckRecord(r)
        PROVE  \A q \in Run : writer'[q].at = "save" => isLeader'
    BY <1>20 DEF CheckRecord
  <1>21. ASSUME NEW r \in Run, SaveModel(r)
        PROVE  \A q \in Run : writer'[q].at = "save" => isLeader'
    BY <1>21 DEF SaveModel
  <1>22. ASSUME NEW r \in Run, ChannelClosed(r)
        PROVE  \A q \in Run : writer'[q].at = "save" => isLeader'
    BY <1>22 DEF ChannelClosed
  <1>23. CASE UNCHANGED vars
    BY <1>23 DEF vars
  <1> QED BY <1>1, <1>2, <1>3, <1>4, <1>5, <1>6, <1>7, <1>8, <1>9, <1>10,
             <1>11, <1>12, <1>13, <1>14, <1>15, <1>16, <1>17, <1>18, <1>19,
             <1>20, <1>21, <1>22, <1>23
          DEF Next, LeaderStep, Operate, Write

(* With waits that last and no errors, only the leader writes records. *)
THEOREM LeaderWrites == Spec => []OnlyLeaderWrites
  <1>1. Init => OnlyLeaderWrites BY DEF Init, OnlyLeaderWrites, NoWriter
  <1> QED BY <1>1, OnlyLeaderStep, Inductive, PTL DEF Spec

-----------------------------------------------------------------------------
(* For SyncedWhenQuiet, where edits and elections wait for quiet: a caller *)
(* at work, and one that is about to start a run.                          *)
Working(c) == pc[c] \notin {"idle", "active"} \/ (c \in Watcher /\ token[c])

Before == {"idle", "reload", "decide", "begin", "closer"}

Ahead == \E c \in Caller : Working(c) /\ pc[c] \in Before

(* Callers take turns: the watchers among themselves, and with the leader  *)
(* callback while leadership lasts.                                        *)
Turns ==
    /\ \A v, w \in Watcher : Working(v) /\ Working(w) => v = w
    /\ \A w \in Watcher : token[w] => pc[w] = "idle"
    /\ \A w \in Watcher : pc[w] \notin {"begin", "ready", "active", "unset"}
    /\ leadCtx = "live" => pc[Leader] \notin {"idle", "unset"}
    /\ leadCtx = "live" => \A w \in Watcher : Working(w) => pc[Leader] = "active"

(* The configuration is the one last parsed, or is going to be parsed.     *)
Parsed == (\A w \in Watcher : ~token[w] /\ pc[w] # "reload") => sources = conf

(* A run that has not been started has no state.                           *)
Started ==
    /\ \A r \in cancelled \cup byLeader : r <= runs
    /\ \A r \in Run : r > runs =>
          writer[r] = NoWriter /\ \A s \in Source : fwd[r][s] = NoFwd

(* A run that does nothing any more, except to close its channels.         *)
RunQuiet(r) ==
    /\ writer[r].at \in {"none", "recv", "done"}
    /\ \A s \in Source :
          \/ fwd[r][s].at \in {"none", "closed"}
          \/ fwd[r][s].at = "idle" /\ ~fwd[r][s].event
          \/ fwd[r][s].at = "send" /\ writer[r].at = "done"

(* The models of s the writer has received and not yet saved.              *)
Hand(s) == {m \in Model : <<s, m>> \in writer[runs].rec}

(* The database holds d, up to what the writer has in hand.                *)
Holds(s, d) == db[s] \subseteq d /\ d \subseteq db[s] \cup Hand(s)

(* How far the current run is with an enabled source.                      *)
Batch(s, f, d) ==
    /\ f.at \notin {"none", "closed"}
    /\ f.event => f.at = "idle"
    /\ f.cur \subseteq f.names /\ (f.at # "send" => f.cur = {})
    /\ f.at \in {"read", "idle"} => f.names = {} /\ f.failed = {}
    /\ f.at = "read" \/ f.event => Hand(s) = {}
    /\ f.at \notin {"read", "idle"} => f.failed = d.bad
    /\ ~f.event => Hand(s) \subseteq d.ok
    /\ f.at \in {"emit", "send"} => /\ f.names \cup f.todo = d.ok
                                    /\ f.names \ f.cur \subseteq db[s] \cup Hand(s)
    /\ f.at \in {"marker", "remove"} => f.names \subseteq db[s] \cup Hand(s)
    /\ f.at \in {"marker", "remove", "status", "save"} => f.names = d.ok
    /\ f.at \in {"status", "save"} \/ (f.at = "idle" /\ ~f.event) =>
          (d.ok = {} /\ d.bad # {}) \/ Holds(s, d.ok)
    /\ f.at = "idle" /\ ~f.event => status[s] = StatusOf(d.ok, d.bad)

(* ... and with the others, which the cleanup and readProviderRecords have *)
(* dealt with.                                                             *)
Cleaned(s) ==
    /\ conf[s] \in {"absent", "disabled"} => db[s] = {}
    /\ conf[s] = "absent" => status[s] = "none"

Handled(s) ==
    IF conf[s] = "enabled" THEN Batch(s, fwd[runs][s], content[s])
    ELSE /\ fwd[runs][s] = NoFwd /\ Hand(s) = {}
         /\ Cleaned(s)
         /\ conf[s] = "disabled" => status[s] = "disabled"
         /\ conf[s] = "invalid" => status[s] = "error"

(* A caller has still to come to s in the current run.                     *)
Owes(c, s) == \/ pc[c] \in {"drain", "cleanup", "load"}
              \/ pc[c] = "read" /\ <<s, conf[s]>> \in todo[c]

Unvisited(s) == \E c \in Caller : Owes(c, s)

Visits ==
    /\ \A c \in Caller : pc[c] \in Loading => run[c] = runs
    /\ \A c \in Caller : pc[c] = "read" =>
          \A e \in todo[c] : e[2] = conf[e[1]] /\ e[2] # "absent" /\ e[1] \notin loaded
    /\ \A s \in Source :
          /\ IF Unvisited(s) THEN fwd[runs][s] = NoFwd /\ Hand(s) = {} ELSE Handled(s)
          /\ (\E c \in Caller : pc[c] \in {"load", "read"}) => Cleaned(s)

(* While leadership lasts: the earlier runs are quiet, and so is the       *)
(* current one before the next; it is not cancelled, and is on its way to  *)
(* what the configuration and the catalog files say.                       *)
OnItsWay ==
    /\ \A r \in Run : r # runs \/ Ahead => RunQuiet(r)
    /\ ~Ahead => /\ runs \in Run /\ runs \notin cancelled
                 /\ writer[runs].at \in {"none", "recv", "done"} => writer[runs].rec = {}
                 /\ Visits

SyncInv == Turns /\ Parsed /\ Started /\ (leadCtx = "live" => OnItsWay)

-----------------------------------------------------------------------------
(* A step of a caller at work that is no turn of another.                  *)
LEMMA TurnsMove ==
    ASSUME TypeOK, Turns, Parsed, NEW c \in Caller, NEW x, pc' = [pc EXCEPT ![c] = x],
           UNCHANGED <<token, leadCtx, sources, conf>>, pc[c] # "reload",
           c \in Watcher => pc[c] # "idle" /\ x \notin {"begin", "ready", "active", "unset"},
           c = Leader /\ leadCtx = "live" => pc[c] # "active" /\ x \notin {"idle", "unset"}
    PROVE  Turns' /\ Parsed'
  <1>1. pc \in [Caller -> CallerPCs] /\ Leader \in Caller /\ Leader \notin Watcher
        /\ Watcher \subseteq Caller
    BY Callers, WatcherAssumption DEF TypeOK
  <1>2. \A d \in Caller : d # c => pc'[d] = pc[d] BY <1>1
  <1>3. pc'[c] = x BY <1>1
  <1>4. \A w \in Watcher : Working(w)' => Working(w)
    BY <1>1, <1>2, <1>3 DEF Working, Turns
  <1>5. Parsed' BY <1>1, <1>2, <1>3 DEF Parsed
  <1>6. \A w \in Watcher : token[w] => w # c BY DEF Turns
  <1>7. \A w \in Watcher : token'[w] => pc'[w] = "idle" BY <1>1, <1>2,
      <1>6 DEF Turns
  <1>8. \A w \in Watcher : pc'[w] \notin {"begin", "ready", "active", "unset"}
    BY <1>1, <1>2, <1>3 DEF Turns
  <1>9. leadCtx' = "live" => pc'[Leader] \notin {"idle", "unset"}
    BY <1>1, <1>2, <1>3 DEF Turns
  <1>10. leadCtx' = "live" => \A w \in Watcher : Working(w)' => pc'[Leader] = "active"
    <2>1. CASE c = Leader
      <3>1. leadCtx = "live" => \A w \in Watcher : ~Working(w) BY <2>1 DEF Turns
      <3> QED BY <1>4, <3>1
    <2>2. CASE c # Leader BY <1>1, <1>2, <1>4, <2>2 DEF Turns
    <2> QED BY <2>1, <2>2
  <1>11. \A v, w \in Watcher : Working(v)' /\ Working(w)' => v = w
    BY <1>4 DEF Turns
  <1> QED BY <1>5, <1>7, <1>8, <1>9, <1>10, <1>11 DEF Turns

(* A quiet plugin has nobody at work.                                      *)
LEMMA QuietCallers ==
    ASSUME Quiet PROVE \A c \in Caller : ~Working(c)
  BY DEF Quiet, Working

(* Callers take turns, because edits and elections wait for quiet.         *)
LEMMA TurnsStep ==
    ASSUME IInv, Turns, Parsed, Serial, MaxErrors = 0, [Next]_vars
    PROVE  Turns' /\ Parsed'
  <1>0. /\ pc \in [Caller -> CallerPCs] /\ Leader \in Caller /\ Leader \notin Watcher
        /\ Watcher \subseteq Caller /\ token \in [Watcher -> BOOLEAN] /\ TypeOK
    BY Callers, WatcherAssumption DEF IInv, TypeOK
  <1>e. ~Error BY DEF IInv, TypeOK, Error
  <1>u. ASSUME UNCHANGED <<pc, token, leadCtx, sources, conf>>
        PROVE  Turns' /\ Parsed'
    BY <1>u DEF Turns, Parsed, Working
  <1>1. ASSUME NEW w \in Watcher, NEW s \in Source, NEW v \in Settings, EditConfig(w, s, v)
        PROVE  Turns' /\ Parsed'
    <2>1. Quiet /\ UNCHANGED <<pc, leadCtx>> /\ token' = [token EXCEPT ![w] = TRUE]
      BY <1>1 DEF EditConfig, MayEdit, lead, ops
    <2>2. token'[w] /\ \A d \in Watcher : d # w => token'[d] = token[d] BY <1>0, <2>1
    <2>3. \A c \in Caller : ~Working(c) BY <2>1, QuietCallers
    <2>4. \A d \in Watcher : Working(d)' => d = w BY <1>0, <2>1, <2>2,
        <2>3 DEF Working
    <2>5. pc[w] = "idle" BY <1>0, <2>1 DEF Quiet, Turns
    <2>6. leadCtx = "live" => pc[Leader] = "active" BY <1>0, <2>1 DEF Quiet, Turns
    <2>7. Parsed' BY <2>2 DEF Parsed
    <2>8. \A d \in Watcher : token'[d] => pc'[d] = "idle" BY <2>1, <2>2,
        <2>5 DEF Turns
    <2> QED BY <2>1, <2>4, <2>6, <2>7, <2>8 DEF Turns
  <1>2. ASSUME NEW s \in Source, NEW d \in Contents, EditCatalog(s, d)
        PROVE  Turns' /\ Parsed'
    BY <1>2, <1>u DEF EditCatalog, lead, ops
  <1>3. CASE Elected
    <2>1. Quiet /\ UNCHANGED <<token, sources, conf>> /\ pc' = [pc EXCEPT ![Leader] = "begin"]
      BY <1>3 DEF Elected, files
    <2>2. pc'[Leader] = "begin" /\ \A w \in Watcher : pc'[w] = pc[w] BY <1>0, <2>1
    <2>3. \A w \in Watcher : ~Working(w) BY <1>0, <2>1, QuietCallers
    <2>4. \A w \in Watcher : ~Working(w)' BY <2>1, <2>2, <2>3 DEF Working
    <2>5. Parsed' BY <2>1, <2>2 DEF Parsed
    <2> QED BY <2>1, <2>2, <2>4, <2>5 DEF Turns
  <1>4. CASE Deposed
    <2>1. leadCtx' = "cancelled" /\ UNCHANGED <<pc, token, sources, conf>>
      BY <1>4 DEF Deposed, files, ops
    <2> QED BY <2>1 DEF Turns, Parsed, Working
  <1>5. CASE BeginTerm \/ LeaderReady \/ EndTerm \/ UnsetLeader
    <2>1. /\ pc[Leader] \in {"begin", "ready", "active", "unset"}
          /\ UNCHANGED <<token, leadCtx, sources, conf>>
      BY <1>5 DEF BeginTerm, LeaderReady, EndTerm, UnsetLeader, files, lead
    <2>2. PICK x : pc' = [pc EXCEPT ![Leader] = x]
                   /\ (x \in {"idle", "unset"} => pc[Leader] = "unset" \/ leadCtx = "cancelled")
                   /\ (pc[Leader] = "active" => leadCtx = "cancelled")
      BY <1>5 DEF BeginTerm, LeaderReady, EndTerm, UnsetLeader
    <2>3. leadCtx = "live" => pc[Leader] # "active" /\ x \notin {"idle", "unset"}
      BY <2>2 DEF Turns
    <2> QED BY <1>0, <2>1, <2>2, <2>3, TurnsMove
  <1>6. ASSUME NEW w \in Watcher, TakeEvent(w) PROVE Turns' /\ Parsed'
    <2>1. /\ pc[w] = "idle" /\ token[w] /\ token' = [token EXCEPT ![w] = FALSE]
          /\ pc' = [pc EXCEPT ![w] = "reload"] /\ UNCHANGED <<leadCtx, sources, conf>>
      BY <1>6 DEF TakeEvent, lead
    <2>2. /\ ~token'[w] /\ pc'[w] = "reload"
          /\ \A d \in Watcher : d # w => token'[d] = token[d] /\ pc'[d] = pc[d]
          /\ pc'[Leader] = pc[Leader]
      BY <1>0, <2>1
    <2>3. \A d \in Watcher : Working(d)' => Working(d) BY <2>1, <2>2 DEF Working
    <2>4. Parsed' BY <2>2 DEF Parsed
    <2> QED BY <2>1, <2>2, <2>3, <2>4 DEF Turns
  <1>7. ASSUME NEW w \in Watcher, ReloadParsing(w) PROVE Turns' /\ Parsed'
    <2>1. /\ pc[w] = "reload" /\ sources' = conf /\ UNCHANGED <<leadCtx, token, conf>>
          /\ pc' = [pc EXCEPT ![w] = "decide"]
      BY <1>7 DEF ReloadParsing, files, lead
    <2>2. /\ pc'[w] = "decide" /\ \A d \in Watcher : d # w => pc'[d] = pc[d]
          /\ pc'[Leader] = pc[Leader]
      BY <1>0, <2>1
    <2>3. \A d \in Watcher : Working(d)' => Working(d) BY <2>1, <2>2 DEF Working
    <2>4. Parsed' BY <2>1 DEF Parsed
    <2> QED BY <2>1, <2>2, <2>3, <2>4 DEF Turns
  <1>8. ASSUME NEW w \in Watcher, ShouldWriteDatabase(w) PROVE Turns' /\ Parsed'
    <2>1. PICK x \in {"closer", "idle"} : pc' = [pc EXCEPT ![w] = x]
      BY <1>8 DEF ShouldWriteDatabase
    <2>2. pc[w] = "decide" /\ UNCHANGED <<token, leadCtx, sources, conf>>
      BY <1>8 DEF ShouldWriteDatabase, files, lead
    <2> QED BY <1>0, <2>1, <2>2, TurnsMove
  <1>9. ASSUME NEW c \in Caller, \/ SetCloser(c) \/ Drain(c) \/ Cleanup(c)
                                 \/ LoadAllModels(c) \/ SpawnWriter(c) \/ Settle(c)
        PROVE Turns' /\ Parsed'
    <2>1. PICK x \in {"drain", "cleanup", "load", "read", "settle", "ready", "idle"} :
             /\ pc' = [pc EXCEPT ![c] = x]
             /\ x = "ready" => c = Leader
             /\ x = "idle" => c # Leader
      BY <1>9 DEF SetCloser, Drain, Cleanup, LoadAllModels, SpawnWriter, Settle
    <2>2. /\ pc[c] \in {"closer", "drain", "cleanup", "load", "read", "settle"}
          /\ UNCHANGED <<token, leadCtx, sources, conf>>
      BY <1>9 DEF SetCloser, Drain, Cleanup, LoadAllModels, SpawnWriter,
         Settle, files, lead
    <2> QED BY <1>0, <2>1, <2>2, TurnsMove
  <1>10. ASSUME NEW c \in Caller, NEW s \in Source, NEW v \in Settings, ReadSource(c, s, v)
         PROVE  Turns' /\ Parsed'
    BY <1>10, <1>u DEF ReadSource, files, lead
  <1>11. ASSUME NEW r \in Run, NEW s \in Source, Forward(r, s)
         PROVE  Turns' /\ Parsed'
    BY <1>11, <1>u DEF Forward, ProviderReads, Emit, Send, EndBatch, TrackRemoval,
       RemoveOrphans, CheckStatus, SaveStatus, ProviderStops, files, lead, ops
  <1>12. ASSUME NEW r \in Run, Write(r) PROVE Turns' /\ Parsed'
    BY <1>12, <1>u DEF Write, CheckRecord, SaveModel, ChannelClosed, files,
       lead, ops
  <1>13. CASE UNCHANGED vars BY <1>13, <1>u DEF vars, files, lead, ops
  <1>14. ASSUME NEW w \in Watcher, ReloadFails(w)
         PROVE  FALSE BY <1>14, <1>e DEF ReloadFails
  <1>15. ASSUME NEW c \in Caller, CleanupFails(c)
         PROVE  FALSE BY <1>15, <1>e DEF CleanupFails
  <1>16. ~LeaderReadyFails BY <1>e DEF LeaderReadyFails
  <1> QED BY <1>1, <1>2, <1>3, <1>4, <1>5, <1>6, <1>7, <1>8, <1>9, <1>10,
             <1>11, <1>12,
             <1>13, <1>14, <1>15, <1>16
          DEF Next, LeaderStep, WatchStep, Operate

(* Goroutines act in runs that were started.                               *)
LEMMA StartedStep ==
    ASSUME IInv, TypeOK', RunOwnership, Started, MaxErrors = 0, [Next]_vars
    PROVE  Started'
  <1>0. /\ runs \in Nat /\ Run \subseteq Nat /\ byLeader \subseteq Run /\ cancelled \subseteq Run
        /\ writer \in [Run -> WriterType] /\ fwd \in [Run -> [Source -> FwdType]] /\ TypeOK
        /\ run \in [Caller -> Nat] /\ closer = runs /\ \A c \in Caller : run[c] <= runs
    BY DEF IInv, TypeOK, Run, MaxRuns, RunOrder
  <1>e. ~Error BY DEF IInv, TypeOK, Error
  <1>s. ASSUME NEW r \in Run, r > runs, NEW s \in Source
        PROVE  fwd[r][s].at = "none" /\ writer[r].at = "none"
    BY <1>s DEF Started, NoFwd, NoWriter
  <1>u. ASSUME UNCHANGED <<runs, byLeader, cancelled, writer, fwd>> PROVE Started'
    BY <1>u DEF Started
  <1>1. ASSUME NEW s \in Source, NEW d \in Contents, EditCatalog(s, d)
        PROVE  Started'
    <2>1. UNCHANGED <<runs, byLeader, cancelled, writer>>
      BY <1>1 DEF EditCatalog, ctxs
    <2>2. ASSUME NEW r \in Run, r > runs PROVE fwd'[r] = fwd[r]
      BY <1>1, <1>s, <2>2 DEF EditCatalog
    <2> QED BY <2>1, <2>2 DEF Started
  <1>2. CASE Deposed
    <2>1. cancelled' = cancelled \cup byLeader /\ UNCHANGED <<runs, byLeader, writer, fwd>>
      BY <1>2 DEF Deposed
    <2> QED BY <2>1 DEF Started
  <1>3. ASSUME NEW c \in Caller, SetCloser(c) PROVE Started'
    <2>1. /\ runs' = runs + 1 /\ UNCHANGED <<writer, fwd>>
          /\ byLeader' \subseteq byLeader \cup {runs + 1}
          /\ cancelled' \subseteq cancelled \cup {runs, runs + 1}
      BY <1>0, <1>3 DEF SetCloser
    <2>2. ASSUME NEW r \in Run, r > runs' PROVE r > runs
      <3>1. r \in Nat /\ runs \in Nat /\ r > runs + 1 BY <1>0, <2>1, <2>2
      <3> HIDE <1>0
      <3> QED BY <3>1
    <2>3. \A r \in cancelled' \cup byLeader' : r <= runs'
      <3>1. \A r \in cancelled \cup byLeader : r \in Nat /\ r <= runs BY <1>0 DEF Started
      <3> QED BY <1>0, <2>1, <3>1
    <2> QED BY <2>1, <2>2, <2>3 DEF Started
  <1>4. ASSUME NEW c \in Caller, NEW s \in Source, NEW v \in Settings, ReadSource(c, s, v)
        PROVE  Started'
    <2>1. UNCHANGED <<runs, byLeader, cancelled, writer>>
      BY <1>4 DEF ReadSource, ctxs
    <2>2. fwd' = fwd \/ fwd' = [fwd EXCEPT ![run[c]][s].at = "read"]
      BY <1>4 DEF ReadSource
    <2>3. ASSUME NEW r \in Run, r > runs PROVE fwd'[r] = fwd[r]
      <3>1. r # run[c] BY <1>0, <2>3
      <3> QED BY <1>0, <2>2, <3>1
    <2> QED BY <2>1, <2>3 DEF Started
  <1>5. ASSUME NEW c \in Caller, SpawnWriter(c) PROVE Started'
    <2>1. /\ UNCHANGED <<runs, byLeader, cancelled, fwd>>
          /\ writer' = [writer EXCEPT ![run[c]].at = "recv"]
      BY <1>5 DEF SpawnWriter, ctxs
    <2>2. ASSUME NEW r \in Run, r > runs PROVE writer'[r] = writer[r]
      <3>1. r # run[c] BY <1>0, <2>2
      <3> QED BY <1>0, <2>1, <3>1
    <2> QED BY <2>1, <2>2 DEF Started
  <1>6. ASSUME NEW q \in Run, NEW s \in Source, Forward(q, s) PROVE Started'
    <2>1. UNCHANGED <<runs, byLeader, cancelled>>
      BY <1>6 DEF Forward, ProviderReads, Emit, Send, EndBatch, TrackRemoval,
         RemoveOrphans, CheckStatus, SaveStatus, ProviderStops, ctxs
    <2>2. fwd[q][s].at # "none"
      BY <1>6 DEF Forward, ProviderReads, Emit, Send, EndBatch, TrackRemoval,
         RemoveOrphans, CheckStatus, SaveStatus, ProviderStops
    <2>3. ~(q > runs) BY <1>s, <2>2
    <2>4. \E x : fwd' = [fwd EXCEPT ![q][s] = x]
      BY <1>6 DEF Forward, ProviderReads, Emit, Send, EndBatch, TrackRemoval,
         RemoveOrphans, CheckStatus, SaveStatus, ProviderStops, MoveFwd
    <2>5. writer' = writer \/ \E x : writer' = [writer EXCEPT ![q] = x]
      BY <1>6 DEF Forward, ProviderReads, Emit, Send, EndBatch, TrackRemoval,
         RemoveOrphans, CheckStatus, SaveStatus, ProviderStops
    <2>6. ASSUME NEW r \in Run, r > runs
          PROVE  fwd'[r] = fwd[r] /\ writer'[r] = writer[r]
      <3>1. r # q BY <2>3, <2>6
      <3> QED BY <1>0, <2>4, <2>5, <3>1
    <2> QED BY <2>1, <2>6 DEF Started
  <1>7. ASSUME NEW q \in Run, Write(q) PROVE Started'
    <2>1. UNCHANGED <<runs, byLeader, cancelled, fwd>>
      BY <1>7 DEF Write, CheckRecord, SaveModel, ChannelClosed, ctxs
    <2>2. writer[q].at # "none"
      BY <1>7 DEF Write, CheckRecord, SaveModel, ChannelClosed
    <2>3. ~(q > runs) BY <2>2 DEF Started, NoWriter
    <2>4. \A r \in Run : r # q => writer'[r] = writer[r]
      BY <1>0, <1>7 DEF Write, CheckRecord, SaveModel, ChannelClosed
    <2> QED BY <2>1, <2>3, <2>4 DEF Started
  <1>8. ASSUME NEW w \in Watcher, NEW s \in Source, NEW v \in Settings, EditConfig(w, s, v)
        PROVE  Started'
    BY <1>8, <1>u DEF EditConfig, ctxs
  <1>9. CASE Elected \/ BeginTerm \/ LeaderReady \/ EndTerm \/ UnsetLeader
    BY <1>9, <1>u DEF Elected, BeginTerm, LeaderReady, EndTerm, UnsetLeader, ctxs
  <1>10. ASSUME NEW w \in Watcher, WatchStep(w) PROVE Started'
    BY <1>10, <1>u DEF WatchStep, TakeEvent, ReloadParsing,
       ShouldWriteDatabase, ctxs
  <1>11. ASSUME NEW c \in Caller, Drain(c) \/ Cleanup(c) \/ LoadAllModels(c) \/ Settle(c)
         PROVE  Started'
    BY <1>11, <1>u DEF Drain, Cleanup, LoadAllModels, Settle, ctxs
  <1>12. CASE UNCHANGED vars BY <1>12, <1>u DEF vars, ctxs
  <1>13. ASSUME NEW w \in Watcher, ReloadFails(w)
         PROVE  FALSE BY <1>13, <1>e DEF ReloadFails
  <1>14. ASSUME NEW c \in Caller, CleanupFails(c)
         PROVE  FALSE BY <1>14, <1>e DEF CleanupFails
  <1>15. ~LeaderReadyFails BY <1>e DEF LeaderReadyFails
  <1> QED BY <1>1, <1>2, <1>3, <1>4, <1>5, <1>6, <1>7, <1>8, <1>9, <1>10,
             <1>11, <1>12,
             <1>13, <1>14, <1>15
          DEF Next, LeaderStep, Operate

(* While leadership lasts one caller is at work at a time.                 *)
LEMMA OneCaller ==
    ASSUME Turns, leadCtx = "live", NEW c \in Caller, NEW d \in Caller, Working(c), Working(d)
    PROVE  c = d
  <1>1. ASSUME NEW w \in Watcher, Working(w), Working(Leader) PROVE FALSE
    BY <1>1, WatcherAssumption DEF Turns, Working
  <1> QED BY <1>1 DEF Caller, Turns

(* ... so that beside it no run is about to start, no source is unvisited  *)
(* for another's sake, and the configuration has been parsed.              *)
LEMMA Alone ==
    ASSUME Turns, Parsed, leadCtx = "live", NEW c \in Caller, Working(c), pc[c] \notin Before
    PROVE  /\ ~Ahead /\ sources = conf
           /\ \A d \in Caller : d # c => pc[d] \in {"idle", "active"}
           /\ \A w \in Watcher : ~token[w]
  <1>1. \A d \in Caller : d # c => ~Working(d) BY OneCaller
  <1>2. \A w \in Watcher : token[w] => w # c BY DEF Turns, Before
  <1>3. \A w \in Watcher : ~token[w] BY <1>1, <1>2, Callers DEF Working
  <1>4. \A w \in Watcher : pc[w] # "reload" BY <1>1, Callers DEF Working, Before
  <1> QED BY <1>1, <1>3, <1>4 DEF Ahead, Parsed, Working

(* When the plugin is quiet so are the runs.                               *)
LEMMA QuietRuns ==
    ASSUME TypeOK, Quiet PROVE \A r \in Run : RunQuiet(r)
  <1> SUFFICES ASSUME NEW r \in Run PROVE RunQuiet(r)
    OBVIOUS
  <1>1. ~Busy(r) BY DEF Quiet
  <1>2. writer[r].at \in WriterPCs BY DEF TypeOK, WriterType
  <1>3. writer[r].at \in {"none", "recv", "done"} BY <1>1, <1>2 DEF Busy, WriterPCs
  <1>4. ASSUME NEW s \in Source
        PROVE  \/ fwd[r][s].at \in {"none", "closed"}
               \/ fwd[r][s].at = "idle" /\ ~fwd[r][s].event
               \/ fwd[r][s].at = "send" /\ writer[r].at = "done"
    <2>1. fwd[r][s].at \in FwdPCs BY FwdFields DEF TypeOK
    <2> QED BY <1>1, <1>3, <2>1 DEF Busy, FwdPCs
  <1> QED BY <1>3, <1>4 DEF RunQuiet

(* All a quiet run does is to end.                                         *)
LEMMA QuietForward ==
    ASSUME NEW r \in Run, NEW s \in Source, RunQuiet(r), Forward(r, s)
    PROVE  ProviderStops(r, s)
  <1>1. \/ fwd[r][s].at \in {"none", "closed"}
        \/ fwd[r][s].at = "idle" /\ ~fwd[r][s].event
        \/ fwd[r][s].at = "send" /\ writer[r].at = "done"
    BY DEF RunQuiet
  <1> QED BY <1>1 DEF Forward, ProviderReads, Emit, Send, EndBatch, TrackRemoval,
                      RemoveOrphans, CheckStatus, SaveStatus

(* ... and it stays quiet whatever the goroutines do.                      *)
LEMMA QuietStays ==
    ASSUME TypeOK, NEW r \in Run, RunQuiet(r), NEW q \in Run,
           Write(q) \/ \E s \in Source : Forward(q, s)
    PROVE  RunQuiet(r)'
  <1>1. CASE Write(q) /\ q # r
    <2>1. fwd' = fwd /\ writer'[r] = writer[r]
      BY <1>1 DEF Write, CheckRecord, SaveModel, ChannelClosed, TypeOK
    <2> QED BY <2>1 DEF RunQuiet
  <1>2. CASE Write(r) /\ q = r
    <2>1. ChannelClosed(r)
      BY <1>2 DEF Write, CheckRecord, SaveModel, RunQuiet
    <2>2. /\ fwd' = fwd /\ \A s \in Source : fwd[r][s].at \in {"none", "closed"}
          /\ writer' = [writer EXCEPT ![r].at = "done"]
      BY <2>1 DEF ChannelClosed
    <2>3. writer'[r].at = "done" BY <2>2 DEF TypeOK, WriterType
    <2> QED BY <2>2, <2>3 DEF RunQuiet
  <1>3. ASSUME NEW s \in Source, Forward(q, s), q # r PROVE RunQuiet(r)'
    <2>1. \A t \in Source : fwd'[r][t] = fwd[r][t] BY <1>3, ForwardFrame
    <2>2. writer' = writer \/ \E x : writer' = [writer EXCEPT ![q] = x]
      BY <1>3 DEF Forward, ProviderReads, Emit, Send, EndBatch, TrackRemoval,
         RemoveOrphans, CheckStatus, SaveStatus, ProviderStops
    <2>3. writer'[r] = writer[r] BY <1>3, <2>2 DEF TypeOK
    <2> QED BY <2>1, <2>3 DEF RunQuiet
  <1>4. ASSUME NEW s \in Source, Forward(r, s), q = r PROVE RunQuiet(r)'
    <2>1. ProviderStops(r, s) BY <1>4, QuietForward
    <2>2. writer' = writer /\ fwd' = [fwd EXCEPT ![r][s] = [NoFwd EXCEPT !.at = "closed"]]
      BY <2>1 DEF ProviderStops, MoveFwd
    <2>3. fwd'[r][s].at = "closed" BY <2>2 DEF TypeOK, NoFwd
    <2>4. \A t \in Source : t # s => fwd'[r][t] = fwd[r][t] BY <1>4, ForwardFrame
    <2> QED BY <2>2, <2>3, <2>4 DEF RunQuiet
  <1> QED BY <1>1, <1>2, <1>3, <1>4

(* What is said of a source rests on its own state only.                   *)
LEMMA HandledFrame ==
    ASSUME NEW s \in Source, Hand(s)' = Hand(s), fwd'[runs'][s] = fwd[runs][s],
           db'[s] = db[s], status'[s] = status[s], conf'[s] = conf[s],
           content'[s] = content[s]
    PROVE  (Handled(s) => Handled(s)') /\ (Cleaned(s) => Cleaned(s)')
  <1>1. Cleaned(s) => Cleaned(s)' BY DEF Cleaned
  <1>2. Batch(s, fwd[runs][s], content[s]) => Batch(s, fwd[runs][s], content[s])'
    BY DEF Batch, Holds
  <1> QED BY <1>1, <1>2 DEF Handled

(* ... so a step that leaves the callers alone may look at each by itself. *)
LEMMA VisitsFrame ==
    ASSUME Visits, UNCHANGED <<pc, run, todo, loaded, conf, runs>>,
           \A s \in Source :
              /\ fwd[runs][s] = NoFwd /\ Hand(s) = {} => fwd'[runs][s] = NoFwd /\ Hand(s)' = {}
              /\ (IF Unvisited(s) THEN fwd[runs][s] = NoFwd /\ Hand(s) = {} ELSE Handled(s))
                     => (Handled(s) => Handled(s)') /\ (Cleaned(s) => Cleaned(s)')
    PROVE  Visits'
  <1>1. \A s \in Source : Unvisited(s)' <=> Unvisited(s) BY DEF Unvisited, Owes
  <1>2. ASSUME NEW s \in Source
        PROVE  /\ IF Unvisited(s)' THEN fwd'[runs'][s] = NoFwd /\ Hand(s)' = {} ELSE Handled(s)'
               /\ (\E c \in Caller : pc'[c] \in {"load", "read"}) => Cleaned(s)'
    <2>1. /\ IF Unvisited(s) THEN fwd[runs][s] = NoFwd /\ Hand(s) = {} ELSE Handled(s)
          /\ (\E c \in Caller : pc[c] \in {"load", "read"}) => Cleaned(s)
      BY DEF Visits
    <2> QED BY <1>1, <2>1
  <1>3. \A c \in Caller : pc'[c] \in Loading => run'[c] = runs' BY DEF Visits
  <1>4. \A c \in Caller : pc'[c] = "read" =>
           \A e \in todo'[c] : e[2] = conf'[e[1]] /\ e[2] # "absent" /\ e[1] \notin loaded'
    BY DEF Visits
  <1> QED BY <1>2, <1>3, <1>4 DEF Visits

(* A step of the current run's forwarder brings its batch forward.         *)
LEMMA BatchForward ==
    ASSUME TypeOK, ~Error, NEW s \in Source, runs \in Run, runs \notin cancelled,
           writer[runs].at \in {"none", "recv", "done"} => writer[runs].rec = {},
           Batch(s, fwd[runs][s], content[s]), Forward(runs, s)
    PROVE  Batch(s, fwd[runs][s], content[s])'
  <1> DEFINE f == fwd[runs][s]
             g == fwd'[runs][s]
             d == content[s]
  <1>0. /\ f \in FwdType /\ fwd \in [Run -> [Source -> FwdType]] /\ db \in [Source -> SUBSET Model]
        /\ status \in [Source -> Statuses] /\ writer \in [Run -> WriterType]
    BY DEF TypeOK
  <1>1. runs' = runs /\ content' = content
    BY DEF Forward, ProviderReads, Emit, Send, EndBatch, TrackRemoval,
       RemoveOrphans,
           CheckStatus, SaveStatus, ProviderStops, ctxs, files
  <1>m. ASSUME NEW x, MoveFwd(runs, s, x) PROVE g = x
    BY <1>0, <1>m DEF MoveFwd
  <1>b. Batch(s, f, d) OBVIOUS
  <1>h. ASSUME writer' = writer PROVE Hand(s)' = Hand(s)
    BY <1>h, <1>1 DEF Hand
  <1>2. CASE ProviderReads(runs, s)
    <2>0. MoveFwd(runs, s, [f EXCEPT !.at = "emit", !.todo = d.ok, !.failed = d.bad,
                                     !.event = @ /\ f.at = "read"])
      BY <1>2, Zenon DEF ProviderReads
    <2>1. /\ f.at = "read" \/ (f.at = "idle" /\ f.event)
          /\ UNCHANGED <<writer, db, status>>
      BY <1>2 DEF ProviderReads, data
    <2>a. g = [f EXCEPT !.at = "emit", !.todo = d.ok, !.failed = d.bad,
                        !.event = @ /\ f.at = "read"]
      BY <1>m, <2>0, Zenon
    <2>2. /\ g.at = "emit" /\ g.todo = d.ok /\ g.failed = d.bad /\ g.names = f.names
          /\ g.cur = f.cur /\ g.event = (f.event /\ f.at = "read")
      BY <1>0, <2>a DEF FwdType
    <2>3. Hand(s)' = {} /\ g.names = {} /\ g.cur = {} /\ ~g.event
      BY <1>b, <1>h, <2>1, <2>2 DEF Batch
    <2> QED BY <1>1, <2>1, <2>2, <2>3 DEF Batch
  <1>3. ASSUME NEW m \in Model, Emit(runs, s, m)
        PROVE  Batch(s, fwd[runs][s], content[s])'
    <2>1. /\ f.at = "emit" /\ m \in f.todo
          /\ g = [f EXCEPT !.at = "send", !.todo = @ \ {m}, !.names = @ \cup {m}, !.cur = {m}]
          /\ UNCHANGED <<writer, db, status>>
      BY <1>3, <1>m DEF Emit, data
    <2>2. /\ g.at = "send" /\ g.todo = f.todo \ {m} /\ g.failed = f.failed
          /\ g.names = f.names \cup {m} /\ g.cur = {m} /\ g.event = f.event
      BY <1>0, <2>1 DEF FwdType
    <2>3. /\ f.names \cup f.todo = d.ok /\ f.names \subseteq db[s] \cup Hand(s)
          /\ ~f.event /\ f.failed = d.bad /\ Hand(s) \subseteq d.ok /\ Hand(s)' = Hand(s)
      BY <1>b, <1>h, <2>1 DEF Batch
    <2> QED BY <1>1, <2>1, <2>2, <2>3 DEF Batch
  <1>4. CASE Send(runs, s)
    <2>1. /\ f.at = "send" /\ writer[runs].at = "recv"
          /\ g = [f EXCEPT !.at = "emit", !.cur = {}]
          /\ writer' = [writer EXCEPT ![runs] = [at |-> "got", rec |-> {s} \X f.cur]]
          /\ UNCHANGED <<db, status>>
      BY <1>4, <1>m DEF Send, data
    <2>2. /\ g.at = "emit" /\ g.todo = f.todo /\ g.failed = f.failed
          /\ g.names = f.names /\ g.cur = {} /\ g.event = f.event
      BY <1>0, <2>1 DEF FwdType
    <2>3. Hand(s) = {} BY <2>1 DEF Hand
    <2>4. Hand(s)' = f.cur
      <3>1. writer'[runs].rec = {s} \X f.cur BY <1>0, <2>1
      <3>2. f.cur \subseteq Model BY <1>0, FwdFields
      <3> QED BY <1>1, <3>1, <3>2 DEF Hand
    <2>5. /\ f.names \cup f.todo = d.ok /\ f.names \ f.cur \subseteq db[s]
          /\ ~f.event /\ f.failed = d.bad /\ f.cur \subseteq f.names
      BY <1>b, <2>1, <2>3 DEF Batch
    <2> QED BY <1>1, <2>1, <2>2, <2>4, <2>5 DEF Batch
  <1>5. CASE EndBatch(runs, s)
    <2>1. /\ f.at = "emit" /\ f.todo = {}
          /\ g = [f EXCEPT !.at = IF CompleteFailure(f) THEN "status" ELSE "marker"]
          /\ UNCHANGED <<writer, db, status>>
      BY <1>5, <1>m DEF EndBatch, data
    <2>2. /\ g.at = IF f.names = {} /\ f.failed # {} THEN "status" ELSE "marker"
          /\ g.failed = f.failed /\ g.names = f.names /\ g.cur = f.cur /\ g.event = f.event
      BY <1>0, <2>1 DEF FwdType, CompleteFailure
    <2>3. /\ f.names = d.ok /\ f.names \subseteq db[s] \cup Hand(s) /\ f.cur = {}
          /\ ~f.event /\ f.failed = d.bad /\ Hand(s) \subseteq d.ok /\ Hand(s)' = Hand(s)
      BY <1>b, <1>h, <2>1 DEF Batch
    <2> QED BY <1>1, <2>1, <2>2, <2>3 DEF Batch
  <1>6. CASE TrackRemoval(runs, s)
    <2>1. /\ f.at = "marker" /\ g = [f EXCEPT !.at = "remove"]
          /\ UNCHANGED <<writer, db, status>>
      BY <1>6, <1>m DEF TrackRemoval, data
    <2>2. /\ g.at = "remove" /\ g.failed = f.failed /\ g.names = f.names
          /\ g.cur = f.cur /\ g.event = f.event
      BY <1>0, <2>1 DEF FwdType
    <2>3. /\ f.names = d.ok /\ f.names \subseteq db[s] \cup Hand(s) /\ f.cur = {}
          /\ ~f.event /\ f.failed = d.bad /\ Hand(s) \subseteq d.ok /\ Hand(s)' = Hand(s)
      BY <1>b, <1>h, <2>1 DEF Batch
    <2> QED BY <1>1, <2>1, <2>2, <2>3 DEF Batch
  <1>7. CASE RemoveOrphans(runs, s)
    <2>1. /\ f.at = "remove" /\ g = [f EXCEPT !.at = "status"]
          /\ db' = [db EXCEPT ![s] = @ \cap f.names]
          /\ UNCHANGED <<writer, status>>
      BY <1>7, <1>m DEF RemoveOrphans
    <2>2. /\ g.at = "status" /\ g.failed = f.failed /\ g.names = f.names
          /\ g.cur = f.cur /\ g.event = f.event /\ db'[s] = db[s] \cap f.names
      BY <1>0, <2>1 DEF FwdType
    <2>3. /\ f.names = d.ok /\ f.names \subseteq db[s] \cup Hand(s) /\ f.cur = {}
          /\ ~f.event /\ f.failed = d.bad /\ Hand(s) \subseteq d.ok /\ Hand(s)' = Hand(s)
      BY <1>b, <1>h, <2>1 DEF Batch
    <2>4. Holds(s, d.ok)' BY <1>1, <2>2, <2>3 DEF Holds
    <2> QED BY <1>1, <2>1, <2>2, <2>3, <2>4 DEF Batch
  <1>7a. CASE CheckStatus(runs, s)
    <2>1. /\ f.at = "status" /\ g = [f EXCEPT !.at = "save"]
          /\ UNCHANGED <<writer, db, status>>
      BY <1>7a, <1>m DEF CheckStatus, data
    <2>2. /\ g.at = "save" /\ g.failed = f.failed /\ g.names = f.names
          /\ g.cur = f.cur /\ g.event = f.event
      BY <1>0, <2>1 DEF FwdType
    <2>3. /\ f.names = d.ok /\ f.cur = {}
          /\ ~f.event /\ f.failed = d.bad /\ Hand(s) \subseteq d.ok /\ Hand(s)' = Hand(s)
          /\ (d.ok = {} /\ d.bad # {}) \/ Holds(s, d.ok)
      BY <1>b, <1>h, <2>1 DEF Batch
    <2>4. Holds(s, d.ok) => Holds(s, d.ok)' BY <1>1, <2>1, <2>3 DEF Holds
    <2> QED BY <1>1, <2>2, <2>3, <2>4 DEF Batch
  <1>8. CASE SaveStatus(runs, s)
    <2>1. /\ f.at = "save"
          /\ g = [f EXCEPT !.at = "idle", !.names = {}, !.failed = {}]
          /\ status' = [status EXCEPT ![s] = StatusOf(f.names, f.failed)]
          /\ UNCHANGED <<writer, db>>
      BY <1>8, <1>m DEF SaveStatus, SaveSourceStatus
    <2>2. /\ g.at = "idle" /\ g.failed = {} /\ g.names = {}
          /\ g.cur = f.cur /\ g.event = f.event
          /\ status'[s] = StatusOf(f.names, f.failed)
      BY <1>0, <2>1 DEF FwdType
    <2>3. /\ f.names = d.ok /\ f.cur = {}
          /\ ~f.event /\ f.failed = d.bad /\ Hand(s) \subseteq d.ok /\ Hand(s)' = Hand(s)
          /\ (d.ok = {} /\ d.bad # {}) \/ Holds(s, d.ok)
      BY <1>b, <1>h, <2>1 DEF Batch
    <2>4. Holds(s, d.ok) => Holds(s, d.ok)' BY <1>1, <2>1, <2>3 DEF Holds
    <2> QED BY <1>1, <2>2, <2>3, <2>4 DEF Batch
  <1>9. ~ProviderStops(runs, s) BY DEF ProviderStops
  <1> QED BY <1>2, <1>3, <1>4, <1>5, <1>6, <1>7, <1>7a, <1>8, <1>9 DEF Forward

(* A forwarder's step, in the current run or in one that ends.             *)
LEMMA ForwardOnWay ==
    ASSUME IInv, SyncInv, leadCtx = "live", MaxErrors = 0, NEW r \in Run, NEW s \in Source,
           Forward(r, s)
    PROVE  OnItsWay'
  <1>0. TypeOK /\ OnItsWay /\ ~Error BY DEF IInv, TypeOK, SyncInv, Error
  <1>1. UNCHANGED <<pc, token, run, todo, loaded, conf, content, runs, cancelled>>
    BY DEF Forward, ProviderReads, Emit, Send, EndBatch, TrackRemoval,
       RemoveOrphans,
           CheckStatus, SaveStatus, ProviderStops, ctxs, files, ops
  <1>2. Ahead' <=> Ahead BY <1>1 DEF Ahead, Working
  <1>3. \A q \in Run : q # runs' \/ Ahead' => RunQuiet(q)'
    BY <1>0, <1>1, <1>2, QuietStays DEF OnItsWay
  <1>4. \A q \in Run, t \in Source : q # r \/ t # s => fwd'[q][t] = fwd[q][t]
    BY <1>0, ForwardFrame
  <1>5. CASE Ahead BY <1>2, <1>3, <1>5 DEF OnItsWay
  <1>6. CASE ~Ahead /\ r # runs
    <2>1. runs \in Run /\ runs \notin cancelled /\ Visits
          /\ (writer[runs].at \in {"none", "recv", "done"} => writer[runs].rec = {})
      BY <1>0, <1>6 DEF OnItsWay
    <2>2. ProviderStops(r, s) BY <1>0, <1>6, QuietForward DEF OnItsWay
    <2>3. UNCHANGED <<writer, db, status>> BY <2>2 DEF ProviderStops, data
    <2>4. \A t \in Source : Hand(t)' = Hand(t) BY <1>1, <2>3 DEF Hand
    <2>5. \A t \in Source : fwd'[runs'][t] = fwd[runs][t] BY <1>1, <1>4, <1>6, <2>1
    <2>6. \A t \in Source : (Handled(t) => Handled(t)') /\ (Cleaned(t) => Cleaned(t)')
      BY <1>1, <2>3, <2>4, <2>5, HandledFrame
    <2>7. Visits' BY <1>1, <2>1, <2>4, <2>5, <2>6, VisitsFrame
    <2> QED BY <1>1, <1>2, <1>3, <2>1, <2>3, <2>7 DEF OnItsWay
  <1>7. CASE ~Ahead /\ r = runs
    <2>1. runs \in Run /\ runs \notin cancelled /\ Visits
          /\ (writer[runs].at \in {"none", "recv", "done"} => writer[runs].rec = {})
      BY <1>0, <1>7 DEF OnItsWay
    <2>2. fwd[runs][s].at # "none" BY <1>0, <1>7, ForwardFrame
    <2>3. fwd[runs][s] # NoFwd BY <2>2 DEF NoFwd
    <2>4. ~Unvisited(s) /\ Handled(s) BY <2>1, <2>3 DEF Visits
    <2>5. conf[s] = "enabled" /\ Batch(s, fwd[runs][s], content[s])
      BY <2>3, <2>4 DEF Handled
    <2>6. Batch(s, fwd[runs][s], content[s])' BY <1>0, <1>7, <2>1, <2>5,
        BatchForward
    <2>7. Handled(s)' /\ (Cleaned(s) => Cleaned(s)')
      BY <1>1, <2>5, <2>6 DEF Handled, Cleaned
    <2>8. \A t \in Source : t # s => db'[t] = db[t] /\ status'[t] = status[t]
      <3>1. db' = db \/ \E x : db' = [db EXCEPT ![s] = x]
        BY DEF Forward, ProviderReads, Emit, Send, EndBatch, TrackRemoval,
           RemoveOrphans,
           CheckStatus, SaveStatus, ProviderStops, data
      <3>2. status' = status \/ \E x : status' = [status EXCEPT ![s] = x]
        BY DEF Forward, ProviderReads, Emit, Send, EndBatch, TrackRemoval,
           RemoveOrphans,
           CheckStatus, SaveStatus, SaveSourceStatus, ProviderStops, data
      <3> QED BY <1>0, <3>1, <3>2 DEF TypeOK
    <2>9. /\ \A t \in Source : t # s => Hand(t)' = Hand(t)
          /\ writer'[runs].at \in {"none", "recv", "done"} => writer'[runs].rec = {}
      <3>1. CASE Send(r, s)
        <4>1. /\ writer[runs].at = "recv"
              /\ writer' = [writer EXCEPT ![runs] =
                              [at |-> "got", rec |-> {s} \X fwd[runs][s].cur]]
          BY <1>7, <3>1 DEF Send
        <4>2. writer'[runs] = [at |-> "got", rec |-> {s} \X fwd[runs][s].cur]
          BY <1>0, <2>1, <4>1 DEF TypeOK
        <4>3. \A t \in Source : Hand(t) = {} BY <2>1, <4>1 DEF Hand
        <4>4. \A t \in Source : t # s => Hand(t)' = {} BY <1>1, <4>2 DEF Hand
        <4> QED BY <4>2, <4>3, <4>4
      <3>2. CASE ~Send(r, s)
        <4>1. writer' = writer
          BY <3>2 DEF Forward, ProviderReads, Emit, EndBatch, TrackRemoval,
             RemoveOrphans, CheckStatus, SaveStatus, ProviderStops
        <4> QED BY <1>1, <2>1, <4>1 DEF Hand
      <3> QED BY <3>1, <3>2
    <2>10. ASSUME NEW t \in Source, t # s
           PROVE  /\ (Handled(t) => Handled(t)') /\ (Cleaned(t) => Cleaned(t)')
                  /\ fwd'[runs'][t] = fwd[runs][t] /\ Hand(t)' = Hand(t)
      <3>1. fwd'[runs'][t] = fwd[runs][t] BY <1>1, <1>4, <2>1, <2>10
      <3> QED BY <1>1, <2>8, <2>9, <2>10, <3>1, HandledFrame
    <2>11. Visits' BY <1>1, <2>1, <2>3, <2>7, <2>10, VisitsFrame
    <2> QED BY <1>1, <1>2, <1>3, <2>1, <2>9, <2>11 DEF OnItsWay
  <1> QED BY <1>5, <1>6, <1>7

(* Saving what is in hand keeps a batch on its way.                        *)
LEMMA BatchSaved ==
    ASSUME NEW s \in Source, Batch(s, fwd[runs][s], content[s]),
           UNCHANGED <<runs, fwd, content, status>>,
           db'[s] = db[s] \cup Hand(s), Hand(s)' = {}
    PROVE  Batch(s, fwd[runs][s], content[s])'
  <1>1. Hand(s) \subseteq content[s].ok /\ Holds(s, content[s].ok)
           => Holds(s, content[s].ok)'
    BY DEF Holds
  <1> DEFINE f == fwd[runs][s]
             d == content[s]
  <1>2. ~f.event => Hand(s) \subseteq d.ok BY DEF Batch
  <1>3. f.event => f.at = "idle" BY DEF Batch
  <1>4. f.at \in {"status", "save"} \/ (f.at = "idle" /\ ~f.event) =>
           (d.ok = {} /\ d.bad # {}) \/ Holds(s, d.ok)
    BY DEF Batch
  <1>5. f.at \in {"status", "save"} \/ (f.at = "idle" /\ ~f.event) =>
           (d.ok = {} /\ d.bad # {}) \/ Holds(s, d.ok)'
    BY <1>1, <1>2, <1>3, <1>4
  <1> QED BY <1>5 DEF Batch

(* A writer's step: the record of the current run passes its check.        *)
LEMMA WriteOnWay ==
    ASSUME IInv, RunOwnership, SyncInv, leadCtx = "live", MaxErrors = 0, NEW r \in Run, Write(r)
    PROVE  OnItsWay'
  <1>0. TypeOK /\ OnItsWay /\ ~Error /\ Turns BY DEF IInv, TypeOK, SyncInv, Error
  <1>1. UNCHANGED <<pc, token, run, todo, loaded, conf, content, runs, cancelled, fwd, status>>
    BY DEF Write, CheckRecord, SaveModel, ChannelClosed, ctxs, files, ops, data
  <1>2. Ahead' <=> Ahead BY <1>1 DEF Ahead, Working
  <1>3. \A q \in Run : q # runs' \/ Ahead' => RunQuiet(q)'
    BY <1>0, <1>1, <1>2, QuietStays DEF OnItsWay
  <1>4. CASE Ahead BY <1>2, <1>3, <1>4 DEF OnItsWay
  <1>5. CASE ~Ahead
    <2>1. runs \in Run /\ runs \notin cancelled /\ Visits
          /\ (writer[runs].at \in {"none", "recv", "done"} => writer[runs].rec = {})
      BY <1>0, <1>5 DEF OnItsWay
    <2>2. ASSUME UNCHANGED db, writer'[runs].rec = writer[runs].rec,
                 writer'[runs].at \in {"none", "recv", "done"}
                    => writer[runs].at \in {"none", "recv", "done"}
          PROVE  OnItsWay'
      <3>1. \A t \in Source : Hand(t)' = Hand(t) BY <1>1, <2>2 DEF Hand
      <3>2. \A t \in Source : (Handled(t) => Handled(t)') /\ (Cleaned(t) => Cleaned(t)')
        BY <1>1, <2>2, <3>1, HandledFrame
      <3>3. Visits' BY <1>1, <2>1, <3>1, <3>2, VisitsFrame
      <3> QED BY <1>1, <1>2, <1>3, <2>1, <2>2, <3>3 DEF OnItsWay
    <2>3. CASE r # runs
      <3>1. RunQuiet(r) BY <1>0, <2>3 DEF OnItsWay
      <3>2. ChannelClosed(r) BY <3>1 DEF Write, CheckRecord, SaveModel, RunQuiet
      <3>3. UNCHANGED db /\ writer'[runs] = writer[runs]
        BY <1>0, <2>1, <2>3, <3>2 DEF ChannelClosed, data, TypeOK
      <3> QED BY <2>2, <3>3
    <2>4. CASE r = runs /\ CheckRecord(r)
      <3>1. pc[Leader] \notin {"idle", "begin"}
        <4>1. pc[Leader] = "begin" => Ahead BY Callers DEF Ahead, Working, Before
        <4> QED BY <1>0, <1>5, <4>1 DEF Turns
      <3>2. isLeader BY <3>1 DEF RunOwnership, FlagInCallback
      <3>3. writer' = [writer EXCEPT ![runs] = [@ EXCEPT !.at = "save"]]
        BY <2>1, <2>4, <3>2 DEF CheckRecord
      <3>4. writer'[runs].at = "save" /\ writer'[runs].rec = writer[runs].rec
        BY <1>0, <2>1, <3>3 DEF TypeOK, WriterType
      <3>5. UNCHANGED db BY <2>4 DEF CheckRecord, data
      <3> QED BY <2>2, <3>4, <3>5
    <2>5. CASE r = runs /\ ChannelClosed(r)
      <3>1. UNCHANGED db /\ writer[runs].at = "recv"
            /\ writer' = [writer EXCEPT ![runs].at = "done"]
        BY <2>5 DEF ChannelClosed, data
      <3>2. writer'[runs].rec = writer[runs].rec
        BY <1>0, <2>1, <3>1 DEF TypeOK, WriterType
      <3> QED BY <2>2, <3>1, <3>2
    <2>6. CASE r = runs /\ SaveModel(r)
      <3>1. /\ db' = [t \in Source |-> db[t] \cup {m \in Model : <<t, m>> \in writer[runs].rec}]
            /\ writer' = [writer EXCEPT ![runs] = [at |-> "recv", rec |-> {}]]
        BY <1>0, <2>6 DEF SaveModel
      <3>2. writer'[runs].rec = {} BY <1>0, <2>1, <3>1 DEF TypeOK
      <3>3. \A t \in Source : Hand(t)' = {} /\ db'[t] = db[t] \cup Hand(t)
        BY <1>1, <3>1, <3>2 DEF Hand
      <3>4. ASSUME NEW t \in Source, Hand(t) = {}
            PROVE  (Handled(t) => Handled(t)') /\ (Cleaned(t) => Cleaned(t)')
        <4>1. db'[t] = db[t] /\ Hand(t)' = Hand(t) BY <3>3, <3>4
        <4> QED BY <1>1, <4>1, HandledFrame
      <3>5. ASSUME NEW t \in Source, Handled(t), Hand(t) # {}
            PROVE  Handled(t)' /\ (Cleaned(t) => Cleaned(t)')
        <4>1. conf[t] = "enabled" /\ Batch(t, fwd[runs][t], content[t])
          BY <3>5 DEF Handled
        <4>2. Batch(t, fwd[runs][t], content[t])' BY <1>1, <3>3, <4>1, BatchSaved
        <4> QED BY <1>1, <4>1, <4>2 DEF Handled, Cleaned
      <3>6. Visits' BY <1>1, <2>1, <3>3, <3>4, <3>5, VisitsFrame
      <3> QED BY <1>1, <1>2, <1>3, <2>1, <3>2, <3>6 DEF OnItsWay
    <2> QED BY <2>3, <2>4, <2>5, <2>6 DEF Write
  <1> QED BY <1>4, <1>5

(* Before a run starts there is nothing to show but that the others are    *)
(* quiet: from the election or the edit on ...                             *)
LEMMA WakeUpOnWay ==
    ASSUME IInv, Turns, Serial,
           Elected \/ \E w \in Watcher, s \in Source, v \in Settings : EditConfig(w, s, v)
    PROVE  OnItsWay'
  <1>0. TypeOK /\ pc \in [Caller -> CallerPCs] /\ token \in [Watcher -> BOOLEAN]
    BY DEF IInv, TypeOK
  <1>1. Quiet /\ UNCHANGED <<fwd, writer>> BY DEF Elected, EditConfig, MayEdit
  <1>2. \A r \in Run : RunQuiet(r)' BY <1>0, <1>1, QuietRuns DEF RunQuiet
  <1>3. Ahead'
    <2>1. CASE Elected
      <3>1. pc'[Leader] = "begin" BY <1>0, <2>1, Callers DEF Elected
      <3> QED BY <3>1, Callers DEF Ahead, Working, Before
    <2>2. ASSUME NEW w \in Watcher, NEW s \in Source, NEW v \in Settings, EditConfig(w, s, v)
          PROVE  Ahead'
      <3>1. token'[w] /\ pc'[w] = pc[w] BY <1>0, <2>2 DEF EditConfig, ops
      <3>2. pc[w] = "idle" BY <1>1, Callers DEF Quiet, Turns
      <3> QED BY <3>1, <3>2, Callers DEF Ahead, Working, Before
    <2> QED BY <2>1, <2>2
  <1> QED BY <1>2, <1>3 DEF OnItsWay

(* ... to setCloser.                                                       *)
LEMMA AheadOnWay ==
    ASSUME IInv, RunOwnership, SyncInv, leadCtx = "live",
           BeginTerm \/ \E w \in Watcher : WatchStep(w)
    PROVE  OnItsWay'
  <1>0. /\ TypeOK /\ pc \in [Caller -> CallerPCs] /\ token \in [Watcher -> BOOLEAN]
        /\ OnItsWay /\ Turns
    BY DEF IInv, TypeOK, SyncInv
  <1>1. UNCHANGED <<runs, fwd, writer>>
    BY DEF BeginTerm, WatchStep, TakeEvent, ReloadParsing, ShouldWriteDatabase, ctxs
  <1>2. ASSUME NEW c \in Caller, Working(c), pc[c] \in Before,
               pc'[c] \in Before \ {"idle"}
        PROVE  OnItsWay'
    <2>1. Ahead /\ Ahead' BY <1>2 DEF Ahead, Working, Before
    <2>2. \A r \in Run : RunQuiet(r)' BY <1>0, <1>1, <2>1 DEF OnItsWay, RunQuiet
    <2> QED BY <2>1, <2>2 DEF OnItsWay
  <1>3. CASE BeginTerm
    <2>1. pc[Leader] = "begin" /\ pc'[Leader] = "closer" BY <1>0, <1>3,
        Callers DEF BeginTerm
    <2> QED BY <1>2, <2>1, Callers DEF Working, Before
  <1>4. ASSUME NEW w \in Watcher, TakeEvent(w) PROVE OnItsWay'
    <2>1. pc[w] = "idle" /\ token[w] /\ pc'[w] = "reload" BY <1>0, <1>4,
        Callers DEF TakeEvent
    <2> QED BY <1>2, <2>1, Callers DEF Working, Before
  <1>5. ASSUME NEW w \in Watcher, ReloadParsing(w) PROVE OnItsWay'
    <2>1. pc[w] = "reload" /\ pc'[w] = "decide" BY <1>0, <1>5,
        Callers DEF ReloadParsing
    <2> QED BY <1>2, <2>1, Callers DEF Working, Before
  <1>6. ASSUME NEW w \in Watcher, ShouldWriteDatabase(w) PROVE OnItsWay'
    <2>1. pc[w] = "decide" BY <1>6 DEF ShouldWriteDatabase
    <2>2. pc[Leader] = "active" BY <1>0, <2>1 DEF Turns, Working
    <2>3. isLeader BY <2>2 DEF RunOwnership, FlagInCallback
    <2>4. pc'[w] = "closer" BY <1>0, <1>6, <2>3, Callers DEF ShouldWriteDatabase
    <2> QED BY <1>2, <2>1, <2>4, Callers DEF Working, Before
  <1> QED BY <1>3, <1>4, <1>5, <1>6 DEF WatchStep

(* A new run: the previous one is quiet and cancelled, the new one empty.  *)
LEMMA SetCloserOnWay ==
    ASSUME IInv, SyncInv, leadCtx = "live", NEW c \in Caller, SetCloser(c)
    PROVE  OnItsWay'
  <1>0. /\ TypeOK /\ pc \in [Caller -> CallerPCs] /\ run \in [Caller -> 0..MaxRuns]
        /\ OnItsWay /\ Turns /\ Started /\ closer = runs /\ runs \in Nat
    BY DEF IInv, TypeOK, SyncInv, RunOrder, MaxRuns
  <1>1. /\ pc[c] = "closer" /\ pc' = [pc EXCEPT ![c] = "drain"]
        /\ runs < MaxRuns /\ runs' = runs + 1 /\ run' = [run EXCEPT ![c] = runs + 1]
        /\ cancelled' \subseteq cancelled \cup {closer}
        /\ UNCHANGED <<token, fwd, writer>>
    BY DEF SetCloser, files
  <1>2. runs' \in Run /\ runs' > runs
    <2>1. MaxRuns \in Nat BY BoundsAssumption DEF MaxRuns
    <2> QED BY <1>0, <1>1, <2>1 DEF Run
  <1>3. pc'[c] = "drain" /\ run'[c] = runs' BY <1>0, <1>1
  <1>4. Working(c)' /\ pc'[c] \notin Before BY <1>3 DEF Working, Before
  <1>5. ~Ahead' /\ \A d \in Caller : d # c => pc'[d] \in {"idle", "active"}
    <2>1. \A w \in Watcher : token[w] => w # c BY <1>0, <1>1 DEF Turns
    <2>2. Working(c) BY <1>1 DEF Working
    <2>3. \A d \in Caller : d # c => ~Working(d) BY <1>0, <2>2, OneCaller
    <2>4. \A d \in Caller : d # c => pc'[d] = pc[d] BY <1>0, <1>1
    <2>5. \A d \in Caller : d # c => ~Working(d)' BY <1>1, <2>3, <2>4 DEF Working
    <2> QED BY <1>4, <2>3, <2>4, <2>5 DEF Ahead, Working
  <1>6. runs' \notin cancelled' BY <1>0, <1>1, <1>2 DEF Started
  <1>7. writer'[runs'] = NoWriter /\ \A s \in Source : fwd'[runs'][s] = NoFwd
    BY <1>0, <1>1, <1>2 DEF Started
  <1>8. \A s \in Source : Hand(s)' = {} BY <1>7 DEF Hand, NoWriter
  <1>9. \A s \in Source : Unvisited(s)' BY <1>3 DEF Unvisited, Owes
  <1>10. Visits' BY <1>3, <1>5, <1>7, <1>8, <1>9 DEF Visits, Loading
  <1>11. Ahead BY <1>1 DEF Ahead, Working, Before
  <1>12. \A r \in Run : RunQuiet(r)' BY <1>0, <1>1, <1>11 DEF OnItsWay, RunQuiet
  <1> QED BY <1>2, <1>5, <1>6, <1>7, <1>10, <1>12 DEF OnItsWay, NoWriter

(* What the following steps of the caller have in common: it is alone, and *)
(* the current run is on its way.                                          *)
LEMMA CallerAlone ==
    ASSUME SyncInv, leadCtx = "live", NEW c \in Caller,
           pc[c] \in {"drain", "cleanup", "load", "read", "settle", "ready"}
    PROVE  /\ ~Ahead /\ sources = conf /\ runs \in Run /\ runs \notin cancelled /\ Visits
           /\ writer[runs].at \in {"none", "recv", "done"} => writer[runs].rec = {}
           /\ \A r \in Run : r # runs => RunQuiet(r)
           /\ \A d \in Caller : d # c => pc[d] \in {"idle", "active"}
           /\ \A w \in Watcher : ~token[w]
  <1>1. Working(c) /\ pc[c] \notin Before BY DEF Working, Before
  <1> QED BY <1>1, Alone DEF SyncInv, OnItsWay

(* The caller's next step: no run is about to start after it, either.      *)
LEMMA CallerMoves ==
    ASSUME TypeOK, SyncInv, leadCtx = "live", NEW c \in Caller,
           pc[c] \in {"drain", "cleanup", "load", "read", "settle", "ready"},
           NEW x, x \notin Before \ {"idle"}, pc' = [pc EXCEPT ![c] = x], UNCHANGED token
    PROVE  ~Ahead' /\ pc'[c] = x /\ \A d \in Caller : d # c => pc'[d] = pc[d]
  <1>1. pc \in [Caller -> CallerPCs] BY DEF TypeOK
  <1>2. pc'[c] = x /\ \A d \in Caller : d # c => pc'[d] = pc[d] BY <1>1
  <1>3. /\ \A d \in Caller : d # c => pc[d] \in {"idle", "active"}
        /\ \A w \in Watcher : ~token[w]
    BY CallerAlone
  <1> QED BY <1>2, <1>3 DEF Ahead, Working, Before

(* ... and what the run owes to the sources is what that caller owes.      *)
LEMMA CallerVisits ==
    ASSUME SyncInv, leadCtx = "live", NEW c \in Caller,
           pc[c] \in {"drain", "cleanup", "load", "read", "settle", "ready"}
    PROVE  /\ pc[c] \in Loading => run[c] = runs
           /\ pc[c] = "read" =>
                 \A e \in todo[c] : e[2] = conf[e[1]] /\ e[2] # "absent" /\ e[1] \notin loaded
           /\ \A s \in Source :
                 /\ Owes(c, s) => fwd[runs][s] = NoFwd /\ Hand(s) = {}
                 /\ ~Owes(c, s) => Handled(s)
                 /\ pc[c] \in {"load", "read"} => Cleaned(s)
  <1>1. Visits /\ \A d \in Caller : d # c => pc[d] \in {"idle",
      "active"} BY CallerAlone
  <1>2. \A d \in Caller, s \in Source : d # c => ~Owes(d, s) BY <1>1 DEF Owes
  <1>3. \A s \in Source : Unvisited(s) <=> Owes(c, s) BY <1>2 DEF Unvisited
  <1> QED BY <1>1, <1>3 DEF Visits

(* A step of that caller: it is enough to look at what it owes after it.   *)
LEMMA CallerOnWay ==
    ASSUME TypeOK, SyncInv, leadCtx = "live", NEW c \in Caller,
           pc[c] \in {"drain", "cleanup", "load", "read", "settle", "ready"},
           NEW x, x \notin Before \ {"idle"}, pc' = [pc EXCEPT ![c] = x],
           x \in Loading => pc[c] \in Loading,
           UNCHANGED <<token, runs, run, cancelled, conf>>,
           \A r \in Run : r # runs => fwd'[r] = fwd[r] /\ writer'[r] = writer[r],
           writer'[runs].at \in {"none", "recv", "done"} => writer'[runs].rec = {},
           x = "read" =>
              \A e \in todo'[c] : e[2] = conf[e[1]] /\ e[2] # "absent" /\ e[1] \notin loaded',
           \A s \in Source : /\ Owes(c, s)' => fwd'[runs][s] = NoFwd /\ Hand(s)' = {}
                             /\ ~Owes(c, s)' => Handled(s)'
                             /\ x \in {"load", "read"} => Cleaned(s)'
    PROVE  OnItsWay'
  <1>1. /\ runs \in Run /\ runs \notin cancelled
        /\ \A r \in Run : r # runs => RunQuiet(r)
        /\ \A d \in Caller : d # c => pc[d] \in {"idle", "active"}
    BY CallerAlone
  <1>2. ~Ahead' /\ pc'[c] = x /\ \A d \in Caller : d # c => pc'[d] = pc[d] BY CallerMoves
  <1>3. \A r \in Run : r # runs => RunQuiet(r)' BY <1>1 DEF RunQuiet
  <1>4. \A d \in Caller : d # c => pc'[d] \in {"idle", "active"} BY <1>1, <1>2
  <1>5. \A s \in Source : Unvisited(s)' <=> Owes(c, s)'
    <2>1. \A d \in Caller, s \in Source : d # c => ~Owes(d, s)' BY <1>4 DEF Owes
    <2> QED BY <2>1 DEF Unvisited
  <1>6. \A d \in Caller : pc'[d] \in Loading => run'[d] = runs'
    <2>1. pc[c] \in Loading => run[c] = runs BY CallerVisits
    <2> QED BY <1>2, <1>4, <2>1 DEF Loading
  <1>7. \A d \in Caller : pc'[d] = "read" =>
           \A e \in todo'[d] : e[2] = conf'[e[1]] /\ e[2] # "absent" /\ e[1] \notin loaded'
    BY <1>2, <1>4
  <1>8. \A s \in Source :
           /\ IF Unvisited(s)' THEN fwd'[runs'][s] = NoFwd /\ Hand(s)' = {} ELSE Handled(s)'
           /\ (\E d \in Caller : pc'[d] \in {"load", "read"}) => Cleaned(s)'
    BY <1>2, <1>4, <1>5
  <1>9. Visits' BY <1>6, <1>7, <1>8 DEF Visits
  <1> QED BY <1>1, <1>2, <1>3, <1>9 DEF OnItsWay

(* The waits: before the cleanup every source is owed, after the writer is *)
(* started none is.                                                        *)
LEMMA WaitOnWay ==
    ASSUME IInv, SyncInv, leadCtx = "live",
           LeaderReady \/ \E c \in Caller : Drain(c) \/ Settle(c)
    PROVE  OnItsWay'
  <1>0. TypeOK BY DEF IInv
  <1>1. PICK c \in Caller, x \in {"cleanup", "ready", "idle", "active"} :
           /\ pc' = [pc EXCEPT ![c] = x]
           /\ \/ pc[c] = "drain" /\ x = "cleanup"
              \/ pc[c] \in {"settle", "ready"} /\ x # "cleanup"
    BY Callers DEF LeaderReady, Drain, Settle
  <1>2. UNCHANGED <<token, run, todo, loaded, conf, content, runs, cancelled, fwd, writer, db,
                    status>>
    BY DEF LeaderReady, Drain, Settle, files, ctxs, data
  <1>3. pc'[c] = x BY <1>0, <1>1 DEF TypeOK
  <1>4. writer[runs].at \in {"none", "recv", "done"} => writer[runs].rec = {}
    BY <1>1, CallerAlone
  <1>5. ASSUME NEW s \in Source
        PROVE  /\ Owes(c, s)' => fwd'[runs][s] = NoFwd /\ Hand(s)' = {}
               /\ ~Owes(c, s)' => Handled(s)'
    <2>1. Owes(c, s)' <=> Owes(c, s) BY <1>1, <1>3 DEF Owes
    <2>2. /\ Owes(c, s) => fwd[runs][s] = NoFwd /\ Hand(s) = {}
          /\ ~Owes(c, s) => Handled(s)
      BY <1>1, CallerVisits
    <2>3. Hand(s)' = Hand(s) BY <1>2 DEF Hand
    <2>4. Handled(s) => Handled(s)' BY <1>2, <2>3, HandledFrame
    <2> QED BY <1>2, <2>1, <2>2, <2>3, <2>4
  <1>6. x \notin Before \ {"idle"} /\ x \notin {"load", "read"}
        /\ (x \in Loading => pc[c] \in Loading)
    BY <1>1 DEF Before, Loading
  <1> QED BY <1>0, <1>1, <1>2, <1>4, <1>5, <1>6, CallerOnWay

(* The cleanup removes what is in no configuration or disabled there.      *)
LEMMA CleanupOnWay ==
    ASSUME IInv, SyncInv, leadCtx = "live", MaxErrors = 0, NEW c \in Caller, Cleanup(c)
    PROVE  OnItsWay'
  <1>0. TypeOK /\ ~Error BY DEF IInv, TypeOK, Error
  <1>1. /\ pc[c] = "cleanup" /\ pc' = [pc EXCEPT ![c] = "load"]
        /\ Forget(Source) /\ ForgetStatus(Source)
        /\ UNCHANGED <<token, run, todo, loaded, conf, content, runs, cancelled, fwd, writer>>
    BY <1>0 DEF Cleanup, files, ctxs
  <1>2. sources = conf /\ (writer[runs].at \in {"none", "recv", "done"} => writer[runs].rec = {})
    BY <1>1, CallerAlone
  <1>3. pc'[c] = "load" BY <1>0, <1>1 DEF TypeOK
  <1>4. ASSUME NEW s \in Source
        PROVE  Owes(c, s)' /\ fwd'[runs][s] = NoFwd /\ Hand(s)' = {} /\ Cleaned(s)'
    <2>1. Owes(c, s) /\ Owes(c, s)' BY <1>1, <1>3 DEF Owes
    <2>2. fwd[runs][s] = NoFwd /\ Hand(s) = {} BY <1>1, <2>1, CallerVisits
    <2>3. Hand(s)' = Hand(s) BY <1>1 DEF Hand
    <2>4. Cleaned(s)' BY <1>1, <1>2 DEF Cleaned, Forget, ForgetStatus
    <2> QED BY <1>1, <2>1, <2>2, <2>3, <2>4
  <1>5. "load" \notin Before /\ pc[c] \in Loading BY <1>1 DEF Before, Loading
  <1> QED BY <1>0, <1>1, <1>2, <1>4, <1>5, CallerOnWay

(* readProviderRecords starts with every configured source to visit: the   *)
(* others have been dealt with.                                            *)
LEMMA LoadAllOnWay ==
    ASSUME IInv, SyncInv, leadCtx = "live", NEW c \in Caller, LoadAllModels(c)
    PROVE  OnItsWay'
  <1>0. TypeOK BY DEF IInv
  <1>1. /\ pc[c] = "load" /\ pc' = [pc EXCEPT ![c] = "read"] /\ loaded' = {}
        /\ todo' = [todo EXCEPT ![c] = {<<s, sources[s]>> : s \in
                                           {s \in Source : sources[s] # "absent"}}]
        /\ UNCHANGED <<token, run, conf, content, runs, cancelled, fwd, writer, db, status>>
    BY DEF LoadAllModels, files, ctxs, data
  <1>2. sources = conf /\ (writer[runs].at \in {"none", "recv", "done"} => writer[runs].rec = {})
    BY <1>1, CallerAlone
  <1>3. /\ pc'[c] = "read"
        /\ todo'[c] = {<<s, conf[s]>> : s \in {s \in Source : conf[s] # "absent"}}
    BY <1>0, <1>1, <1>2 DEF TypeOK
  <1>4. \A e \in todo'[c] : e[2] = conf[e[1]] /\ e[2] # "absent" /\ e[1] \notin loaded'
    BY <1>1, <1>3
  <1>5. ASSUME NEW s \in Source
        PROVE  /\ Owes(c, s)' => fwd'[runs][s] = NoFwd /\ Hand(s)' = {}
               /\ ~Owes(c, s)' => Handled(s)'
               /\ Cleaned(s)'
    <2>1. Owes(c, s) BY <1>1 DEF Owes
    <2>2. fwd[runs][s] = NoFwd /\ Hand(s) = {} /\ Cleaned(s) BY <1>1, <2>1,
        CallerVisits
    <2>3. Hand(s)' = Hand(s) BY <1>1 DEF Hand
    <2>4. Cleaned(s)' BY <1>1, <2>2 DEF Cleaned
    <2>5. conf[s] # "absent" => <<s, conf[s]>> \in todo'[c] BY <1>3
    <2>6. ~Owes(c, s)' => conf[s] = "absent" BY <1>1, <1>3, <2>5 DEF Owes
    <2>7. ~Owes(c, s)' => Handled(s)' BY <1>1, <2>2, <2>3, <2>4, <2>6 DEF Handled
    <2> QED BY <1>1, <2>2, <2>3, <2>4, <2>7
  <1>6. "read" \notin Before /\ pc[c] \in Loading BY <1>1 DEF Before, Loading
  <1> QED BY <1>0, <1>1, <1>2, <1>4, <1>5, <1>6, CallerOnWay

(* A source is visited: its status says why it is not loaded, or its       *)
(* forwarder is about to read the file.                                    *)
LEMMA ReadSourceOnWay ==
    ASSUME IInv, SyncInv, leadCtx = "live", MaxErrors = 0,
           NEW c \in Caller, NEW s \in Source, NEW v \in Settings, ReadSource(c, s, v)
    PROVE  OnItsWay'
  <1>0. /\ TypeOK /\ ~Error /\ pc \in [Caller -> CallerPCs]
        /\ todo \in [Caller -> SUBSET (Source \X Settings)]
        /\ fwd \in [Run -> [Source -> FwdType]] /\ status \in [Source -> Statuses]
    BY DEF IInv, TypeOK, Error
  <1>1. /\ pc[c] = "read" /\ <<s, v>> \in todo[c]
        /\ todo' = [todo EXCEPT ![c] = @ \ {<<s, v>>}]
        /\ UNCHANGED <<pc, token, run, conf, content, runs, cancelled, writer, db>>
    BY DEF ReadSource, files, ctxs
  <1>2. /\ runs \in Run
        /\ writer[runs].at \in {"none", "recv", "done"} => writer[runs].rec = {}
    BY <1>1, CallerAlone
  <1>3. /\ run[c] = runs
        /\ \A e \in todo[c] : e[2] = conf[e[1]] /\ e[2] # "absent" /\ e[1] \notin loaded
    BY <1>1, CallerVisits DEF Loading
  <1>4. v = conf[s] /\ v # "absent" /\ s \notin loaded BY <1>1, <1>3
  <1>5. todo'[c] = todo[c] \ {<<s, v>>} BY <1>0, <1>1
  <1>6. \/ v = "disabled" /\ loaded' = loaded /\ fwd' = fwd
           /\ status' = [status EXCEPT ![s] = "disabled"]
        \/ v = "invalid" /\ loaded' \subseteq loaded \cup {s} /\ fwd' = fwd
           /\ status' = [status EXCEPT ![s] = "error"]
        \/ v = "enabled" /\ loaded' = loaded \cup {s} /\ status' = status
           /\ fwd' = [fwd EXCEPT ![runs][s].at = "read"]
    BY <1>0, <1>3, <1>4 DEF ReadSource, SaveSourceStatus
  <1>7. \A e \in todo'[c] : e[2] = conf[e[1]] /\ e[2] # "absent" /\ e[1] \notin loaded'
    <2>1. ASSUME NEW e \in todo'[c] PROVE e[1] # s
      <3>1. e \in todo[c] /\ e # <<s, v>> /\ e \in Source \X Settings BY <1>0,
          <1>5, <2>1
      <3>2. e = <<e[1], e[2]>> BY <3>1
      <3> QED BY <1>3, <1>4, <3>1, <3>2
    <2>2. loaded' \subseteq loaded \cup {s} BY <1>6
    <2> QED BY <1>3, <1>5, <2>1, <2>2
  <1>8. \A r \in Run : r # runs => fwd'[r] = fwd[r] BY <1>0, <1>2, <1>6
  <1>9. \A t \in Source : Hand(t)' = Hand(t) BY <1>1 DEF Hand
  <1>10. ASSUME NEW t \in Source, t # s
         PROVE  /\ Owes(c, t)' => fwd'[runs][t] = NoFwd /\ Hand(t)' = {}
                /\ ~Owes(c, t)' => Handled(t)'
                /\ Cleaned(t)'
    <2>1. fwd'[runs][t] = fwd[runs][t] /\ status'[t] = status[t]
      BY <1>0, <1>2, <1>6, <1>10
    <2>2. Owes(c, t)' <=> Owes(c, t)
      <3>1. <<t, conf[t]>> \in todo'[c] <=> <<t,
          conf[t]>> \in todo[c] BY <1>5, <1>10
      <3> QED BY <1>1, <3>1 DEF Owes
    <2>3. (Handled(t) => Handled(t)') /\ (Cleaned(t) => Cleaned(t)')
      BY <1>1, <1>9, <2>1, HandledFrame
    <2>4. /\ Owes(c, t) => fwd[runs][t] = NoFwd /\ Hand(t) = {}
          /\ ~Owes(c, t) => Handled(t)
          /\ Cleaned(t)
      BY <1>1, CallerVisits
    <2> QED BY <1>9, <2>1, <2>2, <2>3, <2>4
  <1>11. ~Owes(c, s)' /\ Handled(s)' /\ Cleaned(s)'
    <2>1. Owes(c, s) BY <1>1, <1>4 DEF Owes
    <2>2. fwd[runs][s] = NoFwd /\ Hand(s) = {} /\ Cleaned(s) BY <1>1, <2>1,
        CallerVisits
    <2>3. ~Owes(c, s)' BY <1>1, <1>4, <1>5 DEF Owes
    <2>4. Cleaned(s)' BY <1>1, <1>4, <2>2 DEF Cleaned
    <2>5. CASE v = "disabled"
      <3>1. fwd' = fwd /\ status'[s] = "disabled" BY <1>0, <1>6, <2>5
      <3> QED BY <1>1, <1>4, <1>9, <2>2, <2>3, <2>4, <2>5, <3>1 DEF Handled
    <2>6. CASE v = "invalid"
      <3>1. fwd' = fwd /\ status'[s] = "error" BY <1>0, <1>6, <2>6
      <3> QED BY <1>1, <1>4, <1>9, <2>2, <2>3, <2>4, <2>6, <3>1 DEF Handled
    <2>7. CASE v = "enabled"
      <3>1. fwd' = [fwd EXCEPT ![runs][s].at = "read"] BY <1>6, <2>7
      <3>2. fwd'[runs][s] = [NoFwd EXCEPT !.at = "read"] BY <1>0, <1>2, <2>2, <3>1
      <3>3. /\ fwd'[runs][s].at = "read" /\ ~fwd'[runs][s].event /\ fwd'[runs][s].names = {}
            /\ fwd'[runs][s].failed = {} /\ fwd'[runs][s].cur = {}
        BY <3>2 DEF NoFwd
      <3>4. Hand(s)' = {} BY <1>9, <2>2
      <3>5. Batch(s, fwd[runs][s], content[s])' BY <1>1, <3>3, <3>4 DEF Batch
      <3> QED BY <1>1, <1>4, <2>3, <2>4, <2>7, <3>5 DEF Handled
    <2> QED BY <1>6, <2>5, <2>6, <2>7
  <1>12. pc' = [pc EXCEPT ![c] = "read"] BY <1>0, <1>1
  <1>13. /\ "read" \notin Before \ {"idle"} /\ pc[c] \in Loading
         /\ pc[c] \in {"drain", "cleanup", "load", "read", "settle", "ready"}
    BY <1>1 DEF Before, Loading
  <1>14. \A r \in Run : r # runs => fwd'[r] = fwd[r] /\ writer'[r] = writer[r]
    BY <1>1, <1>8
  <1>15. writer'[runs].at \in {"none", "recv", "done"} => writer'[runs].rec = {}
    BY <1>1, <1>2
  <1>16. \A t \in Source : /\ Owes(c, t)' => fwd'[runs][t] = NoFwd /\ Hand(t)' = {}
                           /\ ~Owes(c, t)' => Handled(t)'
                           /\ Cleaned(t)'
    BY <1>10, <1>11
  <1>17. TypeOK /\ UNCHANGED <<token, runs, run, cancelled, conf>> BY <1>0, <1>1
  <1> QED BY <1>7, <1>12, <1>13, <1>14, <1>15, <1>16, <1>17, CallerOnWay

(* The writer starts once every source has been visited.                   *)
LEMMA SpawnOnWay ==
    ASSUME IInv, RunOwnership, SyncInv, leadCtx = "live", NEW c \in Caller, SpawnWriter(c)
    PROVE  OnItsWay'
  <1>0. TypeOK /\ writer \in [Run -> WriterType] BY DEF IInv, TypeOK
  <1>1. /\ pc[c] = "read" /\ todo[c] = {} /\ pc' = [pc EXCEPT ![c] = "settle"]
        /\ writer' = [writer EXCEPT ![run[c]].at = "recv"]
        /\ UNCHANGED <<token, run, conf, content, runs, cancelled, fwd, db, status>>
    BY DEF SpawnWriter, files, ctxs, data
  <1>2. run[c] = runs /\ runs \in Run BY <1>1, CallerVisits, CallerAlone DEF Loading
  <1>3. writer[runs].at = "none" /\ writer[runs].rec = {}
    <2>1. writer[runs].at = "none" BY <1>1, <1>2 DEF RunOwnership,
                                      LoadersOwnRuns, Loading
    <2> QED BY <1>1, <2>1, CallerAlone
  <1>4. /\ writer'[runs].rec = writer[runs].rec
        /\ \A r \in Run : r # runs => writer'[r] = writer[r]
    BY <1>0, <1>1, <1>2 DEF WriterType
  <1>5. pc'[c] = "settle" BY <1>0, <1>1 DEF TypeOK
  <1>6. ASSUME NEW s \in Source PROVE ~Owes(c, s)' /\ Handled(s)'
    <2>1. ~Owes(c, s) /\ ~Owes(c, s)' BY <1>1, <1>5 DEF Owes
    <2>2. Handled(s) BY <1>1, <2>1, CallerVisits
    <2>3. Hand(s)' = Hand(s) BY <1>1, <1>4 DEF Hand
    <2> QED BY <1>1, <2>1, <2>2, <2>3, HandledFrame
  <1>7. /\ "settle" \notin Before \ {"idle"} /\ "settle" \notin Loading
        /\ "settle" \notin {"load", "read"} /\ "settle" # "read"
    BY DEF Before, Loading
  <1>8. \A r \in Run : r # runs => fwd'[r] = fwd[r] /\ writer'[r] = writer[r] BY <1>1, <1>4
  <1>9. writer'[runs].at \in {"none", "recv",
      "done"} => writer'[runs].rec = {} BY <1>3, <1>4
  <1>10. pc[c] \in {"drain", "cleanup", "load", "read", "settle", "ready"} BY <1>1
  <1> QED BY <1>0, <1>1, <1>6, <1>7, <1>8, <1>9, <1>10, CallerOnWay

(* The current run when the plugin is quiet: nothing is owed, nothing is   *)
(* in hand, and the forwarders of enabled sources wait for an event.       *)
LEMMA QuietRun ==
    ASSUME IInv, RunOwnership, NotAbandoned, SyncInv, leadCtx = "live", Quiet
    PROVE  /\ ~Ahead /\ runs \in Run /\ runs \notin cancelled /\ Visits
           /\ writer[runs].at \in {"none", "recv", "done"} /\ writer[runs].rec = {}
           /\ \A s \in Source :
                 /\ ~Unvisited(s) /\ Handled(s) /\ Hand(s) = {}
                 /\ conf[s] = "enabled" => fwd[runs][s].at = "idle" /\ ~fwd[runs][s].event
  <1>0. TypeOK /\ OnItsWay /\ Turns BY DEF IInv, SyncInv
  <1>1. ~Ahead BY QuietCallers DEF Ahead
  <1>2. /\ runs \in Run /\ runs \notin cancelled /\ Visits
        /\ writer[runs].at \in {"none", "recv", "done"} => writer[runs].rec = {}
    BY <1>0, <1>1 DEF OnItsWay
  <1>3. RunQuiet(runs) BY <1>0, <1>2, QuietRuns
  <1>4. writer[runs].at \in {"none", "recv", "done"} /\ writer[runs].rec = {}
    BY <1>2, <1>3 DEF RunQuiet
  <1>5. pc[Leader] = "active" BY <1>0, Callers DEF Quiet, Turns
  <1>6. isLeader BY <1>5 DEF RunOwnership, FlagInCallback
  <1>7. ASSUME NEW s \in Source
        PROVE  /\ ~Unvisited(s) /\ Handled(s) /\ Hand(s) = {}
               /\ conf[s] = "enabled" => fwd[runs][s].at = "idle" /\ ~fwd[runs][s].event
    <2>1. ~Unvisited(s) BY DEF Quiet, Unvisited, Owes
    <2>2. Handled(s) BY <1>2, <2>1 DEF Visits
    <2>3. Hand(s) = {} BY <1>4 DEF Hand
    <2>4. ASSUME conf[s] = "enabled"
          PROVE  fwd[runs][s].at = "idle" /\ ~fwd[runs][s].event
      <3>1. fwd[runs][s].at \notin {"none", "closed"} BY <2>2,
          <2>4 DEF Handled, Batch
      <3>2. writer[runs].at # "done" BY <1>2, <1>5, <1>6, <3>1 DEF NotAbandoned
      <3> QED BY <1>3, <3>1, <3>2 DEF RunQuiet
    <2> QED BY <2>1, <2>2, <2>3, <2>4
  <1> QED BY <1>1, <1>2, <1>4, <1>7

(* A catalog file changes: the forwarder of the current run has an event,  *)
(* and earlier runs have no forwarder that waits for one.                  *)
LEMMA EditCatalogOnWay ==
    ASSUME IInv, RunOwnership, NotAbandoned, SyncInv, Serial, leadCtx = "live",
           NEW s \in Source, NEW d \in Contents, EditCatalog(s, d)
    PROVE  OnItsWay'
  <1>0. /\ TypeOK /\ OnItsWay /\ Started /\ OneLiveRun /\ runs \in Nat /\ Run \subseteq Nat
        /\ fwd \in [Run -> [Source -> FwdType]] /\ content \in [Source -> Contents]
    BY DEF IInv, TypeOK, SyncInv, MaxRuns, Run
  <1>1. /\ Quiet /\ content' = [content EXCEPT ![s] = d]
        /\ UNCHANGED <<pc, token, run, todo, loaded, conf, runs, cancelled, writer, db, status>>
    BY DEF EditCatalog, MayEdit, ops, ctxs, data
  <1>2. /\ ~Ahead /\ runs \in Run /\ runs \notin cancelled /\ Visits
        /\ writer[runs].rec = {}
        /\ \A t \in Source :
              /\ ~Unvisited(t) /\ Handled(t) /\ Hand(t) = {}
              /\ conf[t] = "enabled" => fwd[runs][t].at = "idle" /\ ~fwd[runs][t].event
    BY <1>1, QuietRun
  <1>3. ASSUME NEW r \in Run
        PROVE  /\ \A t \in Source : t # s => fwd'[r][t] = fwd[r][t]
               /\ IF fwd[r][s].at \in {"none", "closed"} THEN fwd'[r][s] = fwd[r][s]
                  ELSE fwd'[r][s] = [fwd[r][s] EXCEPT !.event = TRUE]
    <2>1. fwd'[r] = IF fwd[r][s].at \in {"none", "closed"} THEN fwd[r]
                    ELSE [fwd[r] EXCEPT ![s].event = TRUE]
      BY DEF EditCatalog
    <2>2. fwd[r] \in [Source -> FwdType] BY <1>0
    <2> QED BY <2>1, <2>2
  <1>4. ~Ahead' BY <1>1, <1>2 DEF Ahead, Working
  <1>5. ASSUME NEW r \in Run, r # runs PROVE RunQuiet(r)'
    <2>1. RunQuiet(r) BY <1>0, <1>5 DEF OnItsWay
    <2>2. fwd[r][s].at # "idle"
      <3>1. CASE r > runs BY <1>0, <3>1 DEF Started, NoFwd
      <3>2. CASE ~(r > runs)
        <4>1. r \in cancelled BY <1>0, <1>5, <3>2 DEF OneLiveRun
        <4> QED BY <1>1, <4>1 DEF Quiet, Busy
      <3> QED BY <3>1, <3>2
    <2>3. fwd[r][s] \in FwdType BY <1>0
    <2>4. fwd'[r][s].at = fwd[r][s].at BY <1>3, <2>3 DEF FwdType
    <2>5. \A t \in Source : t # s => fwd'[r][t] = fwd[r][t] BY <1>3
    <2> QED BY <1>1, <2>1, <2>2, <2>4, <2>5 DEF RunQuiet
  <1>6. \A t \in Source : Hand(t)' = Hand(t) BY <1>1 DEF Hand
  <1>7. \A t \in Source : Unvisited(t)' <=> Unvisited(t) BY <1>1 DEF Unvisited, Owes
  <1>8. ASSUME NEW t \in Source, t # s PROVE Handled(t)'
    <2>1. content'[t] = content[t] /\ fwd'[runs'][t] = fwd[runs][t]
      BY <1>0, <1>1, <1>2, <1>3, <1>8
    <2> QED BY <1>1, <1>2, <1>6, <2>1, HandledFrame
  <1>9. Handled(s)'
    <2>1. CASE conf[s] = "enabled"
      <3>1. fwd[runs][s].at = "idle" /\ Batch(s, fwd[runs][s], content[s]) /\ Hand(s)' = {}
        BY <1>2, <1>6, <2>1 DEF Handled
      <3>2. fwd'[runs][s] = [fwd[runs][s] EXCEPT !.event = TRUE] BY <1>2, <1>3, <3>1
      <3>3. fwd[runs][s] \in FwdType BY <1>0, <1>2
      <3>4. /\ fwd'[runs][s].at = "idle" /\ fwd'[runs][s].event
            /\ fwd'[runs][s].names = fwd[runs][s].names
            /\ fwd'[runs][s].failed = fwd[runs][s].failed
            /\ fwd'[runs][s].cur = fwd[runs][s].cur
        BY <3>1, <3>2, <3>3 DEF FwdType
      <3>5. fwd[runs][s].names = {} /\ fwd[runs][s].failed = {} /\ fwd[runs][s].cur = {}
        BY <3>1 DEF Batch
      <3>6. Batch(s, fwd[runs][s], content[s])' BY <1>1, <3>1, <3>4, <3>5 DEF Batch
      <3> QED BY <1>1, <2>1, <3>6 DEF Handled
    <2>2. CASE conf[s] # "enabled"
      <3>1. fwd[runs][s] = NoFwd BY <1>2, <2>2 DEF Handled
      <3>2. fwd[runs][s].at = "none" BY <3>1 DEF NoFwd
      <3>3. fwd'[runs][s] = fwd[runs][s] BY <1>2, <1>3, <3>2
      <3> QED BY <1>1, <1>2, <1>6, <2>2, <3>3 DEF Handled, Cleaned
    <2> QED BY <2>1, <2>2
  <1>10. \A c \in Caller : pc'[c] \in {"idle", "active"} BY <1>1 DEF Quiet
  <1>11. Visits' BY <1>2, <1>7, <1>8, <1>9, <1>10 DEF Visits, Loading
  <1> QED BY <1>1, <1>2, <1>4, <1>5, <1>11 DEF OnItsWay

(* Every step keeps the current run on its way while leadership lasts.     *)
LEMMA SyncStep ==
    ASSUME IInv, IInv', RunOwnership, NotAbandoned, SyncInv, Serial, MaxErrors = 0, [Next]_vars
    PROVE  SyncInv'
  <1>1. Turns' /\ Parsed' BY TurnsStep DEF SyncInv
  <1>2. Started' BY StartedStep DEF IInv, SyncInv
  <1>3. ASSUME leadCtx' = "live" PROVE OnItsWay'
    <2>e. ~Error BY DEF IInv, TypeOK, Error
    <2>1. CASE Elected BY <2>1, WakeUpOnWay DEF SyncInv
    <2>2. ASSUME NEW w \in Watcher, NEW s \in Source, NEW v \in Settings, EditConfig(w, s, v)
          PROVE  OnItsWay'
      BY <2>2, WakeUpOnWay DEF SyncInv
    <2>3. ~Deposed BY <1>3 DEF Deposed
    <2>4. ASSUME leadCtx' = leadCtx PROVE leadCtx = "live" BY <1>3, <2>4
    <2>5. ASSUME NEW s \in Source, NEW d \in Contents, EditCatalog(s, d)
          PROVE  OnItsWay'
      <3>1. leadCtx = "live" BY <2>4, <2>5 DEF EditCatalog, lead
      <3> QED BY <2>5, <3>1, EditCatalogOnWay
    <2>6. CASE BeginTerm
      <3>1. leadCtx = "live" BY <2>4, <2>6 DEF BeginTerm
      <3> QED BY <2>6, <3>1, AheadOnWay
    <2>7. CASE LeaderReady
      <3>1. leadCtx = "live" BY <2>4, <2>7 DEF LeaderReady, lead
      <3> QED BY <2>7, <3>1, WaitOnWay
    <2>8. ~EndTerm BY <1>3 DEF EndTerm, lead
    <2>9. ~UnsetLeader
      <3>1. leadCtx = "live" => pc[Leader] # "unset" BY DEF SyncInv, Turns
      <3> QED BY <1>3, <3>1 DEF UnsetLeader
    <2>10. ASSUME NEW w \in Watcher, WatchStep(w) PROVE OnItsWay'
      <3>1. leadCtx = "live"
        BY <2>4, <2>10 DEF WatchStep, TakeEvent, ReloadParsing,
           ShouldWriteDatabase, lead
      <3> QED BY <2>10, <3>1, AheadOnWay
    <2>11. ASSUME NEW c \in Caller, SetCloser(c) PROVE OnItsWay'
      <3>1. leadCtx = "live" BY <2>4, <2>11 DEF SetCloser, lead
      <3> QED BY <2>11, <3>1, SetCloserOnWay
    <2>12. ASSUME NEW c \in Caller, Drain(c) \/ Settle(c) PROVE OnItsWay'
      <3>1. leadCtx = "live" BY <2>4, <2>12 DEF Drain, Settle, lead
      <3> QED BY <2>12, <3>1, WaitOnWay
    <2>13. ASSUME NEW c \in Caller, Cleanup(c) PROVE OnItsWay'
      <3>1. leadCtx = "live" BY <2>4, <2>13 DEF Cleanup, lead
      <3> QED BY <2>13, <3>1, CleanupOnWay
    <2>14. ASSUME NEW c \in Caller, LoadAllModels(c) PROVE OnItsWay'
      <3>1. leadCtx = "live" BY <2>4, <2>14 DEF LoadAllModels, lead
      <3> QED BY <2>14, <3>1, LoadAllOnWay
    <2>15. ASSUME NEW c \in Caller, SpawnWriter(c) PROVE OnItsWay'
      <3>1. leadCtx = "live" BY <2>4, <2>15 DEF SpawnWriter, lead
      <3> QED BY <2>15, <3>1, SpawnOnWay
    <2>16. ASSUME NEW c \in Caller, NEW s \in Source, NEW v \in Settings, ReadSource(c, s, v)
           PROVE  OnItsWay'
      <3>1. leadCtx = "live" BY <2>4, <2>16 DEF ReadSource, lead
      <3> QED BY <2>16, <3>1, ReadSourceOnWay
    <2>17. ASSUME NEW r \in Run, NEW s \in Source, Forward(r, s) PROVE OnItsWay'
      <3>1. leadCtx = "live"
        BY <2>4, <2>17 DEF Forward, ProviderReads, Emit, Send, EndBatch,
           TrackRemoval,
           RemoveOrphans, CheckStatus, SaveStatus, ProviderStops, lead
      <3> QED BY <2>17, <3>1, ForwardOnWay
    <2>18. ASSUME NEW r \in Run, Write(r) PROVE OnItsWay'
      <3>1. leadCtx = "live"
        BY <2>4, <2>18 DEF Write, CheckRecord, SaveModel, ChannelClosed, lead
      <3> QED BY <2>18, <3>1, WriteOnWay
    <2>19. CASE UNCHANGED vars
      <3>1. OnItsWay BY <1>3, <2>19 DEF vars, lead, SyncInv
      <3>2. UNCHANGED <<pc, token, run, todo, loaded, conf, content, runs,
                        cancelled, fwd, writer, db, status>>
        BY <2>19 DEF vars, files, ops, ctxs, data
      <3>3. \A t \in Source : Hand(t)' = Hand(t) BY <3>2 DEF Hand
      <3>4. \A t \in Source :
               (Handled(t) => Handled(t)') /\ (Cleaned(t) => Cleaned(t)')
        BY <3>2, <3>3, HandledFrame
      <3>5. Visits => Visits' BY <3>2, <3>3, <3>4, VisitsFrame
      <3>6. (Ahead' <=> Ahead) /\ \A r \in Run : RunQuiet(r) => RunQuiet(r)'
        BY <3>2 DEF Ahead, Working, RunQuiet
      <3> QED BY <3>1, <3>2, <3>5, <3>6 DEF OnItsWay
    <2>20. ASSUME NEW w \in Watcher, ReloadFails(w)
           PROVE  FALSE BY <2>20, <2>e DEF ReloadFails
    <2>21. ASSUME NEW c \in Caller, CleanupFails(c)
           PROVE  FALSE BY <2>21, <2>e DEF CleanupFails
    <2>22. ~LeaderReadyFails BY <2>e DEF LeaderReadyFails
    <2> QED BY <2>1, <2>2, <2>3, <2>5, <2>6, <2>7, <2>8, <2>9, <2>10, <2>11,
               <2>12, <2>13,
               <2>14, <2>15, <2>16, <2>17, <2>18, <2>19, <2>20, <2>21, <2>22
            DEF Next, LeaderStep, Operate
  <1> QED BY <1>1, <1>2, <1>3 DEF SyncInv

(* At the start nobody is at work and no run has been started.             *)
LEMMA InitSync == Init => SyncInv
  <1> SUFFICES ASSUME Init PROVE SyncInv
    OBVIOUS
  <1>1. \A c \in Caller : ~Working(c) BY Callers, WatcherAssumption DEF Init,
      Working
  <1>2. Turns BY <1>1, Callers DEF Init, Turns
  <1>3. Parsed BY DEF Init, Parsed
  <1>4. Started BY DEF Init, Started
  <1> QED BY <1>2, <1>3, <1>4 DEF SyncInv, Init

(* What the quiet plugin has stored is what InSync asks for.               *)
LEMMA QuietInSync ==
    ASSUME IInv, RunOwnership, NotAbandoned, SyncInv, leadCtx = "live", Quiet,
           NEW s \in Source
    PROVE  InSync(s)
  <1>1. /\ Handled(s) /\ Hand(s) = {}
        /\ conf[s] = "enabled" => fwd[runs][s].at = "idle" /\ ~fwd[runs][s].event
    BY QuietRun
  <1>2. conf[s] \in Settings BY DEF IInv, TypeOK
  <1>3. CASE conf[s] = "enabled"
    <2>1. Batch(s, fwd[runs][s], content[s]) BY <1>1, <1>3 DEF Handled
    <2>2. /\ (content[s].ok = {} /\ content[s].bad # {}) \/ Holds(s, content[s].ok)
          /\ status[s] = StatusOf(content[s].ok, content[s].bad)
      BY <1>1, <1>3, <2>1 DEF Batch
    <2>3. Holds(s, content[s].ok) => db[s] = content[s].ok BY <1>1 DEF Holds
    <2>4. db[s] = content[s].ok =>
             /\ content[s].ok \subseteq db[s]
             /\ db[s] \subseteq content[s].ok \cup content[s].bad
      OBVIOUS
    <2> QED BY <1>3, <2>2, <2>3, <2>4 DEF InSync
  <1>4. CASE conf[s] = "invalid" BY <1>1, <1>4 DEF Handled, InSync
  <1>5. CASE conf[s] = "disabled" BY <1>1, <1>5 DEF Handled, Cleaned, InSync
  <1>6. CASE conf[s] = "absent" BY <1>1, <1>6 DEF Handled, Cleaned, InSync
  <1> QED BY <1>2, <1>3, <1>4, <1>5, <1>6 DEF Settings

(* The safety half of Converges, for any number of sources, models, edits  *)
(* and terms, and whether or not waits for writes time out: a leader that  *)
(* has nothing more to do has stored exactly what the configuration and    *)
(* the catalog files say.                                                  *)
THEOREM QuietIsInSync == Spec => []SyncedWhenQuiet
  <1> DEFINE Way == Serial /\ MaxErrors = 0 => SyncInv
             All == IInv /\ RunOwnership /\ NotAbandoned
  <1>1. Spec => []All BY Ownership, ForwardersServed, PTL
  <1>2. Init => Way BY InitSync
  <1>3. All /\ All' /\ Way /\ [Next]_vars => Way'
    <2> SUFFICES ASSUME All, All', Way, [Next]_vars, Serial, MaxErrors = 0
                 PROVE  SyncInv'
      OBVIOUS
    <2> QED BY SyncStep
  <1>4. All /\ Way => SyncedWhenQuiet BY QuietInSync DEF SyncedWhenQuiet
  <1> HIDE DEF Way, All
  <1> QED BY <1>1, <1>2, <1>3, <1>4, PTL DEF Spec
=============================================================================
