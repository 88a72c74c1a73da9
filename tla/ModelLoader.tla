---------------------------- MODULE ModelLoader ----------------------------
(***************************************************************************)
(* One catalog plugin of one replica: PluginBase (plugin/base.go), the     *)
(* shared BaseLoader (basecatalog/loader_base.go) and the ModelLoader      *)
(* (modelcatalog/loader.go) with its YAML provider, writing to the shared  *)
(* database.                                                               *)
(*                                                                         *)
(* Callers of PerformLeaderOperations are the leader callback and one      *)
(* goroutine per watched configuration file.  Every call starts a run: a   *)
(* context, one forwarder goroutine per source (with its provider) and one *)
(* writer goroutine.  Runs are numbered; setCloser cancels the previous.   *)
(***************************************************************************)
EXTENDS Naturals

CONSTANTS Source,     \* the source IDs
          Model,      \* the model names
          Contents,   \* catalog file contents: records [ok, bad] of models
          Watcher,    \* the watched configuration files
          MaxEdits,   \* bound on edits of the configuration or a catalog
          MaxTerms,   \* bound on leadership terms
          MaxErrors,  \* bound on database errors and unreadable configurations
          Serial,     \* edits and elections wait for leader operations to settle
          Timeouts    \* a wait may time out while writes are still going

ASSUME ContentsAssumption ==
    \A d \in Contents : d.ok \subseteq Model /\ d.bad \subseteq Model
ASSUME BoundsAssumption ==
    MaxEdits \in Nat /\ MaxTerms \in Nat /\ MaxErrors \in Nat
ASSUME SwitchAssumption == Serial \in BOOLEAN /\ Timeouts \in BOOLEAN

Leader == "leader"

ASSUME WatcherAssumption == Leader \notin Watcher

Caller == {Leader} \cup Watcher
MaxRuns == MaxTerms + MaxEdits
Run == 1..MaxRuns
Settings == {"absent", "disabled", "invalid", "enabled"}
Statuses == {"none", "disabled", "error", "partial", "available"}

VARIABLES
    conf,      \* the source's setting in the configuration files
    content,   \* the source's catalog file
    sources,   \* l.Sources: the settings last parsed
    token,     \* the event waiting in a watcher's channel
    leadCtx,   \* the leadership context: "none", "live" or "cancelled"
    isLeader,  \* BaseLoader.isLeader
    healthy,   \* PluginBase.healthy
    pc,        \* where each caller is
    run,       \* the run a caller has started
    todo,      \* sources, with their settings, a caller has still to visit
    closer,    \* the run l.closer cancels, 0 if none
    runs,      \* number of runs started
    byLeader,  \* the runs whose context derives from the leadership context
    cancelled, \* the runs whose context is cancelled
    loaded,    \* l.loadedSources
    fwd,       \* forwarder (and provider) of a run and source
    writer,    \* writer goroutine of a run
    db,        \* the models stored, by source
    status,    \* the stored source status
    cleaned,   \* history: the latest run that has done its cleanup
    edits, terms, errors \* used up bounds

files == <<conf, content, token, edits>>
lead  == <<leadCtx, isLeader, terms>>
ops   == <<pc, run, todo>>
ctxs  == <<closer, runs, byLeader, cancelled>>
data  == <<db, status>>
vars  == <<files, sources, lead, healthy, ops, ctxs, loaded, fwd, writer,
           data, cleaned, errors>>

CallerPCs == {"idle", "reload", "decide", "begin", "closer", "drain",
              "cleanup", "load", "read", "spawn", "settle", "ready", "active",
              "unset"}
FwdPCs == {"none", "read", "emit", "send", "marker", "remove", "status",
           "save", "idle", "closed"}
WriterPCs == {"none", "recv", "got", "save", "done"}

NoFwd == [at |-> "none", event |-> FALSE, todo |-> {}, failed |-> {},
          names |-> {}, cur |-> {}]
NoWriter == [at |-> "none", rec |-> {}]

Error == errors < MaxErrors /\ errors' = errors + 1

(* What TrackWrite/WriteComplete count: the writer for its whole life, and *)
(* the removal of orphans.                                                 *)
Inflight == {r \in Run : \/ writer[r].at \notin {"none", "done"}
                         \/ \E s \in Source : fwd[r][s].at = "remove"}

(* A run has work left that it can do without an outside event. *)
Busy(r) == \/ writer[r].at \in {"got", "save"}
           \/ \E s \in Source :
                \/ fwd[r][s].at \in {"read", "emit", "marker", "remove", "status",
                                   "save"}
                \/ fwd[r][s].at = "idle" /\ (fwd[r][s].event \/ r \in cancelled)
                \/ fwd[r][s].at = "send" /\ writer[r].at \in {"none", "recv"}

-----------------------------------------------------------------------------
Init ==
    /\ conf \in [Source -> Settings]
    /\ content \in [Source -> Contents]
    /\ sources = conf
    /\ token = [w \in Watcher |-> FALSE]
    /\ leadCtx = "none"
    /\ isLeader = FALSE
    /\ healthy = TRUE
    /\ pc = [c \in Caller |-> "idle"]
    /\ run = [c \in Caller |-> 0]
    /\ todo = [c \in Caller |-> {}]
    /\ closer = 0
    /\ runs = 0
    /\ byLeader = {}
    /\ cancelled = {}
    /\ loaded = {}
    /\ fwd = [r \in Run |-> [s \in Source |-> NoFwd]]
    /\ writer = [r \in Run |-> NoWriter]
    /\ db \in [Source -> {{}, Model}] \* what an earlier process left
    /\ status = [s \in Source |-> "none"]
    /\ cleaned = 0
    /\ edits = 0 /\ terms = 0 /\ errors = 0

(* The environment edits a configuration file, which wakes its watchers,   *)
(* or a catalog file, which the providers of live runs watch.              *)
Quiet == /\ \A c \in Caller : pc[c] \in {"idle", "active"}
         /\ \A w \in Watcher : ~token[w]
         /\ \A r \in Run : ~Busy(r)

MayEdit == /\ edits < MaxEdits
           /\ Serial => Quiet
           /\ edits' = edits + 1

EditConfig(w, s, v) ==
    /\ MayEdit
    /\ conf[s] # v
    /\ conf' = [conf EXCEPT ![s] = v]
    /\ token' = [token EXCEPT ![w] = TRUE]
    /\ UNCHANGED <<content, sources, lead, healthy, ops, ctxs, loaded, fwd,
                   writer, data, cleaned, errors>>

EditCatalog(s, d) ==
    /\ MayEdit
    /\ content[s] # d
    /\ content' = [content EXCEPT ![s] = d]
    /\ fwd' = [r \in Run |->
                 IF fwd[r][s].at \in {"none", "closed"} THEN fwd[r]
                 ELSE [fwd[r] EXCEPT ![s].event = TRUE]]
    /\ UNCHANGED <<conf, sources, token, lead, healthy, ops, ctxs, loaded,
                   writer, data, cleaned, errors>>

-----------------------------------------------------------------------------
(* The elector: it calls the leader callback with a fresh context, cancels *)
(* the context when leadership is lost, and calls again only after the     *)
(* callback returned.                                                      *)
Elected ==
    /\ leadCtx # "live"
    /\ pc[Leader] = "idle"
    /\ terms < MaxTerms
    /\ Serial => Quiet
    /\ terms' = terms + 1
    /\ leadCtx' = "live"
    /\ pc' = [pc EXCEPT ![Leader] = "begin"]
    /\ UNCHANGED <<files, sources, isLeader, healthy, run, todo, ctxs, loaded,
                   fwd, writer, data, cleaned, errors>>

Deposed ==
    /\ leadCtx = "live"
    /\ leadCtx' = "cancelled"
    /\ cancelled' = cancelled \cup byLeader
    /\ UNCHANGED <<files, sources, isLeader, terms, healthy, ops, closer, runs,
                   byLeader, loaded, fwd, writer, data, cleaned, errors>>

(* PluginBase.OnBecomeLeader: SetLeader(true), then leader operations. *)
BeginTerm ==
    /\ pc[Leader] = "begin"
    /\ ~isLeader
    /\ isLeader' = TRUE
    /\ pc' = [pc EXCEPT ![Leader] = "closer"]
    /\ UNCHANGED <<files, sources, leadCtx, terms, healthy, run, todo, ctxs,
                   loaded, fwd, writer, data, cleaned, errors>>

(* OnLeaderReady (a further write) fails, or the plugin is marked healthy. *)
LeaderReady ==
    /\ pc[Leader] = "ready"
    /\ healthy' = TRUE
    /\ pc' = [pc EXCEPT ![Leader] = "active"]
    /\ UNCHANGED <<files, sources, lead, run, todo, ctxs, loaded, fwd, writer,
                   data, cleaned, errors>>

(* A failed cleanup or OnLeaderReady ends the callback: SetLeader(false).  *)
GiveUpTerm ==
    /\ healthy' = FALSE
    /\ isLeader' = FALSE
    /\ pc' = [pc EXCEPT ![Leader] = "idle"]
    /\ UNCHANGED <<leadCtx, terms>>

LeaderReadyFails ==
    /\ pc[Leader] = "ready"
    /\ Error
    /\ GiveUpTerm
    /\ UNCHANGED <<files, sources, run, todo, ctxs, loaded, fwd, writer, data,
                   cleaned>>

(* Mutant: the wait has no timeout. *)
WaitForever == Inflight = {}

(* WaitForInflightWrites returns when nothing is in flight, or times out:  *)
(* unless Timeouts, only when nothing in flight can do more by itself.     *)
WaitOver == Timeouts \/ \A r \in Inflight : ~Busy(r)

(* <-ctx.Done(), WaitForInflightWrites(5s), SetLeader(false). *)
EndTerm ==
    /\ pc[Leader] = "active"
    /\ leadCtx = "cancelled"
    /\ pc' = [pc EXCEPT ![Leader] = "unset"]
    /\ UNCHANGED <<files, sources, lead, healthy, run, todo, ctxs, loaded, fwd,
                   writer, data, cleaned, errors>>

UnsetLeader ==
    /\ pc[Leader] = "unset"
    /\ WaitOver
    /\ isLeader' = FALSE
    /\ pc' = [pc EXCEPT ![Leader] = "idle"]
    /\ UNCHANGED <<files, sources, leadCtx, terms, healthy, run, todo, ctxs,
                   loaded, fwd, writer, data, cleaned, errors>>

-----------------------------------------------------------------------------
(* PluginBase.watchFile: an event is taken, all files are parsed again, and *)
(* only the leader goes on to write.                                       *)
TakeEvent(w) ==
    /\ pc[w] = "idle"
    /\ token[w]
    /\ token' = [token EXCEPT ![w] = FALSE]
    /\ pc' = [pc EXCEPT ![w] = "reload"]
    /\ UNCHANGED <<conf, content, edits, sources, lead, healthy, run, todo,
                   ctxs, loaded, fwd, writer, data, cleaned, errors>>

ReloadParsing(w) ==
    /\ pc[w] = "reload"
    /\ sources' = conf
    /\ healthy' = TRUE
    /\ pc' = [pc EXCEPT ![w] = "decide"]
    /\ UNCHANGED <<files, lead, run, todo, ctxs, loaded, fwd, writer, data,
                   cleaned, errors>>

(* Some configuration file cannot be read or parsed: the others are merged *)
(* all the same, and the watcher waits for the next event.                 *)
ReloadFails(w) ==
    /\ pc[w] = "reload"
    /\ Error
    /\ \E ok \in SUBSET Source :
        sources' = [s \in Source |-> IF s \in ok THEN conf[s] ELSE sources[s]]
    /\ healthy' = FALSE
    /\ pc' = [pc EXCEPT ![w] = "idle"]
    /\ UNCHANGED <<files, lead, run, todo, ctxs, loaded, fwd, writer, data,
                   cleaned>>

ShouldWriteDatabase(w) ==
    /\ pc[w] = "decide"
    /\ pc' = [pc EXCEPT ![w] = IF isLeader THEN "closer" ELSE "idle"]
    /\ UNCHANGED <<files, sources, lead, healthy, run, todo, ctxs, loaded, fwd,
                   writer, data, cleaned, errors>>

-----------------------------------------------------------------------------
(* Mutant: the previous run is not cancelled. *)
SetCloserNoPreempt(c) ==
    /\ pc[c] = "closer"
    /\ runs < MaxRuns
    /\ runs' = runs + 1
    /\ run' = [run EXCEPT ![c] = runs + 1]
    /\ closer' = runs + 1
    /\ byLeader' = IF c = Leader THEN byLeader \cup {runs + 1} ELSE byLeader
    /\ cancelled' = cancelled
                    \cup {r \in {runs + 1} : c = Leader /\ leadCtx # "live"}
    /\ pc' = [pc EXCEPT ![c] = "drain"]
    /\ UNCHANGED <<files, sources, lead, healthy, todo, loaded, fwd, writer,
                   data, cleaned, errors>>

(* PerformLeaderOperations: a new context, which setCloser makes current,  *)
(* cancelling the previous run.                                            *)
SetCloser(c) ==
    /\ pc[c] = "closer"
    /\ runs < MaxRuns
    /\ runs' = runs + 1
    /\ run' = [run EXCEPT ![c] = runs + 1]
    /\ closer' = runs + 1
    /\ byLeader' = IF c = Leader THEN byLeader \cup {runs + 1} ELSE byLeader
    /\ cancelled' = cancelled \cup ({closer} \ {0})
                    \cup {r \in {runs + 1} : c = Leader /\ leadCtx # "live"}
    /\ pc' = [pc EXCEPT ![c] = "drain"]
    /\ UNCHANGED <<files, sources, lead, healthy, todo, loaded, fwd, writer,
                   data, cleaned, errors>>

(* Mutant: no drain before the cleanup. *)
DrainSkipped(c) ==
    /\ pc[c] = "drain"
    /\ pc' = [pc EXCEPT ![c] = "cleanup"]
    /\ UNCHANGED <<files, sources, lead, healthy, run, todo, ctxs, loaded, fwd,
                   writer, data, cleaned, errors>>

(* Drain in-flight writes of earlier runs. *)
Drain(c) ==
    /\ pc[c] = "drain"
    /\ WaitOver
    /\ pc' = [pc EXCEPT ![c] = "cleanup"]
    /\ UNCHANGED <<files, sources, lead, healthy, run, todo, ctxs, loaded, fwd,
                   writer, data, cleaned, errors>>

(* Mutant: a disabled source keeps its models. *)
ForgetMissing(gone) ==
    db' = [s \in Source |-> IF s \in gone /\ sources[s] = "absent"
                            THEN {} ELSE db[s]]

(* removeModelsFromMissingSources with CleanupOrphanedCatalogSources: the  *)
(* models of sources that are not enabled go, and the status of sources    *)
(* that are in no configuration.                                           *)
Forget(gone) ==
    db' = [s \in Source |-> IF s \in gone /\ sources[s] \in {"absent", "disabled"}
                            THEN {} ELSE db[s]]

ForgetStatus(gone) ==
    status' = [s \in Source |-> IF s \in gone /\ sources[s] = "absent"
                                THEN "none" ELSE status[s]]

Cleanup(c) ==
    /\ pc[c] = "cleanup"
    /\ Forget(Source)
    /\ \/ ForgetStatus(Source) /\ UNCHANGED errors
       \/ Error /\ UNCHANGED status
    /\ cleaned' = IF run[c] > cleaned THEN run[c] ELSE cleaned
    /\ pc' = [pc EXCEPT ![c] = "load"]
    /\ UNCHANGED <<files, sources, lead, healthy, run, todo, ctxs, loaded, fwd,
                   writer>>

(* A failed query or delete stops the cleanup, some sources done. *)
CleanupFails(c) ==
    /\ pc[c] = "cleanup"
    /\ Error
    /\ \E gone \in SUBSET Source : Forget(gone) /\ ForgetStatus(gone)
    /\ IF c = Leader
       THEN GiveUpTerm
       ELSE /\ healthy' = FALSE
            /\ pc' = [pc EXCEPT ![c] = "idle"]
            /\ UNCHANGED lead
    /\ UNCHANGED <<files, sources, run, todo, ctxs, loaded, fwd, writer,
                   cleaned>>

(* Mutant: loadedSources is kept. *)
LoadAllModelsNoReset(c) ==
    /\ pc[c] = "load"
    /\ todo' = [todo EXCEPT ![c] = {<<s, sources[s]>> : s \in
                                      {s \in Source : sources[s] # "absent"}}]
    /\ pc' = [pc EXCEPT ![c] = "read"]
    /\ UNCHANGED <<files, sources, lead, healthy, run, ctxs, loaded, fwd, writer,
                   data, cleaned, errors>>

(* loadAllModels resets loadedSources; AllSources is read. *)
LoadAllModels(c) ==
    /\ pc[c] = "load"
    /\ loaded' = {}
    /\ todo' = [todo EXCEPT ![c] = {<<s, sources[s]>> : s \in
                                      {s \in Source : sources[s] # "absent"}}]
    /\ pc' = [pc EXCEPT ![c] = "read"]
    /\ UNCHANGED <<files, sources, lead, healthy, run, ctxs, fwd, writer, data,
                   cleaned, errors>>

(* SaveSourceStatus: a failure is only logged. *)
SaveSourceStatus(s, v) ==
    \/ status' = [status EXCEPT ![s] = v] /\ UNCHANGED errors
    \/ Error /\ UNCHANGED status

(* readProviderRecords, one source with its setting v: disabled, already   *)
(* loaded, without a type or a usable provider, or started.                *)
ReadSource(c, s, v) ==
    /\ pc[c] = "read"
    /\ <<s, v>> \in todo[c]
    /\ todo' = [todo EXCEPT ![c] = @ \ {<<s, v>>}]
    /\ \/ /\ v = "disabled"
          /\ SaveSourceStatus(s, "disabled")
          /\ UNCHANGED <<loaded, fwd>>
       \/ /\ v # "disabled"
          /\ s \in loaded
          /\ UNCHANGED <<loaded, fwd, status, errors>>
       \/ /\ v = "invalid"
          /\ s \notin loaded
          /\ SaveSourceStatus(s, "error")
          /\ loaded' \in {loaded, loaded \cup {s}}
          /\ UNCHANGED fwd
       \/ /\ v = "enabled"
          /\ s \notin loaded
          /\ loaded' = loaded \cup {s}
          /\ fwd' = [fwd EXCEPT ![run[c]][s].at = "read"]
          /\ UNCHANGED <<status, errors>>
    /\ UNCHANGED <<files, sources, lead, healthy, pc, run, ctxs, writer, db,
                   cleaned>>

(* updateDatabase: TrackWrite and the writer goroutine. *)
SpawnWriter(c) ==
    /\ pc[c] = "read"
    /\ todo[c] = {}
    /\ writer' = [writer EXCEPT ![run[c]].at = "recv"]
    /\ pc' = [pc EXCEPT ![c] = "settle"]
    /\ UNCHANGED <<files, sources, lead, healthy, run, todo, ctxs, loaded, fwd,
                   data, cleaned, errors>>

(* Back in PluginBase: WaitForInflightWrites(30s). *)
Settle(c) ==
    /\ pc[c] = "settle"
    /\ WaitOver
    /\ IF c = Leader
       THEN pc' = [pc EXCEPT ![c] = "ready"] /\ UNCHANGED healthy
       ELSE pc' = [pc EXCEPT ![c] = "idle"] /\ healthy' = TRUE
    /\ UNCHANGED <<files, sources, lead, run, todo, ctxs, loaded, fwd, writer,
                   data, cleaned, errors>>

-----------------------------------------------------------------------------
(* The goroutines of a run.  The provider reads its file, at first and on  *)
(* every event of its watch ...                                            *)
MoveFwd(r, s, f) == fwd' = [fwd EXCEPT ![r][s] = f]

ProviderReads(r, s) ==
    /\ \/ fwd[r][s].at = "read"
       \/ fwd[r][s].at = "idle" /\ fwd[r][s].event
    /\ MoveFwd(r, s, [fwd[r][s] EXCEPT !.at = "emit", !.todo = content[s].ok,
                      !.failed = content[s].bad,
                      !.event = @ /\ fwd[r][s].at = "read"])
    /\ UNCHANGED <<files, sources, lead, healthy, ops, ctxs, loaded, writer,
                   data, cleaned, errors>>

(* ... emits its models one by one and then a record without a model; the  *)
(* forwarder collects the names.                                           *)
Emit(r, s, m) ==
    /\ fwd[r][s].at = "emit"
    /\ m \in fwd[r][s].todo
    /\ MoveFwd(r, s, [fwd[r][s] EXCEPT !.at = "send", !.todo = @ \ {m},
                      !.names = @ \cup {m}, !.cur = {m}])
    /\ UNCHANGED <<files, sources, lead, healthy, ops, ctxs, loaded, writer,
                   data, cleaned, errors>>

(* ch <- r is unbuffered: it needs the writer at the other end. *)
Send(r, s) ==
    /\ fwd[r][s].at = "send"
    /\ writer[r].at = "recv"
    /\ writer' = [writer EXCEPT ![r] = [at |-> "got",
                                        rec |-> {s} \X fwd[r][s].cur]]
    /\ MoveFwd(r, s, [fwd[r][s] EXCEPT !.at = "emit", !.cur = {}])
    /\ UNCHANGED <<files, sources, lead, healthy, ops, ctxs, loaded, data,
                   cleaned, errors>>

(* The end of a batch: orphans are kept when everything failed. *)
CompleteFailure(f) == f.names = {} /\ f.failed # {}

EndBatch(r, s) ==
    /\ fwd[r][s].at = "emit"
    /\ fwd[r][s].todo = {}
    /\ MoveFwd(r, s, [fwd[r][s] EXCEPT !.at =
                  IF CompleteFailure(fwd[r][s]) THEN "status" ELSE "marker"])
    /\ UNCHANGED <<files, sources, lead, healthy, ops, ctxs, loaded, writer,
                   data, cleaned, errors>>

TrackRemoval(r, s) ==
    /\ fwd[r][s].at = "marker"
    /\ MoveFwd(r, s, [fwd[r][s] EXCEPT !.at = "remove"])
    /\ UNCHANGED <<files, sources, lead, healthy, ops, ctxs, loaded, writer,
                   data, cleaned, errors>>

(* removeOrphanedModelsFromSource.  For a model that failed validation the *)
(* forwarder recorded the error's text, which is no model's name: it       *)
(* protects nothing.  A failure part-way is only logged.                   *)
RemoveOrphans(r, s) ==
    /\ fwd[r][s].at = "remove"
    /\ \/ db' = [db EXCEPT ![s] = @ \cap fwd[r][s].names] /\ UNCHANGED errors
       \/ /\ Error
          /\ \E kept \in SUBSET db[s] :
                db' = [db EXCEPT ![s] = (@ \cap fwd[r][s].names) \cup kept]
    /\ MoveFwd(r, s, [fwd[r][s] EXCEPT !.at = "status"])
    /\ UNCHANGED <<files, sources, lead, healthy, ops, ctxs, loaded, writer,
                   status, cleaned>>

(* Mutant: a status SaveSourceStatus does not know. *)
StatusOfUnknown(names, failed) ==
    IF failed = {} THEN "available" ELSE "failed"

StatusOf(names, failed) ==
    IF failed = {} THEN "available"
    ELSE IF names = {} THEN "error" ELSE "partial"

(* The status is saved if the context is live when it is looked at; the    *)
(* batch is forgotten.                                                     *)
CheckStatus(r, s) ==
    /\ fwd[r][s].at = "status"
    /\ \/ /\ r \in cancelled
          /\ MoveFwd(r, s, [fwd[r][s] EXCEPT !.at = "idle", !.names = {},
                                             !.failed = {}])
       \/ /\ r \notin cancelled
          /\ MoveFwd(r, s, [fwd[r][s] EXCEPT !.at = "save"])
    /\ UNCHANGED <<files, sources, lead, healthy, ops, ctxs, loaded, writer,
                   data, cleaned, errors>>

SaveStatus(r, s) ==
    /\ fwd[r][s].at = "save"
    /\ SaveSourceStatus(s, StatusOf(fwd[r][s].names, fwd[r][s].failed))
    /\ MoveFwd(r, s, [fwd[r][s] EXCEPT !.at = "idle", !.names = {},
                                       !.failed = {}])
    /\ UNCHANGED <<files, sources, lead, healthy, ops, ctxs, loaded, writer,
                   db, cleaned>>

(* The provider sees its context cancelled, between two records or while   *)
(* it waits for an event, and closes its channel; the forwarder ends.      *)
ProviderStops(r, s) ==
    /\ fwd[r][s].at \in {"emit", "idle"}
    /\ r \in cancelled
    /\ MoveFwd(r, s, [NoFwd EXCEPT !.at = "closed"])
    /\ UNCHANGED <<files, sources, lead, healthy, ops, ctxs, loaded, writer,
                   data, cleaned, errors>>

(* The writer checks leadership and context before each record ... *)
CheckRecord(r) ==
    /\ writer[r].at = "got"
    /\ writer' = [writer EXCEPT ![r] =
                     IF isLeader /\ r \notin cancelled
                     THEN [@ EXCEPT !.at = "save"]
                     ELSE [at |-> "done", rec |-> {}]]
    /\ UNCHANGED <<files, sources, lead, healthy, ops, ctxs, loaded, fwd, data,
                   cleaned, errors>>

(* ... and saves the model with its artifacts; a failed save is logged. *)
SaveModel(r) ==
    /\ writer[r].at = "save"
    /\ \/ /\ db' = [s \in Source |-> db[s] \cup
                        {m \in Model : <<s, m>> \in writer[r].rec}]
          /\ UNCHANGED errors
       \/ Error /\ UNCHANGED db
    /\ writer' = [writer EXCEPT ![r] = [at |-> "recv", rec |-> {}]]
    /\ UNCHANGED <<files, sources, lead, healthy, ops, ctxs, loaded, fwd,
                   status, cleaned>>

(* The merged channel is closed once every forwarder has ended. *)
ChannelClosed(r) ==
    /\ writer[r].at = "recv"
    /\ \A s \in Source : fwd[r][s].at \in {"none", "closed"}
    /\ writer' = [writer EXCEPT ![r].at = "done"]
    /\ UNCHANGED <<files, sources, lead, healthy, ops, ctxs, loaded, fwd, data,
                   cleaned, errors>>

-----------------------------------------------------------------------------
LeaderStep == BeginTerm \/ LeaderReady \/ EndTerm \/ UnsetLeader

WatchStep(w) == TakeEvent(w) \/ ReloadParsing(w) \/ ShouldWriteDatabase(w)

Operate(c) == \/ SetCloser(c) \/ Drain(c) \/ Cleanup(c) \/ LoadAllModels(c)
              \/ SpawnWriter(c) \/ Settle(c)
              \/ \E s \in Source, v \in Settings : ReadSource(c, s, v)

Forward(r, s) ==
    \/ ProviderReads(r, s) \/ Send(r, s) \/ EndBatch(r, s)
    \/ TrackRemoval(r, s) \/ RemoveOrphans(r, s) \/ CheckStatus(r, s)
    \/ SaveStatus(r, s)
    \/ ProviderStops(r, s)
    \/ \E m \in Model : Emit(r, s, m)

Write(r) == CheckRecord(r) \/ SaveModel(r) \/ ChannelClosed(r)

Next ==
    \/ \E s \in Source :
        \/ \E w \in Watcher, v \in Settings : EditConfig(w, s, v)
        \/ \E d \in Contents : EditCatalog(s, d)
    \/ Elected \/ Deposed
    \/ LeaderStep \/ LeaderReadyFails
    \/ \E w \in Watcher : WatchStep(w) \/ ReloadFails(w)
    \/ \E c \in Caller : Operate(c) \/ CleanupFails(c)
    \/ \E r \in Run : Write(r) \/ \E s \in Source : Forward(r, s)

Spec == Init /\ [][Next]_vars

(***************************************************************************)
(* Fairness: every goroutine that can run does.                            *)
(***************************************************************************)
Fairness ==
    /\ WF_vars(LeaderStep)
    /\ \A w \in Watcher : WF_vars(WatchStep(w))
    /\ \A c \in Caller : WF_vars(Operate(c))
    /\ \A r \in Run : /\ WF_vars(Write(r))
                      /\ \A s \in Source : WF_vars(Forward(r, s))

FairSpec == Spec /\ Fairness

-----------------------------------------------------------------------------
FwdType == [at : FwdPCs, event : BOOLEAN, todo : SUBSET Model,
            failed : SUBSET Model, names : SUBSET Model, cur : SUBSET Model]
WriterType == [at : WriterPCs, rec : SUBSET (Source \X Model)]

TypeOK ==
    /\ conf \in [Source -> Settings]
    /\ content \in [Source -> Contents]
    /\ sources \in [Source -> Settings]
    /\ token \in [Watcher -> BOOLEAN]
    /\ leadCtx \in {"none", "live", "cancelled"}
    /\ isLeader \in BOOLEAN
    /\ healthy \in BOOLEAN
    /\ pc \in [Caller -> CallerPCs]
    /\ run \in [Caller -> 0..MaxRuns]
    /\ todo \in [Caller -> SUBSET (Source \X Settings)]
    /\ closer \in 0..MaxRuns
    /\ runs \in 0..MaxRuns
    /\ byLeader \subseteq Run
    /\ cancelled \subseteq Run
    /\ loaded \subseteq Source
    /\ fwd \in [Run -> [Source -> FwdType]]
    /\ writer \in [Run -> WriterType]
    /\ db \in [Source -> SUBSET Model]
    /\ status \in [Source -> Statuses]
    /\ cleaned \in 0..MaxRuns
    /\ edits \in 0..MaxEdits
    /\ terms \in 0..MaxTerms
    /\ errors \in 0..MaxErrors

(* setCloser preempts: of the runs started, at most the latest has a live  *)
(* context.                                                                *)
OneLiveRun == \A r \in Run : r <= runs /\ r \notin cancelled => r = runs

(* PerformLeaderOperations: a write of an old run cannot re-insert what    *)
(* the cleanup of a later run removed.                                     *)
NoStaleInsert ==
    [][\A r \in Run : (writer[r].at = "save" /\ db' # db /\ SaveModel(r))
                          => cleaned <= r]_vars

(* No forwarder of the live run is left behind: while the plugin leads,    *)
(* the writer of a live run does not end before its forwarders, which      *)
(* would then block for ever on the unbuffered channel.  The exception is  *)
(* a run that outlived its term, until setCloser cancels it.               *)
NotAbandoned ==
    isLeader /\ pc[Leader] # "closer" =>
        \A r \in Run : r \notin cancelled /\ writer[r].at = "done" =>
            \A s \in Source : fwd[r][s].at = "none"

(* A record passes the writer's check only between the start of the leader *)
(* callback and its return, which the elector waits for, and in the run    *)
(* that is current.                                                        *)
ChecksWithinTerm ==
    [][\A r \in Run : writer[r].at # "save" /\ writer'[r].at = "save" =>
          /\ pc[Leader] \notin {"idle", "begin"}
          /\ r = runs]_vars

(* What is written is written by the leader, if waits last long enough and *)
(* no error ends the callback early: both the time-out and GiveUpTerm let  *)
(* a checked record be saved after SetLeader(false).                       *)
OnlyLeaderWrites ==
    ~Timeouts /\ MaxErrors = 0 =>
        \A r \in Run : writer[r].at = "save" => isLeader

(* The strengthening that makes these inductive: runs are numbered in the  *)
(* order of setCloser; once a caller has drained, no earlier run is past   *)
(* its check, unless the wait timed out with writes going.                 *)
RunOrder ==
    /\ closer = runs
    /\ cleaned <= runs
    /\ \A c \in Caller : run[c] <= runs

StaleChecked ==
    ~Timeouts => \A r \in Run : writer[r].at = "save" =>
        /\ cleaned <= r
        /\ \A c \in Caller : pc[c] = "cleanup" => run[c] <= r

(* For the leader flag and the forwarders: isLeader is set between the      *)
(* start of the callback and its return; callers that still load have runs *)
(* of their own, whose writer is not there yet; a run that has not been     *)
(* started has no goroutines; only cancelled runs have closed channels.     *)
Loading == {"drain", "cleanup", "load", "read"}

FlagInCallback == isLeader <=> pc[Leader] \notin {"idle", "begin"}

LoadersOwnRuns ==
    \A c \in Caller : pc[c] \in Loading =>
        /\ run[c] \in Run
        /\ writer[run[c]].at = "none"
        /\ \A d \in Caller : pc[d] \in Loading /\ run[d] = run[c] => d = c

FutureRunsIdle ==
    \A r \in Run : r > runs =>
        writer[r].at = "none" /\ \A s \in Source : fwd[r][s].at = "none"

ClosedIsCancelled ==
    \A r \in Run, s \in Source : fwd[r][s].at = "closed" => r \in cancelled

RunOwnership ==
    FlagInCallback /\ LoadersOwnRuns /\ FutureRunsIdle /\ ClosedIsCancelled

IInv == TypeOK /\ OneLiveRun /\ RunOrder /\ StaleChecked

(* The leader callback returns once its context is cancelled: the elector  *)
(* waits for it before it gives up or retries the lock.                    *)
CallbackReturns == (leadCtx = "cancelled") ~> (pc[Leader] = "idle")

(* What the database should hold for a source: every model of its file     *)
(* that is valid, and of the others at most those that are in the file but *)
(* failed (FailedKept says whether these stay).                            *)
InSync(s) ==
    CASE conf[s] \in {"absent", "disabled"} ->
            /\ db[s] = {}
            /\ status[s] = IF conf[s] = "absent" THEN "none" ELSE "disabled"
      [] conf[s] = "invalid" -> status[s] = "error"
      [] conf[s] = "enabled" ->
            /\ \/ content[s].ok = {} /\ content[s].bad # {}
               \/ /\ content[s].ok \subseteq db[s]
                  /\ db[s] \subseteq content[s].ok \cup content[s].bad
            /\ status[s] = StatusOf(content[s].ok, content[s].bad)

(* Nothing is left behind: when a leader's callers, forwarders and writers *)
(* have nothing more to do, the database holds what the configuration and  *)
(* the catalog files say, although the waits for writes may have timed     *)
(* out, earlier runs were cut off at any point, and an earlier process     *)
(* left its data.                                                          *)
SyncedWhenQuiet ==
    Serial /\ MaxErrors = 0 /\ leadCtx = "live" /\ Quiet =>
        \A s \in Source : InSync(s)

(* While leadership lasts, the database comes to hold what the             *)
(* configuration and the catalog files say.                                *)
Converges == <>[](leadCtx = "live" => \A s \in Source : InSync(s))

(* The comment on the removal of orphans: "Preserve failed models so they  *)
(* are not deleted as orphans during partial sync."  A stored model that   *)
(* is in the file but failed validation outlives the removal.              *)
FailedKept ==
    [][\A r \in Run, s \in Source :
        fwd[r][s].at = "remove" /\ fwd'[r][s].at = "status" =>
            db[s] \cap fwd[r][s].failed \subseteq db'[s]]_vars
=============================================================================
