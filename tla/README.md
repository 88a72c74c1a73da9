# Verification of the model registry

TLA+ models of the concurrent core of this repository, the TLC configurations
that check them on small instances, and TLAPS proofs of their main invariants.
Three parts are covered: the catalog server (`catalog/`), whose replicas share
a PostgreSQL database, initialize it, elect a leader and let only the leader
write what the catalog files say; the programs around the registry that keep
it in line with a cluster (the inference service controller, the async upload
job and the UI's transfer jobs); and the page-by-page lists of both servers.

## Running

    tlc -config LeaderElection.cfg MCLeaderElection    # any cfg, with its MC module
    tlapm ModelLoaderProofs.tla                        # any *Proofs module

`PROJECT.json` lists every run with the properties it checks, the source lines
every definition stands for, a mutant of the code for every property, the
hazards the properties are for, and the theorems.

## Inventory

### The catalog server

| Part | State | Operations | Interacts with |
|---|---|---|---|
| Leader election, `catalog/internal/leader/election.go` | row of the pglock table (shared); per replica: `isLeader`, `leaderCtx`, `onBecomeLeader`, `consecutiveFailures`, `activeCallbacks` | `run`, `runOnce` (acquire, publish, start callbacks, heartbeat, drain, clear, release), `OnBecomeLeader`, `Healthy`, schema reset | pglock/PostgreSQL; calls the leader callbacks; readiness probe |
| Command, `catalog/cmd/catalog.go` | contexts, server, elector | start-up, migration and reconnect on leadership, shutdown | all of the below |
| Plugin server and registry, `catalog/internal/plugin/server.go`, `registry.go` | plugins, router, readiness checks | `Init`, `Start`, `Stop`, `NotifyLeader`, `Reconnect`, `/readyz` | one goroutine per plugin in a term |
| Plugin base, `catalog/internal/plugin/base.go` | `healthy`, watchers | `Start`, `watchFile`, `OnBecomeLeader`, `Stop` | file monitor, loader |
| Base loader, `basecatalog/loader_base.go` | `isLeader`, in-flight writes | `SetLeader`, `ShouldWriteDatabase`, `TrackWrite`, `WaitForInflightWrites` | loaders |
| Model loader, `modelcatalog/loader.go` | `Sources`, `closer`, `loadedSources`; goroutines: forwarders and a writer per run | `ParseAllConfigs`, `ReloadParsing`, `PerformLeaderOperations`, `UpdateServices` | providers over channels, database, source status |
| YAML provider, `modelcatalog/yaml_catalog.go` | goroutine per source and run | read, emit, reload, stop | file monitor, forwarder |
| File monitor, `basecatalog/monitor.go` | records with hash and channels | `Path`, its cleanup goroutine, `monitor`, `Close` | fsnotify, every watcher and provider |
| Source status, `basecatalog/source_status.go` | rows per source | `SaveSourceStatus`, `CleanupOrphanedCatalogSources` | loaders |
| Source collection, `modelcatalog/sources.go` | origins and entries | `Merge`, field-wise override | model loader |
| Sibling loaders (MCP, agents, skills, serving runtimes) | as the model loader | as the model loader, with a write path of their own | same base classes |
| Hugging Face provider, performance metrics | caches | periodic sync; read of files beside a model | model loader |
| Property options refresher, `catalog/internal/db/models/property_options.go` | a ticker | `Trigger`, refresh of the materialized views | every write |
| Pagination, `internal/platform/db/scopes/paginate.go`, `catalog/internal/db/pagination`, `modelcatalog/service/catalog_model.go` | none: the position of a walk is in the client's token | `List`, ordering, cursor, token | tables that change between the pages |

### The rest of the repository

| Part | State and operations |
|---|---|
| Inference service controller, `pkg/inferenceservice-controller` | reconcile loop: finalizer, id label, record in the registry; API server with resource versions, informer cache |
| Async upload job, `jobs/async-upload` | `main` for three intents: validate or set PENDING, transfer, record; run by pods that Kubernetes retries |
| Transfer jobs of the UI's back end, `clients/ui/bff` | create, retry and delete: ConfigMaps, Secrets, Job, owner references, roll-back |
| Registry core, `internal/core` | registered models, versions, artifacts, experiments, inference services: upserts with parent and name checks |
| Repository, `internal/platform/db` | save with properties in transactions; lists; filters; connection |
| Registry proxy, `cmd/proxy.go`, `internal/proxy` | router swap when the database is connected; readiness |
| Storage initializer `cmd/csi` | one-shot download |
| UI front end, Python clients, OpenAPI code, manifests | presentation, generated, thin or data |

### What is hard

* **Election.** Acquisition, publication of `isLeader` under `mu`, the snapshot
  of callbacks and late registrations interleave; crashes, expired leases,
  dropped tables and shutdowns fall between any two of these. Correct: a
  callback runs once per term and is not missed; the row is handed over only
  after the drain; a replica that lost its row notices; one leader in the end.
* **Loading.** The leader callback and one goroutine per configuration file
  call `PerformLeaderOperations`; each call leaves goroutines behind that share
  `loadedSources`, the in-flight counter and the database. Correct: only the
  latest run is live; an old write does not undo a later cleanup; a lasting
  leader brings the database in line with the files; the callback returns when
  leadership ends.
* **Watching.** Events are coalesced, delayed, and dropped when a slot is full;
  subscriptions come and go. Correct: no change is lost, channels are closed
  exactly once.
* **Start-up.** Lock, migration and registration of types use different
  database sessions, each of which can be lost, and the database itself lives on
  an emptyDir. Correct: who reports success left a complete schema; a leader
  ingests through repositories of the present database; some leader does in the
  end.
* **Mirroring.** The controller acts on a cache that is behind, every call can
  fail or conflict, and the object can be deleted in between. Correct: records
  follow the life of their service and are never left DEPLOYED; no deletion is
  blocked.
* **Uploading.** Pods are killed between any two calls and started again beside
  retries of the user. Correct: one artifact, after its upload, and nothing is
  left behind.
* **Listing.** The order of a page, the comparison with the cursor and the value
  written into the token must describe the same total order while rows change.
  Correct: each row once, and an end.

## Modules

| Module | Models | Checked by | Proved in |
|---|---|---|---|
| `LeadershipTerms` | what the election promises (abstract) | through `KeepsTerms` | `LeaderElectionProofs` |
| `LeaderElection` | `leader/election.go`, any number of replicas | `LeaderElection.cfg` | `LeaderElectionProofs` |
| `ModelLoader` | `plugin/base.go`, `loader_base.go`, `modelcatalog/loader.go`, `yaml_catalog.go`, `source_status.go`, one plugin of one replica | `ModelLoader*.cfg` | `ModelLoaderProofs` |
| `FileMonitor` | `basecatalog/monitor.go` and its subscribers | `FileMonitor.cfg` | `FileMonitorProofs` |
| `CatalogStartup` | `cmd/catalog.go`, `plugin/server.go`, `datastore/embedmd`, `platform/db/postgres`, any number of pods | `CatalogStartup.cfg` | `CatalogStartupProofs` |
| `DeploymentRecord` | what the controller promises (abstract) | through `Refinement` | `InferenceServiceControllerProofs` |
| `InferenceServiceController` | `pkg/inferenceservice-controller/controller.go` | `InferenceServiceController.cfg` | `InferenceServiceControllerProofs` |
| `UploadJob` | `jobs/async-upload`, any number of jobs | `UploadJob.cfg` | `UploadJobProofs` |
| `TransferJobs` | `bff/internal/repositories/model_transfer_jobs.go`, composed with `UploadJob` | `TransferJobs.cfg` | `TransferJobsProofs` |
| `Listing` | `paginate.go`, `pagination.go`, `generic_repository.go` (`List`), `catalog_model.go` | `Listing.cfg`, `ListingTies.cfg` | `ListingProofs` |

Each has an `MC` module that gives its constants values for TLC.

Operators introduced by the comment "Mutant:" are faulty versions of the
definition that follows. No specification uses them; they show that a property
fails when the code does.

### LeaderElection

`pc[n]` is where `run()`/`runOnce()` of replica `n` is. `isLeader`, `leaderCtx`
and `registered` are the fields `mu` guards; `handle` is the lock handle,
`running` the goroutines counted by `activeCallbacks`, `captured` a call of
`OnBecomeLeader` between the unlock of `mu` and `startCallback`. A leadership
context is named by the number of the grant it was made for. The row (`lease`,
`version`, `grant`) is pglock's and external: it can be absent, free, held or
lapsed, and an acquisition takes a free or lapsed row. A heartbeat or a release
finds the row by its version number alone. `version` is the grant whose handle
has that number; a table created anew comes with a new sequence, so a handle of
the dropped table (`stale`) may have, by chance, the number of the new row too
(`NumberMatches`), and then renews or frees a row that is not its own.

Faults, at most `MaxFaults`: crash, shutdown, dropped table, database error
(also one after the row was written), and a lease that lapses although its
holder still renews it. A lease nobody renews lapses at any time and is no
fault. Delays have no length.

`LeadershipTerms` is what the plugins may rely on: each grant of the lock is a
term of its own, a callback is launched at most once in a term, and a replica
leaves its term only when the term's context is cancelled and its callbacks
have returned. `KeepsTerms` instantiates it with the
grants, the handles, and the goroutines that run with the present context. That
two replicas can believe to lead at the same time is part of the promise.

### ModelLoader

A *caller* is the leader callback or a watcher; `pc[c]` is its position in
`OnBecomeLeader` or `watchFile` and, inside, in `PerformLeaderOperations`. Each
call starts a *run*, numbered by `setCloser`: its context (`cancelled`), a
forwarder with provider per source (`fwd[r][s]`) and a writer (`writer[r]`).
A source is absent, disabled, invalid (its provider cannot be created) or
enabled; a catalog file is the set of models that load and of those that fail.
The elector appears as `Elected` and `Deposed`, following the contract that
`LeaderElection` establishes: the next term starts after the callback returned.

Four things the model keeps because properties depend on them: the writer
counts as one in-flight write from its start to its end; it checks context and
leadership before every record and stops reading when the check fails; the
forwarder sends on an unbuffered channel without looking at its context; and an
error record of a failed model carries no model.

Two switches restrict behaviours. `Timeouts`: `WaitForInflightWrites` gives up
after 5 or 30 seconds. It must also end while idle writers count as in flight,
which is its normal case. With `Timeouts = FALSE` it ends only when nothing in
flight has work it can do by itself, that is, a write takes less than the
timeout; with `TRUE` at any moment. `Serial`: edits and elections come one
after the other, each after the operations before it have settled.

### FileMonitor

`hash` and `channels` are a record's fields, `token[s]` the slot of a
subscription's channel, `at` the monitor goroutine. The scan holds `recordsMu`
for reading, so `Path()` and the cleanup goroutines are excluded while it runs,
file changes are not. Contents are numbered and a hash is identified with its
contents (CRC collisions are left out). Subscribers act as the YAML provider
does: register, read, then read for every event. A file can change, be removed
and come back, and get earlier contents again (`RevertFile`). The history
variable `muddled` collects the files whose contents came back and those that
two live subscriptions shared: there the one hash of the record can hide a
change (see below), and `NoLostChange` and `CatchesUp` claim nothing of them.

### CatalogStartup

`pc[p]` is where pod `p` is in `Initialize()` or after it. Databases are
numbered by `epoch`; a wipe starts the next, empty one. `done`, `repoSet`,
`repos` and `router` say which database each of the pod's results was read
from. `initLock` and `migLock` are the advisory locks of the initialization and
of golang-migrate, on sessions of their own: `LoseSession` takes either away
while the pod goes on. The rows are the types and their properties, registered
one by one (look up, then create). `recovering` tells the initialization of a
new leader from the one at start-up: the first ends the process when it fails
while the term lasts, and falls back to serving when the term is over. A
migration cut off by a time-out leaves `dirty`, which every later start
refuses. Faults, at most `MaxFaults`: crash, time-out, failed query or
reconnect, lost session, lost term.

### InferenceServiceController

One worker, `pc` the call that `Reconcile()` makes next, `copy` the object it
took from the cache. An object has its UID, deletion mark, finalizer, labels
and URL; a name can be applied again, with the id label of an earlier life.
Resource versions are not numbered: `synced` and `fresh` say whether the cache
and the copy are current, and an `Update` of a copy that is not fails. Watch
events are coalesced to the newest version, as an informer does. Registry
(`up`) and its Service (`svc`) come and go without bound. Names share only the
worker and the registry's ServingEnvironment, so one name with two lives is
enough for TLC; the proofs are for any number.

`DeploymentRecord` is what the rest of the system may rely on: one record per
service, made while the service exists, UNDEPLOYED only when it is being
deleted, and never DEPLOYED again. `Refinement` instantiates it with the life
of the objects in the API server and the states of the registry's records.

### UploadJob and TransferJobs

`UploadJob` is the Job objects (`job`, `failures`), one pod at a time for each
(`pod[j]` is the call it makes next) and the registry's view of one model, one
version and its artifacts. All jobs have the same intent and the same names: a
job and its retries, which is where they can meet. `Register` is another client.
A pod fails at any step (`PodFails`), after or instead of the call, and the Job
controller starts the next until `BackoffLimit` is used up. Deleting a Job
orphans its pods and objects, because the delete options name no propagation
policy: a pod that runs goes on and is counted by nobody.

`TransferJobs` extends it: `Submit`, `Delete` and `StartPod` become part of the
back end's requests, which run call by call (`req[j]`) and may fail, lose an
answer or be cut off at each. `UploadSpec` is checked and proved as a property
of it: the composition adds behaviour around the jobs but none to them, so that
the theorems about `UploadJob` carry over (`TransferArtifactIsUnique`).
`excused` marks requests that lost a call which the code does not repair.

### Listing

A walk of one client: `FetchPage` is the query of a page, the token steps make
the cursor of the next. Pages are sets with a last row, rows have a sort value
(`NULL` without the property, 0 for the empty string) and an id. Where the
order leaves ties, the database may choose any arrangement. Insertions, changes
and deletions come between any two steps, also between the page and its token.
`touched` are rows changed during the walk, about which nothing is claimed;
`misled` marks a walk whose token has another value than the row that ended the
page, which the code allows (see below). `Long` are the sort values whose token
has more than 1024 characters: the server makes such a token and then refuses
it (`RefuseToken`), and the walk ends with an error.

## Runs

Every passing run but `loader_convergence` and `upload_jobs` also checks the
type invariant of its module.

| Run | Bounds | Result |
|---|---|---|
| `election` | 2 replicas, 1 callback, 2 faults | `KeepsTerms`, `CallbacksDrained`, `NoMissedCallback`, `HandoverAfterDrain`, `StaleLeaderStepsDown`, `EventuallyOneLeader` hold |
| `loader_safety` | 1 source, 1 watcher, 1 edit, 2 terms, 1 error | `OneLiveRun`, `NotAbandoned`, `NoStaleInsert` hold |
| `loader_convergence` | 1 source, 2 edits, 2 terms, serial, any timeout | `SyncedWhenQuiet`, `Converges`, `CallbackReturns` hold |
| `loader_overlap` | 1 edit, 1 term, not serial | **`Converges` fails** |
| `loader_failed` | 1 edit, 1 term, a file whose second model fails | **`FailedKept` fails** |
| `file_monitor` | 1 file, 2 subscriptions, 2 changes | `NoPanic`, `HashTracks`, `NoLostChange`, `CatchesUp`, `ChannelsClose` hold |
| `catalog_startup` | 2 pods, 3 plugins of which 2 reconnect, 2 migrations, 2 rows, 1 wipe, 1 fault | `SchemaComplete`, `NoStaleIngest`, `Recovers` hold |
| `isvc_controller` | 1 name with 2 lives, 2 edits, 1 crash, any outages | `Refinement`, `UndeployedWhenGone`, `DeletionNotBlocked`, `EventuallyInSync` hold |
| `upload_jobs` | 2 jobs, 2 pods each, 3 faults | `OneArtifact`, `UriIsUploaded`, `JobsEnd`, `PendingSettles` hold |
| `transfer_jobs` | 2 requests, 2 pods each, 2 faults, 1 lost call or crash | `TypeOK` (with `UploadJob`'s), `NoLeak`, `UploadSpec` hold |
| `listing` | all tables of 4 rows with 3 values, one empty and one too long, pages of 1 and 2, 1 change | `ExactlyOnce`, `WalkEnds` hold |
| `listing_ties` | 2 rows of one value, pages of 1 | **`ExactlyOnce` fails** |

Why the bounds are enough to meet the cases: two replicas make a hand-over and
a split brain, and two faults make a crash after an error or a dropped table
under a leader. Two terms and an edit give three runs of leader operations, so
an old, a preempted and a current one coexist; one source suffices because
sources meet only in `loadedSources`, one entry each, and in the writer's
channel. Two subscriptions and two changes let a change fall before, into and
after a scan while the other subscription registers or leaves. Three plugins,
two of which reconnect, make a reconnect that fails after none, one or both were
refreshed and a plugin that is never asked. Two pods that
start beside each other on every half-initialized database, with a wipe and a
fault anywhere, meet each other's locks and each other's half-done work. A name
with two lives meets its own stale cache and label. Two jobs of one intent meet
in every check and creation, and three faults use up one job's pods and hurt
the other (three jobs were checked once, with the same result). Four rows and
pages of two have ties within a page and across its end, with a row before,
at and behind the cursor left to be changed.

`CHECK_DEADLOCK FALSE` is set where the system comes to rest when the work or
the bounds are used up (loader, monitor, start-up, jobs, listing). The election
and the controller never stop and are checked for deadlock.

### Fairness

Every action that is a step of a running goroutine is weakly fair: the Go
scheduler runs what can run, locks in the code are held for finite work, and
database calls return. For the election also: Kubernetes restarts an ended pod,
an unrenewed lease lapses, and a callback returns once its context is
cancelled, which is the contract `OnBecomeLeader` states and which
`CallbackReturns` shows for the plugin. Faults, errors, edits, elections,
cancellations and `Close()` are never fair.

Start-up: a pod's steps are weakly fair and Kubernetes restarts it; the
advisory lock is strongly fair, because PostgreSQL queues its waiters.
Controller: deliveries, the removal of an object without finalizers and the
worker's calls are weakly fair; `Get(k)` is strongly fair because the work
queue is first in, first out, so that a key which keeps coming back is served.
Jobs: the Job controller and a running pod go on. Listing: the client asks for
the next page and the server answers.

### What the failing runs show

Each fails on a statement the repository makes; `PROJECT.json` quotes it.

* `loader_overlap`: `loadedSources` belongs to the loader. A preempted run that
  marks a source after the newer run's reset makes the newer run skip it, and
  its own provider runs on a cancelled context: nobody loads the source. This
  is why `loader_convergence` assumes `Serial`.
* `loader_failed`: the list of failed models holds error texts (`loader.go:462`),
  not names, so a stored model of a YAML file that now fails validation is
  removed as an orphan, which line 493 means to prevent. `InSync`, the target of
  `SyncedWhenQuiet` and `Converges`, leaves failed models out: they may be kept
  or not.
* `listing_ties`: by CREATE_TIME and LAST_UPDATE_TIME a page is ordered by the
  time alone and continued by time and id. Rows of the same time that the
  database arranged otherwise are skipped. This is why the `listing` run and
  `WalkIsExact` leave the ordering by `"column"` out.

### Behaviours seen while modelling that no run is spent on

Election and loading:

* `consecutiveFailures` (`election.go:391`) goes back only when this replica
  acquires the lock: a standby that met three errors and then waits behind a
  healthy leader stays unready, although `Healthy()` is to report whether the
  database can be reached.
* A table that is dropped and created anew starts its version numbers again
  (`election.go:237`). The heartbeat of a leader of the old table can then match
  the new leader's row, and its release can free it. `StaleLeaderStepsDown`
  therefore allows such a leader to have the row again, and
  `EventuallyOneLeader` shows that the two do not go on beside each other.
* A callback registered between the end of the drain and the clearing of the
  state starts with a cancelled context and can overlap the next term. A
  shutdown noticed by the heartbeat's branch of the select skips the release of
  the row, so the next leader waits for the lease.
* Leadership is checked per record by the writer only (`loader.go:303`). A
  watcher's cleanup, removal of orphans and status writes go on after leadership
  has ended (`base.go:94`), and its context is not the leadership context.
* The writer of a cancelled run leaves on the first record; a forwarder with a
  further one blocks on the channel for good (`loader.go:556`). `NotAbandoned`
  shows that this is confined to cancelled runs and ended terms.
* A term whose cleanup fails is given up while watchers report the plugin
  healthy; after a drain that timed out a slow write of an earlier run can
  follow a later cleanup.

Watching and start-up:

* The hash belongs to the record (`monitor.go:159`): a `Path()` for a file whose
  change is still to be scanned stores the new hash, and the earlier subscribers
  get no event. A file that is read during the pause and then reverted leaves
  its reader outdated.
* Only the model and the MCP plugin have a `Reconnect()`: after a lost database
  the routes of the others are mounted anew over the repositories of the old
  one, although `server.go:138` says that every provider observes the refreshed
  ones. `NoStaleIngest` is therefore about `Reconnectable` plugins.
* A standby that never leads keeps the repositories of the lost database. A
  lookup of a property that fails for another reason than "not found" counts as
  saved (`type_property.go:31`).

* A migration whose session is closed half-way leaves `schema_migrations` dirty
  (`migrate.go:53`), and no start repairs it: `Recovers` leaves this case out.

Controller and jobs:

* The record is updated to UNDEPLOYED on a best-effort basis
  (`controller.go:134`): when the registry cannot be reached the finalizer goes
  all the same and the record stays DEPLOYED. `UndeployedWhenGone` excuses these.
* A manifest applied again with the id label of an earlier life gets the old,
  UNDEPLOYED record (`controller.go:194`), and only its URL is updated.
* The labels are checked before the deletion branch (`controller.go:113`): an
  ISVC whose registry labels are removed keeps the finalizer, and its deletion
  waits. `DeletionNotBlocked` is about labelled ones.
* `isK8sJobFailed` is true as soon as one pod failed, while `backoffLimit` lets
  later pods succeed: a running, or even a complete, job can be retried, although
  line 495 allows it "for failed jobs" only. `OneArtifact` holds all the same.
* A `create_model` job whose pod failed after it created the model can never
  succeed: the next pod's check finds the model.
* The copied destination secret stays behind when the merged payload of a retry
  is invalid (`model_transfer_jobs.go:638`); the objects of a Job whose creation
  was not answered are deleted while the Job exists; a ConfigMap or Secret whose
  creation was not answered stays, since its generated name is not known; the
  objects and pods of a deleted Job are orphaned.
* A pod that fails after its last call, while it writes its result
  (`entrypoint.py:198`), leaves a LIVE artifact and a failed job: the next pod of
  a creating job finds the version and fails as well.
* `set_artifact_pending` writes back the whole artifact: it can put the old URI,
  and PENDING, over another job's result. `PendingSettles` shows that this does
  not last unless a job was given up.

Listing (walks that `misled` excuses):

* The sort value is read again for the token (`catalog_model.go:531`): when the
  last row changed in between, rows nobody touched are skipped or repeated. An
  empty string is encoded as a missing value, and all remaining rows with a
  value are skipped. When the query fails, the id stands for the sort value.
* A token of more than 1024 characters is refused (`paginate.go:144`), also one
  the server made itself from a long value. `WalkEnds` says that a walk ends
  with its last page as long as no row has such a value, and with this error or
  its last page otherwise.
* The in-memory paginator (`openapi/v1/pagination.go:113`) starts again with the
  first page when the item of the cursor is gone.

## Proofs

All proofs hold for every value of the constants under the assumptions each
module names: bounds are naturals, switches Boolean, `NoOwner` is no replica,
no watcher is the leader callback, contents are sets of models. They share one
pattern: `Init => IInv`, `IInv /\ [Next]_vars => IInv'`, with a lemma per action
or group of actions, and a property that is `IInv`'s consequence or a fact about
one step from a state with `IInv`. Where a property needs more than the `IInv`
that is there, a second invariant is proved on top of it (`RunOwnership`,
`Published`, `Owners`, `Recovering`, ...), so that each argument can be read by
itself. Properties named here in brackets that no run lists are stated in the
component's module; TLC checked them with the run's constants before they were
proved.

* `LeaderElectionProofs`: `TypeCorrect`, `Drain` (`CallbacksDrained`),
  `ExactlyOncePerTerm` (`LaunchedOnce`), `NoneMissed` (`NoMissedCallback`),
  `StateAgrees` (`LeadershipState`), `Handover` (`HandoverAfterDrain`). The
  properties are not inductive by themselves: whether a late registration is
  launched twice depends on what the snapshot still holds and on no launch being
  for a grant to come. `LaunchBookkeeping` says so, and `LeadershipState` ties
  `isLeader`, `leaderCtx` and `handle` to `pc`; with `TypeOK` they make `IInv`.
  `Handover` is then a one-step fact. `ImplementsTerms` (`KeepsTerms`) maps each
  step to a step of `LeadershipTerms` or a stutter; for it a handle is a grant
  already given. The steps to argue about are the two ways to launch (the
  snapshot and a registration that found a leader) and the clearing of the
  state, where the drain must have emptied the callbacks of this term.
* `ModelLoaderProofs`: `TypeCorrect`, `Preemption` (`OneLiveRun`),
  `CleanupIsFinal` (`NoStaleInsert`). `IInv` adds that runs are numbered in the
  order of `setCloser` (`RunOrder`) and that once a caller has drained, no
  earlier run's writer is past its check (`StaleChecked`): such a writer was
  either waited for, or will see its cancelled context. `CleanupIsFinal` assumes
  `~Timeouts`, and the code offers no more: after a timed-out drain the write
  can come later.
  `RunOwnership` says which caller a run belongs to and what that leaves idle:
  a caller that loads owns the run it numbered, runs to come have no goroutine,
  a closed run is cancelled, and the leader flag is up only within the callback.
  From it follow `ForwardersServed` (`NotAbandoned`: the writer of the live run
  outlasts its forwarders while the plugin leads), `CheckedInTerm`
  (`ChecksWithinTerm`: a record passes the writer's check only in the latest run
  and within the callback) and `LeaderWrites` (`OnlyLeaderWrites`, which names
  the conditions under which no write is under way after `SetLeader(false)`).
  `QuietIsInSync` (`SyncedWhenQuiet`) is the safety half of `Converges`: under
  its conditions (edits and elections wait for quiet, no database error) a
  leader with nothing left to do has stored every valid model of the files and
  none that is not in them, for any number of sources and with any time-outs. `SyncInv` says why. Callers take
  turns (`Turns`), and the configuration in use is the one last written or about
  to be parsed (`Parsed`). While leadership lasts every earlier run is quiet, and
  the current one has for each source either still to come to it (`Owes`) or
  brought it as far as the state of its forwarder tells (`Handled`, `Batch`):
  what was emitted is in the database or in the writer's hand (`Hand`), what was
  not is removed before the status is saved. A quiet run that has not been
  abandoned (`NotAbandoned`) has only forwarders that wait, and then `Batch` is
  `InSync`. `CallerOnWay` is the shared argument for the steps of the caller,
  `BatchForward` the one for those of a forwarder.
* `FileMonitorProofs`: `TypeCorrect`, `Sound` (`NoPanic`), `Tracking`
  (`HashTracks`), `NoneLost` (`NoLostChange`), `ClosedForCause`
  (`ClosedWithCause`). `IInv` adds that the channels listed are exactly the open
  ones, under the file they are for (`Listing`), and that contents not yet
  written have been neither hashed nor read (`Versions`). `NoneLost` holds of
  every file that is not `muddled`, and would be false of the others.
  `ClosedForCause` is about all: the leaving of one subscription never closes
  another's channel.
* `CatalogStartupProofs`: `TypeCorrect`, `SchemaIsComplete`, `IngestIsFresh`,
  `ReposAreValid` (`ReposResolve`), `LeaderWorks` (`NoIdleLeader`).
  `Registering` says what a pod knows of the database while it still holds the
  lock and met no error: a wipe or a lost session takes the lock away, so the
  check at the unlock makes `done` true only of the present database.
  `FreshRepoSet` carries a term's epoch from the read of the types to the hand
  over to the plugins. `ReposAreValid` rests on one lemma about all steps
  (`DatabaseGrows`: within an epoch neither rows nor migrations go away): what
  was complete when the types were read still is when they are used.
  `LeaderWorks` follows the lock through the recovery (`Recovering`): each
  failure gives the lock back in the step in which it gives up.
* `InferenceServiceControllerProofs`: `TypeCorrect`, `Undeployed`
  (`UndeployedWhenGone`), `Implements` (`Refinement`). The invariant is about
  versions of an object: a deletion that any copy shows is not undone, and an
  unmarked copy with the finalizer belongs to an object that still has it
  (`Version`), so that whatever the worker writes to the registry, the service
  cannot be gone yet. Each step is then a step of `DeploymentRecord` or a
  stutter. Two results use the refinement: `OnlyDeletionUndeploys`
  (`UndeployedByDeletion`) reads off it what may happen to a record, and
  `LabelsNeverDangle` (`LabelsResolve`) needs that records stay, since a label
  lives on in the cache, in a copy and in manifests after its service is gone.
  `NoWakeUpIsLost` (`SettledInSync`) is the safety half of `EventuallyInSync`:
  an ISVC that is delivered, not queued and not worked on is as the registry
  has it. `CopyCurrent` makes it inductive: a version that is worked on with no
  event behind it is the current one, so the reconciliation that ends without
  requeueing has written what the API server holds.
* `UploadJobProofs`: `UploadTypeCorrect`, `ArtifactIsUnique` (`OneArtifact`),
  `UriWasUploaded` (`UriIsUploaded`), `LiveWasUploaded` (`LiveIsUploaded`),
  `LiveStays` (`LiveIsFinal`), `RetriesBounded` (`BudgetSpent`),
  `PendingHasDebtor` (`PendingIsOwed`, the safety half of `PendingSettles`: the
  debtor changes as pods overwrite each other's artifact, but there is one).
  `Exclusive` says that at most one pod ever created the version, and how far it
  got can be read off the registry; `Budget` bounds the failures of a job that
  is still active. `Published` adds that LIVE comes with the new URI and, for a
  job that creates, only with an artifact that is recorded.
* `TransferJobsProofs`: `TransfersAreUploads` (`UploadSpec`) step by step, then
  `TransferTypeCorrect`, `NothingLeaks` (`NoLeak`, from what exists at each
  phase of a request). `TransferArtifactIsUnique`, `TransferLiveStays` and
  `TransferPendingHasDebtor` need no invariant of their own: they follow from
  the refinement and the theorems about `UploadJob`. `OwnersExist`
  (`NoDanglingOwner`) and `RetryReplacesFirst` (`ReplacedFirst`) rest on
  `Owners`, which says at which phase of a request the Job it made is there.
* `ListingProofs`: `ListingTypeCorrect` and, assuming that ties are broken
  (`TieBroken`), `WalkIsExact` (`ExactlyOnce`), for every table. The invariant
  is that the rows returned are those at or before the position of the walk; it
  rests on the order being total (`OrderIsTotal`), a row's cursor standing where
  the row stands (`CursorIsRow`) and the rows behind a cursor being closed under
  the order (`BehindIsClosed`). `WalkGoesForward` (`CursorAdvances`) is the
  safety half of `WalkEnds` and holds for every ordering, also the one whose
  ties make `ExactlyOnce` fail: such a walk skips rows but does not go in a
  circle. A token that is refused (`RefuseToken`) ends the walk where it is, so
  both need no assumption about long values.

Only model-checked: the liveness properties (`StaleLeaderStepsDown`,
`EventuallyOneLeader`, `Converges`, `CallbackReturns`, `CatchesUp`,
`ChannelsClose`, `Recovers`, `DeletionNotBlocked`, `EventuallyInSync`,
`JobsEnd`, `PendingSettles`, `WalkEnds`), which need fairness, out of the
prover's reach. For `Converges`, `EventuallyInSync`, `PendingSettles`,
`CatchesUp` and `WalkEnds` the proofs have the half that is a safety property:
what holds once nothing is left to do, or that no step goes back. That this
point is reached is what the runs show.

## Not modelled

Within the modelled parts: `Stop` of a plugin, `UpdateServices`, labels and
load handlers of the model loader, several directories of the monitor, the
length of delays, the parse of a configuration before its watch, lost fsnotify
events, data races on single fields, what a model, a payload or a credential
contains, filters of a list, and a provider whose watch could not be set up
(`yaml_catalog.go:351-365`: it reads once and ends, so that changes of its file
wait for the next reload of the configuration).

Two places take several steps of the code as one, where nothing can come
between them that any step could see: `Validate` asks for the model and then
for the version (for `create_version` the model is there from the start and
nothing in the model removes it; an answer that is overtaken at once is as good
as one overtaken before the transfer), and `WaitForInflightWrites` polls.

Of the rest: registry core and `Save` (one transaction per request over unique
names; a read-merge-save of two clients can lose an update, which needs the
repositories' properties in the model), sibling loaders, source collection,
property options refresher and the registry proxy are left for later; HTTP
routing, queries, generated code (most of the repository's lines), clients, UI
front end and manifests have no state machine of their own and stay out. The
map therefore covers a small share of all lines: those of the parts in which
steps of several actors meet.

## Plan

1. Registry upserts: two clients' read-merge-save on one entity, parents deleted
   in between, unique names.
2. The composition of `LeadershipTerms`, which the election is proved to
   implement, with `ModelLoader` for two replicas over one database: what
   `Elected` and `Deposed` assume, and an abstract specification of a single
   writer.
3. `PropertyOptionsRefresher`: no trigger is without a later refresh.
4. `SourceCollection`: the field-wise merge of `sources.go` as a fold, checked
   against a reference definition (last origin that sets a field wins).
5. Sibling loaders, where their write paths differ from the model loader's.
