--------------------------- MODULE CatalogStartup ---------------------------
(***************************************************************************)
(* Start-up and recovery of the catalog server's replicas over one         *)
(* PostgreSQL database (catalog/cmd/catalog.go, plugin/server.go and       *)
(* datastore/embedmd): every pod migrates the schema and registers the     *)
(* types under an advisory lock, and the pod that becomes leader does so   *)
(* again before its plugins ingest, because the database may have been     *)
(* lost and recreated since.                                               *)
(*                                                                         *)
(* A pod's queries run on different sessions: the lock, the migration and  *)
(* the registration each survive the loss of the others.                   *)
(***************************************************************************)
EXTENDS Integers, FiniteSets

CONSTANTS Pod, NoPod,
          Plugin, Reconnectable,  \* the plugins, and those with a Reconnect()
          Migrations,             \* number of migrations
          Types, Rows,            \* rows 1..Types are types, the others properties
          MaxWipes,               \* bound: losses of the database
          MaxFaults               \* bound: crashes, time-outs, lost sessions and terms

ASSUME PodAssumption == NoPod \notin Pod
ASSUME PluginAssumption == Reconnectable \subseteq Plugin
ASSUME SizeAssumption == /\ Migrations \in Nat \ {0}
                         /\ Types \in Nat /\ Rows \in Nat \ {0} /\ Types <= Rows
                         /\ MaxWipes \in Nat /\ MaxFaults \in Nat

VARIABLES
    epoch,             \* the database: how many there were
    version, dirty,    \* its schema_migrations
    rows,              \* its types and their properties
    initLock, migLock, \* the holders of its advisory locks
    leader,            \* the owner of its leadership lock
    pc, row, failed,   \* per pod: Initialize(), the row saved next, its errors
    recovering,        \* Initialize() was called by OnBecomeLeader
    term, termEpoch,   \* leaderCtx is alive; history: the database it was won in
    done,              \* history: the database the locked part succeeded in
    repoSet,           \* the database repoSet was read from
    repos, router,     \* those of the plugins and of the mounted providers
    faults

database == <<epoch, version, dirty, rows>>
locks    == <<initLock, migLock>>
init     == <<row, failed, done>>
served   == <<repoSet, repos, router>>
election == <<leader, term, termEpoch>>
vars == <<database, locks, election, pc, recovering, init, served, faults>>

Epoch == 1..MaxWipes + 1

PCs == {"down", "lock", "up", "migrate", "find", "create", "unlock", "types",
        "reconnect", "serving", "leading"}
InLock == {"up", "migrate", "find", "create"}

Init ==
    /\ epoch = 1
    /\ version \in 0..Migrations
    /\ dirty = FALSE
    /\ rows \in IF version = 0 THEN {{}} ELSE SUBSET (1..Rows)
    /\ initLock = NoPod
    /\ migLock = NoPod
    /\ leader = NoPod
    /\ pc = [p \in Pod |-> "down"]
    /\ row = [p \in Pod |-> 1]
    /\ failed = [p \in Pod |-> FALSE]
    /\ recovering = [p \in Pod |-> FALSE]
    /\ term = [p \in Pod |-> FALSE]
    /\ termEpoch = [p \in Pod |-> 0]
    /\ done = [p \in Pod |-> 0]
    /\ repoSet = [p \in Pod |-> 0]
    /\ repos = [p \in Pod |-> [l \in Plugin |-> 0]]
    /\ router = [p \in Pod |-> [l \in Plugin |-> 0]]
    /\ faults = 0

-----------------------------------------------------------------------------
Free(lock, p) == IF lock = p THEN NoPod ELSE lock

GoTo(p, l) == pc' = [pc EXCEPT ![p] = l]

Fault == faults < MaxFaults /\ faults' = faults + 1

(* The process ends, and its sessions with it.                             *)
Exit(p) ==
    /\ GoTo(p, "down")
    /\ leader' = Free(leader, p)
    /\ term' = [term EXCEPT ![p] = FALSE]

(* Mutant: a leader whose recovery failed stays as it is.                  *)
GiveUpQuietly(p) ==
    /\ initLock' = Free(initLock, p)
    /\ migLock' = Free(migLock, p)
    /\ recovering' = [recovering EXCEPT ![p] = FALSE]
    /\ \/ ~recovering[p] /\ Exit(p)
       \/ recovering[p] /\ GoTo(p, "serving") /\ UNCHANGED <<leader, term>>
    /\ UNCHANGED <<database, termEpoch>>

(* Initialize() or Reconnect() fails and its sessions are discarded: the   *)
(* process ends too, unless this is a recovery whose term is over.         *)
GiveUp(p) ==
    /\ initLock' = Free(initLock, p)
    /\ migLock' = Free(migLock, p)
    /\ recovering' = [recovering EXCEPT ![p] = FALSE]
    /\ \/ ~(recovering[p] /\ ~term[p]) /\ Exit(p)
       \/ recovering[p] /\ ~term[p] /\ GoTo(p, "serving") /\ UNCHANGED <<leader, term>>
    /\ UNCHANGED <<database, termEpoch>>

(* runCatalogServer() connects and calls Initialize().                     *)
Start(p) ==
    /\ pc[p] = "down"
    /\ GoTo(p, "lock")
    /\ UNCHANGED <<database, locks, election, recovering, init, served, faults>>

(* WithInitializationLock(): the lock belongs to a session of its own.     *)
Lock(p) ==
    /\ pc[p] = "lock"
    /\ initLock = NoPod
    /\ initLock' = p
    /\ failed' = [failed EXCEPT ![p] = FALSE]
    /\ GoTo(p, "up")
    /\ UNCHANGED <<database, migLock, election, recovering, row, done, served, faults>>

(* MigrateContext(): Up() refuses a dirty schema.                          *)
Up(p) ==
    /\ pc[p] = "up"
    /\ migLock = NoPod
    /\ \/ dirty /\ GoTo(p, "unlock") /\ failed' = [failed EXCEPT ![p] = TRUE] /\ UNCHANGED migLock
       \/ ~dirty /\ GoTo(p, "migrate") /\ migLock' = p /\ UNCHANGED failed
    /\ UNCHANGED <<database, initLock, election, recovering, row, done, served, faults>>

(* One migration: its version is stored as dirty before its statements run *)
(* and as clean after them.                                                *)
Migrate(p) ==
    /\ pc[p] = "migrate"
    /\ migLock = p
    /\ dirty \/ version < Migrations
    /\ version' = IF dirty THEN version ELSE version + 1
    /\ dirty' = ~dirty
    /\ UNCHANGED <<epoch, rows, locks, election, pc, recovering, init, served, faults>>

(* Up() is at its end, or its connection is.                               *)
Migrated(p) ==
    /\ pc[p] = "migrate"
    /\ \/ /\ migLock = p /\ ~dirty /\ version = Migrations
          /\ GoTo(p, "find")
          /\ row' = [row EXCEPT ![p] = 1]
          /\ UNCHANGED failed
       \/ /\ migLock # p
          /\ GoTo(p, "unlock")
          /\ failed' = [failed EXCEPT ![p] = TRUE]
          /\ UNCHANGED row
    /\ migLock' = Free(migLock, p)
    /\ UNCHANGED <<database, initLock, election, recovering, done, served, faults>>

(* Mutant: one row too many.                                               *)
NextRowLate(p, error) ==
    /\ failed' = [failed EXCEPT ![p] = @ \/ error]
    /\ IF row[p] <= Rows
       THEN GoTo(p, "find") /\ row' = [row EXCEPT ![p] = @ + 1]
       ELSE GoTo(p, "unlock") /\ UNCHANGED row

(* syncTypes() goes on with the next row, whatever became of this one.     *)
NextRow(p, error) ==
    /\ failed' = [failed EXCEPT ![p] = @ \/ error]
    /\ IF row[p] < Rows
       THEN GoTo(p, "find") /\ row' = [row EXCEPT ![p] = @ + 1]
       ELSE GoTo(p, "unlock") /\ UNCHANGED row

(* Save() looks the row up.  That this fails is an error for a type, but   *)
(* passes unnoticed for a property.                                        *)
FindFails(p) == pc[p] = "find" /\ NextRow(p, row[p] <= Types)

Find(p) ==
    /\ pc[p] = "find"
    /\ \/ version = 0 /\ FindFails(p)
       \/ version > 0 /\ row[p] \in rows /\ NextRow(p, FALSE)
       \/ version > 0 /\ row[p] \notin rows /\ GoTo(p, "create") /\ UNCHANGED <<row, failed>>
    /\ UNCHANGED <<database, locks, election, recovering, done, served, faults>>

(* A type that another process has inserted meanwhile is read again; for a *)
(* property this is an error.  After the loss of the database a property   *)
(* may go to a type ID of the lost one.                                    *)
Create(p) ==
    /\ pc[p] = "create"
    /\ \/ rows' = IF version = 0 THEN rows ELSE rows \cup {row[p]}
       \/ initLock # p /\ row[p] > Types /\ UNCHANGED rows
    /\ NextRow(p, version = 0 \/ (row[p] \in rows /\ row[p] > Types))
    /\ UNCHANGED <<epoch, version, dirty, locks, election, recovering, done, served, faults>>

(* A query of the registration fails on its connection.                    *)
QueryFails(p) ==
    /\ Fault
    /\ FindFails(p) \/ (pc[p] = "create" /\ NextRow(p, TRUE))
    /\ UNCHANGED <<database, locks, election, recovering, done, served>>

(* Mutant: that the lock was not held any more is not an error.            *)
UnlockUnchecked(p) ==
    /\ pc[p] = "unlock"
    /\ \/ /\ ~failed[p]
          /\ GoTo(p, "types")
          /\ done' = [done EXCEPT ![p] = epoch]
          /\ initLock' = Free(initLock, p)
          /\ UNCHANGED <<database, migLock, election, recovering>>
       \/ failed[p] /\ GiveUp(p) /\ UNCHANGED done
    /\ UNCHANGED <<row, failed, served, faults>>

(* The lock is released; that it was not held any more is an error.        *)
Unlock(p) ==
    /\ pc[p] = "unlock"
    /\ \/ /\ initLock = p /\ ~failed[p]
          /\ GoTo(p, "types")
          /\ done' = [done EXCEPT ![p] = epoch]
          /\ initLock' = Free(initLock, p)
          /\ UNCHANGED <<database, migLock, election, recovering>>
       \/ ~(initLock = p /\ ~failed[p]) /\ GiveUp(p) /\ UNCHANGED done
    /\ UNCHANGED <<row, failed, served, faults>>

(* newRepoSet() reads the types, outside the lock.  At start-up the        *)
(* plugins are initialized, mounted and started with it.                   *)
ReadTypes(p) ==
    /\ pc[p] = "types"
    /\ \/ /\ 1..Types \subseteq rows /\ version > 0
          /\ repoSet' = [repoSet EXCEPT ![p] = epoch]
          /\ IF recovering[p]
             THEN GoTo(p, "reconnect") /\ UNCHANGED <<repos, router>>
             ELSE /\ GoTo(p, "serving")
                  /\ repos' = [repos EXCEPT ![p] = [l \in Plugin |-> epoch]]
                  /\ router' = [router EXCEPT ![p] = [l \in Plugin |-> epoch]]
          /\ UNCHANGED <<database, locks, election, recovering>>
       \/ ~(1..Types \subseteq rows /\ version > 0) /\ GiveUp(p) /\ UNCHANGED served
    /\ UNCHANGED <<init, faults>>

(* A pod wins the leadership lock; its callback initializes again.         *)
BecomeLeader(p) ==
    /\ pc[p] = "serving" /\ ~term[p]
    /\ leader = NoPod
    /\ leader' = p
    /\ term' = [term EXCEPT ![p] = TRUE]
    /\ termEpoch' = [termEpoch EXCEPT ![p] = epoch]
    /\ recovering' = [recovering EXCEPT ![p] = TRUE]
    /\ GoTo(p, "lock")
    /\ UNCHANGED <<database, locks, init, served, faults>>

Refreshed(p, ok) == [l \in Plugin |-> IF l \in ok THEN repoSet[p] ELSE repos[p][l]]

(* Server.Reconnect(): only with every plugin refreshed are the routes     *)
(* mounted anew and the plugins told that they lead.                       *)
Reconnect(p) ==
    /\ pc[p] = "reconnect"
    /\ repos' = [repos EXCEPT ![p] = Refreshed(p, Reconnectable)]
    /\ router' = [router EXCEPT ![p] = repos'[p]]
    /\ recovering' = [recovering EXCEPT ![p] = FALSE]
    /\ GoTo(p, "leading")
    /\ UNCHANGED <<database, locks, election, init, repoSet, faults>>

(* Mutant: the errors of the plugins are only logged.                      *)
ReconnectFailsUnnoticed(p) ==
    /\ pc[p] = "reconnect"
    /\ Fault
    /\ \E ok \in SUBSET Reconnectable :
          repos' = [repos EXCEPT ![p] = Refreshed(p, ok)]
    /\ router' = [router EXCEPT ![p] = repos'[p]]
    /\ recovering' = [recovering EXCEPT ![p] = FALSE]
    /\ GoTo(p, "leading")
    /\ UNCHANGED <<database, locks, election, init, repoSet>>

(* Some plugins fail, or all are refreshed and the routes are not built.   *)
ReconnectFails(p) ==
    /\ pc[p] = "reconnect"
    /\ Fault
    /\ \E ok \in SUBSET Reconnectable :
          repos' = [repos EXCEPT ![p] = Refreshed(p, ok)]
    /\ GiveUp(p)
    /\ UNCHANGED <<init, repoSet, router>>

(* The elector ends leaderCtx once it finds the lock lost, and the         *)
(* callback returns.                                                       *)
EndTerm(p) ==
    /\ term[p] /\ leader # p
    /\ term' = [term EXCEPT ![p] = FALSE]
    /\ UNCHANGED <<database, locks, leader, termEpoch, pc, recovering, init, served, faults>>

StopLeading(p) ==
    /\ pc[p] = "leading" /\ ~term[p]
    /\ GoTo(p, "serving")
    /\ UNCHANGED <<database, locks, election, recovering, init, served, faults>>

(* The context of Initialize() ends: a time-out, or the end of the term.   *)
(* The transport of a running migration is closed.  A lookup that fails    *)
(* unnoticed fails newRepoSet() all the same, since it has that context.   *)
Cancel(p) ==
    /\ \/ recovering[p] /\ ~term[p] /\ UNCHANGED faults
       \/ Fault
    /\ \/ /\ pc[p] \in InLock
          /\ GoTo(p, "unlock")
          /\ failed' = [failed EXCEPT ![p] = TRUE]
          /\ migLock' = Free(migLock, p)
          /\ UNCHANGED <<database, initLock, election, recovering, row, done>>
       \/ pc[p] \in {"lock", "types"} /\ GiveUp(p) /\ UNCHANGED init
    /\ UNCHANGED served

-----------------------------------------------------------------------------
(* What goes wrong around them.                                            *)

Crash(p) ==
    /\ pc[p] # "down"
    /\ Fault
    /\ initLock' = Free(initLock, p)
    /\ migLock' = Free(migLock, p)
    /\ recovering' = [recovering EXCEPT ![p] = FALSE]
    /\ Exit(p)
    /\ UNCHANGED <<database, init, served, termEpoch>>

LoseSession(p) ==
    /\ Fault
    /\ \/ initLock = p /\ initLock' = NoPod /\ UNCHANGED <<migLock, leader>>
       \/ migLock = p /\ migLock' = NoPod /\ UNCHANGED <<initLock, leader>>
       \/ leader = p /\ leader' = NoPod /\ UNCHANGED <<initLock, migLock>>
    /\ UNCHANGED <<database, term, termEpoch, pc, recovering, init, served>>

(* The database is lost (an emptyDir) and a new one started in its place.  *)
Wipe ==
    /\ epoch <= MaxWipes
    /\ epoch' = epoch + 1
    /\ version' = 0
    /\ dirty' = FALSE
    /\ rows' = {}
    /\ initLock' = NoPod
    /\ migLock' = NoPod
    /\ leader' = NoPod
    /\ UNCHANGED <<term, termEpoch, pc, recovering, init, served, faults>>

-----------------------------------------------------------------------------
Step(p) ==
    \/ Start(p) \/ Up(p) \/ Migrate(p) \/ Migrated(p)
    \/ Find(p) \/ Create(p) \/ Unlock(p) \/ ReadTypes(p)
    \/ Reconnect(p) \/ EndTerm(p) \/ StopLeading(p)

Next ==
    \/ \E p \in Pod : \/ Step(p) \/ Lock(p) \/ BecomeLeader(p)
                      \/ Cancel(p) \/ QueryFails(p) \/ ReconnectFails(p)
                      \/ Crash(p) \/ LoseSession(p)
    \/ Wipe

Spec == Init /\ [][Next]_vars

(* Pods run and are restarted, PostgreSQL serves the waiters of a lock in  *)
(* order, and some standby notices a free leadership lock.                 *)
FairSpec ==
    /\ Spec
    /\ \A p \in Pod : WF_vars(Step(p)) /\ SF_vars(Lock(p))
    /\ WF_vars(\E p \in Pod : BecomeLeader(p))

-----------------------------------------------------------------------------
TypeOK ==
    /\ epoch \in Epoch
    /\ version \in 0..Migrations
    /\ dirty \in BOOLEAN
    /\ rows \subseteq 1..Rows
    /\ initLock \in Pod \cup {NoPod} /\ migLock \in Pod \cup {NoPod}
    /\ leader \in Pod \cup {NoPod}
    /\ pc \in [Pod -> PCs]
    /\ row \in [Pod -> 1..Rows]
    /\ failed \in [Pod -> BOOLEAN]
    /\ recovering \in [Pod -> BOOLEAN]
    /\ term \in [Pod -> BOOLEAN]
    /\ termEpoch \in [Pod -> 0..MaxWipes + 1]
    /\ done \in [Pod -> 0..MaxWipes + 1]
    /\ repoSet \in [Pod -> 0..MaxWipes + 1]
    /\ repos \in [Pod -> [Plugin -> 0..MaxWipes + 1]]
    /\ router \in [Pod -> [Plugin -> 0..MaxWipes + 1]]
    /\ faults \in 0..MaxFaults

(* A pod whose locked initialization succeeded in this database left it    *)
(* with every migration applied and every required type there, although    *)
(* the lock, the migration and the registration use different sessions     *)
(* that can be lost one by one, or the database under all of them.         *)
SchemaComplete ==
    \A p \in Pod : done[p] = epoch =>
       version = Migrations /\ ~dirty /\ 1..Types \subseteq rows

(* A plugin that can reconnect ingests in a term only through repositories *)
(* read after the term was won, and the routes serve the same ones.        *)
NoStaleIngest ==
    \A p \in Pod, l \in Reconnectable : pc[p] = "leading" =>
       repos[p][l] >= termEpoch[p] /\ router[p][l] = repos[p][l]

(* Whatever a pod serves or ingests through, if it was read from this      *)
(* database, finds its types there: newRepoSet() reads them outside the    *)
(* lock, while other pods migrate and register, and keeps their IDs.       *)
ReposResolve ==
    \A p \in Pod :
       repoSet[p] = epoch \/ (\E l \in Plugin : epoch \in {repos[p][l], router[p][l]})
          => version > 0 /\ 1..Types \subseteq rows

(* The owner of the leadership lock is recovering or ingests, in a term    *)
(* that lives: no pod keeps the lock after its recovery failed, which      *)
(* would leave the replicas without ingestion for good.                    *)
NoIdleLeader ==
    \A p \in Pod : leader = p => term[p] /\ (recovering[p] \/ pc[p] = "leading")

(* Unless a migration was interrupted half-way, the replicas recover from  *)
(* every loss: in the end some leader ingests into the current database.   *)
Recovers ==
    <>[]~dirty => <>[](\E p \in Pod : /\ leader = p /\ term[p] /\ pc[p] = "leading"
                                      /\ \A l \in Reconnectable : repos[p][l] = epoch)
=============================================================================
