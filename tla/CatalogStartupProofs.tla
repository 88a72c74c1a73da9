------------------------ MODULE CatalogStartupProofs ------------------------
(***************************************************************************)
(* Proofs about CatalogStartup, for any number of pods, plugins,           *)
(* migrations, rows, lost databases and faults.                            *)
(***************************************************************************)
EXTENDS CatalogStartup, TLAPS

(* What a pod that still holds the initialization lock, and met no error,  *)
(* knows of the database it registers its types in.                        *)
Registering ==
    \A p \in Pod : initLock = p /\ ~failed[p] =>
       /\ pc[p] \in {"find", "create", "unlock"} => version = Migrations /\ ~dirty
       /\ pc[p] \in {"find", "create"} => \A k \in 1..Types : k < row[p] => k \in rows
       /\ pc[p] = "unlock" => 1..Types \subseteq rows

(* No pod has seen a database that is still to come.                       *)
EpochsSeen == \A p \in Pod : done[p] <= epoch /\ termEpoch[p] <= epoch

(* The repositories a recovery hands to the plugins are those of its term. *)
FreshRepoSet == \A p \in Pod : pc[p] = "reconnect" => repoSet[p] >= termEpoch[p]

(* A step of one pod.                                                      *)
PodStep(p) == \/ Step(p) \/ Lock(p) \/ BecomeLeader(p)
              \/ Cancel(p) \/ QueryFails(p) \/ ReconnectFails(p) \/ Crash(p) \/ LoseSession(p)

SchemaInv == Registering /\ EpochsSeen /\ SchemaComplete
TermInv   == EpochsSeen /\ FreshRepoSet /\ NoStaleIngest
-----------------------------------------------------------------------------
USE PodAssumption, PluginAssumption, SizeAssumption

(* Init establishes the types.                                             *)
LEMMA InitType == Init => TypeOK
<1> SUFFICES ASSUME Init PROVE TypeOK
  OBVIOUS
<1>1. 1 \in 1..Rows /\ 0 \in 0..MaxWipes + 1 /\ 0 \in 0..MaxFaults /\ 1 \in Epoch
  BY DEF Epoch
<1>2. rows \subseteq 1..Rows
  <2>1. CASE version = 0
    BY <2>1 DEF Init
  <2>2. CASE version # 0
    BY <2>2 DEF Init
  <2> QED
    BY <2>1, <2>2
<1> QED
  BY <1>1, <1>2 DEF Init, TypeOK, PCs

(* A pod leaves through GiveUp() or Exit() with every variable it writes   *)
(* in its type.                                                            *)
LEMMA GiveUpType ==
    ASSUME TypeOK, NEW p \in Pod, GiveUp(p)
    PROVE  /\ initLock' \in Pod \cup {NoPod} /\ migLock' \in Pod \cup {NoPod}
           /\ leader' \in Pod \cup {NoPod}
           /\ pc' \in [Pod -> PCs]
           /\ recovering' \in [Pod -> BOOLEAN]
           /\ term' \in [Pod -> BOOLEAN]
  BY DEF TypeOK, GiveUp, Exit, GoTo, Free, PCs

(* So does a pod that goes on to the next row.                             *)
LEMMA NextRowType ==
    ASSUME TypeOK, NEW p \in Pod, NEW error \in BOOLEAN, NextRow(p, error)
    PROVE  /\ pc' \in [Pod -> PCs]
           /\ row' \in [Pod -> 1..Rows]
           /\ failed' \in [Pod -> BOOLEAN]
<1>1. failed' \in [Pod -> BOOLEAN]
  BY DEF TypeOK, NextRow
<1>2. CASE row[p] < Rows
  <2>1. row[p] + 1 \in 1..Rows
    BY <1>2 DEF TypeOK
  <2>2. row' = [row EXCEPT ![p] = row[p] + 1] /\ pc' = [pc EXCEPT ![p] = "find"]
    BY <1>2 DEF NextRow, GoTo
  <2>3. row' \in [Pod -> 1..Rows]
    BY <2>1, <2>2 DEF TypeOK
  <2> QED
    BY <1>1, <2>2, <2>3 DEF TypeOK, PCs
<1>3. CASE ~(row[p] < Rows)
  BY <1>1, <1>3 DEF TypeOK, NextRow, GoTo, PCs
<1> QED
  BY <1>2, <1>3

(* Every step keeps the types.                                             *)
LEMMA StepType ==
    ASSUME TypeOK, [Next]_vars
    PROVE  TypeOK'
<1> USE DEF TypeOK, database, locks, init, served, election
<1>0. CASE UNCHANGED vars
  BY <1>0 DEF vars
<1>1. ASSUME NEW p \in Pod, Start(p) PROVE TypeOK'
  BY <1>1 DEF Start, GoTo, PCs
<1>2. ASSUME NEW p \in Pod, Up(p) PROVE TypeOK'
  BY <1>2 DEF Up, GoTo, PCs
<1>3. ASSUME NEW p \in Pod, Migrate(p) PROVE TypeOK'
  <2>1. version' \in 0..Migrations
    BY <1>3 DEF Migrate
  <2> QED
    BY <1>3, <2>1 DEF Migrate
<1>4. ASSUME NEW p \in Pod, Migrated(p) PROVE TypeOK'
  <2>1. 1 \in 1..Rows
    OBVIOUS
  <2> QED
    BY <1>4, <2>1 DEF Migrated, GoTo, Free, PCs
<1>5. ASSUME NEW p \in Pod, Find(p) PROVE TypeOK'
  <2>1. pc' \in [Pod -> PCs] /\ row' \in [Pod -> 1..Rows] /\ failed' \in [Pod -> BOOLEAN]
    <3>1. CASE FindFails(p)
      <4> DEFINE error == row[p] <= Types
      <4>1. error \in BOOLEAN /\ NextRow(p, error)
        BY <3>1 DEF FindFails
      <4> HIDE DEF error
      <4> QED
        BY <4>1, NextRowType
    <3>3. CASE NextRow(p, FALSE)
      BY <3>3, NextRowType
    <3>2. CASE GoTo(p, "create") /\ UNCHANGED <<row, failed>>
      BY <3>2 DEF GoTo, PCs
    <3> QED
      BY <1>5, <3>1, <3>2, <3>3 DEF Find
  <2> QED
    BY <1>5, <2>1 DEF Find
<1>6. ASSUME NEW p \in Pod, Create(p) PROVE TypeOK'
  <2>1. pc' \in [Pod -> PCs] /\ row' \in [Pod -> 1..Rows] /\ failed' \in [Pod -> BOOLEAN]
    <3> DEFINE error == version = 0 \/ (row[p] \in rows /\ row[p] > Types)
    <3>1. error \in BOOLEAN /\ NextRow(p, error)
      BY <1>6 DEF Create
    <3> HIDE DEF error
    <3> QED
      BY <3>1, NextRowType
  <2>2. rows' \subseteq 1..Rows
    <3>1. row[p] \in 1..Rows
      OBVIOUS
    <3>2. rows' = rows \/ rows' = rows \cup {row[p]}
      BY <1>6 DEF Create
    <3> QED
      BY <3>1, <3>2
  <2> QED
    BY <1>6, <2>1, <2>2 DEF Create
<1>7. ASSUME NEW p \in Pod, Unlock(p) PROVE TypeOK'
  <2>1. CASE GiveUp(p) /\ UNCHANGED done
    <3>1. UNCHANGED <<row, failed, served, faults, database, termEpoch, done>>
      BY <1>7, <2>1 DEF Unlock, GiveUp
    <3> QED
      BY <2>1, <3>1, GiveUpType
  <2>2. CASE ~(GiveUp(p) /\ UNCHANGED done)
    <3>1. epoch \in 0..MaxWipes + 1
      BY DEF Epoch
    <3>2. /\ pc' = [pc EXCEPT ![p] = "types"]
          /\ done' = [done EXCEPT ![p] = epoch]
          /\ initLock' = Free(initLock, p)
          /\ UNCHANGED <<database, migLock, election, recovering, row, failed, served, faults>>
      BY <1>7, <2>2 DEF Unlock, GoTo
    <3>3. done' \in [Pod -> 0..MaxWipes + 1]
      BY <3>1, <3>2
    <3>4. pc' \in [Pod -> PCs] /\ initLock' \in Pod \cup {NoPod}
      BY <3>2 DEF Free, PCs
    <3> QED
      BY <3>2, <3>3, <3>4
  <2> QED
    BY <2>1, <2>2
<1>8. ASSUME NEW p \in Pod, ReadTypes(p) PROVE TypeOK'
  <2>1. CASE GiveUp(p) /\ UNCHANGED served
    <3>1. UNCHANGED <<init, served, faults, database, termEpoch>>
      BY <1>8, <2>1 DEF ReadTypes, GiveUp
    <3> QED
      BY <2>1, <3>1, GiveUpType
  <2>2. CASE ~(GiveUp(p) /\ UNCHANGED served)
    <3>1. epoch \in 0..MaxWipes + 1
      BY DEF Epoch
    <3>2. [l \in Plugin |-> epoch] \in [Plugin -> 0..MaxWipes + 1]
      BY <3>1
    <3>3. UNCHANGED <<database, locks, election, recovering, init, faults>>
      BY <1>8, <2>2 DEF ReadTypes
    <3>4. pc' \in [Pod -> PCs] /\ repoSet' \in [Pod -> 0..MaxWipes + 1]
      <4>1. repoSet' = [repoSet EXCEPT ![p] = epoch]
        BY <1>8, <2>2 DEF ReadTypes
      <4>2. pc' = [pc EXCEPT ![p] = "reconnect"] \/ pc' = [pc EXCEPT ![p] = "serving"]
        BY <1>8, <2>2 DEF ReadTypes, GoTo
      <4> QED
        BY <3>1, <4>1, <4>2 DEF PCs
    <3>5. /\ repos' \in [Pod -> [Plugin -> 0..MaxWipes + 1]]
          /\ router' \in [Pod -> [Plugin -> 0..MaxWipes + 1]]
      <4>1. \/ UNCHANGED <<repos, router>>
            \/ /\ repos' = [repos EXCEPT ![p] = [l \in Plugin |-> epoch]]
               /\ router' = [router EXCEPT ![p] = [l \in Plugin |-> epoch]]
        BY <1>8, <2>2 DEF ReadTypes
      <4>2. CASE UNCHANGED <<repos, router>>
        BY <4>2
      <4>3. CASE /\ repos' = [repos EXCEPT ![p] = [l \in Plugin |-> epoch]]
                 /\ router' = [router EXCEPT ![p] = [l \in Plugin |-> epoch]]
        <5> DEFINE all == [l \in Plugin |-> epoch]
        <5>1. /\ all \in [Plugin -> 0..MaxWipes + 1]
              /\ repos' = [repos EXCEPT ![p] = all] /\ router' = [router EXCEPT ![p] = all]
          BY <3>2, <4>3
        <5> HIDE DEF all
        <5> QED
          BY <5>1
      <4> QED
        BY <4>1, <4>2, <4>3
    <3> QED
      BY <3>3, <3>4, <3>5
  <2> QED
    BY <2>1, <2>2
<1>9. ASSUME NEW p \in Pod, Reconnect(p) PROVE TypeOK'
  <2>1. Refreshed(p, Reconnectable) \in [Plugin -> 0..MaxWipes + 1]
    BY DEF Refreshed
  <2>2. repos' \in [Pod -> [Plugin -> 0..MaxWipes + 1]]
    BY <1>9, <2>1 DEF Reconnect
  <2>3. router' \in [Pod -> [Plugin -> 0..MaxWipes + 1]]
    BY <1>9, <2>2 DEF Reconnect
  <2> QED
    BY <1>9, <2>2, <2>3 DEF Reconnect, GoTo, PCs
<1>10. ASSUME NEW p \in Pod, ReconnectFails(p) PROVE TypeOK'
  <2>1. PICK ok \in SUBSET Reconnectable : repos' = [repos EXCEPT ![p] = Refreshed(p, ok)]
    BY <1>10 DEF ReconnectFails
  <2>2. Refreshed(p, ok) \in [Plugin -> 0..MaxWipes + 1]
    BY DEF Refreshed
  <2>3. repos' \in [Pod -> [Plugin -> 0..MaxWipes + 1]]
    BY <2>1, <2>2
  <2>4. faults' \in 0..MaxFaults
    BY <1>10 DEF ReconnectFails, Fault
  <2>5. GiveUp(p) /\ UNCHANGED <<init, repoSet, router, database, termEpoch>>
    BY <1>10 DEF ReconnectFails, GiveUp
  <2> QED
    BY <2>3, <2>4, <2>5, GiveUpType
<1>11. ASSUME NEW p \in Pod, EndTerm(p) PROVE TypeOK'
  BY <1>11 DEF EndTerm
<1>12. ASSUME NEW p \in Pod, StopLeading(p) PROVE TypeOK'
  BY <1>12 DEF StopLeading, GoTo, PCs
<1>13. ASSUME NEW p \in Pod, Lock(p) PROVE TypeOK'
  BY <1>13 DEF Lock, GoTo, PCs
<1>14. ASSUME NEW p \in Pod, BecomeLeader(p) PROVE TypeOK'
  <2>1. epoch \in 0..MaxWipes + 1
    BY DEF Epoch
  <2> QED
    BY <1>14, <2>1 DEF BecomeLeader, GoTo, PCs
<1>15. ASSUME NEW p \in Pod, Cancel(p) PROVE TypeOK'
  <2>1. faults' \in 0..MaxFaults
    BY <1>15 DEF Cancel, Fault
  <2>2. UNCHANGED <<served, database, termEpoch, row, done>>
    BY <1>15 DEF Cancel, GiveUp
  <2>3. CASE GiveUp(p) /\ UNCHANGED init
    BY <2>1, <2>2, <2>3, GiveUpType
  <2>4. CASE ~(GiveUp(p) /\ UNCHANGED init)
    BY <1>15, <2>1, <2>2, <2>4 DEF Cancel, GoTo, Free, PCs
  <2> QED
    BY <2>3, <2>4
<1>16. ASSUME NEW p \in Pod, Crash(p) PROVE TypeOK'
  BY <1>16 DEF Crash, Fault, Exit, GoTo, Free, PCs
<1>17. ASSUME NEW p \in Pod, LoseSession(p) PROVE TypeOK'
  BY <1>17 DEF LoseSession, Fault
<1>19. ASSUME NEW p \in Pod, QueryFails(p) PROVE TypeOK'
  <2>1. pc' \in [Pod -> PCs] /\ row' \in [Pod -> 1..Rows] /\ failed' \in [Pod -> BOOLEAN]
    <3>1. CASE FindFails(p)
      <4> DEFINE error == row[p] <= Types
      <4>1. error \in BOOLEAN /\ NextRow(p, error)
        BY <3>1 DEF FindFails
      <4> HIDE DEF error
      <4> QED
        BY <4>1, NextRowType
    <3>2. CASE NextRow(p, TRUE)
      BY <3>2, NextRowType
    <3> QED
      BY <1>19, <3>1, <3>2 DEF QueryFails
  <2>2. faults' \in 0..MaxFaults
    BY <1>19 DEF QueryFails, Fault
  <2> QED
    BY <1>19, <2>1, <2>2 DEF QueryFails
<1>18. ASSUME Wipe PROVE TypeOK'
  <2>1. epoch' \in Epoch /\ version' \in 0..Migrations
    BY <1>18 DEF Wipe, Epoch
  <2> QED
    BY <1>18, <2>1 DEF Wipe
<1> QED
  BY <1>0, <1>1, <1>2, <1>3, <1>4, <1>5, <1>6, <1>7, <1>8, <1>9, <1>10, <1>11,
     <1>12, <1>13, <1>14, <1>15, <1>16, <1>17, <1>18, <1>19 DEF Next, Step

(* Types: every variable stays in its type, so a pod never registers a row *)
(* beyond the specification's and no counter passes its bound.             *)
THEOREM TypeCorrect == Spec => []TypeOK
<1>1. Init => TypeOK
  BY InitType
<1>2. TypeOK /\ [Next]_vars => TypeOK'
  BY StepType
<1> QED
  BY <1>1, <1>2, PTL DEF Spec

-----------------------------------------------------------------------------
(* Only the loss of the database takes anything away from a complete       *)
(* schema: a migration finds nothing to do and a registration only adds.   *)
LEMMA DatabaseGrows ==
    ASSUME TypeOK, NEW p \in Pod, PodStep(p)
    PROVE  /\ epoch' = epoch
           /\ rows \subseteq rows'
           /\ version' >= version
           /\ version = Migrations /\ ~dirty => version' = Migrations /\ ~dirty'
<1> USE DEF database
<1>1. CASE Migrate(p)
  BY <1>1 DEF Migrate, TypeOK
<1>2. CASE Create(p)
  BY <1>2 DEF Create, TypeOK
<1>3. CASE UNCHANGED database
  BY <1>3 DEF TypeOK
<1>4. Migrate(p) \/ Create(p) \/ UNCHANGED database
  BY DEF PodStep, Step, Start, Up, Migrated, Find, Unlock, ReadTypes, Reconnect,
         EndTerm, StopLeading, Lock, BecomeLeader, Cancel, QueryFails, ReconnectFails, Crash,
         LoseSession, GiveUp
<1> QED
  BY <1>1, <1>2, <1>3, <1>4

(* A step of one pod leaves the others where they are, and takes the       *)
(* initialization lock from none of them to give it to another.            *)
LEMMA OthersUntouched ==
    ASSUME TypeOK, NEW p \in Pod, NEW q \in Pod, PodStep(p), p # q
    PROVE  /\ pc'[q] = pc[q] /\ row'[q] = row[q] /\ failed'[q] = failed[q]
           /\ done'[q] = done[q] /\ termEpoch'[q] = termEpoch[q]
           /\ repoSet'[q] = repoSet[q] /\ repos'[q] = repos[q] /\ router'[q] = router[q]
           /\ initLock' = q => initLock = q
<1> USE DEF TypeOK, database, locks, init, served, election, GoTo, Free, Exit
<1>1. CASE Start(p) \/ Up(p) \/ Migrate(p) \/ Migrated(p) \/ Lock(p)
  BY <1>1 DEF Start, Up, Migrate, Migrated, Lock
<1>2. CASE Find(p) \/ Create(p) \/ QueryFails(p)
  BY <1>2 DEF Find, FindFails, Create, QueryFails, NextRow
<1>3. CASE Unlock(p) \/ ReadTypes(p)
  BY <1>3 DEF Unlock, ReadTypes, GiveUp
<1>4. CASE Reconnect(p)
  BY <1>4 DEF Reconnect
<1>5. CASE EndTerm(p) \/ StopLeading(p) \/ BecomeLeader(p)
  BY <1>5 DEF EndTerm, StopLeading, BecomeLeader
<1>6. CASE Cancel(p) \/ ReconnectFails(p)
  BY <1>6 DEF Cancel, ReconnectFails, GiveUp
<1>7. CASE Crash(p) \/ LoseSession(p)
  BY <1>7 DEF Crash, LoseSession
<1> QED
  BY <1>1, <1>2, <1>3, <1>4, <1>5, <1>6, <1>7 DEF PodStep, Step

(* What the holder of the lock knows of the rows survives the next one.    *)
LEMMA RegisterRow ==
    ASSUME TypeOK, TypeOK', NEW p \in Pod, Find(p) \/ Create(p) \/ QueryFails(p),
           Registering, initLock' = p, ~failed'[p]
    PROVE  /\ version' = Migrations /\ ~dirty'
           /\ pc'[p] \in {"find", "create"} => \A k \in 1..Types : k < row'[p] => k \in rows'
           /\ pc'[p] = "unlock" => 1..Types \subseteq rows'
<1>1. /\ initLock = p /\ UNCHANGED <<version, dirty>> /\ rows \subseteq rows'
      /\ pc[p] \in {"find", "create"}
  BY DEF Find, FindFails, Create, QueryFails, database, locks
<1>2. ~failed[p]
  BY DEF Find, FindFails, Create, QueryFails, NextRow, TypeOK
<1>3. version = Migrations /\ ~dirty /\ \A k \in 1..Types : k < row[p] => k \in rows
  BY <1>1, <1>2 DEF Registering
<1>4. row[p] \in 1..Rows /\ row'[p] \in 1..Rows
  BY DEF TypeOK
<1>5. CASE \E error \in BOOLEAN : NextRow(p, error)
  <2>1. row[p] \in 1..Types => row[p] \in rows'
    <3>1. CASE FindFails(p)
      <4>1. failed'[p] = (failed[p] \/ row[p] <= Types)
        BY <3>1 DEF FindFails, NextRow, TypeOK
      <4>2. ~(row[p] <= Types)
        BY <4>1
      <4> QED
        BY <1>4, <4>2
    <3>2. CASE Find(p) /\ row[p] \in rows
      BY <1>1, <3>2
    <3>3. CASE Create(p)
      BY <1>1, <1>3, <1>4, <3>3 DEF Create
    <3>4. CASE pc[p] = "create" /\ NextRow(p, TRUE)
      BY <3>4 DEF NextRow, TypeOK
    <3>5. CASE Find(p) /\ pc[p] = "find" /\ GoTo(p, "create")
      BY <1>5, <3>5 DEF GoTo, NextRow, TypeOK
    <3> QED
      BY <3>1, <3>2, <3>3, <3>4, <3>5 DEF Find, QueryFails
  <2>2. \A k \in 1..Types : k < row[p] + 1 => k \in rows'
    BY <1>1, <1>3, <1>4, <2>1
  <2>3. CASE row[p] < Rows
    <3>1. row'[p] = row[p] + 1 /\ pc'[p] = "find"
      BY <1>5, <2>3 DEF NextRow, GoTo, TypeOK
    <3> QED
      BY <1>1, <1>3, <1>4, <2>2, <3>1
  <2>4. CASE ~(row[p] < Rows)
    <3>1. pc'[p] = "unlock"
      BY <1>5, <2>4 DEF NextRow, GoTo, TypeOK
    <3>2. row[p] = Rows
      BY <1>4, <2>4
    <3>3. 1..Types \subseteq rows'
      BY <2>2, <3>2
    <3> QED
      BY <1>1, <1>3, <3>1, <3>3
  <2> QED
    BY <2>3, <2>4
<1>6. CASE Find(p) /\ GoTo(p, "create") /\ UNCHANGED <<row, failed>>
  <2>1. pc'[p] = "create" /\ row'[p] = row[p]
    BY <1>6 DEF GoTo, TypeOK
  <2> QED
    BY <1>1, <1>3, <2>1
<1> QED
  <2>1. CASE Create(p)
    <3> DEFINE error == version = 0 \/ (row[p] \in rows /\ row[p] > Types)
    <3>1. error \in BOOLEAN /\ NextRow(p, error)
      BY <2>1 DEF Create
    <3> HIDE DEF error
    <3> QED
      BY <1>5, <3>1
  <2>2. CASE FindFails(p)
    <3>1. (row[p] <= Types) \in BOOLEAN
      OBVIOUS
    <3> QED
      BY <1>5, <2>2, <3>1 DEF FindFails
  <2> QED
    BY <1>5, <1>6, <2>1, <2>2 DEF Find, QueryFails

(* A step of a pod keeps what the holder of the lock knows.                *)
LEMMA RegisteringStep ==
    ASSUME TypeOK, TypeOK', Registering, NEW p \in Pod, PodStep(p)
    PROVE  Registering'
<1> SUFFICES ASSUME NEW q \in Pod, initLock' = q, ~failed'[q]
             PROVE  /\ pc'[q] \in {"find", "create", "unlock"} => version' = Migrations /\ ~dirty'
                    /\ pc'[q] \in {"find", "create"} => \A k \in 1..Types : k < row'[q] => k \in rows'
                    /\ pc'[q] = "unlock" => 1..Types \subseteq rows'
  BY DEF Registering
<1>1. ASSUME initLock = q, pc'[q] = pc[q], row'[q] = row[q], failed'[q] = failed[q]
      PROVE  /\ pc'[q] \in {"find", "create", "unlock"} => version' = Migrations /\ ~dirty'
             /\ pc'[q] \in {"find", "create"} => \A k \in 1..Types : k < row'[q] => k \in rows'
             /\ pc'[q] = "unlock" => 1..Types \subseteq rows'
  <2>1. /\ rows \subseteq rows' /\ rows' \subseteq 1..Rows
        /\ version = Migrations /\ ~dirty => version' = Migrations /\ ~dirty'
    BY DatabaseGrows DEF TypeOK
  <2> QED
    BY <1>1, <2>1 DEF Registering
<1>2. CASE p # q
  BY <1>1, <1>2, OthersUntouched
<1>3. CASE p = q
  <2> USE DEF GoTo, TypeOK
  <2>1. CASE Find(p) \/ Create(p) \/ QueryFails(p)
    BY <1>3, <2>1, RegisterRow
  <2>2. CASE Migrated(p)
    <3>1. pc'[p] = "find" /\ row'[p] = 1 /\ version' = Migrations /\ ~dirty'
      BY <1>3, <2>2 DEF Migrated, database
    <3>2. \A k \in 1..Types : k < row'[p] => k \in rows'
      BY <3>1
    <3> QED
      BY <1>3, <3>1, <3>2
  <2>3. CASE Migrate(p)
    BY <1>3, <2>3 DEF Migrate
  <2>4. CASE Up(p) \/ Start(p) \/ Lock(p) \/ BecomeLeader(p) \/ StopLeading(p) \/ Reconnect(p)
    BY <1>3, <2>4 DEF Up, Start, Lock, BecomeLeader, StopLeading, Reconnect
  <2>5. CASE Unlock(p) \/ ReadTypes(p) \/ ReconnectFails(p)
    BY <1>3, <2>5 DEF Unlock, ReadTypes, ReconnectFails, GiveUp, Exit
  <2>6. CASE Cancel(p) \/ Crash(p)
    BY <1>3, <2>6 DEF Cancel, Crash, GiveUp, Exit
  <2>7. CASE EndTerm(p) \/ LoseSession(p)
    <3>1. initLock = q /\ UNCHANGED <<pc, row, failed>>
      BY <1>3, <2>7 DEF EndTerm, LoseSession, locks, init
    <3> QED
      BY <1>1, <3>1
  <2> QED
    BY <2>1, <2>2, <2>3, <2>4, <2>5, <2>6, <2>7 DEF PodStep, Step
<1> QED
  BY <1>2, <1>3

-----------------------------------------------------------------------------
(* The databases a pod has seen: the history variables lag behind epoch.   *)
LEMMA EpochsSeenStep ==
    ASSUME TypeOK, EpochsSeen, [Next]_vars
    PROVE  EpochsSeen'
<1> USE DEF EpochsSeen, TypeOK, Epoch
<1>0. CASE UNCHANGED vars
  BY <1>0 DEF vars, database, init, election
<1>1. ASSUME NEW p \in Pod, PodStep(p) PROVE EpochsSeen'
  <2>1. epoch' = epoch
    BY <1>1, DatabaseGrows
  <2>2. ASSUME NEW q \in Pod, q # p PROVE done'[q] <= epoch' /\ termEpoch'[q] <= epoch'
    BY <1>1, <2>1, <2>2, OthersUntouched
  <2>3. done'[p] = done[p] \/ done'[p] = epoch
    BY <1>1 DEF PodStep, Step, Start, Up, Migrate, Migrated, Find, Create, Unlock, ReadTypes,
         Reconnect, EndTerm, StopLeading, Lock, BecomeLeader, Cancel, QueryFails, ReconnectFails, Crash,
         LoseSession, init
  <2>4. termEpoch'[p] = termEpoch[p] \/ termEpoch'[p] = epoch
    BY <1>1 DEF PodStep, Step, Start, Up, Migrate, Migrated, Find, Create, Unlock, ReadTypes,
         Reconnect, EndTerm, StopLeading, Lock, BecomeLeader, Cancel, QueryFails, ReconnectFails, Crash,
         LoseSession, GiveUp, election
  <2>5. done'[p] <= epoch' /\ termEpoch'[p] <= epoch'
    BY <2>1, <2>3, <2>4
  <2> QED
    BY <2>2, <2>5
<1>2. CASE Wipe
  BY <1>2 DEF Wipe, init
<1> QED
  BY <1>0, <1>1, <1>2 DEF Next, PodStep

(* The schema stays complete where a pod has completed it.                 *)
LEMMA SchemaStep ==
    ASSUME TypeOK, TypeOK', SchemaInv, [Next]_vars
    PROVE  SchemaInv'
<1> USE DEF SchemaInv
<1>1. EpochsSeen'
  BY EpochsSeenStep
<1>2. CASE UNCHANGED vars
  BY <1>1, <1>2 DEF vars, database, locks, init, Registering, SchemaComplete
<1>3. CASE Wipe
  <2>1. Registering'
    BY <1>3 DEF Wipe, Registering
  <2>2. SchemaComplete'
    BY <1>3 DEF Wipe, SchemaComplete, EpochsSeen, TypeOK, Epoch, init
  <2> QED
    BY <1>1, <2>1, <2>2
<1>4. ASSUME NEW p \in Pod, PodStep(p) PROVE SchemaInv'
  <2>1. Registering'
    BY <1>4, RegisteringStep
  <2>2. ASSUME NEW q \in Pod, done'[q] = epoch'
        PROVE  version' = Migrations /\ ~dirty' /\ 1..Types \subseteq rows'
    <3>1. /\ epoch' = epoch /\ rows \subseteq rows' /\ rows' \subseteq 1..Rows
          /\ version = Migrations /\ ~dirty => version' = Migrations /\ ~dirty'
      BY <1>4, DatabaseGrows DEF TypeOK
    <3>2. CASE done[q] = epoch
      BY <3>1, <3>2 DEF SchemaComplete
    <3>3. CASE done[q] # epoch
      <4>1. p = q
        BY <1>4, <2>2, <3>1, <3>3, OthersUntouched
      <4>2. Unlock(p)
        BY <1>4, <2>2, <3>1, <3>3, <4>1
           DEF PodStep, Step, Start, Up, Migrate, Migrated, Find, Create, ReadTypes,
               Reconnect, EndTerm, StopLeading, Lock, BecomeLeader, Cancel,
               QueryFails, ReconnectFails, Crash, LoseSession, init
      <4>3. initLock = p /\ ~failed[p] /\ pc[p] = "unlock" /\ UNCHANGED database
        BY <2>2, <3>1, <3>3, <4>1, <4>2 DEF Unlock
      <4> QED
        BY <4>3 DEF Registering, database
    <3> QED
      BY <3>2, <3>3
  <2> QED
    BY <1>1, <2>1, <2>2 DEF SchemaComplete
<1> QED
  BY <1>2, <1>3, <1>4 DEF Next, PodStep

(* Complete schema: when the part of Initialize() under the lock succeeds, *)
(* the database it succeeded in has every migration and type, however many *)
(* pods initialize it, crash, or lose their sessions meanwhile, and   *)
(* stays so until the database is lost.                                    *)
THEOREM SchemaIsComplete == Spec => []SchemaComplete
<1>1. Init => SchemaInv
  BY DEF Init, SchemaInv, Registering, EpochsSeen, SchemaComplete
<1>2. SchemaInv /\ TypeOK /\ TypeOK' /\ [Next]_vars => SchemaInv'
  BY SchemaStep
<1>3. SchemaInv => SchemaComplete
  BY DEF SchemaInv
<1> QED
  BY <1>1, <1>2, <1>3, TypeCorrect, PTL DEF Spec
-----------------------------------------------------------------------------
(* A term's plugins and routes keep the repositories the term began with.  *)
LEMMA TermStep ==
    ASSUME TypeOK, TypeOK', TermInv, [Next]_vars
    PROVE  TermInv'
<1> USE DEF TermInv
<1>1. EpochsSeen'
  BY EpochsSeenStep
<1>2. CASE UNCHANGED vars
  BY <1>1, <1>2 DEF vars, served, election, FreshRepoSet, NoStaleIngest
<1>3. CASE Wipe
  BY <1>1, <1>3 DEF Wipe, served, FreshRepoSet, NoStaleIngest
<1>4. ASSUME NEW p \in Pod, PodStep(p) PROVE TermInv'
  <2> DEFINE Fresh(q) ==
        /\ pc[q] = "reconnect" => repoSet[q] >= termEpoch[q]
        /\ pc[q] = "leading" => \A l \in Reconnectable :
              repos[q][l] >= termEpoch[q] /\ router[q][l] = repos[q][l]
  <2>1. \A q \in Pod : Fresh(q)
    BY DEF FreshRepoSet, NoStaleIngest
  <2>2. ASSUME NEW q \in Pod, q # p PROVE Fresh(q)'
    BY <1>4, <2>1, <2>2, OthersUntouched
  <2>3. Fresh(p)'
    <3> USE DEF GoTo, TypeOK
    <3>1. CASE Reconnect(p)
      <4>1. pc'[p] = "leading" /\ repos'[p] = Refreshed(p, Reconnectable)
            /\ router'[p] = repos'[p] /\ termEpoch'[p] = termEpoch[p] /\ pc[p] = "reconnect"
        BY <3>1 DEF Reconnect, election
      <4>2. \A l \in Reconnectable : repos'[p][l] = repoSet[p]
        BY <4>1 DEF Refreshed
      <4> QED
        BY <2>1, <4>1, <4>2
    <3>2. CASE ReadTypes(p)
      <4>1. CASE pc'[p] = "reconnect"
        <5>1. repoSet'[p] = epoch /\ termEpoch'[p] = termEpoch[p]
          BY <3>2, <4>1 DEF ReadTypes, GiveUp, Exit, election
        <5> QED
          BY <4>1, <5>1 DEF EpochsSeen, Epoch
      <4>2. pc'[p] # "leading"
        BY <3>2 DEF ReadTypes, GiveUp, Exit
      <4> QED
        BY <4>1, <4>2
    <3>3. CASE pc'[p] \notin {"reconnect", "leading"}
      BY <3>3
    <3>4. CASE UNCHANGED <<pc, termEpoch, served>>
      BY <2>1, <3>4 DEF served
    <3>5. Reconnect(p) \/ ReadTypes(p) \/ pc'[p] \notin {"reconnect", "leading"}
          \/ UNCHANGED <<pc, termEpoch, served>>
      <4>1. CASE Start(p) \/ Up(p) \/ Migrate(p) \/ Migrated(p) \/ Lock(p) \/ BecomeLeader(p)
        BY <4>1 DEF Start, Up, Migrate, Migrated, Lock, BecomeLeader
      <4>2. CASE Find(p) \/ Create(p) \/ QueryFails(p)
        BY <4>2 DEF Find, FindFails, Create, QueryFails, NextRow
      <4>3. CASE Unlock(p) \/ ReconnectFails(p) \/ Cancel(p) \/ Crash(p)
        BY <4>3 DEF Unlock, ReconnectFails, Cancel, Crash, GiveUp, Exit
      <4>4. CASE EndTerm(p) \/ StopLeading(p) \/ LoseSession(p)
        BY <4>4 DEF EndTerm, StopLeading, LoseSession
      <4> QED
        BY <1>4, <4>1, <4>2, <4>3, <4>4 DEF PodStep, Step
    <3> QED
      BY <3>1, <3>2, <3>3, <3>4, <3>5
  <2>4. \A q \in Pod : Fresh(q)'
    BY <2>2, <2>3
  <2> QED
    BY <1>1, <2>4 DEF FreshRepoSet, NoStaleIngest
<1> QED
  BY <1>2, <1>3, <1>4 DEF Next, PodStep

(* No stale ingestion: in every term, for any number of lost databases,    *)
(* the plugins with a Reconnect() write through repositories read after    *)
(* the term was won, and the routes serve from the same ones.              *)
THEOREM IngestIsFresh == Spec => []NoStaleIngest
<1>1. Init => TermInv
  BY DEF Init, TermInv, EpochsSeen, FreshRepoSet, NoStaleIngest
<1>2. TermInv /\ TypeOK /\ TypeOK' /\ [Next]_vars => TermInv'
  BY TermStep
<1>3. TermInv => NoStaleIngest
  BY DEF TermInv
<1> QED
  BY <1>1, <1>2, <1>3, TypeCorrect, PTL DEF Spec

-----------------------------------------------------------------------------
(* What pod q was given was read from databases there were, and from this  *)
(* one only once its types were there.                                     *)
ReadFrom(e) == e <= epoch /\ (e = epoch => version > 0 /\ 1..Types \subseteq rows)

Resolves(q) ==
    /\ ReadFrom(repoSet[q])
    /\ \A l \in Plugin : ReadFrom(repos[q][l]) /\ ReadFrom(router[q][l])

(* Every step keeps what is served resolvable.                             *)
LEMMA ResolvesStep ==
    ASSUME TypeOK, TypeOK', \A q \in Pod : Resolves(q), [Next]_vars
    PROVE  \A q \in Pod : Resolves(q)'
<1>1. CASE UNCHANGED vars
  BY <1>1 DEF vars, database, served, Resolves, ReadFrom
<1>2. CASE Wipe
  <2>1. epoch' = epoch + 1 /\ UNCHANGED <<repoSet, repos, router>> /\ epoch \in Nat
    BY <1>2 DEF Wipe, served, TypeOK, Epoch
  <2> QED
    BY <2>1 DEF Resolves, ReadFrom, TypeOK
<1>3. ASSUME NEW p \in Pod, PodStep(p), NEW q \in Pod PROVE Resolves(q)'
  <2>1. epoch' = epoch /\ version' >= version /\ rows \subseteq rows'
        /\ version \in Nat /\ version' \in Nat /\ epoch \in Nat
    BY <1>3, DatabaseGrows DEF TypeOK, Epoch
  <2>2. ASSUME NEW e, ReadFrom(e)
        PROVE  e <= epoch' /\ (e = epoch' => version' > 0 /\ 1..Types \subseteq rows')
    BY <2>1, <2>2 DEF ReadFrom
  <2>3. CASE repoSet'[q] = repoSet[q] /\ repos'[q] = repos[q] /\ router'[q] = router[q]
    BY <2>2, <2>3 DEF Resolves, ReadFrom
  <2>4. CASE ReadTypes(p) /\ p = q /\ ~UNCHANGED served
    <3>1. 1..Types \subseteq rows /\ version > 0 /\ repoSet'[q] = epoch
      BY <2>4 DEF ReadTypes, TypeOK
    <3>2. ReadFrom(epoch)
      BY <2>1, <3>1 DEF ReadFrom
    <3>3. \A l \in Plugin : /\ repos'[q][l] \in {repos[q][l], epoch}
                            /\ router'[q][l] \in {router[q][l], epoch}
      BY <2>4 DEF ReadTypes, TypeOK
    <3> QED
      BY <2>2, <3>1, <3>2, <3>3 DEF Resolves, ReadFrom
  <2>5. CASE (Reconnect(p) \/ ReconnectFails(p)) /\ p = q
    <3>1. repoSet'[q] = repoSet[q]
      BY <2>5 DEF Reconnect, ReconnectFails
    <3>2. \A l \in Plugin : repos'[q][l] \in {repos[q][l], repoSet[q]}
      BY <2>5 DEF Reconnect, ReconnectFails, Refreshed, TypeOK
    <3>3. \A l \in Plugin : router'[q][l] \in {router[q][l], repos'[q][l]}
      BY <2>5 DEF Reconnect, ReconnectFails, TypeOK
    <3> QED
      BY <2>2, <3>1, <3>2, <3>3 DEF Resolves, ReadFrom
  <2>6. CASE UNCHANGED served
    BY <2>3, <2>6 DEF served
  <2>7. UNCHANGED served \/ ReadTypes(p) \/ Reconnect(p) \/ ReconnectFails(p)
    BY <1>3 DEF PodStep, Step, Start, Up, Migrate, Migrated, Find, Create, Unlock, EndTerm,
                StopLeading, Lock, BecomeLeader, Cancel, QueryFails, Crash, LoseSession
  <2>8. CASE p # q
    BY <1>3, <2>3, <2>8, OthersUntouched
  <2> QED
    BY <2>4, <2>5, <2>6, <2>7, <2>8
<1> QED
  BY <1>1, <1>2, <1>3 DEF Next, PodStep

(* What a pod read from the current database stays valid there, although   *)
(* it was read outside the lock.                                           *)
THEOREM ReposAreValid == Spec => []ReposResolve
<1>1. Init => \A q \in Pod : Resolves(q)
  BY DEF Init, Resolves, ReadFrom
<1>2. (\A q \in Pod : Resolves(q)) /\ TypeOK /\ TypeOK' /\ [Next]_vars => (\A q \in Pod : Resolves(q))'
  BY ResolvesStep
<1>3. (\A q \in Pod : Resolves(q)) => ReposResolve
  BY DEF Resolves, ReadFrom, ReposResolve
<1> QED
  BY <1>1, <1>2, <1>3, TypeCorrect, PTL DEF Spec

-----------------------------------------------------------------------------
(* A recovery is under way only between the election and its end.          *)
Recovering(q) ==
    /\ leader = q => term[q] /\ (recovering[q] \/ pc[q] = "leading")
    /\ recovering[q] => pc[q] \notin {"down", "serving", "leading"}

(* Every step keeps the leadership lock with a pod that recovers or leads. *)
LEMMA RecoveringStep ==
    ASSUME TypeOK, \A q \in Pod : Recovering(q), [Next]_vars
    PROVE  \A q \in Pod : Recovering(q)'
<1>0. /\ pc \in [Pod -> PCs] /\ recovering \in [Pod -> BOOLEAN] /\ term \in [Pod -> BOOLEAN]
      /\ NoPod \notin Pod
  BY PodAssumption DEF TypeOK
<1>f. ASSUME UNCHANGED <<term, pc, recovering>>, leader' \in {leader, NoPod}
      PROVE  \A q \in Pod : Recovering(q)'
  BY <1>0, <1>f DEF Recovering
<1>1. CASE UNCHANGED vars
  BY <1>1, <1>f DEF vars, election
<1>2. CASE Wipe
  BY <1>2, <1>f DEF Wipe
<1>3. ASSUME NEW p \in Pod, PodStep(p), NEW q \in Pod PROVE Recovering(q)'
  <2>a. ASSUME NEW l, GoTo(p, l), l \notin {"down", "serving", "leading"},
               UNCHANGED <<election, recovering>>, pc[p] # "leading"
        PROVE  Recovering(q)'
    BY <1>0, <2>a DEF Recovering, GoTo, election
  <2>b. ASSUME GiveUp(p) PROVE Recovering(q)'
    BY <1>0, <2>b DEF Recovering, GiveUp, GoTo, Exit, Free
  <2>1. CASE Start(p) \/ Up(p) \/ Migrated(p) \/ Lock(p)
    BY <2>1, <2>a DEF Start, Up, Migrated, Lock
  <2>2. CASE Find(p) \/ Create(p) \/ QueryFails(p)
    BY <2>2, <2>a DEF Find, FindFails, Create, QueryFails, NextRow
  <2>3. CASE Unlock(p)
    BY <2>3, <2>a, <2>b DEF Unlock
  <2>4. CASE ReadTypes(p)
    <3>1. CASE GiveUp(p)
      BY <3>1, <2>b
    <3>2. CASE GoTo(p, "reconnect") /\ UNCHANGED <<election, recovering>>
      BY <2>4, <3>2, <2>a DEF ReadTypes
    <3>3. CASE ~recovering[p] /\ GoTo(p, "serving") /\ UNCHANGED <<election, recovering>>
      <4>1. pc[p] = "types" BY <2>4 DEF ReadTypes
      <4> QED BY <1>0, <3>3, <4>1 DEF Recovering, GoTo, election
    <3> QED
      BY <2>4, <3>1, <3>2, <3>3 DEF ReadTypes
  <2>5. CASE Reconnect(p)
    <3>1. /\ pc[p] = "reconnect" /\ GoTo(p, "leading") /\ UNCHANGED election
          /\ recovering' = [recovering EXCEPT ![p] = FALSE]
      BY <2>5 DEF Reconnect
    <3> QED
      BY <1>0, <3>1 DEF Recovering, GoTo, election
  <2>6. CASE EndTerm(p)
    <3>1. leader # p /\ term' = [term EXCEPT ![p] = FALSE] /\ UNCHANGED <<leader, pc, recovering>>
      BY <2>6 DEF EndTerm
    <3> QED
      BY <1>0, <3>1 DEF Recovering
  <2>7. CASE StopLeading(p)
    <3>1. pc[p] = "leading" /\ ~term[p] /\ GoTo(p, "serving") /\ UNCHANGED <<election, recovering>>
      BY <2>7 DEF StopLeading
    <3> QED
      BY <1>0, <3>1 DEF Recovering, GoTo, election
  <2>8. CASE BecomeLeader(p)
    <3>1. /\ leader' = p /\ GoTo(p, "lock")
          /\ term' = [term EXCEPT ![p] = TRUE] /\ recovering' = [recovering EXCEPT ![p] = TRUE]
      BY <2>8 DEF BecomeLeader
    <3> QED
      BY <1>0, <3>1 DEF Recovering, GoTo
  <2>9. CASE Cancel(p)
    BY <2>9, <2>a, <2>b DEF Cancel, InLock
  <2>10. CASE ReconnectFails(p)
    BY <2>10, <2>b DEF ReconnectFails
  <2>11. CASE Crash(p)
    <3>1. Exit(p) /\ recovering' = [recovering EXCEPT ![p] = FALSE]
      BY <2>11 DEF Crash
    <3> QED
      BY <1>0, <3>1 DEF Recovering, Exit, GoTo, Free
  <2>12. CASE Migrate(p) \/ LoseSession(p)
    BY <2>12, <1>f DEF Migrate, LoseSession, election
  <2> QED
    BY <1>3, <2>1, <2>2, <2>3, <2>4, <2>5, <2>6, <2>7, <2>8, <2>9, <2>10, <2>11, <2>12
    DEF PodStep, Step
<1> QED
  BY <1>1, <1>2, <1>3 DEF Next, PodStep

(* No pod holds the leadership lock without recovering or ingesting.       *)
THEOREM LeaderWorks == Spec => []NoIdleLeader
<1>1. Init => \A q \in Pod : Recovering(q)
  BY DEF Init, Recovering
<1>2. TypeOK /\ (\A q \in Pod : Recovering(q)) /\ [Next]_vars => (\A q \in Pod : Recovering(q))'
  BY RecoveringStep
<1>3. (\A q \in Pod : Recovering(q)) => NoIdleLeader
  BY DEF Recovering, NoIdleLeader
<1> QED
  BY <1>1, <1>2, <1>3, TypeCorrect, PTL DEF Spec
=============================================================================
