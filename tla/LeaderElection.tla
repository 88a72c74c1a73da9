--------------------------- MODULE LeaderElection ---------------------------
(***************************************************************************)
(* The catalog's leader election (catalog/internal/leader/election.go): a  *)
(* set of replicas, each running one LeaderElector, compete for one row of *)
(* the pglock table.  Every replica is a process with                      *)
(*   - the run() goroutine, at pc[n];                                      *)
(*   - the goroutines activeCallbacks counts, running[n];                  *)
(*   - callers of OnBecomeLeader, each possibly stopped between the unlock *)
(*     of mu and startCallback (captured[n]).                              *)
(*                                                                         *)
(* A leadership context is identified by the grant (lock acquisition) it   *)
(* was created for; grants are counted in the order the row was taken.     *)
(* The row itself knows a record_version_number, which pglock draws from a *)
(* sequence at every acquisition and heartbeat and by which, alone, it     *)
(* tells whose row it is.  version is the grant whose handle knows the     *)
(* row's number.  A table created anew (ensureSchema) comes with a new     *)
(* sequence, so the number in a handle of the dropped table may turn up in *)
(* the new row: stale holds the grants of such handles.                    *)
(* Time is abstracted: a lease lapses at an arbitrary moment once nobody   *)
(* renews it, and before that only as one of MaxFaults environment faults. *)
(***************************************************************************)
EXTENDS Integers

CONSTANTS Node,               \* the replicas (pods)
          Callback,           \* the callbacks a replica may register
          UnhealthyThreshold, \* consecutiveFailures that make Healthy() false
          MaxFaults           \* bound on the faults of the environment

ASSUME ThresholdAssumption == UnhealthyThreshold \in Nat \ {0}
ASSUME FaultsAssumption == MaxFaults \in Nat

VARIABLES
    lease,     \* state of the lock row: see Leases
    version,   \* the grant whose handle has the row's number, 0 if none has
    grant,     \* the grants of the row so far
    stale,     \* the grants whose handle has a number of a dropped sequence
    pc,        \* where run()/runOnce() is
    handle,    \* the grant of the lockHandle runOnce() works with, 0 if none
    why,       \* the error that runOnce() is about to return
    cancelled, \* cancelLeader() was called for the context of handle
    ctxDone,   \* the process context e.ctx is cancelled
    isLeader,  \* e.isLeader, guarded by e.mu
    leaderCtx, \* e.leaderCtx, guarded by e.mu (0 is nil)
    registered,\* e.onBecomeLeader
    toStart,   \* callbacks of runOnce()'s snapshot not launched yet
    captured,  \* context read by an OnBecomeLeader() not yet at startCallback
    running,   \* callback goroutines, by callback, context and origin
    failures,  \* e.consecutiveFailures
    started,   \* history: the (callback, grant) pairs launched by this process
    faults     \* environment faults so far

row  == <<lease, version, grant, stale>>
ctx  == <<cancelled, ctxDone>>
mu   == <<isLeader, leaderCtx, registered>>
cbs  == <<toStart, captured, running, started>>
vars == <<row, pc, handle, why, ctx, mu, cbs, failures, faults>>

PCs == {"acquire", "acquired", "start", "lead", "drain", "clear", "release",
        "failed", "reset", "backoff", "done", "down"}
Leases == {"absent", "free", "held", "lapsed"} \* absent: no pglock table
Whys == {"none", "shutdown", "lost", "fatal"}
Origins == {"snapshot", "late"}

Fault == faults < MaxFaults /\ faults' = faults + 1

(* A lease context is live while runOnce() has not cancelled it and its    *)
(* parent, the process context, is not cancelled.                          *)
CtxLive(n, t) == /\ t # 0
                 /\ t = handle[n]
                 /\ ~cancelled[n]
                 /\ ~ctxDone[n]

HoldsRow(n) == handle[n] # 0 /\ handle[n] = version

(* pglock updates the row WHERE record_version_number is the handle's: the *)
(* number is the row's own, or by chance that of another's row when both   *)
(* come from sequences that began alike.                                   *)
NumberMatches(n) == HoldsRow(n) \/ (handle[n] \in stale /\ version # 0)

Healthy(n) == failures[n] < UnhealthyThreshold

-----------------------------------------------------------------------------
(* ensureSchema(): CREATE TABLE IF NOT EXISTS. *)
EnsureSchema == lease' = IF lease = "absent" THEN "free" ELSE lease

(* NewLeaderElector() after ensureSchema(): the fields of a fresh elector. *)
FreshElector(n) ==
    /\ pc' = [pc EXCEPT ![n] = "acquire"]
    /\ handle' = [handle EXCEPT ![n] = 0]
    /\ why' = [why EXCEPT ![n] = "none"]
    /\ cancelled' = [cancelled EXCEPT ![n] = FALSE]
    /\ ctxDone' = [ctxDone EXCEPT ![n] = FALSE]
    /\ isLeader' = [isLeader EXCEPT ![n] = FALSE]
    /\ leaderCtx' = [leaderCtx EXCEPT ![n] = 0]
    /\ registered' = [registered EXCEPT ![n] = {}]
    /\ toStart' = [toStart EXCEPT ![n] = {}]
    /\ captured' = [captured EXCEPT ![n] = [c \in Callback |-> 0]]
    /\ running' = [running EXCEPT ![n] = {}]
    /\ started' = [started EXCEPT ![n] = {}]
    /\ failures' = [failures EXCEPT ![n] = 0]

Init ==
    /\ lease = "absent"
    /\ version = 0
    /\ grant = 0
    /\ stale = {}
    /\ pc = [n \in Node |-> "down"]
    /\ handle = [n \in Node |-> 0]
    /\ why = [n \in Node |-> "none"]
    /\ cancelled = [n \in Node |-> FALSE]
    /\ ctxDone = [n \in Node |-> FALSE]
    /\ isLeader = [n \in Node |-> FALSE]
    /\ leaderCtx = [n \in Node |-> 0]
    /\ registered = [n \in Node |-> {}]
    /\ toStart = [n \in Node |-> {}]
    /\ captured = [n \in Node |-> [c \in Callback |-> 0]]
    /\ running = [n \in Node |-> {}]
    /\ failures = [n \in Node |-> 0]
    /\ started = [n \in Node |-> {}]
    /\ faults = 0

(* The pod starts, or is restarted after run() ended or the pod crashed.   *)
Boot(n) ==
    /\ pc[n] \in {"down", "done"}
    /\ FreshElector(n)
    /\ EnsureSchema
    /\ UNCHANGED <<version, grant, stale, faults>>

-----------------------------------------------------------------------------
(* pglock: the row is taken when it is free, or when its lease ran out.    *)
TakeRow ==
    /\ lease \in {"free", "lapsed"}
    /\ lease' = "held"
    /\ version' = grant + 1
    /\ grant' = grant + 1
    /\ UNCHANGED stale

(* runOnce(): acquireContext() blocks while another grant is in force.     *)
Acquire(n) ==
    /\ pc[n] = "acquire"
    /\ ~ctxDone[n]
    /\ TakeRow
    /\ pc' = [pc EXCEPT ![n] = "acquired"]
    /\ handle' = [handle EXCEPT ![n] = grant + 1]
    /\ cancelled' = [cancelled EXCEPT ![n] = FALSE]
    /\ failures' = [failures EXCEPT ![n] = 0]
    /\ UNCHANGED <<why, ctxDone, mu, cbs, faults>>

(* isFatalError(): 42P01, the table is gone. *)
ErrorKind == IF lease = "absent" THEN "fatal" ELSE "lost"

(* runOnce() returns with the error in why. *)
FailWith(n, e) ==
    /\ pc' = [pc EXCEPT ![n] = "failed"]
    /\ why' = [why EXCEPT ![n] = e]

(* acquireContext() fails because the context is cancelled or the table is *)
(* gone (42P01).                                                           *)
AcquireRejected(n) ==
    /\ pc[n] = "acquire"
    /\ ctxDone[n] \/ lease = "absent"
    /\ FailWith(n, ErrorKind)
    /\ UNCHANGED <<row, handle, ctx, mu, cbs, failures, faults>>

(* The database fails the acquisition, possibly after the row was written. *)
AcquireError(n) ==
    /\ pc[n] = "acquire"
    /\ Fault
    /\ TakeRow \/ UNCHANGED row
    /\ FailWith(n, "lost")
    /\ UNCHANGED <<handle, ctx, mu, cbs, failures>>

(* Leadership state and the snapshot of the callbacks, under e.mu. *)
BecomeLeader(n) ==
    /\ pc[n] = "acquired"
    /\ isLeader' = [isLeader EXCEPT ![n] = TRUE]
    /\ leaderCtx' = [leaderCtx EXCEPT ![n] = handle[n]]
    /\ toStart' = [toStart EXCEPT ![n] = registered[n]]
    /\ pc' = [pc EXCEPT ![n] = "start"]
    /\ UNCHANGED <<row, handle, why, ctx, registered, captured, running,
                   started, failures, faults>>

(* startCallback(): the goroutine is counted by activeCallbacks. *)
Launch(n, c, t, origin) ==
    /\ running' = [running EXCEPT ![n] = @ \cup {<<c, t, origin>>}]
    /\ started' = [started EXCEPT ![n] = @ \cup {<<c, t>>}]

StartSnapshot(n, c) ==
    /\ pc[n] = "start"
    /\ c \in toStart[n]
    /\ Launch(n, c, handle[n], "snapshot")
    /\ toStart' = [toStart EXCEPT ![n] = @ \ {c}]
    /\ UNCHANGED <<row, pc, handle, why, ctx, mu, captured, failures, faults>>

EnterLoop(n) ==
    /\ pc[n] = "start"
    /\ toStart[n] = {}
    /\ pc' = [pc EXCEPT ![n] = "lead"]
    /\ UNCHANGED <<row, handle, why, ctx, mu, cbs, failures, faults>>

(* The ticker branch: the heartbeat renews the lease of the row whose      *)
(* number we have, under a new number that only our handle knows.          *)
HeartbeatOk(n) ==
    /\ pc[n] = "lead"
    /\ ~ctxDone[n]
    /\ NumberMatches(n)
    /\ lease' = "held"
    /\ version' = handle[n]
    /\ stale' = stale \ {handle[n]}
    /\ UNCHANGED <<grant, pc, handle, why, ctx, mu, cbs, failures, faults>>

(* cancelLeader(), then activeCallbacks.Wait(). *)
StepDown(n, e) ==
    /\ cancelled' = [cancelled EXCEPT ![n] = TRUE]
    /\ why' = [why EXCEPT ![n] = e]
    /\ pc' = [pc EXCEPT ![n] = "drain"]
    /\ UNCHANGED <<row, handle, ctxDone, mu, cbs, failures>>

(* Mutant: a heartbeat that finds another's row is taken for a passing     *)
(* error and tried again with the next tick.                               *)
HeartbeatRejectedOnlyFatal(n) ==
    /\ pc[n] = "lead"
    /\ ctxDone[n] \/ lease = "absent"
    /\ StepDown(n, ErrorKind)
    /\ UNCHANGED faults

(* The heartbeat finds that the row is another's, the table gone, or its   *)
(* own context cancelled.                                                  *)
HeartbeatRejected(n) ==
    /\ pc[n] = "lead"
    /\ ctxDone[n] \/ ~HoldsRow(n)
    /\ StepDown(n, ErrorKind)
    /\ UNCHANGED faults

(* The database fails the heartbeat although the row is still ours. *)
HeartbeatError(n) ==
    /\ pc[n] = "lead"
    /\ Fault
    /\ StepDown(n, "lost")

(* Mutant: the row is released before the callbacks are waited for. *)
SeeShutdownNoWait(n) ==
    /\ pc[n] = "lead"
    /\ ctxDone[n]
    /\ cancelled' = [cancelled EXCEPT ![n] = TRUE]
    /\ why' = [why EXCEPT ![n] = "shutdown"]
    /\ pc' = [pc EXCEPT ![n] = "release"]
    /\ UNCHANGED <<row, handle, ctxDone, mu, cbs, failures, faults>>

(* The ctx.Done() branch. *)
SeeShutdown(n) ==
    /\ pc[n] = "lead"
    /\ ctxDone[n]
    /\ StepDown(n, "shutdown")
    /\ UNCHANGED faults

(* Mutant: activeCallbacks.Wait() is missing. *)
DrainedAtOnce(n) ==
    /\ pc[n] = "drain"
    /\ pc' = [pc EXCEPT ![n] = "clear"]
    /\ UNCHANGED <<row, handle, why, ctx, mu, cbs, failures, faults>>

(* activeCallbacks.Wait() returns. *)
Drained(n) ==
    /\ pc[n] = "drain"
    /\ running[n] = {}
    /\ pc' = [pc EXCEPT ![n] = "clear"]
    /\ UNCHANGED <<row, handle, why, ctx, mu, cbs, failures, faults>>

(* The leadership state is cleared under e.mu; on loss runOnce() returns.  *)
ClearState(n) ==
    /\ pc[n] = "clear"
    /\ isLeader' = [isLeader EXCEPT ![n] = FALSE]
    /\ leaderCtx' = [leaderCtx EXCEPT ![n] = 0]
    /\ pc' = [pc EXCEPT ![n] = IF why[n] = "shutdown" THEN "release"
                                                     ELSE "failed"]
    /\ handle' = [handle EXCEPT ![n] = IF why[n] = "shutdown" THEN @ ELSE 0]
    /\ UNCHANGED <<row, why, ctx, registered, cbs, failures, faults>>

(* handle.release() frees the row only if it has the row's number; its     *)
(* error is only logged.                                                   *)
Release(n) ==
    /\ pc[n] = "release"
    /\ \/ /\ NumberMatches(n)
          /\ version' = 0
          /\ lease' = "free"
       \/ /\ ~HoldsRow(n)
          /\ UNCHANGED <<version, lease>>
    /\ pc' = [pc EXCEPT ![n] = "done"]
    /\ handle' = [handle EXCEPT ![n] = 0]
    /\ UNCHANGED <<grant, stale, why, ctx, mu, cbs, failures, faults>>

ReleaseError(n) ==
    /\ pc[n] = "release"
    /\ Fault
    /\ pc' = [pc EXCEPT ![n] = "done"]
    /\ handle' = [handle EXCEPT ![n] = 0]
    /\ UNCHANGED <<row, why, ctx, mu, cbs, failures>>

-----------------------------------------------------------------------------
(* run() ends when its context is cancelled, whatever the error was. *)
StopOnCancel(n) ==
    /\ pc[n] = "failed"
    /\ ctxDone[n]
    /\ pc' = [pc EXCEPT ![n] = "done"]
    /\ UNCHANGED <<row, handle, why, ctx, mu, cbs, failures, faults>>

(* Mutant: consecutiveFailures.Add(-1). *)
HandleErrorCountsDown(n) ==
    /\ pc[n] = "failed"
    /\ ~ctxDone[n]
    /\ pc' = [pc EXCEPT ![n] = IF why[n] = "fatal" THEN "reset"
                                                   ELSE "backoff"]
    /\ failures' = [failures EXCEPT ![n] = @ - 1]
    /\ UNCHANGED <<row, handle, why, ctx, mu, cbs, faults>>

(* Otherwise run() counts the failure and recovers or backs off. *)
HandleError(n) ==
    /\ pc[n] = "failed"
    /\ ~ctxDone[n]
    /\ pc' = [pc EXCEPT ![n] = IF why[n] = "fatal" THEN "reset"
                                                   ELSE "backoff"]
    /\ failures' = [failures EXCEPT ![n] = @ + 1]
    /\ UNCHANGED <<row, handle, why, ctx, mu, cbs, faults>>

(* Mutant: resetFunc() makes a new client but leaves out ensureSchema(). *)
ResetWithoutSchema(n) ==
    /\ pc[n] = "reset"
    /\ ~ctxDone[n]
    /\ failures' = [failures EXCEPT ![n] = 0]
    /\ pc' = [pc EXCEPT ![n] = "backoff"]
    /\ UNCHANGED <<row, handle, why, ctx, mu, cbs, faults>>

(* resetFunc() recreates the schema. *)
Reset(n) ==
    /\ pc[n] = "reset"
    /\ ~ctxDone[n]
    /\ EnsureSchema
    /\ failures' = [failures EXCEPT ![n] = 0]
    /\ pc' = [pc EXCEPT ![n] = "backoff"]
    /\ UNCHANGED <<version, grant, stale, handle, why, ctx, mu, cbs, faults>>

(* resetFunc() fails: run() ends so that the pod restarts. *)
ResetFails(n) ==
    /\ pc[n] = "reset"
    /\ \/ ctxDone[n] /\ UNCHANGED faults
       \/ ~ctxDone[n] /\ Fault
    /\ pc' = [pc EXCEPT ![n] = "done"]
    /\ UNCHANGED <<row, handle, why, ctx, mu, cbs, failures>>

(* The delay passes, or the context is cancelled; then the loop's head.   *)
BackoffOver(n) ==
    /\ pc[n] = "backoff"
    /\ pc' = [pc EXCEPT ![n] = IF ctxDone[n] THEN "done" ELSE "acquire"]
    /\ UNCHANGED <<row, handle, why, ctx, mu, cbs, failures, faults>>

-----------------------------------------------------------------------------
(* Mutant: OnBecomeLeader() goes by the lock, not by e.isLeader. *)
OnBecomeLeaderByLock(n, c) ==
    /\ pc[n] # "down"
    /\ c \notin registered[n]
    /\ registered' = [registered EXCEPT ![n] = @ \cup {c}]
    /\ captured' = IF handle[n] # 0
                   THEN [captured EXCEPT ![n][c] = handle[n]]
                   ELSE captured
    /\ UNCHANGED <<row, pc, handle, why, ctx, isLeader, leaderCtx, toStart,
                   running, started, failures, faults>>

(* Mutant: OnBecomeLeader() only appends. *)
OnBecomeLeaderAppendOnly(n, c) ==
    /\ pc[n] # "down"
    /\ c \notin registered[n]
    /\ registered' = [registered EXCEPT ![n] = @ \cup {c}]
    /\ UNCHANGED <<row, pc, handle, why, ctx, isLeader, leaderCtx, cbs,
                   failures, faults>>

(* OnBecomeLeader(): append and read the leadership state under e.mu ...   *)
OnBecomeLeader(n, c) ==
    /\ pc[n] # "down"
    /\ c \notin registered[n]
    /\ registered' = [registered EXCEPT ![n] = @ \cup {c}]
    /\ captured' = IF isLeader[n]
                   THEN [captured EXCEPT ![n][c] = leaderCtx[n]]
                   ELSE captured
    /\ UNCHANGED <<row, pc, handle, why, ctx, isLeader, leaderCtx, toStart,
                   running, started, failures, faults>>

(* ... and, after the unlock, startCallback() with the context read above. *)
StartCaptured(n, c) ==
    /\ captured[n][c] # 0
    /\ Launch(n, c, captured[n][c], "late")
    /\ captured' = [captured EXCEPT ![n][c] = 0]
    /\ UNCHANGED <<row, pc, handle, why, ctx, mu, toStart, failures, faults>>

(* A callback goroutine ends: its context is cancelled, or it returns      *)
(* early or panics while the context is live, which is only logged.        *)
CallbackReturns(n, r) ==
    /\ r \in running[n]
    /\ running' = [running EXCEPT ![n] = @ \ {r}]
    /\ UNCHANGED <<row, pc, handle, why, ctx, mu, toStart, captured, started,
                   failures, faults>>

-----------------------------------------------------------------------------
(* The environment: SIGTERM (or the failure of another part of the         *)
(* process), a crash, a dropped database, and the lease running out.       *)
Shutdown(n) ==
    /\ pc[n] \notin {"down", "done"}
    /\ ~ctxDone[n]
    /\ Fault
    /\ ctxDone' = [ctxDone EXCEPT ![n] = TRUE]
    /\ UNCHANGED <<row, pc, handle, why, cancelled, mu, cbs, failures>>

Crash(n) ==
    /\ pc[n] \notin {"down", "done"}
    /\ Fault
    /\ pc' = [pc EXCEPT ![n] = "down"]
    /\ handle' = [handle EXCEPT ![n] = 0]
    /\ isLeader' = [isLeader EXCEPT ![n] = FALSE]
    /\ leaderCtx' = [leaderCtx EXCEPT ![n] = 0]
    /\ registered' = [registered EXCEPT ![n] = {}]
    /\ toStart' = [toStart EXCEPT ![n] = {}]
    /\ captured' = [captured EXCEPT ![n] = [c \in Callback |-> 0]]
    /\ running' = [running EXCEPT ![n] = {}]
    /\ started' = [started EXCEPT ![n] = {}]
    /\ failures' = [failures EXCEPT ![n] = 0]
    /\ UNCHANGED <<row, why, ctx>>

DropSchema ==
    /\ lease # "absent"
    /\ Fault
    /\ lease' = "absent"
    /\ version' = 0
    /\ stale' = {handle[n] : n \in Node} \ {0}
    /\ UNCHANGED <<grant, pc, handle, why, ctx, mu, cbs, failures>>

Renewed == \E n \in Node : HoldsRow(n) /\ pc[n] \in {"acquired", "start", "lead"}

LeaseLapses ==
    /\ lease = "held"
    /\ \/ ~Renewed /\ UNCHANGED faults
       \/ Renewed /\ Fault
    /\ lease' = "lapsed"
    /\ UNCHANGED <<version, grant, stale, pc, handle, why, ctx, mu, cbs, failures>>

-----------------------------------------------------------------------------
(* The steps of run() that need no fault. *)
Run(n) ==
    \/ Acquire(n)           \/ AcquireRejected(n)   \/ BecomeLeader(n)
    \/ EnterLoop(n)         \/ HeartbeatRejected(n) \/ SeeShutdown(n)
    \/ Drained(n)           \/ ClearState(n)        \/ Release(n)
    \/ StopOnCancel(n)      \/ HandleError(n)       \/ Reset(n)
    \/ BackoffOver(n)
    \/ \E c \in Callback : StartSnapshot(n, c)

RunFault(n) == AcquireError(n) \/ HeartbeatError(n) \/ ReleaseError(n)
               \/ ResetFails(n)

Callbacks(n) ==
    \/ \E c \in Callback : OnBecomeLeader(n, c) \/ StartCaptured(n, c)
    \/ \E r \in running[n] : CallbackReturns(n, r)

Next ==
    \/ \E n \in Node : \/ Boot(n) \/ Run(n) \/ RunFault(n) \/ HeartbeatOk(n)
                       \/ Callbacks(n) \/ Shutdown(n) \/ Crash(n)
    \/ DropSchema
    \/ LeaseLapses

Spec == Init /\ [][Next]_vars

(***************************************************************************)
(* Fairness: the Go scheduler runs every goroutine that can run, the       *)
(* ticker fires, Kubernetes restarts a pod that ended, an unrenewed lease  *)
(* runs out, and a callback returns once its context is cancelled, which   *)
(* OnBecomeLeader's contract asks of it.                                   *)
(***************************************************************************)
Fairness ==
    /\ \A n \in Node :
        /\ WF_vars(Boot(n))
        /\ WF_vars(Run(n))
        /\ WF_vars(HeartbeatOk(n))
        /\ WF_vars(ResetFails(n) /\ ctxDone[n])
        /\ \A c \in Callback : /\ WF_vars(OnBecomeLeader(n, c))
                               /\ WF_vars(StartCaptured(n, c))
        /\ WF_vars(\E r \in running[n] : /\ ~CtxLive(n, r[2])
                                         /\ CallbackReturns(n, r))
    /\ WF_vars(LeaseLapses /\ ~Renewed)

FairSpec == Spec /\ Fairness

-----------------------------------------------------------------------------
TypeOK ==
    /\ lease \in Leases
    /\ version \in Nat
    /\ grant \in Nat
    /\ stale \subseteq Nat
    /\ pc \in [Node -> PCs]
    /\ handle \in [Node -> Nat]
    /\ why \in [Node -> Whys]
    /\ cancelled \in [Node -> BOOLEAN]
    /\ ctxDone \in [Node -> BOOLEAN]
    /\ isLeader \in [Node -> BOOLEAN]
    /\ leaderCtx \in [Node -> Nat]
    /\ registered \in [Node -> SUBSET Callback]
    /\ toStart \in [Node -> SUBSET Callback]
    /\ captured \in [Node -> [Callback -> Nat]]
    /\ running \in [Node -> SUBSET (Callback \X Nat \X Origins)]
    /\ failures \in [Node -> Nat]
    /\ started \in [Node -> SUBSET (Callback \X Nat)]
    /\ faults \in Nat

(* runOnce() publishes the leadership state exactly while it leads or      *)
(* drains, with the context of the grant it holds; a context is cancelled  *)
(* from the moment the drain begins.  It is what the drain and the         *)
(* once-per-term properties rest on.                                       *)
LeadershipState ==
    /\ \A n \in Node :
        /\ isLeader[n] <=> pc[n] \in {"start", "lead", "drain", "clear"}
        /\ leaderCtx[n] = IF isLeader[n] THEN handle[n] ELSE 0
        /\ handle[n] # 0 <=> pc[n] \in {"acquired", "start", "lead", "drain",
                                        "clear", "release"}
        /\ pc[n] \in {"drain", "clear", "release"} => cancelled[n]
        /\ handle[n] <= grant
    /\ version = 0 <=> lease \in {"absent", "free"}

(* runOnce() waits for activeCallbacks before it clears the leadership     *)
(* state, releases the row or retries: a callback that runOnce() launched  *)
(* never outlives the term it was launched for.                            *)
CallbacksDrained ==
    \A n \in Node : \A r \in running[n] :
        r[3] = "snapshot" => /\ isLeader[n]
                             /\ r[2] = leaderCtx[n]

(* A callback is launched at most once with a leadership context, whether  *)
(* runOnce() or OnBecomeLeader() launches it: what is still to be launched *)
(* has not been launched.                                                  *)
LaunchedOnce ==
    \A n \in Node : \A c \in Callback :
        /\ c \in toStart[n] => <<c, handle[n]>> \notin started[n]
        /\ captured[n][c] # 0 =>
              /\ <<c, captured[n][c]>> \notin started[n]
              /\ ~(c \in toStart[n] /\ captured[n][c] = handle[n])

(* No registration is lost: once runOnce() is in its loop, every callback  *)
(* registered so far has been launched with this term's context or its     *)
(* OnBecomeLeader() call is about to launch it with this context.          *)
NoMissedCallback ==
    \A n \in Node : pc[n] = "lead" =>
        \A c \in registered[n] : \/ <<c, handle[n]>> \in started[n]
                                 \/ captured[n][c] = handle[n]

(* The strengthening that makes the properties above inductive: what is    *)
(* being launched belongs to the callbacks registered, no launch is for a  *)
(* grant still to come, and before the snapshot nothing was launched for   *)
(* the grant just won.                                                     *)
LaunchBookkeeping ==
    \A n \in Node :
        /\ toStart[n] # {} => pc[n] = "start"
        /\ toStart[n] \subseteq registered[n]
        /\ pc[n] = "clear" => \A r \in running[n] : r[3] # "snapshot"
        /\ \A s \in started[n] : s[1] \in registered[n] /\ s[2] <= grant
        /\ \A c \in Callback :
            /\ captured[n][c] # 0 => c \in registered[n]
            /\ captured[n][c] <= grant
            /\ pc[n] = "acquired" => /\ <<c, handle[n]>> \notin started[n]
                                     /\ captured[n][c] # handle[n]
            /\ pc[n] = "start" /\ c \in registered[n] =>
                  \/ c \in toStart[n]
                  \/ <<c, handle[n]>> \in started[n]
                  \/ captured[n][c] = handle[n]

IInv == /\ TypeOK
        /\ LeadershipState
        /\ CallbacksDrained
        /\ LaunchedOnce
        /\ NoMissedCallback
        /\ LaunchBookkeeping

(* The row is handed over by the elector only after the drain: a step that *)
(* frees or passes on an unexpired row leaves no callback behind that      *)
(* runOnce() launched for it, unless a handle of a dropped table that some *)
(* other replica still has came by the row's number.                       *)
HandoverAfterDrain ==
    [][\A n \in Node :
        /\ HoldsRow(n) /\ lease = "held"
        /\ lease' # "absent" /\ version' # version
        /\ \A m \in Node \ {n} : handle[m] \notin stale
        => \A r \in running[n] : r[3] # "snapshot"]_vars

(* The terms of the replicas, as the plugins see them: a term is the grant *)
(* of the lock handle, and it is ending once its context is cancelled.     *)
Ending == {n \in Node : handle[n] # 0 /\ (cancelled[n] \/ ctxDone[n])}

Working == [n \in Node |->
              {c \in Callback : \E r \in running[n] : r[1] = c /\ r[3] = "snapshot"}]

Terms == INSTANCE LeadershipTerms
           WITH granted <- grant, term <- handle, ending <- Ending,
                working <- Working, launched <- started

(* The election implements the terms: through lapsed leases, failed        *)
(* acquisitions, dropped tables, crashes and registrations that race the   *)
(* snapshot, every term is told apart from the others, launches a callback at    *)
(* most once, and is left only after its callbacks returned.               *)
KeepsTerms == Terms!Spec

(* A leader whose row was taken by another replica, or lost with the       *)
(* table, notices it and stops leading: split brain is temporary.  Only    *)
(* the handle of a dropped table can, by its number, make the row its own  *)
(* instead; the leader that had the row is then the one that stops.        *)
StaleLeaderStepsDown ==
    \A n \in Node : (isLeader[n] /\ ~HoldsRow(n)) ~> (~isLeader[n] \/ HoldsRow(n))

(* Whatever faults happened, once they are over one replica leads for      *)
(* good, holding the row, and is ready; no other believes it leads.        *)
EventuallyOneLeader ==
    <>[](\E n \in Node : /\ pc[n] = "lead"
                          /\ HoldsRow(n) /\ Healthy(n)
                          /\ \A m \in Node \ {n} : ~isLeader[m])
=============================================================================
