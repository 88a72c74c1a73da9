------------------------ MODULE LeaderElectionProofs ------------------------
(***************************************************************************)
(* Proofs about LeaderElection for any set of replicas, any set of         *)
(* callbacks and any number of faults.  IInv is the inductive invariant;   *)
(* each of its parts is preserved action by action.                        *)
(***************************************************************************)
EXTENDS LeaderElection, TLAPS

USE ThresholdAssumption, FaultsAssumption

(* The initial state satisfies the inductive invariant. *)
LEMMA InitIInv == Init => IInv
  BY DEF Init, IInv, TypeOK, LeadershipState, CallbacksDrained, LaunchedOnce,
         NoMissedCallback, LaunchBookkeeping, PCs, Whys, Leases, Origins

(* Every step of the election keeps every variable in its type. *)
LEMMA TypeStep == TypeOK /\ [Next]_vars => TypeOK'
  <1> SUFFICES ASSUME TypeOK, [Next]_vars
               PROVE  TypeOK'
    OBVIOUS
  <1> USE DEF TypeOK, PCs, Whys, Leases, Origins, row, ctx, mu, cbs
  <1>1. ASSUME NEW n \in Node, Boot(n) PROVE TypeOK'
    BY <1>1 DEF Boot, FreshElector, EnsureSchema
  <1>2. ASSUME NEW n \in Node, Run(n) PROVE TypeOK'
    <2>1. CASE Acquire(n) BY <2>1 DEF Acquire, TakeRow
    <2>2. CASE AcquireRejected(n) BY <2>2 DEF AcquireRejected, FailWith, ErrorKind
    <2>3. CASE BecomeLeader(n) BY <2>3 DEF BecomeLeader
    <2>4. CASE EnterLoop(n) BY <2>4 DEF EnterLoop
    <2>5. CASE HeartbeatRejected(n) BY <2>5 DEF HeartbeatRejected, StepDown,
                                       ErrorKind
    <2>6. CASE SeeShutdown(n) BY <2>6 DEF SeeShutdown, StepDown
    <2>7. CASE Drained(n) BY <2>7 DEF Drained
    <2>8. CASE ClearState(n) BY <2>8 DEF ClearState
    <2>9. CASE Release(n) BY <2>9 DEF Release
    <2>10. CASE HandleError(n) BY <2>10 DEF HandleError
    <2>14. CASE StopOnCancel(n) BY <2>14 DEF StopOnCancel
    <2>11. CASE Reset(n) BY <2>11 DEF Reset, EnsureSchema
    <2>12. CASE BackoffOver(n) BY <2>12 DEF BackoffOver
    <2>13. ASSUME NEW c \in Callback, StartSnapshot(n, c) PROVE TypeOK'
      BY <2>13 DEF StartSnapshot, Launch
    <2> QED BY <1>2, <2>1, <2>2, <2>3, <2>4, <2>5, <2>6, <2>7, <2>8, <2>9,
               <2>10, <2>11, <2>12, <2>13, <2>14 DEF Run
  <1>3. ASSUME NEW n \in Node, RunFault(n) PROVE TypeOK'
    <2>1. CASE AcquireError(n) BY <2>1 DEF AcquireError, TakeRow, FailWith, Fault
    <2>2. CASE HeartbeatError(n) BY <2>2 DEF HeartbeatError, StepDown, Fault
    <2>3. CASE ReleaseError(n) BY <2>3 DEF ReleaseError, Fault
    <2>4. CASE ResetFails(n) BY <2>4 DEF ResetFails, Fault
    <2> QED BY <1>3, <2>1, <2>2, <2>3, <2>4 DEF RunFault
  <1>4. ASSUME NEW n \in Node, HeartbeatOk(n) PROVE TypeOK'
    BY <1>4 DEF HeartbeatOk
  <1>5. ASSUME NEW n \in Node, Callbacks(n) PROVE TypeOK'
    <2>1. ASSUME NEW c \in Callback, OnBecomeLeader(n, c) PROVE TypeOK'
      BY <2>1 DEF OnBecomeLeader
    <2>2. ASSUME NEW c \in Callback, StartCaptured(n, c) PROVE TypeOK'
      BY <2>2 DEF StartCaptured, Launch
    <2>3. ASSUME NEW r \in running[n], CallbackReturns(n, r) PROVE TypeOK'
      BY <2>3 DEF CallbackReturns
    <2> QED BY <1>5, <2>1, <2>2, <2>3 DEF Callbacks
  <1>6. ASSUME NEW n \in Node, Shutdown(n) PROVE TypeOK'
    BY <1>6 DEF Shutdown, Fault
  <1>7. ASSUME NEW n \in Node, Crash(n) PROVE TypeOK'
    BY <1>7 DEF Crash, Fault
  <1>8. CASE DropSchema BY <1>8 DEF DropSchema, Fault
  <1>9. CASE LeaseLapses BY <1>9 DEF LeaseLapses, Fault
  <1>10. CASE UNCHANGED vars BY <1>10 DEF vars
  <1> QED BY <1>1, <1>2, <1>3, <1>4, <1>5, <1>6, <1>7, <1>8, <1>9, <1>10
          DEF Next

(* Every step keeps the leadership state, the launches still to be made    *)
(* and the callbacks running in agreement.                                 *)
LEMMA StepIInv == IInv /\ [Next]_vars => IInv'
  <1> SUFFICES ASSUME IInv, [Next]_vars
               PROVE  IInv'
    OBVIOUS
  <1>0. TypeOK'
    BY TypeStep DEF IInv
  <1> USE <1>0 DEF IInv, TypeOK, LeadershipState, CallbacksDrained, LaunchedOnce,
              NoMissedCallback, LaunchBookkeeping, row, ctx, mu, cbs
  <1>1. ASSUME NEW n \in Node, Boot(n) PROVE IInv'
    BY <1>1 DEF Boot, FreshElector, EnsureSchema
  <1>2. ASSUME NEW n \in Node, Acquire(n) PROVE IInv'
    <2>1. LeadershipState' BY <1>2 DEF Acquire, TakeRow
    <2>2. CallbacksDrained' BY <1>2 DEF Acquire, TakeRow
    <2>3. LaunchedOnce'
      <3> SUFFICES ASSUME NEW m \in Node, NEW d \in Callback
                   PROVE  LaunchedOnce!(m)!(d)'
        OBVIOUS
      <3>1. toStart[n] = {} /\ UNCHANGED <<toStart, captured, started>>
        BY <1>2 DEF Acquire, TakeRow
      <3>2. CASE m = n BY <3>1, <3>2
      <3>3. CASE m # n BY <1>2, <3>1, <3>3 DEF Acquire, TakeRow
      <3> QED BY <3>2, <3>3
    <2>4. NoMissedCallback' BY <1>2 DEF Acquire, TakeRow
    <2>5. LaunchBookkeeping' BY <1>2 DEF Acquire, TakeRow
    <2> QED BY <2>1, <2>2, <2>3, <2>4, <2>5
  <1>3. ASSUME NEW n \in Node, AcquireRejected(n) PROVE IInv'
    BY <1>3 DEF AcquireRejected, FailWith
  <1>4. ASSUME NEW n \in Node, BecomeLeader(n) PROVE IInv'
    BY <1>4 DEF BecomeLeader
  <1>5. ASSUME NEW n \in Node, EnterLoop(n) PROVE IInv'
    BY <1>5 DEF EnterLoop
  <1>6. ASSUME NEW n \in Node, HeartbeatRejected(n) PROVE IInv'
    BY <1>6 DEF HeartbeatRejected, StepDown
  <1>7. ASSUME NEW n \in Node, SeeShutdown(n) PROVE IInv'
    BY <1>7 DEF SeeShutdown, StepDown
  <1>8. ASSUME NEW n \in Node, Drained(n) PROVE IInv'
    BY <1>8 DEF Drained
  <1>9. ASSUME NEW n \in Node, ClearState(n) PROVE IInv'
    <2>1. LeadershipState' BY <1>9 DEF ClearState
    <2>2. CallbacksDrained' BY <1>9 DEF ClearState
    <2>3. LaunchedOnce'
      <3> SUFFICES ASSUME NEW m \in Node, NEW d \in Callback
                   PROVE  LaunchedOnce!(m)!(d)'
        OBVIOUS
      <3>1. toStart[n] = {} /\ UNCHANGED <<toStart, captured, started>>
        BY <1>9 DEF ClearState
      <3>2. CASE m = n BY <3>1, <3>2
      <3>3. CASE m # n BY <1>9, <3>1, <3>3 DEF ClearState
      <3> QED BY <3>2, <3>3
    <2>4. NoMissedCallback' BY <1>9 DEF ClearState
    <2>5. LaunchBookkeeping' BY <1>9 DEF ClearState
    <2> QED BY <2>1, <2>2, <2>3, <2>4, <2>5
  <1>10. ASSUME NEW n \in Node, Release(n) PROVE IInv'
    <2>1. LeadershipState' BY <1>10 DEF Release, NumberMatches, HoldsRow
    <2>2. CallbacksDrained' BY <1>10 DEF Release, NumberMatches, HoldsRow
    <2>3. LaunchedOnce'
      <3> SUFFICES ASSUME NEW m \in Node, NEW d \in Callback
                   PROVE  LaunchedOnce!(m)!(d)'
        OBVIOUS
      <3>1. toStart[n] = {} /\ UNCHANGED <<toStart, captured, started>>
        BY <1>10 DEF Release, NumberMatches, HoldsRow
      <3>2. CASE m = n BY <3>1, <3>2
      <3>3. CASE m # n BY <1>10, <3>1, <3>3 DEF Release, NumberMatches, HoldsRow
      <3> QED BY <3>2, <3>3
    <2>4. NoMissedCallback' BY <1>10 DEF Release, NumberMatches, HoldsRow
    <2>5. LaunchBookkeeping' BY <1>10 DEF Release, NumberMatches, HoldsRow
    <2> QED BY <2>1, <2>2, <2>3, <2>4, <2>5
  <1>11. ASSUME NEW n \in Node, StopOnCancel(n) PROVE IInv'
    BY <1>11 DEF StopOnCancel
  <1>12. ASSUME NEW n \in Node, HandleError(n) PROVE IInv'
    BY <1>12 DEF HandleError
  <1>13. ASSUME NEW n \in Node, Reset(n) PROVE IInv'
    BY <1>13 DEF Reset, EnsureSchema
  <1>14. ASSUME NEW n \in Node, BackoffOver(n) PROVE IInv'
    BY <1>14 DEF BackoffOver
  <1>15. ASSUME NEW n \in Node, AcquireError(n) PROVE IInv'
    BY <1>15 DEF AcquireError, TakeRow, FailWith
  <1>16. ASSUME NEW n \in Node, HeartbeatError(n) PROVE IInv'
    BY <1>16 DEF HeartbeatError, StepDown
  <1>17. ASSUME NEW n \in Node, ReleaseError(n) PROVE IInv'
    <2>1. LeadershipState' BY <1>17 DEF ReleaseError
    <2>2. CallbacksDrained' BY <1>17 DEF ReleaseError
    <2>3. LaunchedOnce'
      <3> SUFFICES ASSUME NEW m \in Node, NEW d \in Callback
                   PROVE  LaunchedOnce!(m)!(d)'
        OBVIOUS
      <3>1. toStart[n] = {} /\ UNCHANGED <<toStart, captured, started>>
        BY <1>17 DEF ReleaseError
      <3>2. CASE m = n BY <3>1, <3>2
      <3>3. CASE m # n BY <1>17, <3>1, <3>3 DEF ReleaseError
      <3> QED BY <3>2, <3>3
    <2>4. NoMissedCallback' BY <1>17 DEF ReleaseError
    <2>5. LaunchBookkeeping' BY <1>17 DEF ReleaseError
    <2> QED BY <2>1, <2>2, <2>3, <2>4, <2>5
  <1>18. ASSUME NEW n \in Node, ResetFails(n) PROVE IInv'
    BY <1>18 DEF ResetFails
  <1>19. ASSUME NEW n \in Node, HeartbeatOk(n) PROVE IInv'
    BY <1>19 DEF HeartbeatOk, NumberMatches, HoldsRow
  <1>20. ASSUME NEW n \in Node, Shutdown(n) PROVE IInv'
    BY <1>20 DEF Shutdown
  <1>21. ASSUME NEW n \in Node, Crash(n) PROVE IInv'
    BY <1>21 DEF Crash
  <1>22. ASSUME NEW n \in Node, NEW c \in Callback, StartSnapshot(n, c) PROVE IInv'
    BY <1>22 DEF StartSnapshot, Launch
  <1>23. ASSUME NEW n \in Node, NEW c \in Callback, OnBecomeLeader(n, c) PROVE IInv'
    BY <1>23 DEF OnBecomeLeader
  <1>24. ASSUME NEW n \in Node, NEW c \in Callback, StartCaptured(n, c) PROVE IInv'
    <2>1. LeadershipState' BY <1>24 DEF StartCaptured, Launch
    <2>2. CallbacksDrained' BY <1>24 DEF StartCaptured, Launch
    <2>3. LaunchedOnce'
      <3> SUFFICES ASSUME NEW m \in Node, NEW d \in Callback
                   PROVE  LaunchedOnce!(m)!(d)'
        OBVIOUS
      <3>1. CASE m = n /\ d = c
        <4>1. captured'[n][c] = 0 /\ UNCHANGED <<toStart, handle>>
          BY <1>24 DEF StartCaptured
        <4>2. started'[n] = started[n] \cup {<<c, captured[n][c]>>}
          BY <1>24 DEF StartCaptured, Launch
        <4>3. c \in toStart[n] => <<c, handle[n]>> # <<c, captured[n][c]>>
          <5>1. captured[n][c] # 0 BY <1>24 DEF StartCaptured
          <5>2. captured[n][c] # 0 => ~(c \in toStart[n] /\ captured[n][c] = handle[n])
            <6>1. LaunchedOnce OBVIOUS
            <6> HIDE DEF IInv, TypeOK, LeadershipState, CallbacksDrained,
                         NoMissedCallback, LaunchBookkeeping
            <6> QED BY <6>1
          <5> HIDE DEF IInv, TypeOK, LeadershipState, CallbacksDrained, LaunchedOnce,
                       NoMissedCallback, LaunchBookkeeping
          <5> QED BY <5>1, <5>2
        <4> QED BY <3>1, <4>1, <4>2, <4>3
      <3>2. CASE m = n /\ d # c
        <4>1. \A t : <<d, t>> \in started'[n] <=> <<d, t>> \in started[n]
          BY <1>24, <3>2 DEF StartCaptured, Launch
        <4> QED BY <1>24, <3>2, <4>1 DEF StartCaptured
      <3>3. CASE m # n BY <1>24, <3>3 DEF StartCaptured, Launch
      <3> QED BY <3>1, <3>2, <3>3
    <2>4. NoMissedCallback' BY <1>24 DEF StartCaptured, Launch
    <2>5. LaunchBookkeeping'
      <3> SUFFICES ASSUME NEW m \in Node
                   PROVE  LaunchBookkeeping!(m)'
        OBVIOUS
      <3>1. CASE m # n BY <1>24, <3>1 DEF StartCaptured, Launch
      <3>2. CASE m = n
        <4>1. \A s \in started'[n] : s[1] \in registered'[n] /\ s[2] <= grant'
          <5>1. started'[n] = started[n] \cup {<<c, captured[n][c]>>}
            BY <1>24 DEF StartCaptured, Launch
          <5>2. c \in registered[n] /\ captured[n][c] <= grant
            BY <1>24 DEF StartCaptured
          <5>3. UNCHANGED <<registered, grant>>
            BY <1>24 DEF StartCaptured
          <5> QED BY <5>1, <5>2, <5>3
        <4>2. \A r \in running'[n] : r[3] = "snapshot" => r \in running[n]
          <5>1. running'[n] = running[n] \cup {<<c, captured[n][c], "late">>}
            BY <1>24 DEF StartCaptured, Launch
          <5>2. <<c, captured[n][c], "late">>[3] # "snapshot"
            OBVIOUS
          <5> QED BY <5>1, <5>2
        <4>3. ASSUME NEW d \in Callback
              PROVE  LaunchBookkeeping!(n)!5!(d)'
          <5>1. CASE d = c BY <1>24, <5>1 DEF StartCaptured, Launch
          <5>2. CASE d # c
            <6>1. \A t : <<d, t>> \in started'[n] <=> <<d, t>> \in started[n]
              BY <1>24, <5>2 DEF StartCaptured, Launch
            <6> QED BY <1>24, <5>2, <6>1 DEF StartCaptured
          <5> QED BY <5>1, <5>2
        <4> QED BY <1>24, <3>2, <4>1, <4>2, <4>3 DEF StartCaptured
      <3> QED BY <3>1, <3>2
    <2> QED BY <2>1, <2>2, <2>3, <2>4, <2>5
  <1>25. ASSUME NEW n \in Node, NEW r \in running[n], CallbackReturns(n, r)
         PROVE IInv'
    BY <1>25 DEF CallbackReturns
  <1>26. CASE DropSchema BY <1>26 DEF DropSchema
  <1>27. CASE LeaseLapses BY <1>27 DEF LeaseLapses
  <1>28. CASE UNCHANGED vars BY <1>28 DEF vars
  <1> QED BY <1>1, <1>2, <1>3, <1>4, <1>5, <1>6, <1>7, <1>8, <1>9, <1>10,
             <1>11, <1>12, <1>13, <1>14, <1>15, <1>16, <1>17, <1>18, <1>19,
             <1>20, <1>21, <1>22, <1>23, <1>24, <1>25, <1>26, <1>27, <1>28
          DEF Next, Run, RunFault, Callbacks

(* The inductive invariant holds in every reachable state. *)
LEMMA Invariance == Spec => []IInv
  BY InitIInv, StepIInv, PTL DEF Spec

(* Every variable of the election stays in its type. *)
THEOREM TypeCorrect == Spec => []TypeOK
  <1>1. IInv => TypeOK BY DEF IInv
  <1> QED BY <1>1, Invariance, PTL

(* runOnce() never lets a callback it launched outlive its term: the state *)
(* is cleared, the row released and the next term begun only after all of  *)
(* them returned.                                                          *)
THEOREM Drain == Spec => []CallbacksDrained
  <1>1. IInv => CallbacksDrained BY DEF IInv
  <1> QED BY <1>1, Invariance, PTL

(* With runOnce()'s snapshot and OnBecomeLeader() racing, a callback is    *)
(* launched at most once per leadership context, and none is missed.       *)
THEOREM ExactlyOncePerTerm == Spec => [](LaunchedOnce /\ NoMissedCallback)
  <1>1. IInv => LaunchedOnce /\ NoMissedCallback BY DEF IInv
  <1> QED BY <1>1, Invariance, PTL

(* A registration that races the snapshot is not lost: a term in its loop  *)
(* has launched, or is about to launch, every callback registered.         *)
THEOREM NoneMissed == Spec => []NoMissedCallback
  <1>1. LaunchedOnce /\ NoMissedCallback => NoMissedCallback OBVIOUS
  <1> QED BY <1>1, ExactlyOncePerTerm, PTL

(* isLeader, the lease handle and the place in runOnce() agree, after      *)
(* every fault and reset.                                                  *)
THEOREM StateAgrees == Spec => []LeadershipState
  <1>1. IInv => LeadershipState BY DEF IInv
  <1> QED BY <1>1, Invariance, PTL

(* Only these steps give or take a handle. *)
LEMMA Bystanders ==
    ASSUME IInv, Next, NEW m \in Node, handle'[m] # handle[m]
    PROVE  \E n \in Node : \/ Boot(n) \/ Acquire(n) \/ ClearState(n) \/ Release(n)
                            \/ ReleaseError(n) \/ Crash(n)
  <1> USE DEF IInv, TypeOK
  <1>1. ASSUME NEW n \in Node, Run(n), ~Acquire(n), ~ClearState(n), ~Release(n)
        PROVE  UNCHANGED handle
    BY <1>1 DEF Run, AcquireRejected, BecomeLeader, EnterLoop,
       HeartbeatRejected, SeeShutdown, Drained, StopOnCancel, HandleError,
       Reset, BackoffOver, StartSnapshot, FailWith, StepDown
  <1>2. ASSUME NEW n \in Node, RunFault(n), ~ReleaseError(n)
        PROVE  UNCHANGED handle
    BY <1>2 DEF RunFault, AcquireError, HeartbeatError, ResetFails, StepDown
  <1>3. ASSUME NEW n \in Node, Callbacks(n) \/ HeartbeatOk(n) \/ Shutdown(n)
        PROVE  UNCHANGED handle
    BY <1>3 DEF Callbacks, OnBecomeLeader, StartCaptured, CallbackReturns,
       HeartbeatOk, Shutdown
  <1>4. DropSchema \/ LeaseLapses => UNCHANGED handle
    BY DEF DropSchema, LeaseLapses
  <1> QED BY <1>1, <1>2, <1>3, <1>4 DEF Next

(* No two replicas work with the same grant: Acquire() makes a new one and *)
(* nothing else hands one out.                                             *)
OwnGrants == \A n, m \in Node : n # m /\ handle[n] # 0 => handle[m] # handle[n]

LEMMA OwnGrantsStep == IInv /\ OwnGrants /\ [Next]_vars => OwnGrants'
  <1> SUFFICES ASSUME IInv, OwnGrants, [Next]_vars
               PROVE  OwnGrants'
    OBVIOUS
  <1> USE DEF IInv, TypeOK, LeadershipState, OwnGrants
  <1>1. CASE UNCHANGED handle
    BY <1>1
  <1>2. ASSUME NEW m \in Node, Acquire(m)
        PROVE  OwnGrants'
    BY <1>2 DEF Acquire
  <1>3. ASSUME NEW m \in Node,
               ClearState(m) \/ Release(m) \/ ReleaseError(m) \/ Boot(m) \/ Crash(m)
        PROVE  OwnGrants'
    <2>1. \A k \in Node : handle'[k] = handle[k] \/ handle'[k] = 0
      BY <1>3 DEF ClearState, Release, ReleaseError, Boot, Crash, FreshElector
    <2> QED BY <2>1
  <1>4. ASSUME Next, ~UNCHANGED handle
        PROVE  \E m \in Node : \/ Boot(m) \/ Acquire(m) \/ ClearState(m)
                                \/ Release(m) \/ ReleaseError(m) \/ Crash(m)
    <2>1. PICK k \in Node : handle'[k] # handle[k]
      <3>1. handle \in [Node -> Nat] /\ handle' \in [Node -> Nat]
        BY <1>4, TypeStep
      <3> QED BY <1>4, <3>1
    <2> QED BY <1>4, <2>1, Bystanders
  <1> QED BY <1>1, <1>2, <1>3, <1>4 DEF vars

(* The elector passes an unexpired row on only after the drain, and no     *)
(* other replica can, except by a number of a dropped table's sequence.    *)
THEOREM Handover == Spec => HandoverAfterDrain
  <1>1. ASSUME IInv, OwnGrants, [Next]_vars, NEW n \in Node,
               HoldsRow(n), lease = "held", lease' # "absent", version' # version,
               \A m \in Node \ {n} : handle[m] \notin stale
        PROVE  pc[n] = "release"
    <2> USE <1>1 DEF IInv, TypeOK, HoldsRow, row
    <2>0. ASSUME NEW m \in Node, NumberMatches(m), handle[m] \in stale => m = n
          PROVE  m = n
      BY <2>0 DEF NumberMatches, OwnGrants
    <2>1. ASSUME NEW m \in Node, Run(m) \/ RunFault(m) PROVE pc[n] = "release"
      <3>1. CASE Release(m) BY <2>0, <3>1 DEF Release
      <3>2. CASE ~Release(m)
        BY <2>1, <3>2 DEF Run, RunFault, Acquire, AcquireRejected, BecomeLeader,
           EnterLoop, HeartbeatRejected, SeeShutdown, Drained, ClearState,
           StopOnCancel, HandleError, Reset, BackoffOver, StartSnapshot,
           AcquireError, HeartbeatError, ReleaseError, ResetFails, TakeRow,
           StepDown
      <3> QED BY <3>1, <3>2
    <2>2. ASSUME NEW m \in Node, Callbacks(m) PROVE FALSE
      BY <2>2 DEF Callbacks, OnBecomeLeader, StartCaptured, CallbackReturns
    <2>3. ASSUME NEW m \in Node, HeartbeatOk(m) PROVE FALSE
      <3>1. m = n
        BY <2>0, <2>3 DEF HeartbeatOk
      <3> QED BY <2>3, <3>1 DEF HeartbeatOk
    <2>4. ASSUME NEW m \in Node, Boot(m) \/ Shutdown(m) \/ Crash(m)
          PROVE FALSE
      BY <2>4 DEF Boot, Shutdown, Crash
    <2>5. ~DropSchema /\ ~LeaseLapses /\ ~UNCHANGED vars
      BY DEF DropSchema, LeaseLapses, vars
    <2> QED BY <1>1, <2>1, <2>2, <2>3, <2>4, <2>5 DEF Next
  <1>2. IInv /\ OwnGrants /\ [Next]_vars => [\A n \in Node :
            /\ HoldsRow(n) /\ lease = "held"
            /\ lease' # "absent" /\ version' # version
            /\ \A m \in Node \ {n} : handle[m] \notin stale
            => \A r \in running[n] : r[3] # "snapshot"]_vars
    BY <1>1 DEF IInv, LeadershipState, CallbacksDrained
  <1>3. Init => OwnGrants
    BY DEF Init, OwnGrants
  <1> QED BY <1>2, <1>3, OwnGrantsStep, Invariance, PTL DEF Spec, HandoverAfterDrain

(* A step that leaves these alone is invisible in the terms. *)
LEMMA TermsStutter ==
    ASSUME UNCHANGED <<grant, handle, cancelled, ctxDone, running, started>>
    PROVE  UNCHANGED <<grant, handle, Ending, Working, started>>
  BY DEF Ending, Working

(* The steps of run() that no plugin can see, and those of the             *)
(* environment.                                                            *)
LEMMA TermsInvisible ==
    ASSUME NEW n \in Node,
           \/ AcquireRejected(n) \/ BecomeLeader(n) \/ EnterLoop(n) \/ Drained(n)
           \/ StopOnCancel(n) \/ HandleError(n) \/ Reset(n) \/ BackoffOver(n)
           \/ ResetFails(n) \/ HeartbeatOk(n) \/ DropSchema \/ LeaseLapses
           \/ \E c \in Callback : OnBecomeLeader(n, c)
           \/ UNCHANGED vars
    PROVE  UNCHANGED <<grant, handle, Ending, Working, started>>
  <1> UNCHANGED <<grant, handle, cancelled, ctxDone, running, started>>
    BY DEF AcquireRejected, BecomeLeader, EnterLoop, Drained, StopOnCancel,
       HandleError, Reset, BackoffOver, ResetFails, HeartbeatOk, DropSchema,
       LeaseLapses, OnBecomeLeader, vars, row, ctx, mu, cbs
  <1> QED BY TermsStutter

(* A grant begins a term, or is wasted. *)
LEMMA TermsWin ==
    ASSUME IInv, NEW n \in Node, Acquire(n) \/ AcquireError(n)
    PROVE  Terms!Next \/ UNCHANGED <<grant, handle, Ending, Working, started>>
  <1> USE DEF IInv, TypeOK
  <1>1. CASE Acquire(n)
    <2>1. Working' = Working /\ started' = started
      BY <1>1 DEF Acquire, cbs, Working
    <2>2. /\ handle[n] = 0 /\ grant' = grant + 1 /\ grant + 1 # 0
          /\ handle' = [handle EXCEPT ![n] = grant + 1]
      BY <1>1 DEF Acquire, TakeRow, LeadershipState
    <2>3. Ending' = Ending
      BY <1>1, <2>2 DEF Acquire, Ending
    <2>4. Terms!Win(n)
      BY <2>1, <2>2, <2>3 DEF Terms!Win
    <2> QED BY <2>4 DEF Terms!Next
  <1>2. CASE AcquireError(n)
    <2>1. UNCHANGED <<handle, Ending, Working, started>>
      BY <1>2 DEF AcquireError, ctx, cbs, Ending, Working
    <2>2. grant' = grant + 1 \/ grant' = grant
      BY <1>2 DEF AcquireError, TakeRow, row
    <2> QED BY <2>1, <2>2 DEF Terms!Next, Terms!Waste
  <1> QED BY <1>1, <1>2

(* Cancelling the context of a term: by runOnce(), or with the process.    *)
LEMMA TermsStepDown ==
    ASSUME IInv, NEW n \in Node,
           HeartbeatRejected(n) \/ HeartbeatError(n) \/ SeeShutdown(n) \/ Shutdown(n)
    PROVE  Terms!Next \/ UNCHANGED <<grant, handle, Ending, Working, started>>
  <1> USE DEF IInv, TypeOK
  <1>1. /\ UNCHANGED <<grant, handle, running, started>>
        /\ \/ cancelled' = [cancelled EXCEPT ![n] = TRUE] /\ ctxDone' = ctxDone
           \/ ctxDone' = [ctxDone EXCEPT ![n] = TRUE] /\ cancelled' = cancelled
    BY DEF HeartbeatRejected, HeartbeatError, SeeShutdown, Shutdown, StepDown,
           row, cbs
  <1>2. Working' = Working
    BY <1>1 DEF Working
  <1>3. CASE handle[n] = 0
    <2>1. \A k \in Node : k \in Ending' <=> k \in Ending
      BY <1>1, <1>3 DEF Ending
    <2>2. Ending' = Ending
      BY <2>1 DEF Ending
    <2> QED BY <1>1, <1>2, <2>2
  <1>4. CASE handle[n] # 0
    <2>1. Ending' = Ending \cup {n}
      BY <1>1, <1>4 DEF Ending
    <2> QED BY <1>1, <1>2, <1>4, <2>1 DEF Terms!Next, Terms!StepDown
  <1> QED BY <1>3, <1>4

(* A handle is given up only after the drain: the term is left. *)
LEMMA TermsLeave ==
    ASSUME IInv, NEW n \in Node, ClearState(n) \/ Release(n) \/ ReleaseError(n)
    PROVE  Terms!Next \/ UNCHANGED <<grant, handle, Ending, Working, started>>
  <1> USE DEF IInv, TypeOK
  <1>1. UNCHANGED <<grant, cancelled, ctxDone, running, started>>
    BY DEF ClearState, Release, ReleaseError, row, ctx, cbs
  <1>2. Working' = Working
    BY <1>1 DEF Working
  <1>3. CASE handle' = handle
    BY <1>1, <1>3, TermsStutter
  <1>4. CASE handle' # handle
    <2>1. handle' = [handle EXCEPT ![n] = 0]
      BY <1>4 DEF ClearState, Release, ReleaseError
    <2>2. pc[n] \in {"clear", "release"}
      BY DEF ClearState, Release, ReleaseError
    <2>3. n \in Ending
      BY <2>2 DEF Ending, LeadershipState
    <2>4. Ending' = Ending \ {n}
      BY <1>1, <2>1 DEF Ending
    <2>5. \A r \in running[n] : r[3] # "snapshot"
      BY <2>2 DEF LaunchBookkeeping, CallbacksDrained, LeadershipState
    <2>6. Working[n] = {}
      BY <2>5 DEF Working
    <2>7. Terms!Leave(n)
      BY <1>1, <1>2, <2>1, <2>3, <2>4, <2>6 DEF Terms!Leave
    <2> QED BY <2>7 DEF Terms!Next
  <1> QED BY <1>3, <1>4

(* A process that ends takes its term and its callbacks with it. *)
LEMMA TermsRestart ==
    ASSUME IInv, NEW n \in Node, Boot(n) \/ Crash(n)
    PROVE  Terms!Next
  <1> USE DEF IInv, TypeOK
  <1>1. /\ grant' = grant
        /\ handle' = [handle EXCEPT ![n] = 0]
        /\ running' = [running EXCEPT ![n] = {}]
        /\ started' = [started EXCEPT ![n] = {}]
        /\ \A k \in Node \ {n} : cancelled'[k] = cancelled[k] /\ ctxDone'[k] = ctxDone[k]
    BY DEF Boot, Crash, FreshElector, row, ctx
  <1>2. Working' = [Working EXCEPT ![n] = {}]
    BY <1>1 DEF Working
  <1>3. Ending' = Ending \ {n}
    BY <1>1 DEF Ending
  <1>4. Terms!Restart(n)
    BY <1>1, <1>2, <1>3 DEF Terms!Restart
  <1> QED BY <1>4 DEF Terms!Next

(* Launches, by runOnce() and by OnBecomeLeader(), and returns. *)
LEMMA TermsCallbacks ==
    ASSUME IInv, NEW n \in Node, NEW c \in Callback,
           \/ StartSnapshot(n, c)
           \/ StartCaptured(n, c)
           \/ \E r \in running[n] : r[1] = c /\ CallbackReturns(n, r)
    PROVE  Terms!Next \/ UNCHANGED <<grant, handle, Ending, Working, started>>
  <1> USE DEF IInv, TypeOK
  <1>1. UNCHANGED <<grant, handle>> /\ Ending' = Ending
    BY DEF StartSnapshot, StartCaptured, CallbackReturns, row, ctx, Ending
  <1>2. CASE StartSnapshot(n, c)
    <2>1. /\ handle[n] # 0
          /\ <<c, handle[n]>> \notin started[n]
          /\ started' = [started EXCEPT ![n] = @ \cup {<<c, handle[n]>>}]
      BY <1>2 DEF StartSnapshot, Launch, LeadershipState, LaunchedOnce
    <2>2. running' = [running EXCEPT ![n] = @ \cup {<<c, handle[n], "snapshot">>}]
      BY <1>2 DEF StartSnapshot, Launch
    <2>3. Working' = [Working EXCEPT ![n] = @ \cup {c}]
      <3> DEFINE r == <<c, handle[n], "snapshot">>
      <3>1. r[1] = c /\ r[3] = "snapshot"
        OBVIOUS
      <3> HIDE DEF r
      <3>2. running' = [running EXCEPT ![n] = @ \cup {r}]
        BY <2>2 DEF r
      <3>3. \A d \in Callback : d \in Working'[n] <=> d \in Working[n] \/ d = c
        BY <3>1, <3>2 DEF Working
      <3>4. \A k \in Node \ {n} : Working'[k] = Working[k]
        BY <3>2 DEF Working
      <3>5. Working'[n] = Working[n] \cup {c}
        BY <3>3 DEF Working
      <3> QED BY <3>4, <3>5 DEF Working
    <2>4. Terms!Launch(n, c)
      BY <1>1, <2>1, <2>3 DEF Terms!Launch, Terms!Record
    <2> QED BY <2>4 DEF Terms!Next
  <1>3. CASE StartCaptured(n, c)
    <2> DEFINE t == captured[n][c]
    <2>1. /\ t \in 1..grant
          /\ <<c, t>> \notin started[n]
          /\ started' = [started EXCEPT ![n] = @ \cup {<<c, t>>}]
      <3>1. t \in 1..grant
        <4>1. captured[n][c] \in Nat /\ grant \in Nat
          OBVIOUS
        <4>2. captured[n][c] # 0
          BY <1>3 DEF StartCaptured
        <4>3. captured[n][c] <= grant
          BY DEF LaunchBookkeeping
        <4> QED BY <4>1, <4>2, <4>3
      <3>2. <<c, t>> \notin started[n]
        BY <1>3 DEF StartCaptured, LaunchedOnce
      <3>3. started' = [started EXCEPT ![n] = @ \cup {<<c, t>>}]
        BY <1>3 DEF StartCaptured, Launch
      <3> QED BY <3>1, <3>2, <3>3
    <2>2. running' = [running EXCEPT ![n] = @ \cup {<<c, t, "late">>}]
      BY <1>3 DEF StartCaptured, Launch
    <2>3. Working' = Working
      BY <2>2 DEF Working
    <2>4. Terms!LaunchLate(n, c, t)
      BY <1>1, <2>1, <2>3 DEF Terms!LaunchLate, Terms!Record
    <2> QED BY <2>1, <2>4 DEF Terms!Next
  <1>4. CASE \E r \in running[n] : r[1] = c /\ CallbackReturns(n, r)
    <2>1. PICK r \in running[n] : r[1] = c /\ CallbackReturns(n, r)
      BY <1>4
    <2>2. running' = [running EXCEPT ![n] = @ \ {r}] /\ started' = started
      BY <2>1 DEF CallbackReturns
    <2>3. ASSUME NEW q \in running[n], q[1] = c, q[3] = "snapshot", r[3] = "snapshot"
          PROVE  q = r
      <3>1. q[2] = r[2]
        BY <2>3 DEF CallbacksDrained
      <3>2. q = <<q[1], q[2], q[3]>> /\ r = <<r[1], r[2], r[3]>>
        <4>1. q \in Callback \X Nat \X Origins /\ r \in Callback \X Nat \X Origins
          OBVIOUS
        <4> QED BY <4>1
      <3> QED BY <2>1, <2>3, <3>1, <3>2
    <2>4. CASE r[3] = "snapshot"
      <3>1. Working' = [Working EXCEPT ![n] = @ \ {c}]
        <4>1. \A d \in Callback : d \in Working'[n] <=> d \in Working[n] /\ d # c
          BY <2>1, <2>2, <2>3, <2>4 DEF Working
        <4>2. \A k \in Node \ {n} : Working'[k] = Working[k]
          BY <2>2 DEF Working
        <4>3. Working'[n] = Working[n] \ {c}
          BY <4>1 DEF Working
        <4> QED BY <4>2, <4>3 DEF Working
      <3>2. Terms!Return(n, c)
        BY <1>1, <2>2, <3>1 DEF Terms!Return
      <3> QED BY <3>2 DEF Terms!Next
    <2>5. CASE r[3] # "snapshot"
      <3>1. Working' = Working
        BY <2>2, <2>5 DEF Working
      <3> QED BY <1>1, <2>2, <3>1
    <2> QED BY <2>4, <2>5
  <1> QED BY <1>2, <1>3, <1>4

(* Every step of the election is a step of the terms or invisible. *)
LEMMA TermsStep ==
    IInv /\ [Next]_vars => [Terms!Next]_<<grant, handle, Ending, Working, started>>
  <1> SUFFICES ASSUME IInv, [Next]_vars
               PROVE  Terms!Next \/ UNCHANGED <<grant, handle, Ending, Working, started>>
    OBVIOUS
  <1>1. ASSUME NEW n \in Node, Boot(n) \/ Crash(n)
        PROVE  Terms!Next
    BY <1>1, TermsRestart
  <1>2. ASSUME NEW n \in Node, Run(n) \/ RunFault(n)
        PROVE  Terms!Next \/ UNCHANGED <<grant, handle, Ending, Working, started>>
    BY <1>2, TermsInvisible, TermsWin, TermsStepDown, TermsLeave, TermsCallbacks
       DEF Run, RunFault
  <1>3. ASSUME NEW n \in Node, Callbacks(n)
        PROVE  Terms!Next \/ UNCHANGED <<grant, handle, Ending, Working, started>>
    <2>1. ASSUME NEW r \in running[n], CallbackReturns(n, r)
          PROVE  r[1] \in Callback
      BY DEF IInv, TypeOK
    <2> QED BY <1>3, <2>1, TermsInvisible, TermsCallbacks DEF Callbacks
  <1>4. ASSUME NEW n \in Node, HeartbeatOk(n) \/ Shutdown(n)
        PROVE  Terms!Next \/ UNCHANGED <<grant, handle, Ending, Working, started>>
    BY <1>4, TermsInvisible, TermsStepDown
  <1>5. CASE DropSchema \/ LeaseLapses \/ UNCHANGED vars
    <2>1. UNCHANGED <<grant, handle, cancelled, ctxDone, running, started>>
      BY <1>5 DEF DropSchema, LeaseLapses, vars, row, ctx, cbs
    <2> QED BY <2>1, TermsStutter
  <1> QED BY <1>1, <1>2, <1>3, <1>4, <1>5 DEF Next

(* The election keeps its promise to the plugins: a term is numbered anew, *)
(* launches each callback at most once and is left only when its callbacks *)
(* have returned, whatever lapses, fails or crashes.                       *)
THEOREM ImplementsTerms == Spec => KeepsTerms
  <1>1. Init => Terms!Init
    BY DEF Init, Terms!Init, Ending, Working
  <1> QED BY <1>1, TermsStep, Invariance, PTL
          DEF Spec, KeepsTerms, Terms!Spec, Terms!vars
=============================================================================
