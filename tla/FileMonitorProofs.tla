------------------------- MODULE FileMonitorProofs -------------------------
(***************************************************************************)
(* Proofs about FileMonitor for any files, any subscriptions and any       *)
(* number of changes, whatever the environment does.                       *)
(***************************************************************************)
EXTENDS FileMonitor, TLAPS

USE FileOfAssumption, ChangesAssumption

(* The initial state satisfies the inductive invariant. *)
LEMMA InitIInv == Init => IInv
  <1> SUFFICES ASSUME Init PROVE IInv
    OBVIOUS
  <1> USE DEF Init, NoFile
  <1>1. TypeOK
    <2>1. content \in [File -> Nat] OBVIOUS
    <2>2. hash \in [File -> Nat] /\ seen \in [Sub -> Nat] OBVIOUS
    <2>3. channels \in [File -> SUBSET Sub] OBVIOUS
    <2>4. token \in [Sub -> BOOLEAN] /\ ctxDone \in [Sub -> BOOLEAN] OBVIOUS
    <2> QED BY <2>1, <2>2, <2>3, <2>4 DEF TypeOK, MonitorPCs, ClientPCs
  <1>2. Listing BY DEF Listing, Live
  <1>3. Versions BY DEF Versions
  <1>4. HashTracks BY DEF HashTracks
  <1>5. NoPanic BY DEF NoPanic
  <1> QED BY <1>1, <1>2, <1>3, <1>4, <1>5 DEF IInv

(* Every step keeps every variable in its type. *)
LEMMA TypeStep == TypeOK /\ [Next]_vars => TypeOK'
  <1> SUFFICES ASSUME TypeOK, [Next]_vars
               PROVE  TypeOK'
    OBVIOUS
  <1> USE DEF TypeOK, MonitorPCs, ClientPCs, NoFile, fs, mon, subs, hist
  <1>1. ASSUME NEW f \in File, WriteFile(f) PROVE TypeOK'
    BY <1>1 DEF WriteFile, Change, WriteEvent
  <1>2. ASSUME NEW f \in File, RevertFile(f) PROVE TypeOK'
    BY <1>2 DEF RevertFile, Change, WriteEvent
  <1>3. ASSUME NEW f \in File, RemoveFile(f) PROVE TypeOK'
    BY <1>3 DEF RemoveFile, Change
  <1>4. CASE TakeEvent BY <1>4 DEF TakeEvent
  <1>5. CASE PauseOver BY <1>5 DEF PauseOver
  <1>6. CASE ScanDone BY <1>6 DEF ScanDone
  <1>7. CASE MonitorEnds BY <1>7 DEF MonitorEnds
  <1>8. ASSUME NEW f \in File, ScanFile(f) PROVE TypeOK'
    BY <1>8 DEF ScanFile, Notify, NewHash
  <1>9. CASE CloseWatcher BY <1>9 DEF CloseWatcher
  <1>10. CASE CloseRecords BY <1>10 DEF CloseRecords, CloseChannels
  <1>11. ASSUME NEW s \in Sub, Path(s) PROVE TypeOK'
    BY <1>11 DEF Path, NewHash
  <1>12. ASSUME NEW s \in Sub, PathFails(s) PROVE TypeOK'
    BY <1>12 DEF PathFails
  <1>13. ASSUME NEW s \in Sub, Read(s) PROVE TypeOK'
    BY <1>13 DEF Read
  <1>14. ASSUME NEW s \in Sub, Receive(s) PROVE TypeOK'
    BY <1>14 DEF Receive
  <1>15. ASSUME NEW s \in Sub, ClientStops(s) PROVE TypeOK'
    BY <1>15 DEF ClientStops
  <1>16. ASSUME NEW s \in Sub, Cancel(s) PROVE TypeOK'
    BY <1>16 DEF Cancel
  <1>17. ASSUME NEW s \in Sub, Unsubscribe(s) PROVE TypeOK'
    BY <1>17 DEF Unsubscribe, CloseChannels
  <1>18. CASE UNCHANGED vars BY <1>18 DEF vars
  <1> QED BY <1>1, <1>2, <1>3, <1>4, <1>5, <1>6, <1>7, <1>8, <1>9, <1>10,
             <1>11, <1>12, <1>13, <1>14, <1>15, <1>16, <1>17, <1>18
          DEF Next, Monitor, Client

(* Every step keeps the lists of channels, the hashes and the numbering of *)
(* contents sound, and none sends on or closes a closed channel.           *)
LEMMA StepIInv == IInv /\ [Next]_vars => IInv'
  <1> SUFFICES ASSUME IInv, [Next]_vars
               PROVE  IInv'
    OBVIOUS
  <1>0. TypeOK'
    BY TypeStep DEF IInv
  <1> USE <1>0 DEF IInv, TypeOK, Listing, Versions, HashTracks, WillScan,
                   NoPanic, Live, NoFile, fs, mon, subs, hist
  <1>1. ASSUME NEW f \in File, WriteFile(f) PROVE IInv'
    BY <1>1 DEF WriteFile, Change, WriteEvent
  <1>2. ASSUME NEW f \in File, RevertFile(f) PROVE IInv'
    BY <1>2 DEF RevertFile, Change, WriteEvent
  <1>3. ASSUME NEW f \in File, RemoveFile(f) PROVE IInv'
    BY <1>3 DEF RemoveFile, Change
  <1>4. CASE TakeEvent BY <1>4 DEF TakeEvent
  <1>5. CASE PauseOver BY <1>5 DEF PauseOver
  <1>6. CASE ScanDone BY <1>6 DEF ScanDone
  <1>7. CASE MonitorEnds BY <1>7 DEF MonitorEnds
  <1>8. ASSUME NEW f \in File, ScanFile(f) PROVE IInv'
    BY <1>8 DEF ScanFile, Notify, NewHash
  <1>9. CASE CloseWatcher BY <1>9 DEF CloseWatcher
  <1>10. CASE CloseRecords BY <1>10 DEF CloseRecords, CloseChannels
  <1>11. ASSUME NEW s \in Sub, Path(s) PROVE IInv'
    BY <1>11 DEF Path, NewHash
  <1>12. ASSUME NEW s \in Sub, PathFails(s) PROVE IInv'
    BY <1>12 DEF PathFails
  <1>13. ASSUME NEW s \in Sub, Read(s) PROVE IInv'
    BY <1>13 DEF Read
  <1>14. ASSUME NEW s \in Sub, Receive(s) PROVE IInv'
    BY <1>14 DEF Receive
  <1>15. ASSUME NEW s \in Sub, ClientStops(s) PROVE IInv'
    BY <1>15 DEF ClientStops
  <1>16. ASSUME NEW s \in Sub, Cancel(s) PROVE IInv'
    BY <1>16 DEF Cancel
  <1>17. ASSUME NEW s \in Sub, Unsubscribe(s) PROVE IInv'
    BY <1>17 DEF Unsubscribe, CloseChannels
  <1>18. CASE UNCHANGED vars BY <1>18 DEF vars
  <1> QED BY <1>1, <1>2, <1>3, <1>4, <1>5, <1>6, <1>7, <1>8, <1>9, <1>10,
             <1>11, <1>12, <1>13, <1>14, <1>15, <1>16, <1>17, <1>18
          DEF Next, Monitor, Client

(* IInv holds in every state of every behaviour. *)
LEMMA Inductive == Spec => []IInv
  BY InitIInv, StepIInv, PTL DEF Spec

(* The monitor, the clients and the goroutines of Path() keep every        *)
(* variable in its type.                                                   *)
THEOREM TypeCorrect == Spec => []TypeOK
  <1>1. IInv => TypeOK BY DEF IInv
  <1> QED BY <1>1, Inductive, PTL

(* No interleaving of scans, cancellations and Close() sends on a closed   *)
(* channel or closes one twice.                                            *)
THEOREM Sound == Spec => []NoPanic
  <1>1. IInv => NoPanic BY DEF IInv
  <1> QED BY <1>1, Inductive, PTL

(* An outdated hash is always about to be recomputed. *)
THEOREM Tracking == Spec => []HashTracks
  <1>1. IInv => HashTracks BY DEF IInv
  <1> QED BY <1>1, Inductive, PTL

(* One step keeps NoLostChange. *)
LEMMA StepNoLost ==
  ASSUME IInv, IInv', NoLostChange, [Next]_vars
  PROVE  NoLostChange'
  <1> USE DEF IInv, TypeOK, Listing, Versions, HashTracks, WillScan, Live,
              NoFile, NoLostChange, fs, mon, subs, hist
  <1>1. ASSUME NEW f \in File, WriteFile(f) PROVE NoLostChange'
    BY <1>1 DEF WriteFile, Change, WriteEvent
  <1>2. ASSUME NEW f \in File, RevertFile(f) PROVE NoLostChange'
    BY <1>2 DEF RevertFile, Change, WriteEvent
  <1>3. ASSUME NEW f \in File, RemoveFile(f) PROVE NoLostChange'
    BY <1>3 DEF RemoveFile, Change
  <1>4. CASE TakeEvent BY <1>4 DEF TakeEvent
  <1>5. CASE PauseOver BY <1>5 DEF PauseOver
  <1>6. CASE ScanDone BY <1>6 DEF ScanDone
  <1>7. CASE MonitorEnds BY <1>7 DEF MonitorEnds
  <1>8. ASSUME NEW f \in File, ScanFile(f) PROVE NoLostChange'
    BY <1>8 DEF ScanFile, Notify, NewHash
  <1>9. CASE CloseWatcher BY <1>9 DEF CloseWatcher
  <1>10. CASE CloseRecords BY <1>10 DEF CloseRecords, CloseChannels
  <1>11. ASSUME NEW s \in Sub, Path(s) PROVE NoLostChange'
    BY <1>11 DEF Path, NewHash
  <1>12. ASSUME NEW s \in Sub, PathFails(s) PROVE NoLostChange'
    BY <1>12 DEF PathFails
  <1>13. ASSUME NEW s \in Sub, Read(s) PROVE NoLostChange'
    BY <1>13 DEF Read
  <1>14. ASSUME NEW s \in Sub, Receive(s) PROVE NoLostChange'
    BY <1>14 DEF Receive
  <1>15. ASSUME NEW s \in Sub, ClientStops(s) PROVE NoLostChange'
    BY <1>15 DEF ClientStops
  <1>16. ASSUME NEW s \in Sub, Cancel(s) PROVE NoLostChange'
    BY <1>16 DEF Cancel
  <1>17. ASSUME NEW s \in Sub, Unsubscribe(s) PROVE NoLostChange'
    BY <1>17 DEF Unsubscribe, CloseChannels
  <1>18. CASE UNCHANGED vars BY <1>18 DEF vars
  <1> QED BY <1>1, <1>2, <1>3, <1>4, <1>5, <1>6, <1>7, <1>8, <1>9, <1>10,
             <1>11, <1>12, <1>13, <1>14, <1>15, <1>16, <1>17, <1>18
          DEF Next, Monitor, Client

(* No change of a file whose contents have not come back and that live     *)
(* subscriptions have not shared is lost, although events are coalesced.   *)
THEOREM NoneLost == Spec => []NoLostChange
  <1>1. Init => NoLostChange
    BY DEF Init, NoLostChange, Live
  <1>2. IInv /\ IInv' /\ NoLostChange /\ [Next]_vars => NoLostChange'
    BY StepNoLost
  <1> QED BY <1>1, <1>2, Inductive, PTL DEF Spec

(* Only the end of a context and Close() close a channel. *)
LEMMA StepCause == IInv /\ ClosedWithCause /\ [Next]_vars => ClosedWithCause'
  <1> SUFFICES ASSUME IInv, ClosedWithCause, [Next]_vars
               PROVE  ClosedWithCause'
    OBVIOUS
  <1> USE DEF IInv, TypeOK, Listing, ClosedWithCause, fs, mon, subs, hist
  <1>1. ASSUME UNCHANGED <<chan, ctxDone, closing>> PROVE ClosedWithCause'
    BY <1>1
  <1>2. ASSUME NEW s \in Sub, Path(s) PROVE ClosedWithCause'
    BY <1>2 DEF Path
  <1>3. ASSUME NEW s \in Sub, Cancel(s) PROVE ClosedWithCause'
    BY <1>3 DEF Cancel
  <1>4. ASSUME NEW s \in Sub, Unsubscribe(s) PROVE ClosedWithCause'
    BY <1>4 DEF Unsubscribe, CloseChannels
  <1>5. CASE CloseWatcher BY <1>5 DEF CloseWatcher
  <1>6. CASE CloseRecords
    <2>1. ASSUME NEW s \in Sub, chan[s] = "open"
          PROVE  s \in UNION {channels[f] : f \in records}
      BY <2>1
    <2> QED BY <1>6, <2>1 DEF CloseRecords, CloseChannels
  <1>7. ASSUME NEW f \in File, WriteFile(f) \/ RevertFile(f) \/ RemoveFile(f)
        PROVE  UNCHANGED <<chan, ctxDone, closing>>
    BY <1>7 DEF WriteFile, RevertFile, RemoveFile, Change
  <1>8. ASSUME Monitor PROVE UNCHANGED <<chan, ctxDone, closing>>
    BY <1>8 DEF Monitor, TakeEvent, PauseOver, ScanDone, MonitorEnds, ScanFile
  <1>9. ASSUME NEW s \in Sub,
               PathFails(s) \/ Read(s) \/ Receive(s) \/ ClientStops(s)
        PROVE  UNCHANGED <<chan, ctxDone, closing>>
    BY <1>9 DEF PathFails, Read, Receive, ClientStops
  <1>10. ASSUME UNCHANGED vars PROVE UNCHANGED <<chan, ctxDone, closing>>
    BY <1>10 DEF vars
  <1> HIDE DEF IInv, ClosedWithCause
  <1> QED BY <1>1, <1>2, <1>3, <1>4, <1>5, <1>6, <1>7, <1>8, <1>9, <1>10
          DEF Next, Client

(* No subscription is cut off while its context lives and the monitor is   *)
(* open, and none outlives Close().                                        *)
THEOREM ClosedForCause == Spec => []ClosedWithCause
  <1>1. Init => ClosedWithCause BY DEF Init, ClosedWithCause
  <1> QED BY <1>1, StepCause, Inductive, PTL DEF Spec
=============================================================================
