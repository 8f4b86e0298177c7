----------------------- MODULE ModelLifecycle_proofs ------------------------
(***************************************************************************)
(* Proofs about ModelLifecycle for any number of clients, runs and         *)
(* changes, with every cancellation and failing close.                     *)
(***************************************************************************)
EXTENDS ModelLifecycle, TLAPS

-----------------------------------------------------------------------------
(* The strengthening.                                                      *)

(* A client has a registered runtime, of the model it has chosen (and none *)
(* for Whisper), from the end of its load until a release that returns.    *)
RuntimeKnown ==
    \A c \in Client :
        /\ pc[c] \in {"using", "again", "gone"} =>
              /\ chosen[c] \in Selection
              /\ activeRuntimes[c] = IF chosen[c] \in Model THEN chosen[c] ELSE None
        /\ pc[c] \in {"idle", "wants", "loading"} => activeRuntimes[c] = None
        /\ pc[c] \in {"wants", "loading"} \/ records[c] => chosen[c] \in Selection

(* A client that uses Parakeet has its lease, the timer runs only without  *)
(* leases, and a closed engine was left by a close cut short.              *)
LeaseHeld ==
    /\ \A c \in Client : pc[c] = "using" /\ chosen[c] = Parakeet => c \in activeLeaseIds
    /\ unloadJob # None => activeLeaseIds = {}
    /\ engine = "closed" => torn

(* From its check to the end of the activation, under the mutex, nobody    *)
(* begins to use the model.                                                *)
ActivationAlone ==
    /\ installer # "idle" => target \in Model
    /\ installer = "activate" => ~benchmarkOwned /\ ~modelInUse(target)

(* The parts of TypeOK, for the steps that change much.                    *)
ClientTypes ==
    /\ activeSessions \in [Client -> Selection \cup {None}]
    /\ activeRuntimes \in [Client -> Model \cup {None}]
    /\ pc \in [Client -> {"idle", "wants", "loading", "using", "again", "gone"}]
    /\ chosen \in [Client -> Selection \cup {None}]
    /\ records \in [Client -> BOOLEAN] /\ retries \in [Client -> BOOLEAN]
OtherTypes ==
    /\ mutex \in Client \cup {"installer", None}
    /\ benchmarkOwned \in BOOLEAN /\ changed \in BOOLEAN
    /\ files \in [Model -> 0..1]
    /\ engine \in {"none", "open", "closed"}
    /\ activeLeaseIds \in SUBSET Client
    /\ unloadJob \in Client \cup {None}
    /\ torn \in BOOLEAN /\ lost \in BOOLEAN
    /\ installer \in {"idle", "read", "check", "wait", "activate"}
    /\ target \in Model \cup {None}
    /\ runs \in 0..MaxRuns /\ changes \in 0..MaxChanges
MutexTied ==
    /\ \A c \in Client : pc[c] = "loading" <=> mutex = c
    /\ installer = "activate" <=> mutex = "installer"
LeasesTied ==
    /\ \A c \in activeLeaseIds : activeRuntimes[c] = Parakeet
    /\ activeLeaseIds # {} => engine # "none"

(* The type invariant of the lifecycle, in the parts the proofs use.       *)
LEMMA TypeParts == TypeOK <=> ClientTypes /\ OtherTypes /\ MutexTied /\ LeasesTied
  BY DEF TypeOK, ClientTypes, OtherTypes, MutexTied, LeasesTied

IInv == TypeOK /\ RuntimeKnown /\ LeaseHeld /\ ActivationAlone /\ ComparisonAlone

-----------------------------------------------------------------------------
(* Every step keeps the types and what ties the fields together. *)
LEMMA TypeStep ==
    ASSUME IInv, [Next]_vars
    PROVE  TypeOK'
<1>1. ASSUME NEW c \in Client, Start(c) PROVE  TypeOK'
  BY <1>1, LifecycleAssumption DEF Start, IInv, TypeOK, RuntimeKnown, LeaseHeld,
     ActivationAlone, Model, Selection, manager, install
<1>2. ASSUME NEW c \in Client, acquireSession(c) PROVE  TypeOK'
  BY <1>2, LifecycleAssumption DEF acquireSession, IInv, TypeOK, RuntimeKnown,
     LeaseHeld, ActivationAlone, Model, Selection, manager, install
<1>3. ASSUME NEW c \in Client, CloseSession(c) PROVE  TypeOK'
  BY <1>3, LifecycleAssumption DEF CloseSession, IInv, TypeOK, RuntimeKnown, LeaseHeld,
     ActivationAlone, Model, Selection, manager, client, install
<1>4. ASSUME NEW c \in Client, EnterLoad(c) PROVE  TypeOK'
  <2>1. ClientTypes'
    BY <1>4, TypeParts, LifecycleAssumption DEF EnterLoad, EndRun, IInv, RuntimeKnown,
       Model, Selection, manager, install, ClientTypes
  <2>2. OtherTypes'
    BY <1>4, TypeParts, LifecycleAssumption DEF EnterLoad, EndRun, IInv, RuntimeKnown,
       ActivationAlone, Model, Selection, manager, install, OtherTypes
  <2>3. MutexTied'
    BY <1>4, TypeParts, LifecycleAssumption DEF EnterLoad, EndRun, IInv, RuntimeKnown,
       Model, Selection, manager, install, ClientTypes, OtherTypes, MutexTied
  <2>4. LeasesTied'
    BY <1>4, TypeParts, LifecycleAssumption DEF EnterLoad, EndRun, IInv, RuntimeKnown,
       Model, Selection, manager, install, ClientTypes, OtherTypes, MutexTied,
       LeasesTied
  <2> QED
    BY <2>1, <2>2, <2>3, <2>4 DEF TypeOK, ClientTypes, OtherTypes, MutexTied, LeasesTied
<1>5. ASSUME NEW c \in Client, Loaded(c) PROVE  TypeOK'
  <2>1. ClientTypes'
    BY <1>5, TypeParts, LifecycleAssumption DEF Loaded, acquire, UnloadIdle, forceClose,
       CloseWhole, modelInUse, IInv, RuntimeKnown, Model, Selection, manager, install,
       ClientTypes
  <2>2. OtherTypes'
    BY <1>5, TypeParts, LifecycleAssumption DEF Loaded, acquire, UnloadIdle, forceClose,
       CloseWhole, modelInUse, IInv, RuntimeKnown, ActivationAlone, Model, Selection,
       manager, install, OtherTypes
  <2>3. MutexTied'
    BY <1>5, TypeParts, LifecycleAssumption DEF Loaded, acquire, UnloadIdle, forceClose,
       CloseWhole, modelInUse, IInv, RuntimeKnown, Model, Selection, manager, install,
       ClientTypes, OtherTypes, MutexTied
  <2>4. LeasesTied'
    BY <1>5, TypeParts, LifecycleAssumption DEF Loaded, acquire, UnloadIdle, forceClose,
       CloseWhole, modelInUse, IInv, RuntimeKnown, Model, Selection, manager, install,
       ClientTypes, OtherTypes, MutexTied, LeasesTied
  <2> QED
    BY <2>1, <2>2, <2>3, <2>4 DEF TypeOK, ClientTypes, OtherTypes, MutexTied, LeasesTied
<1>6. ASSUME NEW c \in Client, LoadFailed(c) PROVE  TypeOK'
  <2>1. ClientTypes'
    BY <1>6, TypeParts, LifecycleAssumption DEF LoadFailed, AcquireFailed, EndRun,
       UnloadIdle, forceClose, ForceCloseCutShort, CloseWhole, CloseCutShort,
       modelInUse, IInv, RuntimeKnown, Model, Selection, manager, install, ClientTypes
  <2>2. OtherTypes'
    <3>1. engine' \in {"none", "open", "closed"} /\ torn' \in BOOLEAN /\ lost' \in BOOLEAN
      BY <1>6, TypeParts DEF LoadFailed, AcquireFailed, UnloadIdle, forceClose,
         ForceCloseCutShort, CloseWhole, CloseCutShort, manager, IInv, OtherTypes
    <3>2. activeLeaseIds' \in SUBSET Client /\ unloadJob' \in Client \cup {None}
      BY <1>6, TypeParts DEF LoadFailed, AcquireFailed, UnloadIdle, forceClose,
         ForceCloseCutShort, manager, IInv, OtherTypes
    <3> QED
      BY <1>6, <3>1, <3>2, TypeParts DEF LoadFailed, install, IInv, OtherTypes
  <2>3. MutexTied'
    BY <1>6, TypeParts, LifecycleAssumption DEF LoadFailed, AcquireFailed, EndRun,
       UnloadIdle, forceClose, ForceCloseCutShort, CloseWhole, CloseCutShort,
       modelInUse, IInv, RuntimeKnown, Model, Selection, manager, install, ClientTypes,
       OtherTypes, MutexTied
  <2>4. LeasesTied'
    BY <1>6, TypeParts, LifecycleAssumption DEF LoadFailed, AcquireFailed, EndRun,
       UnloadIdle, forceClose, ForceCloseCutShort, CloseWhole, CloseCutShort,
       modelInUse, IInv, RuntimeKnown, Model, Selection, manager, install, ClientTypes,
       OtherTypes, MutexTied, LeasesTied
  <2> QED
    BY <2>1, <2>2, <2>3, <2>4 DEF TypeOK, ClientTypes, OtherTypes, MutexTied, LeasesTied
<1>7. ASSUME NEW c \in Client, Released(c) PROVE  TypeOK'
  <2>1. ClientTypes'
    BY <1>7, TypeParts, LifecycleAssumption DEF Released, EndRun, ReleaseShared,
       ReleaseCold, ReleaseWarm, CloseWhole, IInv, RuntimeKnown, Model, Selection,
       manager, install, ClientTypes
  <2>2. OtherTypes'
    BY <1>7, TypeParts, LifecycleAssumption DEF Released, EndRun, ReleaseShared,
       ReleaseCold, ReleaseWarm, CloseWhole, IInv, RuntimeKnown, ActivationAlone, Model,
       Selection, manager, install, OtherTypes
  <2>3. MutexTied'
    BY <1>7, TypeParts, LifecycleAssumption DEF Released, EndRun, ReleaseShared,
       ReleaseCold, ReleaseWarm, CloseWhole, IInv, RuntimeKnown, Model, Selection,
       manager, install, ClientTypes, OtherTypes, MutexTied
  <2>4. LeasesTied'
    BY <1>7, TypeParts, LifecycleAssumption DEF Released, EndRun, ReleaseShared,
       ReleaseCold, ReleaseWarm, CloseWhole, IInv, RuntimeKnown, Model, Selection,
       manager, install, ClientTypes, OtherTypes, MutexTied, LeasesTied
  <2> QED
    BY <2>1, <2>2, <2>3, <2>4 DEF TypeOK, ClientTypes, OtherTypes, MutexTied, LeasesTied
<1>8. ASSUME NEW c \in Client, ReleaseFailed(c) PROVE  TypeOK'
  BY <1>8, LifecycleAssumption DEF ReleaseFailed, ReleaseCutShort, CloseCutShort, IInv,
     TypeOK, RuntimeKnown, LeaseHeld, ActivationAlone, Model, Selection, manager,
     install
<1>9. CASE BeginActivation
  BY <1>9, LifecycleAssumption DEF BeginActivation, IInv, TypeOK, RuntimeKnown,
     LeaseHeld, ActivationAlone, Model, Selection, manager, client
<1>10. CASE ReadRevision
  BY <1>10, LifecycleAssumption DEF ReadRevision, IInv, TypeOK, RuntimeKnown, LeaseHeld,
     ActivationAlone, Model, Selection, manager, client
<1>11. CASE CheckUse
  <2>1. ClientTypes'
    BY <1>11, TypeParts, LifecycleAssumption DEF CheckUse, modelInUse, forceClose,
       CloseWhole, IInv, RuntimeKnown, Model, Selection, manager, client, ClientTypes
  <2>2. OtherTypes'
    BY <1>11, TypeParts, LifecycleAssumption DEF CheckUse, modelInUse, forceClose,
       CloseWhole, IInv, RuntimeKnown, ActivationAlone, Model, Selection, manager,
       client, OtherTypes
  <2>3. MutexTied'
    BY <1>11, TypeParts, LifecycleAssumption DEF CheckUse, modelInUse, forceClose,
       CloseWhole, IInv, RuntimeKnown, Model, Selection, manager, client, ClientTypes,
       OtherTypes, MutexTied
  <2>4. LeasesTied'
    BY <1>11, TypeParts, LifecycleAssumption DEF CheckUse, modelInUse, forceClose,
       CloseWhole, IInv, RuntimeKnown, Model, Selection, manager, client, ClientTypes,
       OtherTypes, MutexTied, LeasesTied
  <2> QED
    BY <2>1, <2>2, <2>3, <2>4 DEF TypeOK, ClientTypes, OtherTypes, MutexTied, LeasesTied
<1>12. CASE Awake
  BY <1>12, LifecycleAssumption DEF Awake, IInv, TypeOK, RuntimeKnown, LeaseHeld,
     ActivationAlone, Model, Selection, manager, client
<1>13. CASE Activate
  <2>1. ClientTypes'
    BY <1>13, TypeParts, LifecycleAssumption DEF Activate, IInv, RuntimeKnown, Model,
       Selection, manager, client, ClientTypes
  <2>2. OtherTypes'
    BY <1>13, TypeParts, LifecycleAssumption DEF Activate, IInv, RuntimeKnown,
       ActivationAlone, Model, Selection, manager, client, OtherTypes
  <2>3. MutexTied'
    BY <1>13, TypeParts, LifecycleAssumption DEF Activate, IInv, RuntimeKnown, Model,
       Selection, manager, client, ClientTypes, OtherTypes, MutexTied
  <2>4. LeasesTied'
    BY <1>13, TypeParts, LifecycleAssumption DEF Activate, IInv, RuntimeKnown, Model,
       Selection, manager, client, ClientTypes, OtherTypes, MutexTied, LeasesTied
  <2> QED
    BY <2>1, <2>2, <2>3, <2>4 DEF TypeOK, ClientTypes, OtherTypes, MutexTied, LeasesTied
<1>14. CASE CancelActivation
  BY <1>14, LifecycleAssumption DEF CancelActivation, modelInUse, ForceCloseCutShort,
     CloseCutShort, IInv, TypeOK, RuntimeKnown, LeaseHeld, ActivationAlone, Model,
     Selection, manager, client
<1>15. CASE delete
  <2>1. ClientTypes'
    BY <1>15, TypeParts, LifecycleAssumption DEF delete, modelInUse, forceClose,
       CloseWhole, IInv, RuntimeKnown, Model, Selection, manager, client, install,
       ClientTypes
  <2>2. OtherTypes'
    <3>1. changes' \in 0..MaxChanges
      BY <1>15, TypeParts, LifecycleAssumption DEF delete, IInv, OtherTypes
    <3>2. files' \in [Model -> 0..1]
      BY <1>15, TypeParts DEF delete, IInv, OtherTypes
    <3>3. engine' \in {"none", "open", "closed"} /\ torn' \in BOOLEAN /\ lost' \in BOOLEAN
      BY <1>15, TypeParts DEF delete, forceClose, ForceCloseCutShort, CloseWhole,
         CloseCutShort, manager, IInv, OtherTypes
    <3>4. activeLeaseIds' \in SUBSET Client /\ unloadJob' \in Client \cup {None}
      BY <1>15, TypeParts DEF delete, forceClose, ForceCloseCutShort, manager, IInv,
         OtherTypes
    <3> QED
      BY <1>15, <3>1, <3>2, <3>3, <3>4, TypeParts DEF delete, install, IInv, OtherTypes
  <2>3. MutexTied'
    BY <1>15, TypeParts, LifecycleAssumption DEF delete, modelInUse, forceClose,
       CloseWhole, IInv, RuntimeKnown, Model, Selection, manager, client, install,
       ClientTypes, OtherTypes, MutexTied
  <2>4. LeasesTied'
    BY <1>15, TypeParts, LifecycleAssumption DEF delete, modelInUse, forceClose,
       CloseWhole, IInv, RuntimeKnown, Model, Selection, manager, client, install,
       ClientTypes, OtherTypes, MutexTied, LeasesTied
  <2> QED
    BY <2>1, <2>2, <2>3, <2>4 DEF TypeOK, ClientTypes, OtherTypes, MutexTied, LeasesTied
<1>16. CASE acquireBenchmark
  <2>1. ClientTypes'
    BY <1>16, TypeParts, LifecycleAssumption DEF acquireBenchmark, Idle, forceClose,
       ForceCloseCutShort, CloseWhole, CloseCutShort, IInv, RuntimeKnown, Model,
       Selection, client, install, ClientTypes
  <2>2. OtherTypes'
    <3>1. changes' \in 0..MaxChanges
      BY <1>16, TypeParts, LifecycleAssumption DEF acquireBenchmark, IInv, OtherTypes
    <3>2. files' \in [Model -> 0..1]
      BY <1>16, TypeParts DEF acquireBenchmark, IInv, OtherTypes
    <3>3. engine' \in {"none", "open", "closed"} /\ torn' \in BOOLEAN /\ lost' \in BOOLEAN
      BY <1>16, TypeParts DEF acquireBenchmark, forceClose, ForceCloseCutShort,
         CloseWhole, CloseCutShort, manager, IInv, OtherTypes
    <3>4. activeLeaseIds' \in SUBSET Client /\ unloadJob' \in Client \cup {None}
      BY <1>16, TypeParts DEF acquireBenchmark, forceClose, ForceCloseCutShort, manager,
         IInv, OtherTypes
    <3> QED
      BY <1>16, <3>1, <3>2, <3>3, <3>4, TypeParts DEF acquireBenchmark, install, IInv,
         OtherTypes
  <2>3. MutexTied'
    BY <1>16, TypeParts, LifecycleAssumption DEF acquireBenchmark, Idle, forceClose,
       ForceCloseCutShort, CloseWhole, CloseCutShort, IInv, RuntimeKnown, Model,
       Selection, client, install, ClientTypes, OtherTypes, MutexTied
  <2>4. LeasesTied'
    BY <1>16, TypeParts, LifecycleAssumption DEF acquireBenchmark, Idle, forceClose,
       ForceCloseCutShort, CloseWhole, CloseCutShort, IInv, RuntimeKnown, Model,
       Selection, client, install, ClientTypes, OtherTypes, MutexTied, LeasesTied
  <2> QED
    BY <2>1, <2>2, <2>3, <2>4 DEF TypeOK, ClientTypes, OtherTypes, MutexTied, LeasesTied
<1>17. CASE CloseBenchmark
  BY <1>17, LifecycleAssumption DEF CloseBenchmark, IInv, TypeOK, RuntimeKnown,
     LeaseHeld, ActivationAlone, Model, Selection, manager, client, install
<1>18. CASE Unload
  BY <1>18, LifecycleAssumption DEF Unload, CloseWhole, CloseCutShort, IInv, TypeOK,
     RuntimeKnown, LeaseHeld, ActivationAlone, Model, Selection, client, install
<1>19. CASE DestroyScreen
  BY <1>19, LifecycleAssumption DEF DestroyScreen, IInv, TypeOK, RuntimeKnown,
     LeaseHeld, ActivationAlone, Model, Selection, client, install
<1>20. CASE UNCHANGED vars
  BY <1>20 DEF vars, IInv, TypeOK, RuntimeKnown, LeaseHeld, ActivationAlone, Model,
     Selection
<1> QED
  BY <1>1, <1>2, <1>3, <1>4, <1>5, <1>6, <1>7, <1>8, <1>9, <1>10, <1>11, <1>12, <1>13,
     <1>14, <1>15, <1>16, <1>17, <1>18, <1>19, <1>20 DEF Next, ClientStep, InstallerStep

(* Every step keeps the runtimes known. *)
LEMMA RuntimeStep ==
    ASSUME IInv, [Next]_vars
    PROVE  RuntimeKnown'
<1>1. ASSUME NEW c \in Client, Start(c) PROVE  RuntimeKnown'
  BY <1>1, LifecycleAssumption DEF Start, IInv, TypeOK, RuntimeKnown, Model, Selection,
     manager, install
<1>2. ASSUME NEW c \in Client, acquireSession(c) PROVE  RuntimeKnown'
  BY <1>2, LifecycleAssumption DEF acquireSession, IInv, TypeOK, RuntimeKnown, Model,
     Selection, manager, install
<1>3. ASSUME NEW c \in Client, CloseSession(c) PROVE  RuntimeKnown'
  BY <1>3, LifecycleAssumption DEF CloseSession, IInv, TypeOK, RuntimeKnown, Model,
     Selection, manager, client, install
<1>4. ASSUME NEW c \in Client, EnterLoad(c) PROVE  RuntimeKnown'
  BY <1>4, LifecycleAssumption DEF EnterLoad, EndRun, IInv, TypeOK, RuntimeKnown, Model,
     Selection, manager, install
<1>5. ASSUME NEW c \in Client, Loaded(c) PROVE  RuntimeKnown'
  BY <1>5, LifecycleAssumption DEF Loaded, acquire, UnloadIdle, forceClose, CloseWhole,
     modelInUse, IInv, TypeOK, RuntimeKnown, Model, Selection, manager, install
<1>6. ASSUME NEW c \in Client, LoadFailed(c) PROVE  RuntimeKnown'
  BY <1>6, LifecycleAssumption DEF LoadFailed, AcquireFailed, EndRun, UnloadIdle,
     forceClose, ForceCloseCutShort, CloseWhole, CloseCutShort, modelInUse, IInv,
     TypeOK, RuntimeKnown, Model, Selection, manager, install
<1>7. ASSUME NEW c \in Client, Released(c) PROVE  RuntimeKnown'
  BY <1>7, LifecycleAssumption DEF Released, EndRun, ReleaseShared, ReleaseCold,
     ReleaseWarm, CloseWhole, IInv, TypeOK, RuntimeKnown, Model, Selection, manager,
     install
<1>8. ASSUME NEW c \in Client, ReleaseFailed(c) PROVE  RuntimeKnown'
  BY <1>8, LifecycleAssumption DEF ReleaseFailed, ReleaseCutShort, CloseCutShort, IInv,
     TypeOK, RuntimeKnown, Model, Selection, manager, install
<1>9. CASE BeginActivation
  BY <1>9, LifecycleAssumption DEF BeginActivation, IInv, TypeOK, RuntimeKnown, Model,
     Selection, manager, client
<1>10. CASE ReadRevision
  BY <1>10, LifecycleAssumption DEF ReadRevision, IInv, TypeOK, RuntimeKnown, Model,
     Selection, manager, client
<1>11. CASE CheckUse
  BY <1>11, LifecycleAssumption DEF CheckUse, modelInUse, forceClose, CloseWhole, IInv,
     TypeOK, RuntimeKnown, Model, Selection, manager, client
<1>12. CASE Awake
  BY <1>12, LifecycleAssumption DEF Awake, IInv, TypeOK, RuntimeKnown, Model, Selection,
     manager, client
<1>13. CASE Activate
  BY <1>13, LifecycleAssumption DEF Activate, IInv, TypeOK, RuntimeKnown, Model,
     Selection, manager, client
<1>14. CASE CancelActivation
  BY <1>14, LifecycleAssumption DEF CancelActivation, modelInUse, ForceCloseCutShort,
     CloseCutShort, IInv, TypeOK, RuntimeKnown, Model, Selection, manager, client
<1>15. CASE delete
  BY <1>15, LifecycleAssumption DEF delete, modelInUse, forceClose, CloseWhole, IInv,
     TypeOK, RuntimeKnown, Model, Selection, manager, client, install
<1>16. CASE acquireBenchmark
  BY <1>16, LifecycleAssumption DEF acquireBenchmark, Idle, forceClose,
     ForceCloseCutShort, CloseWhole, CloseCutShort, IInv, TypeOK, RuntimeKnown, Model,
     Selection, client, install
<1>17. CASE CloseBenchmark
  BY <1>17, LifecycleAssumption DEF CloseBenchmark, IInv, TypeOK, RuntimeKnown, Model,
     Selection, manager, client, install
<1>18. CASE Unload
  BY <1>18, LifecycleAssumption DEF Unload, CloseWhole, CloseCutShort, IInv, TypeOK,
     RuntimeKnown, Model, Selection, client, install
<1>19. CASE DestroyScreen
  BY <1>19, LifecycleAssumption DEF DestroyScreen, IInv, TypeOK, RuntimeKnown, Model,
     Selection, client, install
<1>20. CASE UNCHANGED vars
  BY <1>20 DEF vars, IInv, TypeOK, RuntimeKnown, Model, Selection
<1> QED
  BY <1>1, <1>2, <1>3, <1>4, <1>5, <1>6, <1>7, <1>8, <1>9, <1>10, <1>11, <1>12, <1>13,
     <1>14, <1>15, <1>16, <1>17, <1>18, <1>19, <1>20 DEF Next, ClientStep, InstallerStep

(* Every step keeps the leases of those who use Parakeet. *)
LEMMA LeaseStep ==
    ASSUME IInv, [Next]_vars
    PROVE  LeaseHeld'
<1>1. ASSUME NEW c \in Client, Start(c) PROVE  LeaseHeld'
  BY <1>1, LifecycleAssumption DEF Start, IInv, TypeOK, RuntimeKnown, LeaseHeld, Model,
     Selection, manager, install
<1>2. ASSUME NEW c \in Client, acquireSession(c) PROVE  LeaseHeld'
  BY <1>2, LifecycleAssumption DEF acquireSession, IInv, TypeOK, RuntimeKnown,
     LeaseHeld, Model, Selection, manager, install
<1>3. ASSUME NEW c \in Client, CloseSession(c) PROVE  LeaseHeld'
  BY <1>3, LifecycleAssumption DEF CloseSession, IInv, TypeOK, RuntimeKnown, LeaseHeld,
     Model, Selection, manager, client, install
<1>4. ASSUME NEW c \in Client, EnterLoad(c) PROVE  LeaseHeld'
  BY <1>4, LifecycleAssumption DEF EnterLoad, EndRun, IInv, TypeOK, RuntimeKnown,
     LeaseHeld, Model, Selection, manager, install
<1>5. ASSUME NEW c \in Client, Loaded(c) PROVE  LeaseHeld'
  BY <1>5, LifecycleAssumption DEF Loaded, acquire, UnloadIdle, forceClose, CloseWhole,
     modelInUse, IInv, TypeOK, RuntimeKnown, LeaseHeld, Model, Selection, manager,
     install
<1>6. ASSUME NEW c \in Client, LoadFailed(c) PROVE  LeaseHeld'
  BY <1>6, LifecycleAssumption DEF LoadFailed, AcquireFailed, EndRun, UnloadIdle,
     forceClose, ForceCloseCutShort, CloseWhole, CloseCutShort, modelInUse, IInv,
     TypeOK, RuntimeKnown, LeaseHeld, Model, Selection, manager, install
<1>7. ASSUME NEW c \in Client, Released(c) PROVE  LeaseHeld'
  BY <1>7, LifecycleAssumption DEF Released, EndRun, ReleaseShared, ReleaseCold,
     ReleaseWarm, CloseWhole, IInv, TypeOK, RuntimeKnown, LeaseHeld, Model, Selection,
     manager, install
<1>8. ASSUME NEW c \in Client, ReleaseFailed(c) PROVE  LeaseHeld'
  BY <1>8, LifecycleAssumption DEF ReleaseFailed, ReleaseCutShort, CloseCutShort, IInv,
     TypeOK, RuntimeKnown, LeaseHeld, Model, Selection, manager, install
<1>9. CASE BeginActivation
  BY <1>9, LifecycleAssumption DEF BeginActivation, IInv, TypeOK, RuntimeKnown,
     LeaseHeld, Model, Selection, manager, client
<1>10. CASE ReadRevision
  BY <1>10, LifecycleAssumption DEF ReadRevision, IInv, TypeOK, RuntimeKnown, LeaseHeld,
     Model, Selection, manager, client
<1>11. CASE CheckUse
  BY <1>11, LifecycleAssumption DEF CheckUse, modelInUse, forceClose, CloseWhole, IInv,
     TypeOK, RuntimeKnown, LeaseHeld, Model, Selection, manager, client
<1>12. CASE Awake
  BY <1>12, LifecycleAssumption DEF Awake, IInv, TypeOK, RuntimeKnown, LeaseHeld, Model,
     Selection, manager, client
<1>13. CASE Activate
  BY <1>13, LifecycleAssumption DEF Activate, IInv, TypeOK, RuntimeKnown, LeaseHeld,
     Model, Selection, manager, client
<1>14. CASE CancelActivation
  BY <1>14, LifecycleAssumption DEF CancelActivation, modelInUse, ForceCloseCutShort,
     CloseCutShort, IInv, TypeOK, RuntimeKnown, LeaseHeld, Model, Selection, manager,
     client
<1>15. CASE delete
  BY <1>15, LifecycleAssumption DEF delete, modelInUse, forceClose, CloseWhole, IInv,
     TypeOK, RuntimeKnown, LeaseHeld, Model, Selection, manager, client, install
<1>16. CASE acquireBenchmark
  BY <1>16, LifecycleAssumption DEF acquireBenchmark, Idle, forceClose,
     ForceCloseCutShort, CloseWhole, CloseCutShort, IInv, TypeOK, RuntimeKnown,
     LeaseHeld, Model, Selection, client, install
<1>17. CASE CloseBenchmark
  BY <1>17, LifecycleAssumption DEF CloseBenchmark, IInv, TypeOK, RuntimeKnown,
     LeaseHeld, Model, Selection, manager, client, install
<1>18. CASE Unload
  BY <1>18, LifecycleAssumption DEF Unload, CloseWhole, CloseCutShort, IInv, TypeOK,
     RuntimeKnown, LeaseHeld, Model, Selection, client, install
<1>19. CASE DestroyScreen
  BY <1>19, LifecycleAssumption DEF DestroyScreen, IInv, TypeOK, RuntimeKnown,
     LeaseHeld, Model, Selection, client, install
<1>20. CASE UNCHANGED vars
  BY <1>20 DEF vars, IInv, TypeOK, RuntimeKnown, LeaseHeld, Model, Selection
<1> QED
  BY <1>1, <1>2, <1>3, <1>4, <1>5, <1>6, <1>7, <1>8, <1>9, <1>10, <1>11, <1>12, <1>13,
     <1>14, <1>15, <1>16, <1>17, <1>18, <1>19, <1>20 DEF Next, ClientStep, InstallerStep

(* Every step keeps the model of an activation out of use. *)
LEMMA ActivationStep ==
    ASSUME IInv, [Next]_vars
    PROVE  ActivationAlone'
<1>1. ASSUME NEW c \in Client, Start(c) PROVE  ActivationAlone'
  BY <1>1, LifecycleAssumption DEF Start, IInv, TypeOK, ActivationAlone, Model,
     Selection, modelInUse, manager, install
<1>2. ASSUME NEW c \in Client, acquireSession(c) PROVE  ActivationAlone'
  <2>1. installer # "activate"
    BY <1>2, LifecycleAssumption DEF acquireSession, IInv, TypeOK
  <2> QED
    BY <1>2, <2>1 DEF acquireSession, IInv, ActivationAlone, Model, Selection, install
<1>3. ASSUME NEW c \in Client, CloseSession(c) PROVE  ActivationAlone'
  BY <1>3, LifecycleAssumption DEF CloseSession, IInv, TypeOK, ActivationAlone, Model,
     Selection, modelInUse, manager, client, install
<1>4. ASSUME NEW c \in Client, EnterLoad(c) PROVE  ActivationAlone'
  BY <1>4, LifecycleAssumption DEF EnterLoad, EndRun, IInv, TypeOK, ActivationAlone,
     Model, Selection, modelInUse, manager, install
<1>5. ASSUME NEW c \in Client, Loaded(c) PROVE  ActivationAlone'
  BY <1>5, LifecycleAssumption DEF Loaded, acquire, UnloadIdle, forceClose, CloseWhole,
     modelInUse, IInv, TypeOK, ActivationAlone, Model, Selection, manager, install
<1>6. ASSUME NEW c \in Client, LoadFailed(c) PROVE  ActivationAlone'
  BY <1>6, LifecycleAssumption DEF LoadFailed, AcquireFailed, EndRun, UnloadIdle,
     forceClose, ForceCloseCutShort, CloseWhole, CloseCutShort, modelInUse, IInv,
     TypeOK, ActivationAlone, Model, Selection, manager, install
<1>7. ASSUME NEW c \in Client, Released(c) PROVE  ActivationAlone'
  BY <1>7, LifecycleAssumption DEF Released, EndRun, ReleaseShared, ReleaseCold,
     ReleaseWarm, CloseWhole, IInv, TypeOK, ActivationAlone, Model, Selection,
     modelInUse, manager, install
<1>8. ASSUME NEW c \in Client, ReleaseFailed(c) PROVE  ActivationAlone'
  BY <1>8, LifecycleAssumption DEF ReleaseFailed, ReleaseCutShort, CloseCutShort, IInv,
     TypeOK, ActivationAlone, Model, Selection, modelInUse, manager, install
<1>9. CASE BeginActivation
  BY <1>9, LifecycleAssumption DEF BeginActivation, IInv, TypeOK, ActivationAlone,
     Model, Selection, modelInUse, manager, client
<1>10. CASE ReadRevision
  BY <1>10, LifecycleAssumption DEF ReadRevision, IInv, TypeOK, ActivationAlone, Model,
     Selection, modelInUse, manager, client
<1>11. CASE CheckUse
  BY <1>11, LifecycleAssumption DEF CheckUse, modelInUse, forceClose, CloseWhole, IInv,
     TypeOK, ActivationAlone, Model, Selection, manager, client
<1>12. CASE Awake
  BY <1>12, LifecycleAssumption DEF Awake, IInv, TypeOK, ActivationAlone, Model,
     Selection, modelInUse, manager, client
<1>13. CASE Activate
  BY <1>13, LifecycleAssumption DEF Activate, IInv, TypeOK, ActivationAlone, Model,
     Selection, modelInUse, manager, client
<1>14. CASE CancelActivation
  BY <1>14, LifecycleAssumption DEF CancelActivation, modelInUse, ForceCloseCutShort,
     CloseCutShort, IInv, TypeOK, ActivationAlone, Model, Selection, manager, client
<1>15. CASE delete
  BY <1>15, LifecycleAssumption DEF delete, modelInUse, forceClose, CloseWhole, IInv,
     TypeOK, ActivationAlone, Model, Selection, manager, client, install
<1>16. CASE acquireBenchmark
  <2>1. installer # "activate"
    BY <1>16, LifecycleAssumption DEF acquireBenchmark, IInv, TypeOK
  <2> QED
    BY <1>16, <2>1 DEF acquireBenchmark, IInv, ActivationAlone, Model, Selection,
       install
<1>17. CASE CloseBenchmark
  BY <1>17, LifecycleAssumption DEF CloseBenchmark, IInv, TypeOK, ActivationAlone,
     Model, Selection, modelInUse, manager, client, install
<1>18. CASE Unload
  BY <1>18, LifecycleAssumption DEF Unload, CloseWhole, CloseCutShort, IInv, TypeOK,
     ActivationAlone, Model, Selection, modelInUse, client, install
<1>19. CASE DestroyScreen
  BY <1>19, LifecycleAssumption DEF DestroyScreen, IInv, TypeOK, ActivationAlone, Model,
     Selection, modelInUse, client, install
<1>20. CASE UNCHANGED vars
  BY <1>20 DEF vars, IInv, TypeOK, ActivationAlone, Model, Selection, modelInUse
<1> QED
  BY <1>1, <1>2, <1>3, <1>4, <1>5, <1>6, <1>7, <1>8, <1>9, <1>10, <1>11, <1>12, <1>13,
     <1>14, <1>15, <1>16, <1>17, <1>18, <1>19, <1>20 DEF Next, ClientStep, InstallerStep

(* Every step keeps comparisons alone. *)
LEMMA ComparisonStep ==
    ASSUME IInv, [Next]_vars
    PROVE  ComparisonAlone'
<1>1. ASSUME NEW c \in Client, Start(c) PROVE  ComparisonAlone'
  BY <1>1, LifecycleAssumption DEF Start, IInv, TypeOK, RuntimeKnown, ComparisonAlone,
     Idle, Model, Selection, manager, install
<1>2. ASSUME NEW c \in Client, acquireSession(c) PROVE  ComparisonAlone'
  BY <1>2, LifecycleAssumption DEF acquireSession, IInv, TypeOK, RuntimeKnown,
     ComparisonAlone, Idle, Model, Selection, manager, install
<1>3. ASSUME NEW c \in Client, CloseSession(c) PROVE  ComparisonAlone'
  BY <1>3, LifecycleAssumption DEF CloseSession, IInv, TypeOK, RuntimeKnown,
     ComparisonAlone, Idle, Model, Selection, manager, client, install
<1>4. ASSUME NEW c \in Client, EnterLoad(c) PROVE  ComparisonAlone'
  BY <1>4, LifecycleAssumption DEF EnterLoad, EndRun, IInv, TypeOK, RuntimeKnown,
     ComparisonAlone, Idle, Model, Selection, manager, install
<1>5. ASSUME NEW c \in Client, Loaded(c) PROVE  ComparisonAlone'
  BY <1>5, LifecycleAssumption DEF Loaded, acquire, UnloadIdle, forceClose, CloseWhole,
     modelInUse, IInv, TypeOK, RuntimeKnown, ComparisonAlone, Idle, Model, Selection,
     manager, install
<1>6. ASSUME NEW c \in Client, LoadFailed(c) PROVE  ComparisonAlone'
  BY <1>6, LifecycleAssumption DEF LoadFailed, AcquireFailed, EndRun, UnloadIdle,
     forceClose, ForceCloseCutShort, CloseWhole, CloseCutShort, modelInUse, IInv,
     TypeOK, RuntimeKnown, ComparisonAlone, Idle, Model, Selection, manager, install
<1>7. ASSUME NEW c \in Client, Released(c) PROVE  ComparisonAlone'
  BY <1>7, LifecycleAssumption DEF Released, EndRun, ReleaseShared, ReleaseCold,
     ReleaseWarm, CloseWhole, IInv, TypeOK, RuntimeKnown, ComparisonAlone, Idle, Model,
     Selection, manager, install
<1>8. ASSUME NEW c \in Client, ReleaseFailed(c) PROVE  ComparisonAlone'
  BY <1>8, LifecycleAssumption DEF ReleaseFailed, ReleaseCutShort, CloseCutShort, IInv,
     TypeOK, RuntimeKnown, ComparisonAlone, Idle, Model, Selection, manager, install
<1>9. CASE BeginActivation
  BY <1>9, LifecycleAssumption DEF BeginActivation, IInv, TypeOK, RuntimeKnown,
     ComparisonAlone, Idle, Model, Selection, manager, client
<1>10. CASE ReadRevision
  BY <1>10, LifecycleAssumption DEF ReadRevision, IInv, TypeOK, RuntimeKnown,
     ComparisonAlone, Idle, Model, Selection, manager, client
<1>11. CASE CheckUse
  BY <1>11, LifecycleAssumption DEF CheckUse, modelInUse, forceClose, CloseWhole, IInv,
     TypeOK, RuntimeKnown, ComparisonAlone, Idle, Model, Selection, manager, client
<1>12. CASE Awake
  BY <1>12, LifecycleAssumption DEF Awake, IInv, TypeOK, RuntimeKnown, ComparisonAlone,
     Idle, Model, Selection, manager, client
<1>13. CASE Activate
  BY <1>13, LifecycleAssumption DEF Activate, IInv, TypeOK, RuntimeKnown,
     ComparisonAlone, Idle, Model, Selection, manager, client
<1>14. CASE CancelActivation
  BY <1>14, LifecycleAssumption DEF CancelActivation, modelInUse, ForceCloseCutShort,
     CloseCutShort, IInv, TypeOK, RuntimeKnown, ComparisonAlone, Idle, Model, Selection,
     manager, client
<1>15. CASE delete
  BY <1>15, LifecycleAssumption DEF delete, modelInUse, forceClose, CloseWhole, IInv,
     TypeOK, RuntimeKnown, ComparisonAlone, Idle, Model, Selection, manager, client,
     install
<1>16. CASE acquireBenchmark
  BY <1>16, LifecycleAssumption DEF acquireBenchmark, Idle, forceClose,
     ForceCloseCutShort, CloseWhole, CloseCutShort, IInv, TypeOK, RuntimeKnown,
     ComparisonAlone, Model, Selection, client, install
<1>17. CASE CloseBenchmark
  BY <1>17, LifecycleAssumption DEF CloseBenchmark, IInv, TypeOK, RuntimeKnown,
     ComparisonAlone, Idle, Model, Selection, manager, client, install
<1>18. CASE Unload
  BY <1>18, LifecycleAssumption DEF Unload, CloseWhole, CloseCutShort, IInv, TypeOK,
     RuntimeKnown, ComparisonAlone, Idle, Model, Selection, client, install
<1>19. CASE DestroyScreen
  BY <1>19, LifecycleAssumption DEF DestroyScreen, IInv, TypeOK, RuntimeKnown,
     ComparisonAlone, Idle, Model, Selection, client, install
<1>20. CASE UNCHANGED vars
  BY <1>20 DEF vars, IInv, TypeOK, RuntimeKnown, ComparisonAlone, Idle, Model, Selection
<1> QED
  BY <1>1, <1>2, <1>3, <1>4, <1>5, <1>6, <1>7, <1>8, <1>9, <1>10, <1>11, <1>12, <1>13,
     <1>14, <1>15, <1>16, <1>17, <1>18, <1>19, <1>20 DEF Next, ClientStep, InstallerStep

(* Every step keeps an idle engine scheduled. *)
LEMMA IdleStep ==
    ASSUME IInv, IdleEngineScheduled, [Next]_vars
    PROVE  IdleEngineScheduled'
<1>1. ASSUME NEW c \in Client, Start(c) PROVE  IdleEngineScheduled'
  BY <1>1, LifecycleAssumption DEF Start, IInv, TypeOK, LeaseHeld, IdleEngineScheduled,
     manager, install
<1>2. ASSUME NEW c \in Client, acquireSession(c) PROVE  IdleEngineScheduled'
  BY <1>2, LifecycleAssumption DEF acquireSession, IInv, TypeOK, LeaseHeld,
     IdleEngineScheduled, manager, install
<1>3. ASSUME NEW c \in Client, CloseSession(c) PROVE  IdleEngineScheduled'
  BY <1>3, LifecycleAssumption DEF CloseSession, IInv, TypeOK, LeaseHeld,
     IdleEngineScheduled, manager, client, install
<1>4. ASSUME NEW c \in Client, EnterLoad(c) PROVE  IdleEngineScheduled'
  BY <1>4, LifecycleAssumption DEF EnterLoad, EndRun, IInv, TypeOK, LeaseHeld,
     IdleEngineScheduled, manager, install
<1>5. ASSUME NEW c \in Client, Loaded(c) PROVE  IdleEngineScheduled'
  BY <1>5, LifecycleAssumption DEF Loaded, acquire, UnloadIdle, forceClose, CloseWhole,
     modelInUse, IInv, TypeOK, LeaseHeld, IdleEngineScheduled, manager, install
<1>6. ASSUME NEW c \in Client, LoadFailed(c) PROVE  IdleEngineScheduled'
  BY <1>6, LifecycleAssumption DEF LoadFailed, AcquireFailed, EndRun, UnloadIdle,
     forceClose, ForceCloseCutShort, CloseWhole, CloseCutShort, modelInUse, IInv,
     TypeOK, LeaseHeld, IdleEngineScheduled, manager, install
<1>7. ASSUME NEW c \in Client, Released(c) PROVE  IdleEngineScheduled'
  BY <1>7, LifecycleAssumption DEF Released, EndRun, ReleaseShared, ReleaseCold,
     ReleaseWarm, CloseWhole, IInv, TypeOK, LeaseHeld, IdleEngineScheduled, manager,
     install
<1>8. ASSUME NEW c \in Client, ReleaseFailed(c) PROVE  IdleEngineScheduled'
  BY <1>8, LifecycleAssumption DEF ReleaseFailed, ReleaseCutShort, CloseCutShort, IInv,
     TypeOK, LeaseHeld, IdleEngineScheduled, manager, install
<1>9. CASE BeginActivation
  BY <1>9, LifecycleAssumption DEF BeginActivation, IInv, TypeOK, LeaseHeld,
     IdleEngineScheduled, manager, client
<1>10. CASE ReadRevision
  BY <1>10, LifecycleAssumption DEF ReadRevision, IInv, TypeOK, LeaseHeld,
     IdleEngineScheduled, manager, client
<1>11. CASE CheckUse
  BY <1>11, LifecycleAssumption DEF CheckUse, modelInUse, forceClose, CloseWhole, IInv,
     TypeOK, LeaseHeld, IdleEngineScheduled, manager, client
<1>12. CASE Awake
  BY <1>12, LifecycleAssumption DEF Awake, IInv, TypeOK, LeaseHeld, IdleEngineScheduled,
     manager, client
<1>13. CASE Activate
  BY <1>13, LifecycleAssumption DEF Activate, IInv, TypeOK, LeaseHeld,
     IdleEngineScheduled, manager, client
<1>14. CASE CancelActivation
  BY <1>14, LifecycleAssumption DEF CancelActivation, modelInUse, ForceCloseCutShort,
     CloseCutShort, IInv, TypeOK, LeaseHeld, IdleEngineScheduled, manager, client
<1>15. CASE delete
  BY <1>15, LifecycleAssumption DEF delete, modelInUse, forceClose, CloseWhole, IInv,
     TypeOK, LeaseHeld, IdleEngineScheduled, manager, client, install
<1>16. CASE acquireBenchmark
  BY <1>16, LifecycleAssumption DEF acquireBenchmark, Idle, forceClose,
     ForceCloseCutShort, CloseWhole, CloseCutShort, IInv, TypeOK, LeaseHeld,
     IdleEngineScheduled, client, install
<1>17. CASE CloseBenchmark
  BY <1>17, LifecycleAssumption DEF CloseBenchmark, IInv, TypeOK, LeaseHeld,
     IdleEngineScheduled, manager, client, install
<1>18. CASE Unload
  BY <1>18, LifecycleAssumption DEF Unload, CloseWhole, CloseCutShort, IInv, TypeOK,
     LeaseHeld, IdleEngineScheduled, client, install
<1>19. CASE DestroyScreen
  BY <1>19, LifecycleAssumption DEF DestroyScreen, IInv, TypeOK, LeaseHeld,
     IdleEngineScheduled, client, install
<1>20. CASE UNCHANGED vars
  BY <1>20 DEF vars, IInv, TypeOK, LeaseHeld, IdleEngineScheduled
<1> QED
  BY <1>1, <1>2, <1>3, <1>4, <1>5, <1>6, <1>7, <1>8, <1>9, <1>10, <1>11, <1>12, <1>13,
     <1>14, <1>15, <1>16, <1>17, <1>18, <1>19, <1>20 DEF Next, ClientStep, InstallerStep

-----------------------------------------------------------------------------
(* The theorems.                                                           *)

(* The strengthening holds at first and is kept by every step.             *)
LEMMA Invariant == Spec => []IInv
<1>1. Init => IInv
  <2> SUFFICES ASSUME Init
               PROVE  IInv
    OBVIOUS
  <2>1. ClientTypes
    BY DEF Init, ClientTypes
  <2>2. OtherTypes
    <3>1. runs \in 0..MaxRuns /\ changes \in 0..MaxChanges
      BY LifecycleAssumption DEF Init
    <3>2. files \in [Model -> 0..1]
      BY DEF Init
    <3> QED
      BY <3>1, <3>2 DEF Init, OtherTypes
  <2>3. MutexTied /\ LeasesTied
    BY LifecycleAssumption DEF Init, MutexTied, LeasesTied
  <2>4. RuntimeKnown /\ LeaseHeld /\ ActivationAlone /\ ComparisonAlone
    BY DEF Init, RuntimeKnown, LeaseHeld, ActivationAlone, ComparisonAlone
  <2> QED
    BY <2>1, <2>2, <2>3, <2>4, TypeParts DEF IInv
<1>2. IInv /\ [Next]_vars => IInv'
  BY TypeStep, RuntimeStep, LeaseStep, ActivationStep, ComparisonStep DEF IInv
<1> QED
  BY <1>1, <1>2, PTL DEF Spec

(* The types, and what ties the mutex, the runtimes and the leases.        *)
THEOREM TypeCorrect == Spec => []TypeOK
<1>1. IInv => TypeOK
  BY DEF IInv
<1> QED
  BY Invariant, <1>1, PTL

(* The engine of a dictation that holds a lease is not closed underneath,  *)
(* but for the backend that a close cut short leaves behind.               *)
THEOREM EngineOpen == Spec => []EngineOpenWhileLeased
<1>1. IInv => EngineOpenWhileLeased
  BY DEF IInv, TypeOK, LeaseHeld, EngineOpenWhileLeased
<1> QED
  BY Invariant, <1>1, PTL

(* An engine without leases is scheduled for unloading.                    *)
THEOREM IdleScheduled == Spec => []IdleEngineScheduled
<1>1. Init => IdleEngineScheduled
  BY DEF Init, IdleEngineScheduled
<1>2. IInv /\ IdleEngineScheduled /\ [Next]_vars => IdleEngineScheduled'
  BY IdleStep
<1> QED
  BY Invariant, <1>1, <1>2, PTL DEF Spec

(* A comparison has the models for itself.                                 *)
THEOREM ComparisonsAlone == Spec => []ComparisonAlone
<1>1. IInv => ComparisonAlone
  BY DEF IInv
<1> QED
  BY Invariant, <1>1, PTL

(* The files of a model in use are never replaced or deleted.              *)
THEOREM FilesUntouched == Spec => FilesInUseUntouched
<1> DEFINE Untouched ==
        \A m \in Model : files'[m] # files[m] =>
            /\ ~benchmarkOwned /\ ~modelInUse(m)
            /\ \A c \in Client : chosen[c] = m => pc[c] # "loading"
<1>1. IInv /\ [Next]_vars => [Untouched]_vars
  <2> SUFFICES ASSUME IInv, [Next]_vars
               PROVE  Untouched
    OBVIOUS
  <2>1. CASE Activate
    <3>1. \A m \in Model : files'[m] # files[m] => m = target
      BY <2>1 DEF Activate, IInv, TypeOK
    <3>2. \A c \in Client : pc[c] # "loading"
      BY <2>1, LifecycleAssumption DEF Activate, IInv, TypeOK
    <3> QED
      BY <2>1, <3>1, <3>2 DEF Activate, IInv, ActivationAlone
  <2>2. CASE delete
    <3>1. \A m \in Model : files'[m] # files[m] => ~benchmarkOwned /\ ~modelInUse(m)
      BY <2>2 DEF delete, IInv, TypeOK
    <3>2. \A c \in Client : pc[c] # "loading"
      BY <2>2, LifecycleAssumption DEF delete, IInv, TypeOK
    <3> QED
      BY <3>1, <3>2
  <2>3. CASE files' = files
    BY <2>3
  <2>4. Activate \/ delete \/ files' = files
    BY DEF Next, vars, ClientStep, InstallerStep, Start, acquireSession, CloseSession,
       EnterLoad, Loaded, LoadFailed, Released, ReleaseFailed, BeginActivation,
       ReadRevision, CheckUse, Awake, CancelActivation, acquireBenchmark,
       CloseBenchmark, Unload, DestroyScreen
  <2> QED
    BY <2>1, <2>2, <2>3, <2>4
<1> QED
  BY Invariant, <1>1, PTL DEF Spec, FilesInUseUntouched
=============================================================================
