--------------------------- MODULE ModelLifecycle ---------------------------
(***************************************************************************)
(* Who may use, replace or compare the recognition models: the companion   *)
(* object of RecognitionModelLifecycle (sessions of recordings, loaded     *)
(* runtimes, the ownership of a comparison, the mutex over them) and       *)
(* ParakeetEngineManager, which shares one native engine among leases and  *)
(* keeps it warm on a timer.  The clients are dictations and               *)
(* retranscriptions; an installer activates a download, a keeper deletes a *)
(* model, a comparer runs the benchmark.                                   *)
(*                                                                         *)
(* Everything ParakeetEngineManager does happens under its own mutex, so   *)
(* nobody sees one of its operations half done: each of its outcomes, the  *)
(* failures between its lines included, is one step here.  runtimeMutex is *)
(* explicit because sessions end, comparisons end and timers fire without  *)
(* it.                                                                     *)
(***************************************************************************)
EXTENDS Naturals

CONSTANTS
    Client,         \* dictations and retranscriptions, each with its screen
    Parakeet,       \* the model whose engine is shared
    Other,          \* a model whose backend belongs to one client
    Legacy,         \* Whisper: selected and loaded, but no RecognitionModel
    None,
    MaxRuns,        \* how many runs the clients start in all
    MaxChanges      \* how many activations, deletions and comparisons begin

ASSUME LifecycleAssumption ==
    /\ Parakeet # Other
    /\ Legacy \notin {Parakeet, Other}
    /\ None \notin {Parakeet, Other, Legacy, "installer"} \cup Client
    /\ "installer" \notin Client
    /\ MaxRuns \in Nat /\ MaxChanges \in Nat

\* What the store keeps, activates and deletes, and what a client may choose.
Model == {Parakeet, Other}
Selection == Model \cup {Legacy}

VARIABLES
    mutex,           \* who holds runtimeMutex over several steps, or None
    benchmarkOwned,
    activeSessions,  \* the model of each client's session token, or None
    activeRuntimes,  \* the model of each client's registered backend, or None
    changed,         \* runtimeChanges moved since the installer read it
    files,           \* which copy of each model is on disk
    engine,          \* the backend of the manager: none, open, or closed
    activeLeaseIds,  \* the clients whose lease id is in the set
    unloadJob,       \* the screen in whose scope the timer runs, or None
    pc, chosen,      \* what each client does, and with which model
    records,         \* whether the client is a dictation about to take a session
    retries,         \* whether the client is a dictation: it releases again on failure
    installer, target,
    torn,            \* a close of the engine was cut short by a cancellation
    lost,            \* the timer went without unloading: with its screen, or
                     \* cancelled by an acquire() that then failed
    runs, changes

manager == <<engine, activeLeaseIds, unloadJob, torn, lost>>
client == <<pc, chosen, records, retries>>
install == <<installer, target>>
vars == <<mutex, benchmarkOwned, activeSessions, activeRuntimes, changed, files,
          engine, activeLeaseIds, unloadJob, torn, lost, pc, chosen, records,
          retries, installer, target, runs, changes>>

Init ==
    /\ mutex = None /\ benchmarkOwned = FALSE
    /\ activeSessions = [c \in Client |-> None]
    /\ activeRuntimes = [c \in Client |-> None]
    /\ changed = FALSE
    /\ files = [m \in Model |-> 0]
    /\ engine = "none" /\ activeLeaseIds = {} /\ unloadJob = None
    /\ torn = FALSE /\ lost = FALSE
    /\ pc = [c \in Client |-> "idle"]
    /\ chosen = [c \in Client |-> None]
    /\ records = [c \in Client |-> FALSE]
    /\ retries = [c \in Client |-> FALSE]
    /\ installer = "idle" /\ target = None
    /\ runs = 0 /\ changes = 0

modelInUse(m) ==
    \/ \E c \in Client : activeRuntimes[c] = m
    \/ \E c \in Client : activeSessions[c] = m

Idle == /\ \A c \in Client : activeRuntimes[c] = None
        /\ \A c \in Client : activeSessions[c] = None

-----------------------------------------------------------------------------
(* ParakeetEngineManager.                                                  *)

\* backend?.close(); backend = null.  close() runs on another dispatcher, so a
\* caller that is cancelled meanwhile throws on its return and leaves the
\* closed backend in the field.
CloseWhole == engine' = "none" /\ torn' = FALSE /\ lost' = FALSE
CloseCutShort == engine # "none" /\ engine' = "closed" /\ torn' = TRUE /\ UNCHANGED lost

\* a variant: the timer of the last release is left running
AcquireKeepingTimer(c) ==
    /\ engine' = IF engine = "none" THEN "open" ELSE engine
    /\ activeLeaseIds' = activeLeaseIds \cup {c}
    /\ UNCHANGED <<unloadJob, torn, lost>>

\* a variant: the lease is handed out before the engine is there
AcquireWithoutEngine(c) ==
    /\ unloadJob' = None
    /\ activeLeaseIds' = activeLeaseIds \cup {c}
    /\ UNCHANGED <<engine, torn, lost>>

\* A backend that is there is handed out as it is; otherwise it is loaded.
acquire(c) ==
    /\ unloadJob' = None
    /\ engine' = IF engine = "none" THEN "open" ELSE engine
    /\ activeLeaseIds' = activeLeaseIds \cup {c}
    /\ UNCHANGED <<torn, lost>>

\* acquire() throws after it cancelled the timer: the engine does not load (its
\* backend is dropped), or the settings cannot be read for the warm one, which
\* stays as it is.
AcquireFailed ==
    /\ unloadJob' = None
    /\ lost' = (lost \/ unloadJob # None)
    /\ UNCHANGED <<engine, activeLeaseIds, torn>>

\* Nothing to do: the lease is unknown, or others are active.
ReleaseShared(c) ==
    /\ c \notin activeLeaseIds \/ activeLeaseIds # {c}
    /\ activeLeaseIds' = activeLeaseIds \ {c}
    /\ UNCHANGED <<engine, unloadJob, torn, lost>>

\* The last lease goes and the timer starts in the scope of its screen.
ReleaseWarm(c) ==
    /\ activeLeaseIds = {c}
    /\ activeLeaseIds' = {}
    /\ unloadJob' = c
    /\ lost' = FALSE
    /\ UNCHANGED <<engine, torn>>

\* The last lease goes and the engine with it.
ReleaseCold(c) ==
    /\ activeLeaseIds = {c}
    /\ activeLeaseIds' = {}
    /\ unloadJob' = None
    /\ CloseWhole

ReleaseCutShort(c) ==
    /\ activeLeaseIds = {c}
    /\ activeLeaseIds' = {}
    /\ unloadJob' = None
    /\ CloseCutShort

\* forceClose, returning and cut short.
forceClose ==
    /\ unloadJob' = None
    /\ activeLeaseIds' = {}
    /\ CloseWhole
ForceCloseCutShort ==
    /\ unloadJob' = None
    /\ activeLeaseIds' = {}
    /\ CloseCutShort

\* The timer elapses, waits for the manager's mutex and unloads the engine; the
\* scope may be cancelled while it closes.
Unload ==
    /\ unloadJob # None
    /\ unloadJob' = None
    /\ CloseWhole \/ CloseCutShort
    /\ UNCHANGED <<mutex, benchmarkOwned, activeSessions, activeRuntimes, changed,
                   files, activeLeaseIds, client, install, runs, changes>>

\* The screen goes with its lifecycleScope, and the timer with that.
DestroyScreen ==
    /\ unloadJob # None
    /\ unloadJob' = None
    /\ lost' = TRUE
    /\ UNCHANGED <<mutex, benchmarkOwned, activeSessions, activeRuntimes, changed,
                   files, engine, activeLeaseIds, torn, client, install, runs, changes>>

-----------------------------------------------------------------------------
(* A client: a dictation (which also takes a session) or a retranscription.*)

EndRun(c) ==
    /\ pc' = [pc EXCEPT ![c] = "idle"]
    /\ retries' = [retries EXCEPT ![c] = FALSE]

Start(c) ==
    /\ pc[c] = "idle" /\ activeSessions[c] = None /\ runs < MaxRuns
    /\ \E s \in Selection, dictation \in BOOLEAN :
        /\ chosen' = [chosen EXCEPT ![c] = s]
        /\ records' = [records EXCEPT ![c] = dictation]
        /\ retries' = [retries EXCEPT ![c] = dictation]
    /\ pc' = [pc EXCEPT ![c] = "wants"]
    /\ runs' = runs + 1
    /\ UNCHANGED <<mutex, benchmarkOwned, activeSessions, activeRuntimes, changed,
                   files, manager, install, changes>>

\* acquireSession, and its refusal while models are compared.
acquireSession(c) ==
    /\ records[c] /\ mutex = None
    /\ records' = [records EXCEPT ![c] = FALSE]
    /\ activeSessions' = IF benchmarkOwned THEN activeSessions
                         ELSE [activeSessions EXCEPT ![c] = chosen[c]]
    /\ UNCHANGED <<mutex, benchmarkOwned, activeRuntimes, changed, files, manager,
                   pc, chosen, retries, install, runs, changes>>

\* a variant: nobody is told
CloseSessionQuietly(c) ==
    /\ activeSessions[c] # None
    /\ activeSessions' = [activeSessions EXCEPT ![c] = None]
    /\ UNCHANGED <<mutex, benchmarkOwned, activeRuntimes, changed, files, manager,
                   client, install, runs, changes>>

\* The token is closed, without the mutex: at the end of the run or at a reset,
\* whatever the runtime is doing.
CloseSession(c) ==
    /\ activeSessions[c] # None
    /\ activeSessions' = [activeSessions EXCEPT ![c] = None]
    /\ changed' = TRUE
    /\ UNCHANGED <<mutex, benchmarkOwned, activeRuntimes, files, manager, client,
                   install, runs, changes>>

\* acquireRuntime takes the mutex; a comparison refuses it.
EnterLoad(c) ==
    /\ pc[c] = "wants" /\ mutex = None
    /\ IF benchmarkOwned
       THEN EndRun(c) /\ UNCHANGED mutex
       ELSE pc' = [pc EXCEPT ![c] = "loading"] /\ mutex' = c /\ UNCHANGED retries
    /\ UNCHANGED <<benchmarkOwned, activeSessions, activeRuntimes, changed, files,
                   manager, chosen, records, install, runs, changes>>

\* a variant: the timer of the idle engine is cancelled and the engine stays
UnloadTimerOnly ==
    /\ unloadJob' = None
    /\ UNCHANGED <<engine, activeLeaseIds, torn, lost>>

\* load() of another backend first closes the Parakeet engine nobody uses.
UnloadIdle == IF modelInUse(Parakeet) THEN UNCHANGED manager ELSE forceClose

\* The runtime is registered under its model, if it has one.
Loaded(c) ==
    /\ pc[c] = "loading"
    /\ IF chosen[c] = Parakeet THEN acquire(c) ELSE UnloadIdle
    /\ activeRuntimes' =
          [activeRuntimes EXCEPT ![c] = IF chosen[c] \in Model THEN chosen[c] ELSE None]
    /\ pc' = [pc EXCEPT ![c] = "using"]
    /\ mutex' = None
    /\ UNCHANGED <<benchmarkOwned, activeSessions, changed, files, chosen, records,
                   retries, install, runs, changes>>

\* The load throws or is cancelled, before the engine manager is asked or later:
\* nothing is registered.  (An installation that does not load loses its marker,
\* which is the invalidate of ModelStore; its files stay.)
LoadFailed(c) ==
    /\ pc[c] = "loading"
    /\ \/ UNCHANGED manager
       \/ chosen[c] = Parakeet /\ AcquireFailed
       \/ chosen[c] # Parakeet /\ UnloadIdle
       \/ chosen[c] # Parakeet /\ ~modelInUse(Parakeet) /\ ForceCloseCutShort
    /\ EndRun(c)
    /\ mutex' = None
    /\ UNCHANGED <<benchmarkOwned, activeSessions, activeRuntimes, changed, files,
                   chosen, records, install, runs, changes>>

\* releaseRuntime returns: the runtime is forgotten and waiters are woken.
Released(c) ==
    /\ pc[c] \in {"using", "again"} /\ mutex = None
    /\ IF chosen[c] = Parakeet
       THEN \/ ReleaseShared(c)
            \/ ReleaseCold(c)
            \/ pc[c] = "using" /\ retries[c] /\ ReleaseWarm(c)
       ELSE UNCHANGED manager
    /\ activeRuntimes' = [activeRuntimes EXCEPT ![c] = None]
    /\ changed' = TRUE
    /\ EndRun(c)
    /\ UNCHANGED <<mutex, benchmarkOwned, activeSessions, files, chosen, records,
                   install, runs, changes>>

\* close() throws: a registered runtime stays registered.  A dictation that is cancelled
\* or fails releases again in its finally block, which cannot be cancelled; a
\* retranscription released there already and leaves it at that.
ReleaseFailed(c) ==
    /\ pc[c] = "using" /\ mutex = None
    /\ IF chosen[c] = Parakeet THEN retries[c] /\ ReleaseCutShort(c)
       ELSE UNCHANGED manager
    /\ changed' = TRUE
    /\ pc' = [pc EXCEPT ![c] = IF retries[c] THEN "again" ELSE "gone"]
    /\ UNCHANGED <<mutex, benchmarkOwned, activeSessions, activeRuntimes, files,
                   chosen, records, retries, install, runs, changes>>

-----------------------------------------------------------------------------
(* The installer: activateInstallation.                                    *)

BeginActivation ==
    /\ installer = "idle" /\ changes < MaxChanges
    /\ changes' = changes + 1
    /\ target' \in Model
    /\ installer' = "read"
    /\ UNCHANGED <<mutex, benchmarkOwned, activeSessions, activeRuntimes, changed,
                   files, manager, client, runs>>

\* revision = runtimeChanges.value, before the mutex
ReadRevision ==
    /\ installer = "read"
    /\ changed' = FALSE
    /\ installer' = "check"
    /\ UNCHANGED <<mutex, benchmarkOwned, activeSessions, activeRuntimes, files,
                   manager, client, target, runs, changes>>

\* a variant: only the loaded runtimes count as use
CheckRuntimesOnly ==
    /\ installer = "check" /\ mutex = None
    /\ IF benchmarkOwned \/ \E c \in Client : activeRuntimes[c] = target
       THEN installer' = "wait" /\ UNCHANGED <<mutex, manager>>
       ELSE /\ installer' = "activate" /\ mutex' = "installer"
            /\ IF target = Parakeet THEN forceClose ELSE UNCHANGED manager
    /\ UNCHANGED <<benchmarkOwned, activeSessions, activeRuntimes, changed, files,
                   client, target, runs, changes>>

\* Under the mutex: give up while the model is in use, else free its engine.
CheckUse ==
    /\ installer = "check" /\ mutex = None
    /\ IF benchmarkOwned \/ modelInUse(target)
       THEN installer' = "wait" /\ UNCHANGED <<mutex, manager>>
       ELSE /\ installer' = "activate" /\ mutex' = "installer"
            /\ IF target = Parakeet THEN forceClose ELSE UNCHANGED manager
    /\ UNCHANGED <<benchmarkOwned, activeSessions, activeRuntimes, changed, files,
                   client, target, runs, changes>>

\* runtimeChanges.first { it != revision }
Awake ==
    /\ installer = "wait" /\ changed
    /\ installer' = "read"
    /\ UNCHANGED <<mutex, benchmarkOwned, activeSessions, activeRuntimes, changed,
                   files, manager, client, target, runs, changes>>

\* store.activateStaged
Activate ==
    /\ installer = "activate"
    /\ files' = [files EXCEPT ![target] = 1 - @]
    /\ installer' = "idle" /\ target' = None /\ mutex' = None
    /\ UNCHANGED <<benchmarkOwned, activeSessions, activeRuntimes, changed, manager,
                   client, runs, changes>>

\* The download screen is closed: ensureActive, the waiting and the closing of
\* the engine all throw.
CancelActivation ==
    /\ installer \in {"read", "check", "wait"}
    /\ installer' = "idle" /\ target' = None
    /\ \/ UNCHANGED manager
       \/ /\ installer = "check" /\ mutex = None /\ target = Parakeet
          /\ ~benchmarkOwned /\ ~modelInUse(target)
          /\ ForceCloseCutShort
    /\ UNCHANGED <<mutex, benchmarkOwned, activeSessions, activeRuntimes, changed,
                   files, client, runs, changes>>

-----------------------------------------------------------------------------
(* Deletion and comparison.                                                *)

delete ==
    /\ mutex = None /\ changes < MaxChanges
    /\ changes' = changes + 1
    /\ \E m \in Model :
        /\ ~benchmarkOwned /\ ~modelInUse(m)
        /\ IF m = Parakeet THEN forceClose ELSE UNCHANGED manager
        /\ files' = [files EXCEPT ![m] = 1 - @]
    /\ UNCHANGED <<mutex, benchmarkOwned, activeSessions, activeRuntimes, changed,
                   client, install, runs>>

\* a variant: the sessions of recordings without a runtime do not count
BenchmarkBesideSessions ==
    /\ mutex = None /\ ~benchmarkOwned /\ changes < MaxChanges
    /\ \A c \in Client : activeRuntimes[c] = None
    /\ changes' = changes + 1
    /\ forceClose
    /\ benchmarkOwned' = TRUE
    /\ UNCHANGED <<mutex, activeSessions, activeRuntimes, changed, files, client,
                   install, runs>>

acquireBenchmark ==
    /\ mutex = None /\ ~benchmarkOwned /\ Idle /\ changes < MaxChanges
    /\ changes' = changes + 1
    /\ \/ forceClose /\ benchmarkOwned' = TRUE
       \/ ForceCloseCutShort /\ UNCHANGED benchmarkOwned
    /\ UNCHANGED <<mutex, activeSessions, activeRuntimes, changed, files, client,
                   install, runs>>

CloseBenchmark ==
    /\ benchmarkOwned
    /\ benchmarkOwned' = FALSE
    /\ changed' = TRUE
    /\ UNCHANGED <<mutex, activeSessions, activeRuntimes, files, manager, client,
                   install, runs, changes>>

-----------------------------------------------------------------------------
ClientStep(c) ==
    \/ Start(c) \/ acquireSession(c) \/ CloseSession(c) \/ EnterLoad(c)
    \/ Loaded(c) \/ LoadFailed(c) \/ Released(c) \/ ReleaseFailed(c)

InstallerStep ==
    BeginActivation \/ ReadRevision \/ CheckUse \/ Awake \/ Activate \/ CancelActivation

Next ==
    \/ \E c \in Client : ClientStep(c)
    \/ InstallerStep
    \/ delete \/ acquireBenchmark \/ CloseBenchmark
    \/ Unload \/ DestroyScreen

(***************************************************************************)
(* A recording ends (by the user, the detector or the time limit), so that *)
(* its session is closed and its runtime released; a load and a comparison *)
(* end; the coroutines of the installer are scheduled.  Nothing is assumed *)
(* of timers, of screens, or that a close which fails is tried again by    *)
(* who does not try it.                                                    *)
(***************************************************************************)
Fairness ==
    /\ \A c \in Client :
        /\ WF_vars(CloseSession(c)) /\ WF_vars(EnterLoad(c))
        /\ WF_vars(Loaded(c) \/ LoadFailed(c))
        /\ WF_vars(Released(c) \/ ReleaseFailed(c))
    /\ WF_vars(ReadRevision) /\ WF_vars(CheckUse) /\ WF_vars(Awake) /\ WF_vars(Activate)
    /\ WF_vars(CloseBenchmark)

Spec == Init /\ [][Next]_vars /\ Fairness

-----------------------------------------------------------------------------
(* Properties.                                                             *)

\* Types, and what ties the fields together: the mutex is held by a load or an
\* activation in progress, a lease is that of a registered Parakeet runtime and
\* there is an engine behind it.
TypeOK ==
    /\ mutex \in Client \cup {"installer", None}
    /\ benchmarkOwned \in BOOLEAN /\ changed \in BOOLEAN
    /\ activeSessions \in [Client -> Selection \cup {None}]
    /\ activeRuntimes \in [Client -> Model \cup {None}]
    /\ files \in [Model -> 0..1]
    /\ engine \in {"none", "open", "closed"}
    /\ activeLeaseIds \in SUBSET Client
    /\ unloadJob \in Client \cup {None}
    /\ torn \in BOOLEAN /\ lost \in BOOLEAN
    /\ pc \in [Client -> {"idle", "wants", "loading", "using", "again", "gone"}]
    /\ chosen \in [Client -> Selection \cup {None}]
    /\ records \in [Client -> BOOLEAN] /\ retries \in [Client -> BOOLEAN]
    /\ installer \in {"idle", "read", "check", "wait", "activate"}
    /\ target \in Model \cup {None}
    /\ runs \in 0..MaxRuns /\ changes \in 0..MaxChanges
    /\ \A c \in Client : pc[c] = "loading" <=> mutex = c
    /\ installer = "activate" <=> mutex = "installer"
    /\ \A c \in activeLeaseIds : activeRuntimes[c] = Parakeet
    /\ activeLeaseIds # {} => engine # "none"

\* A dictation that holds a Parakeet lease has an open engine: neither the timer
\* of an earlier release, nor the load of another model, an activation, a deletion
\* or a comparison closes it underneath.  The exception the code has is a close cut
\* short by a cancellation, whose closed backend the next acquire() hands out.
EngineOpenWhileLeased ==
    (\E c \in Client : pc[c] = "using" /\ chosen[c] = Parakeet) => engine = "open" \/ torn

\* An engine nobody leases is scheduled for unloading.  Three things leave its
\* memory behind: a close cut short by a cancellation, the destruction of the
\* screen whose scope the timer ran in, and an acquire() that cancels the timer
\* and then fails before it leases the warm engine.  No other order of releases,
\* failures, loads and comparisons does.
IdleEngineScheduled ==
    engine # "none" /\ activeLeaseIds = {} => unloadJob # None \/ torn \/ lost

\* A comparison runs with no session of a recording, no load in progress and no
\* loaded runtime but Whisper's: that one is registered nowhere, so that without a
\* session, as in a retranscription, it goes on beside the comparison.
ComparisonAlone ==
    benchmarkOwned =>
        /\ Idle
        /\ \A c \in Client :
              /\ pc[c] # "loading"
              /\ pc[c] \in {"using", "again", "gone"} => chosen[c] = Legacy

\* The files of a model change only while no recording was started with it, no
\* runtime of it is loaded or loading, and no comparison reads them.
FilesInUseUntouched ==
    [][\A m \in Model : files'[m] # files[m] =>
            /\ ~benchmarkOwned /\ ~modelInUse(m)
            /\ \A c \in Client : chosen[c] = m => pc[c] # "loading"]_vars

\* An activation that waits for the model to be free goes on when the last user
\* is gone, however the release and the reading of the revision interleave, unless
\* a retranscription left a runtime of it behind whose close() had thrown.
ActivationEnds ==
    installer = "wait" ~>
        installer = "idle" \/ \E c \in Client : pc[c] = "gone" /\ activeRuntimes[c] = target
=============================================================================
