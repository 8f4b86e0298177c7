----------------------------- MODULE ModelStore -----------------------------
(***************************************************************************)
(* The directories of one downloadable recognition model on disk and       *)
(* everything that touches them: RecognitionModelStore in                  *)
(* recognition/RecognitionModelCatalog.kt, driven by the operations of     *)
(* RecognitionModelLifecycle that hold runtimeMutex (an activation, a      *)
(* deletion, the load of a runtime) and by readiness(), which screens call *)
(* without it.  The process may die between any two file operations, and   *)
(* a move or a deletion may report a failure.                              *)
(***************************************************************************)
EXTENDS Naturals

CONSTANTS
    Versions,     \* the published versions of the model, in order of release
    MaxCrashes,   \* how often the process dies
    MaxFaults,    \* how many moves and deletions fail
    MaxDownloads  \* how many downloads are started

ASSUME StoreAssumption ==
    /\ Versions \subseteq Nat \ {0}
    /\ MaxCrashes \in Nat /\ MaxFaults \in Nat /\ MaxDownloads \in Nat

NoVersion == 0

(***************************************************************************)
(* A directory: the version its artifacts are a whole and valid copy of    *)
(* (NoVersion when some are missing or have the wrong size), and the       *)
(* version its completion marker names.                                    *)
(***************************************************************************)
NoDirectory == [exists |-> FALSE, artifacts |-> NoVersion, marker |-> NoVersion]

Directory ==
    [exists : BOOLEAN, artifacts : Versions \cup {NoVersion},
     marker : Versions \cup {NoVersion}]

Marked(d) == d.marker # NoVersion /\ d.artifacts = d.marker

\* What deleteRecursively leaves when it is interrupted: some file is gone,
\* and the marker may be.
Eroded(d) == {[d EXCEPT !.artifacts = NoVersion],
              [d EXCEPT !.artifacts = NoVersion, !.marker = NoVersion]}

\* installer: the coroutine of the download screen; keeper: whoever deletes
\* the model or loads its runtime; screen: readiness() on the main thread.
Process == {"installer", "keeper", "screen"}

VARIABLES
    installed,  \* modelDirectory(model)
    backup,     \* backupDirectory(model)
    staged,     \* stagingDirectory(model), one per version
    journal,    \* whether journal(model) exists
    app,        \* the version in the catalog of the running application
    pc,         \* what each process does next
    purpose,    \* why it runs recover()
    mutex,      \* the process that holds runtimeMutex, or "none"
    lock,       \* the process that holds storageLock, or "none"
    shown,      \* the version the screen last read
    loading,    \* the version acquireRuntime read before it loads
    runtime,    \* the version of the runtime in activeRuntimes
    deleted,    \* a deletion succeeded and nothing was installed since
    crashes, faults, downloads

disk == <<installed, backup, staged, journal>>
control == <<pc, purpose, mutex, lock>>
counts == <<crashes, faults, downloads>>
seen == <<shown, loading, runtime, deleted>>
vars == <<installed, backup, staged, journal, app, pc, purpose, mutex, lock,
          shown, loading, runtime, deleted, crashes, faults, downloads>>

Fault == faults < MaxFaults /\ faults' = faults + 1
NoFault == UNCHANGED faults

Init ==
    /\ installed = NoDirectory
    /\ backup = NoDirectory
    /\ staged = [v \in Versions |-> NoDirectory]
    /\ journal = FALSE
    /\ app \in Versions
    /\ pc = [p \in Process |-> "idle"]
    /\ purpose = [p \in Process |-> "none"]
    /\ mutex = "none"
    /\ lock = "none"
    /\ shown = NoVersion
    /\ loading = NoVersion
    /\ runtime = NoVersion
    /\ deleted = FALSE
    /\ crashes = 0 /\ faults = 0 /\ downloads = 0

-----------------------------------------------------------------------------
(* Control shared by the operations.                                       *)

Goto(p, label) == pc' = [pc EXCEPT ![p] = label]

\* p leaves its operation, by returning or by throwing: the locks it holds
\* are released on the way out.
Leave(p) ==
    /\ Goto(p, "idle")
    /\ purpose' = [purpose EXCEPT ![p] = "none"]
    /\ mutex' = IF mutex = p THEN "none" ELSE mutex
    /\ lock' = IF lock = p THEN "none" ELSE lock

\* p enters synchronized(storageLock) and calls recover() first.
TakeLock(p, why) ==
    /\ lock = "none"
    /\ lock' = p
    /\ Goto(p, "recover")
    /\ purpose' = [purpose EXCEPT ![p] = why]
    /\ UNCHANGED mutex

\* What follows a recover() that returns.
Recovered(p) ==
    CASE purpose[p] = "activate" -> Goto(p, "begin") /\ UNCHANGED <<purpose, mutex, lock>>
      [] purpose[p] = "undo"     -> Leave(p)
      [] OTHER                   -> Goto(p, "inspect") /\ UNCHANGED <<purpose, mutex, lock>>

-----------------------------------------------------------------------------
(* recover(): restore the backup of an unfinished activation, or drop the  *)
(* backup of a finished one.                                               *)

\* a variant: the backup of a finished activation is left where it is
RecoverKeepingBackup(p) ==
    /\ pc[p] = "recover"
    /\ IF journal
       THEN Goto(p, IF backup.exists THEN "clear" ELSE "unjournal")
            /\ UNCHANGED <<purpose, mutex, lock>>
       ELSE Recovered(p)
    /\ UNCHANGED <<disk, app, seen, counts>>

Recover(p) ==
    /\ pc[p] = "recover"
    /\ IF journal
       THEN Goto(p, IF backup.exists THEN "clear" ELSE "unjournal")
            /\ UNCHANGED <<purpose, mutex, lock>>
       ELSE IF backup.exists
            THEN Goto(p, "dropStale") /\ UNCHANGED <<purpose, mutex, lock>>
            ELSE Recovered(p)
    /\ UNCHANGED <<disk, app, seen, counts>>

\* modelDirectory(model).deleteRecursively(), one visible stage at a time
RecoverErode(p) ==
    /\ pc[p] = "clear"
    /\ installed.exists
    /\ installed' \in Eroded(installed)
    /\ UNCHANGED <<backup, staged, journal, app, control, seen, counts>>

RecoverClear(p) ==
    /\ pc[p] = "clear"
    /\ \/ NoFault /\ installed' = NoDirectory /\ Goto(p, "restore")
          /\ UNCHANGED <<purpose, mutex, lock>>
       \/ Fault /\ installed.exists /\ Leave(p) /\ UNCHANGED installed
    /\ UNCHANGED <<backup, staged, journal, app, seen, crashes, downloads>>

RecoverRestore(p) ==
    /\ pc[p] = "restore"
    /\ \/ /\ NoFault
          /\ installed' = backup /\ backup' = NoDirectory
          /\ Goto(p, "unjournal") /\ UNCHANGED <<purpose, mutex, lock>>
       \/ Fault /\ Leave(p) /\ UNCHANGED <<installed, backup>>
    /\ UNCHANGED <<staged, journal, app, seen, crashes, downloads>>

RecoverUnjournal(p) ==
    /\ pc[p] = "unjournal"
    /\ \/ NoFault /\ journal' = FALSE /\ Recovered(p)
       \/ Fault /\ UNCHANGED journal /\ Leave(p)
    /\ UNCHANGED <<installed, backup, staged, app, seen, crashes, downloads>>

RecoverDropStale(p) ==
    /\ pc[p] = "dropStale"
    /\ \/ NoFault /\ backup' = NoDirectory /\ Recovered(p)
       \/ Fault /\ backup' \in Eroded(backup) /\ Leave(p)
    /\ UNCHANGED <<installed, staged, journal, app, seen, crashes, downloads>>

-----------------------------------------------------------------------------
(* installedVersion(): recover(), then the version whose marker and        *)
(* artifacts agree; a marker without its artifacts is deleted.             *)

Inspected == IF Marked(installed) THEN installed.marker ELSE NoVersion

isExactInstalled ==
    installed' = IF Marked(installed) THEN installed
                 ELSE [installed EXCEPT !.marker = NoVersion]

Inspect(p) ==
    /\ pc[p] = "inspect"
    /\ isExactInstalled
    /\ CASE purpose[p] = "show" ->
              /\ shown' = Inspected
              /\ Leave(p) /\ UNCHANGED loading
         [] purpose[p] = "load" ->
              /\ loading' = Inspected
              /\ Goto(p, "load") /\ lock' = "none"
              /\ purpose' = [purpose EXCEPT ![p] = "none"]
              /\ UNCHANGED <<shown, mutex>>
         [] purpose[p] = "before" ->
              /\ Goto(p, "activate") /\ lock' = "none"
              /\ purpose' = [purpose EXCEPT ![p] = "none"]
              /\ UNCHANGED <<shown, loading, mutex>>
    /\ UNCHANGED <<backup, staged, journal, app, runtime, deleted, counts>>

\* readiness(), from a screen: no runtimeMutex
Readiness ==
    /\ pc["screen"] = "idle"
    /\ TakeLock("screen", "show")
    /\ UNCHANGED <<disk, app, seen, counts>>

-----------------------------------------------------------------------------
(* The installer: download into the staging directory of the current       *)
(* version, validate it, wait for the model to be idle, activate it.       *)

Download(complete) ==
    /\ pc["installer"] = "idle"
    /\ downloads < MaxDownloads
    /\ downloads' = downloads + 1
    /\ staged' = [staged EXCEPT ![app] =
                     [@ EXCEPT !.exists = TRUE,
                               !.artifacts = IF complete THEN app ELSE NoVersion]]
    /\ Goto("installer", "validate")
    /\ UNCHANGED <<installed, backup, journal, app, purpose, mutex, lock, seen,
                   crashes, faults>>

\* a variant: the marker names the next version
ValidateStagedAsNext ==
    /\ pc["installer"] = "validate"
    /\ staged' = [staged EXCEPT ![app].marker = app + 1]
    /\ Goto("installer", "wait")
    /\ UNCHANGED <<installed, backup, journal, app, purpose, mutex, lock, seen, counts>>

validateStaged ==
    /\ pc["installer"] = "validate"
    /\ IF staged[app].artifacts = app
       THEN /\ staged' = [staged EXCEPT ![app].marker = app]
            /\ Goto("installer", "wait")
       ELSE /\ Goto("installer", "idle")
            /\ UNCHANGED staged
    /\ UNCHANGED <<installed, backup, journal, app, purpose, mutex, lock, seen, counts>>

\* a variant: it does not ask whether the model is in use
EnterActivationInUse ==
    /\ pc["installer"] = "wait"
    /\ mutex = "none"
    /\ mutex' = "installer"
    /\ Goto("installer", "was")
    /\ UNCHANGED <<disk, app, purpose, lock, seen, counts>>

\* activateInstallation() finds the model idle under runtimeMutex
EnterActivation ==
    /\ pc["installer"] = "wait"
    /\ mutex = "none"
    /\ runtime = NoVersion
    /\ mutex' = "installer"
    /\ Goto("installer", "was")
    /\ UNCHANGED <<disk, app, purpose, lock, seen, counts>>

\* the download screen is closed while the activation waits
GiveUp ==
    /\ pc["installer"] = "wait"
    /\ Goto("installer", "idle")
    /\ UNCHANGED <<disk, app, purpose, mutex, lock, seen, counts>>

\* store.installedVersion(model), then store.activateStaged(model)
ReadBefore ==
    /\ pc["installer"] = "was"
    /\ TakeLock("installer", "before")
    /\ UNCHANGED <<disk, app, seen, counts>>

activateStaged ==
    /\ pc["installer"] = "activate"
    /\ TakeLock("installer", "activate")
    /\ UNCHANGED <<disk, app, seen, counts>>

\* a variant: the journal is not written
BeginUnjournaled ==
    /\ pc["installer"] = "begin"
    /\ IF staged[app].marker = app /\ staged[app].artifacts = app
       THEN Goto("installer", "retain") /\ UNCHANGED <<purpose, mutex, lock>>
       ELSE Leave("installer")
    /\ UNCHANGED <<disk, app, seen, counts>>

\* the checks of the staged files, and the journal
Begin ==
    /\ pc["installer"] = "begin"
    /\ IF staged[app].marker = app /\ staged[app].artifacts = app
       THEN /\ journal' = TRUE
            /\ Goto("installer", "retain")
            /\ UNCHANGED <<purpose, mutex, lock>>
       ELSE Leave("installer") /\ UNCHANGED journal
    /\ UNCHANGED <<installed, backup, staged, app, seen, counts>>

\* a failed check: recover() before the exception goes on
Undo ==
    /\ Goto("installer", "recover")
    /\ purpose' = [purpose EXCEPT !["installer"] = "undo"]
    /\ UNCHANGED <<mutex, lock>>

Proceed(label) == Goto("installer", label) /\ UNCHANGED <<purpose, mutex, lock>>

Retain ==
    /\ pc["installer"] = "retain"
    /\ \/ ~installed.exists /\ NoFault /\ Proceed("place") /\ UNCHANGED <<installed, backup>>
       \/ /\ installed.exists /\ NoFault
          /\ backup' = installed /\ installed' = NoDirectory
          /\ Proceed("place")
       \/ installed.exists /\ Fault /\ Undo /\ UNCHANGED <<installed, backup>>
    /\ UNCHANGED <<staged, journal, app, seen, crashes, downloads>>

Place ==
    /\ pc["installer"] = "place"
    /\ \/ /\ NoFault
          /\ installed' = staged[app]
          /\ staged' = [staged EXCEPT ![app] = NoDirectory]
          /\ deleted' = FALSE
          /\ Proceed("verify")
       \/ Fault /\ Undo /\ UNCHANGED <<installed, staged, deleted>>
    /\ UNCHANGED <<backup, journal, app, shown, loading, runtime, crashes, downloads>>

Verify ==
    /\ pc["installer"] = "verify"
    /\ isExactInstalled
    /\ IF Inspected = app THEN Proceed("commit") ELSE Undo
    /\ UNCHANGED <<backup, staged, journal, app, seen, counts>>

Commit ==
    /\ pc["installer"] = "commit"
    /\ \/ NoFault /\ journal' = FALSE /\ Proceed("drop")
       \/ Fault /\ Undo /\ UNCHANGED journal
    /\ UNCHANGED <<installed, backup, staged, app, seen, crashes, downloads>>

\* the result of this deletion is not looked at
DropBackup ==
    /\ pc["installer"] = "drop"
    /\ \/ NoFault /\ backup' = NoDirectory
       \/ Fault /\ backup.exists /\ backup' \in Eroded(backup)
    /\ Leave("installer")
    /\ UNCHANGED <<installed, staged, journal, app, seen, crashes, downloads>>

Installer ==
    \/ \E complete \in BOOLEAN : Download(complete)
    \/ validateStaged \/ EnterActivation \/ GiveUp \/ ReadBefore \/ activateStaged
    \/ Begin \/ Retain \/ Place \/ Verify \/ Commit \/ DropBackup

-----------------------------------------------------------------------------
(* The keeper: delete the model, or load its runtime and release it.       *)

\* Offered for a model the screen shows as installed; the store is not
\* recovered first and storageLock is not taken.
Delete ==
    /\ pc["keeper"] = "idle"
    /\ shown # NoVersion
    /\ mutex = "none"
    /\ runtime = NoVersion
    /\ mutex' = "keeper"
    /\ Goto("keeper", "delete")
    /\ UNCHANGED <<disk, app, purpose, lock, seen, counts>>

DeleteErode ==
    /\ pc["keeper"] = "delete"
    /\ installed.exists
    /\ installed' \in Eroded(installed)
    /\ UNCHANGED <<backup, staged, journal, app, control, seen, counts>>

DeleteDone ==
    /\ pc["keeper"] = "delete"
    /\ \/ NoFault /\ installed' = NoDirectory /\ deleted' = TRUE
       \/ Fault /\ installed.exists /\ UNCHANGED <<installed, deleted>>
    /\ Leave("keeper")
    /\ UNCHANGED <<backup, staged, journal, app, shown, loading, runtime,
                   crashes, downloads>>

\* acquireRuntime(): readiness() under runtimeMutex, then the load
Acquire ==
    /\ pc["keeper"] = "idle"
    /\ mutex = "none"
    /\ runtime = NoVersion
    /\ mutex' = "keeper"
    /\ Goto("keeper", "read")
    /\ UNCHANGED <<disk, app, purpose, lock, seen, counts>>

ReadForLoad ==
    /\ pc["keeper"] = "read"
    /\ TakeLock("keeper", "load")
    /\ UNCHANGED <<disk, app, seen, counts>>

Loaded ==
    /\ pc["keeper"] = "load"
    /\ loading # NoVersion
    /\ runtime' = loading
    /\ loading' = NoVersion
    /\ Leave("keeper")
    /\ UNCHANGED <<disk, app, shown, deleted, counts>>

LoadFailed ==
    /\ pc["keeper"] = "load"
    /\ IF loading # NoVersion
       THEN Goto("keeper", "invalidate") /\ UNCHANGED <<purpose, mutex, lock>>
       ELSE Leave("keeper")
    /\ UNCHANGED <<disk, app, seen, counts>>

\* the marker goes if it still names the version that did not load
invalidate ==
    /\ pc["keeper"] = "invalidate"
    /\ installed' = IF installed.marker = loading
                    THEN [installed EXCEPT !.marker = NoVersion] ELSE installed
    /\ loading' = NoVersion
    /\ Leave("keeper")
    /\ UNCHANGED <<backup, staged, journal, app, shown, runtime, deleted, counts>>

ReleaseRuntime ==
    /\ runtime # NoVersion
    /\ mutex = "none"
    /\ runtime' = NoVersion
    /\ UNCHANGED <<disk, app, control, shown, loading, deleted, counts>>

Keeper ==
    \/ Delete \/ DeleteErode \/ DeleteDone
    \/ Acquire \/ ReadForLoad \/ Loaded \/ LoadFailed \/ invalidate \/ ReleaseRuntime

-----------------------------------------------------------------------------
(* The process dies; the next one may be a later release of the app.       *)

Crash ==
    /\ crashes < MaxCrashes
    /\ crashes' = crashes + 1
    /\ app' \in {v \in Versions : v >= app}
    /\ pc' = [p \in Process |-> "idle"]
    /\ purpose' = [p \in Process |-> "none"]
    /\ mutex' = "none" /\ lock' = "none"
    /\ shown' = NoVersion /\ loading' = NoVersion /\ runtime' = NoVersion
    /\ UNCHANGED <<disk, deleted, faults, downloads>>

RecoverStep(p) ==
    \/ Recover(p) \/ RecoverErode(p) \/ RecoverClear(p) \/ RecoverRestore(p)
    \/ RecoverUnjournal(p) \/ RecoverDropStale(p) \/ Inspect(p)

Next ==
    \/ \E p \in Process : RecoverStep(p)
    \/ Readiness
    \/ Installer
    \/ Keeper
    \/ Crash

Spec == Init /\ [][Next]_vars

-----------------------------------------------------------------------------
(* Properties.                                                             *)

Label ==
    {"idle", "recover", "clear", "restore", "unjournal", "dropStale", "inspect",
     "validate", "wait", "was", "activate", "begin", "retain", "place", "verify",
     "commit", "drop", "delete", "read", "load", "invalidate"}

DiskTypeOK ==
    /\ installed \in Directory /\ backup \in Directory
    /\ staged \in [Versions -> Directory]
    /\ journal \in BOOLEAN

ControlTypeOK ==
    /\ pc \in [Process -> Label]
    /\ purpose \in [Process -> {"none", "show", "load", "before", "activate", "undo"}]
    /\ mutex \in Process \cup {"none"} /\ lock \in Process \cup {"none"}

CountTypeOK ==
    /\ crashes \in 0..MaxCrashes /\ faults \in 0..MaxFaults
    /\ downloads \in 0..MaxDownloads

TypeOK ==
    /\ DiskTypeOK /\ ControlTypeOK /\ CountTypeOK
    /\ app \in Versions
    /\ {shown, loading, runtime} \subseteq Versions \cup {NoVersion}
    /\ deleted \in BOOLEAN

\* What a reader of the store is going to get: the directory recover() leaves,
\* when its marker and its artifacts agree.
Surviving == IF journal /\ backup.exists THEN backup ELSE installed
Usable == IF Marked(Surviving) THEN Surviving.marker ELSE NoVersion

Removing == pc["keeper"] \in {"delete", "invalidate"}

Promise == INSTANCE InstalledModel WITH usable <- Usable, removing <- Removing

\* Wherever the process dies and whichever move fails, the store behaves like
\* the atomic one: an activation replaces the usable version at one instant,
\* never by an older one, and a version is lost only by a deletion or an
\* invalidation (recover, activateStaged, isExactInstalled).
ImplementsInstalledModel == Promise!Spec

\* A runtime that is loading or in use has the whole version under it that was
\* checked before the load, although screens recover and inspect the same
\* directory without runtimeMutex.
RuntimeFilesUntouched ==
    \A v \in {loading, runtime} \ {NoVersion} :
        /\ installed.exists
        /\ installed.artifacts = v

\* A deleted model stays deleted until the next activation places a version: no
\* backup of an earlier activation brings it back, although delete() does not
\* recover the store first.  Two failures break this: an activation whose move
\* failed and whose recovery failed too leaves the backup behind, and readiness
\* restores it after the deletion.
DeletedStaysDeleted == (deleted /\ faults < 2) => Usable = NoVersion
=============================================================================
