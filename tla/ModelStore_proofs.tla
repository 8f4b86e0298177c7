-------------------------- MODULE ModelStore_proofs -------------------------
(***************************************************************************)
(* Proofs about ModelStore for any versions and any number of crashes,     *)
(* failing file operations and downloads: what is loaded stays on disk, a  *)
(* deleted model stays deleted, and the store implements the atomic one.   *)
(***************************************************************************)
EXTENDS ModelStore, TLAPS

-----------------------------------------------------------------------------
(* The strengthening.                                                      *)

RecoverLabels == {"recover", "clear", "restore", "unjournal", "dropStale", "inspect"}
ActivateLabels == {"begin", "retain", "place", "verify", "commit", "drop"}

(* Who is where, and with which lock.  Everything recover() and the body   *)
(* of activateStaged() do happens under storageLock; an activation, a      *)
(* deletion and a load hold runtimeMutex throughout.                       *)
LocksHeld ==
    /\ \A p \in Process : pc[p] \in RecoverLabels \cup ActivateLabels => lock = p
    /\ pc["installer"] \in {"idle", "validate", "wait", "was", "activate"}
                              \cup RecoverLabels \cup ActivateLabels
    /\ pc["keeper"] \in {"idle", "delete", "read", "load", "invalidate"} \cup RecoverLabels
    /\ pc["screen"] \in {"idle"} \cup RecoverLabels
    /\ pc["installer"] \in {"was", "activate"} \cup RecoverLabels \cup ActivateLabels
           => mutex = "installer"
    /\ pc["keeper"] # "idle" => mutex = "keeper"
    /\ pc["installer"] \in RecoverLabels
           => purpose["installer"] \in {"before", "activate", "undo"}
    /\ pc["installer"] = "inspect" => purpose["installer"] = "before"
    /\ pc["keeper"] \in RecoverLabels => purpose["keeper"] = "load"
    /\ pc["screen"] \in RecoverLabels => purpose["screen"] = "show"

(* A marker or a whole set of artifacts is inside a directory that exists; *)
(* no marker names a version later than the application's.                 *)
Sound(d) == d.marker # NoVersion \/ d.artifacts # NoVersion => d.exists

DirectoriesSound ==
    /\ Sound(installed) /\ Sound(backup)
    /\ \A v \in Versions : Sound(staged[v])
    /\ installed.marker <= app /\ backup.marker <= app

(* What recover() and activateStaged() have established where they are.    *)
Placed(d) == d.marker = app /\ d.artifacts = app

StagesReached ==
    /\ \A p \in Process :
          /\ pc[p] \in {"clear", "restore"} => journal /\ backup.exists
          /\ pc[p] = "unjournal" => journal /\ ~backup.exists
          /\ pc[p] \in {"dropStale", "inspect"} => ~journal
    /\ pc["installer"] = "begin" => ~journal /\ ~backup.exists
    /\ pc["installer"] = "retain" => journal /\ ~backup.exists /\ Placed(staged[app])
    /\ pc["installer"] = "place" => journal /\ ~installed.exists /\ Placed(staged[app])
    /\ pc["installer"] \in {"verify", "commit"} => journal /\ Placed(installed)
    /\ pc["installer"] = "drop" => ~journal

(* While a runtime is loading or loaded no activation is unfinished, so    *)
(* that there is nothing for a screen to recover.                          *)
UseIsQuiet ==
    /\ loading # NoVersion => pc["keeper"] \in {"load", "invalidate"}
    /\ runtime # NoVersion => mutex = "none"
    /\ loading # NoVersion \/ runtime # NoVersion => ~journal
    /\ RuntimeFilesUntouched

(* An unfinished activation with a version to restore is one under way, or *)
(* one being undone after a fault, as long as somebody knows of an         *)
(* installed version or is deleting it; it takes a second fault to give up.*)
Unfinished == journal /\ backup.exists

UnfinishedKnown ==
    Unfinished /\ faults < 2 /\ (shown # NoVersion \/ pc["keeper"] = "delete") =>
        \/ pc["installer"] \in {"place", "verify", "commit"}
        \/ /\ pc["installer"] \in {"recover", "clear", "restore"}
           /\ purpose["installer"] = "undo" /\ faults >= 1

NothingToRestore == deleted /\ faults < 2 => ~installed.exists /\ ~Unfinished

IInv ==
    /\ TypeOK /\ LocksHeld /\ DirectoriesSound /\ StagesReached
    /\ UseIsQuiet /\ UnfinishedKnown /\ NothingToRestore

-----------------------------------------------------------------------------
(* What an interrupted deletion leaves is a directory without a version.   *)
LEMMA ErodedFacts ==
    ASSUME NEW d \in Directory, NEW e \in Eroded(d)
    PROVE  /\ e \in Directory /\ e.exists = d.exists
           /\ e.artifacts = NoVersion
           /\ e.marker = d.marker \/ e.marker = NoVersion
  BY DEF Eroded, Directory

(* A directory that is not there holds nothing. *)
LEMMA NoDirectoryFacts ==
    /\ NoDirectory \in Directory /\ ~NoDirectory.exists
    /\ NoDirectory.artifacts = NoVersion /\ NoDirectory.marker = NoVersion
  BY DEF NoDirectory, Directory

(* What an inspection does for the three who ask for one. *)
LEMMA InspectFacts ==
    ASSUME TypeOK, LocksHeld, NEW p \in Process, Inspect(p)
    PROVE  /\ isExactInstalled /\ pc[p] = "inspect"
           /\ UNCHANGED <<backup, staged, journal, app, runtime, deleted, counts>>
           /\ lock' = IF lock = p THEN "none" ELSE lock
           /\ purpose' = [purpose EXCEPT ![p] = "none"]
           /\ \/ /\ p = "screen" /\ pc' = [pc EXCEPT ![p] = "idle"]
                 /\ mutex' = IF mutex = p THEN "none" ELSE mutex
                 /\ shown' = Inspected /\ loading' = loading
              \/ /\ p = "keeper" /\ pc' = [pc EXCEPT ![p] = "load"]
                 /\ mutex' = mutex /\ loading' = Inspected /\ shown' = shown
              \/ /\ p = "installer" /\ pc' = [pc EXCEPT ![p] = "activate"]
                 /\ mutex' = mutex /\ shown' = shown /\ loading' = loading
<1>1. lock = p
  BY DEF Inspect, LocksHeld, RecoverLabels
<1>2. CASE p = "screen"
  BY <1>1, <1>2 DEF Inspect, LocksHeld, RecoverLabels, Leave, Goto
<1>3. CASE p = "keeper"
  BY <1>1, <1>3 DEF Inspect, LocksHeld, RecoverLabels, Goto
<1>4. CASE p = "installer"
  BY <1>1, <1>4 DEF Inspect, LocksHeld, RecoverLabels, Goto
<1> QED
  BY <1>2, <1>3, <1>4 DEF Process

(* Every step keeps the types. *)
LEMMA TypeStep ==
    ASSUME TypeOK, LocksHeld, [Next]_vars
    PROVE  TypeOK'
<1>1. ASSUME NEW p \in Process, Recover(p)
      PROVE  TypeOK'
  BY <1>1, StoreAssumption DEF Recover, Goto, Recovered, disk, counts, seen, Leave,
     TypeOK, DiskTypeOK, ControlTypeOK, CountTypeOK, Label, Process, Directory,
     NoVersion, LocksHeld, RecoverLabels, ActivateLabels
<1>2. ASSUME NEW p \in Process, RecoverErode(p)
      PROVE  TypeOK'
  <2>1. ControlTypeOK'
    BY <1>2 DEF RecoverErode, control, counts, seen, TypeOK, ControlTypeOK, Label,
       Process
  <2>2. CountTypeOK'
    BY <1>2, StoreAssumption DEF RecoverErode, counts, TypeOK, CountTypeOK
  <2>3. DiskTypeOK'
    BY <1>2, StoreAssumption, ErodedFacts DEF RecoverErode, TypeOK, DiskTypeOK,
       Directory, NoVersion
  <2> QED
    BY <1>2, <2>1, <2>2, <2>3, StoreAssumption DEF RecoverErode, seen, TypeOK,
       DiskTypeOK, Directory, NoVersion
<1>3. ASSUME NEW p \in Process, RecoverClear(p)
      PROVE  TypeOK'
  <2>1. ControlTypeOK'
    BY <1>3 DEF RecoverClear, Goto, Leave, seen, TypeOK, ControlTypeOK, Label, Process
  <2>2. CountTypeOK'
    BY <1>3, StoreAssumption DEF RecoverClear, Fault, NoFault, TypeOK, CountTypeOK
  <2>3. DiskTypeOK'
    BY <1>3, StoreAssumption, NoDirectoryFacts DEF RecoverClear, Fault, NoFault, TypeOK,
       DiskTypeOK, Directory, NoVersion
  <2> QED
    BY <1>3, <2>1, <2>2, <2>3, StoreAssumption DEF RecoverClear, seen, TypeOK,
       DiskTypeOK, Directory, NoVersion
<1>4. ASSUME NEW p \in Process, RecoverRestore(p)
      PROVE  TypeOK'
  <2>1. ControlTypeOK'
    BY <1>4 DEF RecoverRestore, Goto, Leave, seen, TypeOK, ControlTypeOK, Label, Process
  <2>2. CountTypeOK'
    BY <1>4, StoreAssumption DEF RecoverRestore, Fault, NoFault, TypeOK, CountTypeOK
  <2>3. DiskTypeOK'
    BY <1>4, StoreAssumption, NoDirectoryFacts DEF RecoverRestore, Fault, NoFault,
       TypeOK, DiskTypeOK, Directory, NoVersion
  <2> QED
    BY <1>4, <2>1, <2>2, <2>3, StoreAssumption DEF RecoverRestore, seen, TypeOK,
       DiskTypeOK, Directory, NoVersion
<1>5. ASSUME NEW p \in Process, RecoverUnjournal(p)
      PROVE  TypeOK'
  <2>1. ControlTypeOK'
    BY <1>5 DEF RecoverUnjournal, Leave, Recovered, seen, Goto, TypeOK, ControlTypeOK,
       Label, Process
  <2>2. CountTypeOK'
    BY <1>5, StoreAssumption DEF RecoverUnjournal, Fault, NoFault, TypeOK, CountTypeOK
  <2>3. DiskTypeOK'
    BY <1>5, StoreAssumption DEF RecoverUnjournal, Fault, NoFault, TypeOK, DiskTypeOK,
       Directory, NoVersion
  <2> QED
    BY <1>5, <2>1, <2>2, <2>3, StoreAssumption DEF RecoverUnjournal, seen, TypeOK,
       DiskTypeOK, Directory, NoVersion
<1>6. ASSUME NEW p \in Process, RecoverDropStale(p)
      PROVE  TypeOK'
  <2>1. ControlTypeOK'
    BY <1>6 DEF RecoverDropStale, Leave, Recovered, seen, Goto, TypeOK, ControlTypeOK,
       Label, Process
  <2>2. CountTypeOK'
    BY <1>6, StoreAssumption DEF RecoverDropStale, Fault, NoFault, TypeOK, CountTypeOK
  <2>3. DiskTypeOK'
    BY <1>6, StoreAssumption, ErodedFacts, NoDirectoryFacts DEF RecoverDropStale, Fault,
       NoFault, TypeOK, DiskTypeOK, Directory, NoVersion
  <2> QED
    BY <1>6, <2>1, <2>2, <2>3, StoreAssumption DEF RecoverDropStale, seen, TypeOK,
       DiskTypeOK, Directory, NoVersion
<1>7. ASSUME NEW p \in Process, Inspect(p)
      PROVE  TypeOK'
  <2>1. Inspected \in Versions \cup {NoVersion} /\ installed' \in Directory
    BY <1>7, InspectFacts DEF isExactInstalled, Inspected, Marked, TypeOK, DiskTypeOK,
       Directory, NoVersion
  <2>2. ControlTypeOK'
    BY <1>7, InspectFacts DEF TypeOK, ControlTypeOK, Label, Process
  <2> QED
    BY <1>7, <2>1, <2>2, InspectFacts DEF counts, TypeOK, DiskTypeOK, CountTypeOK
<1>8. CASE Readiness
  BY <1>8, StoreAssumption DEF Readiness, TakeLock, disk, counts, seen, Goto, TypeOK,
     DiskTypeOK, ControlTypeOK, CountTypeOK, Label, Process, Directory, NoVersion,
     LocksHeld, RecoverLabels, ActivateLabels
<1>9. ASSUME NEW complete \in BOOLEAN, Download(complete)
      PROVE  TypeOK'
  <2>1. ControlTypeOK'
    BY <1>9 DEF Download, Goto, seen, TypeOK, ControlTypeOK, Label, Process
  <2>2. CountTypeOK'
    BY <1>9, StoreAssumption DEF Download, TypeOK, CountTypeOK
  <2>3. DiskTypeOK'
    BY <1>9, StoreAssumption DEF Download, TypeOK, DiskTypeOK, Directory, NoVersion
  <2> QED
    BY <1>9, <2>1, <2>2, <2>3, StoreAssumption DEF Download, seen, TypeOK, DiskTypeOK,
       Directory, NoVersion
<1>10. CASE validateStaged
  BY <1>10, StoreAssumption DEF validateStaged, Goto, counts, seen, TypeOK, DiskTypeOK,
     ControlTypeOK, CountTypeOK, Label, Process, Directory, NoVersion, LocksHeld,
     RecoverLabels, ActivateLabels
<1>11. CASE EnterActivation
  BY <1>11, StoreAssumption DEF EnterActivation, Goto, disk, counts, seen, TypeOK,
     DiskTypeOK, ControlTypeOK, CountTypeOK, Label, Process, Directory, NoVersion,
     LocksHeld, RecoverLabels, ActivateLabels
<1>12. CASE GiveUp
  BY <1>12, StoreAssumption DEF GiveUp, Goto, disk, counts, seen, TypeOK, DiskTypeOK,
     ControlTypeOK, CountTypeOK, Label, Process, Directory, NoVersion, LocksHeld,
     RecoverLabels, ActivateLabels
<1>13. CASE ReadBefore
  BY <1>13, StoreAssumption DEF ReadBefore, TakeLock, disk, counts, seen, Goto, TypeOK,
     DiskTypeOK, ControlTypeOK, CountTypeOK, Label, Process, Directory, NoVersion,
     LocksHeld, RecoverLabels, ActivateLabels
<1>14. CASE activateStaged
  BY <1>14, StoreAssumption DEF activateStaged, TakeLock, disk, counts, seen, Goto,
     TypeOK, DiskTypeOK, ControlTypeOK, CountTypeOK, Label, Process, Directory,
     NoVersion, LocksHeld, RecoverLabels, ActivateLabels
<1>15. CASE Begin
  <2>1. ControlTypeOK'
    BY <1>15 DEF Begin, Goto, Leave, counts, seen, TypeOK, ControlTypeOK, Label, Process
  <2>2. CountTypeOK'
    BY <1>15, StoreAssumption DEF Begin, counts, TypeOK, CountTypeOK
  <2>3. DiskTypeOK'
    BY <1>15, StoreAssumption DEF Begin, TypeOK, DiskTypeOK, Directory, NoVersion
  <2> QED
    BY <1>15, <2>1, <2>2, <2>3, StoreAssumption DEF Begin, seen, TypeOK, DiskTypeOK,
       Directory, NoVersion
<1>16. CASE Retain
  <2>1. ControlTypeOK'
    BY <1>16 DEF Retain, Undo, Proceed, seen, Goto, TypeOK, ControlTypeOK, Label,
       Process
  <2>2. CountTypeOK'
    BY <1>16, StoreAssumption DEF Retain, Fault, NoFault, TypeOK, CountTypeOK
  <2>3. DiskTypeOK'
    BY <1>16, StoreAssumption, NoDirectoryFacts DEF Retain, Fault, NoFault, TypeOK,
       DiskTypeOK, Directory, NoVersion
  <2> QED
    BY <1>16, <2>1, <2>2, <2>3, StoreAssumption DEF Retain, seen, TypeOK, DiskTypeOK,
       Directory, NoVersion
<1>17. CASE Place
  <2>1. ControlTypeOK'
    BY <1>17 DEF Place, Undo, Proceed, Goto, TypeOK, ControlTypeOK, Label, Process
  <2>2. CountTypeOK'
    BY <1>17, StoreAssumption DEF Place, Fault, NoFault, TypeOK, CountTypeOK
  <2>3. DiskTypeOK'
    BY <1>17, StoreAssumption, NoDirectoryFacts DEF Place, Fault, NoFault, TypeOK,
       DiskTypeOK, Directory, NoVersion
  <2> QED
    BY <1>17, <2>1, <2>2, <2>3, StoreAssumption DEF Place, TypeOK, DiskTypeOK,
       Directory, NoVersion
<1>18. CASE Verify
  BY <1>18, StoreAssumption DEF Verify, Inspected, isExactInstalled, Undo, Proceed,
     counts, seen, Marked, Goto, TypeOK, DiskTypeOK, ControlTypeOK, CountTypeOK, Label,
     Process, Directory, NoVersion, LocksHeld, RecoverLabels, ActivateLabels
<1>19. CASE Commit
  <2>1. ControlTypeOK'
    BY <1>19 DEF Commit, Undo, Proceed, seen, Goto, TypeOK, ControlTypeOK, Label,
       Process
  <2>2. CountTypeOK'
    BY <1>19, StoreAssumption DEF Commit, Fault, NoFault, TypeOK, CountTypeOK
  <2>3. DiskTypeOK'
    BY <1>19, StoreAssumption DEF Commit, Fault, NoFault, TypeOK, DiskTypeOK, Directory,
       NoVersion
  <2> QED
    BY <1>19, <2>1, <2>2, <2>3, StoreAssumption DEF Commit, seen, TypeOK, DiskTypeOK,
       Directory, NoVersion
<1>20. CASE DropBackup
  <2>1. ControlTypeOK'
    BY <1>20 DEF DropBackup, Leave, seen, Goto, TypeOK, ControlTypeOK, Label, Process
  <2>2. CountTypeOK'
    BY <1>20, StoreAssumption DEF DropBackup, Fault, NoFault, TypeOK, CountTypeOK
  <2>3. DiskTypeOK'
    BY <1>20, StoreAssumption, ErodedFacts, NoDirectoryFacts DEF DropBackup, Fault,
       NoFault, TypeOK, DiskTypeOK, Directory, NoVersion
  <2> QED
    BY <1>20, <2>1, <2>2, <2>3, StoreAssumption DEF DropBackup, seen, TypeOK,
       DiskTypeOK, Directory, NoVersion
<1>21. CASE Delete
  BY <1>21, StoreAssumption DEF Delete, Goto, disk, counts, seen, TypeOK, DiskTypeOK,
     ControlTypeOK, CountTypeOK, Label, Process, Directory, NoVersion, LocksHeld,
     RecoverLabels, ActivateLabels
<1>22. CASE DeleteErode
  <2>1. ControlTypeOK'
    BY <1>22 DEF DeleteErode, control, counts, seen, TypeOK, ControlTypeOK, Label,
       Process
  <2>2. CountTypeOK'
    BY <1>22, StoreAssumption DEF DeleteErode, counts, TypeOK, CountTypeOK
  <2>3. DiskTypeOK'
    BY <1>22, StoreAssumption, ErodedFacts DEF DeleteErode, TypeOK, DiskTypeOK,
       Directory, NoVersion
  <2> QED
    BY <1>22, <2>1, <2>2, <2>3, StoreAssumption DEF DeleteErode, seen, TypeOK,
       DiskTypeOK, Directory, NoVersion
<1>23. CASE DeleteDone
  <2>1. ControlTypeOK'
    BY <1>23 DEF DeleteDone, Leave, Goto, TypeOK, ControlTypeOK, Label, Process
  <2>2. CountTypeOK'
    BY <1>23, StoreAssumption DEF DeleteDone, Fault, NoFault, TypeOK, CountTypeOK
  <2>3. DiskTypeOK'
    BY <1>23, StoreAssumption, NoDirectoryFacts DEF DeleteDone, Fault, NoFault, TypeOK,
       DiskTypeOK, Directory, NoVersion
  <2> QED
    BY <1>23, <2>1, <2>2, <2>3, StoreAssumption DEF DeleteDone, TypeOK, DiskTypeOK,
       Directory, NoVersion
<1>24. CASE Acquire
  BY <1>24, StoreAssumption DEF Acquire, Goto, disk, counts, seen, TypeOK, DiskTypeOK,
     ControlTypeOK, CountTypeOK, Label, Process, Directory, NoVersion, LocksHeld,
     RecoverLabels, ActivateLabels
<1>25. CASE ReadForLoad
  BY <1>25, StoreAssumption DEF ReadForLoad, TakeLock, disk, counts, seen, Goto, TypeOK,
     DiskTypeOK, ControlTypeOK, CountTypeOK, Label, Process, Directory, NoVersion,
     LocksHeld, RecoverLabels, ActivateLabels
<1>26. CASE Loaded
  BY <1>26, StoreAssumption DEF Loaded, Leave, disk, counts, Goto, TypeOK, DiskTypeOK,
     ControlTypeOK, CountTypeOK, Label, Process, Directory, NoVersion, LocksHeld,
     RecoverLabels, ActivateLabels
<1>27. CASE LoadFailed
  BY <1>27, StoreAssumption DEF LoadFailed, Goto, Leave, disk, counts, seen, TypeOK,
     DiskTypeOK, ControlTypeOK, CountTypeOK, Label, Process, Directory, NoVersion,
     LocksHeld, RecoverLabels, ActivateLabels
<1>28. CASE invalidate
  BY <1>28, StoreAssumption DEF invalidate, Leave, counts, Goto, TypeOK, DiskTypeOK,
     ControlTypeOK, CountTypeOK, Label, Process, Directory, NoVersion, LocksHeld,
     RecoverLabels, ActivateLabels
<1>29. CASE ReleaseRuntime
  BY <1>29, StoreAssumption DEF ReleaseRuntime, disk, control, counts, TypeOK,
     DiskTypeOK, ControlTypeOK, CountTypeOK, Label, Process, Directory, NoVersion,
     LocksHeld, RecoverLabels, ActivateLabels
<1>30. CASE Crash
  BY <1>30, StoreAssumption DEF Crash, disk, TypeOK, DiskTypeOK, ControlTypeOK,
     CountTypeOK, Label, Process, Directory, NoVersion, LocksHeld, RecoverLabels,
     ActivateLabels
<1>31. CASE UNCHANGED vars
  BY <1>31 DEF vars, TypeOK, DiskTypeOK, ControlTypeOK, CountTypeOK, Label, Process,
     Directory, NoVersion, LocksHeld, RecoverLabels, ActivateLabels
<1> QED
  BY <1>1, <1>2, <1>3, <1>4, <1>5, <1>6, <1>7, <1>8, <1>9, <1>10, <1>11, <1>12, <1>13,
     <1>14, <1>15, <1>16, <1>17, <1>18, <1>19, <1>20, <1>21, <1>22, <1>23, <1>24, <1>25,
     <1>26, <1>27, <1>28, <1>29, <1>30, <1>31 DEF Next, RecoverStep, Installer, Keeper

(* Every step keeps the locks with those who need them. *)
LEMMA LocksStep ==
    ASSUME TypeOK, LocksHeld, [Next]_vars
    PROVE  LocksHeld'
<1>1. ASSUME NEW p \in Process, Recover(p)
      PROVE  LocksHeld'
  BY <1>1 DEF Recover, Goto, Recovered, disk, counts, seen, Leave, TypeOK,
     ControlTypeOK, Process, LocksHeld, RecoverLabels, ActivateLabels
<1>2. ASSUME NEW p \in Process, RecoverErode(p)
      PROVE  LocksHeld'
  BY <1>2, ErodedFacts DEF RecoverErode, control, counts, seen, TypeOK, ControlTypeOK,
     Process, LocksHeld, RecoverLabels, ActivateLabels
<1>3. ASSUME NEW p \in Process, RecoverClear(p)
      PROVE  LocksHeld'
  BY <1>3, NoDirectoryFacts DEF RecoverClear, Goto, Leave, Fault, NoFault, seen, TypeOK,
     ControlTypeOK, Process, LocksHeld, RecoverLabels, ActivateLabels
<1>4. ASSUME NEW p \in Process, RecoverRestore(p)
      PROVE  LocksHeld'
  BY <1>4, NoDirectoryFacts DEF RecoverRestore, Goto, Leave, Fault, NoFault, seen,
     TypeOK, ControlTypeOK, Process, LocksHeld, RecoverLabels, ActivateLabels
<1>5. ASSUME NEW p \in Process, RecoverUnjournal(p)
      PROVE  LocksHeld'
  BY <1>5 DEF RecoverUnjournal, Leave, Recovered, Fault, NoFault, seen, Goto, TypeOK,
     ControlTypeOK, Process, LocksHeld, RecoverLabels, ActivateLabels
<1>6. ASSUME NEW p \in Process, RecoverDropStale(p)
      PROVE  LocksHeld'
  BY <1>6, ErodedFacts, NoDirectoryFacts DEF RecoverDropStale, Leave, Recovered, Fault,
     NoFault, seen, Goto, TypeOK, ControlTypeOK, Process, LocksHeld, RecoverLabels,
     ActivateLabels
<1>7. ASSUME NEW p \in Process, Inspect(p)
      PROVE  LocksHeld'
  BY <1>7, InspectFacts DEF isExactInstalled, Inspected, Marked, counts, TypeOK,
     ControlTypeOK, Process, LocksHeld, RecoverLabels, ActivateLabels
<1>8. CASE Readiness
  BY <1>8 DEF Readiness, TakeLock, disk, counts, seen, Goto, TypeOK, ControlTypeOK,
     Process, LocksHeld, RecoverLabels, ActivateLabels
<1>9. ASSUME NEW complete \in BOOLEAN, Download(complete)
      PROVE  LocksHeld'
  BY <1>9 DEF Download, Goto, seen, TypeOK, ControlTypeOK, Process, LocksHeld,
     RecoverLabels, ActivateLabels
<1>10. CASE validateStaged
  BY <1>10 DEF validateStaged, Goto, counts, seen, TypeOK, ControlTypeOK, Process,
     LocksHeld, RecoverLabels, ActivateLabels
<1>11. CASE EnterActivation
  BY <1>11 DEF EnterActivation, Goto, disk, counts, seen, TypeOK, ControlTypeOK,
     Process, LocksHeld, RecoverLabels, ActivateLabels
<1>12. CASE GiveUp
  BY <1>12 DEF GiveUp, Goto, disk, counts, seen, TypeOK, ControlTypeOK, Process,
     LocksHeld, RecoverLabels, ActivateLabels
<1>13. CASE ReadBefore
  BY <1>13 DEF ReadBefore, TakeLock, disk, counts, seen, Goto, TypeOK, ControlTypeOK,
     Process, LocksHeld, RecoverLabels, ActivateLabels
<1>14. CASE activateStaged
  BY <1>14 DEF activateStaged, TakeLock, disk, counts, seen, Goto, TypeOK,
     ControlTypeOK, Process, LocksHeld, RecoverLabels, ActivateLabels
<1>15. CASE Begin
  BY <1>15 DEF Begin, Goto, Leave, counts, seen, TypeOK, ControlTypeOK, Process,
     LocksHeld, RecoverLabels, ActivateLabels
<1>16. CASE Retain
  BY <1>16, NoDirectoryFacts DEF Retain, Undo, Proceed, Fault, NoFault, seen, Goto,
     TypeOK, ControlTypeOK, Process, LocksHeld, RecoverLabels, ActivateLabels
<1>17. CASE Place
  BY <1>17, NoDirectoryFacts DEF Place, Undo, Proceed, Fault, NoFault, Goto, TypeOK,
     ControlTypeOK, Process, LocksHeld, RecoverLabels, ActivateLabels
<1>18. CASE Verify
  BY <1>18 DEF Verify, Inspected, isExactInstalled, Undo, Proceed, counts, seen, Marked,
     Goto, TypeOK, ControlTypeOK, Process, LocksHeld, RecoverLabels, ActivateLabels
<1>19. CASE Commit
  BY <1>19 DEF Commit, Undo, Proceed, Fault, NoFault, seen, Goto, TypeOK, ControlTypeOK,
     Process, LocksHeld, RecoverLabels, ActivateLabels
<1>20. CASE DropBackup
  BY <1>20, ErodedFacts, NoDirectoryFacts DEF DropBackup, Leave, Fault, NoFault, seen,
     Goto, TypeOK, ControlTypeOK, Process, LocksHeld, RecoverLabels, ActivateLabels
<1>21. CASE Delete
  BY <1>21 DEF Delete, Goto, disk, counts, seen, TypeOK, ControlTypeOK, Process,
     LocksHeld, RecoverLabels, ActivateLabels
<1>22. CASE DeleteErode
  BY <1>22, ErodedFacts DEF DeleteErode, control, counts, seen, TypeOK, ControlTypeOK,
     Process, LocksHeld, RecoverLabels, ActivateLabels
<1>23. CASE DeleteDone
  BY <1>23, NoDirectoryFacts DEF DeleteDone, Leave, Fault, NoFault, Goto, TypeOK,
     ControlTypeOK, Process, LocksHeld, RecoverLabels, ActivateLabels
<1>24. CASE Acquire
  BY <1>24 DEF Acquire, Goto, disk, counts, seen, TypeOK, ControlTypeOK, Process,
     LocksHeld, RecoverLabels, ActivateLabels
<1>25. CASE ReadForLoad
  BY <1>25 DEF ReadForLoad, TakeLock, disk, counts, seen, Goto, TypeOK, ControlTypeOK,
     Process, LocksHeld, RecoverLabels, ActivateLabels
<1>26. CASE Loaded
  BY <1>26 DEF Loaded, Leave, disk, counts, Goto, TypeOK, ControlTypeOK, Process,
     LocksHeld, RecoverLabels, ActivateLabels
<1>27. CASE LoadFailed
  BY <1>27 DEF LoadFailed, Goto, Leave, disk, counts, seen, TypeOK, ControlTypeOK,
     Process, LocksHeld, RecoverLabels, ActivateLabels
<1>28. CASE invalidate
  BY <1>28 DEF invalidate, Leave, counts, Goto, TypeOK, ControlTypeOK, Process,
     LocksHeld, RecoverLabels, ActivateLabels
<1>29. CASE ReleaseRuntime
  BY <1>29 DEF ReleaseRuntime, disk, control, counts, TypeOK, ControlTypeOK, Process,
     LocksHeld, RecoverLabels, ActivateLabels
<1>30. CASE Crash
  BY <1>30 DEF Crash, disk, TypeOK, ControlTypeOK, Process, LocksHeld, RecoverLabels,
     ActivateLabels
<1>31. CASE UNCHANGED vars
  BY <1>31 DEF vars, TypeOK, ControlTypeOK, Process, LocksHeld, RecoverLabels,
     ActivateLabels
<1> QED
  BY <1>1, <1>2, <1>3, <1>4, <1>5, <1>6, <1>7, <1>8, <1>9, <1>10, <1>11, <1>12, <1>13,
     <1>14, <1>15, <1>16, <1>17, <1>18, <1>19, <1>20, <1>21, <1>22, <1>23, <1>24, <1>25,
     <1>26, <1>27, <1>28, <1>29, <1>30, <1>31 DEF Next, RecoverStep, Installer, Keeper

(* Every step keeps the directories sound. *)
LEMMA DirectoriesStep ==
    ASSUME TypeOK, LocksHeld, StagesReached, DirectoriesSound, [Next]_vars
    PROVE  DirectoriesSound'
<1>1. ASSUME NEW p \in Process, Recover(p)
      PROVE  DirectoriesSound'
  BY <1>1, StoreAssumption DEF Recover, Goto, Recovered, disk, counts, seen, Leave,
     TypeOK, DiskTypeOK, ControlTypeOK, CountTypeOK, Label, Process, Directory,
     NoVersion, LocksHeld, StagesReached, DirectoriesSound, Sound, Placed,
     RecoverLabels, ActivateLabels
<1>2. ASSUME NEW p \in Process, RecoverErode(p)
      PROVE  DirectoriesSound'
  BY <1>2, StoreAssumption, ErodedFacts DEF RecoverErode, control, counts, seen, TypeOK,
     DiskTypeOK, ControlTypeOK, CountTypeOK, Label, Process, Directory, NoVersion,
     LocksHeld, StagesReached, DirectoriesSound, Sound, Placed, RecoverLabels,
     ActivateLabels
<1>3. ASSUME NEW p \in Process, RecoverClear(p)
      PROVE  DirectoriesSound'
  BY <1>3, StoreAssumption, NoDirectoryFacts DEF RecoverClear, Goto, Leave, Fault,
     NoFault, seen, TypeOK, DiskTypeOK, ControlTypeOK, CountTypeOK, Label, Process,
     Directory, NoVersion, LocksHeld, StagesReached, DirectoriesSound, Sound, Placed,
     RecoverLabels, ActivateLabels
<1>4. ASSUME NEW p \in Process, RecoverRestore(p)
      PROVE  DirectoriesSound'
  BY <1>4, StoreAssumption, NoDirectoryFacts DEF RecoverRestore, Goto, Leave, Fault,
     NoFault, seen, TypeOK, DiskTypeOK, ControlTypeOK, CountTypeOK, Label, Process,
     Directory, NoVersion, LocksHeld, StagesReached, DirectoriesSound, Sound, Placed,
     RecoverLabels, ActivateLabels
<1>5. ASSUME NEW p \in Process, RecoverUnjournal(p)
      PROVE  DirectoriesSound'
  BY <1>5, StoreAssumption DEF RecoverUnjournal, Leave, Recovered, Fault, NoFault, seen,
     Goto, TypeOK, DiskTypeOK, ControlTypeOK, CountTypeOK, Label, Process, Directory,
     NoVersion, LocksHeld, StagesReached, DirectoriesSound, Sound, Placed,
     RecoverLabels, ActivateLabels
<1>6. ASSUME NEW p \in Process, RecoverDropStale(p)
      PROVE  DirectoriesSound'
  BY <1>6, StoreAssumption, ErodedFacts, NoDirectoryFacts DEF RecoverDropStale, Leave,
     Recovered, Fault, NoFault, seen, Goto, TypeOK, DiskTypeOK, ControlTypeOK,
     CountTypeOK, Label, Process, Directory, NoVersion, LocksHeld, StagesReached,
     DirectoriesSound, Sound, Placed, RecoverLabels, ActivateLabels
<1>7. ASSUME NEW p \in Process, Inspect(p)
      PROVE  DirectoriesSound'
  BY <1>7, StoreAssumption, InspectFacts DEF isExactInstalled, Inspected, Marked,
     counts, TypeOK, DiskTypeOK, ControlTypeOK, CountTypeOK, Label, Process, Directory,
     NoVersion, LocksHeld, StagesReached, DirectoriesSound, Sound, Placed,
     RecoverLabels, ActivateLabels
<1>8. CASE Readiness
  BY <1>8, StoreAssumption DEF Readiness, TakeLock, disk, counts, seen, Goto, TypeOK,
     DiskTypeOK, ControlTypeOK, CountTypeOK, Label, Process, Directory, NoVersion,
     LocksHeld, StagesReached, DirectoriesSound, Sound, Placed, RecoverLabels,
     ActivateLabels
<1>9. ASSUME NEW complete \in BOOLEAN, Download(complete)
      PROVE  DirectoriesSound'
  BY <1>9, StoreAssumption DEF Download, Goto, seen, TypeOK, DiskTypeOK, ControlTypeOK,
     CountTypeOK, Label, Process, Directory, NoVersion, LocksHeld, StagesReached,
     DirectoriesSound, Sound, Placed, RecoverLabels, ActivateLabels
<1>10. CASE validateStaged
  BY <1>10, StoreAssumption DEF validateStaged, Goto, counts, seen, TypeOK, DiskTypeOK,
     ControlTypeOK, CountTypeOK, Label, Process, Directory, NoVersion, LocksHeld,
     StagesReached, DirectoriesSound, Sound, Placed, RecoverLabels, ActivateLabels
<1>11. CASE EnterActivation
  BY <1>11, StoreAssumption DEF EnterActivation, Goto, disk, counts, seen, TypeOK,
     DiskTypeOK, ControlTypeOK, CountTypeOK, Label, Process, Directory, NoVersion,
     LocksHeld, StagesReached, DirectoriesSound, Sound, Placed, RecoverLabels,
     ActivateLabels
<1>12. CASE GiveUp
  BY <1>12, StoreAssumption DEF GiveUp, Goto, disk, counts, seen, TypeOK, DiskTypeOK,
     ControlTypeOK, CountTypeOK, Label, Process, Directory, NoVersion, LocksHeld,
     StagesReached, DirectoriesSound, Sound, Placed, RecoverLabels, ActivateLabels
<1>13. CASE ReadBefore
  BY <1>13, StoreAssumption DEF ReadBefore, TakeLock, disk, counts, seen, Goto, TypeOK,
     DiskTypeOK, ControlTypeOK, CountTypeOK, Label, Process, Directory, NoVersion,
     LocksHeld, StagesReached, DirectoriesSound, Sound, Placed, RecoverLabels,
     ActivateLabels
<1>14. CASE activateStaged
  BY <1>14, StoreAssumption DEF activateStaged, TakeLock, disk, counts, seen, Goto,
     TypeOK, DiskTypeOK, ControlTypeOK, CountTypeOK, Label, Process, Directory,
     NoVersion, LocksHeld, StagesReached, DirectoriesSound, Sound, Placed,
     RecoverLabels, ActivateLabels
<1>15. CASE Begin
  BY <1>15, StoreAssumption DEF Begin, Goto, Leave, counts, seen, TypeOK, DiskTypeOK,
     ControlTypeOK, CountTypeOK, Label, Process, Directory, NoVersion, LocksHeld,
     StagesReached, DirectoriesSound, Sound, Placed, RecoverLabels, ActivateLabels
<1>16. CASE Retain
  BY <1>16, StoreAssumption, NoDirectoryFacts DEF Retain, Undo, Proceed, Fault, NoFault,
     seen, Goto, TypeOK, DiskTypeOK, ControlTypeOK, CountTypeOK, Label, Process,
     Directory, NoVersion, LocksHeld, StagesReached, DirectoriesSound, Sound, Placed,
     RecoverLabels, ActivateLabels
<1>17. CASE Place
  BY <1>17, StoreAssumption, NoDirectoryFacts DEF Place, Undo, Proceed, Fault, NoFault,
     Goto, TypeOK, DiskTypeOK, ControlTypeOK, CountTypeOK, Label, Process, Directory,
     NoVersion, LocksHeld, StagesReached, DirectoriesSound, Sound, Placed,
     RecoverLabels, ActivateLabels
<1>18. CASE Verify
  BY <1>18, StoreAssumption DEF Verify, Inspected, isExactInstalled, Undo, Proceed,
     counts, seen, Marked, Goto, TypeOK, DiskTypeOK, ControlTypeOK, CountTypeOK, Label,
     Process, Directory, NoVersion, LocksHeld, StagesReached, DirectoriesSound, Sound,
     Placed, RecoverLabels, ActivateLabels
<1>19. CASE Commit
  BY <1>19, StoreAssumption DEF Commit, Undo, Proceed, Fault, NoFault, seen, Goto,
     TypeOK, DiskTypeOK, ControlTypeOK, CountTypeOK, Label, Process, Directory,
     NoVersion, LocksHeld, StagesReached, DirectoriesSound, Sound, Placed,
     RecoverLabels, ActivateLabels
<1>20. CASE DropBackup
  BY <1>20, StoreAssumption, ErodedFacts, NoDirectoryFacts DEF DropBackup, Leave, Fault,
     NoFault, seen, Goto, TypeOK, DiskTypeOK, ControlTypeOK, CountTypeOK, Label,
     Process, Directory, NoVersion, LocksHeld, StagesReached, DirectoriesSound, Sound,
     Placed, RecoverLabels, ActivateLabels
<1>21. CASE Delete
  BY <1>21, StoreAssumption DEF Delete, Goto, disk, counts, seen, TypeOK, DiskTypeOK,
     ControlTypeOK, CountTypeOK, Label, Process, Directory, NoVersion, LocksHeld,
     StagesReached, DirectoriesSound, Sound, Placed, RecoverLabels, ActivateLabels
<1>22. CASE DeleteErode
  BY <1>22, StoreAssumption, ErodedFacts DEF DeleteErode, control, counts, seen, TypeOK,
     DiskTypeOK, ControlTypeOK, CountTypeOK, Label, Process, Directory, NoVersion,
     LocksHeld, StagesReached, DirectoriesSound, Sound, Placed, RecoverLabels,
     ActivateLabels
<1>23. CASE DeleteDone
  BY <1>23, StoreAssumption, NoDirectoryFacts DEF DeleteDone, Leave, Fault, NoFault,
     Goto, TypeOK, DiskTypeOK, ControlTypeOK, CountTypeOK, Label, Process, Directory,
     NoVersion, LocksHeld, StagesReached, DirectoriesSound, Sound, Placed,
     RecoverLabels, ActivateLabels
<1>24. CASE Acquire
  BY <1>24, StoreAssumption DEF Acquire, Goto, disk, counts, seen, TypeOK, DiskTypeOK,
     ControlTypeOK, CountTypeOK, Label, Process, Directory, NoVersion, LocksHeld,
     StagesReached, DirectoriesSound, Sound, Placed, RecoverLabels, ActivateLabels
<1>25. CASE ReadForLoad
  BY <1>25, StoreAssumption DEF ReadForLoad, TakeLock, disk, counts, seen, Goto, TypeOK,
     DiskTypeOK, ControlTypeOK, CountTypeOK, Label, Process, Directory, NoVersion,
     LocksHeld, StagesReached, DirectoriesSound, Sound, Placed, RecoverLabels,
     ActivateLabels
<1>26. CASE Loaded
  BY <1>26, StoreAssumption DEF Loaded, Leave, disk, counts, Goto, TypeOK, DiskTypeOK,
     ControlTypeOK, CountTypeOK, Label, Process, Directory, NoVersion, LocksHeld,
     StagesReached, DirectoriesSound, Sound, Placed, RecoverLabels, ActivateLabels
<1>27. CASE LoadFailed
  BY <1>27, StoreAssumption DEF LoadFailed, Goto, Leave, disk, counts, seen, TypeOK,
     DiskTypeOK, ControlTypeOK, CountTypeOK, Label, Process, Directory, NoVersion,
     LocksHeld, StagesReached, DirectoriesSound, Sound, Placed, RecoverLabels,
     ActivateLabels
<1>28. CASE invalidate
  BY <1>28, StoreAssumption DEF invalidate, Leave, counts, Goto, TypeOK, DiskTypeOK,
     ControlTypeOK, CountTypeOK, Label, Process, Directory, NoVersion, LocksHeld,
     StagesReached, DirectoriesSound, Sound, Placed, RecoverLabels, ActivateLabels
<1>29. CASE ReleaseRuntime
  BY <1>29, StoreAssumption DEF ReleaseRuntime, disk, control, counts, TypeOK,
     DiskTypeOK, ControlTypeOK, CountTypeOK, Label, Process, Directory, NoVersion,
     LocksHeld, StagesReached, DirectoriesSound, Sound, Placed, RecoverLabels,
     ActivateLabels
<1>30. CASE Crash
  <2>1. app \in Nat /\ app' \in Nat /\ app <= app'
    BY <1>30, StoreAssumption DEF Crash, TypeOK
  <2>2. installed.marker \in Nat /\ backup.marker \in Nat
    <3>1. installed.marker \in Versions \cup {NoVersion} /\ backup.marker \in Versions \cup {NoVersion}
      BY DEF TypeOK, DiskTypeOK, Directory
    <3>2. Versions \cup {NoVersion} \subseteq Nat
      BY StoreAssumption DEF NoVersion
    <3> QED
      BY <3>1, <3>2
  <2> QED
    BY <1>30, <2>1, <2>2 DEF Crash, disk, DirectoriesSound, Sound
<1>31. CASE UNCHANGED vars
  BY <1>31 DEF vars, TypeOK, DiskTypeOK, ControlTypeOK, CountTypeOK, Label, Process,
     Directory, NoVersion, LocksHeld, StagesReached, DirectoriesSound, Sound, Placed,
     RecoverLabels, ActivateLabels
<1> QED
  BY <1>1, <1>2, <1>3, <1>4, <1>5, <1>6, <1>7, <1>8, <1>9, <1>10, <1>11, <1>12, <1>13,
     <1>14, <1>15, <1>16, <1>17, <1>18, <1>19, <1>20, <1>21, <1>22, <1>23, <1>24, <1>25,
     <1>26, <1>27, <1>28, <1>29, <1>30, <1>31 DEF Next, RecoverStep, Installer, Keeper

(* Every step establishes what the next one relies on. *)
LEMMA StagesStep ==
    ASSUME TypeOK, LocksHeld, DirectoriesSound, StagesReached, [Next]_vars
    PROVE  StagesReached'
<1>1. ASSUME NEW p \in Process, Recover(p)
      PROVE  StagesReached'
  BY <1>1, StoreAssumption DEF Recover, Goto, Recovered, disk, counts, seen, Leave,
     TypeOK, DiskTypeOK, ControlTypeOK, CountTypeOK, Label, Process, Directory,
     NoVersion, LocksHeld, DirectoriesSound, Sound, StagesReached, Placed,
     RecoverLabels, ActivateLabels
<1>2. ASSUME NEW p \in Process, RecoverErode(p)
      PROVE  StagesReached'
  BY <1>2, StoreAssumption, ErodedFacts DEF RecoverErode, control, counts, seen, TypeOK,
     DiskTypeOK, ControlTypeOK, CountTypeOK, Label, Process, Directory, NoVersion,
     LocksHeld, DirectoriesSound, Sound, StagesReached, Placed, RecoverLabels,
     ActivateLabels
<1>3. ASSUME NEW p \in Process, RecoverClear(p)
      PROVE  StagesReached'
  BY <1>3, StoreAssumption, NoDirectoryFacts DEF RecoverClear, Goto, Leave, Fault,
     NoFault, seen, TypeOK, DiskTypeOK, ControlTypeOK, CountTypeOK, Label, Process,
     Directory, NoVersion, LocksHeld, DirectoriesSound, Sound, StagesReached, Placed,
     RecoverLabels, ActivateLabels
<1>4. ASSUME NEW p \in Process, RecoverRestore(p)
      PROVE  StagesReached'
  BY <1>4, StoreAssumption, NoDirectoryFacts DEF RecoverRestore, Goto, Leave, Fault,
     NoFault, seen, TypeOK, DiskTypeOK, ControlTypeOK, CountTypeOK, Label, Process,
     Directory, NoVersion, LocksHeld, DirectoriesSound, Sound, StagesReached, Placed,
     RecoverLabels, ActivateLabels
<1>5. ASSUME NEW p \in Process, RecoverUnjournal(p)
      PROVE  StagesReached'
  BY <1>5, StoreAssumption DEF RecoverUnjournal, Leave, Recovered, Fault, NoFault, seen,
     Goto, TypeOK, DiskTypeOK, ControlTypeOK, CountTypeOK, Label, Process, Directory,
     NoVersion, LocksHeld, DirectoriesSound, Sound, StagesReached, Placed,
     RecoverLabels, ActivateLabels
<1>6. ASSUME NEW p \in Process, RecoverDropStale(p)
      PROVE  StagesReached'
  BY <1>6, StoreAssumption, ErodedFacts, NoDirectoryFacts DEF RecoverDropStale, Leave,
     Recovered, Fault, NoFault, seen, Goto, TypeOK, DiskTypeOK, ControlTypeOK,
     CountTypeOK, Label, Process, Directory, NoVersion, LocksHeld, DirectoriesSound,
     Sound, StagesReached, Placed, RecoverLabels, ActivateLabels
<1>7. ASSUME NEW p \in Process, Inspect(p)
      PROVE  StagesReached'
  BY <1>7, StoreAssumption, InspectFacts DEF isExactInstalled, Inspected, Marked,
     counts, TypeOK, DiskTypeOK, ControlTypeOK, CountTypeOK, Label, Process, Directory,
     NoVersion, LocksHeld, DirectoriesSound, Sound, StagesReached, Placed,
     RecoverLabels, ActivateLabels
<1>8. CASE Readiness
  BY <1>8, StoreAssumption DEF Readiness, TakeLock, disk, counts, seen, Goto, TypeOK,
     DiskTypeOK, ControlTypeOK, CountTypeOK, Label, Process, Directory, NoVersion,
     LocksHeld, DirectoriesSound, Sound, StagesReached, Placed, RecoverLabels,
     ActivateLabels
<1>9. ASSUME NEW complete \in BOOLEAN, Download(complete)
      PROVE  StagesReached'
  BY <1>9, StoreAssumption DEF Download, Goto, seen, TypeOK, DiskTypeOK, ControlTypeOK,
     CountTypeOK, Label, Process, Directory, NoVersion, LocksHeld, DirectoriesSound,
     Sound, StagesReached, Placed, RecoverLabels, ActivateLabels
<1>10. CASE validateStaged
  BY <1>10, StoreAssumption DEF validateStaged, Goto, counts, seen, TypeOK, DiskTypeOK,
     ControlTypeOK, CountTypeOK, Label, Process, Directory, NoVersion, LocksHeld,
     DirectoriesSound, Sound, StagesReached, Placed, RecoverLabels, ActivateLabels
<1>11. CASE EnterActivation
  BY <1>11, StoreAssumption DEF EnterActivation, Goto, disk, counts, seen, TypeOK,
     DiskTypeOK, ControlTypeOK, CountTypeOK, Label, Process, Directory, NoVersion,
     LocksHeld, DirectoriesSound, Sound, StagesReached, Placed, RecoverLabels,
     ActivateLabels
<1>12. CASE GiveUp
  BY <1>12, StoreAssumption DEF GiveUp, Goto, disk, counts, seen, TypeOK, DiskTypeOK,
     ControlTypeOK, CountTypeOK, Label, Process, Directory, NoVersion, LocksHeld,
     DirectoriesSound, Sound, StagesReached, Placed, RecoverLabels, ActivateLabels
<1>13. CASE ReadBefore
  BY <1>13, StoreAssumption DEF ReadBefore, TakeLock, disk, counts, seen, Goto, TypeOK,
     DiskTypeOK, ControlTypeOK, CountTypeOK, Label, Process, Directory, NoVersion,
     LocksHeld, DirectoriesSound, Sound, StagesReached, Placed, RecoverLabels,
     ActivateLabels
<1>14. CASE activateStaged
  BY <1>14, StoreAssumption DEF activateStaged, TakeLock, disk, counts, seen, Goto,
     TypeOK, DiskTypeOK, ControlTypeOK, CountTypeOK, Label, Process, Directory,
     NoVersion, LocksHeld, DirectoriesSound, Sound, StagesReached, Placed,
     RecoverLabels, ActivateLabels
<1>15. CASE Begin
  BY <1>15, StoreAssumption DEF Begin, Goto, Leave, counts, seen, TypeOK, DiskTypeOK,
     ControlTypeOK, CountTypeOK, Label, Process, Directory, NoVersion, LocksHeld,
     DirectoriesSound, Sound, StagesReached, Placed, RecoverLabels, ActivateLabels
<1>16. CASE Retain
  BY <1>16, StoreAssumption, NoDirectoryFacts DEF Retain, Undo, Proceed, Fault, NoFault,
     seen, Goto, TypeOK, DiskTypeOK, ControlTypeOK, CountTypeOK, Label, Process,
     Directory, NoVersion, LocksHeld, DirectoriesSound, Sound, StagesReached, Placed,
     RecoverLabels, ActivateLabels
<1>17. CASE Place
  BY <1>17, StoreAssumption, NoDirectoryFacts DEF Place, Undo, Proceed, Fault, NoFault,
     Goto, TypeOK, DiskTypeOK, ControlTypeOK, CountTypeOK, Label, Process, Directory,
     NoVersion, LocksHeld, DirectoriesSound, Sound, StagesReached, Placed,
     RecoverLabels, ActivateLabels
<1>18. CASE Verify
  BY <1>18, StoreAssumption DEF Verify, Inspected, isExactInstalled, Undo, Proceed,
     counts, seen, Marked, Goto, TypeOK, DiskTypeOK, ControlTypeOK, CountTypeOK, Label,
     Process, Directory, NoVersion, LocksHeld, DirectoriesSound, Sound, StagesReached,
     Placed, RecoverLabels, ActivateLabels
<1>19. CASE Commit
  <2>1. \A p \in Process \ {"installer"} : pc'[p] \notin RecoverLabels
    BY <1>19 DEF Commit, Proceed, Undo, Goto, LocksHeld, TypeOK, ControlTypeOK,
       ActivateLabels
  <2>2. pc'["installer"] \in {"drop", "recover"} /\ (pc'["installer"] = "drop" => ~journal')
    BY <1>19 DEF Commit, Proceed, Undo, Goto, TypeOK, ControlTypeOK, Process
  <2> QED
    BY <2>1, <2>2 DEF StagesReached, RecoverLabels, Process
<1>20. CASE DropBackup
  BY <1>20, StoreAssumption, ErodedFacts, NoDirectoryFacts DEF DropBackup, Leave, Fault,
     NoFault, seen, Goto, TypeOK, DiskTypeOK, ControlTypeOK, CountTypeOK, Label,
     Process, Directory, NoVersion, LocksHeld, DirectoriesSound, Sound, StagesReached,
     Placed, RecoverLabels, ActivateLabels
<1>21. CASE Delete
  BY <1>21, StoreAssumption DEF Delete, Goto, disk, counts, seen, TypeOK, DiskTypeOK,
     ControlTypeOK, CountTypeOK, Label, Process, Directory, NoVersion, LocksHeld,
     DirectoriesSound, Sound, StagesReached, Placed, RecoverLabels, ActivateLabels
<1>22. CASE DeleteErode
  BY <1>22, StoreAssumption, ErodedFacts DEF DeleteErode, control, counts, seen, TypeOK,
     DiskTypeOK, ControlTypeOK, CountTypeOK, Label, Process, Directory, NoVersion,
     LocksHeld, DirectoriesSound, Sound, StagesReached, Placed, RecoverLabels,
     ActivateLabels
<1>23. CASE DeleteDone
  BY <1>23, StoreAssumption, NoDirectoryFacts DEF DeleteDone, Leave, Fault, NoFault,
     Goto, TypeOK, DiskTypeOK, ControlTypeOK, CountTypeOK, Label, Process, Directory,
     NoVersion, LocksHeld, DirectoriesSound, Sound, StagesReached, Placed,
     RecoverLabels, ActivateLabels
<1>24. CASE Acquire
  BY <1>24, StoreAssumption DEF Acquire, Goto, disk, counts, seen, TypeOK, DiskTypeOK,
     ControlTypeOK, CountTypeOK, Label, Process, Directory, NoVersion, LocksHeld,
     DirectoriesSound, Sound, StagesReached, Placed, RecoverLabels, ActivateLabels
<1>25. CASE ReadForLoad
  BY <1>25, StoreAssumption DEF ReadForLoad, TakeLock, disk, counts, seen, Goto, TypeOK,
     DiskTypeOK, ControlTypeOK, CountTypeOK, Label, Process, Directory, NoVersion,
     LocksHeld, DirectoriesSound, Sound, StagesReached, Placed, RecoverLabels,
     ActivateLabels
<1>26. CASE Loaded
  BY <1>26, StoreAssumption DEF Loaded, Leave, disk, counts, Goto, TypeOK, DiskTypeOK,
     ControlTypeOK, CountTypeOK, Label, Process, Directory, NoVersion, LocksHeld,
     DirectoriesSound, Sound, StagesReached, Placed, RecoverLabels, ActivateLabels
<1>27. CASE LoadFailed
  BY <1>27, StoreAssumption DEF LoadFailed, Goto, Leave, disk, counts, seen, TypeOK,
     DiskTypeOK, ControlTypeOK, CountTypeOK, Label, Process, Directory, NoVersion,
     LocksHeld, DirectoriesSound, Sound, StagesReached, Placed, RecoverLabels,
     ActivateLabels
<1>28. CASE invalidate
  BY <1>28, StoreAssumption DEF invalidate, Leave, counts, Goto, TypeOK, DiskTypeOK,
     ControlTypeOK, CountTypeOK, Label, Process, Directory, NoVersion, LocksHeld,
     DirectoriesSound, Sound, StagesReached, Placed, RecoverLabels, ActivateLabels
<1>29. CASE ReleaseRuntime
  BY <1>29, StoreAssumption DEF ReleaseRuntime, disk, control, counts, TypeOK,
     DiskTypeOK, ControlTypeOK, CountTypeOK, Label, Process, Directory, NoVersion,
     LocksHeld, DirectoriesSound, Sound, StagesReached, Placed, RecoverLabels,
     ActivateLabels
<1>30. CASE Crash
  BY <1>30, StoreAssumption DEF Crash, disk, TypeOK, DiskTypeOK, ControlTypeOK,
     CountTypeOK, Label, Process, Directory, NoVersion, LocksHeld, DirectoriesSound,
     Sound, StagesReached, Placed, RecoverLabels, ActivateLabels
<1>31. CASE UNCHANGED vars
  BY <1>31 DEF vars, TypeOK, DiskTypeOK, ControlTypeOK, CountTypeOK, Label, Process,
     Directory, NoVersion, LocksHeld, DirectoriesSound, Sound, StagesReached, Placed,
     RecoverLabels, ActivateLabels
<1> QED
  BY <1>1, <1>2, <1>3, <1>4, <1>5, <1>6, <1>7, <1>8, <1>9, <1>10, <1>11, <1>12, <1>13,
     <1>14, <1>15, <1>16, <1>17, <1>18, <1>19, <1>20, <1>21, <1>22, <1>23, <1>24, <1>25,
     <1>26, <1>27, <1>28, <1>29, <1>30, <1>31 DEF Next, RecoverStep, Installer, Keeper

(* Every step keeps the files of a runtime. *)
LEMMA UseStep ==
    ASSUME TypeOK, LocksHeld, DirectoriesSound, StagesReached, UseIsQuiet, [Next]_vars
    PROVE  UseIsQuiet'
<1>1. ASSUME NEW p \in Process, Recover(p)
      PROVE  UseIsQuiet'
  BY <1>1 DEF Recover, Goto, Recovered, disk, counts, seen, Leave, TypeOK, DiskTypeOK,
     ControlTypeOK, CountTypeOK, Label, Process, Directory, NoVersion, LocksHeld,
     DirectoriesSound, Sound, StagesReached, UseIsQuiet, RuntimeFilesUntouched,
     RecoverLabels, ActivateLabels
<1>2. ASSUME NEW p \in Process, RecoverErode(p)
      PROVE  UseIsQuiet'
  BY <1>2, ErodedFacts DEF RecoverErode, control, counts, seen, TypeOK, DiskTypeOK,
     ControlTypeOK, CountTypeOK, Label, Process, Directory, NoVersion, LocksHeld,
     DirectoriesSound, Sound, StagesReached, UseIsQuiet, RuntimeFilesUntouched,
     RecoverLabels, ActivateLabels
<1>3. ASSUME NEW p \in Process, RecoverClear(p)
      PROVE  UseIsQuiet'
  BY <1>3, NoDirectoryFacts DEF RecoverClear, Goto, Leave, Fault, NoFault, seen, TypeOK,
     DiskTypeOK, ControlTypeOK, CountTypeOK, Label, Process, Directory, NoVersion,
     LocksHeld, DirectoriesSound, Sound, StagesReached, UseIsQuiet,
     RuntimeFilesUntouched, RecoverLabels, ActivateLabels
<1>4. ASSUME NEW p \in Process, RecoverRestore(p)
      PROVE  UseIsQuiet'
  BY <1>4, NoDirectoryFacts DEF RecoverRestore, Goto, Leave, Fault, NoFault, seen,
     TypeOK, DiskTypeOK, ControlTypeOK, CountTypeOK, Label, Process, Directory,
     NoVersion, LocksHeld, DirectoriesSound, Sound, StagesReached, UseIsQuiet,
     RuntimeFilesUntouched, RecoverLabels, ActivateLabels
<1>5. ASSUME NEW p \in Process, RecoverUnjournal(p)
      PROVE  UseIsQuiet'
  BY <1>5 DEF RecoverUnjournal, Leave, Recovered, Fault, NoFault, seen, Goto, TypeOK,
     DiskTypeOK, ControlTypeOK, CountTypeOK, Label, Process, Directory, NoVersion,
     LocksHeld, DirectoriesSound, Sound, StagesReached, UseIsQuiet,
     RuntimeFilesUntouched, RecoverLabels, ActivateLabels
<1>6. ASSUME NEW p \in Process, RecoverDropStale(p)
      PROVE  UseIsQuiet'
  BY <1>6, ErodedFacts, NoDirectoryFacts DEF RecoverDropStale, Leave, Recovered, Fault,
     NoFault, seen, Goto, TypeOK, DiskTypeOK, ControlTypeOK, CountTypeOK, Label,
     Process, Directory, NoVersion, LocksHeld, DirectoriesSound, Sound, StagesReached,
     UseIsQuiet, RuntimeFilesUntouched, RecoverLabels, ActivateLabels
<1>7. ASSUME NEW p \in Process, Inspect(p)
      PROVE  UseIsQuiet'
  <2>1. installed' = IF Marked(installed) THEN installed
                     ELSE [installed EXCEPT !.marker = NoVersion]
    BY <1>7, InspectFacts DEF isExactInstalled
  <2>2. installed'.exists = installed.exists /\ installed'.artifacts = installed.artifacts
    BY <2>1 DEF TypeOK, DiskTypeOK, Directory
  <2>3. runtime' = runtime /\ journal' = journal /\ ~journal
    BY <1>7, InspectFacts DEF StagesReached
  <2>4. CASE p = "keeper"
    <3>1. mutex = "keeper" /\ mutex' = "keeper" /\ pc'["keeper"] = "load" /\ loading' = Inspected
      BY <1>7, <2>4, InspectFacts DEF LocksHeld, TypeOK, ControlTypeOK, Process
    <3>2. runtime = NoVersion
      BY <3>1 DEF UseIsQuiet
    <3>3. loading' # NoVersion => installed.exists /\ installed.artifacts = loading'
      BY <3>1 DEF Inspected, Marked, DirectoriesSound, Sound
    <3> QED
      BY <2>2, <2>3, <3>1, <3>2, <3>3 DEF UseIsQuiet, RuntimeFilesUntouched
  <2>5. CASE p # "keeper"
    <3>1. loading' = loading /\ pc'["keeper"] = pc["keeper"]
      BY <1>7, <2>5, InspectFacts DEF TypeOK, ControlTypeOK, Process
    <3>2. mutex = "none" => mutex' = "none"
      BY <1>7, <2>5, InspectFacts
    <3> QED
      BY <2>2, <2>3, <3>1, <3>2 DEF UseIsQuiet, RuntimeFilesUntouched
  <2> QED
    BY <2>4, <2>5
<1>8. CASE Readiness
  BY <1>8 DEF Readiness, TakeLock, disk, counts, seen, Goto, TypeOK, DiskTypeOK,
     ControlTypeOK, CountTypeOK, Label, Process, Directory, NoVersion, LocksHeld,
     DirectoriesSound, Sound, StagesReached, UseIsQuiet, RuntimeFilesUntouched,
     RecoverLabels, ActivateLabels
<1>9. ASSUME NEW complete \in BOOLEAN, Download(complete)
      PROVE  UseIsQuiet'
  BY <1>9 DEF Download, Goto, seen, TypeOK, DiskTypeOK, ControlTypeOK, CountTypeOK,
     Label, Process, Directory, NoVersion, LocksHeld, DirectoriesSound, Sound,
     StagesReached, UseIsQuiet, RuntimeFilesUntouched, RecoverLabels, ActivateLabels
<1>10. CASE validateStaged
  BY <1>10 DEF validateStaged, Goto, counts, seen, TypeOK, DiskTypeOK, ControlTypeOK,
     CountTypeOK, Label, Process, Directory, NoVersion, LocksHeld, DirectoriesSound,
     Sound, StagesReached, UseIsQuiet, RuntimeFilesUntouched, RecoverLabels,
     ActivateLabels
<1>11. CASE EnterActivation
  BY <1>11 DEF EnterActivation, Goto, disk, counts, seen, TypeOK, DiskTypeOK,
     ControlTypeOK, CountTypeOK, Label, Process, Directory, NoVersion, LocksHeld,
     DirectoriesSound, Sound, StagesReached, UseIsQuiet, RuntimeFilesUntouched,
     RecoverLabels, ActivateLabels
<1>12. CASE GiveUp
  BY <1>12 DEF GiveUp, Goto, disk, counts, seen, TypeOK, DiskTypeOK, ControlTypeOK,
     CountTypeOK, Label, Process, Directory, NoVersion, LocksHeld, DirectoriesSound,
     Sound, StagesReached, UseIsQuiet, RuntimeFilesUntouched, RecoverLabels,
     ActivateLabels
<1>13. CASE ReadBefore
  BY <1>13 DEF ReadBefore, TakeLock, disk, counts, seen, Goto, TypeOK, DiskTypeOK,
     ControlTypeOK, CountTypeOK, Label, Process, Directory, NoVersion, LocksHeld,
     DirectoriesSound, Sound, StagesReached, UseIsQuiet, RuntimeFilesUntouched,
     RecoverLabels, ActivateLabels
<1>14. CASE activateStaged
  BY <1>14 DEF activateStaged, TakeLock, disk, counts, seen, Goto, TypeOK, DiskTypeOK,
     ControlTypeOK, CountTypeOK, Label, Process, Directory, NoVersion, LocksHeld,
     DirectoriesSound, Sound, StagesReached, UseIsQuiet, RuntimeFilesUntouched,
     RecoverLabels, ActivateLabels
<1>15. CASE Begin
  BY <1>15 DEF Begin, Goto, Leave, counts, seen, TypeOK, DiskTypeOK, ControlTypeOK,
     CountTypeOK, Label, Process, Directory, NoVersion, LocksHeld, DirectoriesSound,
     Sound, StagesReached, UseIsQuiet, RuntimeFilesUntouched, RecoverLabels,
     ActivateLabels
<1>16. CASE Retain
  BY <1>16, NoDirectoryFacts DEF Retain, Undo, Proceed, Fault, NoFault, seen, Goto,
     TypeOK, DiskTypeOK, ControlTypeOK, CountTypeOK, Label, Process, Directory,
     NoVersion, LocksHeld, DirectoriesSound, Sound, StagesReached, UseIsQuiet,
     RuntimeFilesUntouched, RecoverLabels, ActivateLabels
<1>17. CASE Place
  BY <1>17, NoDirectoryFacts DEF Place, Undo, Proceed, Fault, NoFault, Goto, TypeOK,
     DiskTypeOK, ControlTypeOK, CountTypeOK, Label, Process, Directory, NoVersion,
     LocksHeld, DirectoriesSound, Sound, StagesReached, UseIsQuiet,
     RuntimeFilesUntouched, RecoverLabels, ActivateLabels
<1>18. CASE Verify
  BY <1>18 DEF Verify, Inspected, isExactInstalled, Undo, Proceed, counts, seen, Marked,
     Goto, TypeOK, DiskTypeOK, ControlTypeOK, CountTypeOK, Label, Process, Directory,
     NoVersion, LocksHeld, DirectoriesSound, Sound, StagesReached, UseIsQuiet,
     RuntimeFilesUntouched, RecoverLabels, ActivateLabels
<1>19. CASE Commit
  BY <1>19 DEF Commit, Undo, Proceed, Fault, NoFault, seen, Goto, TypeOK, DiskTypeOK,
     ControlTypeOK, CountTypeOK, Label, Process, Directory, NoVersion, LocksHeld,
     DirectoriesSound, Sound, StagesReached, UseIsQuiet, RuntimeFilesUntouched,
     RecoverLabels, ActivateLabels
<1>20. CASE DropBackup
  BY <1>20, ErodedFacts, NoDirectoryFacts DEF DropBackup, Leave, Fault, NoFault, seen,
     Goto, TypeOK, DiskTypeOK, ControlTypeOK, CountTypeOK, Label, Process, Directory,
     NoVersion, LocksHeld, DirectoriesSound, Sound, StagesReached, UseIsQuiet,
     RuntimeFilesUntouched, RecoverLabels, ActivateLabels
<1>21. CASE Delete
  BY <1>21 DEF Delete, Goto, disk, counts, seen, TypeOK, DiskTypeOK, ControlTypeOK,
     CountTypeOK, Label, Process, Directory, NoVersion, LocksHeld, DirectoriesSound,
     Sound, StagesReached, UseIsQuiet, RuntimeFilesUntouched, RecoverLabels,
     ActivateLabels
<1>22. CASE DeleteErode
  BY <1>22, ErodedFacts DEF DeleteErode, control, counts, seen, TypeOK, DiskTypeOK,
     ControlTypeOK, CountTypeOK, Label, Process, Directory, NoVersion, LocksHeld,
     DirectoriesSound, Sound, StagesReached, UseIsQuiet, RuntimeFilesUntouched,
     RecoverLabels, ActivateLabels
<1>23. CASE DeleteDone
  BY <1>23, NoDirectoryFacts DEF DeleteDone, Leave, Fault, NoFault, Goto, TypeOK,
     DiskTypeOK, ControlTypeOK, CountTypeOK, Label, Process, Directory, NoVersion,
     LocksHeld, DirectoriesSound, Sound, StagesReached, UseIsQuiet,
     RuntimeFilesUntouched, RecoverLabels, ActivateLabels
<1>24. CASE Acquire
  BY <1>24 DEF Acquire, Goto, disk, counts, seen, TypeOK, DiskTypeOK, ControlTypeOK,
     CountTypeOK, Label, Process, Directory, NoVersion, LocksHeld, DirectoriesSound,
     Sound, StagesReached, UseIsQuiet, RuntimeFilesUntouched, RecoverLabels,
     ActivateLabels
<1>25. CASE ReadForLoad
  BY <1>25 DEF ReadForLoad, TakeLock, disk, counts, seen, Goto, TypeOK, DiskTypeOK,
     ControlTypeOK, CountTypeOK, Label, Process, Directory, NoVersion, LocksHeld,
     DirectoriesSound, Sound, StagesReached, UseIsQuiet, RuntimeFilesUntouched,
     RecoverLabels, ActivateLabels
<1>26. CASE Loaded
  BY <1>26 DEF Loaded, Leave, disk, counts, Goto, TypeOK, DiskTypeOK, ControlTypeOK,
     CountTypeOK, Label, Process, Directory, NoVersion, LocksHeld, DirectoriesSound,
     Sound, StagesReached, UseIsQuiet, RuntimeFilesUntouched, RecoverLabels,
     ActivateLabels
<1>27. CASE LoadFailed
  BY <1>27 DEF LoadFailed, Goto, Leave, disk, counts, seen, TypeOK, DiskTypeOK,
     ControlTypeOK, CountTypeOK, Label, Process, Directory, NoVersion, LocksHeld,
     DirectoriesSound, Sound, StagesReached, UseIsQuiet, RuntimeFilesUntouched,
     RecoverLabels, ActivateLabels
<1>28. CASE invalidate
  BY <1>28 DEF invalidate, Leave, counts, Goto, TypeOK, DiskTypeOK, ControlTypeOK,
     CountTypeOK, Label, Process, Directory, NoVersion, LocksHeld, DirectoriesSound,
     Sound, StagesReached, UseIsQuiet, RuntimeFilesUntouched, RecoverLabels,
     ActivateLabels
<1>29. CASE ReleaseRuntime
  BY <1>29 DEF ReleaseRuntime, disk, control, counts, TypeOK, DiskTypeOK, ControlTypeOK,
     CountTypeOK, Label, Process, Directory, NoVersion, LocksHeld, DirectoriesSound,
     Sound, StagesReached, UseIsQuiet, RuntimeFilesUntouched, RecoverLabels,
     ActivateLabels
<1>30. CASE Crash
  BY <1>30 DEF Crash, disk, TypeOK, DiskTypeOK, ControlTypeOK, CountTypeOK, Label,
     Process, Directory, NoVersion, LocksHeld, DirectoriesSound, Sound, StagesReached,
     UseIsQuiet, RuntimeFilesUntouched, RecoverLabels, ActivateLabels
<1>31. CASE UNCHANGED vars
  BY <1>31 DEF vars, TypeOK, DiskTypeOK, ControlTypeOK, CountTypeOK, Label, Process,
     Directory, NoVersion, LocksHeld, DirectoriesSound, Sound, StagesReached,
     UseIsQuiet, RuntimeFilesUntouched, RecoverLabels, ActivateLabels
<1> QED
  BY <1>1, <1>2, <1>3, <1>4, <1>5, <1>6, <1>7, <1>8, <1>9, <1>10, <1>11, <1>12, <1>13,
     <1>14, <1>15, <1>16, <1>17, <1>18, <1>19, <1>20, <1>21, <1>22, <1>23, <1>24, <1>25,
     <1>26, <1>27, <1>28, <1>29, <1>30, <1>31 DEF Next, RecoverStep, Installer, Keeper

(* Every step keeps unfinished activations known. *)
LEMMA UnfinishedStep ==
    ASSUME TypeOK, LocksHeld, StagesReached, UnfinishedKnown, [Next]_vars
    PROVE  UnfinishedKnown'
<1>1. ASSUME NEW p \in Process, Recover(p)
      PROVE  UnfinishedKnown'
  BY <1>1, StoreAssumption DEF Recover, Goto, Recovered, disk, counts, seen, Leave,
     TypeOK, DiskTypeOK, ControlTypeOK, CountTypeOK, Label, Process, Directory,
     NoVersion, LocksHeld, StagesReached, Placed, UnfinishedKnown, Unfinished,
     RecoverLabels, ActivateLabels
<1>2. ASSUME NEW p \in Process, RecoverErode(p)
      PROVE  UnfinishedKnown'
  BY <1>2, StoreAssumption, ErodedFacts DEF RecoverErode, control, counts, seen, TypeOK,
     DiskTypeOK, ControlTypeOK, CountTypeOK, Label, Process, Directory, NoVersion,
     LocksHeld, StagesReached, Placed, UnfinishedKnown, Unfinished, RecoverLabels,
     ActivateLabels
<1>3. ASSUME NEW p \in Process, RecoverClear(p)
      PROVE  UnfinishedKnown'
  BY <1>3, StoreAssumption, NoDirectoryFacts DEF RecoverClear, Goto, Leave, Fault,
     NoFault, seen, TypeOK, DiskTypeOK, ControlTypeOK, CountTypeOK, Label, Process,
     Directory, NoVersion, LocksHeld, StagesReached, Placed, UnfinishedKnown,
     Unfinished, RecoverLabels, ActivateLabels
<1>4. ASSUME NEW p \in Process, RecoverRestore(p)
      PROVE  UnfinishedKnown'
  BY <1>4, StoreAssumption, NoDirectoryFacts DEF RecoverRestore, Goto, Leave, Fault,
     NoFault, seen, TypeOK, DiskTypeOK, ControlTypeOK, CountTypeOK, Label, Process,
     Directory, NoVersion, LocksHeld, StagesReached, Placed, UnfinishedKnown,
     Unfinished, RecoverLabels, ActivateLabels
<1>5. ASSUME NEW p \in Process, RecoverUnjournal(p)
      PROVE  UnfinishedKnown'
  BY <1>5, StoreAssumption DEF RecoverUnjournal, Leave, Recovered, Fault, NoFault, seen,
     Goto, TypeOK, DiskTypeOK, ControlTypeOK, CountTypeOK, Label, Process, Directory,
     NoVersion, LocksHeld, StagesReached, Placed, UnfinishedKnown, Unfinished,
     RecoverLabels, ActivateLabels
<1>6. ASSUME NEW p \in Process, RecoverDropStale(p)
      PROVE  UnfinishedKnown'
  BY <1>6, StoreAssumption, ErodedFacts, NoDirectoryFacts DEF RecoverDropStale, Leave,
     Recovered, Fault, NoFault, seen, Goto, TypeOK, DiskTypeOK, ControlTypeOK,
     CountTypeOK, Label, Process, Directory, NoVersion, LocksHeld, StagesReached,
     Placed, UnfinishedKnown, Unfinished, RecoverLabels, ActivateLabels
<1>7. ASSUME NEW p \in Process, Inspect(p)
      PROVE  UnfinishedKnown'
  BY <1>7, StoreAssumption, InspectFacts DEF isExactInstalled, Inspected, Marked,
     counts, TypeOK, DiskTypeOK, ControlTypeOK, CountTypeOK, Label, Process, Directory,
     NoVersion, LocksHeld, StagesReached, Placed, UnfinishedKnown, Unfinished,
     RecoverLabels, ActivateLabels
<1>8. CASE Readiness
  BY <1>8, StoreAssumption DEF Readiness, TakeLock, disk, counts, seen, Goto, TypeOK,
     DiskTypeOK, ControlTypeOK, CountTypeOK, Label, Process, Directory, NoVersion,
     LocksHeld, StagesReached, Placed, UnfinishedKnown, Unfinished, RecoverLabels,
     ActivateLabels
<1>9. ASSUME NEW complete \in BOOLEAN, Download(complete)
      PROVE  UnfinishedKnown'
  BY <1>9, StoreAssumption DEF Download, Goto, seen, TypeOK, DiskTypeOK, ControlTypeOK,
     CountTypeOK, Label, Process, Directory, NoVersion, LocksHeld, StagesReached,
     Placed, UnfinishedKnown, Unfinished, RecoverLabels, ActivateLabels
<1>10. CASE validateStaged
  BY <1>10, StoreAssumption DEF validateStaged, Goto, counts, seen, TypeOK, DiskTypeOK,
     ControlTypeOK, CountTypeOK, Label, Process, Directory, NoVersion, LocksHeld,
     StagesReached, Placed, UnfinishedKnown, Unfinished, RecoverLabels, ActivateLabels
<1>11. CASE EnterActivation
  BY <1>11, StoreAssumption DEF EnterActivation, Goto, disk, counts, seen, TypeOK,
     DiskTypeOK, ControlTypeOK, CountTypeOK, Label, Process, Directory, NoVersion,
     LocksHeld, StagesReached, Placed, UnfinishedKnown, Unfinished, RecoverLabels,
     ActivateLabels
<1>12. CASE GiveUp
  BY <1>12, StoreAssumption DEF GiveUp, Goto, disk, counts, seen, TypeOK, DiskTypeOK,
     ControlTypeOK, CountTypeOK, Label, Process, Directory, NoVersion, LocksHeld,
     StagesReached, Placed, UnfinishedKnown, Unfinished, RecoverLabels, ActivateLabels
<1>13. CASE ReadBefore
  BY <1>13, StoreAssumption DEF ReadBefore, TakeLock, disk, counts, seen, Goto, TypeOK,
     DiskTypeOK, ControlTypeOK, CountTypeOK, Label, Process, Directory, NoVersion,
     LocksHeld, StagesReached, Placed, UnfinishedKnown, Unfinished, RecoverLabels,
     ActivateLabels
<1>14. CASE activateStaged
  BY <1>14, StoreAssumption DEF activateStaged, TakeLock, disk, counts, seen, Goto,
     TypeOK, DiskTypeOK, ControlTypeOK, CountTypeOK, Label, Process, Directory,
     NoVersion, LocksHeld, StagesReached, Placed, UnfinishedKnown, Unfinished,
     RecoverLabels, ActivateLabels
<1>15. CASE Begin
  BY <1>15, StoreAssumption DEF Begin, Goto, Leave, counts, seen, TypeOK, DiskTypeOK,
     ControlTypeOK, CountTypeOK, Label, Process, Directory, NoVersion, LocksHeld,
     StagesReached, Placed, UnfinishedKnown, Unfinished, RecoverLabels, ActivateLabels
<1>16. CASE Retain
  BY <1>16, StoreAssumption, NoDirectoryFacts DEF Retain, Undo, Proceed, Fault, NoFault,
     seen, Goto, TypeOK, DiskTypeOK, ControlTypeOK, CountTypeOK, Label, Process,
     Directory, NoVersion, LocksHeld, StagesReached, Placed, UnfinishedKnown,
     Unfinished, RecoverLabels, ActivateLabels
<1>17. CASE Place
  BY <1>17, StoreAssumption, NoDirectoryFacts DEF Place, Undo, Proceed, Fault, NoFault,
     Goto, TypeOK, DiskTypeOK, ControlTypeOK, CountTypeOK, Label, Process, Directory,
     NoVersion, LocksHeld, StagesReached, Placed, UnfinishedKnown, Unfinished,
     RecoverLabels, ActivateLabels
<1>18. CASE Verify
  BY <1>18, StoreAssumption DEF Verify, Inspected, isExactInstalled, Undo, Proceed,
     counts, seen, Marked, Goto, TypeOK, DiskTypeOK, ControlTypeOK, CountTypeOK, Label,
     Process, Directory, NoVersion, LocksHeld, StagesReached, Placed, UnfinishedKnown,
     Unfinished, RecoverLabels, ActivateLabels
<1>19. CASE Commit
  BY <1>19, StoreAssumption DEF Commit, Undo, Proceed, Fault, NoFault, seen, Goto,
     TypeOK, DiskTypeOK, ControlTypeOK, CountTypeOK, Label, Process, Directory,
     NoVersion, LocksHeld, StagesReached, Placed, UnfinishedKnown, Unfinished,
     RecoverLabels, ActivateLabels
<1>20. CASE DropBackup
  BY <1>20, StoreAssumption, ErodedFacts, NoDirectoryFacts DEF DropBackup, Leave, Fault,
     NoFault, seen, Goto, TypeOK, DiskTypeOK, ControlTypeOK, CountTypeOK, Label,
     Process, Directory, NoVersion, LocksHeld, StagesReached, Placed, UnfinishedKnown,
     Unfinished, RecoverLabels, ActivateLabels
<1>21. CASE Delete
  BY <1>21, StoreAssumption DEF Delete, Goto, disk, counts, seen, TypeOK, DiskTypeOK,
     ControlTypeOK, CountTypeOK, Label, Process, Directory, NoVersion, LocksHeld,
     StagesReached, Placed, UnfinishedKnown, Unfinished, RecoverLabels, ActivateLabels
<1>22. CASE DeleteErode
  BY <1>22, StoreAssumption, ErodedFacts DEF DeleteErode, control, counts, seen, TypeOK,
     DiskTypeOK, ControlTypeOK, CountTypeOK, Label, Process, Directory, NoVersion,
     LocksHeld, StagesReached, Placed, UnfinishedKnown, Unfinished, RecoverLabels,
     ActivateLabels
<1>23. CASE DeleteDone
  BY <1>23, StoreAssumption, NoDirectoryFacts DEF DeleteDone, Leave, Fault, NoFault,
     Goto, TypeOK, DiskTypeOK, ControlTypeOK, CountTypeOK, Label, Process, Directory,
     NoVersion, LocksHeld, StagesReached, Placed, UnfinishedKnown, Unfinished,
     RecoverLabels, ActivateLabels
<1>24. CASE Acquire
  BY <1>24, StoreAssumption DEF Acquire, Goto, disk, counts, seen, TypeOK, DiskTypeOK,
     ControlTypeOK, CountTypeOK, Label, Process, Directory, NoVersion, LocksHeld,
     StagesReached, Placed, UnfinishedKnown, Unfinished, RecoverLabels, ActivateLabels
<1>25. CASE ReadForLoad
  BY <1>25, StoreAssumption DEF ReadForLoad, TakeLock, disk, counts, seen, Goto, TypeOK,
     DiskTypeOK, ControlTypeOK, CountTypeOK, Label, Process, Directory, NoVersion,
     LocksHeld, StagesReached, Placed, UnfinishedKnown, Unfinished, RecoverLabels,
     ActivateLabels
<1>26. CASE Loaded
  BY <1>26, StoreAssumption DEF Loaded, Leave, disk, counts, Goto, TypeOK, DiskTypeOK,
     ControlTypeOK, CountTypeOK, Label, Process, Directory, NoVersion, LocksHeld,
     StagesReached, Placed, UnfinishedKnown, Unfinished, RecoverLabels, ActivateLabels
<1>27. CASE LoadFailed
  BY <1>27, StoreAssumption DEF LoadFailed, Goto, Leave, disk, counts, seen, TypeOK,
     DiskTypeOK, ControlTypeOK, CountTypeOK, Label, Process, Directory, NoVersion,
     LocksHeld, StagesReached, Placed, UnfinishedKnown, Unfinished, RecoverLabels,
     ActivateLabels
<1>28. CASE invalidate
  BY <1>28, StoreAssumption DEF invalidate, Leave, counts, Goto, TypeOK, DiskTypeOK,
     ControlTypeOK, CountTypeOK, Label, Process, Directory, NoVersion, LocksHeld,
     StagesReached, Placed, UnfinishedKnown, Unfinished, RecoverLabels, ActivateLabels
<1>29. CASE ReleaseRuntime
  BY <1>29, StoreAssumption DEF ReleaseRuntime, disk, control, counts, TypeOK,
     DiskTypeOK, ControlTypeOK, CountTypeOK, Label, Process, Directory, NoVersion,
     LocksHeld, StagesReached, Placed, UnfinishedKnown, Unfinished, RecoverLabels,
     ActivateLabels
<1>30. CASE Crash
  BY <1>30, StoreAssumption DEF Crash, disk, TypeOK, DiskTypeOK, ControlTypeOK,
     CountTypeOK, Label, Process, Directory, NoVersion, LocksHeld, StagesReached,
     Placed, UnfinishedKnown, Unfinished, RecoverLabels, ActivateLabels
<1>31. CASE UNCHANGED vars
  BY <1>31 DEF vars, TypeOK, DiskTypeOK, ControlTypeOK, CountTypeOK, Label, Process,
     Directory, NoVersion, LocksHeld, StagesReached, Placed, UnfinishedKnown,
     Unfinished, RecoverLabels, ActivateLabels
<1> QED
  BY <1>1, <1>2, <1>3, <1>4, <1>5, <1>6, <1>7, <1>8, <1>9, <1>10, <1>11, <1>12, <1>13,
     <1>14, <1>15, <1>16, <1>17, <1>18, <1>19, <1>20, <1>21, <1>22, <1>23, <1>24, <1>25,
     <1>26, <1>27, <1>28, <1>29, <1>30, <1>31 DEF Next, RecoverStep, Installer, Keeper

(* No step but an activation brings a deleted model back. *)
LEMMA RestoreStep ==
    ASSUME TypeOK, LocksHeld, StagesReached, UnfinishedKnown, NothingToRestore, [Next]_vars
    PROVE  NothingToRestore'
<1>1. ASSUME NEW p \in Process, Recover(p)
      PROVE  NothingToRestore'
  BY <1>1, StoreAssumption DEF Recover, Goto, Recovered, disk, counts, seen, Leave,
     TypeOK, DiskTypeOK, ControlTypeOK, CountTypeOK, Label, Process, Directory,
     NoVersion, LocksHeld, StagesReached, UnfinishedKnown, NothingToRestore, Unfinished,
     RecoverLabels, ActivateLabels
<1>2. ASSUME NEW p \in Process, RecoverErode(p)
      PROVE  NothingToRestore'
  BY <1>2, StoreAssumption, ErodedFacts DEF RecoverErode, control, counts, seen, TypeOK,
     DiskTypeOK, ControlTypeOK, CountTypeOK, Label, Process, Directory, NoVersion,
     LocksHeld, StagesReached, UnfinishedKnown, NothingToRestore, Unfinished,
     RecoverLabels, ActivateLabels
<1>3. ASSUME NEW p \in Process, RecoverClear(p)
      PROVE  NothingToRestore'
  BY <1>3, StoreAssumption, NoDirectoryFacts DEF RecoverClear, Goto, Leave, Fault,
     NoFault, seen, TypeOK, DiskTypeOK, ControlTypeOK, CountTypeOK, Label, Process,
     Directory, NoVersion, LocksHeld, StagesReached, UnfinishedKnown, NothingToRestore,
     Unfinished, RecoverLabels, ActivateLabels
<1>4. ASSUME NEW p \in Process, RecoverRestore(p)
      PROVE  NothingToRestore'
  BY <1>4, StoreAssumption, NoDirectoryFacts DEF RecoverRestore, Goto, Leave, Fault,
     NoFault, seen, TypeOK, DiskTypeOK, ControlTypeOK, CountTypeOK, Label, Process,
     Directory, NoVersion, LocksHeld, StagesReached, UnfinishedKnown, NothingToRestore,
     Unfinished, RecoverLabels, ActivateLabels
<1>5. ASSUME NEW p \in Process, RecoverUnjournal(p)
      PROVE  NothingToRestore'
  BY <1>5, StoreAssumption DEF RecoverUnjournal, Leave, Recovered, Fault, NoFault, seen,
     Goto, TypeOK, DiskTypeOK, ControlTypeOK, CountTypeOK, Label, Process, Directory,
     NoVersion, LocksHeld, StagesReached, UnfinishedKnown, NothingToRestore, Unfinished,
     RecoverLabels, ActivateLabels
<1>6. ASSUME NEW p \in Process, RecoverDropStale(p)
      PROVE  NothingToRestore'
  BY <1>6, StoreAssumption, ErodedFacts, NoDirectoryFacts DEF RecoverDropStale, Leave,
     Recovered, Fault, NoFault, seen, Goto, TypeOK, DiskTypeOK, ControlTypeOK,
     CountTypeOK, Label, Process, Directory, NoVersion, LocksHeld, StagesReached,
     UnfinishedKnown, NothingToRestore, Unfinished, RecoverLabels, ActivateLabels
<1>7. ASSUME NEW p \in Process, Inspect(p)
      PROVE  NothingToRestore'
  <2>1. installed'.exists = installed.exists
    BY <1>7, InspectFacts DEF isExactInstalled, TypeOK, DiskTypeOK, Directory
  <2> QED
    BY <1>7, <2>1, InspectFacts DEF counts, NothingToRestore, Unfinished
<1>8. CASE Readiness
  BY <1>8, StoreAssumption DEF Readiness, TakeLock, disk, counts, seen, Goto, TypeOK,
     DiskTypeOK, ControlTypeOK, CountTypeOK, Label, Process, Directory, NoVersion,
     LocksHeld, StagesReached, UnfinishedKnown, NothingToRestore, Unfinished,
     RecoverLabels, ActivateLabels
<1>9. ASSUME NEW complete \in BOOLEAN, Download(complete)
      PROVE  NothingToRestore'
  BY <1>9, StoreAssumption DEF Download, Goto, seen, TypeOK, DiskTypeOK, ControlTypeOK,
     CountTypeOK, Label, Process, Directory, NoVersion, LocksHeld, StagesReached,
     UnfinishedKnown, NothingToRestore, Unfinished, RecoverLabels, ActivateLabels
<1>10. CASE validateStaged
  BY <1>10, StoreAssumption DEF validateStaged, Goto, counts, seen, TypeOK, DiskTypeOK,
     ControlTypeOK, CountTypeOK, Label, Process, Directory, NoVersion, LocksHeld,
     StagesReached, UnfinishedKnown, NothingToRestore, Unfinished, RecoverLabels,
     ActivateLabels
<1>11. CASE EnterActivation
  BY <1>11, StoreAssumption DEF EnterActivation, Goto, disk, counts, seen, TypeOK,
     DiskTypeOK, ControlTypeOK, CountTypeOK, Label, Process, Directory, NoVersion,
     LocksHeld, StagesReached, UnfinishedKnown, NothingToRestore, Unfinished,
     RecoverLabels, ActivateLabels
<1>12. CASE GiveUp
  BY <1>12, StoreAssumption DEF GiveUp, Goto, disk, counts, seen, TypeOK, DiskTypeOK,
     ControlTypeOK, CountTypeOK, Label, Process, Directory, NoVersion, LocksHeld,
     StagesReached, UnfinishedKnown, NothingToRestore, Unfinished, RecoverLabels,
     ActivateLabels
<1>13. CASE ReadBefore
  BY <1>13, StoreAssumption DEF ReadBefore, TakeLock, disk, counts, seen, Goto, TypeOK,
     DiskTypeOK, ControlTypeOK, CountTypeOK, Label, Process, Directory, NoVersion,
     LocksHeld, StagesReached, UnfinishedKnown, NothingToRestore, Unfinished,
     RecoverLabels, ActivateLabels
<1>14. CASE activateStaged
  BY <1>14, StoreAssumption DEF activateStaged, TakeLock, disk, counts, seen, Goto,
     TypeOK, DiskTypeOK, ControlTypeOK, CountTypeOK, Label, Process, Directory,
     NoVersion, LocksHeld, StagesReached, UnfinishedKnown, NothingToRestore, Unfinished,
     RecoverLabels, ActivateLabels
<1>15. CASE Begin
  BY <1>15, StoreAssumption DEF Begin, Goto, Leave, counts, seen, TypeOK, DiskTypeOK,
     ControlTypeOK, CountTypeOK, Label, Process, Directory, NoVersion, LocksHeld,
     StagesReached, UnfinishedKnown, NothingToRestore, Unfinished, RecoverLabels,
     ActivateLabels
<1>16. CASE Retain
  BY <1>16, StoreAssumption, NoDirectoryFacts DEF Retain, Undo, Proceed, Fault, NoFault,
     seen, Goto, TypeOK, DiskTypeOK, ControlTypeOK, CountTypeOK, Label, Process,
     Directory, NoVersion, LocksHeld, StagesReached, UnfinishedKnown, NothingToRestore,
     Unfinished, RecoverLabels, ActivateLabels
<1>17. CASE Place
  <2>1. deleted' => deleted /\ UNCHANGED <<installed, backup, journal>>
    BY <1>17 DEF Place
  <2>2. faults' < 2 => faults < 2
    BY <1>17, StoreAssumption DEF Place, Fault, NoFault, TypeOK, CountTypeOK
  <2> QED
    BY <2>1, <2>2 DEF NothingToRestore, Unfinished
<1>18. CASE Verify
  BY <1>18, StoreAssumption DEF Verify, Inspected, isExactInstalled, Undo, Proceed,
     counts, seen, Marked, Goto, TypeOK, DiskTypeOK, ControlTypeOK, CountTypeOK, Label,
     Process, Directory, NoVersion, LocksHeld, StagesReached, UnfinishedKnown,
     NothingToRestore, Unfinished, RecoverLabels, ActivateLabels
<1>19. CASE Commit
  <2>1. deleted' = deleted /\ UNCHANGED <<installed, backup>> /\ (journal' => journal)
    BY <1>19 DEF Commit, seen
  <2>2. faults' < 2 => faults < 2
    BY <1>19, StoreAssumption DEF Commit, Fault, NoFault, TypeOK, CountTypeOK
  <2> QED
    BY <2>1, <2>2 DEF NothingToRestore, Unfinished
<1>20. CASE DropBackup
  BY <1>20, StoreAssumption, ErodedFacts, NoDirectoryFacts DEF DropBackup, Leave, Fault,
     NoFault, seen, Goto, TypeOK, DiskTypeOK, ControlTypeOK, CountTypeOK, Label,
     Process, Directory, NoVersion, LocksHeld, StagesReached, UnfinishedKnown,
     NothingToRestore, Unfinished, RecoverLabels, ActivateLabels
<1>21. CASE Delete
  BY <1>21, StoreAssumption DEF Delete, Goto, disk, counts, seen, TypeOK, DiskTypeOK,
     ControlTypeOK, CountTypeOK, Label, Process, Directory, NoVersion, LocksHeld,
     StagesReached, UnfinishedKnown, NothingToRestore, Unfinished, RecoverLabels,
     ActivateLabels
<1>22. CASE DeleteErode
  BY <1>22, StoreAssumption, ErodedFacts DEF DeleteErode, control, counts, seen, TypeOK,
     DiskTypeOK, ControlTypeOK, CountTypeOK, Label, Process, Directory, NoVersion,
     LocksHeld, StagesReached, UnfinishedKnown, NothingToRestore, Unfinished,
     RecoverLabels, ActivateLabels
<1>23. CASE DeleteDone
  <2>1. faults' < 2 => faults < 2
    BY <1>23, StoreAssumption DEF DeleteDone, Fault, NoFault, TypeOK, CountTypeOK
  <2>2. pc["keeper"] = "delete" /\ mutex = "keeper"
    BY <1>23 DEF DeleteDone, LocksHeld
  <2>3. pc["installer"] \notin {"place", "verify", "commit"} \cup RecoverLabels
    BY <2>2 DEF LocksHeld, ActivateLabels
  <2>4. faults < 2 => ~Unfinished
    BY <2>2, <2>3 DEF UnfinishedKnown, RecoverLabels
  <2>5. \/ UNCHANGED <<backup, journal>> /\ ~installed'.exists
        \/ UNCHANGED <<deleted, installed, backup, journal>>
    BY <1>23, NoDirectoryFacts DEF DeleteDone
  <2> QED
    BY <2>1, <2>4, <2>5 DEF NothingToRestore, Unfinished
<1>24. CASE Acquire
  BY <1>24, StoreAssumption DEF Acquire, Goto, disk, counts, seen, TypeOK, DiskTypeOK,
     ControlTypeOK, CountTypeOK, Label, Process, Directory, NoVersion, LocksHeld,
     StagesReached, UnfinishedKnown, NothingToRestore, Unfinished, RecoverLabels,
     ActivateLabels
<1>25. CASE ReadForLoad
  BY <1>25, StoreAssumption DEF ReadForLoad, TakeLock, disk, counts, seen, Goto, TypeOK,
     DiskTypeOK, ControlTypeOK, CountTypeOK, Label, Process, Directory, NoVersion,
     LocksHeld, StagesReached, UnfinishedKnown, NothingToRestore, Unfinished,
     RecoverLabels, ActivateLabels
<1>26. CASE Loaded
  BY <1>26, StoreAssumption DEF Loaded, Leave, disk, counts, Goto, TypeOK, DiskTypeOK,
     ControlTypeOK, CountTypeOK, Label, Process, Directory, NoVersion, LocksHeld,
     StagesReached, UnfinishedKnown, NothingToRestore, Unfinished, RecoverLabels,
     ActivateLabels
<1>27. CASE LoadFailed
  BY <1>27, StoreAssumption DEF LoadFailed, Goto, Leave, disk, counts, seen, TypeOK,
     DiskTypeOK, ControlTypeOK, CountTypeOK, Label, Process, Directory, NoVersion,
     LocksHeld, StagesReached, UnfinishedKnown, NothingToRestore, Unfinished,
     RecoverLabels, ActivateLabels
<1>28. CASE invalidate
  BY <1>28, StoreAssumption DEF invalidate, Leave, counts, Goto, TypeOK, DiskTypeOK,
     ControlTypeOK, CountTypeOK, Label, Process, Directory, NoVersion, LocksHeld,
     StagesReached, UnfinishedKnown, NothingToRestore, Unfinished, RecoverLabels,
     ActivateLabels
<1>29. CASE ReleaseRuntime
  BY <1>29, StoreAssumption DEF ReleaseRuntime, disk, control, counts, TypeOK,
     DiskTypeOK, ControlTypeOK, CountTypeOK, Label, Process, Directory, NoVersion,
     LocksHeld, StagesReached, UnfinishedKnown, NothingToRestore, Unfinished,
     RecoverLabels, ActivateLabels
<1>30. CASE Crash
  BY <1>30, StoreAssumption DEF Crash, disk, TypeOK, DiskTypeOK, ControlTypeOK,
     CountTypeOK, Label, Process, Directory, NoVersion, LocksHeld, StagesReached,
     UnfinishedKnown, NothingToRestore, Unfinished, RecoverLabels, ActivateLabels
<1>31. CASE UNCHANGED vars
  BY <1>31 DEF vars, TypeOK, DiskTypeOK, ControlTypeOK, CountTypeOK, Label, Process,
     Directory, NoVersion, LocksHeld, StagesReached, UnfinishedKnown, NothingToRestore,
     Unfinished, RecoverLabels, ActivateLabels
<1> QED
  BY <1>1, <1>2, <1>3, <1>4, <1>5, <1>6, <1>7, <1>8, <1>9, <1>10, <1>11, <1>12, <1>13,
     <1>14, <1>15, <1>16, <1>17, <1>18, <1>19, <1>20, <1>21, <1>22, <1>23, <1>24, <1>25,
     <1>26, <1>27, <1>28, <1>29, <1>30, <1>31 DEF Next, RecoverStep, Installer, Keeper

(* The first state, with or without a model, satisfies the invariant.      *)
LEMMA InitIInv == Init => IInv
<1> SUFFICES ASSUME Init PROVE IInv
  OBVIOUS
<1>1. CountTypeOK
  BY StoreAssumption DEF Init, CountTypeOK
<1>2. TypeOK
  BY <1>1, NoDirectoryFacts DEF Init, TypeOK, DiskTypeOK, ControlTypeOK, Label, Process,
     NoVersion
<1>3. LocksHeld /\ StagesReached
  BY DEF Init, LocksHeld, StagesReached, Process, RecoverLabels, ActivateLabels
<1>4. DirectoriesSound
  <2>1. NoVersion <= app
    BY StoreAssumption DEF Init, NoVersion
  <2> QED
    BY <2>1, NoDirectoryFacts DEF Init, DirectoriesSound, Sound
<1>5. UseIsQuiet /\ UnfinishedKnown /\ NothingToRestore
  BY DEF Init, UseIsQuiet, RuntimeFilesUntouched, UnfinishedKnown, NothingToRestore,
     Unfinished
<1> QED
  BY <1>2, <1>3, <1>4, <1>5 DEF IInv

(* The inductive invariant holds in every state of the store.              *)
LEMMA IInvAlways == Spec => []IInv
<1>1. ASSUME IInv, [Next]_vars PROVE IInv'
  BY <1>1, TypeStep, LocksStep, DirectoriesStep, StagesStep, UseStep, UnfinishedStep,
     RestoreStep DEF IInv
<1> QED
  BY InitIInv, <1>1, PTL DEF Spec

-----------------------------------------------------------------------------
(* The theorems.                                                           *)

(* The directories, the locks and the counters keep their types. *)
THEOREM TypeCorrect == Spec => []TypeOK
<1>1. IInv => TypeOK
  BY DEF IInv
<1> QED
  BY IInvAlways, <1>1, PTL

(* The version checked before a load stays whole under the runtime, whoever *)
(* recovers or inspects the directory without runtimeMutex.                 *)
THEOREM RuntimeFiles == Spec => []RuntimeFilesUntouched
<1>1. IInv => RuntimeFilesUntouched
  BY DEF IInv, UseIsQuiet
<1> QED
  BY IInvAlways, <1>1, PTL

(* With fewer than two failures, no backup brings a deleted model back. *)
THEOREM DeletedStays == Spec => []DeletedStaysDeleted
<1>1. IInv => DeletedStaysDeleted
  BY DEF IInv, NothingToRestore, Unfinished, DirectoriesSound, Sound,
     DeletedStaysDeleted, Usable, Surviving, Marked
<1> QED
  BY IInvAlways, <1>1, PTL

-----------------------------------------------------------------------------
(* The refinement: the atomic store takes a step at the placement of a     *)
(* first version, at the commit over an earlier one, and at the stages of  *)
(* a removal; every other step of the store leaves it alone.               *)

(* Who is in recover() or in the body of activateStaged() removes nothing. *)
LEMMA RemovingAlone ==
    ASSUME TypeOK, LocksHeld, mutex = "installer"
    PROVE  ~Removing
  BY DEF LocksHeld, Removing, TypeOK, ControlTypeOK, Process

(* A directory without a marker, or without its artifacts, is not usable. *)
LEMMA StrippedFacts ==
    ASSUME NEW d \in Directory
    PROVE  /\ ~Marked([d EXCEPT !.marker = NoVersion])
           /\ \A e \in Eroded(d) : ~Marked(e) /\ e.exists = d.exists
  BY DEF Marked, Eroded, Directory, NoVersion

(* Every step of the store is a step of the atomic store, or leaves it alone. *)
LEMMA RefineStep ==
    ASSUME IInv, [Next]_vars
    PROVE  [Promise!Next]_(Promise!vars)
<1> USE DEF IInv
<1>1. ASSUME NEW p \in Process, Recover(p)
      PROVE  UNCHANGED <<Usable, Removing>>
  BY <1>1 DEF Recover, Goto, Recovered, disk, counts, seen, Leave, TypeOK, DiskTypeOK,
     ControlTypeOK, Process, LocksHeld, StagesReached, Usable, Surviving, Removing,
     RecoverLabels, ActivateLabels
<1>2. ASSUME NEW p \in Process, RecoverErode(p)
      PROVE  UNCHANGED <<Usable, Removing>>
  BY <1>2 DEF RecoverErode, control, counts, seen, TypeOK, DiskTypeOK, ControlTypeOK,
     Process, LocksHeld, StagesReached, Usable, Surviving, Removing, RecoverLabels,
     ActivateLabels
<1>3. ASSUME NEW p \in Process, RecoverClear(p)
      PROVE  UNCHANGED <<Usable, Removing>>
  BY <1>3, NoDirectoryFacts DEF RecoverClear, Goto, Leave, seen, TypeOK, DiskTypeOK,
     ControlTypeOK, Process, LocksHeld, StagesReached, Usable, Surviving, Removing,
     RecoverLabels, ActivateLabels
<1>4. ASSUME NEW p \in Process, RecoverRestore(p)
      PROVE  UNCHANGED <<Usable, Removing>>
  BY <1>4, NoDirectoryFacts DEF RecoverRestore, Goto, Leave, seen, TypeOK, DiskTypeOK,
     ControlTypeOK, Process, LocksHeld, StagesReached, Usable, Surviving, Removing,
     RecoverLabels, ActivateLabels
<1>5. ASSUME NEW p \in Process, RecoverUnjournal(p)
      PROVE  UNCHANGED <<Usable, Removing>>
  BY <1>5 DEF RecoverUnjournal, Leave, Recovered, seen, Goto, TypeOK, DiskTypeOK,
     ControlTypeOK, Process, LocksHeld, StagesReached, Usable, Surviving, Removing,
     RecoverLabels, ActivateLabels
<1>6. ASSUME NEW p \in Process, RecoverDropStale(p)
      PROVE  UNCHANGED <<Usable, Removing>>
  BY <1>6, NoDirectoryFacts DEF RecoverDropStale, Leave, Recovered, seen, Goto, TypeOK,
     DiskTypeOK, ControlTypeOK, Process, LocksHeld, StagesReached, Usable, Surviving,
     Removing, RecoverLabels, ActivateLabels
<1>7. ASSUME NEW p \in Process, Inspect(p)
      PROVE  UNCHANGED <<Usable, Removing>>
  <2>1. ~journal /\ journal' = journal
    BY <1>7, InspectFacts DEF StagesReached
  <2>2. installed' = IF Marked(installed) THEN installed
                     ELSE [installed EXCEPT !.marker = NoVersion]
    BY <1>7, InspectFacts DEF isExactInstalled
  <2>3. Usable' = Usable
    BY <2>1, <2>2, StrippedFacts DEF Usable, Surviving, TypeOK, DiskTypeOK
  <2>4. Removing' = Removing
    BY <1>7, InspectFacts DEF Removing, TypeOK, ControlTypeOK, Process
  <2> QED
    BY <2>3, <2>4
<1>8. ASSUME Readiness
      PROVE  UNCHANGED <<Usable, Removing>>
  BY <1>8 DEF Readiness, TakeLock, disk, counts, seen, Goto, TypeOK, DiskTypeOK,
     ControlTypeOK, Process, LocksHeld, StagesReached, Usable, Surviving, Removing,
     RecoverLabels, ActivateLabels
<1>9. ASSUME NEW complete \in BOOLEAN, Download(complete)
      PROVE  UNCHANGED <<Usable, Removing>>
  BY <1>9 DEF Download, Goto, seen, TypeOK, DiskTypeOK, ControlTypeOK, Process,
     LocksHeld, StagesReached, Usable, Surviving, Removing, RecoverLabels,
     ActivateLabels
<1>10. ASSUME validateStaged
      PROVE  UNCHANGED <<Usable, Removing>>
  BY <1>10 DEF validateStaged, Goto, counts, seen, TypeOK, DiskTypeOK, ControlTypeOK,
     Process, LocksHeld, StagesReached, Usable, Surviving, Removing, RecoverLabels,
     ActivateLabels
<1>11. ASSUME EnterActivation
      PROVE  UNCHANGED <<Usable, Removing>>
  BY <1>11 DEF EnterActivation, Goto, disk, counts, seen, TypeOK, DiskTypeOK,
     ControlTypeOK, Process, LocksHeld, StagesReached, Usable, Surviving, Removing,
     RecoverLabels, ActivateLabels
<1>12. ASSUME GiveUp
      PROVE  UNCHANGED <<Usable, Removing>>
  BY <1>12 DEF GiveUp, Goto, disk, counts, seen, TypeOK, DiskTypeOK, ControlTypeOK,
     Process, LocksHeld, StagesReached, Usable, Surviving, Removing, RecoverLabels,
     ActivateLabels
<1>13. ASSUME ReadBefore
      PROVE  UNCHANGED <<Usable, Removing>>
  BY <1>13 DEF ReadBefore, TakeLock, disk, counts, seen, Goto, TypeOK, DiskTypeOK,
     ControlTypeOK, Process, LocksHeld, StagesReached, Usable, Surviving, Removing,
     RecoverLabels, ActivateLabels
<1>14. ASSUME activateStaged
      PROVE  UNCHANGED <<Usable, Removing>>
  BY <1>14 DEF activateStaged, TakeLock, disk, counts, seen, Goto, TypeOK, DiskTypeOK,
     ControlTypeOK, Process, LocksHeld, StagesReached, Usable, Surviving, Removing,
     RecoverLabels, ActivateLabels
<1>15. ASSUME Begin
      PROVE  UNCHANGED <<Usable, Removing>>
  BY <1>15 DEF Begin, Goto, Leave, counts, seen, TypeOK, DiskTypeOK, ControlTypeOK,
     Process, LocksHeld, StagesReached, Usable, Surviving, Removing, RecoverLabels,
     ActivateLabels
<1>16. ASSUME Retain
      PROVE  UNCHANGED <<Usable, Removing>>
  BY <1>16, NoDirectoryFacts DEF Retain, Undo, Proceed, seen, Goto, TypeOK, DiskTypeOK,
     ControlTypeOK, Process, LocksHeld, StagesReached, Usable, Surviving, Removing,
     RecoverLabels, ActivateLabels
<1>17. ASSUME Place
      PROVE  Promise!Next \/ UNCHANGED <<Usable, Removing>>
  <2>1. journal /\ journal' = journal /\ ~installed.exists /\ Placed(staged[app])
    BY <1>17 DEF Place, StagesReached
  <2>2. mutex = "installer" /\ mutex' = "installer" /\ app \in Versions /\ app # NoVersion
    BY <1>17, StoreAssumption DEF Place, LocksHeld, ActivateLabels, Proceed, Undo,
       TypeOK, NoVersion
  <2>3. ~Removing /\ ~Removing'
    BY <1>17, <2>2, RemovingAlone DEF Place, Proceed, Undo, Goto, Removing, TypeOK,
       ControlTypeOK, Process
  <2>4. CASE UNCHANGED <<installed, staged, deleted>> \/ backup.exists
    BY <1>17, <2>1, <2>3, <2>4 DEF Place, Usable, Surviving, Marked, Removing
  <2>5. CASE installed' = staged[app] /\ ~backup.exists
    <3>1. Usable = NoVersion
      BY <2>1, <2>5 DEF Usable, Surviving, Marked, DirectoriesSound, Sound
    <3>2. Usable' = app
      BY <1>17, <2>1, <2>2, <2>5 DEF Place, Usable, Surviving, Marked, Placed
    <3>3. app >= Usable
      BY <2>2, <3>1, StoreAssumption DEF NoVersion
    <3> QED
      BY <2>2, <2>3, <3>2, <3>3 DEF Removing, Promise!Next, Promise!Install
  <2> QED
    BY <1>17, <2>4, <2>5 DEF Place
<1>18. ASSUME Verify
      PROVE  UNCHANGED <<Usable, Removing>>
  BY <1>18 DEF Verify, Inspected, isExactInstalled, Undo, Proceed, counts, seen, Marked,
     Goto, TypeOK, DiskTypeOK, ControlTypeOK, Process, LocksHeld, StagesReached, Usable,
     Surviving, Removing, RecoverLabels, ActivateLabels
<1>19. ASSUME Commit
      PROVE  Promise!Next \/ UNCHANGED <<Usable, Removing>>
  <2>1. journal /\ Placed(installed) /\ UNCHANGED <<installed, backup, app>>
    BY <1>19 DEF Commit, StagesReached
  <2>2. mutex = "installer" /\ app \in Versions /\ app # NoVersion
    BY <1>19, StoreAssumption DEF Commit, LocksHeld, ActivateLabels, TypeOK, NoVersion
  <2>3. ~Removing /\ ~Removing'
    BY <1>19, <2>2, RemovingAlone DEF Commit, Proceed, Undo, Goto, Removing, TypeOK,
       ControlTypeOK, Process
  <2>4. CASE UNCHANGED journal
    BY <2>1, <2>3, <2>4 DEF Usable, Surviving, Marked, Removing
  <2>5. CASE ~journal'
    <3>1. Usable' = app
      BY <2>1, <2>2, <2>5 DEF Usable, Surviving, Marked, Placed
    <3>2. Usable \in {installed.marker, backup.marker, NoVersion}
      BY DEF Usable, Surviving
    <3>3. app >= Usable
      BY <2>2, <3>2, StoreAssumption DEF NoVersion, DirectoriesSound
    <3> QED
      BY <2>2, <2>3, <3>1, <3>3 DEF Removing, Promise!Next, Promise!Install
  <2> QED
    BY <1>19, <2>4, <2>5 DEF Commit
<1>20. ASSUME DropBackup
      PROVE  UNCHANGED <<Usable, Removing>>
  BY <1>20, NoDirectoryFacts DEF DropBackup, Leave, seen, Goto, TypeOK, DiskTypeOK,
     ControlTypeOK, Process, LocksHeld, StagesReached, Usable, Surviving, Removing,
     RecoverLabels, ActivateLabels
<1>21. ASSUME Delete
      PROVE  Promise!Next \/ UNCHANGED <<Usable, Removing>>
  <2>1. Usable' = Usable
    BY <1>21 DEF Delete, disk, Usable, Surviving
  <2>2. Removing'
    BY <1>21 DEF Delete, Goto, Removing, TypeOK, ControlTypeOK, Process
  <2> QED
    BY <2>1, <2>2 DEF Promise!Next, Promise!AskRemoval, Removing
<1>22. ASSUME DeleteErode
      PROVE  Promise!Next \/ UNCHANGED <<Usable, Removing>>
  <2>1. Removing /\ Removing' /\ UNCHANGED <<backup, journal>>
    BY <1>22 DEF DeleteErode, control, Removing
  <2>2. Usable' = Usable \/ Usable' = NoVersion
    <3>1. ~Marked(installed') /\ installed'.exists = installed.exists
      BY <1>22, StrippedFacts DEF DeleteErode, TypeOK, DiskTypeOK
    <3> QED
      BY <2>1, <3>1 DEF Usable, Surviving, Marked
  <2> QED
    BY <2>1, <2>2 DEF Removing, Promise!Next, Promise!Remove, NoVersion,
       Promise!NoVersion
<1>23. ASSUME DeleteDone
      PROVE  Promise!Next \/ UNCHANGED <<Usable, Removing>>
  <2>1. Removing /\ ~Removing'
    BY <1>23 DEF DeleteDone, Leave, Goto, Removing, TypeOK, ControlTypeOK, Process
  <2>2. Usable' = Usable \/ Usable' = NoVersion
    BY <1>23, NoDirectoryFacts DEF DeleteDone, Usable, Surviving, Marked
  <2> QED
    BY <2>1, <2>2 DEF Removing, Promise!Next, Promise!Remove, Promise!EndRemoval,
       NoVersion, Promise!NoVersion
<1>24. ASSUME Acquire
      PROVE  UNCHANGED <<Usable, Removing>>
  BY <1>24 DEF Acquire, Goto, disk, counts, seen, TypeOK, DiskTypeOK, ControlTypeOK,
     Process, LocksHeld, StagesReached, Usable, Surviving, Removing, RecoverLabels,
     ActivateLabels
<1>25. ASSUME ReadForLoad
      PROVE  UNCHANGED <<Usable, Removing>>
  BY <1>25 DEF ReadForLoad, TakeLock, disk, counts, seen, Goto, TypeOK, DiskTypeOK,
     ControlTypeOK, Process, LocksHeld, StagesReached, Usable, Surviving, Removing,
     RecoverLabels, ActivateLabels
<1>26. ASSUME Loaded
      PROVE  UNCHANGED <<Usable, Removing>>
  BY <1>26 DEF Loaded, Leave, disk, counts, Goto, TypeOK, DiskTypeOK, ControlTypeOK,
     Process, LocksHeld, StagesReached, Usable, Surviving, Removing, RecoverLabels,
     ActivateLabels
<1>27. ASSUME LoadFailed
      PROVE  Promise!Next \/ UNCHANGED <<Usable, Removing>>
  <2>1. Usable' = Usable /\ ~Removing
    BY <1>27 DEF LoadFailed, disk, Usable, Surviving, Removing
  <2>2. Removing' \in BOOLEAN
    BY DEF Removing
  <2> QED
    BY <2>1, <2>2 DEF Promise!Next, Promise!AskRemoval, Removing
<1>28. ASSUME invalidate
      PROVE  Promise!Next \/ UNCHANGED <<Usable, Removing>>
  <2>1. Removing /\ ~Removing'
    BY <1>28 DEF invalidate, Leave, Goto, Removing, TypeOK, ControlTypeOK, Process
  <2>2. Usable' = Usable \/ Usable' = NoVersion
    BY <1>28, StrippedFacts DEF invalidate, Usable, Surviving, TypeOK, DiskTypeOK
  <2> QED
    BY <2>1, <2>2 DEF Removing, Promise!Next, Promise!Remove, Promise!EndRemoval,
       NoVersion, Promise!NoVersion
<1>29. ASSUME ReleaseRuntime
      PROVE  UNCHANGED <<Usable, Removing>>
  BY <1>29 DEF ReleaseRuntime, disk, control, counts, TypeOK, DiskTypeOK, ControlTypeOK,
     Process, LocksHeld, StagesReached, Usable, Surviving, Removing, RecoverLabels,
     ActivateLabels
<1>30. ASSUME Crash
      PROVE  Promise!Next \/ UNCHANGED <<Usable, Removing>>
  <2>1. Usable' = Usable
    BY <1>30 DEF Crash, disk, Usable, Surviving
  <2>2. ~Removing'
    BY <1>30 DEF Crash, Removing, Process
  <2> QED
    BY <2>1, <2>2 DEF Promise!Next, Promise!EndRemoval
<1>31. ASSUME UNCHANGED vars
      PROVE  UNCHANGED <<Usable, Removing>>
  BY <1>31 DEF vars, Usable, Surviving, Removing, Marked
<1> QED
  BY <1>1, <1>2, <1>3, <1>4, <1>5, <1>6, <1>7, <1>8, <1>9, <1>10, <1>11, <1>12, <1>13,
     <1>14, <1>15, <1>16, <1>17, <1>18, <1>19, <1>20, <1>21, <1>22, <1>23, <1>24, <1>25,
     <1>26, <1>27, <1>28, <1>29, <1>30, <1>31 DEF Next, RecoverStep, Installer, Keeper,
     Promise!Next, Promise!vars

(* Wherever the process dies and whichever move fails, the store behaves   *)
(* like the atomic one.                                                    *)
THEOREM Implements == Spec => ImplementsInstalledModel
<1>1. Init => Promise!Init
  BY NoDirectoryFacts DEF Init, Promise!Init, Usable, Surviving, Marked, Removing,
     Process, NoVersion, Promise!NoVersion
<1>2. IInv /\ [Next]_vars => [Promise!Next]_(Promise!vars)
  BY RefineStep
<1> QED
  BY IInvAlways, <1>1, <1>2, PTL DEF Spec, ImplementsInstalledModel, Promise!Spec

=============================================================================
