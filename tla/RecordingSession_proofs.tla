---------------------- MODULE RecordingSession_proofs -----------------------
(***************************************************************************)
(* Proofs about RecordingSession for any number of dictations and resets,  *)
(* every kind of backend and every set of failures.                        *)
(***************************************************************************)
EXTENDS RecordingSession, TLAPS

-----------------------------------------------------------------------------
(* What the helpers do to the types of the variables they assign.          *)

(* A dictation names its load, and the load its run may launch itself; no  *)
(* dictation and no load is None.                                          *)
LEMMA LoadNames ==
    /\ \A d \in Dictations : d \in Loads /\ RetryOf(d) \in Loads
    /\ None \notin Dictations /\ None \notin Loads
  BY ConstantsAssumption DEF Dictations, Loads, RetryOf, None

(* The start of a dictation moves within CreateStates.                     *)
LEMMA CreateTyped ==
    ASSUME NEW c \in [Dictations -> CreateStates], NEW d \in Dictations,
           NEW pc \in CreatePCs, NEW g \in Generations
    PROVE  /\ [c EXCEPT ![d].pc = pc] \in [Dictations -> CreateStates]
           /\ [c EXCEPT ![d].pc = pc, ![d].gen = g] \in [Dictations -> CreateStates]
  BY DEF CreateStates

(* A step of the capture coroutine keeps the type of cap.                  *)
LEMMA GoCaptureTyped ==
    ASSUME TypeOK, NEW u \in Dictations, NEW pc \in CapturePCs, GoCapture(u, pc)
    PROVE  cap' \in [Dictations -> CaptureStates]
  BY DEF TypeOK, GoCapture, CaptureStates

(* A step of a load coroutine keeps the type of load.                      *)
LEMMA GoLoadTyped ==
    ASSUME TypeOK, NEW l \in Loads, NEW pc \in LoadPCs, GoLoad(l, pc)
    PROVE  load' \in [Loads -> LoadStates]
  BY DEF TypeOK, GoLoad, LoadStates

(* The end of a load coroutine keeps the type of load.                     *)
LEMMA LoadEndsTyped ==
    ASSUME TypeOK, NEW l \in Loads, LoadEnds(l)
    PROVE  load' \in [Loads -> LoadStates]
  BY DEF TypeOK, LoadEnds, LoadStates, LoadPCs

(* loadModel() names a load and dispatches it, or does nothing.            *)
LEMMA LoadModelTyped ==
    ASSUME TypeOK, NEW l \in Loads, LoadModel(l)
    PROVE  /\ loadJob' \in Loads \cup {None}
           /\ load' \in [Loads -> LoadStates]
  BY DEF TypeOK, LoadModel, LoadStates, LoadPCs

(* Every update of one field of a run keeps the type of mod.               *)
LEMMA RunFieldTyped ==
    ASSUME NEW m \in [Dictations -> RunStates], NEW u \in Dictations,
           NEW pc \in RunPCs, NEW g \in Generations, NEW l \in Loads \cup {None}
    PROVE  /\ [m EXCEPT ![u].pc = pc] \in [Dictations -> RunStates]
           /\ [m EXCEPT ![u].gen = g] \in [Dictations -> RunStates]
           /\ [m EXCEPT ![u].waits = l] \in [Dictations -> RunStates]
           /\ [m EXCEPT ![u].runtime = l] \in [Dictations -> RunStates]
  BY DEF RunStates

(* The updates of several fields that the run coroutine makes at once.     *)
LEMMA RunMoveTyped ==
    ASSUME NEW m \in [Dictations -> RunStates], NEW u \in Dictations,
           NEW pc \in RunPCs, NEW b \in Loads \cup {None}
    PROVE  [m EXCEPT ![u].pc = pc, ![u].waits = None, ![u].runtime = b]
             \in [Dictations -> RunStates]
<1> DEFINE n == [m EXCEPT ![u].pc = pc]
           o == [n EXCEPT ![u].waits = None]
<1>1. n \in [Dictations -> RunStates]
  BY DEF RunStates
<1> HIDE DEF n
<1>2. o \in [Dictations -> RunStates]
  BY <1>1 DEF RunStates
<1> HIDE DEF o
<1>3. [o EXCEPT ![u].runtime = b] \in [Dictations -> RunStates]
  BY <1>2 DEF RunStates
<1> QED
  BY <1>3 DEF n, o

(* A run moves to a suspension at which it waits for a job.                *)
LEMMA RunWaitTyped ==
    ASSUME NEW m \in [Dictations -> RunStates], NEW u \in Dictations,
           NEW pc \in RunPCs, NEW w \in Loads \cup {None}
    PROVE  [m EXCEPT ![u].pc = pc, ![u].waits = w] \in [Dictations -> RunStates]
<1> DEFINE n == [m EXCEPT ![u].pc = pc]
<1>1. n \in [Dictations -> RunStates]
  BY DEF RunStates
<1> HIDE DEF n
<1>2. [n EXCEPT ![u].waits = w] \in [Dictations -> RunStates]
  BY <1>1 DEF RunStates
<1> QED
  BY <1>2 DEF n

(* A step of the run coroutine keeps the type of mod.                      *)
LEMMA GoRunTyped ==
    ASSUME TypeOK, NEW u \in Dictations, NEW pc \in RunPCs, GoRun(u, pc)
    PROVE  mod' \in [Dictations -> RunStates]
<1>1. None \in Loads \cup {None}
  OBVIOUS
<1>2. mod \in [Dictations -> RunStates]
  BY DEF TypeOK
<1>3. [mod EXCEPT ![u].pc = pc, ![u].waits = None, ![u].runtime = None]
        \in [Dictations -> RunStates]
  BY <1>1, <1>2, RunMoveTyped, Zenon
<1> QED
  BY <1>3 DEF GoRun

(* The start of runModel(), which reads the generation and the load job.   *)
LEMMA RunModelTyped ==
    ASSUME TypeOK, NEW u \in Dictations, RunModel(u)
    PROVE  mod' \in [Dictations -> RunStates]
<1> DEFINE n == [mod EXCEPT ![u].pc = "waitLoad"]
           o == [n EXCEPT ![u].gen = gen]
<1>1. n \in [Dictations -> RunStates]
  BY DEF TypeOK, RunStates, RunPCs
<1> HIDE DEF n
<1>2. o \in [Dictations -> RunStates]
  BY <1>1 DEF TypeOK, RunStates
<1> HIDE DEF o
<1>3. [o EXCEPT ![u].waits = loadJob] \in [Dictations -> RunStates]
  BY <1>2 DEF TypeOK, RunStates
<1> QED
  BY <1>3 DEF n, o, RunModel

(* A run that is over holds nothing.                                       *)
LEMMA OverTyped == Over \in RunStates
  BY ConstantsAssumption DEF Over, RunStates, RunPCs, Generations

(* onFinishRecording() launches the run of the recorded utterance.         *)
LEMMA OnFinishRecordingTyped ==
    ASSUME TypeOK, OnFinishRecording
    PROVE  /\ isRecording' \in BOOLEAN
           /\ modelJob' \in Dictations \cup {None}
           /\ mod' \in [Dictations -> RunStates]
<1>1. [mod EXCEPT ![recorderJob].pc = "dispatched"] \in [Dictations -> RunStates]
  BY DEF TypeOK, RunStates, RunPCs
<1> QED
  BY <1>1 DEF TypeOK, OnFinishRecording

(* The microphone and the session are given back, or kept.                 *)
LEMMA StopAndReleaseRecorderTyped ==
    ASSUME TypeOK, NEW t, StopAndReleaseRecorder(t)
    PROVE  recorder' \in Dictations \cup {None} /\ micOn' \subseteq Dictations
  BY DEF TypeOK, StopAndReleaseRecorder, mic

(* releaseModelSession() clears the field, or keeps it.                    *)
LEMMA ReleaseModelSessionTyped ==
    ASSUME TypeOK, NEW g, ReleaseModelSession(g)
    PROVE  session' \in Dictations \cup {None} /\ openSessions' \subseteq Dictations
  BY DEF TypeOK, ReleaseModelSession, leases

(* failRecognition() keeps the types of everything it touches.             *)
LEMMA FailRecognitionTyped ==
    ASSUME TypeOK, NEW g, FailRecognition(g)
    PROVE  /\ stopReason' \in StopReasons
           /\ isRecording' \in BOOLEAN
           /\ recorder' \in Dictations \cup {None} /\ micOn' \subseteq Dictations
           /\ session' \in Dictations \cup {None} /\ openSessions' \subseteq Dictations
           /\ outcome' \in [Dictations -> Outcomes]
<1>1. CASE g # gen
  BY <1>1 DEF TypeOK, FailRecognition, mic, leases
<1>2. CASE g = gen
  <2>1. outcome' \in [Dictations -> Outcomes]
    BY <1>2 DEF TypeOK, FailRecognition, Outcomes
  <2> QED
    BY <1>2, <2>1, StopAndReleaseRecorderTyped, ReleaseModelSessionTyped
    DEF FailRecognition, StopReasons
<1> QED
  BY <1>1, <1>2

(* closeFailedBackend() releases a runtime and clears the fields.          *)
LEMMA CloseFailedBackendTyped ==
    ASSUME TypeOK, NEW g, CloseFailedBackend(g)
    PROVE  /\ backend' \in Loads \cup {None}
           /\ lease' \in Loads \cup {None}
           /\ live' \subseteq Loads
  BY DEF TypeOK, CloseFailedBackend

(* The failure of a run closes its backend, or is ignored.                 *)
LEMMA RunFailsTyped ==
    ASSUME TypeOK, NEW u \in Dictations, RunFails(u)
    PROVE  /\ mod' \in [Dictations -> RunStates]
           /\ backend' \in Loads \cup {None}
           /\ lease' \in Loads \cup {None}
           /\ live' \subseteq Loads
<1>1. "cleanup" \in RunPCs /\ "failMain" \in RunPCs
  BY DEF RunPCs
<1>2. CASE mod[u].gen # gen
  BY <1>1, <1>2, GoRunTyped DEF RunFails, TypeOK, runtimes
<1>3. CASE mod[u].gen = gen
  BY <1>1, <1>3, GoRunTyped, CloseFailedBackendTyped DEF RunFails
<1> QED
  BY <1>2, <1>3

(* The replay of the recorded audio is reset, or handed to a backend.      *)
LEMMA ReplayResetTyped ==
    ASSUME TypeOK, NEW on \in BOOLEAN, ReplayReset(on)
    PROVE  stream' \in StreamStates /\ heard' \in [Dictations -> HeardStates]
  BY DEF TypeOK, ReplayReset, StreamStates, HeardStates

(* startStreaming() keeps the types of the replay.                         *)
LEMMA StartStreamingTyped ==
    ASSUME TypeOK, NEW b \in Loads, StartStreaming(b)
    PROVE  stream' \in StreamStates /\ heard' \in [Dictations -> HeardStates]
  BY DEF TypeOK, StartStreaming, StreamStates, HeardStates, replay

(* A chunk of audio goes to one of the four places.                        *)
LEMMA HeardTyped ==
    ASSUME TypeOK, NEW u \in Dictations
    PROVE  Heard(u) \in HeardStates
  BY DEF TypeOK, Heard, HeardStates

-----------------------------------------------------------------------------
(* Type correctness.                                                       *)

(* The initial values of the fields have their types.                      *)
LEMMA TypeInit == Init => TypeOK
<1> SUFFICES ASSUME Init PROVE TypeOK
  OBVIOUS
<1>1. 0 \in Generations
  BY ConstantsAssumption DEF Generations
<1>2. create \in [Dictations -> CreateStates]
  BY <1>1 DEF Init, CreateStates, CreatePCs
<1>3. cap \in [Dictations -> CaptureStates]
  BY <1>1 DEF Init, CaptureStates, CapturePCs
<1>4. mod \in [Dictations -> RunStates]
  BY <1>1 DEF Init, RunStates, RunPCs
<1>5. load \in [Loads -> LoadStates]
  BY <1>1 DEF Init, LoadStates, LoadPCs
<1>6. clean \in [Generations -> CleanupStates]
  BY DEF Init, CleanupStates, NothingDue
<1>7. stream \in StreamStates
  BY DEF Init, StreamStates
<1>8. /\ file \in [Dictations -> FileStates]
      /\ heard \in [Dictations -> HeardStates]
      /\ outcome \in [Dictations -> Outcomes]
  BY DEF Init, FileStates, HeardStates, Outcomes
<1> QED
  BY <1>1, <1>2, <1>3, <1>4, <1>5, <1>6, <1>7, <1>8 DEF Init, TypeOK, StopReasons

(* Every step of every coroutine and handler keeps them.                   *)
LEMMA TypeNext == TypeOK /\ [Next]_vars => TypeOK'
<1> SUFFICES ASSUME TypeOK, [Next]_vars PROVE TypeOK'
  OBVIOUS
<1> USE DEF TypeOK, control, mic, leases, runtimes, history, jobs, replay, coroutines
<1>1. ASSUME NEW d \in Dictations, Create(d) PROVE TypeOK'
  BY <1>1 DEF Create, CreateStates, CreatePCs
<1>2. ASSUME NEW d \in Dictations, ModelRequired(d) PROVE TypeOK'
  BY <1>2, CreateTyped DEF ModelRequired, CreatePCs
<1>3. ASSUME NEW d \in Dictations, SettingsRead(d) PROVE TypeOK'
  <2>1. /\ [create EXCEPT ![d].pc = "acquire", ![d].gen = gen] \in [Dictations -> CreateStates]
        /\ [create EXCEPT ![d].pc = "asking", ![d].gen = gen] \in [Dictations -> CreateStates]
    BY CreateTyped DEF CreatePCs
  <2>2. stream' \in StreamStates /\ heard' \in [Dictations -> HeardStates]
    BY <1>3, ReplayResetTyped, ConstantsAssumption DEF SettingsRead
  <2> QED
    BY <1>3, <2>1, <2>2 DEF SettingsRead
<1>4. ASSUME NEW d \in Dictations, PermissionResult(d) PROVE TypeOK'
  <2>1. /\ [create EXCEPT ![d].pc = "acquire", ![d].gen = gen] \in [Dictations -> CreateStates]
        /\ [create EXCEPT ![d].pc = "done"] \in [Dictations -> CreateStates]
    BY CreateTyped DEF CreatePCs
  <2> QED
    BY <1>4, <2>1 DEF PermissionResult
<1>5. ASSUME NEW d \in Dictations, AcquireSession(d) PROVE TypeOK'
  BY <1>5, CreateTyped DEF AcquireSession, CreatePCs
<1>6. ASSUME NEW d \in Dictations, AcquireSessionFails(d) PROVE TypeOK'
  BY <1>6, CreateTyped, FailRecognitionTyped DEF AcquireSessionFails, CreatePCs
<1>7. ASSUME NEW d \in Dictations, DeclineSession(d) PROVE TypeOK'
  BY <1>7, CreateTyped DEF DeclineSession, CreatePCs
<1>8. ASSUME NEW d \in Dictations, StartRecording(d) PROVE TypeOK'
  <2>1. create' \in [Dictations -> CreateStates]
    BY <1>8, CreateTyped DEF StartRecording, CreatePCs
  <2>2. cap' \in [Dictations -> CaptureStates]
    BY <1>8 DEF StartRecording, CaptureStates, CapturePCs
  <2>3. loadJob' \in Loads \cup {None} /\ load' \in [Loads -> LoadStates]
    BY <1>8, LoadNames, LoadModelTyped DEF StartRecording
  <2>4. stream' \in StreamStates /\ heard' \in [Dictations -> HeardStates]
    BY <1>8, StartStreamingTyped DEF StartRecording
  <2> QED
    BY <1>8, <2>1, <2>2, <2>3, <2>4 DEF StartRecording, StopReasons
<1>9. ASSUME NEW d \in Dictations, RecorderDenied(d) PROVE TypeOK'
  BY <1>9, CreateTyped, StopAndReleaseRecorderTyped
  DEF RecorderDenied, CreatePCs, StopReasons
<1>10. ASSUME NEW d \in Dictations, CaptureBegins(d) PROVE TypeOK'
  BY <1>10, GoCaptureTyped DEF CaptureBegins, CapturePCs, FileStates
<1>11. ASSUME NEW d \in Dictations, CaptureNeverBegins(d) PROVE TypeOK'
  BY <1>11 DEF CaptureNeverBegins, CaptureStates, CapturePCs
<1>12. ASSUME NEW d \in Dictations, CaptureCancelled(d) PROVE TypeOK'
  BY <1>12, GoCaptureTyped DEF CaptureCancelled, CapturePCs
<1>13. ASSUME NEW d \in Dictations, LoopEnds(d) PROVE TypeOK'
  BY <1>13, GoCaptureTyped DEF LoopEnds, CapturePCs
<1>14. ASSUME NEW d \in Dictations, Append(d) PROVE TypeOK'
  BY <1>14, GoCaptureTyped, HeardTyped DEF Append, CapturePCs, FileStates
<1>15. ASSUME NEW d \in Dictations, AppendAtLimit(d) PROVE TypeOK'
  BY <1>15, GoCaptureTyped DEF AppendAtLimit, CapturePCs, StopReasons
<1>16. ASSUME NEW d \in Dictations, KeepListening(d) PROVE TypeOK'
  BY <1>16, GoCaptureTyped DEF KeepListening, CapturePCs
<1>17. ASSUME NEW d \in Dictations, VadStops(d) PROVE TypeOK'
  BY <1>17, GoCaptureTyped DEF VadStops, CapturePCs, StopReasons
<1>18. ASSUME NEW d \in Dictations, FinishFromCapture(d) PROVE TypeOK'
  BY <1>18, GoCaptureTyped, OnFinishRecordingTyped
  DEF FinishFromCapture, CapturePCs, StopReasons
<1>19. ASSUME NEW d \in Dictations, Epilogue(d) PROVE TypeOK'
  BY <1>19, GoCaptureTyped, OnFinishRecordingTyped DEF Epilogue, CapturePCs, StopReasons
<1>20. ASSUME NEW d \in Dictations, CaptureCloses(d) PROVE TypeOK'
  <2>1. cap' \in [Dictations -> CaptureStates]
    BY <1>20 DEF CaptureCloses, CaptureStates, CapturePCs
  <2>2. heard' \in [Dictations -> HeardStates]
    BY <1>20, HeardTyped DEF CaptureCloses, DrainTail
  <2>3. file' \in [Dictations -> FileStates]
    BY <1>20 DEF CaptureCloses, FileStates
  <2> QED
    BY <1>20, <2>1, <2>2, <2>3, StopAndReleaseRecorderTyped DEF CaptureCloses
<1>21. ASSUME NEW d \in Dictations, RunDispatched(d) PROVE TypeOK'
  <2>1. recorderJob \in Loads \cup {None}
    BY LoadNames
  <2>2. [mod EXCEPT ![d].pc = "joining", ![d].waits = recorderJob] \in [Dictations -> RunStates]
    BY <2>1, RunWaitTyped, ZenonT(60) DEF RunPCs
  <2>3. mod' \in [Dictations -> RunStates]
    BY <1>21, <2>2, RunModelTyped DEF RunDispatched
  <2> QED
    BY <1>21, <2>3 DEF RunDispatched
<1>22. ASSUME NEW d \in Dictations, RunNeverBegins(d) PROVE TypeOK'
  BY <1>22, OverTyped DEF RunNeverBegins
<1>23. ASSUME NEW d \in Dictations, JoinRecorder(d) PROVE TypeOK'
  BY <1>23, RunModelTyped DEF JoinRecorder
<1>24. ASSUME NEW d \in Dictations, RunCancelled(d) PROVE TypeOK'
  BY <1>24, GoRunTyped DEF RunCancelled, RunPCs
<1>25. ASSUME NEW d \in Dictations, LoadAwaited(d) PROVE TypeOK'
  <2>1. \A pc \in RunPCs, b \in Loads \cup {None} :
         [mod EXCEPT ![d].pc = pc, ![d].waits = None, ![d].runtime = b] \in [Dictations -> RunStates]
    BY RunMoveTyped
  <2>2. PICK pc \in RunPCs, b \in Loads \cup {None} :
         mod' = [mod EXCEPT ![d].pc = pc, ![d].waits = None, ![d].runtime = b]
    BY <1>25 DEF LoadAwaited, RunPCs
  <2>3. mod' \in [Dictations -> RunStates]
    BY <2>1, <2>2, Zenon
  <2> QED
    BY <1>25, <2>3 DEF LoadAwaited
<1>26. ASSUME NEW d \in Dictations, RetryLoad(d) PROVE TypeOK'
  <2>1. loadJob' \in Loads \cup {None} /\ load' \in [Loads -> LoadStates]
    BY <1>26, LoadNames, LoadModelTyped DEF RetryLoad
  <2>2. mod' \in [Dictations -> RunStates]
    BY <1>26, <2>1, RunWaitTyped DEF RetryLoad, RunPCs
  <2> QED
    BY <1>26, <2>1, <2>2 DEF RetryLoad
<1>27. ASSUME NEW d \in Dictations, RetryAwaited(d) PROVE TypeOK'
  <2>1. BackendFor(mod[d].gen) \in Loads \cup {None}
    BY DEF BackendFor
  <2>2. CASE BackendFor(mod[d].gen) = None
    BY <1>27, <2>2, RunFailsTyped DEF RetryAwaited
  <2>3. CASE BackendFor(mod[d].gen) # None
    <3>1. "decoding" \in RunPCs
      BY DEF RunPCs
    <3>2. [mod EXCEPT ![d].pc = "decoding", ![d].waits = None, ![d].runtime = BackendFor(mod[d].gen)]
           \in [Dictations -> RunStates]
      BY <2>1, <3>1, RunMoveTyped, Zenon
    <3>3. mod' \in [Dictations -> RunStates]
      BY <1>27, <2>3, <3>2 DEF RetryAwaited
    <3> QED
      BY <1>27, <2>3, <3>3 DEF RetryAwaited
  <2> QED
    BY <2>2, <2>3
<1>28. ASSUME NEW d \in Dictations, Decoded(d) PROVE TypeOK'
  <2>1. [mod EXCEPT ![d].pc = "releasing"] \in [Dictations -> RunStates]
    BY DEF RunStates, RunPCs
  <2> QED
    BY <1>28, <2>1, GoRunTyped DEF Decoded, RunPCs
<1>29. ASSUME NEW d \in Dictations, DecodeFails(d) PROVE TypeOK'
  BY <1>29, RunFailsTyped DEF DecodeFails
<1>30. ASSUME NEW d \in Dictations, ReleaseBackend(d) PROVE TypeOK'
  BY <1>30, GoRunTyped DEF ReleaseBackend, RunPCs
<1>31. ASSUME NEW d \in Dictations, Deliver(d) PROVE TypeOK'
  BY <1>31, GoRunTyped DEF Deliver, RunPCs, Outcomes
<1>32. ASSUME NEW d \in Dictations, DeliverBlank(d) PROVE TypeOK'
  BY <1>32, GoRunTyped, FailRecognitionTyped DEF DeliverBlank, RunPCs
<1>33. ASSUME NEW d \in Dictations, DeliverThrows(d) PROVE TypeOK'
  BY <1>33, RunFailsTyped DEF DeliverThrows
<1>34. ASSUME NEW d \in Dictations, RunFailureShown(d) PROVE TypeOK'
  BY <1>34, GoRunTyped, FailRecognitionTyped DEF RunFailureShown, RunPCs
<1>35. ASSUME NEW d \in Dictations, RunEnds(d) PROVE TypeOK'
  BY <1>35, OverTyped, ReleaseModelSessionTyped DEF RunEnds, FileStates
<1>36. ASSUME NEW l \in Loads, LoadBegins(l) PROVE TypeOK'
  BY <1>36 DEF LoadBegins, LoadStates, LoadPCs
<1>37. ASSUME NEW l \in Loads, LoadCancelled(l) PROVE TypeOK'
  BY <1>37, LoadEndsTyped DEF LoadCancelled
<1>38. ASSUME NEW l \in Loads, LoadSucceeds(l) PROVE TypeOK'
  BY <1>38, GoLoadTyped DEF LoadSucceeds, LoadPCs
<1>39. ASSUME NEW l \in Loads, LoadFails(l) PROVE TypeOK'
  BY <1>39, GoLoadTyped, LoadEndsTyped DEF LoadFails, LoadPCs
<1>40. ASSUME NEW l \in Loads, LoadOutOfMemory(l) PROVE TypeOK'
  BY <1>40, GoLoadTyped, CloseFailedBackendTyped DEF LoadOutOfMemory, LoadPCs
<1>41. ASSUME NEW l \in Loads, Publish(l) PROVE TypeOK'
  BY <1>41, GoLoadTyped, LoadEndsTyped DEF Publish, LoadPCs
<1>42. ASSUME NEW l \in Loads, ReleaseUnpublished(l) PROVE TypeOK'
  BY <1>42, LoadEndsTyped DEF ReleaseUnpublished
<1>43. ASSUME NEW l \in Loads, StreamLoaded(l) PROVE TypeOK'
  BY <1>43, GoLoadTyped, LoadEndsTyped, StartStreamingTyped DEF StreamLoaded, LoadPCs
<1>44. ASSUME NEW l \in Loads, LoadFailureShown(l) PROVE TypeOK'
  BY <1>44, LoadEndsTyped, FailRecognitionTyped DEF LoadFailureShown
<1>45. ASSUME NEW g \in Generations, Cleanup(g) PROVE TypeOK'
  BY <1>45 DEF Cleanup, CleanupStates, NothingDue, FileStates
<1>46. CASE PressFinish
  BY <1>46, OnFinishRecordingTyped DEF PressFinish, StopReasons
<1>47. CASE Reset
  <2>1. gen' \in Generations
    BY <1>47, ConstantsAssumption DEF Reset, Generations
  <2>2. cap' \in [Dictations -> CaptureStates]
    BY <1>47 DEF Reset, CaptureStates
  <2>3. mod' \in [Dictations -> RunStates]
    BY <1>47, ZenonT(60) DEF Reset, RunStates
  <2>4. load' \in [Loads -> LoadStates]
    BY <1>47 DEF Reset, LoadStates
  <2>5. clean' \in [Generations -> CleanupStates]
    BY <1>47 DEF Reset, CleanupStates
  <2>6. outcome' \in [Dictations -> Outcomes]
    BY <1>47 DEF Reset, Outcomes
  <2> QED
    BY <1>47, <2>1, <2>2, <2>3, <2>4, <2>5, <2>6, StopAndReleaseRecorderTyped, ReplayResetTyped
    DEF Reset, StopReasons
<1>48. CASE UNCHANGED vars
  BY <1>48 DEF vars
<1> QED
  BY <1>1, <1>2, <1>3, <1>4, <1>5, <1>6, <1>7, <1>8, <1>9, <1>10, <1>11, <1>12,
     <1>13, <1>14, <1>15, <1>16, <1>17, <1>18, <1>19, <1>20, <1>21, <1>22, <1>23, <1>24,
     <1>25, <1>26, <1>27, <1>28, <1>29, <1>30, <1>31, <1>32, <1>33, <1>34, <1>35, <1>36,
     <1>37, <1>38, <1>39, <1>40, <1>41, <1>42, <1>43, <1>44, <1>45, <1>46, <1>47, <1>48
  DEF Next, CreateNext, CaptureNext, RunNext, LoadNext

(* Every reachable state has the types of TypeOK.                          *)
THEOREM TypeCorrect == Spec => []TypeOK
  BY TypeInit, TypeNext, PTL DEF Spec

-----------------------------------------------------------------------------
(* What a step of a coroutine keeps of the fields of its record.           *)

(* A step of a capture leaves the generations of all captures alone.       *)
LEMMA GoCaptureKeeps ==
    ASSUME TypeOK, NEW u \in Dictations, NEW pc, GoCapture(u, pc)
    PROVE  \A v \in Dictations : cap'[v].gen = cap[v].gen
  BY DEF TypeOK, GoCapture, CaptureStates

(* A step of a load changes its program counter and nothing else.          *)
LEMMA GoLoadKeeps ==
    ASSUME TypeOK, NEW l \in Loads, NEW pc, GoLoad(l, pc)
    PROVE  \A k \in Loads : /\ load'[k].gen = load[k].gen
                            /\ load'[k].pc = IF k = l THEN pc ELSE load[k].pc
  BY DEF TypeOK, GoLoad, LoadStates

(* The end of a load changes its program counter and nothing else.         *)
LEMMA LoadEndsKeeps ==
    ASSUME TypeOK, NEW l \in Loads, LoadEnds(l)
    PROVE  \A k \in Loads : /\ load'[k].gen = load[k].gen
                            /\ load'[k].pc = IF k = l THEN "done" ELSE load[k].pc
  BY DEF TypeOK, LoadEnds, LoadStates

(* loadModel() changes no generation, and nothing if there is a backend.   *)
LEMMA LoadModelKeeps ==
    ASSUME TypeOK, NEW l \in Loads, LoadModel(l)
    PROVE  /\ \A k \in Loads : load'[k].gen = load[k].gen
           /\ backend # None => load' = load
  BY DEF TypeOK, LoadModel, LoadStates

(* A step of a run leaves the other runs alone, ...                        *)
LEMMA GoRunKeeps ==
    ASSUME TypeOK, NEW u \in Dictations, NEW pc, GoRun(u, pc)
    PROVE  \A v \in Dictations \ {u} : mod'[v] = mod[v]
  BY DEF TypeOK, GoRun

(* ... and moves its own program counter.                                  *)
LEMMA GoRunMoves ==
    ASSUME TypeOK, NEW u \in Dictations, NEW pc, GoRun(u, pc)
    PROVE  mod'[u].pc = pc
<1>1. mod[u] \in RunStates
  BY DEF TypeOK
<1>2. mod'[u] = [mod[u] EXCEPT !.pc = pc, !.waits = None, !.runtime = None]
  BY DEF TypeOK, GoRun
<1> QED
  BY <1>1, <1>2 DEF RunStates

(* onFinishRecording() dispatches at most one run, with no runtime.        *)
LEMMA OnFinishRecordingKeeps ==
    ASSUME TypeOK, OnFinishRecording
    PROVE  \A v \in Dictations : /\ mod'[v].runtime = mod[v].runtime
                                 /\ mod'[v].pc \in {mod[v].pc, "dispatched"}
<1> SUFFICES ASSUME NEW v \in Dictations
             PROVE  /\ mod'[v].runtime = mod[v].runtime
                    /\ mod'[v].pc \in {mod[v].pc, "dispatched"}
  OBVIOUS
<1>1. mod[v] \in RunStates
  BY DEF TypeOK
<1>2. mod'[v] = IF v = recorderJob THEN [mod[v] EXCEPT !.pc = "dispatched"] ELSE mod[v]
  BY DEF TypeOK, OnFinishRecording
<1> QED
  BY <1>1, <1>2 DEF RunStates

-----------------------------------------------------------------------------
(* The fields of a recognition belong to the current generation.           *)

Loaded == {"published", "failed", "done"}

(* What makes FieldsAreCurrent inductive: a load that is published, and a  *)
(* start whose session is kept, no longer change their generation; a       *)
(* Parakeet lease is never held without a backend, so that no load is      *)
(* dispatched again while it is; and a run that decodes has a runtime, so  *)
(* that its release clears the field of that runtime only.                 *)
FieldsAreSettled ==
    /\ backend # None => load[backend].pc \in Loaded
    /\ lease # None => backend # None /\ load[lease].pc \in Loaded
    /\ session # None => create[session].pc = "done"
    /\ \A u \in Dictations : mod[u].pc \in {"decoding", "releasing"} => mod[u].runtime # None

FieldsInv == FieldsAreCurrent /\ FieldsAreSettled

(* At the start the fields hold nothing.                                   *)
LEMMA FieldsInit == Init => FieldsInv
  BY DEF Init, FieldsInv, FieldsAreCurrent, FieldsAreSettled

(* Every step keeps what the fields hold current.                          *)
LEMMA FieldsNext == TypeOK /\ FieldsInv /\ [Next]_vars => FieldsInv'
<1> SUFFICES ASSUME TypeOK, FieldsInv, [Next]_vars PROVE FieldsInv'
  OBVIOUS
<1> USE DEF TypeOK, FieldsInv, FieldsAreCurrent, FieldsAreSettled, Loaded,
            control, mic, leases, runtimes, history, jobs, replay, coroutines
<1>1. ASSUME NEW d \in Dictations, Create(d) PROVE FieldsInv'
  BY <1>1 DEF Create, CreateStates
<1>2. ASSUME NEW d \in Dictations, ModelRequired(d) PROVE FieldsInv'
  BY <1>2 DEF ModelRequired, CreateStates
<1>3. ASSUME NEW d \in Dictations, SettingsRead(d) PROVE FieldsInv'
  BY <1>3 DEF SettingsRead, CreateStates
<1>4. ASSUME NEW d \in Dictations, PermissionResult(d) PROVE FieldsInv'
  BY <1>4 DEF PermissionResult, CreateStates
<1>5. ASSUME NEW d \in Dictations, AcquireSession(d) PROVE FieldsInv'
  BY <1>5 DEF AcquireSession, CreateStates
<1>6. ASSUME NEW d \in Dictations, AcquireSessionFails(d) PROVE FieldsInv'
  BY <1>6
  DEF AcquireSessionFails, CreateStates, FailRecognition, StopAndReleaseRecorder, ReleaseModelSession
<1>7. ASSUME NEW d \in Dictations, DeclineSession(d) PROVE FieldsInv'
  BY <1>7 DEF DeclineSession, CreateStates
<1>8. ASSUME NEW d \in Dictations, StartRecording(d) PROVE FieldsInv'
  BY <1>8, LoadModelKeeps, LoadNames
  DEF StartRecording, Declined, CreateStates, CaptureStates
<1>9. ASSUME NEW d \in Dictations, RecorderDenied(d) PROVE FieldsInv'
  BY <1>9 DEF RecorderDenied, Declined, CreateStates, StopAndReleaseRecorder
<1>10. ASSUME NEW d \in Dictations, CaptureBegins(d) PROVE FieldsInv'
  BY <1>10, GoCaptureKeeps DEF CaptureBegins
<1>11. ASSUME NEW d \in Dictations, CaptureNeverBegins(d) PROVE FieldsInv'
  BY <1>11 DEF CaptureNeverBegins, CaptureStates
<1>12. ASSUME NEW d \in Dictations, CaptureCancelled(d) PROVE FieldsInv'
  BY <1>12, GoCaptureKeeps DEF CaptureCancelled
<1>13. ASSUME NEW d \in Dictations, LoopEnds(d) PROVE FieldsInv'
  BY <1>13, GoCaptureKeeps DEF LoopEnds
<1>14. ASSUME NEW d \in Dictations, Append(d) PROVE FieldsInv'
  BY <1>14, GoCaptureKeeps DEF Append
<1>15. ASSUME NEW d \in Dictations, AppendAtLimit(d) PROVE FieldsInv'
  BY <1>15, GoCaptureKeeps DEF AppendAtLimit
<1>16. ASSUME NEW d \in Dictations, KeepListening(d) PROVE FieldsInv'
  BY <1>16, GoCaptureKeeps DEF KeepListening
<1>17. ASSUME NEW d \in Dictations, VadStops(d) PROVE FieldsInv'
  BY <1>17, GoCaptureKeeps DEF VadStops
<1>18. ASSUME NEW d \in Dictations, FinishFromCapture(d) PROVE FieldsInv'
  BY <1>18, GoCaptureKeeps, OnFinishRecordingKeeps DEF FinishFromCapture
<1>19. ASSUME NEW d \in Dictations, Epilogue(d) PROVE FieldsInv'
  BY <1>19, GoCaptureKeeps, OnFinishRecordingKeeps DEF Epilogue
<1>20. ASSUME NEW d \in Dictations, CaptureCloses(d) PROVE FieldsInv'
  BY <1>20 DEF CaptureCloses, CaptureStates, StopAndReleaseRecorder
<1>21. ASSUME NEW d \in Dictations, RunDispatched(d) PROVE FieldsInv'
  BY <1>21 DEF RunDispatched, RunModel, RunStates
<1>22. ASSUME NEW d \in Dictations, RunNeverBegins(d) PROVE FieldsInv'
  BY <1>22 DEF RunNeverBegins, Over, RunStates
<1>23. ASSUME NEW d \in Dictations, JoinRecorder(d) PROVE FieldsInv'
  BY <1>23 DEF JoinRecorder, RunModel, RunStates
<1>24. ASSUME NEW d \in Dictations, RunCancelled(d) PROVE FieldsInv'
  BY <1>24, GoRunKeeps, GoRunMoves DEF RunCancelled
<1>25. ASSUME NEW d \in Dictations, LoadAwaited(d) PROVE FieldsInv'
  BY <1>25 DEF LoadAwaited, BackendFor, RunStates
<1>26. ASSUME NEW d \in Dictations, RetryLoad(d) PROVE FieldsInv'
  BY <1>26, LoadModelKeeps, LoadNames DEF RetryLoad, RunStates
<1>27. ASSUME NEW d \in Dictations, RetryAwaited(d) PROVE FieldsInv'
  BY <1>27, GoRunKeeps, GoRunMoves
  DEF RetryAwaited, RunFails, CloseFailedBackend, BackendFor, RunStates
<1>28. ASSUME NEW d \in Dictations, Decoded(d) PROVE FieldsInv'
  BY <1>28, GoRunKeeps, GoRunMoves DEF Decoded, RunStates
<1>29. ASSUME NEW d \in Dictations, DecodeFails(d) PROVE FieldsInv'
  BY <1>29, GoRunKeeps, GoRunMoves
  DEF DecodeFails, RunFails, CloseFailedBackend, BackendFor
<1>30. ASSUME NEW d \in Dictations, ReleaseBackend(d) PROVE FieldsInv'
  BY <1>30, GoRunKeeps, GoRunMoves DEF ReleaseBackend, BackendFor
<1>31. ASSUME NEW d \in Dictations, Deliver(d) PROVE FieldsInv'
  BY <1>31, GoRunKeeps, GoRunMoves DEF Deliver
<1>32. ASSUME NEW d \in Dictations, DeliverBlank(d) PROVE FieldsInv'
  BY <1>32, GoRunKeeps, GoRunMoves
  DEF DeliverBlank, FailRecognition, StopAndReleaseRecorder, ReleaseModelSession
<1>33. ASSUME NEW d \in Dictations, DeliverThrows(d) PROVE FieldsInv'
  BY <1>33, GoRunKeeps, GoRunMoves
  DEF DeliverThrows, RunFails, CloseFailedBackend, BackendFor
<1>34. ASSUME NEW d \in Dictations, RunFailureShown(d) PROVE FieldsInv'
  BY <1>34, GoRunKeeps, GoRunMoves
  DEF RunFailureShown, FailRecognition, StopAndReleaseRecorder, ReleaseModelSession
<1>35. ASSUME NEW d \in Dictations, RunEnds(d) PROVE FieldsInv'
  BY <1>35 DEF RunEnds, Over, ReleaseModelSession
<1>36. ASSUME NEW l \in Loads, LoadBegins(l) PROVE FieldsInv'
  BY <1>36 DEF LoadBegins, LoadStates
<1>37. ASSUME NEW l \in Loads, LoadCancelled(l) PROVE FieldsInv'
  BY <1>37, LoadEndsKeeps DEF LoadCancelled
<1>38. ASSUME NEW l \in Loads, LoadSucceeds(l) PROVE FieldsInv'
  BY <1>38, GoLoadKeeps DEF LoadSucceeds
<1>39. ASSUME NEW l \in Loads, LoadFails(l) PROVE FieldsInv'
  BY <1>39, GoLoadKeeps, LoadEndsKeeps DEF LoadFails
<1>40. ASSUME NEW l \in Loads, LoadOutOfMemory(l) PROVE FieldsInv'
  BY <1>40, GoLoadKeeps DEF LoadOutOfMemory, CloseFailedBackend, BackendFor
<1>41. ASSUME NEW l \in Loads, Publish(l) PROVE FieldsInv'
  <2>1. /\ \A k \in Loads : load'[k].gen = load[k].gen
        /\ load'[l].pc \in Loaded
        /\ \A k \in Loads \ {l} : load'[k].pc = load[k].pc
    <3>1. CASE Streaming
      BY <1>41, <3>1, GoLoadKeeps DEF Publish
    <3>2. CASE ~Streaming
      BY <1>41, <3>2, LoadEndsKeeps DEF Publish
    <3> QED
      BY <3>1, <3>2
  <2>2. \A u \in Dictations : mod'[u] = mod[u] /\ cap'[u] = cap[u] /\ create'[u] = create[u]
    BY <1>41 DEF Publish
  <2> QED
    BY <1>41, <2>1, <2>2, LoadNames DEF Publish
<1>42. ASSUME NEW l \in Loads, ReleaseUnpublished(l) PROVE FieldsInv'
  BY <1>42, LoadEndsKeeps DEF ReleaseUnpublished
<1>43. ASSUME NEW l \in Loads, StreamLoaded(l) PROVE FieldsInv'
  BY <1>43, GoLoadKeeps, LoadEndsKeeps DEF StreamLoaded
<1>44. ASSUME NEW l \in Loads, LoadFailureShown(l) PROVE FieldsInv'
  BY <1>44, LoadEndsKeeps
  DEF LoadFailureShown, FailRecognition, StopAndReleaseRecorder, ReleaseModelSession
<1>45. ASSUME NEW g \in Generations, Cleanup(g) PROVE FieldsInv'
  BY <1>45 DEF Cleanup
<1>46. CASE PressFinish
  BY <1>46 DEF PressFinish, OnFinishRecording, RunStates
<1>47. CASE Reset
  BY <1>47 DEF Reset, StopAndReleaseRecorder, RunStates
<1>48. CASE UNCHANGED vars
  BY <1>48 DEF vars
<1> QED
  BY <1>1, <1>2, <1>3, <1>4, <1>5, <1>6, <1>7, <1>8, <1>9, <1>10, <1>11, <1>12,
     <1>13, <1>14, <1>15, <1>16, <1>17, <1>18, <1>19, <1>20, <1>21, <1>22, <1>23, <1>24,
     <1>25, <1>26, <1>27, <1>28, <1>29, <1>30, <1>31, <1>32, <1>33, <1>34, <1>35, <1>36,
     <1>37, <1>38, <1>39, <1>40, <1>41, <1>42, <1>43, <1>44, <1>45, <1>46, <1>47, <1>48
  DEF Next, CreateNext, CaptureNext, RunNext, LoadNext

(* What the fields hold always belongs to the current generation, however  *)
(* starts, loads, runs and resets interleave.                              *)
THEOREM FieldsCurrent == Spec => []FieldsAreCurrent
<1>1. FieldsInv => FieldsAreCurrent
  BY DEF FieldsInv
<1> QED
  BY <1>1, TypeInit, TypeNext, FieldsInit, FieldsNext, PTL DEF Spec

-----------------------------------------------------------------------------
(* The tokens of the model lifecycle.                                      *)

(* A cleanup that holds a token belongs to a generation that has ended, so *)
(* that no reset takes over a cleanup that is still due.                   *)
CleanupsArePast == \A g \in Generations : clean[g].session # None => g < gen

SessionInv == SessionLeaseOwned /\ CleanupsArePast

(* The variables SessionInv speaks of.                                     *)
sessionVars == <<gen, session, openSessions, create, clean>>

(* At the start there is no token.                                         *)
LEMMA SessionInit == Init => SessionInv
<1> SUFFICES ASSUME Init PROVE SessionInv
  OBVIOUS
<1>1. \A g \in Generations : clean[g].session = None
  BY DEF Init, NothingDue
<1>2. HeldByCleanups = {}
  BY <1>1 DEF HeldByCleanups
<1> QED
  BY <1>1, <1>2 DEF Init, SessionInv, SessionLeaseOwned, CleanupsArePast

(* A step that leaves these variables alone moves no token.                *)
LEMMA SessionStutters == SessionInv /\ UNCHANGED sessionVars => SessionInv'
  BY DEF SessionInv, SessionLeaseOwned, CleanupsArePast, HeldByCleanups, sessionVars

(* The starts that hold a token keep it, and no other start gets one.      *)
StartsKeepTokens ==
    \A e \in Dictations :
        /\ create[e].pc \in {"leased", "done"} => create'[e] = create[e]
        /\ create'[e].pc = "leased" => create[e].pc = "leased"

(* A step of a start that has no token yet moves none.                     *)
LEMMA StartMoves ==
    ASSUME TypeOK, SessionInv, StartsKeepTokens, UNCHANGED <<gen, session, openSessions, clean>>
    PROVE  SessionInv'
<1>1. {e \in Dictations : create'[e].pc = "leased"} = {e \in Dictations : create[e].pc = "leased"}
  BY DEF StartsKeepTokens
<1> QED
  BY <1>1 DEF SessionInv, SessionLeaseOwned, CleanupsArePast, HeldByCleanups, TypeOK,
              CleanupStates, StartsKeepTokens

(* The token in the field is closed exactly when the field is cleared.     *)
LEMMA ReleaseMoves ==
    ASSUME TypeOK, SessionInv, StartsKeepTokens, NEW g, ReleaseModelSession(g),
           UNCHANGED <<gen, clean>>
    PROVE  SessionInv'
<1>1. {e \in Dictations : create'[e].pc = "leased"} = {e \in Dictations : create[e].pc = "leased"}
  BY DEF StartsKeepTokens
<1>2. \A g0 \in Generations : clean[g0].session \in Dictations \cup {None}
  BY DEF TypeOK, CleanupStates
<1>3. SessionLeaseOwned'
  <2>1. CASE UNCHANGED <<session, openSessions>>
    BY <1>1, <1>2, <2>1
    DEF SessionInv, SessionLeaseOwned, HeldByCleanups, TypeOK, StartsKeepTokens
  <2>2. CASE session # None /\ session' = None /\ openSessions' = openSessions \ {session}
    BY <1>1, <1>2, <2>2
    DEF SessionInv, SessionLeaseOwned, HeldByCleanups, TypeOK, StartsKeepTokens
  <2> QED
    BY <2>1, <2>2 DEF ReleaseModelSession, leases
<1> QED
  BY <1>3 DEF SessionInv, CleanupsArePast

(* failRecognition() closes the token of the field, or moves none.         *)
LEMMA FailMoves ==
    ASSUME TypeOK, SessionInv, StartsKeepTokens, NEW g, FailRecognition(g), UNCHANGED <<gen, clean>>
    PROVE  SessionInv'
<1>1. CASE g # gen
  BY <1>1, StartMoves DEF FailRecognition, leases
<1>2. CASE g = gen
  BY <1>2, ReleaseMoves DEF FailRecognition
<1> QED
  BY <1>1, <1>2

(* Every other step moves no token.                                        *)
LEMMA OthersStutter ==
    /\ \A d \in Dictations : CaptureNext(d) => UNCHANGED sessionVars
    /\ \A l \in Loads : LoadNext(l) => UNCHANGED sessionVars \/ LoadFailureShown(l)
    /\ \A d \in Dictations : RunNext(d) => \/ UNCHANGED sessionVars
                                           \/ DeliverBlank(d) \/ RunFailureShown(d) \/ RunEnds(d)
    /\ PressFinish => UNCHANGED sessionVars
<1> USE DEF sessionVars, control, leases, coroutines
<1>1. ASSUME NEW d \in Dictations, CaptureNext(d) PROVE UNCHANGED sessionVars
  BY <1>1
  DEF CaptureNext, CaptureBegins, CaptureNeverBegins, CaptureCancelled,
      LoopEnds, Append, AppendAtLimit, KeepListening, VadStops,
      FinishFromCapture, Epilogue, CaptureCloses
<1>2. ASSUME NEW l \in Loads, LoadNext(l) PROVE UNCHANGED sessionVars \/ LoadFailureShown(l)
  BY <1>2
  DEF LoadNext, LoadBegins, LoadCancelled, LoadSucceeds, LoadFails,
      LoadOutOfMemory, Publish, ReleaseUnpublished, StreamLoaded
<1>3. ASSUME NEW d \in Dictations, RunNext(d)
      PROVE  \/ UNCHANGED sessionVars
             \/ DeliverBlank(d) \/ RunFailureShown(d) \/ RunEnds(d)
  BY <1>3
  DEF RunNext, RunDispatched, RunNeverBegins, JoinRecorder, RunCancelled,
      LoadAwaited, RetryLoad, RetryAwaited, Decoded, DecodeFails,
      ReleaseBackend, Deliver, DeliverThrows
<1>4. PressFinish => UNCHANGED sessionVars
  BY DEF PressFinish
<1> QED
  BY <1>1, <1>2, <1>3, <1>4

(* Every step leaves every open token with one owner.                      *)
LEMMA SessionNext == TypeOK /\ TypeOK' /\ FieldsInv /\ SessionInv /\ [Next]_vars => SessionInv'
<1> SUFFICES ASSUME TypeOK, TypeOK', FieldsInv, SessionInv, [Next]_vars PROVE SessionInv'
  OBVIOUS
<1> USE DEF control, mic, leases, runtimes, history, jobs, replay, coroutines
<1>1. ASSUME NEW d \in Dictations, Create(d) PROVE SessionInv'
  <2>1. StartsKeepTokens
    BY <1>1 DEF Create, StartsKeepTokens, TypeOK, CreateStates
  <2> QED
    BY <1>1, <2>1, StartMoves DEF Create
<1>2. ASSUME NEW d \in Dictations, ModelRequired(d) PROVE SessionInv'
  <2>1. StartsKeepTokens
    BY <1>2 DEF ModelRequired, StartsKeepTokens, TypeOK, CreateStates
  <2> QED
    BY <1>2, <2>1, StartMoves DEF ModelRequired
<1>3. ASSUME NEW d \in Dictations, SettingsRead(d) PROVE SessionInv'
  <2>1. StartsKeepTokens
    BY <1>3 DEF SettingsRead, StartsKeepTokens, TypeOK, CreateStates
  <2> QED
    BY <1>3, <2>1, StartMoves DEF SettingsRead
<1>4. ASSUME NEW d \in Dictations, PermissionResult(d) PROVE SessionInv'
  <2>1. StartsKeepTokens
    BY <1>4 DEF PermissionResult, StartsKeepTokens, TypeOK, CreateStates
  <2> QED
    BY <1>4, <2>1, StartMoves DEF PermissionResult
<1>5. ASSUME NEW d \in Dictations, AcquireSession(d) PROVE SessionInv'
  <2>1. {e \in Dictations : create'[e].pc = "leased"}
          = {e \in Dictations : create[e].pc = "leased"} \cup {d}
    BY <1>5 DEF AcquireSession, TypeOK, CreateStates
  <2>2. \A e \in Dictations : create[e].pc = "done" => create'[e] = create[e]
    BY <1>5 DEF AcquireSession, TypeOK, CreateStates
  <2> QED
    BY <1>5, <2>1, <2>2
    DEF AcquireSession, SessionInv, SessionLeaseOwned, CleanupsArePast, HeldByCleanups, TypeOK,
        CleanupStates
<1>6. ASSUME NEW d \in Dictations, AcquireSessionFails(d) PROVE SessionInv'
  <2>1. StartsKeepTokens
    BY <1>6 DEF AcquireSessionFails, StartsKeepTokens, TypeOK, CreateStates
  <2> QED
    BY <1>6, <2>1, FailMoves DEF AcquireSessionFails
<1>7. ASSUME NEW d \in Dictations, DeclineSession(d) \/ RecorderDenied(d) PROVE SessionInv'
  <2>1. /\ create[d].pc = "leased" /\ openSessions' = openSessions \ {d}
        /\ UNCHANGED <<gen, session, clean>>
    BY <1>7 DEF DeclineSession, RecorderDenied
  <2>2. {e \in Dictations : create'[e].pc = "leased"}
          = {e \in Dictations : create[e].pc = "leased"} \ {d}
    BY <1>7 DEF DeclineSession, RecorderDenied, TypeOK, CreateStates
  <2>3. \A e \in Dictations : create[e].pc = "done" => create'[e] = create[e]
    BY <1>7 DEF DeclineSession, RecorderDenied, TypeOK, CreateStates
  <2> QED
    BY <2>1, <2>2, <2>3
    DEF SessionInv, SessionLeaseOwned, CleanupsArePast, HeldByCleanups, TypeOK, CleanupStates
<1>8. ASSUME NEW d \in Dictations, StartRecording(d) PROVE SessionInv'
  <2>1. /\ create[d].pc = "leased" /\ session = None /\ session' = d
        /\ UNCHANGED <<gen, openSessions, clean>>
    BY <1>8 DEF StartRecording, Declined
  <2>2. {e \in Dictations : create'[e].pc = "leased"}
          = {e \in Dictations : create[e].pc = "leased"} \ {d}
    BY <1>8 DEF StartRecording, TypeOK, CreateStates
  <2>3. /\ create'[d].pc = "done"
        /\ \A e \in Dictations : create[e].pc = "done" => create'[e] = create[e]
    BY <1>8 DEF StartRecording, TypeOK, CreateStates
  <2> QED
    BY <2>1, <2>2, <2>3, LoadNames
    DEF SessionInv, SessionLeaseOwned, CleanupsArePast, HeldByCleanups, TypeOK, CleanupStates
<1>9. ASSUME NEW d \in Dictations, DeliverBlank(d) \/ RunFailureShown(d) PROVE SessionInv'
  <2>1. StartsKeepTokens
    BY <1>9 DEF DeliverBlank, RunFailureShown, StartsKeepTokens
  <2> QED
    BY <1>9, <2>1, FailMoves DEF DeliverBlank, RunFailureShown
<1>10. ASSUME NEW l \in Loads, LoadFailureShown(l) PROVE SessionInv'
  <2>1. StartsKeepTokens
    BY <1>10 DEF LoadFailureShown, StartsKeepTokens
  <2> QED
    BY <1>10, <2>1, FailMoves DEF LoadFailureShown
<1>11. ASSUME NEW d \in Dictations, RunEnds(d) PROVE SessionInv'
  <2>1. StartsKeepTokens
    BY <1>11 DEF RunEnds, StartsKeepTokens
  <2> QED
    BY <1>11, <2>1, ReleaseMoves DEF RunEnds
<1>12. ASSUME NEW g \in Generations, Cleanup(g) PROVE SessionInv'
  <2>1. /\ openSessions' = openSessions \ {clean[g].session}
        /\ UNCHANGED <<gen, session, create>>
    BY <1>12 DEF Cleanup
  <2>2. /\ clean'[g].session = None
        /\ \A h \in Generations \ {g} : clean'[h] = clean[h]
    BY <1>12 DEF Cleanup, NothingDue, TypeOK
  <2>3. \A h \in Generations \ {g} :
           clean[h].session # None => clean[h].session # clean[g].session
    BY DEF SessionInv, SessionLeaseOwned
  <2>4. HeldByCleanups' = HeldByCleanups \ {clean[g].session}
    <3> SUFFICES ASSUME NEW x
                 PROVE  x \in HeldByCleanups' <=> x \in HeldByCleanups /\ x # clean[g].session
      OBVIOUS
    <3>1. CASE x \in HeldByCleanups'
      <4>1. x # None /\ \E h \in Generations \ {g} : x = clean[h].session
        BY <2>2, <3>1 DEF HeldByCleanups
      <4> QED
        BY <2>3, <3>1, <4>1 DEF HeldByCleanups
    <3>2. CASE x \in HeldByCleanups /\ x # clean[g].session
      <4>1. PICK h \in Generations \ {g} : x # None /\ x = clean'[h].session
        BY <2>2, <3>2 DEF HeldByCleanups
      <4> QED
        BY <3>2, <4>1 DEF HeldByCleanups
    <3> QED
      BY <3>1, <3>2
  <2>5. clean[g].session # session \/ session = None
    BY DEF SessionInv, SessionLeaseOwned, HeldByCleanups
  <2>6. clean[g].session # None => create[clean[g].session].pc = "done"
    BY DEF SessionInv, SessionLeaseOwned
  <2>7. openSessions' = {d \in Dictations : create'[d].pc = "leased"}
                          \cup ({session'} \ {None}) \cup HeldByCleanups'
    <3>1. openSessions = {d \in Dictations : create[d].pc = "leased"}
                           \cup ({session} \ {None}) \cup HeldByCleanups
      BY DEF SessionInv, SessionLeaseOwned
    <3>2. None \notin Dictations /\ None \notin HeldByCleanups
      BY LoadNames DEF HeldByCleanups
    <3> HIDE DEF HeldByCleanups
    <3> QED
      BY <2>1, <2>4, <2>5, <2>6, <3>1, <3>2
  <2>8. session' # None => create'[session'].pc = "done" /\ session' \notin HeldByCleanups'
    BY <2>1, <2>4 DEF SessionInv, SessionLeaseOwned
  <2>9. \A h \in Generations : clean'[h].session # None =>
           /\ create'[clean'[h].session].pc = "done"
           /\ create'[clean'[h].session].gen = h
    BY <2>1, <2>2 DEF SessionInv, SessionLeaseOwned
  <2>10. SessionLeaseOwned'
    BY <2>7, <2>8, <2>9 DEF SessionLeaseOwned
  <2> QED
    BY <2>1, <2>2, <2>10 DEF SessionInv, CleanupsArePast
<1>13. CASE Reset
  <2>1. /\ gen' = gen + 1 /\ session' = None
        /\ UNCHANGED <<openSessions, create>>
    BY <1>13 DEF Reset
  <2>2. /\ clean'[gen].session = session
        /\ \A h \in Generations \ {gen} : clean'[h] = clean[h]
    BY <1>13 DEF Reset, TypeOK
  <2>3. clean[gen].session = None
    BY DEF SessionInv, CleanupsArePast, TypeOK, Generations
  <2>4. HeldByCleanups' = HeldByCleanups \cup ({session} \ {None})
    BY <2>2, <2>3 DEF HeldByCleanups, TypeOK
  <2>5. session # None => create[session].gen = gen
    BY DEF FieldsInv, FieldsAreCurrent
  <2>6. SessionLeaseOwned'
    BY <2>1, <2>2, <2>4, <2>5 DEF SessionInv, SessionLeaseOwned, HeldByCleanups
  <2>7. CleanupsArePast'
    BY <2>1, <2>2, ConstantsAssumption DEF SessionInv, CleanupsArePast, TypeOK, Generations
  <2> QED
    BY <2>6, <2>7 DEF SessionInv
<1>14. CASE UNCHANGED sessionVars
  BY <1>14, SessionStutters
<1>15. CASE UNCHANGED vars
  BY <1>15, SessionStutters DEF vars, sessionVars
<1> QED
  BY <1>1, <1>2, <1>3, <1>4, <1>5, <1>6, <1>7, <1>8, <1>9, <1>10, <1>11, <1>12, <1>13,
     <1>14, <1>15, OthersStutter
  DEF Next, CreateNext

(* Every token of the model lifecycle has one owner that will close it.    *)
THEOREM SessionsOwned == Spec => []SessionLeaseOwned
<1>1. SessionInv => SessionLeaseOwned
  BY DEF SessionInv
<1> QED
  BY <1>1, TypeInit, TypeNext, FieldsInit, FieldsNext, SessionInit, SessionNext, PTL DEF Spec

=============================================================================
