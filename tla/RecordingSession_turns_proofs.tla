------------------- MODULE RecordingSession_turns_proofs --------------------
(***************************************************************************)
(* Proofs about RecordingSession when a start overlaps neither a reset nor *)
(* another start, and no worker thread is preempted between a check and    *)
(* its use: for any number of dictations and resets, every kind of backend *)
(* and every set of failures.  What the properties of this module say is   *)
(* false without these two hypotheses (README, section 4).                 *)
(***************************************************************************)
EXTENDS RecordingSession_proofs

InTurn == ~Overlap /\ ~Preemption

-----------------------------------------------------------------------------
(* The inductive invariant.                                                *)

(* One start at a time, none while a dictation is on the screen; a capture *)
(* that was never started has left no trace.                               *)
StartsInTurn ==
    /\ \A d, e \in Dictations : ~StartOver(d) /\ ~StartOver(e) => d = e
    /\ \A d \in Dictations : ~StartOver(d) => recorderJob = None /\ create[d].gen = gen
    /\ \A d \in Dictations : create[d].pc # "done" => cap[d].pc = "idle"

UnstartedBlank ==
    \A d \in Dictations : cap[d].pc = "idle" =>
        /\ mod[d].pc = "idle" /\ load[d].pc = "idle"
        /\ outcome[d] = "none" /\ heard[d] = "empty"

(* Between two dictations nothing is recorded and the fields hold nothing. *)
QuietBetween ==
    recorderJob = None =>
        /\ ~isRecording
        /\ session = None /\ recorder = None /\ backend = None /\ lease = None

(* Every coroutine is the one its field names or was cancelled by a reset. *)
CapturesKnown ==
    \A u \in Dictations :
        /\ cap[u].cancelled => cap[u].pc # "idle" /\ u # recorderJob
        /\ cap[u].pc # "idle" =>
              \/ u = recorderJob /\ cap[u].gen = gen
              \/ cap[u].gen < gen /\ (cap[u].pc # "done" => cap[u].cancelled)
        /\ u = recorderJob => cap[u].pc # "idle"

LoadsKnown ==
    /\ loadJob = recorderJob
    /\ \A d \in Dictations : load[RetryOf(d)].pc = "idle"
    /\ \A d \in Dictations :
        /\ load[d].cancelled => load[d].pc # "idle" /\ d # recorderJob
        /\ load[d].pc \notin {"idle", "done"} => d = recorderJob \/ load[d].cancelled
        /\ load[d].pc \notin {"idle", "dispatched", "done"} =>
              IF d = recorderJob THEN load[d].gen = gen ELSE load[d].gen < gen
        /\ d = recorderJob => load[d].pc # "idle"

(* A run never has to load a model itself, and decodes with the runtime    *)
(* that the start of its dictation loaded.                                 *)
RunsKnown ==
    /\ modelJob \in {None, recorderJob}
    /\ modelJob # None => ~isRecording
    /\ \A u \in Dictations :
        /\ mod[u].pc \notin {"retry", "waitRetry"}
        /\ mod[u].cancelled => mod[u].pc # "idle" /\ u # modelJob
        /\ mod[u].pc \notin {"idle", "done"} => u = modelJob \/ mod[u].cancelled
        /\ u = modelJob => mod[u].pc # "idle"
        /\ u = recorderJob /\ modelJob = None => mod[u].pc = "idle"
        /\ mod[u].pc \notin {"idle", "dispatched", "joining", "done"} =>
              IF u = modelJob THEN mod[u].gen = gen /\ cap[u].pc = "done" ELSE mod[u].gen < gen
        /\ u = modelJob /\ mod[u].pc \in {"joining", "waitLoad"} => mod[u].waits = u
        /\ mod[u].runtime # None => mod[u].pc \in {"decoding", "releasing"}
        /\ mod[u].pc \in {"decoding", "releasing"} => mod[u].runtime = u

MicrophoneHeld ==
    /\ micOn \subseteq {recorder}
    /\ recorder \in {None, recorderJob}
    /\ recorder # None => cap[recorder].pc # "done"

RecordingKnown ==
    isRecording => outcome[recorderJob] = "none" /\ stopReason # "Cancel"

(* Until a run releases it, and unless the dictation has failed, what the  *)
(* load published is in the field and loaded, and the session is held; a   *)
(* runtime that waits to be published is loaded.                           *)
Undecoded == {"idle", "dispatched", "joining", "waitLoad", "decoding", "releasing"}
BackendKept ==
    /\ {backend, session} \subseteq {None, recorderJob} /\ lease \in {None, backend}
    /\ \A u \in Dictations : u = recorderJob /\ load[u].pc = "publish" => u \in live
    /\ \A u \in Dictations :
          u = recorderJob /\ stopReason # "Cancel" /\ mod[u].pc \in Undecoded =>
              /\ session = u
              /\ load[u].pc \in {"published", "done"} => backend = u /\ u \in live
    /\ \A u \in Dictations :
          u = modelJob /\ mod[u].pc \in {"decoding", "releasing"} =>
              load[u].pc = "done" /\ stopReason # "Cancel"

(* A cleanup that is due holds what one dictation of its generation held.  *)
CleanupsKnown ==
    \A g \in Generations :
        \/ clean[g] = NothingDue
        \/ /\ clean[g].due /\ g < gen
           /\ {clean[g].mod, clean[g].runtime, clean[g].session} \subseteq {None, clean[g].cap}
           /\ clean[g].cap # None =>
                 cap[clean[g].cap].gen = g /\ cap[clean[g].cap].pc # "idle"

(* A run that a reset has cancelled keeps its runtime and its session      *)
(* until it ends: the cleanup waits for it.                                *)
StaleRunsKept ==
    \A u \in Dictations :
        mod[u].pc \in {"decoding", "releasing"} /\ u # modelJob =>
            /\ mod[u].gen \in Generations
            /\ clean[mod[u].gen].due /\ clean[mod[u].gen].mod = u
            /\ clean[mod[u].gen].runtime = u /\ clean[mod[u].gen].session = u
            /\ u \in live /\ load[u].pc = "done"

(* Only a dictation that is still on the screen has no outcome, and it     *)
(* gets its text as long as it has none.                                   *)
OutcomesKnown ==
    \A u \in Dictations :
        /\ cap[u].pc # "idle" /\ u # recorderJob => outcome[u] # "none"
        /\ u = modelJob /\ mod[u].pc \in {"decoding", "releasing", "deliver", "failMain"} =>
              load[u].pc = "done" /\ outcome[u] = "none"
        /\ u = recorderJob => outcome[u] # "cancelled"
        /\ u = recorderJob /\ outcome[u] = "failed" => stopReason = "Cancel"
        /\ u = recorderJob /\ outcome[u] = "delivered" =>
              load[u].pc = "done" /\ mod[u].pc \in {"cleanup", "done"}

(* The replay hands the audio of the dictation to its own backend, or to a *)
(* backend that is late and makes the dictation fail.                      *)
StreamKnown ==
    /\ ~Streaming => \A u \in Dictations : heard[u] = "empty"
    /\ stream.active # None => load[stream.active].pc = "done"
    /\ Streaming => \A u \in Dictations : u = recorderJob =>
          /\ stream.enabled
          /\ stream.active = None => heard[u] \in {"empty", "queued"}
          /\ stream.active = u => heard[u] \in {"empty", "live"} /\ load[u].gen = gen
          /\ load[u].pc = "done" /\ stopReason # "Cancel" => stream.active = u
    /\ Streaming => \A d \in Dictations :
          create[d].pc \in {"asking", "acquire", "leased"} => stream.enabled

Base == TypeOK /\ FieldsInv /\ SessionInv
Jobs == StartsInTurn /\ QuietBetween /\ CapturesKnown /\ LoadsKnown /\ RunsKnown
TurnsInv ==
    /\ Base /\ Jobs
    /\ UnstartedBlank /\ MicrophoneHeld /\ RecordingKnown /\ BackendKept
    /\ CleanupsKnown /\ StaleRunsKept /\ OutcomesKnown /\ StreamKnown
    /\ RuntimesOwned

-----------------------------------------------------------------------------
(* What a step of a coroutine may do to its record.                        *)

CaptureSteps(u) ==
    /\ \A v \in Dictations \ {u} : cap'[v] = cap[v]
    /\ cap'[u].gen = cap[u].gen
    /\ cap[u].pc \notin {"idle", "done"} /\ cap'[u].pc # "idle"
    /\ cap'[u].pc = "done" => ~cap'[u].cancelled
    /\ cap'[u].pc # "done" => cap'[u].cancelled = cap[u].cancelled

LoadSteps(l) ==
    /\ \A k \in Loads \ {l} : load'[k] = load[k]
    /\ load[l].pc \notin {"idle", "done"} /\ load'[l].pc \notin {"idle", "dispatched"}
    /\ load'[l].pc = "done" => ~load'[l].cancelled
    /\ load'[l].pc # "done" => load'[l].cancelled = load[l].cancelled
    /\ load[l].pc # "dispatched" => load'[l].gen = load[l].gen /\ load'[l].pc # "loading"
    /\ load[l].pc = "dispatched" =>
          \/ load'[l].pc = "loading" /\ load'[l].gen = gen /\ ~load[l].cancelled
          \/ load'[l].pc = "done" /\ load[l].cancelled

RunSteps(u) ==
    /\ \A v \in Dictations \ {u} : mod'[v] = mod[v]
    /\ mod[u].pc \notin {"idle", "done"} /\ mod'[u].pc \notin {"idle", "dispatched"}
    /\ mod'[u].pc = "done" => ~mod'[u].cancelled
    /\ mod'[u].pc # "done" => mod'[u].cancelled = mod[u].cancelled
    /\ mod'[u].pc \in {"joining", "waitLoad"} => mod'[u].runtime = mod[u].runtime
    /\ mod'[u].pc = "joining" =>
          mod[u].pc = "dispatched" /\ ~mod[u].cancelled /\ mod'[u].waits = recorderJob
    /\ mod'[u].pc = "waitLoad" =>
          /\ mod[u].pc \in {"dispatched", "joining"} /\ ~mod[u].cancelled
          /\ mod[u].pc = "dispatched" => recorderJob = None
          /\ mod[u].pc = "joining" => cap[mod[u].waits].pc = "done"
          /\ mod'[u].gen = gen /\ mod'[u].waits = loadJob
    /\ mod'[u].pc \notin {"joining", "waitLoad", "done"} =>
          mod[u].pc \notin {"dispatched", "joining", "cleanup"} /\ mod'[u].gen = mod[u].gen
    /\ mod'[u].pc \in {"retry", "decoding"} =>
          /\ mod[u].pc = "waitLoad" /\ mod[u].gen = gen /\ stopReason # "Cancel"
          /\ Awaited(u)
          /\ mod'[u].pc = "retry" <=> BackendFor(gen) = None
          /\ mod'[u].pc = "decoding" => backend # None /\ mod'[u].runtime = backend
    /\ mod'[u].pc = "releasing" =>
          mod[u].pc = "decoding" /\ mod[u].gen = gen /\ mod'[u].runtime = mod[u].runtime
    /\ mod'[u].pc = "deliver" => mod[u].pc = "releasing"
    /\ mod'[u].pc = "failMain" => mod[u].pc \in {"decoding", "deliver"}
    /\ mod'[u].pc \notin {"joining", "waitLoad", "decoding", "releasing"} =>
          mod'[u].runtime = None
    /\ mod'[u].pc # "waitRetry"

(* Every action of a capture is such a step.                               *)
LEMMA CaptureStep ==
    ASSUME TypeOK, NEW u \in Dictations, CaptureNext(u)
    PROVE  CaptureSteps(u)
<1> USE DEF TypeOK, CaptureStates, GoCapture, CaptureSteps
<1>1. CASE CaptureBegins(u)
  BY <1>1 DEF CaptureBegins
<1>2. CASE CaptureNeverBegins(u)
  BY <1>2 DEF CaptureNeverBegins
<1>3. CASE CaptureCancelled(u)
  BY <1>3 DEF CaptureCancelled
<1>4. CASE LoopEnds(u)
  BY <1>4 DEF LoopEnds
<1>5. CASE Append(u)
  BY <1>5 DEF Append, Reads
<1>6. CASE AppendAtLimit(u)
  BY <1>6 DEF AppendAtLimit, Reads
<1>7. CASE KeepListening(u)
  BY <1>7 DEF KeepListening
<1>8. CASE VadStops(u)
  BY <1>8 DEF VadStops
<1>9. CASE FinishFromCapture(u)
  BY <1>9 DEF FinishFromCapture
<1>10. CASE Epilogue(u)
  BY <1>10 DEF Epilogue
<1>11. CASE CaptureCloses(u)
  BY <1>11 DEF CaptureCloses
<1> QED
  BY <1>1, <1>2, <1>3, <1>4, <1>5, <1>6, <1>7, <1>8, <1>9, <1>10, <1>11 DEF CaptureNext

(* A load that goes on changes nothing but its program counter, ...        *)
LEMMA LoadGoesOn ==
    ASSUME TypeOK, NEW l \in Loads, NEW pc, GoLoad(l, pc)
    PROVE  /\ \A k \in Loads \ {l} : load'[k] = load[k]
           /\ load'[l].pc = pc /\ load'[l].gen = load[l].gen
           /\ load'[l].cancelled = load[l].cancelled
  BY DEF TypeOK, GoLoad, LoadStates

(* ... and one that ends is no longer cancelled.                           *)
LEMMA LoadGoesHome ==
    ASSUME TypeOK, NEW l \in Loads, LoadEnds(l)
    PROVE  /\ \A k \in Loads \ {l} : load'[k] = load[k]
           /\ load'[l].pc = "done" /\ load'[l].gen = load[l].gen /\ ~load'[l].cancelled
  BY DEF TypeOK, LoadEnds, LoadStates

(* A run that goes on keeps its generation and drops its runtime.          *)
LEMMA RunGoesOn ==
    ASSUME TypeOK, NEW u \in Dictations, NEW pc, GoRun(u, pc)
    PROVE  /\ \A v \in Dictations \ {u} : mod'[v] = mod[v]
           /\ mod'[u].pc = pc /\ mod'[u].gen = mod[u].gen
           /\ mod'[u].cancelled = mod[u].cancelled /\ mod'[u].runtime = None
<1>1. mod[u] \in RunStates
  BY DEF TypeOK
<1>2. mod'[u] = [mod[u] EXCEPT !.pc = pc, !.waits = None, !.runtime = None]
  BY DEF TypeOK, GoRun
<1> QED
  BY <1>1, <1>2 DEF RunStates, GoRun, TypeOK

(* Every action of a load is.                                              *)
LEMMA LoadStep ==
    ASSUME TypeOK, ~Preemption, NEW l \in Loads, LoadNext(l)
    PROVE  LoadSteps(l)
<1>1. CASE LoadBegins(l)
  BY <1>1 DEF LoadBegins, TypeOK, LoadStates, LoadSteps
<1>2. CASE LoadCancelled(l)
  <2>1. LoadEnds(l)
    BY <1>2 DEF LoadCancelled
  <2> QED
    BY <1>2, <2>1, LoadGoesOn, LoadGoesHome DEF LoadCancelled, LoadSteps
<1>3. CASE LoadSucceeds(l)
  <2>1. GoLoad(l, "publish")
    BY <1>3 DEF LoadSucceeds
  <2> QED
    BY <1>3, <2>1, LoadGoesOn, LoadGoesHome DEF LoadSucceeds, LoadSteps
<1>4. CASE LoadFails(l)
  <2>1. GoLoad(l, "failed") \/ LoadEnds(l)
    BY <1>4 DEF LoadFails
  <2> QED
    BY <1>4, <2>1, LoadGoesOn, LoadGoesHome DEF LoadFails, LoadSteps
<1>5. CASE LoadOutOfMemory(l)
  <2>1. GoLoad(l, "failed")
    BY <1>5 DEF LoadOutOfMemory
  <2> QED
    BY <1>5, <2>1, LoadGoesOn, LoadGoesHome DEF LoadOutOfMemory, LoadSteps
<1>6. CASE Publish(l)
  <2>1. GoLoad(l, "published") \/ LoadEnds(l)
    BY <1>6 DEF Publish
  <2> QED
    BY <1>6, <2>1, LoadGoesOn, LoadGoesHome DEF Publish, LoadSteps
<1>7. CASE ReleaseUnpublished(l)
  <2>1. LoadEnds(l)
    BY <1>7 DEF ReleaseUnpublished
  <2> QED
    BY <1>7, <2>1, LoadGoesOn, LoadGoesHome DEF ReleaseUnpublished, LoadSteps
<1>8. CASE StreamLoaded(l)
  <2>1. GoLoad(l, "failed") \/ LoadEnds(l)
    BY <1>8 DEF StreamLoaded
  <2> QED
    BY <1>8, <2>1, LoadGoesOn, LoadGoesHome DEF StreamLoaded, LoadSteps
<1>9. CASE LoadFailureShown(l)
  <2>1. LoadEnds(l)
    BY <1>9 DEF LoadFailureShown
  <2> QED
    BY <1>9, <2>1, LoadGoesOn, LoadGoesHome DEF LoadFailureShown, LoadSteps
<1> QED
  BY <1>1, <1>2, <1>3, <1>4, <1>5, <1>6, <1>7, <1>8, <1>9 DEF LoadNext

(* Every action of a run that does not have to load a model itself is.     *)
LEMMA RunStep ==
    ASSUME TypeOK, ~Preemption, NEW u \in Dictations, RunNext(u),
           mod[u].pc \notin {"retry", "waitRetry"}
    PROVE  RunSteps(u)
<1>0. mod[u] \in RunStates
  BY DEF TypeOK
<1>3. ASSUME RunModel(u)
      PROVE  /\ \A v \in Dictations \ {u} : mod'[v] = mod[v]
             /\ mod'[u].pc = "waitLoad" /\ mod'[u].gen = gen /\ mod'[u].waits = loadJob
             /\ mod'[u].cancelled = mod[u].cancelled /\ mod'[u].runtime = mod[u].runtime
  <2>1. mod'[u] = [mod[u] EXCEPT !.pc = "waitLoad", !.gen = gen, !.waits = loadJob]
    BY <1>3 DEF RunModel, TypeOK
  <2> QED
    BY <1>0, <1>3, <2>1 DEF RunModel, TypeOK, RunStates
<1>4. CASE RunDispatched(u)
  <2>1. CASE recorderJob = None
    BY <1>3, <1>4, <2>1 DEF RunDispatched, RunSteps
  <2>2. CASE recorderJob # None
    <3>1. mod' = [mod EXCEPT ![u].pc = "joining", ![u].waits = recorderJob]
      BY <1>4, <2>2 DEF RunDispatched
    <3>2. mod'[u] = [mod[u] EXCEPT !.pc = "joining", !.waits = recorderJob]
      BY <3>1 DEF TypeOK
    <3> QED
      BY <1>0, <1>4, <3>1, <3>2 DEF RunDispatched, RunSteps, RunStates, TypeOK
  <2> QED
    BY <2>1, <2>2
<1>5. CASE RunNeverBegins(u)
  BY <1>5 DEF RunNeverBegins, RunSteps, Over, TypeOK
<1>6. CASE JoinRecorder(u)
  BY <1>3, <1>6 DEF JoinRecorder, RunSteps
<1>7. CASE RunCancelled(u)
  <2>1. GoRun(u, "cleanup")
    BY <1>7 DEF RunCancelled
  <2>2. mod[u].pc \notin {"idle", "done", "dispatched", "joining", "cleanup"}
    BY <1>7 DEF RunCancelled
  <2> QED
    BY <2>1, <2>2, RunGoesOn DEF RunSteps
<1>8. CASE LoadAwaited(u)
  <2> DEFINE next == IF RunIsOver(u) THEN "cleanup"
                     ELSE IF BackendFor(gen) = None THEN "retry"
                     ELSE IF mod[u].cancelled THEN "cleanup" ELSE "decoding"
             runtime == IF next = "decoding" THEN backend ELSE None
  <2>1. mod' = [mod EXCEPT ![u].pc = next, ![u].waits = None, ![u].runtime = runtime]
    BY <1>8 DEF LoadAwaited
  <2>2. mod'[u] = [mod[u] EXCEPT !.pc = next, !.waits = None, !.runtime = runtime]
    BY <2>1 DEF TypeOK
  <2> HIDE DEF next, runtime
  <2>3. /\ mod'[u].pc = next /\ mod'[u].gen = mod[u].gen
        /\ mod'[u].cancelled = mod[u].cancelled /\ mod'[u].runtime = runtime
    BY <1>0, <2>2 DEF RunStates
  <2>4. \A v \in Dictations \ {u} : mod'[v] = mod[v]
    BY <2>1 DEF TypeOK
  <2>5. mod[u].pc = "waitLoad" /\ Awaited(u)
    BY <1>8 DEF LoadAwaited
  <2> USE DEF next, runtime
  <2> QED
    BY <2>3, <2>4, <2>5 DEF RunSteps, RunIsOver, BackendFor
<1>9. CASE Decoded(u)
  <2>1. CASE mod[u].gen = gen
    <3>1. mod'[u] = [mod[u] EXCEPT !.pc = "releasing"]
      BY <1>9, <2>1 DEF Decoded, TypeOK
    <3> QED
      BY <1>0, <1>9, <2>1, <3>1 DEF Decoded, RunSteps, RunStates, TypeOK
  <2>2. CASE mod[u].gen # gen
    <3>1. GoRun(u, "cleanup")
      BY <1>9, <2>2 DEF Decoded
    <3> QED
      BY <1>9, <3>1, RunGoesOn DEF Decoded, RunSteps
  <2> QED
    BY <2>1, <2>2
<1>10. CASE DecodeFails(u) \/ DeliverThrows(u)
  <2>1. GoRun(u, "cleanup") \/ GoRun(u, "failMain")
    BY <1>10 DEF DecodeFails, DeliverThrows, RunFails
  <2> QED
    BY <1>10, <2>1, RunGoesOn DEF DecodeFails, DeliverThrows, RunSteps
<1>11. CASE ReleaseBackend(u)
  <2>1. GoRun(u, "deliver")
    BY <1>11 DEF ReleaseBackend
  <2> QED
    BY <1>11, <2>1, RunGoesOn DEF ReleaseBackend, RunSteps
<1>12. CASE Deliver(u) \/ DeliverBlank(u) \/ RunFailureShown(u)
  <2>1. GoRun(u, "cleanup")
    BY <1>12 DEF Deliver, DeliverBlank, RunFailureShown
  <2> QED
    BY <1>12, <2>1, RunGoesOn DEF Deliver, DeliverBlank, RunFailureShown, RunSteps
<1>13. CASE RunEnds(u)
  BY <1>13 DEF RunEnds, RunSteps, Over, TypeOK
<1> QED
  BY <1>4, <1>5, <1>6, <1>7, <1>8, <1>9, <1>10, <1>11, <1>12, <1>13
  DEF RunNext, RetryLoad, RetryAwaited

-----------------------------------------------------------------------------
(* The steps other than a start of the recorder and a reset.               *)

(* They leave the jobs alone, and a field is set by a publication only.    *)
Ordinary ==
    /\ UNCHANGED <<gen, recorderJob, loadJob>>
    /\ create' = create \/ \E d \in Dictations : CreateNext(d)
    /\ cap' = cap \/ \E u \in Dictations : CaptureSteps(u)
    /\ load' = load \/ \E l \in Loads : LoadSteps(l)
    /\ \/ UNCHANGED <<mod, modelJob>>
       \/ UNCHANGED <<modelJob, cap>> /\ \E u \in Dictations : RunSteps(u)
       \/ isRecording /\ OnFinishRecording
    /\ isRecording' => isRecording
    /\ session' \in {session, None} /\ recorder' \in {recorder, None} /\ micOn' \subseteq micOn
    /\ \/ backend' \in {backend, None} /\ lease' \in {lease, None}
       \/ \E l \in Loads : Publish(l)
    /\ clean' = clean \/ \E g \in Generations : Cleanup(g)

(* Without preemption, and while no run loads a model itself, every step   *)
(* is a start of the recorder, a reset or such a step.                     *)
LEMMA StepKinds ==
    ASSUME TypeOK, ~Preemption, [Next]_vars,
           \A u \in Dictations : mod[u].pc \notin {"retry", "waitRetry"}
    PROVE  Reset \/ (\E d \in Dictations : StartRecording(d)) \/ Ordinary
<1> USE DEF control, mic, leases, runtimes, history, jobs, replay, coroutines
<1>1. ASSUME NEW d \in Dictations, CreateNext(d) PROVE StartRecording(d) \/ Ordinary
  <2>1. CASE ~StartRecording(d)
    <3>1. /\ UNCHANGED <<gen, recorderJob, loadJob, cap, load, mod, modelJob, backend, lease, clean>>
          /\ isRecording' => isRecording
          /\ session' \in {session, None} /\ recorder' \in {recorder, None}
          /\ micOn' \subseteq micOn
      BY <1>1, <2>1
      DEF CreateNext, Create, ModelRequired, SettingsRead, PermissionResult, AcquireSession,
          AcquireSessionFails, DeclineSession, RecorderDenied, FailRecognition,
          StopAndReleaseRecorder, ReleaseModelSession
    <3> QED
      BY <1>1, <3>1 DEF Ordinary
  <2> QED
    BY <2>1
<1>2. ASSUME NEW u \in Dictations, CaptureNext(u) PROVE Ordinary
  <2>1. CaptureSteps(u)
    BY <1>2, CaptureStep
  <2>2. /\ UNCHANGED <<gen, recorderJob, loadJob, load, session, backend, lease, create, clean>>
        /\ UNCHANGED <<isRecording, mod, modelJob>> \/ (isRecording /\ OnFinishRecording)
        /\ recorder' \in {recorder, None} /\ micOn' \subseteq micOn
    BY <1>2
    DEF CaptureNext, CaptureBegins, CaptureNeverBegins, CaptureCancelled, LoopEnds, Append,
        AppendAtLimit, KeepListening, VadStops, FinishFromCapture, Epilogue, CaptureCloses,
        StopAndReleaseRecorder
  <2> QED
    BY <2>1, <2>2 DEF Ordinary, OnFinishRecording
<1>3. ASSUME NEW l \in Loads, LoadNext(l) PROVE Ordinary
  <2>1. LoadSteps(l)
    BY <1>3, LoadStep
  <2>2. /\ UNCHANGED <<gen, recorderJob, loadJob, cap, mod, modelJob, create, clean>>
        /\ isRecording' => isRecording
        /\ session' \in {session, None} /\ recorder' \in {recorder, None} /\ micOn' \subseteq micOn
        /\ (backend' \in {backend, None} /\ lease' \in {lease, None}) \/ Publish(l)
    <3>1. CASE Publish(l)
      BY <3>1 DEF Publish
    <3>2. CASE ~Publish(l)
      BY <1>3, <3>2
      DEF LoadNext, LoadBegins, LoadCancelled, LoadSucceeds, LoadFails, LoadOutOfMemory,
          ReleaseUnpublished, StreamLoaded, LoadFailureShown, CloseFailedBackend,
          FailRecognition, StopAndReleaseRecorder, ReleaseModelSession
    <3> QED
      BY <3>1, <3>2
  <2> QED
    BY <2>1, <2>2 DEF Ordinary
<1>4. ASSUME NEW u \in Dictations, RunNext(u) PROVE Ordinary
  <2>0. mod[u].pc \notin {"retry", "waitRetry"}
    OBVIOUS
  <2>1. RunSteps(u)
    BY <1>4, <2>0, RunStep
  <2>2. /\ UNCHANGED <<gen, recorderJob, loadJob, cap, load, modelJob, create, clean>>
        /\ isRecording' => isRecording
        /\ session' \in {session, None} /\ recorder' \in {recorder, None} /\ micOn' \subseteq micOn
        /\ backend' \in {backend, None} /\ lease' \in {lease, None}
    BY <1>4, <2>0
    DEF RunNext, RunDispatched, RunNeverBegins, JoinRecorder, RunCancelled, LoadAwaited,
        RetryLoad, RetryAwaited, Decoded, DecodeFails, ReleaseBackend, Deliver, DeliverBlank,
        DeliverThrows, RunFailureShown, RunEnds, RunFails, CloseFailedBackend, FailRecognition,
        StopAndReleaseRecorder, ReleaseModelSession
  <2> QED
    BY <2>1, <2>2 DEF Ordinary
<1>5. ASSUME NEW g \in Generations, Cleanup(g) PROVE Ordinary
  BY <1>5 DEF Cleanup, Ordinary
<1>6. CASE PressFinish
  BY <1>6 DEF PressFinish, Ordinary, OnFinishRecording
<1>7. CASE UNCHANGED vars
  BY <1>7 DEF vars, Ordinary
<1> QED
  BY <1>1, <1>2, <1>3, <1>4, <1>5, <1>6, <1>7 DEF Next

(* When starts take turns, no run ever loads a model itself.               *)
LEMMA OrdinaryStep ==
    ASSUME TypeOK, InTurn, RunsKnown, [Next]_vars
    PROVE  Reset \/ (\E d \in Dictations : StartRecording(d)) \/ Ordinary
  BY StepKinds DEF InTurn, RunsKnown

(* onFinishRecording() dispatches the run of the dictation on the screen.  *)
LEMMA FinishDispatches ==
    ASSUME TypeOK, OnFinishRecording
    PROVE  /\ ~isRecording' /\ modelJob' = recorderJob
           /\ \A u \in Dictations :
                 /\ u # recorderJob => mod'[u] = mod[u]
                 /\ u = recorderJob =>
                       /\ mod'[u].pc = "dispatched" /\ mod'[u].runtime = mod[u].runtime
                       /\ mod'[u].cancelled = mod[u].cancelled
<1> SUFFICES ASSUME NEW u \in Dictations
             PROVE  /\ u # recorderJob => mod'[u] = mod[u]
                    /\ u = recorderJob =>
                          /\ mod'[u].pc = "dispatched" /\ mod'[u].runtime = mod[u].runtime
                          /\ mod'[u].cancelled = mod[u].cancelled
  BY DEF OnFinishRecording
<1>1. mod[u] \in RunStates
  BY DEF TypeOK
<1>2. mod'[u] = IF u = recorderJob THEN [mod[u] EXCEPT !.pc = "dispatched"] ELSE mod[u]
  BY DEF TypeOK, OnFinishRecording
<1> QED
  BY <1>1, <1>2 DEF RunStates

-----------------------------------------------------------------------------
(* Starts take turns, and every job is known.                              *)

(* A start of the recorder finds no dictation, no session and no backend,  *)
(* and launches three coroutines that have never run.                      *)
LEMMA StartFinds ==
    ASSUME TypeOK, Jobs, UnstartedBlank, NEW d \in Dictations, StartRecording(d)
    PROVE  /\ recorderJob = None /\ modelJob = None /\ loadJob = None
           /\ session = None /\ backend = None /\ lease = None /\ recorder = None
           /\ cap[d].pc = "idle" /\ mod[d].pc = "idle" /\ load[d].pc = "idle"
           /\ outcome[d] = "none" /\ heard[d] = "empty" /\ ~load[d].cancelled
           /\ recorderJob' = d /\ loadJob' = d /\ UNCHANGED <<gen, modelJob, mod, clean>>
           /\ \A u \in Dictations \ {d} : cap'[u] = cap[u]
           /\ cap'[d].pc = "starting" /\ cap'[d].gen = gen /\ ~cap'[d].cancelled
           /\ \A l \in Loads \ {d} : load'[l] = load[l]
           /\ load'[d].pc = "dispatched" /\ load'[d].gen = load[d].gen
           /\ load'[d].cancelled = load[d].cancelled
<1>1. /\ create[d].pc = "leased" /\ session = None
      /\ recorderJob' = d /\ UNCHANGED <<gen, modelJob, mod, clean>>
      /\ cap' = [cap EXCEPT ![d] = [pc |-> "starting", gen |-> gen, cancelled |-> FALSE]]
      /\ LoadModel(d)
  BY DEF StartRecording, Declined
<1>2. recorderJob = None
  BY <1>1 DEF Jobs, StartsInTurn, StartOver
<1>3. /\ modelJob = None /\ loadJob = None
      /\ backend = None /\ lease = None /\ recorder = None
  BY <1>2 DEF Jobs, QuietBetween, RunsKnown, LoadsKnown
<1>4. /\ cap[d].pc = "idle" /\ mod[d].pc = "idle" /\ load[d].pc = "idle"
      /\ outcome[d] = "none" /\ heard[d] = "empty" /\ ~load[d].cancelled
  BY <1>1 DEF Jobs, StartsInTurn, UnstartedBlank, LoadsKnown
<1>5. /\ \A u \in Dictations \ {d} : cap'[u] = cap[u]
      /\ cap'[d].pc = "starting" /\ cap'[d].gen = gen /\ ~cap'[d].cancelled
  BY <1>1 DEF TypeOK
<1>6. loadJob' = d /\ load' = [load EXCEPT ![d].pc = "dispatched"]
  BY <1>1, <1>3 DEF LoadModel
<1>7. /\ \A l \in Loads \ {d} : load'[l] = load[l]
      /\ load'[d].pc = "dispatched" /\ load'[d].gen = load[d].gen
      /\ load'[d].cancelled = load[d].cancelled
  <2>1. d \in Loads /\ load[d] \in LoadStates
    BY LoadNames DEF TypeOK
  <2>2. load'[d] = [load[d] EXCEPT !.pc = "dispatched"]
    BY <1>6, <2>1 DEF TypeOK
  <2> QED
    BY <1>6, <2>1, <2>2 DEF TypeOK, LoadStates
<1> QED
  BY <1>1, <1>2, <1>3, <1>4, <1>5, <1>6, <1>7

(* A reset cancels the three jobs of the dictation that is on the screen.  *)
LEMMA ResetCancels ==
    ASSUME TypeOK, Reset
    PROVE  /\ gen' = gen + 1 /\ gen \in Nat
           /\ recorderJob' = None /\ modelJob' = None /\ loadJob' = None
           /\ ~isRecording' /\ session' = None /\ recorder' = None
           /\ backend' = None /\ lease' = None
           /\ \A u \in Dictations :
                 /\ cap'[u].pc = cap[u].pc /\ cap'[u].gen = cap[u].gen
                 /\ cap'[u].cancelled <=> \/ cap[u].cancelled
                                          \/ u = recorderJob /\ cap[u].pc # "done"
           /\ \A u \in Dictations :
                 /\ mod'[u].pc = mod[u].pc /\ mod'[u].gen = mod[u].gen
                 /\ mod'[u].waits = mod[u].waits /\ mod'[u].runtime = mod[u].runtime
                 /\ mod'[u].cancelled <=> \/ mod[u].cancelled
                                          \/ u = modelJob /\ mod[u].pc # "done"
           /\ \A l \in Loads :
                 /\ load'[l].pc = load[l].pc /\ load'[l].gen = load[l].gen
                 /\ load'[l].cancelled <=> \/ load[l].cancelled
                                           \/ l = loadJob /\ load[l].pc # "done"
<1>1. /\ gen' = gen + 1 /\ recorderJob' = None /\ modelJob' = None /\ loadJob' = None
      /\ ~isRecording' /\ session' = None /\ backend' = None /\ lease' = None
      /\ StopAndReleaseRecorder(recorder)
  BY DEF Reset
<1>2. gen \in Nat
  BY ConstantsAssumption DEF TypeOK, Generations
<1>3. recorder' = None
  BY <1>1 DEF StopAndReleaseRecorder, mic
<1>4. ASSUME NEW u \in Dictations
      PROVE  /\ cap'[u].pc = cap[u].pc /\ cap'[u].gen = cap[u].gen
             /\ cap'[u].cancelled <=> \/ cap[u].cancelled
                                      \/ u = recorderJob /\ cap[u].pc # "done"
  <2>1. cap[u] \in CaptureStates
    BY DEF TypeOK
  <2>2. cap'[u] = IF u = recorderJob /\ cap[u].pc # "done"
                  THEN [cap[u] EXCEPT !.cancelled = TRUE] ELSE cap[u]
    BY DEF Reset
  <2> QED
    BY <2>1, <2>2 DEF CaptureStates
<1>5. ASSUME NEW u \in Dictations
      PROVE  /\ mod'[u].pc = mod[u].pc /\ mod'[u].gen = mod[u].gen
             /\ mod'[u].waits = mod[u].waits /\ mod'[u].runtime = mod[u].runtime
             /\ mod'[u].cancelled <=> \/ mod[u].cancelled
                                      \/ u = modelJob /\ mod[u].pc # "done"
  <2>1. mod[u] \in RunStates
    BY DEF TypeOK
  <2>2. mod'[u] = IF u = modelJob /\ mod[u].pc # "done"
                  THEN [mod[u] EXCEPT !.cancelled = TRUE] ELSE mod[u]
    BY DEF Reset
  <2> QED
    BY <2>1, <2>2 DEF RunStates
<1>6. ASSUME NEW l \in Loads
      PROVE  /\ load'[l].pc = load[l].pc /\ load'[l].gen = load[l].gen
             /\ load'[l].cancelled <=> \/ load[l].cancelled
                                       \/ l = loadJob /\ load[l].pc # "done"
  <2>1. load[l] \in LoadStates
    BY DEF TypeOK
  <2>2. load'[l] = IF l = loadJob /\ load[l].pc # "done"
                   THEN [load[l] EXCEPT !.cancelled = TRUE] ELSE load[l]
    BY DEF Reset
  <2> QED
    BY <2>1, <2>2 DEF LoadStates
<1> QED
  BY <1>1, <1>2, <1>3, <1>4, <1>5, <1>6

(* A step keeps starts in turn.                                            *)
LEMMA TurnStep ==
    ASSUME TypeOK, InTurn, Jobs, UnstartedBlank, [Next]_vars
    PROVE  StartsInTurn'
<1> USE DEF control, mic, leases, runtimes, history, jobs, replay, coroutines
<1>0. /\ \A d, e \in Dictations : ~StartOver(d) /\ ~StartOver(e) => d = e
      /\ \A d \in Dictations : ~StartOver(d) => recorderJob = None /\ create[d].gen = gen
      /\ \A d \in Dictations : create[d].pc # "done" => cap[d].pc = "idle"
      /\ \A d \in Dictations : create[d] \in CreateStates
  BY DEF Jobs, StartsInTurn, TypeOK
<1>1. ASSUME NEW d \in Dictations, ~StartOver(d), UNCHANGED <<recorderJob, gen, cap>>,
             \A c \in Dictations \ {d} : create'[c] = create[c],
             create'[d].pc # "done" => create'[d].gen = gen
      PROVE  StartsInTurn'
  BY <1>0, <1>1 DEF StartsInTurn, StartOver
<1>2. ASSUME NEW d \in Dictations, Create(d) PROVE StartsInTurn'
  <2>1. /\ recorderJob = None /\ UNCHANGED <<recorderJob, gen, cap>> /\ create[d].pc = "idle"
        /\ \A e \in Dictations : StartOver(e)
        /\ create' = [create EXCEPT ![d] = [pc |-> "settings", born |-> gen, gen |-> gen]]
    BY <1>2 DEF Create, InTurn
  <2>2. create'[d].gen = gen /\ \A c \in Dictations \ {d} : create'[c] = create[c]
    BY <2>1 DEF TypeOK
  <2> QED
    BY <1>0, <2>1, <2>2 DEF StartsInTurn, StartOver
<1>3. ASSUME NEW d \in Dictations, CreateNext(d), ~Create(d), ~StartRecording(d)
      PROVE  StartsInTurn'
  <2>1. ~StartOver(d) /\ UNCHANGED <<recorderJob, gen, cap>>
    BY <1>3
    DEF CreateNext, ModelRequired, SettingsRead, PermissionResult, AcquireSession,
        AcquireSessionFails, DeclineSession, RecorderDenied, StartOver
  <2>2. create[d].gen = gen
    BY <1>0, <2>1
  <2>3. PICK pc \in CreatePCs : \/ create' = [create EXCEPT ![d].pc = pc]
                                \/ create' = [create EXCEPT ![d].pc = pc, ![d].gen = gen]
    BY <1>3
    DEF CreateNext, ModelRequired, SettingsRead, PermissionResult, AcquireSession,
        AcquireSessionFails, DeclineSession, RecorderDenied, CreatePCs
  <2>4. create'[d].gen = gen /\ \A c \in Dictations \ {d} : create'[c] = create[c]
    BY <1>0, <2>2, <2>3 DEF TypeOK, CreateStates
  <2> QED
    BY <1>1, <2>1, <2>4
<1>4. ASSUME NEW d \in Dictations, StartRecording(d) PROVE StartsInTurn'
  <2>1. /\ recorderJob' = d /\ UNCHANGED gen /\ ~StartOver(d)
        /\ create' = [create EXCEPT ![d].pc = "done"]
    BY <1>4 DEF StartRecording, StartOver
  <2>2. create'[d].pc = "done" /\ \A c \in Dictations \ {d} : create'[c] = create[c]
    BY <1>0, <2>1 DEF TypeOK, CreateStates
  <2>3. \A u \in Dictations \ {d} : cap'[u] = cap[u]
    BY <1>4, StartFinds
  <2> QED
    BY <1>0, <2>1, <2>2, <2>3 DEF StartsInTurn, StartOver
<1>5. CASE Reset
  <2>1. UNCHANGED create /\ \A d \in Dictations : StartOver(d)
    BY <1>5 DEF Reset, InTurn
  <2> QED
    BY <1>0, <1>5, <2>1, ResetCancels DEF StartsInTurn, StartOver
<1>6. CASE Ordinary /\ UNCHANGED create
  <2>1. \A u \in Dictations : cap[u].pc = "idle" => cap'[u].pc = "idle"
    BY <1>6 DEF Ordinary, CaptureSteps
  <2> QED
    BY <1>0, <1>6, <2>1 DEF StartsInTurn, StartOver, Ordinary
<1> QED
  BY <1>2, <1>3, <1>4, <1>5, <1>6, OrdinaryStep DEF Ordinary, Jobs

(* A step keeps every capture known: only a start sets one up.             *)
LEMMA CapturesStep ==
    ASSUME TypeOK, InTurn, Jobs, UnstartedBlank, [Next]_vars
    PROVE  CapturesKnown'
<1>0. CapturesKnown /\ gen \in Nat /\ \A u \in Dictations : cap[u].gen \in Nat
  BY ConstantsAssumption DEF Jobs, TypeOK, Generations, CaptureStates
<1>1. CASE Ordinary
  BY <1>0, <1>1 DEF Ordinary, CaptureSteps, CapturesKnown
<1>2. ASSUME NEW d \in Dictations, StartRecording(d) PROVE CapturesKnown'
  BY <1>0, <1>2, StartFinds, LoadNames DEF CapturesKnown
<1>3. CASE Reset
  <2> SUFFICES ASSUME NEW u \in Dictations
               PROVE  /\ cap'[u].cancelled => cap'[u].pc # "idle" /\ u # recorderJob'
                      /\ cap'[u].pc # "idle" =>
                            cap'[u].gen < gen' /\ (cap'[u].pc # "done" => cap'[u].cancelled)
                      /\ u # recorderJob'
    BY DEF CapturesKnown
  <2>1. /\ cap'[u].pc = cap[u].pc /\ cap'[u].gen = cap[u].gen
        /\ cap'[u].cancelled <=> \/ cap[u].cancelled
                                 \/ u = recorderJob /\ cap[u].pc # "done"
        /\ gen' = gen + 1 /\ u # recorderJob'
    BY <1>3, ResetCancels, LoadNames
  <2> QED
    BY <1>0, <2>1 DEF CapturesKnown
<1> QED
  BY <1>1, <1>2, <1>3, OrdinaryStep DEF Jobs

(* A step keeps every load known.                                          *)
LEMMA LoadsStep ==
    ASSUME TypeOK, InTurn, Jobs, UnstartedBlank, [Next]_vars
    PROVE  LoadsKnown'
<1>a. \A l \in Loads : load[l].gen \in Nat
  BY ConstantsAssumption DEF TypeOK, LoadStates, Generations
<1>0. /\ LoadsKnown /\ gen \in Nat
      /\ \A d \in Dictations : d \in Loads /\ RetryOf(d) \in Loads /\ RetryOf(d) \notin Dictations
      /\ None \notin Dictations
  BY ConstantsAssumption, LoadNames DEF Jobs, TypeOK, Generations, Dictations, RetryOf
<1>1. CASE Ordinary
  BY <1>0, <1>1 DEF Ordinary, LoadSteps, LoadsKnown
<1>2. ASSUME NEW d \in Dictations, StartRecording(d) PROVE LoadsKnown'
  BY <1>0, <1>2, StartFinds DEF LoadsKnown
<1>3. CASE Reset
  <2>1. /\ loadJob' = recorderJob' /\ recorderJob' = None /\ gen' = gen + 1
        /\ \A l \in Loads : load'[l].pc = load[l].pc /\ load'[l].gen = load[l].gen
    BY <1>3, ResetCancels
  <2>2. ASSUME NEW d \in Dictations
        PROVE  /\ load'[d].cancelled => load'[d].pc # "idle"
               /\ load'[d].pc \notin {"idle", "done"} => load'[d].cancelled
               /\ load'[d].pc \notin {"idle", "dispatched", "done"} => load'[d].gen < gen'
    <3>1. load'[d].cancelled <=> load[d].cancelled \/ (d = recorderJob /\ load[d].pc # "done")
      BY <1>0, <1>3, ResetCancels DEF LoadsKnown
    <3> QED
      BY <1>a, <1>0, <2>1, <3>1 DEF LoadsKnown
  <2> QED
    BY <1>0, <2>1, <2>2 DEF LoadsKnown
<1> QED
  BY <1>1, <1>2, <1>3, OrdinaryStep DEF Jobs

(* A step keeps what the fields hold between two dictations.               *)
LEMMA QuietStep ==
    ASSUME TypeOK, InTurn, Jobs, UnstartedBlank, [Next]_vars
    PROVE  QuietBetween'
<1>1. CASE Ordinary
  <2>1. ASSUME NEW l \in Loads, Publish(l) PROVE recorderJob # None
    <3>1. load[l].pc = "publish" /\ load[l].gen = gen /\ gen \in Nat
      BY <2>1, ConstantsAssumption DEF Publish, TypeOK, Generations
    <3>2. l \in Dictations \/ \E d \in Dictations : l = RetryOf(d)
      BY ConstantsAssumption DEF Loads, Dictations, RetryOf
    <3> QED
      BY <3>1, <3>2, LoadNames DEF Jobs, LoadsKnown
  <2> QED
    BY <1>1, <2>1 DEF Ordinary, Jobs, QuietBetween
<1>2. ASSUME NEW d \in Dictations, StartRecording(d) PROVE QuietBetween'
  BY <1>2, StartFinds, LoadNames DEF QuietBetween
<1>3. CASE Reset
  BY <1>3, ResetCancels DEF QuietBetween
<1> QED
  BY <1>1, <1>2, <1>3, OrdinaryStep DEF Jobs

(* A step keeps every run known.  A run that awaits its load finds what    *)
(* that load has published, or a dictation that has failed.                *)
LEMMA RunsStep ==
    ASSUME TypeOK, FieldsInv, InTurn, Jobs, UnstartedBlank, BackendKept, [Next]_vars
    PROVE  RunsKnown'
<1>0. /\ RunsKnown /\ LoadsKnown /\ gen \in Nat /\ None \notin Dictations
      /\ \A u \in Dictations : mod[u].gen \in Nat
      /\ recorderJob = None => ~isRecording
      /\ recorderJob \in Dictations \cup {None}
  BY LoadNames, ConstantsAssumption DEF Jobs, QuietBetween, TypeOK, Generations, RunStates
<1>1. ASSUME NEW u \in Dictations, RunSteps(u), UNCHANGED <<gen, cap, modelJob, recorderJob>>,
             isRecording' => isRecording
      PROVE  RunsKnown'
  <2>1. mod[u].pc \in {"waitLoad", "decoding", "releasing", "deliver", "failMain", "cleanup"}
           /\ mod[u].gen = gen => u = modelJob
    BY <1>0 DEF RunsKnown
  <2>2. mod'[u].pc # "retry"
    <3> SUFFICES ASSUME mod'[u].pc = "retry" PROVE FALSE
      OBVIOUS
    <3>1. /\ mod[u].pc = "waitLoad" /\ u = modelJob /\ stopReason # "Cancel"
          /\ Awaited(u) /\ BackendFor(gen) = None
      BY <1>1, <2>1 DEF RunSteps
    <3>2. u = recorderJob /\ load[u].pc = "done"
      BY <1>0, <3>1 DEF RunsKnown, Awaited
    <3>3. backend = u
      BY <3>1, <3>2 DEF BackendKept, Undecoded
    <3> QED
      BY <1>0, <3>1, <3>3 DEF BackendFor, FieldsInv, FieldsAreCurrent
  <2>3. mod'[u].pc = "decoding" => u = modelJob /\ mod'[u].runtime = u
    BY <1>0, <1>1, <2>1 DEF RunSteps, RunsKnown, BackendKept
  <2>4. mod'[u].pc = "joining" => mod'[u].waits = recorderJob
    BY <1>1 DEF RunSteps
  <2>5. mod'[u].pc = "waitLoad" =>
           u = modelJob /\ mod'[u].waits = u /\ mod'[u].gen = gen /\ cap[u].pc = "done"
    BY <1>0, <1>1 DEF RunSteps, RunsKnown, LoadsKnown
  <2>6. mod'[u].pc \notin {"joining", "waitLoad", "done"} =>
           mod'[u].gen = mod[u].gen
           /\ mod[u].pc \notin {"idle", "dispatched", "joining", "done"}
    BY <1>1 DEF RunSteps
  <2>7. /\ mod'[u].pc \in {"decoding", "releasing"} => mod'[u].runtime = u
        /\ mod'[u].pc \notin {"decoding", "releasing"} => mod'[u].runtime = None
    BY <1>0, <1>1, <2>3 DEF RunSteps, RunsKnown
  <2> QED
    BY <1>0, <1>1, <2>2, <2>4, <2>5, <2>6, <2>7 DEF RunSteps, RunsKnown
<1>2. CASE Ordinary
  <2>1. CASE UNCHANGED <<mod, modelJob>>
    <3>1. \A u \in Dictations : cap[u].pc = "done" => cap'[u].pc = "done"
      BY <1>2 DEF Ordinary, CaptureSteps
    <3> QED
      BY <1>0, <1>2, <2>1, <3>1 DEF Ordinary, RunsKnown
  <2>2. CASE isRecording /\ OnFinishRecording
    <3>1. recorderJob # None /\ modelJob = None /\ UNCHANGED <<gen, recorderJob>>
      BY <1>0, <1>2, <2>2 DEF RunsKnown, Ordinary
    <3>2. mod[recorderJob].pc = "idle" /\ ~mod[recorderJob].cancelled
      BY <1>0, <3>1 DEF RunsKnown
    <3>3. \A u \in Dictations : cap[u].pc = "done" => cap'[u].pc = "done"
      BY <1>2 DEF Ordinary, CaptureSteps
    <3> QED
      BY <1>0, <2>2, <3>1, <3>2, <3>3, FinishDispatches DEF RunsKnown
  <2> QED
    BY <1>1, <1>2, <2>1, <2>2 DEF Ordinary
<1>3. ASSUME NEW d \in Dictations, StartRecording(d) PROVE RunsKnown'
  BY <1>0, <1>3, StartFinds DEF RunsKnown
<1>4. CASE Reset
  <2>1. /\ recorderJob' = None /\ modelJob' = None /\ gen' = gen + 1
        /\ \A u \in Dictations :
              /\ mod'[u].pc = mod[u].pc /\ mod'[u].gen = mod[u].gen
              /\ mod'[u].runtime = mod[u].runtime
              /\ mod'[u].cancelled <=> \/ mod[u].cancelled
                                       \/ u = modelJob /\ mod[u].pc # "done"
    BY <1>4, ResetCancels
  <2> QED
    BY <1>0, <2>1 DEF RunsKnown
<1> QED
  BY <1>2, <1>3, <1>4, OrdinaryStep DEF Jobs

-----------------------------------------------------------------------------
(* What the other steps show on the screen, and do to the microphone.      *)

Started == \E d \in Dictations : StartRecording(d)

(* A dictation fails before it is decoded, or when its run has failed.     *)
Fails ==
    /\ stopReason' = "Cancel" /\ ~isRecording'
    /\ outcome' = [u \in Dictations |-> IF u = recorderJob THEN "failed" ELSE outcome[u]]
    /\ \/ recorderJob = None
       \/ load[recorderJob].pc = "failed" /\ UNCHANGED mod
       \/ /\ modelJob # None /\ mod[modelJob].pc \in {"deliver", "failMain"}
          /\ mod'[modelJob].pc = "cleanup"

Delivers ==
    /\ modelJob # None /\ mod[modelJob].pc = "deliver" /\ mod'[modelJob].pc = "cleanup"
    /\ outcome' = [outcome EXCEPT ![modelJob] = "delivered"]
    /\ UNCHANGED <<stopReason, isRecording, session>>

(* Only the run of the dictation, when it ends, gives back its session.    *)
Keeps ==
    /\ outcome' = outcome
    /\ recorderJob = None \/ (stopReason' = "Cancel" <=> stopReason = "Cancel")
    /\ session' = session \/ (modelJob # None /\ mod[modelJob].pc = "cleanup")

(* The run that is past its join and current is the one in the field.      *)
LEMMA CurrentRun ==
    ASSUME RunsKnown, TypeOK, NEW u \in Dictations, mod[u].gen = gen,
           mod[u].pc \notin {"idle", "dispatched", "joining", "done"}
    PROVE  u = modelJob /\ u = recorderJob
<1>1. gen \in Nat
  BY ConstantsAssumption DEF TypeOK, Generations
<1> QED
  BY <1>1, LoadNames DEF RunsKnown

(* The load that is current is the one in the field.                       *)
LEMMA CurrentLoad ==
    ASSUME LoadsKnown, TypeOK, NEW l \in Loads,
           load[l].pc \notin {"idle", "dispatched", "done"}
    PROVE  l \in Dictations /\ (load[l].gen = gen <=> l = recorderJob)
<1>1. gen \in Nat
  BY ConstantsAssumption DEF TypeOK, Generations
<1>2. l \in Dictations \/ \E d \in Dictations : l = RetryOf(d)
  BY ConstantsAssumption DEF Loads, Dictations, RetryOf
<1> QED
  BY <1>1, <1>2 DEF LoadsKnown

(* Every such step shows a failure, delivers a text or keeps the screen.   *)
LEMMA ShowStep ==
    ASSUME TypeOK, FieldsInv, InTurn, Jobs, [Next]_vars, ~Reset, ~Started
    PROVE  Fails \/ Delivers \/ Keeps
<1> USE DEF control, mic, leases, runtimes, history, jobs, replay, coroutines
<1>1. ASSUME NEW d \in Dictations, CreateNext(d) PROVE Fails \/ Keeps
  <2>1. CASE AcquireSessionFails(d)
    <3>1. create[d].pc = "acquire" /\ FailRecognition(create[d].gen)
      BY <2>1 DEF AcquireSessionFails
    <3>2. recorderJob = None /\ create[d].gen = gen
      BY <3>1 DEF Jobs, StartsInTurn, StartOver
    <3> QED
      BY <3>1, <3>2 DEF FailRecognition, Fails
  <2>2. CASE RecorderDenied(d)
    <3>1. create[d].pc = "leased" /\ UNCHANGED <<outcome, session>>
      BY <2>2 DEF RecorderDenied
    <3> QED
      BY <3>1 DEF Jobs, StartsInTurn, StartOver, Keeps
  <2>3. CASE ~AcquireSessionFails(d) /\ ~RecorderDenied(d)
    BY <1>1, <2>3
    DEF Started, CreateNext, Create, ModelRequired, SettingsRead, PermissionResult,
        AcquireSession, DeclineSession, Keeps
  <2> QED
    BY <2>1, <2>2, <2>3
<1>2. ASSUME NEW u \in Dictations, CaptureNext(u) PROVE Keeps
  BY <1>2
  DEF CaptureNext, CaptureBegins, CaptureNeverBegins, CaptureCancelled, LoopEnds, Append,
      AppendAtLimit, Reads, KeepListening, VadStops, FinishFromCapture, Epilogue,
      CaptureCloses, InTurn, Keeps
<1>3. ASSUME NEW l \in Loads, LoadNext(l) PROVE Fails \/ Keeps
  <2>1. CASE LoadFailureShown(l)
    <3>1. load[l].pc = "failed" /\ FailRecognition(load[l].gen) /\ UNCHANGED mod
      BY <2>1 DEF LoadFailureShown
    <3>2. load[l].gen = gen => l = recorderJob
      BY <3>1, CurrentLoad DEF Jobs
    <3> QED
      BY <3>1, <3>2 DEF FailRecognition, Fails, Keeps
  <2>2. CASE ~LoadFailureShown(l)
    BY <1>3, <2>2
    DEF LoadNext, LoadBegins, LoadCancelled, LoadSucceeds, LoadFails, LoadOutOfMemory,
        Publish, ReleaseUnpublished, StreamLoaded, Keeps
  <2> QED
    BY <2>1, <2>2
<1>4. ASSUME NEW u \in Dictations, RunNext(u) PROVE Fails \/ Delivers \/ Keeps
  <2>1. CASE Deliver(u)
    <3>1. /\ mod[u].pc = "deliver" /\ mod'[u].pc = "cleanup"
          /\ UNCHANGED <<stopReason, isRecording, session>>
          /\ mod[u].gen = gen => outcome' = [outcome EXCEPT ![u] = "delivered"]
          /\ mod[u].gen # gen => outcome' = outcome
      BY <2>1, RunGoesOn DEF Deliver
    <3> QED
      BY <3>1, CurrentRun, LoadNames DEF Delivers, Keeps, Jobs
  <2>2. CASE DeliverBlank(u) \/ RunFailureShown(u)
    <3>1. /\ mod[u].pc \in {"deliver", "failMain"} /\ mod'[u].pc = "cleanup"
          /\ FailRecognition(mod[u].gen)
      BY <2>2, RunGoesOn DEF DeliverBlank, RunFailureShown
    <3> QED
      BY <3>1, CurrentRun, LoadNames DEF FailRecognition, Fails, Keeps, Jobs
  <2>3. CASE RunEnds(u)
    <3>1. /\ mod[u].pc = "cleanup" /\ ReleaseModelSession(mod[u].gen)
          /\ UNCHANGED <<outcome, stopReason>>
      BY <2>3 DEF RunEnds
    <3>2. session' = session \/ mod[u].gen = gen
      BY <3>1 DEF ReleaseModelSession, FieldsInv, FieldsAreCurrent
    <3> QED
      BY <3>1, <3>2, CurrentRun, LoadNames DEF Keeps, Jobs
  <2>4. CASE ~Deliver(u) /\ ~DeliverBlank(u) /\ ~RunFailureShown(u) /\ ~RunEnds(u)
    BY <1>4, <2>4
    DEF RunNext, RunDispatched, RunNeverBegins, JoinRecorder, RunCancelled, LoadAwaited,
        RetryLoad, RetryAwaited, Decoded, DecodeFails, ReleaseBackend, DeliverThrows, Keeps
  <2> QED
    BY <2>1, <2>2, <2>3, <2>4
<1>5. ASSUME NEW g \in Generations, Cleanup(g) PROVE Keeps
  BY <1>5 DEF Cleanup, Keeps
<1>6. CASE PressFinish
  BY <1>6 DEF PressFinish, Keeps
<1>7. CASE UNCHANGED vars
  BY <1>7 DEF vars, Keeps
<1> QED
  BY <1>1, <1>2, <1>3, <1>4, <1>5, <1>6, <1>7 DEF Next

(* An ordinary step stops the microphone or leaves it alone, and a capture *)
(* that ends does not leave it in the field.                               *)
LEMMA MicrophoneMoves ==
    ASSUME TypeOK, [Next]_vars, ~Reset, ~Started
    PROVE  /\ UNCHANGED mic \/ (recorder' = None /\ micOn' = micOn \ {recorder})
           /\ \A u \in Dictations :
                 cap'[u].pc = "done" => cap[u].pc = "done" \/ cap[u].cancelled \/ recorder' # u
<1> USE DEF control, leases, runtimes, history, jobs, replay, coroutines
<1> DEFINE Moves == UNCHANGED mic \/ (recorder' = None /\ micOn' = micOn \ {recorder})
<1>1. ASSUME NEW d \in Dictations, CreateNext(d) PROVE Moves /\ UNCHANGED cap
  BY <1>1
  DEF Started, CreateNext, Create, ModelRequired, SettingsRead, PermissionResult,
      AcquireSession, AcquireSessionFails, DeclineSession, RecorderDenied, FailRecognition,
      StopAndReleaseRecorder, mic
<1>2. ASSUME NEW u \in Dictations, CaptureNext(u)
      PROVE  /\ Moves
             /\ \A v \in Dictations : cap'[v].pc = "done" =>
                   cap[v].pc = "done" \/ cap[v].cancelled \/ recorder' # v
  <2>1. \A v \in Dictations \ {u} : cap'[v] = cap[v]
    BY <1>2, CaptureStep DEF CaptureSteps
  <2>2. CASE CaptureCloses(u)
    BY <2>1, <2>2, LoadNames DEF CaptureCloses, StopAndReleaseRecorder, mic
  <2>3. CASE CaptureNeverBegins(u)
    BY <2>1, <2>3 DEF CaptureNeverBegins, mic
  <2>4. CASE ~CaptureCloses(u) /\ ~CaptureNeverBegins(u)
    <3>1. UNCHANGED mic /\ \E pc \in CapturePCs \ {"done"} : GoCapture(u, pc)
      BY <1>2, <2>4
      DEF CaptureNext, CaptureBegins, CaptureCancelled, LoopEnds, Append, AppendAtLimit,
          KeepListening, VadStops, FinishFromCapture, Epilogue, mic, CapturePCs
    <3> QED
      BY <2>1, <3>1 DEF GoCapture, TypeOK, CaptureStates
  <2> QED
    BY <2>2, <2>3, <2>4
<1>3. ASSUME NEW l \in Loads, LoadNext(l) PROVE Moves /\ UNCHANGED cap
  BY <1>3
  DEF LoadNext, LoadBegins, LoadCancelled, LoadSucceeds, LoadFails, LoadOutOfMemory, Publish,
      ReleaseUnpublished, StreamLoaded, LoadFailureShown, FailRecognition,
      StopAndReleaseRecorder, mic
<1>4. ASSUME NEW u \in Dictations, RunNext(u) PROVE Moves /\ UNCHANGED cap
  BY <1>4
  DEF RunNext, RunDispatched, RunNeverBegins, JoinRecorder, RunCancelled, LoadAwaited,
      RetryLoad, RetryAwaited, Decoded, DecodeFails, ReleaseBackend, Deliver, DeliverBlank,
      DeliverThrows, RunFailureShown, RunEnds, FailRecognition, StopAndReleaseRecorder, mic
<1>5. (\E g \in Generations : Cleanup(g)) \/ PressFinish \/ UNCHANGED vars
         => Moves /\ UNCHANGED cap
  BY DEF Cleanup, PressFinish, vars, mic
<1> QED
  BY <1>1, <1>2, <1>3, <1>4, <1>5 DEF Next

(* A step keeps the microphone with the capture of the dictation.          *)
LEMMA MicrophoneStep ==
    ASSUME TypeOK, InTurn, Jobs, UnstartedBlank, MicrophoneHeld, [Next]_vars
    PROVE  MicrophoneHeld'
<1>0. /\ None \notin Dictations /\ recorder \in Dictations \cup {None}
      /\ \A u \in Dictations : cap[u].cancelled => u # recorderJob
  BY LoadNames DEF TypeOK, Jobs, CapturesKnown
<1>1. ASSUME NEW d \in Dictations, StartRecording(d) PROVE MicrophoneHeld'
  <2>1. recorder' = d /\ micOn' = micOn \cup {d}
    BY <1>1 DEF StartRecording
  <2>2. micOn \subseteq {}
    BY <1>0, <1>1, StartFinds DEF MicrophoneHeld, TypeOK
  <2> QED
    BY <1>1, <2>1, <2>2, StartFinds DEF MicrophoneHeld
<1>2. CASE Reset
  <2>1. recorder' = None /\ micOn' \subseteq {}
    BY <1>0, <1>2 DEF Reset, StopAndReleaseRecorder, MicrophoneHeld, mic, TypeOK
  <2> QED
    BY <2>1 DEF MicrophoneHeld
<1>3. CASE ~Reset /\ ~Started
  <2>1. UNCHANGED recorderJob
    BY <1>3, OrdinaryStep DEF Ordinary, Jobs, Started
  <2>2. CASE UNCHANGED mic
    BY <1>0, <1>3, <2>1, <2>2, MicrophoneMoves DEF MicrophoneHeld, mic
  <2>3. CASE recorder' = None /\ micOn' = micOn \ {recorder}
    BY <2>3 DEF MicrophoneHeld
  <2> QED
    BY <1>3, <2>2, <2>3, MicrophoneMoves
<1> QED
  BY <1>1, <1>2, <1>3 DEF Started

(* A step keeps recording what has no outcome and was not cancelled.       *)
LEMMA RecordingStep ==
    ASSUME TypeOK, FieldsInv, InTurn, Jobs, UnstartedBlank, RecordingKnown, [Next]_vars
    PROVE  RecordingKnown'
<1>1. ASSUME NEW d \in Dictations, StartRecording(d) PROVE RecordingKnown'
  BY <1>1, StartFinds DEF StartRecording, RecordingKnown
<1>2. CASE Reset
  BY <1>2 DEF Reset, RecordingKnown
<1>3. CASE ~Reset /\ ~Started
  <2>1. Ordinary /\ (Fails \/ Delivers \/ Keeps)
    BY <1>3, OrdinaryStep, ShowStep DEF Jobs, Started
  <2>2. isRecording => recorderJob # None /\ modelJob = None
    BY DEF Jobs, QuietBetween, RunsKnown
  <2> QED
    BY <2>1, <2>2 DEF Ordinary, Fails, Delivers, Keeps, RecordingKnown
<1> QED
  BY <1>1, <1>2, <1>3 DEF Started

-----------------------------------------------------------------------------
(* What was never started has left no trace.                               *)

(* No step hears anything for an utterance that was never started.         *)
LEMMA UnheardStep ==
    ASSUME TypeOK, Jobs, UnstartedBlank, [Next]_vars, NEW u \in Dictations, cap[u].pc = "idle"
    PROVE  heard'[u] = "empty"
<1> USE DEF replay
<1>0. heard[u] = "empty" /\ heard \in [Dictations -> HeardStates]
  BY DEF UnstartedBlank, TypeOK
<1>1. ASSUME NEW d \in Dictations, CreateNext(d) PROVE heard'[u] = "empty"
  <2>1. CASE StartRecording(d)
    BY <1>0, <2>1, StartFinds DEF StartRecording
  <2>2. CASE ~StartRecording(d)
    BY <1>0, <1>1, <2>2
    DEF CreateNext, Create, ModelRequired, SettingsRead, PermissionResult, AcquireSession,
        AcquireSessionFails, DeclineSession, RecorderDenied, ReplayReset
  <2> QED
    BY <2>1, <2>2
<1>2. ASSUME NEW v \in Dictations, CaptureNext(v) PROVE heard'[u] = "empty"
  <2>1. u # v
    BY <1>2, CaptureStep DEF CaptureSteps
  <2>2. heard' = heard \/ \E h : heard' = [heard EXCEPT ![v] = h]
    BY <1>2
    DEF CaptureNext, CaptureBegins, CaptureNeverBegins, CaptureCancelled, LoopEnds, Append,
        AppendAtLimit, KeepListening, VadStops, FinishFromCapture, Epilogue, CaptureCloses,
        DrainTail
  <2> QED
    BY <1>0, <2>1, <2>2
<1>3. ASSUME NEW l \in Loads, LoadNext(l) PROVE heard'[u] = "empty"
  BY <1>0, <1>3
  DEF LoadNext, LoadBegins, LoadCancelled, LoadSucceeds, LoadFails, LoadOutOfMemory, Publish,
      ReleaseUnpublished, StreamLoaded, LoadFailureShown, StartStreaming
<1>4. ASSUME NEW v \in Dictations, RunNext(v) PROVE heard'[u] = "empty"
  BY <1>0, <1>4
  DEF RunNext, RunDispatched, RunNeverBegins, JoinRecorder, RunCancelled, LoadAwaited,
      RetryLoad, RetryAwaited, Decoded, DecodeFails, ReleaseBackend, Deliver, DeliverBlank,
      DeliverThrows, RunFailureShown, RunEnds
<1>5. (\E g \in Generations : Cleanup(g)) \/ PressFinish \/ Reset \/ UNCHANGED vars
         => heard'[u] = "empty"
  BY <1>0 DEF Cleanup, PressFinish, Reset, ReplayReset, vars
<1> QED
  BY <1>1, <1>2, <1>3, <1>4, <1>5 DEF Next

(* A step keeps the unstarted blank.                                       *)
LEMMA UnstartedStep ==
    ASSUME TypeOK, FieldsInv, InTurn, Jobs, UnstartedBlank, [Next]_vars
    PROVE  UnstartedBlank'
<1>0. /\ None \notin Dictations /\ \A u \in Dictations : u \in Loads
      /\ \A u \in Dictations : cap[u].pc = "idle" => u # recorderJob /\ u # modelJob
  BY LoadNames DEF Jobs, CapturesKnown, RunsKnown
<1>1. ASSUME NEW d \in Dictations, StartRecording(d) PROVE UnstartedBlank'
  <2>1. UNCHANGED outcome
    BY <1>1 DEF StartRecording
  <2> QED
    BY <1>0, <1>1, <2>1, StartFinds, UnheardStep DEF UnstartedBlank
<1>2. CASE Reset
  <2>1. \A u \in Dictations : u # recorderJob => outcome'[u] = outcome[u]
    BY <1>2 DEF Reset, TypeOK
  <2> QED
    BY <1>0, <1>2, <2>1, ResetCancels, UnheardStep DEF UnstartedBlank
<1>3. CASE ~Reset /\ ~Started
  <2>1. Ordinary /\ (Fails \/ Delivers \/ Keeps)
    BY <1>3, OrdinaryStep, ShowStep DEF Jobs, Started
  <2> SUFFICES ASSUME NEW u \in Dictations, cap'[u].pc = "idle"
               PROVE  /\ mod'[u].pc = "idle" /\ load'[u].pc = "idle"
                      /\ outcome'[u] = "none" /\ heard'[u] = "empty"
    BY DEF UnstartedBlank
  <2>2. cap[u].pc = "idle"
    BY <2>1 DEF Ordinary, CaptureSteps
  <2>3. mod'[u].pc = "idle"
    BY <1>0, <2>1, <2>2, FinishDispatches DEF Ordinary, RunSteps, UnstartedBlank
  <2>4. load'[u].pc = "idle"
    BY <1>0, <2>1, <2>2 DEF Ordinary, LoadSteps, UnstartedBlank
  <2>5. outcome'[u] = "none"
    BY <1>0, <2>1, <2>2 DEF Fails, Delivers, Keeps, UnstartedBlank, TypeOK
  <2> QED
    BY <2>2, <2>3, <2>4, <2>5, UnheardStep
<1> QED
  BY <1>1, <1>2, <1>3 DEF Started

-----------------------------------------------------------------------------
(* The runtimes.                                                           *)

(* No load but a published one gets past its publication, unless it fails. *)
LoadsPass ==
    \A l \in Loads :
        /\ load'[l].pc = "publish" <=> load[l].pc = "publish"
        /\ l = recorderJob /\ load'[l].pc \in {"published", "done"} =>
              load[l].pc \in {"published", "done"} \/ stopReason' = "Cancel"

(* What the generation had loaded is closed when its load or its run fails.*)
Closes ==
    /\ backend' = None /\ lease' = None /\ live' = live \ {backend}
    /\ \/ load[recorderJob].pc = "loading" /\ load'[recorderJob].pc = "failed" /\ UNCHANGED mod
       \/ modelJob # None /\ mod'[modelJob].pc = "failMain"

(* The run of the dictation keeps its runtime.                             *)
Spares ==
    /\ UNCHANGED runtimes
    /\ \A u \in Dictations :
          u = modelJob /\ mod[u].pc \in {"decoding", "releasing"} =>
              mod'[u].runtime = mod[u].runtime

RuntimeMoves ==
    \/ \E l \in Loads : LoadSucceeds(l) \/ Publish(l) \/ ReleaseUnpublished(l)
    \/ \E u \in Dictations : ReleaseBackend(u) \/ RunEnds(u)
    \/ \E g \in Generations : Cleanup(g)
    \/ (Closes \/ Spares) /\ LoadsPass

(* closeFailedBackend() releases everything the fields hold.               *)
LEMMA CloseCurrent ==
    ASSUME FieldsInv, BackendKept, CloseFailedBackend(gen)
    PROVE  backend' = None /\ lease' = None /\ live' = live \ {backend}
  BY DEF CloseFailedBackend, BackendFor, FieldsInv, FieldsAreCurrent, BackendKept

(* A failing run closes the backend if it is current, and ends otherwise.  *)
LEMMA RunFailureMoves ==
    ASSUME TypeOK, FieldsInv, Jobs, BackendKept, NEW u \in Dictations, RunFails(u),
           mod[u].pc \in {"decoding", "deliver"}
    PROVE  Closes \/ Spares
<1>1. CASE mod[u].gen = gen
  <2>1. GoRun(u, "failMain") /\ CloseFailedBackend(gen) /\ u = modelJob
    BY <1>1, CurrentRun DEF RunFails, Jobs
  <2> QED
    BY <2>1, CloseCurrent, RunGoesOn, LoadNames DEF Closes
<1>2. CASE mod[u].gen # gen
  <2>1. GoRun(u, "cleanup") /\ UNCHANGED runtimes /\ u # modelJob
    BY <1>2 DEF RunFails, Jobs, RunsKnown
  <2> QED
    BY <2>1, RunGoesOn DEF Spares
<1> QED
  BY <1>1, <1>2

(* Every such step is one of these moves of the runtimes.                  *)
LEMMA RuntimesStep ==
    ASSUME TypeOK, FieldsInv, InTurn, Jobs, BackendKept, [Next]_vars, ~Reset, ~Started
    PROVE  RuntimeMoves
<1> USE DEF control, jobs, coroutines
<1>0. \A l \in Loads : l = recorderJob => ~load[l].cancelled /\ l \in Dictations
  BY LoadNames DEF Jobs, LoadsKnown, TypeOK
<1>1. ASSUME NEW d \in Dictations, CreateNext(d) PROVE Spares /\ LoadsPass
  BY <1>1
  DEF Started, CreateNext, Create, ModelRequired, SettingsRead, PermissionResult,
      AcquireSession, AcquireSessionFails, DeclineSession, RecorderDenied, Spares, LoadsPass
<1>2. OnFinishRecording /\ isRecording /\ UNCHANGED runtimes => Spares
  BY LoadNames DEF Spares, Jobs, RunsKnown
<1>3. ASSUME NEW u \in Dictations, CaptureNext(u) PROVE Spares /\ LoadsPass
  <2>1. UNCHANGED <<runtimes, load>> /\ (UNCHANGED mod \/ (OnFinishRecording /\ isRecording))
    BY <1>3
    DEF CaptureNext, CaptureBegins, CaptureNeverBegins, CaptureCancelled, LoopEnds, Append,
        AppendAtLimit, KeepListening, VadStops, FinishFromCapture, Epilogue, CaptureCloses
  <2> QED
    BY <1>2, <2>1 DEF Spares, LoadsPass
<1>4. ASSUME NEW l \in Loads, LoadNext(l) PROVE RuntimeMoves
  <2>1. CASE LoadBegins(l)
    <3>1. UNCHANGED <<runtimes, mod>>
      BY <2>1 DEF LoadBegins
    <3>2. load[l].pc = "dispatched" /\ load' = [load EXCEPT ![l].pc = "loading", ![l].gen = gen]
      BY <2>1 DEF LoadBegins
    <3>3. LoadsPass
      BY <3>2 DEF LoadsPass, TypeOK, LoadStates
    <3> QED
      BY <3>1, <3>3 DEF RuntimeMoves, Spares
  <2>2. CASE LoadCancelled(l)
    <3>1. /\ UNCHANGED <<runtimes, mod>> /\ LoadEnds(l) /\ load[l].cancelled
          /\ load[l].pc \in {"dispatched", "loading", "failed"}
      BY <2>2 DEF LoadCancelled
    <3> QED
      BY <1>0, <3>1, LoadGoesHome DEF RuntimeMoves, Spares, LoadsPass
  <2>3. CASE LoadFails(l)
    <3>1. /\ UNCHANGED <<runtimes, mod>> /\ load[l].pc = "loading"
          /\ GoLoad(l, "failed") \/ (LoadEnds(l) /\ l # recorderJob)
      BY <2>3, CurrentLoad DEF LoadFails, Jobs
    <3> QED
      BY <3>1, LoadGoesOn, LoadGoesHome DEF RuntimeMoves, Spares, LoadsPass
  <2>4. CASE LoadOutOfMemory(l)
    <3>1. /\ GoLoad(l, "failed") /\ CloseFailedBackend(gen) /\ load[l].pc = "loading"
          /\ l = recorderJob /\ UNCHANGED mod
      BY <2>4, CurrentLoad DEF LoadOutOfMemory, Jobs
    <3> QED
      BY <3>1, LoadGoesOn, CloseCurrent DEF RuntimeMoves, Closes, LoadsPass
  <2>5. CASE StreamLoaded(l)
    <3>1. /\ UNCHANGED <<runtimes, mod>> /\ load[l].pc = "published"
          /\ GoLoad(l, "failed") \/ LoadEnds(l)
      BY <2>5 DEF StreamLoaded
    <3> QED
      BY <3>1, LoadGoesOn, LoadGoesHome DEF RuntimeMoves, Spares, LoadsPass
  <2>6. CASE LoadFailureShown(l)
    <3>1. /\ UNCHANGED <<runtimes, mod>> /\ load[l].pc = "failed" /\ LoadEnds(l)
          /\ l = recorderJob => stopReason' = "Cancel"
      BY <2>6, CurrentLoad DEF LoadFailureShown, FailRecognition, Jobs
    <3> QED
      BY <3>1, LoadGoesHome DEF RuntimeMoves, Spares, LoadsPass
  <2> QED
    BY <1>4, <2>1, <2>2, <2>3, <2>4, <2>5, <2>6 DEF LoadNext, RuntimeMoves
<1>5. ASSUME NEW u \in Dictations, RunNext(u) PROVE RuntimeMoves
  <2>0. mod[u].pc \notin {"retry", "waitRetry"} /\ (mod[u].cancelled => u # modelJob)
    BY DEF Jobs, RunsKnown
  <2>1. RunSteps(u)
    BY <1>5, <2>0, RunStep DEF InTurn
  <2>2. CASE DecodeFails(u) \/ DeliverThrows(u)
    <3>1. RunFails(u) /\ mod[u].pc \in {"decoding", "deliver"} /\ UNCHANGED load
      BY <2>2 DEF DecodeFails, DeliverThrows
    <3> QED
      BY <3>1, RunFailureMoves DEF RuntimeMoves, LoadsPass
  <2>3. CASE Decoded(u)
    <3>1. /\ mod[u].pc = "decoding" /\ UNCHANGED <<load, runtimes>>
          /\ mod[u].gen # gen => u # modelJob
          /\ mod[u].gen = gen => mod' = [mod EXCEPT ![u].pc = "releasing"]
      BY <2>3 DEF Decoded, Jobs, RunsKnown
    <3>2. \A v \in Dictations : v = modelJob => mod'[v].runtime = mod[v].runtime
      BY <2>1, <3>1 DEF RunSteps, TypeOK, RunStates
    <3> QED
      BY <3>1, <3>2 DEF RuntimeMoves, LoadsPass, Spares
  <2>4. CASE RunCancelled(u)
    <3>1. u # modelJob /\ UNCHANGED <<load, runtimes>>
      BY <2>0, <2>4 DEF RunCancelled
    <3> QED
      BY <2>1, <3>1 DEF RuntimeMoves, LoadsPass, Spares, RunSteps
  <2>5. CASE ~DecodeFails(u) /\ ~DeliverThrows(u) /\ ~Decoded(u) /\ ~RunCancelled(u)
             /\ ~ReleaseBackend(u) /\ ~RunEnds(u)
    <3>1. mod[u].pc \notin {"decoding", "releasing"} /\ UNCHANGED <<load, runtimes>>
      BY <1>5, <2>0, <2>5
      DEF RunNext, RunDispatched, RunNeverBegins, JoinRecorder, LoadAwaited, RetryLoad,
          RetryAwaited, Deliver, DeliverBlank, RunFailureShown
    <3> QED
      BY <2>1, <3>1 DEF RuntimeMoves, LoadsPass, Spares, RunSteps
  <2> QED
    BY <2>2, <2>3, <2>4, <2>5 DEF RuntimeMoves
<1>6. CASE PressFinish
  BY <1>2, <1>6 DEF PressFinish, RuntimeMoves, LoadsPass
<1>7. CASE UNCHANGED vars
  BY <1>7 DEF vars, RuntimeMoves, LoadsPass, Spares
<1> QED
  BY <1>1, <1>3, <1>4, <1>5, <1>6, <1>7 DEF Next, RuntimeMoves

(* What ends, and what a cleanup releases, is not what the dictation on    *)
(* the screen holds.                                                       *)
LEMMA CleanupReleasesOther ==
    ASSUME TypeOK, FieldsInv, CleanupsKnown, NEW g \in Generations
    PROVE  \A u \in Dictations : clean[g].runtime = u => u # recorderJob /\ cap[u].gen = g
<1>1. gen \in Nat /\ g \in Nat /\ None \notin Dictations
  BY LoadNames, ConstantsAssumption DEF TypeOK, Generations
<1>2. ASSUME NEW u \in Dictations, clean[g].runtime = u PROVE u # recorderJob /\ cap[u].gen = g
  <2>1. clean[g] # NothingDue
    BY <1>1, <1>2 DEF NothingDue
  <2>2. g < gen /\ cap[u].gen = g
    BY <1>1, <1>2, <2>1 DEF CleanupsKnown
  <2> QED
    BY <1>1, <2>2 DEF FieldsInv, FieldsAreCurrent
<1> QED
  BY <1>2

(* A run that the reset of an older generation has cancelled is not that   *)
(* of the dictation on the screen.                                         *)
LEMMA StaleRunIsPast ==
    ASSUME Jobs, NEW u \in Dictations, u # modelJob, mod[u].pc \notin {"idle", "done"}
    PROVE  u # recorderJob
  BY DEF Jobs, RunsKnown

(* A run decodes with a load that is over, of a dictation that did not     *)
(* fail.                                                                   *)
LEMMA DecodingStep ==
    ASSUME TypeOK, FieldsInv, InTurn, Jobs, BackendKept, [Next]_vars, ~Reset, ~Started,
           NEW u \in Dictations, u = modelJob', mod'[u].pc \in {"decoding", "releasing"}
    PROVE  /\ u = modelJob /\ u = recorderJob
           /\ mod[u].pc \in {"waitLoad", "decoding", "releasing"}
           /\ load[u].pc = "done" /\ stopReason # "Cancel"
           /\ load'[u].pc = "done" /\ stopReason' # "Cancel"
<1>1. Ordinary /\ (Fails \/ Delivers \/ Keeps)
  BY OrdinaryStep, ShowStep DEF Jobs, Started
<1>2. u = modelJob /\ u = recorderJob /\ u \in Loads /\ recorderJob # None
  <2>1. CASE OnFinishRecording
    BY <2>1, FinishDispatches
  <2>2. CASE UNCHANGED modelJob
    BY <2>2, LoadNames DEF Jobs, RunsKnown
  <2> QED
    BY <1>1, <2>1, <2>2, LoadNames DEF Ordinary, Jobs, RunsKnown, OnFinishRecording
<1>3. ~(isRecording /\ OnFinishRecording)
  BY FinishDispatches, <1>2
<1>4. /\ mod[u].pc \in {"waitLoad", "decoding", "releasing"}
      /\ load[u].pc = "done" /\ stopReason # "Cancel"
  <2>1. CASE mod'[u] = mod[u]
    BY <1>2, <2>1 DEF BackendKept
  <2>2. CASE RunSteps(u)
    <3>1. CASE mod'[u].pc = "decoding"
      <4>1. mod[u].pc = "waitLoad" /\ stopReason # "Cancel" /\ Awaited(u)
        BY <2>2, <3>1 DEF RunSteps
      <4> QED
        BY <1>2, <4>1 DEF Jobs, RunsKnown, Awaited
    <3>2. CASE mod'[u].pc = "releasing"
      BY <1>2, <2>2, <3>2 DEF RunSteps, BackendKept
    <3> QED
      BY <3>1, <3>2
  <2> QED
    BY <1>1, <1>3, <2>1, <2>2 DEF Ordinary, RunSteps
<1>5. load'[u].pc = "done"
  BY <1>1, <1>2, <1>4 DEF Ordinary, LoadSteps
<1>6. stopReason' # "Cancel"
  BY <1>1, <1>2, <1>4 DEF Fails, Delivers, Keeps
<1> QED
  BY <1>2, <1>4, <1>5, <1>6

(* A step keeps what the dictation holds where its run will find it.       *)
LEMMA BackendsStep ==
    ASSUME TypeOK, FieldsInv, InTurn, Jobs, UnstartedBlank, BackendKept, CleanupsKnown,
           [Next]_vars
    PROVE  BackendKept'
<1>0. /\ None \notin Dictations /\ \A u \in Dictations : u \in Loads
      /\ modelJob \in {None, recorderJob} /\ recorderJob \in Dictations \cup {None}
  BY LoadNames DEF Jobs, RunsKnown, TypeOK
<1>1. ASSUME NEW d \in Dictations, StartRecording(d) PROVE BackendKept'
  <2>1. session' = d /\ UNCHANGED runtimes
    BY <1>1 DEF StartRecording
  <2> QED
    BY <1>0, <1>1, <2>1, StartFinds DEF BackendKept, runtimes
<1>2. CASE Reset
  BY <1>0, <1>2, ResetCancels DEF BackendKept
<1>3. CASE ~Reset /\ ~Started
  <2>0. /\ Ordinary /\ RuntimeMoves /\ (Fails \/ Delivers \/ Keeps)
        /\ UNCHANGED recorderJob
    BY <1>3, OrdinaryStep, ShowStep, RuntimesStep DEF Jobs, Started, Ordinary
  <2>1. /\ backend \in {None, recorderJob} /\ lease \in {None, backend}
        /\ session \in {None, recorderJob} /\ None \notin live
        /\ backend # None => load[backend].gen = gen /\ load[backend].pc \in Loaded
        /\ lease # None => load[lease].gen = gen
    BY LoadNames DEF BackendKept, FieldsInv, FieldsAreCurrent, FieldsAreSettled, TypeOK
  <2>2. session' \in {None, recorderJob'}
    BY <2>0, <2>1 DEF Ordinary
  <2> DEFINE Fields == backend \in {None, recorderJob} /\ lease \in {None, backend}
  <2>3. Fields'
    <3>1. ASSUME NEW l \in Loads, Publish(l) PROVE Fields'
      <4>1. backend' = l /\ lease' \in {l, lease} /\ l = recorderJob
        BY <3>1, CurrentLoad DEF Publish, Jobs
      <4> QED
        BY <2>0, <2>1, <4>1
    <3>2. ASSUME NEW u \in Dictations, ReleaseBackend(u) PROVE Fields'
      <4>1. /\ lease' = IF lease # None /\ load[lease].gen = mod[u].gen THEN None ELSE lease
            /\ backend' = IF BackendFor(mod[u].gen) = mod[u].runtime THEN None ELSE backend
            /\ mod[u].pc = "releasing"
        BY <3>2 DEF ReleaseBackend
      <4>2. mod[u].gen = gen => lease' = None
        BY <2>1, <4>1
      <4>3. mod[u].gen # gen => backend' = backend
        <5>1. mod[u].runtime # None
          BY <1>0, <4>1 DEF Jobs, RunsKnown
        <5> QED
          BY <2>1, <4>1, <5>1 DEF BackendFor
      <4> QED
        BY <2>0, <2>1, <4>1, <4>2, <4>3
    <3>3. ASSUME NEW u \in Dictations, RunEnds(u) PROVE Fields'
      BY <2>0, <2>1, <3>3 DEF RunEnds
    <3>4. CASE Closes \/ Spares
      BY <2>0, <2>1, <3>4 DEF Closes, Spares, runtimes
    <3> QED
      BY <2>0, <2>1, <3>1, <3>2, <3>3, <3>4
      DEF RuntimeMoves, LoadSucceeds, ReleaseUnpublished, Cleanup
  <2>4. ASSUME NEW u \in Dictations, u = recorderJob, u \in live,
               load[u].pc \in {"publish", "published", "done"},
               backend = u => ~Closes /\ mod[u].pc # "cleanup",
               ~ReleaseBackend(u)
        PROVE  u \in live'
    <3>1. ASSUME NEW l \in Loads, LoadSucceeds(l) \/ Publish(l) \/ ReleaseUnpublished(l)
          PROVE  u \in live'
      BY <2>4, <3>1, CurrentLoad DEF LoadSucceeds, Publish, ReleaseUnpublished, Jobs
    <3>2. ASSUME NEW v \in Dictations, ReleaseBackend(v) PROVE u \in live'
      <4>1. v # u /\ mod[v].runtime = v /\ live' = live \ {mod[v].runtime}
        BY <2>4, <3>2 DEF ReleaseBackend, Jobs, RunsKnown
      <4> QED
        BY <2>4, <4>1
    <3>3. ASSUME NEW v \in Dictations, RunEnds(v) PROVE u \in live'
      <4>1. /\ mod[v].pc = "cleanup"
            /\ live' = live \/ (live' = live \ {lease} /\ lease # None
                                                      /\ load[lease].gen = mod[v].gen)
        BY <3>3 DEF RunEnds
      <4>2. lease = u => u = backend /\ load[lease].gen = gen
        BY <1>0, <2>1, <2>4
      <4>3. mod[v].gen = gen => v = recorderJob
        BY <4>1, CurrentRun DEF Jobs
      <4> QED
        BY <2>4, <4>1, <4>2, <4>3
    <3>4. ASSUME NEW g \in Generations, Cleanup(g) PROVE u \in live'
      BY <2>4, <3>4, CleanupReleasesOther DEF Cleanup
    <3>5. CASE Closes \/ Spares
      BY <2>4, <3>5 DEF Closes, Spares, runtimes
    <3> QED
      BY <2>0, <3>1, <3>2, <3>3, <3>4, <3>5 DEF RuntimeMoves
  <2>5. ASSUME NEW u \in Dictations, u = recorderJob', load'[u].pc = "publish"
        PROVE  u \in live'
    <3>1. CASE LoadSucceeds(u)
      BY <3>1 DEF LoadSucceeds
    <3>2. CASE ~LoadSucceeds(u)
      <4>1. load[u].pc = "publish"
        <5>1. ASSUME NEW l \in Loads, LoadSucceeds(l) PROVE load'[u] = load[u]
          BY <3>2, <5>1, LoadGoesOn, <1>0 DEF LoadSucceeds
        <5>2. ASSUME NEW l \in Loads, Publish(l) \/ ReleaseUnpublished(l)
              PROVE  l # u /\ load'[u] = load[u]
          <6>1. GoLoad(l, "published") \/ LoadEnds(l)
            BY <5>2 DEF Publish, ReleaseUnpublished
          <6> QED
            BY <1>0, <2>5, <6>1, LoadGoesOn, LoadGoesHome
        <5> QED
          BY <1>0, <2>0, <2>5, <5>1, <5>2
          DEF RuntimeMoves, LoadsPass, ReleaseBackend, RunEnds, Cleanup
      <4>2. u \in live /\ backend # u
        BY <1>0, <2>0, <2>1, <2>5, <4>1 DEF BackendKept, Loaded
      <4>3. ~ReleaseBackend(u)
        <5>1. mod[u].pc # "releasing"
          <6>1. u = modelJob => mod[u].pc # "releasing"
            BY <4>1 DEF BackendKept
          <6> QED
            BY <2>0, <2>5, <6>1, StaleRunIsPast
        <5> QED
          BY <5>1 DEF ReleaseBackend
      <4> QED
        BY <2>0, <2>4, <2>5, <4>1, <4>2, <4>3
    <3> QED
      BY <3>1, <3>2
  <2>6. ASSUME NEW u \in Dictations, u = recorderJob', stopReason' # "Cancel",
               mod'[u].pc \in Undecoded
        PROVE  /\ session' = u
               /\ load'[u].pc \in {"published", "done"} => backend' = u /\ u \in live'
    <3>1. stopReason # "Cancel" /\ ~Fails /\ u = recorderJob /\ recorderJob # None
      BY <1>0, <2>0, <2>6 DEF Fails, Delivers, Keeps
    <3>2. mod[u].pc \in Undecoded
      <4>1. CASE isRecording /\ OnFinishRecording
        BY <1>0, <2>0, <3>1, <4>1 DEF Jobs, RunsKnown, Undecoded
      <4>2. ASSUME NEW v \in Dictations, RunSteps(v) PROVE mod[u].pc \in Undecoded
        BY <2>6, <4>2 DEF RunSteps, Undecoded
      <4> QED
        BY <2>0, <2>6, <4>1, <4>2 DEF Ordinary
    <3>3. session = u /\ (load[u].pc \in {"published", "done"} => backend = u /\ u \in live)
      BY <3>1, <3>2 DEF BackendKept
    <3>4. mod[u].pc # "cleanup" /\ (modelJob # None => modelJob = u)
      BY <1>0, <3>1, <3>2 DEF Undecoded
    <3>5. session' = session
      BY <2>0, <3>1, <3>4 DEF Delivers, Keeps
    <3>6. ASSUME load'[u].pc \in {"published", "done"} PROVE backend' = u /\ u \in live'
      <4>1. CASE Publish(u)
        BY <1>0, <3>1, <4>1 DEF Publish, BackendKept
      <4>2. CASE ~Publish(u)
        <5>1. load[u].pc \in {"published", "done"}
          <6>1. ASSUME NEW l \in Loads, LoadSucceeds(l) PROVE load'[u].pc \in {load[u].pc, "publish"}
            BY <6>1, <1>0, LoadGoesOn DEF LoadSucceeds
          <6>2. ASSUME NEW l \in Loads, Publish(l) \/ ReleaseUnpublished(l)
                PROVE  load'[u] = load[u]
            <7>1. l # u
              BY <3>1, <4>2, <6>2, CurrentLoad DEF ReleaseUnpublished, Jobs
            <7> QED
              BY <1>0, <6>2, <7>1, LoadGoesOn, LoadGoesHome DEF Publish, ReleaseUnpublished
          <6> QED
            BY <1>0, <2>0, <2>6, <3>1, <3>6, <6>1, <6>2
            DEF RuntimeMoves, LoadsPass, ReleaseBackend, RunEnds, Cleanup
        <5>2. backend = u /\ u \in live
          BY <3>3, <5>1
        <5>3. ~ReleaseBackend(u)
          BY <2>6, RunGoesOn DEF ReleaseBackend, Undecoded
        <5>4. ~Closes
          BY <2>6, <3>1, <3>4, <5>1 DEF Closes, Undecoded
        <5>5. u \in live'
          BY <2>4, <3>1, <3>4, <5>1, <5>2, <5>3, <5>4
        <5>6. backend' = u
          <6>1. ASSUME NEW v \in Dictations, ReleaseBackend(v) PROVE backend' = backend
            <7>1. /\ backend' = IF BackendFor(mod[v].gen) = mod[v].runtime THEN None ELSE backend
                  /\ mod[v].runtime = v /\ v # u
              BY <5>3, <6>1 DEF ReleaseBackend, Jobs, RunsKnown
            <7> QED
              BY <1>0, <5>2, <7>1 DEF BackendFor
          <6>2. ASSUME NEW l \in Loads, Publish(l) PROVE FALSE
            BY <3>1, <4>2, <6>2, CurrentLoad DEF Publish, Jobs
          <6> QED
            BY <2>0, <5>2, <5>4, <6>1, <6>2
            DEF RuntimeMoves, LoadSucceeds, ReleaseUnpublished, RunEnds, Cleanup, Spares, runtimes
        <5> QED
          BY <5>5, <5>6
      <4> QED
        BY <4>1, <4>2
    <3> QED
      BY <3>3, <3>5, <3>6
  <2>7. ASSUME NEW u \in Dictations, u = modelJob', mod'[u].pc \in {"decoding", "releasing"}
        PROVE  load'[u].pc = "done" /\ stopReason' # "Cancel"
    BY <1>3, <2>7, DecodingStep
  <2> QED
    BY <2>2, <2>3, <2>5, <2>6, <2>7 DEF BackendKept
<1> QED
  BY <1>1, <1>2, <1>3 DEF Started

-----------------------------------------------------------------------------
(* The cleanups and the runs they wait for.                                *)

(* A step keeps every cleanup that is due that of one dictation.           *)
LEMMA CleanupsStep ==
    ASSUME TypeOK, FieldsInv, InTurn, Jobs, UnstartedBlank, BackendKept, CleanupsKnown,
           [Next]_vars
    PROVE  CleanupsKnown'
<1>0. /\ None \notin Dictations /\ gen \in Nat
      /\ \A g \in Generations : clean[g].cap \in Dictations \cup {None} /\ g \in Nat
  BY LoadNames, ConstantsAssumption DEF TypeOK, Generations, CleanupStates
<1>1. ASSUME NEW d \in Dictations, StartRecording(d) PROVE CleanupsKnown'
  <2> SUFFICES ASSUME NEW g \in Generations, clean[g] # NothingDue
               PROVE  clean[g].cap # None =>
                         cap'[clean[g].cap].gen = g /\ cap'[clean[g].cap].pc # "idle"
    BY <1>1, StartFinds DEF CleanupsKnown
  <2> QED
    BY <1>0, <1>1, StartFinds DEF CleanupsKnown
<1>2. CASE Reset
  <2>1. /\ gen' = gen + 1
        /\ \A u \in Dictations : cap'[u].pc = cap[u].pc /\ cap'[u].gen = cap[u].gen
    BY <1>2, ResetCancels
  <2>2. ASSUME NEW g \in Generations, g # gen
        PROVE  \/ clean'[g] = NothingDue
               \/ /\ clean'[g].due /\ g < gen'
                  /\ {clean'[g].mod, clean'[g].runtime, clean'[g].session}
                        \subseteq {None, clean'[g].cap}
                  /\ clean'[g].cap # None =>
                        cap'[clean'[g].cap].gen = g /\ cap'[clean'[g].cap].pc # "idle"
    <3>1. clean'[g] = clean[g]
      BY <1>2, <2>2 DEF Reset, TypeOK
    <3> QED
      BY <1>0, <2>1, <3>1 DEF CleanupsKnown
  <2>3. /\ clean'[gen].due /\ gen < gen'
        /\ {clean'[gen].mod, clean'[gen].runtime, clean'[gen].session}
              \subseteq {None, clean'[gen].cap}
        /\ clean'[gen].cap # None =>
              cap'[clean'[gen].cap].gen = gen /\ cap'[clean'[gen].cap].pc # "idle"
    <3>1. clean'[gen] = [due |-> TRUE, cap |-> recorderJob, mod |-> modelJob, load |-> loadJob,
                         runtime |-> IF lease # None THEN lease ELSE backend,
                         session |-> session, backup |-> backup]
      BY <1>2 DEF Reset, TypeOK
    <3>2. /\ {modelJob, lease, backend, session} \subseteq {None, recorderJob}
          /\ recorderJob # None => cap[recorderJob].gen = gen /\ cap[recorderJob].pc # "idle"
          /\ recorderJob \in Dictations \cup {None}
      BY DEF Jobs, RunsKnown, CapturesKnown, BackendKept, FieldsInv, FieldsAreCurrent, TypeOK
    <3> QED
      BY <1>0, <2>1, <3>1, <3>2
  <2> QED
    BY <2>2, <2>3 DEF CleanupsKnown
<1>3. CASE Ordinary
  <2>1. UNCHANGED gen /\ \A u \in Dictations :
           cap[u].pc # "idle" => cap'[u].pc # "idle" /\ cap'[u].gen = cap[u].gen
    BY <1>3 DEF Ordinary, CaptureSteps
  <2>2. \A g \in Generations : clean'[g] \in {clean[g], NothingDue}
    BY <1>3 DEF Ordinary, Cleanup, TypeOK
  <2> QED
    BY <1>0, <2>1, <2>2 DEF CleanupsKnown
<1> QED
  BY <1>1, <1>2, <1>3, OrdinaryStep DEF Jobs

(* A step keeps what a run cancelled by a reset still decodes with.        *)
LEMMA StaleRunsStep ==
    ASSUME TypeOK, FieldsInv, InTurn, Jobs, UnstartedBlank, BackendKept, CleanupsKnown,
           StaleRunsKept, [Next]_vars
    PROVE  StaleRunsKept'
<1>0. /\ None \notin Dictations /\ gen \in Nat /\ gen \in Generations
      /\ \A u \in Dictations : u \in Loads
      /\ modelJob \in {None, recorderJob}
  BY LoadNames, ConstantsAssumption DEF TypeOK, Generations, Jobs, RunsKnown
<1>1. ASSUME NEW d \in Dictations, StartRecording(d) PROVE StaleRunsKept'
  <2>1. UNCHANGED live
    BY <1>1 DEF StartRecording, runtimes
  <2> QED
    BY <1>0, <1>1, <2>1, StartFinds DEF StaleRunsKept
<1>2. CASE Reset
  <2> SUFFICES ASSUME NEW u \in Dictations, mod'[u].pc \in {"decoding", "releasing"}
               PROVE  /\ mod'[u].gen \in Generations
                      /\ clean'[mod'[u].gen].due /\ clean'[mod'[u].gen].mod = u
                      /\ clean'[mod'[u].gen].runtime = u /\ clean'[mod'[u].gen].session = u
                      /\ u \in live' /\ load'[u].pc = "done"
    BY DEF StaleRunsKept
  <2>1. /\ mod'[u].pc = mod[u].pc /\ mod'[u].gen = mod[u].gen /\ load'[u].pc = load[u].pc
        /\ UNCHANGED live
    BY <1>0, <1>2, ResetCancels DEF Reset
  <2>2. CASE u # modelJob
    <3>1. mod[u].gen < gen /\ mod[u].gen \in Generations
      BY <2>1, <2>2 DEF Jobs, RunsKnown, StaleRunsKept
    <3>2. clean'[mod[u].gen] = clean[mod[u].gen]
      BY <1>0, <1>2, <3>1 DEF Reset, TypeOK
    <3>3. /\ clean[mod[u].gen].due /\ clean[mod[u].gen].mod = u
          /\ clean[mod[u].gen].runtime = u /\ clean[mod[u].gen].session = u
          /\ u \in live /\ load[u].pc = "done"
      BY <2>1, <2>2 DEF StaleRunsKept
    <3> QED
      BY <2>1, <3>1, <3>2, <3>3
  <2>3. CASE u = modelJob
    <3>1. /\ mod[u].gen = gen /\ load[u].pc = "done" /\ stopReason # "Cancel" /\ u = recorderJob
          /\ backend = u /\ u \in live /\ session = u /\ lease \in {None, u}
      BY <1>0, <2>1, <2>3 DEF Jobs, RunsKnown, BackendKept, Undecoded
    <3>2. /\ clean'[gen].due /\ clean'[gen].mod = modelJob /\ clean'[gen].session = session
          /\ clean'[gen].runtime = IF lease # None THEN lease ELSE backend
      BY <1>0, <1>2 DEF Reset, TypeOK
    <3>3. /\ clean'[gen].due /\ clean'[gen].mod = u
          /\ clean'[gen].runtime = u /\ clean'[gen].session = u
      BY <2>3, <3>1, <3>2
    <3>4. mod'[u].gen = gen
      BY <2>1, <3>1
    <3> QED
      BY <1>0, <2>1, <3>1, <3>3, <3>4
  <2> QED
    BY <2>2, <2>3
<1>3. CASE ~Reset /\ ~Started
  <2>0. Ordinary /\ RuntimeMoves
    BY <1>3, OrdinaryStep, RuntimesStep DEF Jobs, Started
  <2> SUFFICES ASSUME NEW u \in Dictations, mod'[u].pc \in {"decoding", "releasing"},
                      u # modelJob'
               PROVE  /\ mod'[u].gen \in Generations
                      /\ clean'[mod'[u].gen].due /\ clean'[mod'[u].gen].mod = u
                      /\ clean'[mod'[u].gen].runtime = u /\ clean'[mod'[u].gen].session = u
                      /\ u \in live' /\ load'[u].pc = "done"
    BY DEF StaleRunsKept
  <2>1. u # modelJob /\ mod'[u] = mod[u]
    <3>1. CASE isRecording /\ OnFinishRecording
      BY <1>0, <3>1, FinishDispatches DEF Jobs, RunsKnown
    <3>2. ASSUME NEW v \in Dictations, RunSteps(v), UNCHANGED modelJob
          PROVE  u # modelJob /\ mod'[u] = mod[u]
      <4>1. v # u
        <5>1. ASSUME v = u PROVE FALSE
          <6>1. mod[u].gen = gen /\ mod[u].pc \in {"waitLoad", "decoding"}
            BY <3>2, <5>1 DEF RunSteps
          <6> QED
            BY <3>2, <6>1, CurrentRun DEF Jobs
        <5> QED
          BY <5>1
      <4> QED
        BY <3>2, <4>1 DEF RunSteps
    <3> QED
      BY <2>0, <3>1, <3>2 DEF Ordinary
  <2>2. /\ mod[u].gen \in Generations
        /\ clean[mod[u].gen].due /\ clean[mod[u].gen].mod = u
        /\ clean[mod[u].gen].runtime = u /\ clean[mod[u].gen].session = u
        /\ u \in live /\ load[u].pc = "done" /\ u # recorderJob
    BY <2>1, StaleRunIsPast DEF StaleRunsKept, Jobs
  <2>3. ASSUME NEW g \in Generations, Cleanup(g) PROVE g # mod[u].gen
    BY <1>0, <2>1, <2>2, <2>3 DEF Cleanup, Joined
  <2>4. clean'[mod[u].gen] = clean[mod[u].gen]
    BY <2>0, <2>2, <2>3 DEF Ordinary, Cleanup, TypeOK
  <2>5. load'[u].pc = "done"
    BY <1>0, <2>0, <2>2 DEF Ordinary, LoadSteps
  <2>6. u \in live'
    <3>1. ASSUME NEW l \in Loads, LoadSucceeds(l) \/ Publish(l) \/ ReleaseUnpublished(l)
          PROVE  u \in live'
      BY <2>2, <3>1 DEF LoadSucceeds, Publish, ReleaseUnpublished
    <3>2. ASSUME NEW v \in Dictations, ReleaseBackend(v) PROVE u \in live'
      <4>1. mod[v].runtime = v /\ live' = live \ {mod[v].runtime} /\ mod'[v].pc = "deliver"
        BY <3>2, RunGoesOn DEF ReleaseBackend, Jobs, RunsKnown
      <4> QED
        BY <2>2, <4>1
    <3>3. ASSUME NEW v \in Dictations, RunEnds(v) PROVE u \in live'
      BY <1>0, <2>2, <3>3 DEF RunEnds, BackendKept
    <3>4. ASSUME NEW g \in Generations, Cleanup(g) PROVE u \in live'
      <4>1. clean[g].runtime # u
        BY <2>2, <2>3, <3>4, CleanupReleasesOther
      <4> QED
        BY <2>2, <3>4, <4>1 DEF Cleanup
    <3>5. CASE Closes \/ Spares
      BY <1>0, <2>2, <3>5 DEF Closes, Spares, BackendKept, runtimes
    <3> QED
      BY <2>0, <3>1, <3>2, <3>3, <3>4, <3>5 DEF RuntimeMoves
  <2> QED
    BY <2>1, <2>2, <2>4, <2>5, <2>6
<1> QED
  BY <1>1, <1>2, <1>3 DEF Started

(* A step leaves no loaded runtime without an owner.                       *)
LEMMA OwnersStep ==
    ASSUME TypeOK, FieldsInv, InTurn, Jobs, UnstartedBlank, BackendKept, CleanupsKnown,
           StaleRunsKept, RuntimesOwned, [Next]_vars
    PROVE  RuntimesOwned'
<1>0. /\ None \notin Loads /\ gen \in Generations /\ \A u \in Dictations : u \in Loads
      /\ live \subseteq Loads
      /\ backend \in {None, recorderJob} /\ lease \in {None, backend}
  BY LoadNames DEF TypeOK, BackendKept
<1> DEFINE Owned(k) == \/ k \in Loads /\ load[k].pc = "publish"
                       \/ k \in {backend, lease}
                       \/ \E u \in Dictations : mod[u].runtime = k
                       \/ \E g \in Generations : clean[g].runtime = k
<1>1. \A k \in live : Owned(k)
  BY DEF RuntimesOwned
<1>2. SUFFICES ASSUME NEW k, k \in live' PROVE Owned(k)'
  BY DEF RuntimesOwned
<1>3. ASSUME NEW d \in Dictations, StartRecording(d) PROVE Owned(k)'
  <2>1. UNCHANGED runtimes
    BY <1>3 DEF StartRecording
  <2> QED
    BY <1>0, <1>1, <1>2, <1>3, <2>1, StartFinds DEF runtimes
<1>4. CASE Reset
  <2>1. k \in live /\ k # None /\ k \in Loads
    BY <1>0, <1>2, <1>4 DEF Reset
  <2>2. CASE k \in {backend, lease}
    <3>1. clean'[gen].runtime = IF lease # None THEN lease ELSE backend
      BY <1>0, <1>4 DEF Reset, TypeOK
    <3>2. clean'[gen].runtime = k
      BY <1>0, <2>1, <2>2, <3>1
    <3> QED
      BY <1>0, <3>2
  <2>3. ASSUME NEW g \in Generations, clean[g].runtime = k PROVE clean'[g].runtime = k
    <3>1. g # gen
      <4>1. gen \in Nat
        BY ConstantsAssumption DEF TypeOK, Generations
      <4> QED
        BY <2>1, <2>3, <4>1 DEF CleanupsKnown, NothingDue
    <3>2. clean'[g] = clean[g]
      BY <1>0, <1>4, <3>1 DEF Reset, TypeOK
    <3> QED
      BY <2>3, <3>2
  <2> QED
    BY <1>1, <1>4, <2>1, <2>2, <2>3, ResetCancels
<1>5. CASE ~Reset /\ ~Started
  <2>0. Ordinary /\ RuntimeMoves
    BY <1>5, OrdinaryStep, RuntimesStep DEF Jobs, Started
  <2>1. ASSUME NEW l \in Loads, LoadSucceeds(l) PROVE Owned(k)'
    <3>1. /\ live' = live \cup {l} /\ UNCHANGED <<backend, lease, mod, clean>>
          /\ load'[l].pc = "publish" /\ \A j \in Loads \ {l} : load'[j] = load[j]
      BY <2>1, LoadGoesOn DEF LoadSucceeds
    <3> QED
      BY <1>1, <1>2, <2>1, <3>1
  <2>2. ASSUME NEW l \in Loads, Publish(l) PROVE Owned(k)'
    <3>1. /\ UNCHANGED <<live, mod, clean>> /\ backend' = l /\ l = recorderJob
          /\ \A j \in Loads \ {l} : load'[j] = load[j]
      BY <2>2, LoadGoesOn, LoadGoesHome, CurrentLoad DEF Publish, Jobs
    <3> QED
      BY <1>0, <1>1, <1>2, <3>1
  <2>3. ASSUME NEW l \in Loads, ReleaseUnpublished(l) PROVE Owned(k)'
    <3>1. /\ live' = live \ {l} /\ UNCHANGED <<backend, lease, mod, clean>>
          /\ \A j \in Loads \ {l} : load'[j] = load[j]
      BY <2>3, LoadGoesHome DEF ReleaseUnpublished
    <3> QED
      BY <1>1, <1>2, <3>1
  <2>4. ASSUME NEW v \in Dictations, ReleaseBackend(v) PROVE Owned(k)'
    <3>1. /\ live' = live \ {mod[v].runtime} /\ UNCHANGED <<load, clean>>
          /\ backend' = IF BackendFor(mod[v].gen) = mod[v].runtime THEN None ELSE backend
          /\ \A u \in Dictations \ {v} : mod'[u] = mod[u]
      BY <2>4, RunGoesOn DEF ReleaseBackend
    <3>2. k \in live /\ k # mod[v].runtime /\ k # None
      BY <1>0, <1>2, <3>1
    <3>3. backend = k => backend' = k
      <4>1. mod[v].runtime # None
        BY <2>4, LoadNames DEF ReleaseBackend, Jobs, RunsKnown
      <4> QED
        BY <3>1, <3>2, <4>1 DEF BackendFor
    <3> QED
      BY <1>0, <1>1, <3>1, <3>2, <3>3
  <2>5. ASSUME NEW v \in Dictations, RunEnds(v) PROVE Owned(k)'
    <3>1. /\ live' \subseteq live /\ UNCHANGED <<load, clean, backend>>
          /\ \A u \in Dictations \ {v} : mod'[u] = mod[u]
          /\ mod[v].pc = "cleanup"
      BY <2>5 DEF RunEnds, TypeOK
    <3>2. mod[v].runtime = None
      BY <3>1 DEF Jobs, RunsKnown
    <3> QED
      BY <1>0, <1>1, <1>2, <3>1, <3>2
  <2>6. ASSUME NEW g \in Generations, Cleanup(g) PROVE Owned(k)'
    <3>1. /\ live' = live \ {clean[g].runtime} /\ UNCHANGED <<load, mod, backend, lease>>
          /\ \A h \in Generations \ {g} : clean'[h] = clean[h]
      BY <2>6 DEF Cleanup, TypeOK
    <3> QED
      BY <1>1, <1>2, <3>1
  <2>7. CASE /\ (Closes \/ Spares) /\ LoadsPass
             /\ ~\E g \in Generations : Cleanup(g)
    <3>0. UNCHANGED clean
      BY <2>0, <2>7 DEF Ordinary
    <3>1. k \in live /\ k # None
      BY <1>0, <1>2, <2>7 DEF Closes, Spares, runtimes
    <3>2. CASE k \in {backend, lease}
      BY <1>0, <1>2, <2>7, <3>1, <3>2 DEF Closes, Spares, runtimes
    <3>3. ASSUME NEW u \in Dictations, mod[u].runtime = k PROVE Owned(k)'
      <4>1. mod[u].pc \in {"decoding", "releasing"} /\ k = u
        BY <3>1, <3>3 DEF Jobs, RunsKnown
      <4>2. CASE u # modelJob
        BY <3>0, <4>1, <4>2 DEF StaleRunsKept
      <4>3. CASE u = modelJob
        <5>1. backend = u
          BY <4>1, <4>3, LoadNames DEF BackendKept, Undecoded, Jobs, RunsKnown
        <5>2. Spares
          BY <1>2, <2>7, <4>1, <5>1 DEF Closes
        <5> QED
          BY <3>3, <4>1, <4>3, <5>2 DEF Spares
      <4> QED
        BY <4>2, <4>3
    <3>4. CASE k \in Loads /\ load[k].pc = "publish"
      BY <2>7, <3>4 DEF LoadsPass
    <3> QED
      BY <1>1, <3>0, <3>1, <3>2, <3>3, <3>4
  <2> QED
    BY <2>0, <2>1, <2>2, <2>3, <2>4, <2>5, <2>6, <2>7 DEF RuntimeMoves
<1> QED
  BY <1>3, <1>4, <1>5 DEF Started

-----------------------------------------------------------------------------
(* What becomes of a dictation.                                            *)

(* A step keeps the outcomes known.                                        *)
LEMMA OutcomesStep ==
    ASSUME TypeOK, FieldsInv, InTurn, Jobs, UnstartedBlank, RecordingKnown, BackendKept,
           OutcomesKnown, [Next]_vars
    PROVE  OutcomesKnown'
<1>0. /\ None \notin Dictations /\ \A u \in Dictations : u \in Loads
      /\ modelJob \in {None, recorderJob} /\ recorderJob \in Dictations \cup {None}
      /\ outcome \in [Dictations -> Outcomes]
  BY LoadNames DEF TypeOK, Jobs, RunsKnown
<1>1. ASSUME NEW d \in Dictations, StartRecording(d) PROVE OutcomesKnown'
  <2>1. UNCHANGED outcome
    BY <1>1 DEF StartRecording
  <2> QED
    BY <1>0, <1>1, <2>1, StartFinds DEF OutcomesKnown
<1>2. CASE Reset
  <2>1. outcome' = [u \in Dictations |-> IF u = recorderJob /\ outcome[u] = "none"
                                         THEN "cancelled" ELSE outcome[u]]
    BY <1>2 DEF Reset
  <2> QED
    BY <1>0, <1>2, <2>1, ResetCancels DEF OutcomesKnown
<1>3. CASE ~Reset /\ ~Started
  <2>0. Ordinary /\ (Fails \/ Delivers \/ Keeps) /\ UNCHANGED recorderJob
    BY <1>3, OrdinaryStep, ShowStep DEF Jobs, Started, Ordinary
  <2>1. ASSUME NEW u \in Dictations, cap'[u].pc # "idle", u # recorderJob'
        PROVE  outcome'[u] # "none"
    <3>1. cap[u].pc # "idle"
      BY <2>0, <2>1 DEF Ordinary, CaptureSteps
    <3>2. outcome[u] # "none"
      BY <2>0, <2>1, <3>1 DEF OutcomesKnown
    <3> QED
      BY <1>0, <2>0, <3>2 DEF Fails, Delivers, Keeps
  <2>2. ASSUME NEW u \in Dictations, load[u].pc = "done" PROVE load'[u].pc = "done"
    BY <1>0, <2>0, <2>2 DEF Ordinary, LoadSteps
  <2>3. ASSUME NEW u \in Dictations, u = modelJob',
               mod'[u].pc \in {"decoding", "releasing", "deliver", "failMain"}
        PROVE  load'[u].pc = "done" /\ outcome'[u] = "none"
    <3>0. u = modelJob /\ ~OnFinishRecording
      BY <1>0, <2>0, <2>3, FinishDispatches DEF Ordinary
    <3>1. /\ mod[u].pc \in {"waitLoad", "decoding", "releasing", "deliver", "failMain"}
          /\ mod[u].pc = "waitLoad" => mod'[u].pc = "decoding"
      BY <2>0, <2>3, <3>0 DEF Ordinary, RunSteps
    <3>2. CASE mod[u].pc = "waitLoad"
      <4>1. load[u].pc = "done" /\ load'[u].pc = "done" /\ stopReason # "Cancel"
            /\ stopReason' # "Cancel" /\ u = recorderJob
        BY <1>3, <2>3, <3>1, <3>2, DecodingStep
      <4>2. outcome[u] = "none"
        BY <1>0, <3>2, <4>1 DEF OutcomesKnown, Outcomes
      <4> QED
        BY <1>0, <2>0, <3>0, <3>2, <4>1, <4>2 DEF Fails, Delivers, Keeps
    <3>3. CASE mod[u].pc # "waitLoad"
      <4>1. load[u].pc = "done" /\ outcome[u] = "none" /\ u = recorderJob
        BY <1>0, <3>0, <3>1, <3>3 DEF OutcomesKnown
      <4>2. outcome'[u] = outcome[u]
        BY <1>0, <2>0, <2>3, <3>0, <4>1 DEF Fails, Delivers, Keeps
      <4> QED
        BY <2>2, <4>1, <4>2
    <3> QED
      BY <3>2, <3>3
  <2>4. ASSUME NEW u \in Dictations, u = recorderJob'
        PROVE  /\ outcome'[u] # "cancelled"
               /\ outcome'[u] = "failed" => stopReason' = "Cancel"
               /\ outcome'[u] = "delivered" =>
                     load'[u].pc = "done" /\ mod'[u].pc \in {"cleanup", "done"}
    <3>0. u = recorderJob /\ recorderJob # None
      BY <1>0, <2>0, <2>4
    <3>1. CASE Fails
      BY <1>0, <3>0, <3>1 DEF Fails
    <3>2. CASE Delivers
      <4>1. u = modelJob /\ load[u].pc = "done" /\ mod'[u].pc = "cleanup"
        BY <1>0, <3>0, <3>2 DEF Delivers, OutcomesKnown
      <4> QED
        BY <1>0, <2>2, <3>2, <4>1 DEF Delivers
    <3>3. CASE Keeps
      <4>1. outcome'[u] = outcome[u] /\ (stopReason' = "Cancel" <=> stopReason = "Cancel")
        BY <3>0, <3>3 DEF Keeps
      <4>2. ASSUME outcome[u] = "delivered"
            PROVE  load'[u].pc = "done" /\ mod'[u].pc \in {"cleanup", "done"}
        <5>1. load[u].pc = "done" /\ mod[u].pc \in {"cleanup", "done"}
          BY <3>0, <4>2 DEF OutcomesKnown
        <5>2. mod'[u].pc \in {"cleanup", "done"}
          <6>1. CASE isRecording /\ OnFinishRecording
            BY <3>0, <4>2, <6>1 DEF RecordingKnown
          <6>2. CASE ~(isRecording /\ OnFinishRecording)
            BY <2>0, <5>1, <6>2 DEF Ordinary, RunSteps
          <6> QED
            BY <6>1, <6>2
        <5> QED
          BY <2>2, <5>1, <5>2
      <4> QED
        BY <3>0, <4>1, <4>2 DEF OutcomesKnown
    <3> QED
      BY <2>0, <3>1, <3>2, <3>3
  <2> QED
    BY <2>1, <2>3, <2>4 DEF OutcomesKnown
<1> QED
  BY <1>1, <1>2, <1>3 DEF Started

-----------------------------------------------------------------------------
(* The streamed audio.                                                     *)

(* A chunk of utterance u is accepted, ...                                 *)
Hears(u) ==
    /\ UNCHANGED <<stream, load>>
    /\ stopReason # "Cancel" /\ cap[u].gen = gen
    /\ heard' = [heard EXCEPT ![u] = Heard(u)]

(* ... a start resets the replay, or a load hands it over.                 *)
StreamMoves ==
    \/ UNCHANGED replay
    \/ \E u \in Dictations : Hears(u)
    \/ recorderJob = None /\ ReplayReset(Streaming)
    \/ \E l \in Loads : StreamLoaded(l)

(* Every such step is one of these moves of the replay.                    *)
LEMMA StreamMovesStep ==
    ASSUME TypeOK, Jobs, [Next]_vars, ~Reset, ~Started
    PROVE  StreamMoves
<1> USE DEF replay, coroutines
<1>1. ASSUME NEW d \in Dictations, CreateNext(d) PROVE StreamMoves
  <2>1. CASE SettingsRead(d)
    BY <2>1 DEF SettingsRead, StreamMoves, Jobs, StartsInTurn, StartOver
  <2> QED
    BY <1>1, <2>1
    DEF Started, CreateNext, Create, ModelRequired, PermissionResult, AcquireSession,
        AcquireSessionFails, DeclineSession, RecorderDenied, StreamMoves
<1>2. ASSUME NEW u \in Dictations, CaptureNext(u) PROVE StreamMoves
  <2>1. CASE Append(u)
    BY <2>1 DEF Append, Reads, ShouldAcceptSamples, Hears, StreamMoves
  <2>2. CASE CaptureCloses(u)
    <3>1. UNCHANGED <<stream, load>> /\ DrainTail(u)
      BY <2>2 DEF CaptureCloses
    <3>2. CASE stopReason = "Stopped" /\ u \in micOn /\ ShouldAcceptSamples(u)
      BY <3>1, <3>2 DEF DrainTail, ShouldAcceptSamples, Hears, StreamMoves
    <3>3. CASE ~(stopReason = "Stopped" /\ u \in micOn /\ ShouldAcceptSamples(u))
      BY <3>1, <3>3 DEF DrainTail, StreamMoves, TypeOK
    <3> QED
      BY <3>2, <3>3
  <2>3. CASE ~Append(u) /\ ~CaptureCloses(u)
    BY <1>2, <2>3
    DEF CaptureNext, CaptureBegins, CaptureNeverBegins, CaptureCancelled, LoopEnds,
        AppendAtLimit, KeepListening, VadStops, FinishFromCapture, Epilogue, StreamMoves
  <2> QED
    BY <2>1, <2>2, <2>3
<1>3. ASSUME NEW l \in Loads, LoadNext(l) PROVE StreamMoves
  BY <1>3
  DEF LoadNext, LoadBegins, LoadCancelled, LoadSucceeds, LoadFails, LoadOutOfMemory, Publish,
      ReleaseUnpublished, LoadFailureShown, StreamMoves
<1>4. ASSUME NEW u \in Dictations, RunNext(u) PROVE StreamMoves
  BY <1>4
  DEF RunNext, RunDispatched, RunNeverBegins, JoinRecorder, RunCancelled, LoadAwaited,
      RetryLoad, RetryAwaited, Decoded, DecodeFails, ReleaseBackend, Deliver, DeliverBlank,
      DeliverThrows, RunFailureShown, RunEnds, StreamMoves
<1>5. (\E g \in Generations : Cleanup(g)) \/ PressFinish \/ UNCHANGED vars => StreamMoves
  BY DEF Cleanup, PressFinish, vars, StreamMoves
<1> QED
  BY <1>1, <1>2, <1>3, <1>4, <1>5 DEF Next

(* The load of a streaming dictation ends with its audio handed over, or   *)
(* with the failure of the dictation.                                      *)
LEMMA StreamingLoadEnds ==
    ASSUME TypeOK, FieldsInv, InTurn, Jobs, BackendKept, Streaming, [Next]_vars,
           ~Reset, ~Started, NEW u \in Dictations, u = recorderJob,
           load'[u].pc = "done", load[u].pc # "done"
    PROVE  stopReason' = "Cancel" \/ StreamLoaded(u)
<1>0. u \in Loads /\ ~load[u].cancelled
  BY LoadNames DEF Jobs, LoadsKnown
<1>1. CASE RuntimeMoves /\ load[u].pc # "published"
  <2>1. ASSUME NEW l \in Loads, LoadSucceeds(l) \/ Publish(l) \/ ReleaseUnpublished(l)
        PROVE  FALSE
    <3>1. load[l].pc \in {"loading", "publish"} /\ (GoLoad(l, "publish") \/ GoLoad(l, "published")
                                   \/ (LoadEnds(l) /\ load[l].gen # gen))
      BY <2>1 DEF LoadSucceeds, Publish, ReleaseUnpublished
    <3>2. load[l].gen # gen => l # u
      BY <3>1, CurrentLoad DEF Jobs
    <3> QED
      BY <1>0, <3>1, <3>2, LoadGoesOn, LoadGoesHome
  <2> QED
    BY <1>0, <1>1, <2>1 DEF RuntimeMoves, LoadsPass, ReleaseBackend, RunEnds, Cleanup
<1>2. CASE load[u].pc = "published"
  <2>1. ASSUME NEW l \in Loads, LoadNext(l) PROVE StreamLoaded(u)
    <3>1. l = u
      BY <1>0, <2>1, LoadStep DEF LoadSteps, InTurn
    <3> QED
      BY <1>0, <1>2, <2>1, <3>1
      DEF LoadNext, LoadBegins, LoadCancelled, LoadSucceeds, LoadFails, LoadOutOfMemory,
          Publish, ReleaseUnpublished, LoadFailureShown
  <2>2. ASSUME NEW d \in Dictations, CreateNext(d) \/ CaptureNext(d) \/ RunNext(d)
        PROVE  UNCHANGED load
    BY <2>2
    DEF Started, Jobs, RunsKnown, CreateNext, Create, ModelRequired, SettingsRead,
        PermissionResult, AcquireSession, AcquireSessionFails, DeclineSession, RecorderDenied,
        CaptureNext, CaptureBegins, CaptureNeverBegins, CaptureCancelled, LoopEnds, Append,
        AppendAtLimit, KeepListening, VadStops, FinishFromCapture, Epilogue, CaptureCloses,
        RunNext, RunDispatched, RunNeverBegins, JoinRecorder, RunCancelled, LoadAwaited,
        RetryLoad, RetryAwaited, Decoded, DecodeFails, ReleaseBackend, Deliver, DeliverBlank,
        DeliverThrows, RunFailureShown, RunEnds
  <2> QED
    BY <1>2, <2>1, <2>2 DEF Next, Cleanup, PressFinish, vars, coroutines
<1> QED
  BY <1>1, <1>2, RuntimesStep

(* A start that asks or acquires has reset the replay.                     *)
LEMMA StartsEnable ==
    ASSUME TypeOK, [Next]_vars, ~Reset, ~Started, NEW d \in Dictations,
           create'[d].pc \in {"asking", "acquire", "leased"}
    PROVE  create[d].pc \in {"asking", "acquire", "leased"} \/ ReplayReset(Streaming)
<1> USE DEF coroutines
<1>1. ASSUME NEW e \in Dictations, CreateNext(e)
      PROVE  create[d].pc \in {"asking", "acquire", "leased"} \/ ReplayReset(Streaming)
  <2>1. CASE Create(e) \/ ModelRequired(e) \/ AcquireSessionFails(e) \/ DeclineSession(e)
    <3>1. \/ create' = [create EXCEPT ![e] = [pc |-> "settings", born |-> gen, gen |-> gen]]
          \/ create' = [create EXCEPT ![e].pc = "done"]
      BY <2>1 DEF Create, ModelRequired, AcquireSessionFails, DeclineSession
    <3>2. create'[d] = create[d]
      BY <3>1 DEF TypeOK, CreateStates
    <3> QED
      BY <3>2
  <2>2. CASE SettingsRead(e)
    BY <2>2 DEF SettingsRead
  <2>3. CASE PermissionResult(e) \/ AcquireSession(e) \/ RecorderDenied(e)
    <3>1. /\ create[e].pc \in {"asking", "acquire", "leased"}
          /\ \A c \in Dictations \ {e} : create'[c] = create[c]
      BY <2>3 DEF PermissionResult, AcquireSession, RecorderDenied, TypeOK
    <3> QED
      BY <3>1
  <2> QED
    BY <1>1, <2>1, <2>2, <2>3 DEF CreateNext, Started
<1>2. ASSUME NEW u \in Dictations, CaptureNext(u) \/ RunNext(u) PROVE UNCHANGED create
  BY <1>2
  DEF CaptureNext, CaptureBegins, CaptureNeverBegins, CaptureCancelled, LoopEnds, Append,
      AppendAtLimit, KeepListening, VadStops, FinishFromCapture, Epilogue, CaptureCloses,
      RunNext, RunDispatched, RunNeverBegins, JoinRecorder, RunCancelled, LoadAwaited,
      RetryLoad, RetryAwaited, Decoded, DecodeFails, ReleaseBackend, Deliver, DeliverBlank,
      DeliverThrows, RunFailureShown, RunEnds
<1>3. ASSUME NEW l \in Loads, LoadNext(l) PROVE UNCHANGED create
  BY <1>3
  DEF LoadNext, LoadBegins, LoadCancelled, LoadSucceeds, LoadFails, LoadOutOfMemory, Publish,
      ReleaseUnpublished, StreamLoaded, LoadFailureShown
<1>4. (\E g \in Generations : Cleanup(g)) \/ PressFinish \/ UNCHANGED vars => UNCHANGED create
  BY DEF Cleanup, PressFinish, vars
<1> QED
  BY <1>1, <1>2, <1>3, <1>4 DEF Next

(* A step keeps the audio with the backend that will transcribe it.        *)
LEMMA StreamStep ==
    ASSUME TypeOK, FieldsInv, InTurn, Jobs, UnstartedBlank, BackendKept, StreamKnown,
           [Next]_vars
    PROVE  StreamKnown'
<1>0. /\ None \notin Dictations /\ \A u \in Dictations : u \in Loads
      /\ stream \in StreamStates /\ heard \in [Dictations -> HeardStates]
      /\ stream.active # None => stream.active \in Loads
      /\ recorderJob \in Dictations \cup {None}
  BY LoadNames DEF TypeOK, StreamStates
<1>4. ASSUME ~Streaming, NEW u \in Dictations PROVE heard'[u] = "empty"
  <2>1. heard[u] = "empty"
    BY <1>4 DEF StreamKnown
  <2>2. CASE Reset
    BY <2>1, <2>2 DEF Reset, ReplayReset
  <2>3. ASSUME NEW d \in Dictations, StartRecording(d) PROVE UNCHANGED replay
    BY <2>3, StartFinds DEF StartRecording
  <2>4. CASE StreamMoves
    BY <1>0, <1>4, <2>1, <2>4
    DEF StreamMoves, Hears, Heard, ReplayReset, StreamLoaded, StartStreaming, replay
  <2> QED
    BY <2>1, <2>2, <2>3, <2>4, StreamMovesStep DEF Started, replay
<1>1. ASSUME NEW d \in Dictations, StartRecording(d) PROVE StreamKnown'
  <2>1. /\ create[d].pc = "leased" /\ UNCHANGED replay
        /\ create' = [create EXCEPT ![d].pc = "done"]
    BY <1>1, StartFinds DEF StartRecording
  <2>2. /\ \A e \in Dictations \ {d} : create'[e] = create[e]
        /\ create'[d].pc = "done"
    BY <2>1 DEF TypeOK, CreateStates
  <2>3. stream.active # d
    BY <1>0, <1>1, StartFinds DEF StreamKnown
  <2> QED
    BY <1>0, <1>1, <1>4, <2>1, <2>2, <2>3, StartFinds DEF StreamKnown, replay
<1>2. CASE Reset
  <2>1. /\ stream' = [enabled |-> FALSE, active |-> None] /\ recorderJob' = None
        /\ UNCHANGED create /\ \A d \in Dictations : StartOver(d)
    BY <1>2 DEF Reset, ReplayReset, InTurn
  <2> QED
    BY <1>0, <1>4, <2>1 DEF StreamKnown, StartOver
<1>3. CASE ~Reset /\ ~Started
  <2>0. /\ Ordinary /\ StreamMoves /\ (Fails \/ Delivers \/ Keeps)
        /\ UNCHANGED <<recorderJob, gen>>
    BY <1>3, OrdinaryStep, ShowStep, StreamMovesStep DEF Jobs, Started, Ordinary
  <2>1. ASSUME NEW l \in Loads, load[l].pc = "done" PROVE load'[l] = load[l]
    BY <2>0, <2>1 DEF Ordinary, LoadSteps
  <2>2. ASSUME NEW l \in Loads, StreamLoaded(l)
        PROVE  \/ UNCHANGED replay
               \/ /\ stream' = [stream EXCEPT !.active = l] /\ load[l].pc = "published"
                  /\ load'[l].pc = "done" /\ load'[l].gen = load[l].gen
                  /\ stream.active \in {None, l}
                  /\ heard' = [u \in Dictations |->
                                 IF heard[u] = "queued" THEN "live" ELSE heard[u]]
    BY <2>2, LoadGoesHome DEF StreamLoaded, StartStreaming, ReplayRefuses
  <2>3. stream'.active # None => load'[stream'.active].pc = "done"
    <3>1. CASE UNCHANGED stream
      BY <1>0, <2>1, <3>1 DEF StreamKnown
    <3>2. CASE ReplayReset(Streaming)
      BY <3>2 DEF ReplayReset
    <3>3. ASSUME NEW l \in Loads, StreamLoaded(l), ~UNCHANGED stream
          PROVE  stream'.active = l /\ load'[l].pc = "done"
      BY <1>0, <2>2, <3>3 DEF StreamStates, replay
    <3> QED
      BY <2>0, <3>1, <3>2, <3>3 DEF StreamMoves, Hears, replay
  <2> DEFINE Replayed(u) ==
               /\ stream.enabled
               /\ stream.active = None => heard[u] \in {"empty", "queued"}
               /\ stream.active = u => heard[u] \in {"empty", "live"} /\ load[u].gen = gen
               /\ load[u].pc = "done" /\ stopReason # "Cancel" => stream.active = u
  <2>4. ASSUME Streaming, NEW u \in Dictations, u = recorderJob'
        PROVE  Replayed(u)'
    <3>0. /\ u = recorderJob /\ recorderJob # None /\ stream.enabled
          /\ stream.active = None => heard[u] \in {"empty", "queued"}
          /\ stream.active = u => heard[u] \in {"empty", "live"} /\ load[u].gen = gen
          /\ load[u].pc = "done" /\ stopReason # "Cancel" => stream.active = u
          /\ stream.active = u => load'[u] = load[u]
      BY <1>0, <2>0, <2>1, <2>4 DEF StreamKnown
    <3>1. stopReason' # "Cancel" => stopReason # "Cancel"
      BY <2>0, <3>0 DEF Fails, Delivers, Keeps
    <3>2. /\ load'[u].pc = "done" /\ stopReason' # "Cancel" =>
                \/ load[u].pc = "done" \/ StreamLoaded(u)
      BY <1>3, <2>4, <3>0, StreamingLoadEnds
    <3>3. CASE UNCHANGED replay /\ ~StreamLoaded(u)
      BY <2>0, <3>0, <3>1, <3>2, <3>3 DEF replay
    <3>4. ASSUME NEW v \in Dictations, Hears(v) PROVE Replayed(u)'
      <4>1. UNCHANGED <<stream, load>> /\ \A w \in Dictations \ {v} : heard'[w] = heard[w]
        BY <1>0, <3>4 DEF Hears
      <4>2. ASSUME v = u
            PROVE  /\ stream.active = None => heard'[u] = "queued"
                   /\ stream.active = u => heard'[u] = "live"
        <5>1. heard'[u] = Heard(u) /\ cap[u].gen = gen
          BY <1>0, <3>4, <4>2 DEF Hears
        <5> QED
          BY <1>0, <2>4, <3>0, <5>1 DEF Heard
      <4> QED
        BY <2>0, <3>0, <3>1, <3>4, <4>1, <4>2 DEF Hears
    <3>5. ASSUME NEW l \in Loads, StreamLoaded(l) PROVE Replayed(u)'
      <4>1. CASE l # u
        <5>1. load'[u] = load[u]
          BY <1>0, <3>5, <4>1, LoadGoesOn, LoadGoesHome DEF StreamLoaded
        <5>2. CASE UNCHANGED replay
          BY <2>0, <3>0, <3>1, <5>1, <5>2 DEF replay
        <5>3. CASE ~UNCHANGED replay
          <6>1. /\ stream' = [stream EXCEPT !.active = l] /\ stream.active \in {None, l}
            BY <2>2, <3>5, <5>3
          <6>2. stream'.active = l /\ stream'.enabled /\ l # None
            BY <1>0, <3>0, <6>1, LoadNames DEF StreamStates
          <6>3. ~(load[u].pc = "done" /\ stopReason # "Cancel")
            BY <1>0, <3>0, <4>1, <6>1
          <6> QED
            BY <3>1, <4>1, <5>1, <6>2, <6>3
        <5> QED
          BY <5>2, <5>3
      <4>2. CASE l = u
        <5>1. load[u].pc = "published" /\ load[u].gen = gen
          BY <3>0, <3>5, <4>2, CurrentLoad DEF StreamLoaded, Jobs
        <5>2. CASE ReplayRefuses(u)
          <6>1. UNCHANGED replay /\ GoLoad(u, "failed")
            BY <3>5, <4>2, <5>1, <5>2 DEF StreamLoaded
          <6>2. load'[u].pc = "failed"
            BY <1>0, <6>1, LoadGoesOn
          <6> QED
            BY <2>0, <3>0, <6>1, <6>2 DEF replay
        <5>3. CASE ~ReplayRefuses(u)
          <6>1. /\ stream' = [stream EXCEPT !.active = u]
                /\ heard' = [v \in Dictations |->
                               IF heard[v] = "queued" THEN "live" ELSE heard[v]]
                /\ LoadEnds(u) /\ stream.active \in {None, u}
            BY <2>4, <3>0, <3>5, <4>2, <5>3 DEF StreamLoaded, StartStreaming, ReplayRefuses
          <6>2. stream'.active = u /\ stream'.enabled
            BY <1>0, <3>0, <6>1 DEF StreamStates
          <6>3. heard'[u] \in {"empty", "live"} /\ load'[u].gen = gen
            BY <1>0, <3>0, <5>1, <6>1, LoadGoesHome
          <6> QED
            BY <1>0, <2>0, <6>2, <6>3
        <5> QED
          BY <5>2, <5>3
      <4> QED
        BY <4>1, <4>2
    <3> HIDE DEF Replayed
    <3> QED
      BY <1>0, <2>0, <3>0, <3>3, <3>4, <3>5 DEF StreamMoves
  <2>5. ASSUME Streaming, NEW d \in Dictations,
               create'[d].pc \in {"asking", "acquire", "leased"}
        PROVE  stream'.enabled
    <3>1. CASE ReplayReset(Streaming)
      BY <2>5, <3>1 DEF ReplayReset
    <3>2. CASE ~ReplayReset(Streaming)
      <4>1. stream.enabled
        BY <1>3, <2>5, <3>2, StartsEnable DEF StreamKnown
      <4>2. stream' = stream \/ \E l \in Loads : stream' = [stream EXCEPT !.active = l]
        BY <2>0, <2>2, <3>2 DEF StreamMoves, Hears, replay
      <4> QED
        BY <1>0, <4>1, <4>2 DEF StreamStates
    <3> QED
      BY <3>1, <3>2
  <2> QED
    BY <1>4, <2>3, <2>4, <2>5 DEF StreamKnown
<1> QED
  BY <1>1, <1>2, <1>3 DEF Started

-----------------------------------------------------------------------------
(* The invariant and what it says.                                         *)

(* The invariant holds at the start, ...                                   *)
LEMMA TurnsInit == Init => TurnsInv
<1> SUFFICES ASSUME Init PROVE TurnsInv
  OBVIOUS
<1>1. Base
  BY TypeInit, FieldsInit, SessionInit DEF Base
<1>2. /\ \A d \in Dictations : /\ create[d].pc = "idle" /\ outcome[d] = "none"
                               /\ cap[d].pc = "idle" /\ ~cap[d].cancelled
                               /\ mod[d].pc = "idle" /\ ~mod[d].cancelled
                               /\ mod[d].runtime = None /\ heard[d] = "empty"
      /\ \A l \in Loads : load[l].pc = "idle" /\ ~load[l].cancelled
      /\ \A g \in Generations : clean[g] = NothingDue
      /\ ~isRecording /\ recorderJob = None /\ modelJob = None /\ loadJob = None
      /\ recorder = None /\ micOn = {} /\ session = None
      /\ backend = None /\ lease = None /\ live = {}
      /\ stream.active = None
  BY DEF Init
<1>3. Jobs
  BY <1>2, LoadNames
  DEF Jobs, StartsInTurn, StartOver, QuietBetween, CapturesKnown, LoadsKnown, RunsKnown
<1>4. UnstartedBlank /\ MicrophoneHeld /\ RecordingKnown /\ CleanupsKnown /\ StaleRunsKept
  BY <1>2, LoadNames
  DEF UnstartedBlank, MicrophoneHeld, RecordingKnown, CleanupsKnown, StaleRunsKept
<1>5. BackendKept /\ OutcomesKnown /\ StreamKnown /\ RuntimesOwned
  BY <1>2, LoadNames DEF BackendKept, OutcomesKnown, StreamKnown, RuntimesOwned
<1> QED
  BY <1>1, <1>3, <1>4, <1>5 DEF TurnsInv

(* ... and every step keeps it.                                            *)
LEMMA TurnsNext == InTurn /\ TurnsInv /\ [Next]_vars => TurnsInv'
<1> SUFFICES ASSUME InTurn, TurnsInv, [Next]_vars PROVE TurnsInv'
  OBVIOUS
<1>1. TypeOK /\ FieldsInv /\ SessionInv /\ Jobs /\ UnstartedBlank
  BY DEF TurnsInv, Base
<1>2. Base'
  BY <1>1, TypeNext, FieldsNext, SessionNext DEF Base
<1>3. Jobs'
  BY <1>1, TurnStep, QuietStep, CapturesStep, LoadsStep, RunsStep DEF Jobs, TurnsInv
<1>4. UnstartedBlank' /\ MicrophoneHeld' /\ RecordingKnown'
  BY <1>1, UnstartedStep, MicrophoneStep, RecordingStep DEF TurnsInv
<1>5. BackendKept' /\ CleanupsKnown' /\ StaleRunsKept'
  BY <1>1, BackendsStep, CleanupsStep, StaleRunsStep DEF TurnsInv
<1>6. OutcomesKnown' /\ StreamKnown' /\ RuntimesOwned'
  BY <1>1, OutcomesStep, StreamStep, OwnersStep DEF TurnsInv
<1> QED
  BY <1>2, <1>3, <1>4, <1>5, <1>6 DEF TurnsInv

(* In every reachable state, when starts take turns.                       *)
LEMMA TurnsAlways == ASSUME InTurn PROVE Spec => []TurnsInv
<1>1. TurnsInv /\ [Next]_vars => TurnsInv'
  BY TurnsNext
<1> QED
  BY <1>1, TurnsInit, PTL DEF Spec

(* The AudioRecord that runs is the one in the field, and the capture that *)
(* will release it is there: no start, failure, detected end of speech or  *)
(* reset leaves a microphone open (stopAndReleaseRecorder).                *)
THEOREM MicrophonesOwned ==
    ASSUME InTurn
    PROVE  Spec => []MicrophoneOwned
<1>1. TurnsInv => MicrophoneOwned
  BY LoadNames DEF TurnsInv, Base, TypeOK, MicrophoneHeld, MicrophoneOwned
<1> QED
  BY <1>1, TurnsAlways, PTL

(* The runtime of a run that decodes is loaded, whatever is cancelled,     *)
(* fails or is reset meanwhile.                                            *)
THEOREM RuntimesAlive ==
    ASSUME InTurn
    PROVE  Spec => []RuntimeAliveWhileDecoding
<1>1. ASSUME TurnsInv, NEW u \in Dictations, mod[u].pc = "decoding"
      PROVE  mod[u].runtime \in live
  <2>1. mod[u].runtime = u
    BY <1>1 DEF TurnsInv, Jobs, RunsKnown
  <2>2. CASE u = modelJob
    <3>1. u = recorderJob
      BY <2>2, LoadNames, <1>1 DEF TurnsInv, Jobs, RunsKnown
    <3> QED
      BY <1>1, <2>1, <2>2, <3>1 DEF TurnsInv, BackendKept, Undecoded
  <2>3. CASE u # modelJob
    BY <1>1, <2>1, <2>3 DEF TurnsInv, StaleRunsKept
  <2> QED
    BY <2>2, <2>3
<1>2. TurnsInv => RuntimeAliveWhileDecoding
  BY <1>1 DEF RuntimeAliveWhileDecoding
<1> QED
  BY <1>2, TurnsAlways, PTL

(* Every loaded runtime has an owner that will release it.                 *)
THEOREM RuntimesReachable ==
    ASSUME InTurn
    PROVE  Spec => []RuntimesOwned
<1>1. TurnsInv => RuntimesOwned
  BY DEF TurnsInv
<1> QED
  BY <1>1, TurnsAlways, PTL

(* A dictation holds its model session while it is recorded, and until its *)
(* decoder is done, also when a reset has cancelled it.                    *)
THEOREM SessionsHeld ==
    ASSUME InTurn
    PROVE  Spec => []SessionHeldWhileDictating
<1>1. ASSUME TurnsInv, isRecording PROVE session = recorderJob
  <2>1. recorderJob \in Dictations /\ modelJob = None /\ stopReason # "Cancel"
    BY <1>1 DEF TurnsInv, Base, TypeOK, Jobs, QuietBetween, RunsKnown, RecordingKnown
  <2>2. mod[recorderJob].pc = "idle"
    BY <1>1, <2>1 DEF TurnsInv, Jobs, RunsKnown
  <2> QED
    BY <1>1, <2>1, <2>2 DEF TurnsInv, BackendKept, Undecoded
<1>2. ASSUME TurnsInv, NEW u \in Dictations, mod[u].pc = "decoding"
      PROVE  u \in openSessions /\ create[u].gen = mod[u].gen
  <2>0. SessionLeaseOwned /\ FieldsAreCurrent /\ None \notin Dictations
    BY <1>2, LoadNames DEF TurnsInv, Base, SessionInv, FieldsInv
  <2>1. CASE u = modelJob
    <3>1. u = recorderJob /\ mod[u].gen = gen /\ stopReason # "Cancel"
      BY <1>2, <2>0, <2>1 DEF TurnsInv, Jobs, RunsKnown, BackendKept
    <3>2. session = u
      BY <1>2, <3>1 DEF TurnsInv, BackendKept, Undecoded
    <3> QED
      BY <2>0, <3>1, <3>2 DEF SessionLeaseOwned, FieldsAreCurrent
  <2>2. CASE u # modelJob
    <3>1. mod[u].gen \in Generations /\ clean[mod[u].gen].session = u
      BY <1>2, <2>2 DEF TurnsInv, StaleRunsKept
    <3> QED
      BY <2>0, <3>1 DEF SessionLeaseOwned, HeldByCleanups
  <2> QED
    BY <2>1, <2>2
<1>3. TurnsInv => SessionHeldWhileDictating
  BY <1>1, <1>2 DEF SessionHeldWhileDictating, TurnsInv, Base, TypeOK
<1> QED
  BY <1>3, TurnsAlways, PTL

(* What the decoder is asked to transcribe is all that was heard.          *)
THEOREM StreamsComplete ==
    ASSUME InTurn
    PROVE  Spec => []StreamedAudioComplete
<1>1. ASSUME TurnsInv, NEW u \in Dictations, mod[u].pc = "decoding", mod[u].gen = gen
      PROVE  heard[u] \in {"empty", "live"}
  <2>1. u = modelJob /\ u = recorderJob
    BY <1>1, CurrentRun DEF TurnsInv, Base, Jobs
  <2>2. load[u].pc = "done" /\ stopReason # "Cancel"
    BY <1>1, <2>1 DEF TurnsInv, BackendKept
  <2>3. CASE Streaming
    BY <1>1, <2>1, <2>2, <2>3 DEF TurnsInv, StreamKnown
  <2>4. CASE ~Streaming
    BY <1>1, <2>4 DEF TurnsInv, StreamKnown
  <2> QED
    BY <2>3, <2>4
<1>2. TurnsInv => StreamedAudioComplete
  BY <1>1 DEF StreamedAudioComplete
<1> QED
  BY <1>2, TurnsAlways, PTL

-----------------------------------------------------------------------------
(* The engine keeps the promises of Dictation.                             *)

(* A dictation that goes on stays in the stage it was in.                  *)
LEMMA StagesKept ==
    ASSUME NEW u \in Dictations, outcome'[u] = outcome[u],
           mod'[u].pc = "idle" <=> mod[u].pc = "idle",
           cap'[u].pc = "idle" <=> cap[u].pc = "idle"
    PROVE  Stage(u)' = Stage(u)
  BY DEF Stage

(* Between two dictations none is under way.                               *)
LEMMA NoneUnderWay ==
    ASSUME TurnsInv, NEW u \in Dictations, u # recorderJob
    PROVE  Stage(u) \notin {"recording", "processing"}
  BY DEF TurnsInv, UnstartedBlank, OutcomesKnown, Stage, Base, TypeOK, Outcomes

(* A start of the recorder is a start of the dictation.                    *)
LEMMA StartRefines ==
    ASSUME TurnsInv, NEW d \in Dictations, StartRecording(d)
    PROVE  Screen!Start(d)
<1>1. UNCHANGED <<outcome, mod>> /\ recorderJob' = d /\ recorderJob = None
  BY StartFinds DEF StartRecording, TurnsInv, Base
<1>2. \A u \in Dictations : Stage(u) \notin {"recording", "processing"}
  BY <1>1, NoneUnderWay, LoadNames
<1>3. Stage(d) = "idle" /\ Stage(d)' = "recording"
  BY <1>1, StartFinds DEF TurnsInv, Base, Stage
<1>4. \A u \in Dictations \ {d} : Stage(u)' = Stage(u)
  <2> SUFFICES ASSUME NEW u \in Dictations \ {d} PROVE Stage(u)' = Stage(u)
    OBVIOUS
  <2>1. cap'[u] = cap[u]
    BY StartFinds DEF TurnsInv, Base
  <2> QED
    BY <1>1, <2>1, StagesKept
<1> DEFINE stages == [u \in Dictations |-> Stage(u)]
<1>5. stages' = [stages EXCEPT ![d] = "recording"]
  BY <1>3, <1>4
<1> QED
  BY <1>1, <1>2, <1>3, <1>5 DEF Screen!Start

(* A reset leaves the dictation, or finds none.                            *)
LEMMA ResetRefines ==
    ASSUME TypeOK, Reset
    PROVE  Screen!Leave \/ UNCHANGED Screen!vars
<1> DEFINE stages == [u \in Dictations |-> Stage(u)]
<1>0. /\ outcome' = [u \in Dictations |-> IF u = recorderJob /\ outcome[u] = "none"
                                          THEN "cancelled" ELSE outcome[u]]
      /\ recorderJob' = None /\ None \notin Dictations
      /\ \A u \in Dictations : mod'[u].pc = mod[u].pc /\ cap'[u].pc = cap[u].pc
      /\ outcome \in [Dictations -> Outcomes]
  BY ResetCancels, LoadNames DEF Reset, TypeOK
<1>1. CASE recorderJob = None
  <2>1. \A u \in Dictations : Stage(u)' = Stage(u)
    BY <1>0, <1>1, StagesKept
  <2> QED
    BY <1>0, <1>1, <2>1 DEF Screen!vars
<1>2. CASE recorderJob # None
  <2>1. ASSUME NEW u \in Dictations
        PROVE  Stage(u)' = IF u = recorderJob /\ Stage(u) \notin Screen!Ended
                           THEN "cancelled" ELSE Stage(u)
    <3>1. CASE outcome[u] = "none"
      <4>1. Stage(u) \notin Screen!Ended
        BY <3>1 DEF Stage, Screen!Ended
      <4>2. u = recorderJob => Stage(u)' = "cancelled"
        BY <1>0, <3>1 DEF Stage
      <4>3. u # recorderJob => Stage(u)' = Stage(u)
        BY <1>0, StagesKept
      <4> QED
        BY <4>1, <4>2, <4>3
    <3>2. CASE outcome[u] # "none"
      BY <1>0, <3>2 DEF Stage, Screen!Ended, Outcomes
    <3> QED
      BY <3>1, <3>2
  <2>2. stages' = [u \in Dictations |->
                     IF u = recorderJob /\ stages[u] \notin Screen!Ended
                     THEN "cancelled" ELSE stages[u]]
    BY <2>1
  <2> QED
    BY <1>0, <1>2, <2>2 DEF Screen!Leave
<1> QED
  BY <1>1, <1>2

(* Every other step stops, delivers or fails the dictation, or is none of  *)
(* what the screen shows.                                                  *)
LEMMA OrdinaryRefines ==
    ASSUME InTurn, TurnsInv, [Next]_vars, ~Reset, ~Started
    PROVE  [Screen!Next]_(Screen!vars)
<1> DEFINE stages == [u \in Dictations |-> Stage(u)]
<1>0. /\ Ordinary /\ (Fails \/ Delivers \/ Keeps) /\ UNCHANGED recorderJob
      /\ None \notin Dictations /\ recorderJob \in Dictations \cup {None}
      /\ modelJob \in {None, recorderJob} /\ outcome \in [Dictations -> Outcomes]
  BY OrdinaryStep, ShowStep, LoadNames
  DEF TurnsInv, Base, Jobs, Started, Ordinary, RunsKnown, TypeOK
<1>1. \A u \in Dictations : cap'[u].pc = "idle" <=> cap[u].pc = "idle"
  BY <1>0 DEF Ordinary, CaptureSteps
<1>2. CASE isRecording /\ OnFinishRecording
  <2>1. /\ recorderJob \in Dictations /\ modelJob = None
        /\ outcome[recorderJob] = "none" /\ stopReason # "Cancel"
    BY <1>0, <1>2 DEF TurnsInv, Jobs, QuietBetween, RunsKnown, RecordingKnown
  <2>2. /\ mod[recorderJob].pc = "idle" /\ mod'[recorderJob].pc = "dispatched"
        /\ cap[recorderJob].pc # "idle"
    BY <1>2, <2>1, FinishDispatches DEF TurnsInv, Base, Jobs, RunsKnown, CapturesKnown
  <2>3. outcome' = outcome
    <3>1. ~Delivers
      BY <2>1 DEF Delivers
    <3>2. ~Fails
      <4>1. mod' # mod
        BY <2>2
      <4> QED
        BY <1>0, <2>1, <4>1 DEF Fails
    <3> QED
      BY <1>0, <3>1, <3>2 DEF Keeps
  <2>4. Stage(recorderJob) = "recording" /\ Stage(recorderJob)' = "processing"
    BY <1>0, <2>1, <2>2, <2>3 DEF Stage
  <2>5. ASSUME NEW u \in Dictations, u # recorderJob PROVE Stage(u)' = Stage(u)
    BY <1>1, <1>2, <2>3, <2>5, FinishDispatches, StagesKept DEF TurnsInv, Base
  <2>6. stages' = [stages EXCEPT ![recorderJob] = "processing"]
    BY <1>0, <2>1, <2>4, <2>5
  <2>7. Screen!Stop(recorderJob)
    BY <1>0, <2>1, <2>4, <2>6 DEF Screen!Stop
  <2> QED
    BY <2>1, <2>7 DEF Screen!Next
<1>3. CASE ~(isRecording /\ OnFinishRecording)
  <2>1. \A u \in Dictations : mod'[u].pc = "idle" <=> mod[u].pc = "idle"
    BY <1>0, <1>3 DEF Ordinary, RunSteps
  <2>2. ASSUME UNCHANGED outcome PROVE UNCHANGED Screen!vars
    <3>1. \A u \in Dictations : Stage(u)' = Stage(u)
      BY <1>1, <2>1, <2>2, StagesKept
    <3> QED
      BY <1>0, <3>1 DEF Screen!vars
  <2>3. CASE Keeps
    BY <2>2, <2>3 DEF Keeps
  <2>4. CASE Delivers
    <3>0. PICK d \in Dictations : d = modelJob
      BY <1>0, <2>4 DEF Delivers
    <3>1. d = recorderJob /\ mod[d].pc = "deliver" /\ outcome[d] = "none"
      BY <1>0, <2>4, <3>0 DEF Delivers, TurnsInv, OutcomesKnown
    <3>2. /\ Stage(d) = "processing" /\ Stage(d)' = "delivered"
          /\ \A u \in Dictations \ {d} : outcome'[u] = outcome[u]
      BY <1>0, <2>4, <3>0, <3>1 DEF Delivers, Stage
    <3>3. ASSUME NEW u \in Dictations, u # d PROVE Stage(u)' = Stage(u)
      BY <1>1, <2>1, <3>2, <3>3, StagesKept
    <3>4. stages' = [stages EXCEPT ![d] = "delivered"]
      BY <3>2, <3>3
    <3>5. Screen!Deliver(d)
      BY <1>0, <3>1, <3>2, <3>4 DEF Screen!Deliver
    <3> QED
      BY <3>5 DEF Screen!Next
  <2>5. CASE Fails
    <3>1. CASE recorderJob = None
      BY <1>0, <2>2, <2>5, <3>1 DEF Fails
    <3>2. CASE recorderJob # None /\ outcome[recorderJob] = "failed"
      BY <1>0, <2>2, <2>5, <3>2 DEF Fails
    <3>3. CASE recorderJob # None /\ outcome[recorderJob] # "failed"
      <4>1. outcome[recorderJob] = "none"
        <5>1. outcome[recorderJob] # "delivered"
          BY <1>0, <2>5, <3>3 DEF Fails, TurnsInv, OutcomesKnown
        <5>2. outcome[recorderJob] # "cancelled"
          BY <1>0, <3>3 DEF TurnsInv, OutcomesKnown
        <5> QED
          BY <1>0, <3>3, <5>1, <5>2 DEF Outcomes
      <4>2. cap[recorderJob].pc # "idle"
        BY <1>0, <3>3 DEF TurnsInv, Jobs, CapturesKnown
      <4>3. /\ Stage(recorderJob) \in {"recording", "processing"}
            /\ Stage(recorderJob)' = "failed"
        BY <1>0, <2>5, <3>3, <4>1, <4>2 DEF Fails, Stage
      <4>4. ASSUME NEW u \in Dictations, u # recorderJob PROVE Stage(u)' = Stage(u)
        <5>1. outcome'[u] = outcome[u]
          BY <2>5, <4>4 DEF Fails
        <5> QED
          BY <1>1, <2>1, <5>1, StagesKept
      <4>5. stages' = [stages EXCEPT ![recorderJob] = "failed"]
        BY <1>0, <3>3, <4>3, <4>4
      <4>6. Screen!Fail(recorderJob)
        BY <1>0, <3>3, <4>3, <4>5 DEF Screen!Fail
      <4> QED
        BY <1>0, <3>3, <4>6 DEF Screen!Next
    <3> QED
      BY <3>1, <3>2, <3>3
  <2> QED
    BY <1>0, <2>3, <2>4, <2>5
<1> QED
  BY <1>2, <1>3

(* The screen shows one dictation at a time, delivers the text of each at  *)
(* most once and only after it was stopped, and never takes back what it   *)
(* has shown, whichever coroutine is late (onFinishRecording, runModel,    *)
(* failRecognition, reset).                                                *)
THEOREM KeepsPromises ==
    ASSUME InTurn
    PROVE  Spec => ImplementsDictation
<1>1. Init => Screen!Init
  BY DEF Init, Screen!Init, Stage
<1>2. TurnsInv /\ [Next]_vars => [Screen!Next]_(Screen!vars)
  <2> SUFFICES ASSUME TurnsInv, [Next]_vars PROVE [Screen!Next]_(Screen!vars)
    OBVIOUS
  <2>1. ASSUME NEW d \in Dictations, StartRecording(d) PROVE Screen!Next
    BY <2>1, StartRefines DEF Screen!Next
  <2>2. CASE Reset
    BY <2>2, ResetRefines DEF Screen!Next, TurnsInv, Base
  <2>3. CASE ~Reset /\ ~Started
    BY <2>3, OrdinaryRefines
  <2> QED
    BY <2>1, <2>2, <2>3 DEF Started
<1> QED
  BY <1>1, <1>2, TurnsAlways, PTL DEF Spec, ImplementsDictation, Screen!Spec
=============================================================================
