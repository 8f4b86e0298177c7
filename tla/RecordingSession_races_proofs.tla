---------------------- MODULE RecordingSession_races_proofs ----------------------
(***************************************************************************)
(* Proofs about RecordingSession when starts overlap resets and each other *)
(* but no dictation fails: for any number of dictations and resets, with   *)
(* the permission withheld, a microphone that stops and an unwritable      *)
(* history among what may happen.  Nothing holds the engine back but the   *)
(* model session: a start whose token is kept finds none.                  *)
(***************************************************************************)
EXTENDS RecordingSession_turns_proofs

(* Any starts and resets may race, but no thread is preempted between two  *)
(* adjacent accesses, no backend streams, and of the failures only those   *)
(* occur after which a dictation is not failed: a permission withheld      *)
(* before anything was started, a microphone that stops delivering, and a  *)
(* history that cannot be written.                                         *)
Unfailing ==
    /\ ~Preemption /\ ~Streaming
    /\ Faults \subseteq {"denied", "read", "history"}

-----------------------------------------------------------------------------
(* The parts of the inductive invariant.                                   *)

(* A start that is pending has left no trace.                              *)
PendingBlank ==
    /\ \A d \in Dictations : create[d].pc # "done" => cap[d].pc = "idle"
    /\ \A d \in Dictations : cap[d].pc = "idle" =>
          mod[d].pc = "idle" /\ load[d].pc = "idle" /\ outcome[d] = "none"

(* The dictation that holds the session is the one on the screen; when     *)
(* none does, nothing is recorded and no run is under way.                 *)
OneAtATime ==
    /\ session = None => ~isRecording /\ backend = None /\ lease = None
    /\ session # None =>
          /\ recorderJob = session /\ stopReason # "Cancel"
          /\ isRecording <=> mod[session].pc = "idle"
          /\ isRecording <=> modelJob # session
    /\ loadJob = recorderJob
    /\ modelJob # None /\ modelJob # session => mod[modelJob].pc = "done"

(* Every other coroutine is over, or was cancelled by a reset.             *)
CapturesHeld ==
    \A u \in Dictations :
        /\ cap[u].cancelled => cap[u].pc \notin {"idle", "done"} /\ u # recorderJob
        /\ cap[u].pc \notin {"idle", "done"} => cap[u].cancelled \/ u = session
        /\ u = recorderJob => cap[u].pc # "idle"

LoadsHeld ==
    /\ \A l \in Loads : load[l].pc \notin {"published", "failed"}
    /\ \A d \in Dictations : load[RetryOf(d)].pc = "idle"
    /\ \A d \in Dictations :
        /\ load[d].cancelled => load[d].pc \notin {"idle", "done"} /\ d # recorderJob
        /\ load[d].pc \notin {"idle", "done"} => load[d].cancelled \/ d = session
        /\ load[d].pc \notin {"idle", "dispatched", "done"} =>
              IF d = session THEN load[d].gen = gen ELSE load[d].gen < gen
        /\ d = recorderJob => load[d].pc # "idle"

RunsHeld ==
    \A u \in Dictations :
        /\ mod[u].pc \notin {"retry", "waitRetry", "failMain"}
        /\ mod[u].cancelled => mod[u].pc \notin {"idle", "done"} /\ u # recorderJob
        /\ mod[u].pc \notin {"idle", "done"} => mod[u].cancelled \/ u = session
        /\ u = session => mod[u].pc # "done"
        /\ mod[u].pc \notin {"idle", "dispatched", "joining", "done"} =>
              IF u = session THEN mod[u].gen = gen /\ cap[u].pc = "done" ELSE mod[u].gen < gen
        /\ u = session /\ mod[u].pc \in {"joining", "waitLoad"} => mod[u].waits = u
        /\ mod[u].runtime # None => mod[u].pc \in {"decoding", "releasing"}
        /\ mod[u].pc \in {"decoding", "releasing"} => mod[u].runtime = u
        /\ u = session /\ mod[u].pc \in {"decoding", "releasing", "deliver", "cleanup"} =>
              load[u].pc = "done"

(* The recorder that runs is that of the dictation, and what the field     *)
(* names is still captured.                                                *)
MicrophoneWithSession ==
    /\ micOn \subseteq {recorder}
    /\ recorder \in {None, session}
    /\ recorder # None => cap[recorder].pc # "done"

(* What the load has published stays in the field until the run releases   *)
(* it, and then nothing is there.                                          *)
BackendWithSession ==
    /\ backend \in {None, session} /\ lease \in {None, backend}
    /\ session # None =>
          /\ load[session].pc = "publish" => session \in live
          /\ load[session].pc = "done" /\ mod[session].pc \notin {"deliver", "cleanup"} =>
                backend = session /\ session \in live
          /\ mod[session].pc \in {"deliver", "cleanup"} => backend = None

(* A cleanup that is due holds what a dictation of its generation held.    *)
CleanupsPast ==
    \A g \in Generations :
        \/ clean[g] = NothingDue
        \/ /\ clean[g].due /\ g < gen
           /\ clean[g].runtime # None =>
                 /\ load[clean[g].runtime].gen = g
                 /\ load[clean[g].runtime].pc \notin {"idle", "dispatched"}

(* A run that a reset has cancelled keeps its runtime and its session      *)
(* until it ends: the cleanup waits for it.                                *)
CancelledRunsKept ==
    \A u \in Dictations :
        mod[u].pc \in {"decoding", "releasing"} /\ u # session =>
            /\ mod[u].gen \in Generations
            /\ clean[mod[u].gen].due /\ clean[mod[u].gen].mod = u
            /\ clean[mod[u].gen].runtime = u /\ clean[mod[u].gen].session = u
            /\ u \in live /\ load[u].pc = "done"

(* The dictation that holds the session is not over before its text is     *)
(* delivered, and every other one that was started is.                     *)
OutcomesSettled ==
    \A u \in Dictations :
        /\ cap[u].pc # "idle" /\ u # session => outcome[u] # "none"
        /\ u = session => outcome[u] = IF mod[u].pc = "cleanup" THEN "delivered" ELSE "none"

(* The inductive invariant.                                                *)
RacesInv ==
    /\ Base /\ PendingBlank /\ OneAtATime
    /\ CapturesHeld /\ LoadsHeld /\ RunsHeld
    /\ MicrophoneWithSession /\ BackendWithSession
    /\ CleanupsPast /\ CancelledRunsKept /\ OutcomesSettled
    /\ RuntimesOwned

-----------------------------------------------------------------------------
(* What a step may do.                                                     *)

(* Every step is a start of the recorder, a reset or an ordinary one.      *)
LEMMA RaceStep ==
    ASSUME Unfailing, RacesInv, [Next]_vars
    PROVE  Reset \/ Started \/ Ordinary
  BY StepKinds DEF Unfailing, RacesInv, Base, RunsHeld, Started

(* What names nothing, and what names a load.                              *)
LEMMA RaceNames ==
    ASSUME RacesInv
    PROVE  /\ TypeOK /\ FieldsInv /\ SessionInv
           /\ None \notin Dictations /\ None \notin Loads /\ \A u \in Dictations : u \in Loads
           /\ gen \in Nat /\ gen \in Generations
           /\ session \in Dictations \cup {None} /\ recorderJob \in Dictations \cup {None}
           /\ modelJob \in Dictations \cup {None}
           /\ \A u \in Dictations : mod[u].gen \in Nat
           /\ \A l \in Loads : load[l].gen \in Nat
           /\ session # None => recorderJob = session
  BY LoadNames, ConstantsAssumption
  DEF RacesInv, Base, TypeOK, Generations, RunStates, LoadStates, OneAtATime

(* A start of the recorder finds no dictation, no session and no backend,  *)
(* and launches three coroutines that have never run.                      *)
LEMMA StartFindsNone ==
    ASSUME RacesInv, NEW d \in Dictations, StartRecording(d)
    PROVE  /\ session = None /\ backend = None /\ lease = None /\ recorder = None
           /\ ~isRecording /\ d # recorderJob /\ d # modelJob
           /\ cap[d].pc = "idle" /\ mod[d].pc = "idle" /\ load[d].pc = "idle"
           /\ outcome[d] = "none" /\ ~load[d].cancelled
           /\ session' = d /\ recorderJob' = d /\ loadJob' = d
           /\ isRecording' /\ stopReason' = "none"
           /\ recorder' = d /\ micOn' = micOn \cup {d}
           /\ UNCHANGED <<gen, modelJob, mod, clean, outcome, runtimes>>
           /\ \A u \in Dictations \ {d} : cap'[u] = cap[u]
           /\ cap'[d].pc = "starting" /\ cap'[d].gen = gen /\ ~cap'[d].cancelled
           /\ \A l \in Loads \ {d} : load'[l] = load[l]
           /\ load'[d].pc = "dispatched" /\ load'[d].gen = load[d].gen
           /\ load'[d].cancelled = load[d].cancelled
           /\ create'[d].pc = "done" /\ \A e \in Dictations \ {d} : create'[e] = create[e]
<1>1. /\ create[d].pc = "leased" /\ session = None /\ ~isRecording
      /\ session' = d /\ recorderJob' = d /\ isRecording' /\ stopReason' = "none"
      /\ recorder' = d /\ micOn' = micOn \cup {d}
      /\ UNCHANGED <<gen, modelJob, mod, clean, outcome, runtimes>>
      /\ cap' = [cap EXCEPT ![d] = [pc |-> "starting", gen |-> gen, cancelled |-> FALSE]]
      /\ create' = [create EXCEPT ![d].pc = "done"]
      /\ LoadModel(d)
  BY DEF StartRecording, Declined
<1>2. backend = None /\ lease = None /\ recorder = None
  BY <1>1 DEF RacesInv, OneAtATime, MicrophoneWithSession
<1>3. /\ cap[d].pc = "idle" /\ mod[d].pc = "idle" /\ load[d].pc = "idle"
      /\ outcome[d] = "none" /\ ~load[d].cancelled
  BY <1>1 DEF RacesInv, PendingBlank, LoadsHeld
<1>4. d # recorderJob /\ d # modelJob
  BY <1>1, <1>3, RaceNames DEF RacesInv, CapturesHeld, OneAtATime
<1>5. /\ \A u \in Dictations \ {d} : cap'[u] = cap[u]
      /\ cap'[d].pc = "starting" /\ cap'[d].gen = gen /\ ~cap'[d].cancelled
  BY <1>1 DEF RacesInv, Base, TypeOK
<1>6. create'[d].pc = "done" /\ \A e \in Dictations \ {d} : create'[e] = create[e]
  <2>1. create[d] \in CreateStates /\ create'[d] = [create[d] EXCEPT !.pc = "done"]
    BY <1>1 DEF RacesInv, Base, TypeOK
  <2> QED
    BY <1>1, <2>1 DEF RacesInv, Base, TypeOK, CreateStates
<1>7. loadJob' = d /\ load' = [load EXCEPT ![d].pc = "dispatched"]
  BY <1>1, <1>2 DEF LoadModel
<1>8. /\ \A l \in Loads \ {d} : load'[l] = load[l]
      /\ load'[d].pc = "dispatched" /\ load'[d].gen = load[d].gen
      /\ load'[d].cancelled = load[d].cancelled
  <2>1. d \in Loads /\ load[d] \in LoadStates
    BY RaceNames DEF TypeOK
  <2>2. load'[d] = [load[d] EXCEPT !.pc = "dispatched"]
    BY <1>7, <2>1, RaceNames DEF TypeOK
  <2> QED
    BY <1>7, <2>1, <2>2, RaceNames DEF TypeOK, LoadStates
<1> QED
  BY <1>1, <1>2, <1>3, <1>4, <1>5, <1>6, <1>7, <1>8

(* The run that is past its join and current is that of the dictation.     *)
LEMMA SessionsRun ==
    ASSUME RacesInv, NEW u \in Dictations, mod[u].gen = gen,
           mod[u].pc \notin {"idle", "dispatched", "joining", "done"}
    PROVE  u = session /\ u = recorderJob /\ u = modelJob
<1>1. u = session
  BY RaceNames DEF RacesInv, RunsHeld
<1> QED
  BY <1>1, RaceNames DEF RacesInv, OneAtATime

(* The load that is current is that of the dictation.                      *)
LEMMA SessionsLoad ==
    ASSUME RacesInv, NEW l \in Loads, load[l].pc \notin {"idle", "dispatched", "done"}
    PROVE  l \in Dictations /\ (load[l].gen = gen <=> l = session)
<1>1. l \in Dictations \/ \E d \in Dictations : l = RetryOf(d)
  BY ConstantsAssumption DEF Loads, Dictations, RetryOf
<1> QED
  BY <1>1, RaceNames DEF RacesInv, LoadsHeld

(* Only the end of its run, or a reset, gives back the session of a        *)
(* dictation.                                                              *)
LEMMA SessionMoves ==
    ASSUME Unfailing, RacesInv, [Next]_vars, ~Reset, ~Started
    PROVE  \/ session' = session
           \/ session # None /\ session' = None /\ RunEnds(session)
<1> USE DEF control, mic, leases, runtimes, history, jobs, replay, coroutines
<1>1. ASSUME NEW d \in Dictations, CreateNext(d) PROVE session' = session
  BY <1>1
  DEF Started, CreateNext, Create, ModelRequired, SettingsRead, PermissionResult,
      AcquireSession, AcquireSessionFails, DeclineSession, RecorderDenied, Unfailing
<1>2. ASSUME NEW u \in Dictations, CaptureNext(u) PROVE session' = session
  BY <1>2
  DEF CaptureNext, CaptureBegins, CaptureNeverBegins, CaptureCancelled, LoopEnds, Append,
      AppendAtLimit, Reads, KeepListening, VadStops, FinishFromCapture, Epilogue, CaptureCloses
<1>3. ASSUME NEW l \in Loads, LoadNext(l) PROVE session' = session
  <2>1. load[l].pc # "failed"
    BY DEF RacesInv, LoadsHeld
  <2> QED
    BY <1>3, <2>1
    DEF LoadNext, LoadBegins, LoadCancelled, LoadSucceeds, LoadFails, LoadOutOfMemory,
        Publish, ReleaseUnpublished, StreamLoaded, LoadFailureShown
<1>4. ASSUME NEW u \in Dictations, RunNext(u)
      PROVE  session' = session \/ (session # None /\ session' = None /\ RunEnds(session))
  <2>1. CASE RunEnds(u)
    <3>1. mod[u].pc = "cleanup" /\ ReleaseModelSession(mod[u].gen)
      BY <2>1 DEF RunEnds
    <3>2. session' = session \/ (session' = None /\ session # None /\ mod[u].gen = gen)
      BY <3>1, RaceNames DEF ReleaseModelSession, FieldsInv, FieldsAreCurrent
    <3> QED
      BY <2>1, <3>1, <3>2, SessionsRun
  <2>2. CASE ~RunEnds(u)
    <3>1. mod[u].pc # "failMain"
      BY DEF RacesInv, RunsHeld
    <3> QED
      BY <1>4, <2>2, <3>1
      DEF RunNext, RunDispatched, RunNeverBegins, JoinRecorder, RunCancelled, LoadAwaited,
          RetryLoad, RetryAwaited, Decoded, DecodeFails, ReleaseBackend, Deliver, DeliverBlank,
          DeliverThrows, RunFailureShown, Unfailing
  <2> QED
    BY <2>1, <2>2
<1>5. ASSUME (\E g \in Generations : Cleanup(g)) \/ PressFinish \/ UNCHANGED vars
      PROVE  session' = session
  BY <1>5 DEF Cleanup, PressFinish, vars
<1> QED
  BY <1>1, <1>2, <1>3, <1>4, <1>5 DEF Next

(* A text is delivered for the dictation that holds the session, ...       *)
DeliversSession ==
    /\ session # None /\ mod[session].pc = "deliver" /\ mod'[session].pc = "cleanup"
    /\ outcome' = [outcome EXCEPT ![session] = "delivered"]
    /\ UNCHANGED <<isRecording, session, cap>>

(* ... nothing else is shown, and nothing cancels it but a reset.          *)
LEMMA ScreenMoves ==
    ASSUME Unfailing, RacesInv, [Next]_vars, ~Reset, ~Started
    PROVE  /\ outcome' = outcome \/ DeliversSession
           /\ session # None => stopReason' # "Cancel"
           /\ isRecording' = isRecording \/ (isRecording /\ OnFinishRecording)
<1> USE DEF control, mic, leases, runtimes, history, jobs, replay, coroutines
<1> DEFINE Goal == /\ outcome' = outcome \/ DeliversSession
                   /\ stopReason' = "Cancel" => stopReason = "Cancel"
                   /\ isRecording' = isRecording \/ (isRecording /\ OnFinishRecording)
<1>1. ASSUME NEW d \in Dictations, CreateNext(d) PROVE Goal
  BY <1>1
  DEF Started, CreateNext, Create, ModelRequired, SettingsRead, PermissionResult,
      AcquireSession, AcquireSessionFails, DeclineSession, RecorderDenied, Unfailing
<1>2. ASSUME NEW u \in Dictations, CaptureNext(u) PROVE Goal
  BY <1>2
  DEF CaptureNext, CaptureBegins, CaptureNeverBegins, CaptureCancelled, LoopEnds, Append,
      AppendAtLimit, Reads, KeepListening, VadStops, FinishFromCapture, Epilogue,
      CaptureCloses
<1>3. ASSUME NEW l \in Loads, LoadNext(l) PROVE Goal
  <2>1. load[l].pc # "failed"
    BY DEF RacesInv, LoadsHeld
  <2> QED
    BY <1>3, <2>1
    DEF LoadNext, LoadBegins, LoadCancelled, LoadSucceeds, LoadFails, LoadOutOfMemory,
        Publish, ReleaseUnpublished, StreamLoaded, LoadFailureShown
<1>4. ASSUME NEW u \in Dictations, RunNext(u) PROVE Goal
  <2>0. mod[u].pc # "failMain"
    BY DEF RacesInv, RunsHeld
  <2>1. CASE Deliver(u)
    <3>1. /\ mod[u].pc = "deliver" /\ mod'[u].pc = "cleanup"
          /\ UNCHANGED <<stopReason, isRecording, session, cap>>
          /\ mod[u].gen = gen => outcome' = [outcome EXCEPT ![u] = "delivered"]
          /\ mod[u].gen # gen => outcome' = outcome
      BY <2>1, RaceNames, RunGoesOn DEF Deliver
    <3> QED
      BY <3>1, SessionsRun, RaceNames DEF DeliversSession
  <2>2. CASE ~Deliver(u)
    BY <1>4, <2>0, <2>2
    DEF RunNext, RunDispatched, RunNeverBegins, JoinRecorder, RunCancelled, LoadAwaited,
        RetryLoad, RetryAwaited, Decoded, DecodeFails, ReleaseBackend, DeliverBlank,
        DeliverThrows, RunFailureShown, RunEnds, Unfailing
  <2> QED
    BY <2>1, <2>2
<1>5. ASSUME (\E g \in Generations : Cleanup(g)) \/ PressFinish \/ UNCHANGED vars
      PROVE  Goal
  BY <1>5 DEF Cleanup, PressFinish, OnFinishRecording, vars
<1> QED
  <2>1. Goal
    BY <1>1, <1>2, <1>3, <1>4, <1>5 DEF Next
  <2> QED
    BY <2>1 DEF RacesInv, OneAtATime

(* The loads and runtimes change by a load, a run's release or end, or a   *)
(* cleanup.                                                                *)
OtherMoves ==
    /\ UNCHANGED runtimes
    /\ \A l \in Loads :
          /\ load'[l].pc = "publish" <=> load[l].pc = "publish"
          /\ l = session /\ load'[l].pc = "done" => load[l].pc = "done"
    /\ \A u \in Dictations : mod[u].runtime # None /\ mod'[u].runtime # mod[u].runtime =>
          u # session /\ mod'[u].pc = "cleanup"

(* The loads and runtimes change in one of these four ways.                *)
RaceMoves ==
    \/ \E l \in Loads : LoadSucceeds(l) \/ Publish(l) \/ ReleaseUnpublished(l)
    \/ \E u \in Dictations : ReleaseBackend(u) \/ RunEnds(u)
    \/ \E g \in Generations : Cleanup(g)
    \/ OtherMoves


(* Every step changes loads and runtimes only in those ways.               *)
LEMMA RaceMovesStep ==
    ASSUME Unfailing, RacesInv, [Next]_vars, ~Reset, ~Started
    PROVE  RaceMoves
<1> USE DEF control, mic, leases, history, jobs, replay, coroutines
<1>1. ASSUME UNCHANGED <<runtimes, load>>, UNCHANGED mod \/ OnFinishRecording PROVE OtherMoves
  BY <1>1, RaceNames, FinishDispatches DEF OtherMoves
<1>2. ASSUME NEW d \in Dictations, CreateNext(d) PROVE OtherMoves
  <2>1. UNCHANGED <<runtimes, load, mod>>
    BY <1>2
    DEF Started, CreateNext, Create, ModelRequired, SettingsRead, PermissionResult,
        AcquireSession, AcquireSessionFails, DeclineSession, RecorderDenied
  <2> QED
    BY <1>1, <2>1
<1>3. ASSUME NEW u \in Dictations, CaptureNext(u) PROVE OtherMoves
  <2>1. UNCHANGED <<runtimes, load>> /\ (UNCHANGED mod \/ OnFinishRecording)
    BY <1>3
    DEF CaptureNext, CaptureBegins, CaptureNeverBegins, CaptureCancelled, LoopEnds, Append,
        AppendAtLimit, KeepListening, VadStops, FinishFromCapture, Epilogue, CaptureCloses
  <2> QED
    BY <1>1, <2>1
<1>4. ASSUME NEW l \in Loads, LoadNext(l) PROVE RaceMoves
  <2>0. load[l].pc \notin {"published", "failed"}
    BY DEF RacesInv, LoadsHeld
  <2>1. CASE LoadBegins(l)
    <3>1. UNCHANGED <<runtimes, mod>> /\ load[l].pc = "dispatched"
          /\ load' = [load EXCEPT ![l].pc = "loading", ![l].gen = gen]
      BY <2>1 DEF LoadBegins
    <3>2. \A k \in Loads : k # l => load'[k] = load[k]
      BY <3>1, RaceNames DEF TypeOK
    <3>3. load'[l].pc = "loading"
      BY <3>1, RaceNames DEF TypeOK, LoadStates
    <3> QED
      BY <3>1, <3>2, <3>3 DEF RaceMoves, OtherMoves
  <2>2. CASE LoadCancelled(l)
    <3>1. /\ UNCHANGED <<runtimes, mod>> /\ LoadEnds(l) /\ load[l].cancelled
          /\ load[l].pc \in {"dispatched", "loading", "failed"}
      BY <2>2 DEF LoadCancelled
    <3>2. l # session
      BY <3>1, RaceNames DEF RacesInv, LoadsHeld
    <3> QED
      BY <3>1, <3>2, RaceNames, LoadGoesHome DEF RaceMoves, OtherMoves
  <2> QED
    BY <1>4, <2>0, <2>1, <2>2
    DEF Unfailing, LoadNext, LoadFails, LoadOutOfMemory, StreamLoaded, LoadFailureShown,
        RaceMoves
<1>5. ASSUME NEW u \in Dictations, RunNext(u), ~ReleaseBackend(u), ~RunEnds(u) PROVE OtherMoves
  <2>0. /\ mod[u].pc \notin {"retry", "waitRetry", "failMain"}
        /\ mod[u].cancelled => u # session
        /\ mod[u].runtime # None => mod[u].pc \in {"decoding", "releasing"}
    BY RaceNames DEF RacesInv, RunsHeld
  <2>1. RunSteps(u)
    BY <1>5, <2>0, RaceNames, RunStep DEF Unfailing
  <2>2. UNCHANGED <<runtimes, load>>
    BY <1>5, <2>0
    DEF Unfailing, RunNext, RunDispatched, RunNeverBegins, JoinRecorder, RunCancelled,
        LoadAwaited, RetryLoad, RetryAwaited, Decoded, DecodeFails, Deliver, DeliverBlank,
        DeliverThrows, RunFailureShown
  <2>3. ASSUME mod[u].pc \in {"decoding", "releasing"}, mod'[u].runtime # mod[u].runtime
        PROVE  u # session /\ mod'[u].pc = "cleanup"
    <3>1. Decoded(u) \/ RunCancelled(u)
      BY <1>5, <2>3
      DEF Unfailing, RunNext, RunDispatched, RunNeverBegins, JoinRecorder, LoadAwaited,
          RetryLoad, RetryAwaited, DecodeFails, Deliver, DeliverBlank, DeliverThrows,
          RunFailureShown
    <3>2. CASE Decoded(u)
      <4>1. mod[u].gen # gen
        <5>1. mod[u].gen = gen => mod' = [mod EXCEPT ![u].pc = "releasing"]
          BY <3>2 DEF Decoded
        <5>2. mod[u] \in RunStates
          BY RaceNames DEF TypeOK
        <5> QED
          BY <2>3, <5>1, <5>2, RaceNames DEF TypeOK, RunStates
      <4>2. GoRun(u, "cleanup")
        BY <3>2, <4>1 DEF Decoded
      <4>3. u # session
        BY <2>3, <4>1 DEF RacesInv, RunsHeld
      <4> QED
        BY <4>2, <4>3, RaceNames, RunGoesOn
    <3>3. CASE RunCancelled(u)
      BY <2>0, <3>3, RaceNames, RunGoesOn DEF RunCancelled
    <3> QED
      BY <3>1, <3>2, <3>3
  <2>4. ASSUME NEW v \in Dictations, mod[v].runtime # None, mod'[v].runtime # mod[v].runtime
        PROVE  v # session /\ mod'[v].pc = "cleanup"
    <3>1. v = u
      BY <2>1, <2>4 DEF RunSteps
    <3> QED
      BY <2>0, <2>3, <2>4, <3>1
  <2> QED
    BY <2>2, <2>4, RaceNames DEF OtherMoves
<1>6. CASE PressFinish
  <2>1. UNCHANGED <<runtimes, load>> /\ OnFinishRecording
    BY <1>6 DEF PressFinish
  <2> QED
    BY <1>1, <2>1 DEF RaceMoves
<1>7. CASE UNCHANGED vars
  BY <1>1, <1>7 DEF vars, RaceMoves
<1> QED
  BY <1>2, <1>3, <1>4, <1>5, <1>6, <1>7 DEF Next, RaceMoves

(* No load fails.                                                          *)
LEMMA LoadsSucceed ==
    ASSUME Unfailing, RacesInv, [Next]_vars, NEW l \in Loads
    PROVE  load'[l].pc \notin {"published", "failed"}
<1> USE DEF coroutines
<1>0. load[l].pc \notin {"published", "failed"}
  BY DEF RacesInv, LoadsHeld
<1>1. ASSUME NEW k \in Loads, LoadNext(k) PROVE load'[l].pc \notin {"published", "failed"}
  <2>0. load[k].pc \notin {"published", "failed"}
    BY DEF RacesInv, LoadsHeld
  <2>1. \/ \E pc \in {"publish"} : GoLoad(k, pc)
        \/ LoadEnds(k)
        \/ load' = [load EXCEPT ![k].pc = "loading", ![k].gen = gen]
    BY <1>1, <2>0
    DEF Unfailing, LoadNext, LoadBegins, LoadCancelled, LoadSucceeds, LoadFails,
        LoadOutOfMemory, Publish, ReleaseUnpublished, StreamLoaded, LoadFailureShown
  <2>2. CASE load' = [load EXCEPT ![k].pc = "loading", ![k].gen = gen]
    <3>1. load[k] \in LoadStates /\ load \in [Loads -> LoadStates]
      BY RaceNames DEF TypeOK
    <3> QED
      BY <1>0, <2>2, <3>1 DEF LoadStates
  <2> QED
    BY <1>0, <2>1, <2>2, RaceNames, LoadGoesOn, LoadGoesHome
<1>2. CASE Started
  BY <1>0, <1>2, StartFindsNone DEF Started
<1>3. CASE Reset
  BY <1>0, <1>3, RaceNames, ResetCancels
<1>4. ASSUME NEW d \in Dictations, CreateNext(d) \/ CaptureNext(d) \/ RunNext(d), ~Started
      PROVE  UNCHANGED load
  BY <1>4
  DEF Started, RacesInv, RunsHeld, CreateNext, Create, ModelRequired, SettingsRead,
      PermissionResult, AcquireSession, AcquireSessionFails, DeclineSession, RecorderDenied,
      CaptureNext, CaptureBegins, CaptureNeverBegins, CaptureCancelled, LoopEnds, Append,
      AppendAtLimit, KeepListening, VadStops, FinishFromCapture, Epilogue, CaptureCloses,
      RunNext, RunDispatched, RunNeverBegins, JoinRecorder, RunCancelled, LoadAwaited,
      RetryLoad, RetryAwaited, Decoded, DecodeFails, ReleaseBackend, Deliver, DeliverBlank,
      DeliverThrows, RunFailureShown, RunEnds
<1> QED
  BY <1>0, <1>1, <1>2, <1>3, <1>4 DEF Next, Cleanup, PressFinish, vars

(* A start that is over stays over.                                        *)
LEMMA StartsStay ==
    ASSUME TypeOK, [Next]_vars, NEW d \in Dictations, create[d].pc = "done"
    PROVE  create'[d].pc = "done"
<1> USE DEF coroutines
<1>1. ASSUME NEW e \in Dictations, CreateNext(e) PROVE create'[d].pc = "done"
  <2>1. create[e].pc # "done"
    BY <1>1
    DEF CreateNext, Create, ModelRequired, SettingsRead, PermissionResult, AcquireSession,
        AcquireSessionFails, DeclineSession, StartRecording, RecorderDenied
  <2>2. \E c : create' = [create EXCEPT ![e] = c]
    BY <1>1
    DEF CreateNext, Create, ModelRequired, SettingsRead, PermissionResult, AcquireSession,
        AcquireSessionFails, DeclineSession, StartRecording, RecorderDenied
  <2> QED
    BY <2>1, <2>2 DEF TypeOK
<1>2. ASSUME NEW u \in Dictations, CaptureNext(u) \/ RunNext(u) PROVE UNCHANGED create
  BY <1>2
  DEF CaptureNext, CaptureBegins, CaptureNeverBegins, CaptureCancelled, LoopEnds, Append,
      AppendAtLimit, KeepListening, VadStops, FinishFromCapture, Epilogue, CaptureCloses,
      RunNext, RunDispatched, RunNeverBegins, JoinRecorder, RunCancelled, LoadAwaited,
      RetryLoad, RetryAwaited, Decoded, DecodeFails, ReleaseBackend, Deliver, DeliverBlank,
      DeliverThrows, RunFailureShown, RunEnds
<1>3. ASSUME NEW l \in Loads, LoadNext(l) PROVE UNCHANGED create
  BY <1>3
  DEF LoadNext, LoadBegins, LoadCancelled, LoadSucceeds, LoadFails, LoadOutOfMemory, Publish,
      ReleaseUnpublished, StreamLoaded, LoadFailureShown
<1> QED
  BY <1>1, <1>2, <1>3 DEF Next, Cleanup, PressFinish, Reset, vars

(* The run of the dictation does not fail: it delivers its text before it  *)
(* cleans up, and gives back the session when it ends.                     *)
LEMMA SessionsRunMoves ==
    ASSUME Unfailing, RacesInv, [Next]_vars, ~Reset, ~Started, NEW u \in Dictations
    PROVE  /\ mod'[u].pc # "failMain"
           /\ u = session =>
                 /\ mod'[u].pc = "done" => session' = None
                 /\ mod'[u].pc = "cleanup" => mod[u].pc = "cleanup" \/ DeliversSession
                 /\ mod'[u].pc = "deliver" => mod[u].pc = "deliver" \/ ReleaseBackend(u)
<1> USE DEF control, mic, leases, runtimes, history, jobs, replay, coroutines
<1> DEFINE Goal == /\ mod'[u].pc # "failMain"
                   /\ u = session =>
                        /\ mod'[u].pc = "done" => session' = None
                        /\ mod'[u].pc = "cleanup" => mod[u].pc = "cleanup" \/ DeliversSession
                        /\ mod'[u].pc = "deliver" => mod[u].pc = "deliver" \/ ReleaseBackend(u)
<1>0. mod[u].pc # "failMain" /\ (u = session => mod[u].pc # "done" /\ ~mod[u].cancelled)
  BY RaceNames DEF RacesInv, RunsHeld
<1>1. UNCHANGED mod \/ OnFinishRecording => Goal
  BY <1>0, RaceNames, FinishDispatches
<1>2. ASSUME NEW d \in Dictations, CreateNext(d) \/ CaptureNext(d)
      PROVE  UNCHANGED mod \/ OnFinishRecording
  BY <1>2
  DEF CreateNext, Create, ModelRequired, SettingsRead, PermissionResult, AcquireSession,
      AcquireSessionFails, DeclineSession, StartRecording, RecorderDenied,
      CaptureNext, CaptureBegins, CaptureNeverBegins, CaptureCancelled, LoopEnds, Append,
      AppendAtLimit, KeepListening, VadStops, FinishFromCapture, Epilogue, CaptureCloses
<1>3. ASSUME NEW l \in Loads, LoadNext(l) PROVE UNCHANGED mod
  BY <1>3
  DEF LoadNext, LoadBegins, LoadCancelled, LoadSucceeds, LoadFails, LoadOutOfMemory, Publish,
      ReleaseUnpublished, StreamLoaded, LoadFailureShown
<1>4. ASSUME NEW v \in Dictations, RunNext(v) PROVE Goal
  <2>0. mod[v].pc \notin {"retry", "waitRetry", "failMain"}
    BY DEF RacesInv, RunsHeld
  <2>1. RunSteps(v)
    BY <1>4, <2>0, RaceNames, RunStep DEF Unfailing
  <2>2. CASE v # u
    BY <1>0, <2>1, <2>2 DEF RunSteps
  <2>3. ASSUME v = u, mod'[u].pc = "failMain" PROVE FALSE
    <3>1. mod[u].pc \in {"decoding", "deliver"}
      BY <2>1, <2>3 DEF RunSteps
    <3>2. \E pc \in {"cleanup", "releasing", "deliver"} :
             GoRun(u, pc) \/ mod' = [mod EXCEPT ![u].pc = pc]
      BY <1>4, <2>3, <3>1
      DEF Unfailing, RunNext, RunDispatched, RunNeverBegins, JoinRecorder, RunCancelled,
          LoadAwaited, RetryLoad, RetryAwaited, Decoded, DecodeFails, ReleaseBackend, Deliver,
          DeliverBlank, DeliverThrows, RunFailureShown, RunEnds
    <3>3. mod[u] \in RunStates /\ mod \in [Dictations -> RunStates]
      BY RaceNames DEF TypeOK
    <3> QED
      BY <2>3, <3>2, <3>3 DEF GoRun, RunStates
  <2>4. ASSUME v = u, u = session, mod'[u].pc = "done" PROVE session' = None
    <3>1. RunEnds(u)
      <4>1. CASE GoRun(u, "cleanup") \/ GoRun(u, "deliver") \/ GoRun(u, "failMain")
        BY <2>4, <4>1, RaceNames, RunGoesOn
      <4>2. CASE RunNeverBegins(u)
        BY <1>0, <2>4, <4>2 DEF RunNeverBegins
      <4>3. CASE RunDispatched(u) \/ JoinRecorder(u) \/ LoadAwaited(u) \/ Decoded(u)
        <5>1. mod[u].pc \notin {"cleanup"}
          BY <4>3 DEF RunDispatched, JoinRecorder, LoadAwaited, Decoded
        <5>2. \E pc \in RunPCs \ {"done"}, c \in RunStates :
                 /\ mod' = [mod EXCEPT ![u] = c] /\ c.pc = pc
          <6>0. mod[u] \in RunStates /\ mod \in [Dictations -> RunStates] /\ mod' \in [Dictations -> RunStates]
            BY RaceNames, TypeNext DEF TypeOK
          <6> QED
            BY <2>4, <4>3, <6>0
            DEF RunDispatched, RunModel, JoinRecorder, LoadAwaited, Decoded, GoRun, RunPCs, RunStates
        <5> QED
          BY <2>4, <5>2, RaceNames DEF TypeOK
      <4> QED
        BY <1>4, <2>0, <2>4, <4>1, <4>2, <4>3
        DEF Unfailing, RunNext, RunCancelled, RetryLoad, RetryAwaited, DecodeFails,
            ReleaseBackend, Deliver, DeliverBlank, DeliverThrows, RunFailureShown
    <3>2. ReleaseModelSession(mod[u].gen) /\ mod[u].pc = "cleanup"
      BY <3>1 DEF RunEnds
    <3>3. mod[u].gen = gen /\ create[u].gen = gen /\ session # None
      BY <2>4, <3>2, RaceNames DEF RacesInv, RunsHeld, FieldsInv, FieldsAreCurrent
    <3> QED
      BY <2>4, <3>2, <3>3 DEF ReleaseModelSession
  <2>5. ASSUME v = u, u = session, mod'[u].pc = "cleanup", mod[u].pc # "cleanup"
        PROVE  DeliversSession
    <3>0. stopReason # "Cancel" /\ session # None
      BY <2>5, RaceNames DEF RacesInv, OneAtATime
    <3>1. mod[u].pc \in {"waitLoad", "decoding", "deliver"} => mod[u].gen = gen
      BY <2>5 DEF RacesInv, RunsHeld
    <3>2. CASE LoadAwaited(u)
      <4> DEFINE next == IF BackendFor(gen) = None THEN "retry" ELSE "decoding"
      <4>1. \E r : mod' = [mod EXCEPT ![u].pc = next, ![u].waits = None, ![u].runtime = r]
        BY <1>0, <2>5, <3>0, <3>1, <3>2 DEF LoadAwaited, RunIsOver
      <4> HIDE DEF next
      <4>2. mod'[u].pc = next
        BY <4>1, RaceNames DEF TypeOK, RunStates
      <4> QED
        BY <2>5, <4>2 DEF next
    <3>3. CASE Decoded(u)
      <4>1. mod' = [mod EXCEPT ![u].pc = "releasing"] /\ mod[u] \in RunStates
        BY <3>1, <3>3, RaceNames DEF Decoded, TypeOK
      <4> QED
        BY <2>5, <4>1, RaceNames DEF TypeOK, RunStates
    <3>4. CASE Deliver(u)
      BY <2>5, <3>0, <3>1, <3>4 DEF Deliver, DeliversSession
    <3> QED
      <4>1. mod[u].pc \notin {"dispatched", "joining"}
        BY <2>1, <2>5 DEF RunSteps
      <4>2. ~GoRun(u, "deliver")
        BY <2>5, RaceNames, RunGoesOn
      <4> QED
        BY <1>0, <1>4, <2>0, <2>5, <3>2, <3>3, <3>4, <4>1, <4>2
        DEF Unfailing, RunNext, RunDispatched, RunNeverBegins, JoinRecorder, RunCancelled,
            RetryLoad, RetryAwaited, DecodeFails, ReleaseBackend, DeliverBlank, DeliverThrows,
            RunFailureShown, RunEnds
  <2>6. ASSUME v = u, u = session, mod'[u].pc = "deliver" PROVE ReleaseBackend(u)
    <3>1. mod[u].pc = "releasing"
      BY <2>1, <2>6 DEF RunSteps
    <3> QED
      BY <1>0, <1>4, <2>0, <2>6, <3>1
      DEF RunNext, RunDispatched, RunNeverBegins, JoinRecorder, RunCancelled, LoadAwaited,
          RetryLoad, RetryAwaited, Decoded, DecodeFails, Deliver, DeliverBlank, DeliverThrows,
          RunFailureShown, RunEnds
  <2> QED
    BY <2>2, <2>3, <2>4, <2>5, <2>6
<1> QED
  BY <1>1, <1>2, <1>3, <1>4 DEF Next, Cleanup, PressFinish, vars

-----------------------------------------------------------------------------
(* A step keeps the inductive invariant.                                   *)

(* The steps other than a start and a reset.                               *)
LEMMA RaceOrdinary ==
    ASSUME Unfailing, RacesInv, [Next]_vars, ~Reset, ~Started
    PROVE  /\ Ordinary /\ UNCHANGED <<gen, recorderJob, loadJob>>
           /\ \A u \in Dictations : cap[u].pc = "done" => cap'[u].pc = "done"
           /\ \A l \in Loads : load[l].pc = "done" => load'[l].pc = "done"
           /\ \A u \in Dictations :
                 /\ cap'[u].pc = "idle" <=> cap[u].pc = "idle"
                 /\ mod[u].pc = "done" => mod'[u].pc = "done"
           /\ session' # session =>
                 /\ session # None /\ session' = None /\ RunEnds(session)
                 /\ cap[session].pc = "done" /\ load[session].pc = "done"
                 /\ backend = None /\ lease = None /\ ~isRecording
                 /\ recorder = None /\ outcome[session] = "delivered"
                 /\ mod[session].pc = "cleanup" /\ mod'[session].pc = "done"
                 /\ modelJob = session
<1>1. Ordinary /\ UNCHANGED <<gen, recorderJob, loadJob>>
  BY RaceStep DEF Ordinary
<1>2. \A u \in Dictations : /\ cap[u].pc = "done" => cap'[u].pc = "done"
                            /\ cap'[u].pc = "idle" <=> cap[u].pc = "idle"
  BY <1>1 DEF Ordinary, CaptureSteps
<1>3. \A l \in Loads : load[l].pc = "done" => load'[l].pc = "done"
  BY <1>1 DEF Ordinary, LoadSteps
<1>4. \A u \in Dictations : mod[u].pc = "done" => mod'[u].pc = "done"
  <2>1. isRecording => session # None /\ mod[recorderJob].pc = "idle"
    BY DEF RacesInv, OneAtATime
  <2> QED
    BY <1>1, <2>1, RaceNames, FinishDispatches DEF Ordinary, RunSteps
<1>5. ASSUME session' # session
      PROVE  /\ session # None /\ session' = None /\ RunEnds(session)
             /\ cap[session].pc = "done" /\ load[session].pc = "done"
             /\ backend = None /\ lease = None /\ ~isRecording
             /\ recorder = None /\ outcome[session] = "delivered"
             /\ mod[session].pc = "cleanup" /\ mod'[session].pc = "done"
             /\ modelJob = session
  <2>1. session # None /\ session' = None /\ RunEnds(session)
    BY <1>5, SessionMoves
  <2>2. mod[session].pc = "cleanup" /\ mod' = [mod EXCEPT ![session] = Over]
    BY <2>1 DEF RunEnds
  <2>3. mod'[session].pc = "done"
    BY <2>1, <2>2, RaceNames DEF Over, TypeOK
  <2>4. /\ cap[session].pc = "done" /\ load[session].pc = "done"
        /\ backend = None /\ lease = None /\ ~isRecording
        /\ outcome[session] = "delivered" /\ modelJob = session
    BY <2>1, <2>2, RaceNames
    DEF RacesInv, RunsHeld, BackendWithSession, OneAtATime, OutcomesSettled
  <2>5. recorder = None
    BY <2>1, <2>4 DEF RacesInv, MicrophoneWithSession
  <2> QED
    BY <2>1, <2>2, <2>3, <2>4, <2>5
<1> QED
  BY <1>1, <1>2, <1>3, <1>4, <1>5

(* A step keeps the starts that are pending without a trace: the dictation *)
(* of a start that records is over as a start.                             *)
LEMMA PendingStep ==
    ASSUME Unfailing, RacesInv, [Next]_vars
    PROVE  PendingBlank'
<1>0. PendingBlank
  BY DEF RacesInv
<1>1. ASSUME NEW d \in Dictations, StartRecording(d) PROVE PendingBlank'
  BY <1>0, <1>1, RaceNames, StartFindsNone DEF PendingBlank
<1>2. CASE Reset
  <2>1. UNCHANGED create /\ \A u \in Dictations : u # recorderJob => outcome'[u] = outcome[u]
    BY <1>2, RaceNames DEF Reset, TypeOK
  <2>2. \A u \in Dictations : cap[u].pc = "idle" => u # recorderJob
    BY DEF RacesInv, CapturesHeld
  <2> QED
    BY <1>0, <1>2, <2>1, <2>2, RaceNames, ResetCancels DEF PendingBlank
<1>3. CASE ~Reset /\ ~Started
  <2>1. Ordinary /\ \A u \in Dictations : cap'[u].pc = "idle" <=> cap[u].pc = "idle"
    BY <1>3, RaceOrdinary
  <2>2. \A d \in Dictations : create'[d].pc # "done" => create[d].pc # "done"
    BY RaceNames, StartsStay
  <2>3. ASSUME NEW u \in Dictations, cap[u].pc = "idle"
        PROVE  mod'[u].pc = "idle" /\ load'[u].pc = "idle" /\ outcome'[u] = "none"
    <3>1. mod[u].pc = "idle" /\ load[u].pc = "idle" /\ outcome[u] = "none" /\ u # recorderJob
      BY <1>0, <2>3 DEF PendingBlank, RacesInv, CapturesHeld
    <3>2. mod'[u].pc = "idle"
      BY <2>1, <3>1, RaceNames, FinishDispatches DEF Ordinary, RunSteps
    <3>3. load'[u].pc = "idle"
      BY <2>1, <3>1, RaceNames DEF Ordinary, LoadSteps
    <3>4. outcome'[u] = "none"
      BY <1>3, <3>1, RaceNames, ScreenMoves DEF DeliversSession, TypeOK
    <3> QED
      BY <3>2, <3>3, <3>4
  <2> QED
    BY <1>0, <2>1, <2>2, <2>3 DEF PendingBlank
<1> QED
  BY <1>1, <1>2, <1>3 DEF Started

(* A step keeps one dictation at a time: a start finds none, a reset and   *)
(* the end of a run leave none.                                            *)
LEMMA OneStep ==
    ASSUME Unfailing, RacesInv, [Next]_vars
    PROVE  OneAtATime'
<1>0. OneAtATime
  BY DEF RacesInv
<1>1. ASSUME NEW d \in Dictations, StartRecording(d) PROVE OneAtATime'
  BY <1>0, <1>1, RaceNames, StartFindsNone DEF OneAtATime
<1>2. CASE Reset
  BY <1>0, <1>2, RaceNames, ResetCancels DEF OneAtATime
<1>3. CASE ~Reset /\ ~Started
  <2>0. Ordinary /\ UNCHANGED <<recorderJob, loadJob>>
    BY <1>3, RaceOrdinary
  <2>1. isRecording' = isRecording \/ (isRecording /\ OnFinishRecording)
    BY <1>3, ScreenMoves
  <2>2. CASE session' # session
    <3>1. /\ session' = None /\ backend = None /\ lease = None /\ ~isRecording
          /\ RunEnds(session) /\ modelJob = session /\ mod'[session].pc = "done"
      BY <1>3, <2>2, RaceOrdinary
    <3>2. backend' = None /\ lease' = None /\ modelJob' = modelJob
      BY <3>1 DEF RunEnds, jobs
    <3> QED
      BY <1>0, <2>0, <2>1, <3>1, <3>2 DEF OneAtATime
  <2>3. CASE session' = session /\ session = None
    <3>1. ~isRecording /\ backend = None /\ lease = None
      BY <1>0, <2>3 DEF OneAtATime
    <3>2. backend' = None /\ lease' = None
      <4>1. ASSUME NEW l \in Loads, Publish(l) PROVE FALSE
        BY <2>3, <4>1, RaceNames, SessionsLoad DEF Publish
      <4> QED
        BY <2>0, <3>1, <4>1 DEF Ordinary
    <3>3. modelJob' = modelJob /\ (modelJob # None => mod'[modelJob].pc = "done")
      <4>1. modelJob' = modelJob
        BY <2>0, <3>1 DEF Ordinary
      <4> QED
        BY <1>0, <1>3, <2>3, <4>1, RaceNames, RaceOrdinary DEF OneAtATime
    <3> QED
      BY <1>0, <2>0, <2>1, <2>3, <3>1, <3>2, <3>3 DEF OneAtATime
  <2>4. CASE session' = session /\ session # None
    <3>0. session \in Dictations /\ recorderJob = session /\ stopReason' # "Cancel"
      BY <1>3, <2>4, RaceNames, ScreenMoves
    <3>1. CASE isRecording /\ OnFinishRecording
      BY <1>0, <2>0, <2>4, <3>0, <3>1, RaceNames, FinishDispatches DEF OneAtATime
    <3>2. CASE ~(isRecording /\ OnFinishRecording)
      <4>1. isRecording' = isRecording /\ modelJob' = modelJob
        BY <2>0, <2>1, <3>2 DEF Ordinary
      <4>2. mod'[session].pc = "idle" <=> mod[session].pc = "idle"
        BY <2>0, <3>0, <3>2 DEF Ordinary, RunSteps
      <4>3. modelJob # None /\ modelJob # session => mod'[modelJob].pc = "done"
        BY <1>0, <1>3, RaceNames, RaceOrdinary DEF OneAtATime
      <4> QED
        BY <1>0, <2>0, <2>4, <3>0, <4>1, <4>2, <4>3 DEF OneAtATime
    <3> QED
      BY <3>1, <3>2
  <2> QED
    BY <2>2, <2>3, <2>4
<1> QED
  BY <1>1, <1>2, <1>3 DEF Started

(* Every capture that is under way remains that of the dictation or a      *)
(* cancelled one.                                                          *)
LEMMA CapturesRace ==
    ASSUME Unfailing, RacesInv, [Next]_vars
    PROVE  CapturesHeld'
<1>0. CapturesHeld
  BY DEF RacesInv
<1>1. ASSUME NEW d \in Dictations, StartRecording(d) PROVE CapturesHeld'
  BY <1>0, <1>1, RaceNames, StartFindsNone DEF CapturesHeld
<1>2. CASE Reset
  <2> SUFFICES ASSUME NEW u \in Dictations
               PROVE  /\ cap'[u].cancelled => cap'[u].pc \notin {"idle", "done"}
                      /\ cap'[u].pc \notin {"idle", "done"} => cap'[u].cancelled
    BY <1>2, RaceNames, ResetCancels DEF CapturesHeld
  <2>1. /\ cap'[u].pc = cap[u].pc
        /\ cap'[u].cancelled <=> \/ cap[u].cancelled
                                 \/ u = recorderJob /\ cap[u].pc # "done"
    BY <1>2, RaceNames, ResetCancels
  <2> QED
    BY <1>0, <2>1, RaceNames DEF CapturesHeld
<1>3. CASE ~Reset /\ ~Started
  <2>1. /\ Ordinary /\ UNCHANGED recorderJob
        /\ session' # session => cap[session].pc = "done"
    BY <1>3, RaceOrdinary
  <2> QED
    BY <1>0, <2>1, RaceNames DEF CapturesHeld, Ordinary, CaptureSteps
<1> QED
  BY <1>1, <1>2, <1>3 DEF Started

(* Every load that is under way remains that of the dictation, or one of an*)
(* older generation.                                                       *)
LEMMA LoadsRace ==
    ASSUME Unfailing, RacesInv, [Next]_vars
    PROVE  LoadsHeld'
<1>0. /\ LoadsHeld
      /\ \A d \in Dictations : RetryOf(d) \in Loads /\ RetryOf(d) \notin Dictations
  BY ConstantsAssumption, LoadNames DEF RacesInv, Dictations, RetryOf
<1>a. \A l \in Loads : load'[l].pc \notin {"published", "failed"}
  BY LoadsSucceed
<1>1. ASSUME NEW d \in Dictations, StartRecording(d) PROVE LoadsHeld'
  BY <1>0, <1>a, <1>1, RaceNames, StartFindsNone DEF LoadsHeld
<1>2. CASE Reset
  <2>1. /\ recorderJob' = None /\ session' = None /\ gen' = gen + 1
        /\ \A l \in Loads : load'[l].pc = load[l].pc /\ load'[l].gen = load[l].gen
    BY <1>2, RaceNames, ResetCancels
  <2>2. ASSUME NEW d \in Dictations
        PROVE  /\ load'[d].cancelled => load'[d].pc \notin {"idle", "done"}
               /\ load'[d].pc \notin {"idle", "done"} => load'[d].cancelled
               /\ load'[d].pc \notin {"idle", "dispatched", "done"} => load'[d].gen < gen'
    <3>1. load'[d].cancelled <=> load[d].cancelled \/ (d = recorderJob /\ load[d].pc # "done")
      BY <1>2, RaceNames, ResetCancels DEF RacesInv, OneAtATime
    <3> QED
      BY <1>0, <2>1, <3>1, RaceNames DEF LoadsHeld
  <2> QED
    BY <1>0, <1>a, <2>1, <2>2, RaceNames DEF LoadsHeld
<1>3. CASE ~Reset /\ ~Started
  <2>1. /\ Ordinary /\ UNCHANGED <<recorderJob, gen>>
        /\ session' # session => load[session].pc = "done"
    BY <1>3, RaceOrdinary
  <2> QED
    BY <1>0, <1>a, <2>1, RaceNames DEF LoadsHeld, Ordinary, LoadSteps
<1> QED
  BY <1>1, <1>2, <1>3 DEF Started

(* Every run that is under way remains that of the dictation, or one that a*)
(* reset has cancelled.                                                    *)
LEMMA RunsRace ==
    ASSUME Unfailing, RacesInv, [Next]_vars
    PROVE  RunsHeld'
<1>0. RunsHeld
  BY DEF RacesInv
<1>1. ASSUME NEW d \in Dictations, StartRecording(d) PROVE RunsHeld'
  BY <1>0, <1>1, RaceNames, StartFindsNone DEF RunsHeld
<1>2. CASE Reset
  <2> SUFFICES ASSUME NEW u \in Dictations
               PROVE  /\ mod'[u].pc \notin {"retry", "waitRetry", "failMain"}
                      /\ mod'[u].cancelled => mod'[u].pc \notin {"idle", "done"}
                      /\ mod'[u].pc \notin {"idle", "done"} => mod'[u].cancelled
                      /\ mod'[u].pc \notin {"idle", "dispatched", "joining", "done"} =>
                            mod'[u].gen < gen'
                      /\ mod'[u].runtime # None => mod'[u].pc \in {"decoding", "releasing"}
                      /\ mod'[u].pc \in {"decoding", "releasing"} => mod'[u].runtime = u
    BY <1>2, RaceNames, ResetCancels DEF RunsHeld
  <2>1. /\ gen' = gen + 1
        /\ mod'[u].pc = mod[u].pc /\ mod'[u].gen = mod[u].gen /\ mod'[u].runtime = mod[u].runtime
        /\ mod'[u].cancelled <=> \/ mod[u].cancelled
                                 \/ u = modelJob /\ mod[u].pc # "done"
    BY <1>2, RaceNames, ResetCancels
  <2>2. u = modelJob /\ mod[u].pc # "done" => u = session /\ mod[u].pc # "idle"
    BY RaceNames DEF RacesInv, OneAtATime
  <2>3. u = session /\ mod[u].pc # "idle" => u = modelJob
    BY RaceNames DEF RacesInv, OneAtATime
  <2> QED
    BY <1>0, <2>1, <2>2, <2>3, RaceNames DEF RunsHeld
<1>3. CASE ~Reset /\ ~Started
  <2>0. /\ Ordinary /\ UNCHANGED <<recorderJob, loadJob, gen>>
        /\ session' \in {session, None}
        /\ \A u \in Dictations : cap[u].pc = "done" => cap'[u].pc = "done"
        /\ \A u \in Dictations : load[u].pc = "done" => load'[u].pc = "done"
    BY <1>3, RaceNames, RaceOrdinary
  <2>a. \A u \in Dictations :
           /\ mod'[u].pc # "failMain"
           /\ u = session => /\ mod'[u].pc = "done" => session' = None
                             /\ mod'[u].pc = "cleanup" => mod[u].pc = "cleanup" \/ DeliversSession
    BY <1>3, SessionsRunMoves
  <2>1. ASSUME session' # session PROVE mod'[session].pc = "done" /\ session' = None
    BY <1>3, <2>1, RaceOrdinary
  <2> DEFINE Held(u) ==
               /\ mod[u].pc \notin {"retry", "waitRetry", "failMain"}
               /\ mod[u].cancelled => mod[u].pc \notin {"idle", "done"} /\ u # recorderJob
               /\ mod[u].pc \notin {"idle", "done"} => mod[u].cancelled \/ u = session
               /\ u = session => mod[u].pc # "done"
               /\ mod[u].pc \notin {"idle", "dispatched", "joining", "done"} =>
                     IF u = session THEN mod[u].gen = gen /\ cap[u].pc = "done"
                     ELSE mod[u].gen < gen
               /\ u = session /\ mod[u].pc \in {"joining", "waitLoad"} => mod[u].waits = u
               /\ mod[u].runtime # None => mod[u].pc \in {"decoding", "releasing"}
               /\ mod[u].pc \in {"decoding", "releasing"} => mod[u].runtime = u
               /\ u = session /\ mod[u].pc \in {"decoding", "releasing", "deliver", "cleanup"} =>
                     load[u].pc = "done"
  <2>b. \A u \in Dictations : Held(u)
    BY <1>0 DEF RunsHeld
  <2>2. ASSUME NEW u \in Dictations, mod'[u] = mod[u] PROVE Held(u)'
    BY <2>0, <2>a, <2>b, <2>1, <2>2, RaceNames
  <2>3. ASSUME NEW u \in Dictations, OnFinishRecording, isRecording PROVE Held(u)'
    <3>1. session # None /\ recorderJob = session /\ mod[session].pc = "idle"
      BY <2>3 DEF RacesInv, OneAtATime
    <3>2. session' = session
      <4>1. mod'[session].pc = "dispatched"
        BY <2>3, <3>1, RaceNames, FinishDispatches
      <4> QED
        BY <2>1, <4>1
    <3>3. CASE u = recorderJob
      BY <2>0, <2>b, <2>3, <3>1, <3>2, <3>3, RaceNames, FinishDispatches
    <3>4. CASE u # recorderJob
      BY <2>2, <2>3, <3>4, RaceNames, FinishDispatches
    <3> QED
      BY <3>3, <3>4
  <2>4. ASSUME NEW u \in Dictations, RunSteps(u) PROVE Held(u)'
    <3>1. /\ mod[u].pc \in {"waitLoad", "decoding", "releasing", "deliver", "cleanup"}
                /\ mod[u].gen = gen => u = session
          /\ u = session => ~mod[u].cancelled /\ u # None /\ recorderJob = u /\ loadJob = u
          /\ ~mod[u].cancelled => u = session
      BY <2>b, <2>4, RaceNames, SessionsRun DEF RunSteps, RacesInv, OneAtATime
    <3>2. /\ mod[u].pc \in {"waitLoad", "decoding"} /\ mod[u].gen = gen =>
                u = session
      BY <3>1
    <3>3. mod'[u].pc # "retry"
      <4> SUFFICES ASSUME mod'[u].pc = "retry" PROVE FALSE
        OBVIOUS
      <4>1. mod[u].pc = "waitLoad" /\ u = session /\ Awaited(u) /\ BackendFor(gen) = None
        BY <2>4, <3>2 DEF RunSteps
      <4>2. mod[u].waits = u /\ load[u].pc = "done"
        BY <2>b, <4>1, RaceNames DEF Awaited
      <4>3. backend = u /\ u # None
        BY <4>1, <4>2, RaceNames DEF RacesInv, BackendWithSession
      <4> QED
        BY <4>1, <4>3, RaceNames DEF BackendFor, FieldsInv, FieldsAreCurrent
    <3>4. mod'[u].pc = "decoding" =>
             u = session /\ load[u].pc = "done" /\ mod'[u].runtime = u
      <4> SUFFICES ASSUME mod'[u].pc = "decoding"
                   PROVE  u = session /\ load[u].pc = "done" /\ mod'[u].runtime = u
        OBVIOUS
      <4>1. mod[u].pc = "waitLoad" /\ u = session /\ Awaited(u) /\ mod'[u].runtime = backend
        BY <2>4, <3>2 DEF RunSteps
      <4>2. load[u].pc = "done"
        BY <2>b, <4>1, RaceNames DEF Awaited
      <4>3. backend = u
        BY <4>1, <4>2, RaceNames DEF RacesInv, BackendWithSession
      <4> QED
        BY <4>1, <4>2, <4>3
    <3>5. mod'[u].pc \in {"joining", "waitLoad"} => u = session /\ mod'[u].waits = u
      BY <2>4, <3>1 DEF RunSteps
    <3>6. mod'[u].pc = "waitLoad" => mod'[u].gen = gen /\ cap[u].pc = "done"
      BY <2>4, <2>b, <3>1, <3>5, RaceNames DEF RunSteps
    <3>7. mod'[u].pc \notin {"joining", "waitLoad", "done"} =>
             mod'[u].gen = mod[u].gen
             /\ mod[u].pc \notin {"idle", "dispatched", "joining", "done"}
      BY <2>4 DEF RunSteps
    <3>8. /\ mod'[u].pc \in {"decoding", "releasing"} => mod'[u].runtime = u
          /\ mod'[u].pc \notin {"decoding", "releasing"} => mod'[u].runtime = None
      BY <2>4, <2>b, <3>4 DEF RunSteps
    <3>9. u = session /\ mod'[u].pc \in {"releasing", "deliver", "cleanup"} =>
             load[u].pc = "done"
      BY <2>4, <2>a, <2>b DEF RunSteps, DeliversSession
    <3>10. session' # session => session' = None /\ (u = session => mod'[u].pc = "done")
      BY <2>1
    <3>11. mod'[u].pc \notin {"idle", "dispatched", "retry", "waitRetry", "failMain"}
      BY <2>4, <2>a, <3>3 DEF RunSteps
    <3>12. /\ mod'[u].pc = "done" => ~mod'[u].cancelled
           /\ mod'[u].pc # "done" => mod'[u].cancelled = mod[u].cancelled
      BY <2>4 DEF RunSteps
    <3>13. /\ mod'[u].cancelled => mod'[u].pc \notin {"idle", "done"} /\ u # recorderJob'
           /\ mod'[u].pc \notin {"idle", "done"} => mod'[u].cancelled \/ u = session'
           /\ u = session' => mod'[u].pc # "done"
      BY <2>0, <2>a, <2>b, <3>1, <3>10, <3>11, <3>12, RaceNames
    <3>14. mod'[u].pc \notin {"idle", "dispatched", "joining", "done"} =>
              IF u = session' THEN mod'[u].gen = gen' /\ cap'[u].pc = "done"
              ELSE mod'[u].gen < gen'
      <4>1. mod[u].pc \notin {"idle", "dispatched", "joining", "done"} =>
               IF u = session THEN mod[u].gen = gen /\ cap[u].pc = "done" ELSE mod[u].gen < gen
        BY <2>b
      <4>2. CASE session' = session
        BY <2>0, <3>5, <3>6, <3>7, <4>1, <4>2
      <4>3. CASE session' # session
        BY <2>0, <3>5, <3>7, <3>10, <4>1, <4>3, RaceNames
      <4> QED
        BY <4>2, <4>3
    <3>15. /\ u = session' /\ mod'[u].pc \in {"joining", "waitLoad"} => mod'[u].waits = u
           /\ u = session' /\ mod'[u].pc \in {"decoding", "releasing", "deliver", "cleanup"} =>
                 load'[u].pc = "done"
      BY <2>0, <3>4, <3>5, <3>9, RaceNames
    <3> QED
      BY <3>8, <3>11, <3>13, <3>14, <3>15
  <2> HIDE DEF Held
  <2>5. \A u \in Dictations : Held(u)'
    BY <2>0, <2>2, <2>3, <2>4 DEF Ordinary, RunSteps
  <2> QED
    BY <2>5 DEF Held, RunsHeld
<1> QED
  BY <1>1, <1>2, <1>3 DEF Started

(* A step keeps the recorder with the dictation: a capture that ends takes *)
(* its own recorder along.                                                 *)
LEMMA MicrophoneRace ==
    ASSUME Unfailing, RacesInv, [Next]_vars
    PROVE  MicrophoneWithSession'
<1>0. MicrophoneWithSession
  BY DEF RacesInv
<1>1. ASSUME NEW d \in Dictations, StartRecording(d) PROVE MicrophoneWithSession'
  <2>1. micOn \subseteq {}
    BY <1>0, <1>1, RaceNames, StartFindsNone DEF MicrophoneWithSession, TypeOK
  <2> QED
    BY <1>1, <2>1, RaceNames, StartFindsNone DEF MicrophoneWithSession
<1>2. CASE Reset
  <2>1. recorder' = None /\ micOn' \subseteq {}
    BY <1>0, <1>2, RaceNames
    DEF Reset, StopAndReleaseRecorder, MicrophoneWithSession, mic, TypeOK
  <2> QED
    BY <2>1 DEF MicrophoneWithSession
<1>3. CASE ~Reset /\ ~Started
  <2>1. session' # session => recorder = None
    BY <1>3, RaceOrdinary
  <2>2. recorder # None => recorder = session /\ ~cap[recorder].cancelled
    BY <1>0, RaceNames DEF MicrophoneWithSession, RacesInv, CapturesHeld
  <2>3. CASE UNCHANGED mic
    BY <1>0, <1>3, <2>1, <2>2, <2>3, RaceNames, MicrophoneMoves DEF MicrophoneWithSession, mic
  <2>4. CASE recorder' = None /\ micOn' = micOn \ {recorder}
    BY <1>0, <2>4 DEF MicrophoneWithSession
  <2> QED
    BY <1>3, <2>3, <2>4, RaceNames, MicrophoneMoves
<1> QED
  BY <1>1, <1>2, <1>3 DEF Started

(* What a cleanup will release was loaded for a generation that has ended. *)
LEMMA CleanupsRelease ==
    ASSUME RacesInv, NEW g \in Generations, clean[g].runtime # None
    PROVE  load[clean[g].runtime].gen = g /\ g < gen /\ g # gen
<1>1. load[clean[g].runtime].gen = g /\ g < gen
  BY DEF RacesInv, CleanupsPast, NothingDue
<1>2. g \in Nat
  BY ConstantsAssumption DEF Generations
<1> QED
  BY <1>1, <1>2, RaceNames

(* What is loaded for the dictation stays loaded until its run releases it.*)
LEMMA SessionsRuntimeStays ==
    ASSUME Unfailing, RacesInv, [Next]_vars, ~Reset, ~Started,
           session # None, session \in live, load[session].gen = gen, ~ReleaseBackend(session)
    PROVE  session \in live'
<1>0. session \in Dictations
  BY RaceNames
<1>1. ASSUME NEW l \in Loads, LoadSucceeds(l) \/ Publish(l) \/ ReleaseUnpublished(l)
      PROVE  session \in live'
  BY <1>1 DEF LoadSucceeds, Publish, ReleaseUnpublished
<1>2. ASSUME NEW u \in Dictations, ReleaseBackend(u) PROVE session \in live'
  BY <1>0, <1>2 DEF ReleaseBackend, RacesInv, RunsHeld
<1>3. ASSUME NEW u \in Dictations, RunEnds(u) PROVE session \in live'
  <2>1. /\ mod[u].pc = "cleanup"
        /\ live' = live \/ (live' = live \ {lease} /\ lease # None
                                                  /\ load[lease].gen = mod[u].gen)
    BY <1>3 DEF RunEnds
  <2>2. lease \in {None, session}
    BY DEF RacesInv, BackendWithSession
  <2>3. mod[u].gen = gen => lease = None
    BY <1>0, <2>1, SessionsRun DEF RacesInv, BackendWithSession
  <2> QED
    BY <2>1, <2>2, <2>3
<1>4. ASSUME NEW g \in Generations, Cleanup(g) PROVE session \in live'
  <2>1. clean[g].runtime # session
    BY CleanupsRelease
  <2> QED
    BY <1>4, <2>1 DEF Cleanup
<1>5. CASE OtherMoves
  BY <1>5 DEF OtherMoves, runtimes
<1> QED
  BY <1>1, <1>2, <1>3, <1>4, <1>5, RaceMovesStep DEF RaceMoves

(* A step keeps the published backend with the dictation: no older load,   *)
(* run or cleanup touches it.                                              *)
LEMMA BackendRace ==
    ASSUME Unfailing, RacesInv, [Next]_vars
    PROVE  BackendWithSession'
<1>0. BackendWithSession
  BY DEF RacesInv
<1>1. ASSUME NEW d \in Dictations, StartRecording(d) PROVE BackendWithSession'
  <2>1. UNCHANGED runtimes
    BY <1>1, StartFindsNone
  <2> QED
    BY <1>1, <2>1, RaceNames, StartFindsNone DEF BackendWithSession, runtimes
<1>2. CASE Reset
  BY <1>2, RaceNames, ResetCancels DEF BackendWithSession
<1>3. CASE ~Reset /\ ~Started
  <2>0. /\ Ordinary /\ RaceMoves /\ UNCHANGED gen
        /\ session' # session => session' = None /\ backend = None /\ lease = None
                                 /\ RunEnds(session)
        /\ \A l \in Loads : load[l].pc = "done" => load'[l].pc = "done"
    BY <1>3, RaceOrdinary, RaceMovesStep
  <2>1. /\ backend \in {None, session} /\ lease \in {None, backend}
        /\ backend # None => load[backend].gen = gen
        /\ lease # None => load[lease].gen = gen
    BY <1>0, RaceNames DEF BackendWithSession, FieldsInv, FieldsAreCurrent
  <2>2. ASSUME NEW u \in Dictations, ReleaseBackend(u)
        PROVE  IF u = session THEN backend' = None /\ lease' = None
               ELSE UNCHANGED <<backend, lease>>
    <3>1. /\ lease' = IF lease # None /\ load[lease].gen = mod[u].gen THEN None ELSE lease
          /\ backend' = IF BackendFor(mod[u].gen) = mod[u].runtime THEN None ELSE backend
          /\ mod[u].pc = "releasing"
      BY <2>2 DEF ReleaseBackend
    <3>2. /\ mod[u].runtime = u /\ u # None
          /\ mod[u].gen = gen <=> u = session
          /\ u = session => load[u].pc = "done"
      BY <3>1, RaceNames, SessionsRun DEF RacesInv, RunsHeld
    <3>3. CASE u = session
      <4>1. backend = u
        BY <1>0, <3>1, <3>2, <3>3 DEF BackendWithSession
      <4> QED
        BY <2>1, <3>1, <3>2, <3>3, <4>1 DEF BackendFor
    <3>4. CASE u # session
      BY <2>1, <3>1, <3>2, <3>4 DEF BackendFor
    <3> QED
      BY <3>3, <3>4
  <2>3. ASSUME NEW l \in Loads, Publish(l)
        PROVE  l = session /\ backend' = l /\ lease' \in {l, lease} /\ load[l].pc = "publish"
    BY <2>3, SessionsLoad DEF Publish
  <2>4. \/ \E u \in Dictations : ReleaseBackend(u)
        \/ \E l \in Loads : Publish(l)
        \/ backend' = backend /\ lease' \in {None, lease}
    BY <2>0
    DEF RaceMoves, LoadSucceeds, ReleaseUnpublished, RunEnds, Cleanup, OtherMoves, runtimes
  <2>5. CASE session' # session
    <3>1. UNCHANGED backend /\ lease' = None
      BY <2>0, <2>5 DEF RunEnds
    <3> QED
      BY <2>0, <2>5, <3>1 DEF BackendWithSession
  <2>6. CASE session' = session
    <3>1. backend' \in {None, session'} /\ lease' \in {None, backend'}
      BY <2>1, <2>2, <2>3, <2>4, <2>6
    <3>2. CASE session = None
      BY <2>6, <3>1, <3>2 DEF BackendWithSession
    <3>3. ASSUME session # None, NEW u \in Dictations, u = session
          PROVE  /\ load'[u].pc = "publish" => u \in live'
                 /\ load'[u].pc = "done" /\ mod'[u].pc \notin {"deliver", "cleanup"} =>
                       backend' = u /\ u \in live'
                 /\ mod'[u].pc \in {"deliver", "cleanup"} => backend' = None
      <4>0. /\ load[u].pc = "publish" => u \in live /\ load[u].gen = gen
            /\ load[u].pc = "done" /\ mod[u].pc \notin {"deliver", "cleanup"} =>
                  backend = u /\ u \in live
            /\ mod[u].pc \in {"deliver", "cleanup"} => backend = None /\ load[u].pc = "done"
            /\ mod[u].pc \in {"decoding", "releasing"} => load[u].pc = "done"
        BY <1>0, <3>3, RaceNames DEF BackendWithSession, RacesInv, RunsHeld, LoadsHeld
      <4>1. ASSUME load'[u].pc = "publish" PROVE u \in live'
        <5>1. CASE LoadSucceeds(u)
          BY <5>1 DEF LoadSucceeds
        <5>2. CASE ~LoadSucceeds(u)
          <6>1. load[u].pc = "publish"
            <7>1. ASSUME NEW l \in Loads, LoadSucceeds(l) PROVE load'[u] = load[u]
              BY <5>2, <7>1, RaceNames, LoadGoesOn DEF LoadSucceeds
            <7>2. ASSUME NEW l \in Loads, Publish(l) \/ ReleaseUnpublished(l)
                  PROVE  load[u].pc = "publish"
              BY <7>2, <4>1, RaceNames, LoadGoesHome DEF Unfailing, Publish, ReleaseUnpublished
            <7> QED
              BY <2>0, <4>1, <7>1, <7>2, RaceNames
              DEF RaceMoves, OtherMoves, ReleaseBackend, RunEnds, Cleanup
          <6>2. ~ReleaseBackend(u)
            BY <4>0, <6>1 DEF ReleaseBackend
          <6> QED
            BY <1>3, <3>3, <4>0, <6>1, <6>2, SessionsRuntimeStays
        <5> QED
          BY <5>1, <5>2
      <4>2. ASSUME load'[u].pc = "done", mod'[u].pc \notin {"deliver", "cleanup"}
            PROVE  backend' = u /\ u \in live'
        <5>0. ~ReleaseBackend(u)
          BY <4>2, RaceNames, RunGoesOn DEF ReleaseBackend
        <5>1. CASE Publish(u)
          BY <4>0, <5>1 DEF Publish
        <5>2. CASE ~Publish(u)
          <6>1. load[u].pc = "done"
            <7>1. ASSUME NEW l \in Loads, LoadSucceeds(l) PROVE load[u].pc = "done"
              BY <4>2, <7>1, RaceNames, LoadGoesOn DEF LoadSucceeds
            <7>2. ASSUME NEW l \in Loads, Publish(l) PROVE FALSE
              BY <2>3, <3>3, <5>2, <7>2
            <7>3. ASSUME NEW l \in Loads, ReleaseUnpublished(l) PROVE load[u].pc = "done"
              <8>1. l # u /\ LoadEnds(l)
                BY <3>3, <7>3, SessionsLoad DEF ReleaseUnpublished
              <8> QED
                BY <4>2, <8>1, RaceNames, LoadGoesHome
            <7> QED
              BY <2>0, <3>3, <4>2, <7>1, <7>2, <7>3, RaceNames
              DEF RaceMoves, OtherMoves, ReleaseBackend, RunEnds, Cleanup
          <6>2. mod[u].pc \notin {"deliver", "cleanup"}
            <7>1. mod[u].pc \in {"deliver", "cleanup"} => ~isRecording
              BY <3>3 DEF RacesInv, OneAtATime
            <7>2. mod'[u].pc # "done"
              BY <1>3, <2>6, <3>3, SessionsRunMoves
            <7>3. CASE UNCHANGED mod
              BY <4>2, <7>3
            <7>4. ASSUME NEW v \in Dictations, RunSteps(v)
                  PROVE  mod[u].pc \notin {"deliver", "cleanup"}
              <8>1. mod'[u].pc \in RunPCs /\ mod'[u].pc # "failMain"
                BY <1>3, RaceNames, TypeNext, SessionsRunMoves DEF TypeOK, RunStates
              <8> QED
                BY <4>2, <7>2, <7>4, <8>1 DEF RunSteps, RunPCs
            <7> QED
              BY <2>0, <7>1, <7>3, <7>4 DEF Ordinary
          <6>3. backend = u /\ u \in live
            BY <4>0, <6>1, <6>2
          <6>4. backend' = backend
            BY <2>2, <2>3, <2>4, <3>3, <5>0, <5>2
          <6> QED
            BY <1>3, <2>1, <3>3, <5>0, <6>3, <6>4, SessionsRuntimeStays
        <5> QED
          BY <5>1, <5>2
      <4>3. ASSUME mod'[u].pc \in {"deliver", "cleanup"} PROVE backend' = None
        <5>1. CASE ReleaseBackend(u)
          BY <2>2, <3>3, <5>1
        <5>2. CASE ~ReleaseBackend(u)
          <6>1. mod[u].pc \in {"deliver", "cleanup"}
            BY <1>3, <3>3, <4>3, <5>2, SessionsRunMoves DEF DeliversSession
          <6> QED
            BY <2>2, <2>3, <2>4, <3>3, <4>0, <5>2, <6>1
        <5> QED
          BY <5>1, <5>2
      <4> QED
        BY <4>1, <4>2, <4>3
    <3> QED
      BY <2>6, <3>1, <3>2, <3>3, RaceNames DEF BackendWithSession
  <2> QED
    BY <2>5, <2>6
<1> QED
  BY <1>1, <1>2, <1>3 DEF Started

-----------------------------------------------------------------------------
(* The cleanups, the runs they wait for and the outcomes.                  *)

(* A step keeps what the cleanups hold: it belongs to a dictation of their *)
(* generation, which has ended.                                            *)
LEMMA CleanupsRace ==
    ASSUME Unfailing, RacesInv, [Next]_vars
    PROVE  CleanupsPast'
<1>0. /\ CleanupsPast
      /\ \A g \in Generations : clean[g].runtime \in Loads \cup {None} /\ g \in Nat
  BY ConstantsAssumption, RaceNames DEF RacesInv, TypeOK, CleanupStates, Generations
<1> DEFINE Past(g) == \/ clean[g] = NothingDue
                      \/ /\ clean[g].due /\ g < gen
                         /\ clean[g].runtime # None =>
                               /\ load[clean[g].runtime].gen = g
                               /\ load[clean[g].runtime].pc \notin {"idle", "dispatched"}
<1>1. ASSUME NEW d \in Dictations, StartRecording(d) PROVE CleanupsPast'
  <2> SUFFICES ASSUME NEW g \in Generations PROVE Past(g)'
    BY DEF CleanupsPast
  <2>1. Past(g)
    BY <1>0 DEF CleanupsPast
  <2> QED
    BY <1>0, <1>1, <2>1, RaceNames, StartFindsNone
<1>2. CASE Reset
  <2>0. /\ gen' = gen + 1
        /\ \A l \in Loads : load'[l].pc = load[l].pc /\ load'[l].gen = load[l].gen
    BY <1>2, RaceNames, ResetCancels
  <2>1. ASSUME NEW g \in Generations, g # gen PROVE Past(g)'
    <3>1. clean'[g] = clean[g]
      BY <1>2, <2>1, RaceNames DEF Reset, TypeOK
    <3>2. Past(g)
      BY <1>0 DEF CleanupsPast
    <3> QED
      BY <1>0, <2>0, <3>1, <3>2, RaceNames
  <2>2. /\ clean'[gen].due /\ gen < gen'
        /\ clean'[gen].runtime # None =>
              /\ load'[clean'[gen].runtime].gen = gen
              /\ load'[clean'[gen].runtime].pc \notin {"idle", "dispatched"}
    <3>1. clean'[gen].due /\ clean'[gen].runtime = IF lease # None THEN lease ELSE backend
      BY <1>2, RaceNames DEF Reset, TypeOK
    <3>2. \A r \in {backend, lease} : r # None =>
             r \in Loads /\ load[r].gen = gen /\ load[r].pc \notin {"idle", "dispatched"}
      BY RaceNames DEF FieldsInv, FieldsAreCurrent, FieldsAreSettled, Loaded, TypeOK
    <3> QED
      BY <2>0, <3>1, <3>2, RaceNames
  <2> QED
    BY <2>1, <2>2 DEF CleanupsPast
<1>3. CASE ~Reset /\ ~Started
  <2>0. Ordinary /\ UNCHANGED gen
    BY <1>3, RaceOrdinary
  <2>1. \A l \in Loads : load[l].pc \notin {"idle", "dispatched"} =>
           load'[l].pc \notin {"idle", "dispatched"} /\ load'[l].gen = load[l].gen
    BY <2>0 DEF Ordinary, LoadSteps
  <2>2. \A g \in Generations : clean'[g] \in {clean[g], NothingDue}
    BY <2>0, RaceNames DEF Ordinary, Cleanup, TypeOK
  <2> SUFFICES ASSUME NEW g \in Generations PROVE Past(g)'
    BY DEF CleanupsPast
  <2>3. Past(g)
    BY <1>0 DEF CleanupsPast
  <2> QED
    BY <1>0, <2>0, <2>1, <2>2, <2>3
<1> QED
  BY <1>1, <1>2, <1>3 DEF Started

(* A cancelled run keeps its runtime and session: the cleanup that would   *)
(* release them is still waiting for it.                                   *)
LEMMA CancelledRunsRace ==
    ASSUME Unfailing, RacesInv, [Next]_vars
    PROVE  CancelledRunsKept'
<1> DEFINE Kept(u) == /\ mod[u].gen \in Generations
                      /\ clean[mod[u].gen].due /\ clean[mod[u].gen].mod = u
                      /\ clean[mod[u].gen].runtime = u /\ clean[mod[u].gen].session = u
                      /\ u \in live /\ load[u].pc = "done"
<1>0. \A u \in Dictations : mod[u].pc \in {"decoding", "releasing"} /\ u # session => Kept(u)
  BY DEF RacesInv, CancelledRunsKept
<1>1. ASSUME NEW d \in Dictations, StartRecording(d) PROVE CancelledRunsKept'
  <2> SUFFICES ASSUME NEW u \in Dictations, mod[u].pc \in {"decoding", "releasing"} PROVE Kept(u)'
    BY <1>1, StartFindsNone DEF CancelledRunsKept
  <2>1. u # session /\ u # d /\ UNCHANGED <<live, mod, clean>> /\ load'[u] = load[u]
    BY <1>1, RaceNames, StartFindsNone DEF runtimes
  <2> QED
    BY <1>0, <2>1
<1>2. CASE Reset
  <2> SUFFICES ASSUME NEW u \in Dictations, mod'[u].pc \in {"decoding", "releasing"} PROVE Kept(u)'
    BY DEF CancelledRunsKept
  <2>1. /\ mod'[u].pc = mod[u].pc /\ mod'[u].gen = mod[u].gen /\ load'[u].pc = load[u].pc
        /\ UNCHANGED live
    BY <1>2, RaceNames, ResetCancels DEF Reset
  <2>2. CASE u # session
    <3>1. Kept(u) /\ mod[u].gen < gen
      BY <1>0, <2>1, <2>2 DEF RacesInv, RunsHeld
    <3>2. clean'[mod[u].gen] = clean[mod[u].gen]
      BY <1>2, <3>1, RaceNames DEF Reset, TypeOK
    <3> QED
      BY <2>1, <3>1, <3>2
  <2>3. CASE u = session
    <3>1. mod[u].gen = gen /\ load[u].pc = "done" /\ u # None
      BY <2>1, <2>3, RaceNames DEF RacesInv, RunsHeld
    <3>2. u = modelJob /\ backend = u /\ u \in live /\ lease \in {None, u}
      BY <2>1, <2>3, <3>1 DEF RacesInv, OneAtATime, BackendWithSession
    <3>3. /\ clean'[gen].due /\ clean'[gen].mod = modelJob /\ clean'[gen].session = session
          /\ clean'[gen].runtime = IF lease # None THEN lease ELSE backend
      BY <1>2, RaceNames DEF Reset, TypeOK
    <3>4. clean'[gen].mod = u /\ clean'[gen].runtime = u /\ clean'[gen].session = u
      BY <2>3, <3>2, <3>3
    <3>5. mod'[u].gen = gen /\ gen \in Generations
      BY <2>1, <3>1, RaceNames
    <3> QED
      BY <2>1, <3>1, <3>2, <3>3, <3>4, <3>5
  <2> QED
    BY <2>2, <2>3
<1>3. CASE ~Reset /\ ~Started
  <2>0. /\ Ordinary /\ RaceMoves
        /\ \A l \in Loads : load[l].pc = "done" => load'[l].pc = "done"
        /\ session' # session => mod'[session].pc = "done"
    BY <1>3, RaceOrdinary, RaceMovesStep
  <2> SUFFICES ASSUME NEW u \in Dictations, mod'[u].pc \in {"decoding", "releasing"},
                      u # session'
               PROVE  Kept(u)'
    BY DEF CancelledRunsKept
  <2>1. u # session
    BY <2>0
  <2>2. mod'[u] = mod[u]
    <3>1. CASE isRecording /\ OnFinishRecording
      BY <3>1, RaceNames, FinishDispatches
    <3>2. ASSUME NEW v \in Dictations, RunSteps(v) PROVE mod'[u] = mod[u]
      <4>1. v # u
        <5> SUFFICES ASSUME v = u PROVE FALSE
          OBVIOUS
        <5>1. mod[u].gen = gen /\ mod[u].pc \in {"waitLoad", "decoding"}
          BY <3>2 DEF RunSteps
        <5> QED
          BY <2>1, <5>1, SessionsRun
      <4> QED
        BY <3>2, <4>1 DEF RunSteps
    <3> QED
      BY <2>0, <3>1, <3>2 DEF Ordinary
  <2>3. Kept(u)
    BY <1>0, <2>1, <2>2
  <2>4. ASSUME NEW g \in Generations, Cleanup(g) PROVE g # mod[u].gen
    BY <2>2, <2>3, <2>4, RaceNames DEF Cleanup, Joined
  <2>5. clean'[mod[u].gen] = clean[mod[u].gen]
    BY <2>0, <2>3, <2>4, RaceNames DEF Ordinary, Cleanup, TypeOK
  <2>6. u \in live'
    <3>1. ASSUME NEW l \in Loads, LoadSucceeds(l) \/ Publish(l) \/ ReleaseUnpublished(l)
          PROVE  u \in live'
      BY <2>3, <3>1 DEF LoadSucceeds, Publish, ReleaseUnpublished
    <3>2. ASSUME NEW v \in Dictations, ReleaseBackend(v) PROVE u \in live'
      <4>1. mod[v].runtime = v /\ live' = live \ {mod[v].runtime} /\ mod'[v].pc = "deliver"
        BY <3>2, RaceNames, RunGoesOn DEF ReleaseBackend, RacesInv, RunsHeld
      <4> QED
        BY <2>3, <4>1
    <3>3. ASSUME NEW v \in Dictations, RunEnds(v) PROVE u \in live'
      BY <2>1, <2>3, <3>3, RaceNames DEF RunEnds, RacesInv, BackendWithSession
    <3>4. ASSUME NEW g \in Generations, Cleanup(g) PROVE u \in live'
      <4>1. clean[g].runtime = u => load[u].gen = g
        BY RaceNames, CleanupsRelease
      <4>2. load[u].gen = mod[u].gen
        BY <2>3, RaceNames, CleanupsRelease
      <4>3. clean[g].runtime # u
        BY <2>4, <3>4, <4>1, <4>2
      <4> QED
        BY <2>3, <3>4, <4>3 DEF Cleanup
    <3>5. CASE OtherMoves
      BY <2>3, <3>5 DEF OtherMoves, runtimes
    <3> QED
      BY <2>0, <3>1, <3>2, <3>3, <3>4, <3>5 DEF RaceMoves
  <2> QED
    BY <2>0, <2>2, <2>3, <2>5, <2>6, RaceNames
<1> QED
  BY <1>1, <1>2, <1>3 DEF Started

(* A step settles the outcome of a dictation that loses the session.       *)
LEMMA OutcomesRace ==
    ASSUME Unfailing, RacesInv, [Next]_vars
    PROVE  OutcomesSettled'
<1>0. OutcomesSettled /\ outcome \in [Dictations -> Outcomes]
  BY RaceNames DEF RacesInv, TypeOK
<1>1. ASSUME NEW d \in Dictations, StartRecording(d) PROVE OutcomesSettled'
  BY <1>0, <1>1, RaceNames, StartFindsNone DEF OutcomesSettled
<1>2. CASE Reset
  <2>1. outcome' = [u \in Dictations |-> IF u = recorderJob /\ outcome[u] = "none"
                                         THEN "cancelled" ELSE outcome[u]]
    BY <1>2 DEF Reset
  <2> QED
    BY <1>0, <1>2, <2>1, RaceNames, ResetCancels DEF OutcomesSettled
<1>3. CASE ~Reset /\ ~Started
  <2>0. /\ Ordinary
        /\ \A u \in Dictations : cap'[u].pc = "idle" <=> cap[u].pc = "idle"
        /\ session' # session =>
              session' = None /\ outcome[session] = "delivered" /\ mod[session].pc = "cleanup"
        /\ outcome' = outcome \/ DeliversSession
    BY <1>3, RaceOrdinary, ScreenMoves
  <2>1. ASSUME NEW u \in Dictations, u # session
        PROVE  outcome'[u] = outcome[u]
    BY <1>0, <2>0, <2>1, RaceNames DEF DeliversSession
  <2>2. ASSUME NEW u \in Dictations, u = session, session' # session
        PROVE  outcome'[u] # "none"
    BY <1>0, <2>0, <2>2 DEF DeliversSession
  <2>3. ASSUME NEW u \in Dictations, u = session, session' = session
        PROVE  outcome'[u] = IF mod'[u].pc = "cleanup" THEN "delivered" ELSE "none"
    <3>1. outcome[u] = IF mod[u].pc = "cleanup" THEN "delivered" ELSE "none"
      BY <1>0, <2>3 DEF OutcomesSettled
    <3>2. CASE DeliversSession
      BY <1>0, <2>3, <3>2 DEF DeliversSession
    <3>3. CASE ~DeliversSession
      <4>1. mod'[u].pc = "cleanup" => mod[u].pc = "cleanup"
        BY <1>3, <2>3, <3>3, SessionsRunMoves
      <4>2. mod[u].pc = "cleanup" => mod'[u].pc = "cleanup"
        <5> SUFFICES ASSUME mod[u].pc = "cleanup", mod'[u].pc # "cleanup" PROVE FALSE
          OBVIOUS
        <5>1. mod'[u].pc # "done"
          BY <1>3, <2>3, RaceNames, SessionsRunMoves
        <5>2. ~isRecording
          BY <2>3, RaceNames DEF RacesInv, OneAtATime
        <5>3. RunSteps(u)
          BY <2>0, <5>2 DEF Ordinary, RunSteps
        <5> QED
          BY <5>1, <5>3 DEF RunSteps
      <4> QED
        BY <2>0, <3>1, <3>3, <4>1, <4>2
    <3> QED
      BY <3>2, <3>3
  <2> QED
    BY <1>0, <2>0, <2>1, <2>2, <2>3, RaceNames DEF OutcomesSettled
<1> QED
  BY <1>1, <1>2, <1>3 DEF Started

(* A step leaves no runtime without an owner.                              *)
LEMMA OwnersRace ==
    ASSUME Unfailing, RacesInv, [Next]_vars
    PROVE  RuntimesOwned'
<1>0. /\ live \subseteq Loads
      /\ backend \in {None, session} /\ lease \in {None, backend}
  BY RaceNames DEF TypeOK, RacesInv, BackendWithSession
<1> DEFINE Owned(k) == \/ k \in Loads /\ load[k].pc = "publish"
                       \/ k \in {backend, lease}
                       \/ \E u \in Dictations : mod[u].runtime = k
                       \/ \E g \in Generations : clean[g].runtime = k
<1>1. \A k \in live : Owned(k)
  BY DEF RacesInv, RuntimesOwned
<1>2. SUFFICES ASSUME NEW k, k \in live' PROVE Owned(k)'
  BY DEF RuntimesOwned
<1>3. ASSUME NEW d \in Dictations, StartRecording(d) PROVE Owned(k)'
  BY <1>0, <1>1, <1>2, <1>3, RaceNames, StartFindsNone DEF runtimes
<1>4. CASE Reset
  <2>1. k \in live /\ k # None /\ k \in Loads
    BY <1>0, <1>2, <1>4, RaceNames DEF Reset
  <2>2. CASE k \in {backend, lease}
    <3>1. clean'[gen].runtime = IF lease # None THEN lease ELSE backend
      BY <1>4, RaceNames DEF Reset, TypeOK
    <3>2. clean'[gen].runtime = k
      BY <1>0, <2>1, <2>2, <3>1
    <3> QED
      BY <3>2, RaceNames
  <2>3. ASSUME NEW g \in Generations, clean[g].runtime = k PROVE clean'[g].runtime = k
    <3>1. g # gen
      BY <2>1, <2>3, CleanupsRelease
    <3>2. clean'[g] = clean[g]
      BY <1>4, <3>1, RaceNames DEF Reset, TypeOK
    <3> QED
      BY <2>3, <3>2
  <2> QED
    BY <1>1, <1>4, <2>1, <2>2, <2>3, RaceNames, ResetCancels
<1>5. CASE ~Reset /\ ~Started
  <2>0. Ordinary /\ RaceMoves
    BY <1>5, RaceOrdinary, RaceMovesStep
  <2>1. ASSUME NEW l \in Loads, LoadSucceeds(l) PROVE Owned(k)'
    <3>1. /\ live' = live \cup {l} /\ UNCHANGED <<backend, lease, mod, clean>>
          /\ load'[l].pc = "publish" /\ \A j \in Loads \ {l} : load'[j] = load[j]
      BY <2>1, RaceNames, LoadGoesOn DEF LoadSucceeds
    <3> QED
      BY <1>1, <1>2, <2>1, <3>1
  <2>2. ASSUME NEW l \in Loads, Publish(l) PROVE Owned(k)'
    <3>1. /\ UNCHANGED <<live, mod, clean>> /\ backend' = l /\ l = session
          /\ \A j \in Loads \ {l} : load'[j] = load[j]
      BY <2>2, RaceNames, LoadGoesOn, LoadGoesHome, SessionsLoad DEF Publish
    <3> QED
      BY <1>0, <1>1, <1>2, <3>1, RaceNames
  <2>3. ASSUME NEW l \in Loads, ReleaseUnpublished(l) PROVE Owned(k)'
    <3>1. /\ live' = live \ {l} /\ UNCHANGED <<backend, lease, mod, clean>>
          /\ \A j \in Loads \ {l} : load'[j] = load[j]
      BY <2>3, RaceNames, LoadGoesHome DEF ReleaseUnpublished
    <3> QED
      BY <1>1, <1>2, <3>1
  <2>4. ASSUME NEW v \in Dictations, ReleaseBackend(v) PROVE Owned(k)'
    <3>1. /\ live' = live \ {mod[v].runtime} /\ UNCHANGED <<load, clean>>
          /\ backend' = IF BackendFor(mod[v].gen) = mod[v].runtime THEN None ELSE backend
          /\ \A u \in Dictations \ {v} : mod'[u] = mod[u]
      BY <2>4, RaceNames, RunGoesOn DEF ReleaseBackend
    <3>2. k \in live /\ k # mod[v].runtime /\ k # None
      BY <1>0, <1>2, <3>1, RaceNames
    <3>3. backend = k => backend' = k
      <4>1. mod[v].runtime # None
        BY <2>4, RaceNames DEF ReleaseBackend, RacesInv, RunsHeld
      <4> QED
        BY <3>1, <3>2, <4>1 DEF BackendFor
    <3> QED
      BY <1>0, <1>1, <3>1, <3>2, <3>3
  <2>5. ASSUME NEW v \in Dictations, RunEnds(v) PROVE Owned(k)'
    <3>1. /\ live' \subseteq live /\ UNCHANGED <<load, clean, backend>>
          /\ \A u \in Dictations \ {v} : mod'[u] = mod[u]
          /\ mod[v].pc = "cleanup"
      BY <2>5, RaceNames DEF RunEnds, TypeOK
    <3>2. mod[v].runtime = None /\ k # None
      BY <1>0, <1>2, <3>1, RaceNames DEF RacesInv, RunsHeld
    <3> QED
      BY <1>0, <1>1, <1>2, <3>1, <3>2
  <2>6. ASSUME NEW g \in Generations, Cleanup(g) PROVE Owned(k)'
    <3>1. /\ live' = live \ {clean[g].runtime} /\ UNCHANGED <<load, mod, backend, lease>>
          /\ \A h \in Generations \ {g} : clean'[h] = clean[h]
      BY <2>6, RaceNames DEF Cleanup, TypeOK
    <3> QED
      BY <1>1, <1>2, <3>1
  <2>7. CASE OtherMoves /\ ~\E g \in Generations : Cleanup(g)
    <3>0. UNCHANGED clean
      BY <2>0, <2>7 DEF Ordinary
    <3>1. k \in live /\ k # None /\ UNCHANGED <<backend, lease>>
      BY <1>0, <1>2, <2>7, RaceNames DEF OtherMoves, runtimes
    <3>2. ASSUME NEW u \in Dictations, mod[u].runtime = k PROVE Owned(k)'
      <4>1. mod[u].pc \in {"decoding", "releasing"} /\ k = u
        BY <3>1, <3>2 DEF RacesInv, RunsHeld
      <4>2. CASE u # session
        BY <3>0, <4>1, <4>2 DEF RacesInv, CancelledRunsKept
      <4>3. CASE u = session
        BY <2>7, <3>1, <3>2, <4>3 DEF OtherMoves
      <4> QED
        BY <4>2, <4>3
    <3>3. CASE k \in Loads /\ load[k].pc = "publish"
      BY <2>7, <3>3 DEF OtherMoves
    <3> QED
      BY <1>1, <3>0, <3>1, <3>2, <3>3
  <2> QED
    BY <2>0, <2>1, <2>2, <2>3, <2>4, <2>5, <2>6, <2>7 DEF RaceMoves
<1> QED
  BY <1>3, <1>4, <1>5 DEF Started

-----------------------------------------------------------------------------
(* The theorems.                                                           *)

(* The invariant holds at the start, ...                                   *)
LEMMA RacesInit == Init => RacesInv
<1> SUFFICES ASSUME Init PROVE RacesInv
  OBVIOUS
<1>0. None \notin Dictations /\ None \notin Loads
      /\ \A d \in Dictations : d \in Loads /\ RetryOf(d) \in Loads
  BY LoadNames
<1>1. Base
  BY TypeInit, FieldsInit, SessionInit DEF Base
<1>2. PendingBlank /\ OneAtATime /\ CapturesHeld /\ LoadsHeld /\ RunsHeld
  BY <1>0 DEF Init, PendingBlank, OneAtATime, CapturesHeld, LoadsHeld, RunsHeld
<1>3. MicrophoneWithSession /\ BackendWithSession /\ CleanupsPast
  BY <1>0 DEF Init, MicrophoneWithSession, BackendWithSession, CleanupsPast
<1>4. CancelledRunsKept /\ OutcomesSettled /\ RuntimesOwned
  BY <1>0 DEF Init, CancelledRunsKept, OutcomesSettled, RuntimesOwned
<1> QED
  BY <1>1, <1>2, <1>3, <1>4 DEF RacesInv

(* ... and every step keeps it.                                            *)
LEMMA RacesNext == ASSUME Unfailing PROVE RacesInv /\ [Next]_vars => RacesInv'
<1> SUFFICES ASSUME RacesInv, [Next]_vars PROVE RacesInv'
  OBVIOUS
<1>1. Base'
  BY TypeNext, FieldsNext, SessionNext DEF RacesInv, Base
<1>2. PendingBlank' /\ OneAtATime' /\ CapturesHeld' /\ LoadsHeld' /\ RunsHeld'
  BY PendingStep, OneStep, CapturesRace, LoadsRace, RunsRace
<1>3. MicrophoneWithSession' /\ BackendWithSession' /\ CleanupsPast'
  BY MicrophoneRace, BackendRace, CleanupsRace
<1>4. CancelledRunsKept' /\ OutcomesSettled' /\ RuntimesOwned'
  BY CancelledRunsRace, OutcomesRace, OwnersRace
<1> QED
  BY <1>1, <1>2, <1>3, <1>4 DEF RacesInv

(* So it holds in every state of every behaviour.                          *)
LEMMA RacesAlways == ASSUME Unfailing PROVE Spec => []RacesInv
<1>1. RacesInv /\ [Next]_vars => RacesInv'
  BY RacesNext
<1> QED
  BY <1>1, RacesInit, PTL DEF Spec

(* Starts that race resets and each other leave no microphone open: the    *)
(* AudioRecord that runs is the one in the field, and the capture that     *)
(* will release it is there (startRecordingWithModelSession, reset).       *)
THEOREM MicrophonesOwnedInRaces ==
    ASSUME Unfailing
    PROVE  Spec => []MicrophoneOwned
<1>1. RacesInv => MicrophoneOwned
  BY RaceNames DEF TypeOK, RacesInv, MicrophoneWithSession, MicrophoneOwned
<1> QED
  BY <1>1, RacesAlways, PTL

(* Of starts that race each other only one keeps its token, so that        *)
(* startRecording() never finds a recording under way.                     *)
THEOREM StartsOnceInRaces ==
    ASSUME Unfailing
    PROVE  Spec => []NeverStartTwice
<1>1. RacesInv => NeverStartTwice
  BY DEF RacesInv, OneAtATime, Declined, NeverStartTwice
<1> QED
  BY <1>1, RacesAlways, PTL

(* The runtime of a run that decodes is loaded, also when a reset has      *)
(* cancelled the run and another dictation has been started meanwhile.     *)
THEOREM RuntimesAliveInRaces ==
    ASSUME Unfailing
    PROVE  Spec => []RuntimeAliveWhileDecoding
<1>1. ASSUME RacesInv, NEW u \in Dictations, mod[u].pc = "decoding"
      PROVE  mod[u].runtime \in live
  <2>1. mod[u].runtime = u
    BY <1>1 DEF RacesInv, RunsHeld
  <2>2. CASE u = session
    BY <1>1, <2>1, <2>2, RaceNames DEF RacesInv, RunsHeld, BackendWithSession
  <2>3. CASE u # session
    BY <1>1, <2>1, <2>3 DEF RacesInv, CancelledRunsKept
  <2> QED
    BY <2>2, <2>3
<1>2. RacesInv => RuntimeAliveWhileDecoding
  BY <1>1 DEF RuntimeAliveWhileDecoding
<1> QED
  BY <1>2, RacesAlways, PTL

(* Every loaded runtime has an owner that will release it, whichever start *)
(* or reset overtakes its load.                                            *)
THEOREM RuntimesReachableInRaces ==
    ASSUME Unfailing
    PROVE  Spec => []RuntimesOwned
<1>1. RacesInv => RuntimesOwned
  BY DEF RacesInv
<1> QED
  BY <1>1, RacesAlways, PTL

(* A dictation holds its model session while it is recorded, and until its *)
(* decoder is done, also when a reset has cancelled it.                    *)
THEOREM SessionsHeldInRaces ==
    ASSUME Unfailing
    PROVE  Spec => []SessionHeldWhileDictating
<1>1. ASSUME RacesInv, isRecording PROVE session = recorderJob
  BY <1>1 DEF RacesInv, OneAtATime
<1>2. ASSUME RacesInv, NEW u \in Dictations, mod[u].pc = "decoding"
      PROVE  u \in openSessions /\ create[u].gen = mod[u].gen
  <2>0. SessionLeaseOwned /\ FieldsAreCurrent /\ None \notin Dictations
    BY <1>2, RaceNames DEF SessionInv, FieldsInv
  <2>1. CASE u = session
    BY <1>2, <2>0, <2>1 DEF RacesInv, RunsHeld, SessionLeaseOwned, FieldsAreCurrent
  <2>2. CASE u # session
    <3>1. mod[u].gen \in Generations /\ clean[mod[u].gen].session = u
      BY <1>2, <2>2 DEF RacesInv, CancelledRunsKept
    <3> QED
      BY <2>0, <3>1 DEF SessionLeaseOwned, HeldByCleanups
  <2> QED
    BY <2>1, <2>2
<1>3. RacesInv => SessionHeldWhileDictating
  BY <1>1, <1>2 DEF SessionHeldWhileDictating
<1> QED
  BY <1>3, RacesAlways, PTL

-----------------------------------------------------------------------------
(* The engine keeps the promises of Dictation.                             *)

(* A dictation that does not hold the session is not under way.            *)
LEMMA OthersSettled ==
    ASSUME RacesInv, NEW u \in Dictations, u # session
    PROVE  Stage(u) \notin {"recording", "processing"}
  BY RaceNames DEF RacesInv, PendingBlank, OutcomesSettled, Stage, TypeOK, Outcomes

(* A start of the recorder is a Start of the screen: nothing else is under *)
(* way.                                                                    *)
LEMMA StartRaceRefines ==
    ASSUME RacesInv, NEW d \in Dictations, StartRecording(d)
    PROVE  Screen!Start(d)
<1>1. UNCHANGED <<outcome, mod>> /\ recorderJob' = d /\ session = None /\ None \notin Dictations
  BY StartFindsNone, RaceNames
<1>2. \A u \in Dictations : Stage(u) \notin {"recording", "processing"}
  BY <1>1, OthersSettled
<1>3. Stage(d) = "idle" /\ Stage(d)' = "recording"
  BY <1>1, StartFindsNone DEF Stage
<1>4. \A u \in Dictations \ {d} : Stage(u)' = Stage(u)
  <2> SUFFICES ASSUME NEW u \in Dictations \ {d} PROVE Stage(u)' = Stage(u)
    OBVIOUS
  <2>1. cap'[u] = cap[u]
    BY StartFindsNone
  <2> QED
    BY <1>1, <2>1, StagesKept
<1> DEFINE stages == [u \in Dictations |-> Stage(u)]
<1>5. stages' = [stages EXCEPT ![d] = "recording"]
  BY <1>3, <1>4
<1> QED
  BY <1>1, <1>2, <1>3, <1>5 DEF Screen!Start

(* Every step but a start and a reset stops the dictation, delivers its    *)
(* text or shows nothing.                                                  *)
LEMMA OrdinaryRaceRefines ==
    ASSUME Unfailing, RacesInv, [Next]_vars, ~Reset, ~Started
    PROVE  [Screen!Next]_(Screen!vars)
<1> DEFINE stages == [u \in Dictations |-> Stage(u)]
<1>0. /\ Ordinary /\ UNCHANGED recorderJob /\ None \notin Dictations
      /\ outcome' = outcome \/ DeliversSession
      /\ \A u \in Dictations : cap'[u].pc = "idle" <=> cap[u].pc = "idle"
      /\ outcome \in [Dictations -> Outcomes]
  BY RaceNames, RaceOrdinary, ScreenMoves DEF TypeOK
<1>1. ASSUME NEW d \in Dictations, d = session
      PROVE  /\ d = recorderJob /\ cap[d].pc # "idle"
             /\ outcome[d] = IF mod[d].pc = "cleanup" THEN "delivered" ELSE "none"
             /\ isRecording <=> mod[d].pc = "idle"
  BY <1>0, <1>1, RaceNames DEF RacesInv, OneAtATime, CapturesHeld, OutcomesSettled
<1>2. CASE isRecording /\ OnFinishRecording
  <2>1. PICK d \in Dictations : d = session /\ d = recorderJob
    BY <1>2, RaceNames DEF RacesInv, OneAtATime
  <2>2. mod[d].pc = "idle" /\ mod'[d].pc = "dispatched" /\ cap[d].pc # "idle"
        /\ outcome[d] = "none"
    BY <1>1, <1>2, <2>1, RaceNames, FinishDispatches
  <2>3. outcome' = outcome
    BY <1>0, <2>1, <2>2 DEF DeliversSession
  <2>4. Stage(d) = "recording" /\ Stage(d)' = "processing"
    BY <1>0, <2>2, <2>3 DEF Stage
  <2>5. ASSUME NEW u \in Dictations, u # d PROVE Stage(u)' = Stage(u)
    BY <1>0, <1>2, <2>1, <2>3, <2>5, RaceNames, FinishDispatches, StagesKept
  <2>6. stages' = [stages EXCEPT ![d] = "processing"]
    BY <2>4, <2>5
  <2>7. Screen!Stop(d)
    BY <1>0, <2>1, <2>4, <2>6 DEF Screen!Stop
  <2> QED
    BY <2>7 DEF Screen!Next
<1>3. CASE ~(isRecording /\ OnFinishRecording)
  <2>1. \A u \in Dictations : mod'[u].pc = "idle" <=> mod[u].pc = "idle"
    BY <1>0, <1>3 DEF Ordinary, RunSteps
  <2>2. CASE outcome' = outcome
    <3>1. \A u \in Dictations : Stage(u)' = Stage(u)
      BY <1>0, <2>1, <2>2, StagesKept
    <3> QED
      BY <1>0, <3>1 DEF Screen!vars
  <2>3. CASE DeliversSession
    <3>1. PICK d \in Dictations : d = session
      BY <2>3, RaceNames DEF DeliversSession
    <3>2. /\ d = recorderJob /\ outcome[d] = "none" /\ mod[d].pc = "deliver"
          /\ outcome' = [outcome EXCEPT ![d] = "delivered"]
      BY <1>1, <2>3, <3>1 DEF DeliversSession
    <3>3. /\ Stage(d) = "processing" /\ Stage(d)' = "delivered"
          /\ \A u \in Dictations \ {d} : outcome'[u] = outcome[u]
      BY <1>0, <3>2 DEF Stage
    <3>4. ASSUME NEW u \in Dictations, u # d PROVE Stage(u)' = Stage(u)
      BY <1>0, <2>1, <3>3, <3>4, StagesKept
    <3>5. stages' = [stages EXCEPT ![d] = "delivered"]
      BY <3>3, <3>4
    <3>6. Screen!Deliver(d)
      BY <1>0, <3>2, <3>3, <3>5 DEF Screen!Deliver
    <3> QED
      BY <3>6 DEF Screen!Next
  <2> QED
    BY <1>0, <2>2, <2>3
<1> QED
  BY <1>2, <1>3

(* The screen shows one dictation at a time, delivers the text of each at  *)
(* most once and only after it was stopped, and never takes back what it   *)
(* has shown, whichever start or reset overtakes whichever coroutine       *)
(* (startRecordingWithModelSession, onFinishRecording, runModel, reset).   *)
THEOREM KeepsPromisesInRaces ==
    ASSUME Unfailing
    PROVE  Spec => ImplementsDictation
<1>1. Init => Screen!Init
  BY DEF Init, Screen!Init, Stage
<1>2. RacesInv /\ [Next]_vars => [Screen!Next]_(Screen!vars)
  <2> SUFFICES ASSUME RacesInv, [Next]_vars PROVE [Screen!Next]_(Screen!vars)
    OBVIOUS
  <2>1. ASSUME NEW d \in Dictations, StartRecording(d) PROVE Screen!Next
    BY <2>1, StartRaceRefines DEF Screen!Next
  <2>2. CASE Reset
    BY <2>2, RaceNames, ResetRefines DEF Screen!Next
  <2>3. CASE ~Reset /\ ~Started
    BY <2>3, OrdinaryRaceRefines
  <2> QED
    BY <2>1, <2>2, <2>3 DEF Started
<1> QED
  BY <1>1, <1>2, RacesAlways, PTL DEF Spec, ImplementsDictation, Screen!Spec
=============================================================================
