-------------------------- MODULE RecordingSession --------------------------
(***************************************************************************)
(* The dictation engine of AudioRecognizer.kt: the Main thread's handlers, *)
(* the capture, model-run and model-load coroutines on Dispatchers.Default *)
(* and the cleanup that reset() launches, over the fields they share.      *)
(*                                                                         *)
(* A handler that runs on the Main thread without suspending is one        *)
(* action.  A coroutine on Dispatchers.Default is a program counter that   *)
(* advances from one access of shared state (or one suspension) to the     *)
(* next, so that Main handlers interleave exactly where the code lets      *)
(* them.  A Job's cancellation is a flag: a coroutine notices it only where*)
(* it suspends, and a withContext(Main) block, which reset() cannot        *)
(* overlap, never runs in a cancelled coroutine.                           *)
(***************************************************************************)
EXTENDS Naturals, FiniteSets

CONSTANTS
    MaxDictations,   \* bound: how many times create() is called
    MaxResets,       \* bound: how many times reset() is called
    Parakeet,        \* is every backend a ParakeetEngineLease?
    Streaming,       \* is every backend a StreamingSpeechBackend?
    KeepAudio,       \* is the audio history enabled (and writable)?
    Preemption,      \* may a worker thread be preempted between two adjacent
                     \* accesses of the fields (a check and its use)?
    Overlap,         \* may a start overlap a reset, or another start?
    Faults           \* bound: the kinds of failure that may occur

FaultKinds == {"denied",     \* the microphone permission is missing
               "session",    \* no session: no model, or a comparison runs
               "read",       \* the AudioRecord stops delivering
               "history",    \* the audio-history file cannot be appended to
               "load",       \* the model load throws
               "memory",     \* the model load runs out of memory
               "decode",     \* the decoder throws
               "blank",      \* the decoder returns no text
               "editor"}     \* the editor does not take the text

ASSUME ConstantsAssumption ==
    /\ MaxDictations \in Nat
    /\ MaxResets \in Nat
    /\ Parakeet \in BOOLEAN
    /\ Streaming \in BOOLEAN
    /\ KeepAudio \in BOOLEAN
    /\ ~(Parakeet /\ Streaming)
    /\ Preemption \in BOOLEAN
    /\ Overlap \in BOOLEAN
    /\ Faults \subseteq FaultKinds

None == 0

(* A call of create() and the utterance it records share one identifier.   *)
Dictations == 1..MaxDictations

(* Values of recognitionGeneration.                                        *)
Generations == 0..MaxResets

(* Load d is the one startRecording launches for dictation d; load         *)
(* MaxDictations + d is the one the model run of dictation d launches      *)
(* itself when it finds no backend.  A load also names the runtime it      *)
(* produces.                                                               *)
Loads == 1..(2 * MaxDictations)
RetryOfNext(d) == MaxDictations + d + 1   \* variant: off by one
RetryOf(d) == MaxDictations + d

(* Manual, Vad and DurationLimit differ only in how long the recorder is   *)
(* drained: they are "Stopped".                                            *)
StopReasons == {"none", "Stopped", "Cancel", "CaptureFailed"}

VARIABLES
    gen,            \* recognitionGeneration
    stopReason,
    isRecording,
    recorder,       \* the utterance whose AudioRecord the field holds
    micOn,          \* the AudioRecords started and not yet released
    session,        \* modelSession: the dictation whose lease token it holds
    openSessions,   \* lease tokens acquired and not closed
    backend,        \* the load whose runtime the backend field holds
    lease,          \* the load whose runtime the parakeetLease field holds
    live,           \* runtimes loaded and not released
    backup,         \* the utterance whose audio-history capture is published
    file,           \* the audio-history capture of each utterance
    recorderJob, modelJob, loadJob,
    stream,         \* StreamingAudioReplay
    heard,          \* where the streamed audio of each utterance went
    create, cap, mod, load,     \* coroutines
    clean,          \* the cleanup launched by the reset that ends a generation
    outcome         \* what the user was last told of each utterance

control == <<gen, stopReason, isRecording>>
mic == <<recorder, micOn>>
leases == <<session, openSessions>>
runtimes == <<backend, lease, live>>
history == <<backup, file>>
jobs == <<recorderJob, modelJob, loadJob>>
replay == <<stream, heard>>
coroutines == <<create, cap, mod, load, clean>>
vars == <<control, mic, leases, runtimes, history, jobs, replay, coroutines, outcome>>

CreatePCs == {"idle", "settings", "asking", "acquire", "leased", "done"}
CapturePCs == {"idle", "starting", "loop", "decide", "limitMain", "vadMain", "epilogue",
               "closing", "done"}
RunPCs == {"idle", "dispatched", "joining", "waitLoad", "retry", "waitRetry", "decoding",
           "releasing", "deliver", "failMain", "cleanup", "done"}
LoadPCs == {"idle", "dispatched", "loading", "publish", "published", "failed", "done"}

CreateStates == [pc : CreatePCs, born : Generations, gen : Generations]
CaptureStates == [pc : CapturePCs, gen : Generations, cancelled : BOOLEAN]
RunStates == [pc : RunPCs, gen : Generations, waits : Loads \cup {None},
              runtime : Loads \cup {None}, cancelled : BOOLEAN]
LoadStates == [pc : LoadPCs, gen : Generations, cancelled : BOOLEAN]
CleanupStates == [due : BOOLEAN, cap : Dictations \cup {None}, mod : Dictations \cup {None},
                  load : Loads \cup {None}, runtime : Loads \cup {None},
                  session : Dictations \cup {None}, backup : Dictations \cup {None}]
StreamStates == [enabled : BOOLEAN, active : Loads \cup {None}]
FileStates == {"none", "writing", "finished", "closed"}
HeardStates == {"empty", "queued", "live", "lost"}
Outcomes == {"none", "delivered", "failed", "cancelled"}

TypeOK ==
    /\ gen \in Generations
    /\ stopReason \in StopReasons
    /\ isRecording \in BOOLEAN
    /\ recorder \in Dictations \cup {None}
    /\ micOn \subseteq Dictations
    /\ session \in Dictations \cup {None}
    /\ openSessions \subseteq Dictations
    /\ backend \in Loads \cup {None}
    /\ lease \in Loads \cup {None}
    /\ live \subseteq Loads
    /\ backup \in Dictations \cup {None}
    /\ file \in [Dictations -> FileStates]
    /\ recorderJob \in Dictations \cup {None}
    /\ modelJob \in Dictations \cup {None}
    /\ loadJob \in Loads \cup {None}
    /\ stream \in StreamStates
    /\ heard \in [Dictations -> HeardStates]
    /\ create \in [Dictations -> CreateStates]
    /\ cap \in [Dictations -> CaptureStates]
    /\ mod \in [Dictations -> RunStates]
    /\ load \in [Loads -> LoadStates]
    /\ clean \in [Generations -> CleanupStates]
    /\ outcome \in [Dictations -> Outcomes]

NothingDue == [due |-> FALSE, cap |-> None, mod |-> None, load |-> None,
               runtime |-> None, session |-> None, backup |-> None]

Init ==
    /\ gen = 0
    /\ stopReason = "none"
    /\ isRecording = FALSE
    /\ recorder = None
    /\ micOn = {}
    /\ session = None
    /\ openSessions = {}
    /\ backend = None
    /\ lease = None
    /\ live = {}
    /\ backup = None
    /\ file = [u \in Dictations |-> "none"]
    /\ recorderJob = None
    /\ modelJob = None
    /\ loadJob = None
    /\ stream = [enabled |-> FALSE, active |-> None]
    /\ heard = [u \in Dictations |-> "empty"]
    /\ create = [d \in Dictations |-> [pc |-> "idle", born |-> 0, gen |-> 0]]
    /\ cap = [u \in Dictations |-> [pc |-> "idle", gen |-> 0, cancelled |-> FALSE]]
    /\ mod = [u \in Dictations |-> [pc |-> "idle", gen |-> 0, waits |-> None,
                                    runtime |-> None, cancelled |-> FALSE]]
    /\ load = [l \in Loads |-> [pc |-> "idle", gen |-> 0, cancelled |-> FALSE]]
    /\ clean = [g \in Generations |-> NothingDue]
    /\ outcome = [u \in Dictations |-> "none"]

-----------------------------------------------------------------------------
(* Helpers shared by several handlers.                                     *)

(* An operator named as a "variant" is what the operator after it would be *)
(* with a mistake in the code; the runs show which property would notice.  *)

(* variant: the early return for another AudioRecord is missing            *)
StopAnyRecorder(target) ==
    IF target # None THEN recorder' = None /\ micOn' = micOn \ {target} ELSE UNCHANGED mic

(* stopAndReleaseRecorder(target): only while the field still holds target. *)
StopAndReleaseRecorder(target) ==
    IF target # None /\ recorder = target
    THEN recorder' = None /\ micOn' = micOn \ {target}
    ELSE UNCHANGED mic

(* variant: the token is dropped but not closed                            *)
ReleaseWithoutClosing(g) ==
    /\ session' = IF session # None /\ create[session].gen = g THEN None ELSE session
    /\ UNCHANGED openSessions

(* variant: the generation of the token is not compared                    *)
ReleaseAnySession(g) ==
    /\ session' = None
    /\ openSessions' = openSessions \ {session}

(* releaseModelSession(g)                                                  *)
ReleaseModelSession(g) ==
    IF session # None /\ create[session].gen = g
    THEN session' = None /\ openSessions' = openSessions \ {session}
    ELSE UNCHANGED leases

(* variant: failed(error) is not called                                    *)
FailSilently(g) ==
    IF g # gen
    THEN UNCHANGED <<stopReason, isRecording, mic, leases, outcome>>
    ELSE /\ stopReason' = "Cancel"
         /\ isRecording' = FALSE
         /\ StopAndReleaseRecorder(recorder)
         /\ ReleaseModelSession(g)
         /\ UNCHANGED outcome

(* failRecognition(error, g), on Main: nothing for a stale generation.     *)
FailRecognition(g) ==
    IF g # gen
    THEN UNCHANGED <<stopReason, isRecording, mic, leases, outcome>>
    ELSE /\ stopReason' = "Cancel"
         /\ isRecording' = FALSE
         /\ StopAndReleaseRecorder(recorder)
         /\ ReleaseModelSession(g)
         /\ outcome' = [u \in Dictations |-> IF u = recorderJob THEN "failed" ELSE outcome[u]]

(* backendForGeneration(g)                                                 *)
BackendFor(g) == IF backend # None /\ load[backend].gen = g THEN backend ELSE None

(* variant: a backend that is not a Parakeet lease is only forgotten       *)
ForgetFailedBackend(g) ==
    LET owned == IF lease # None /\ load[lease].gen = g THEN lease ELSE None
    IN  /\ lease' = IF owned # None THEN None ELSE lease
        /\ live' = live \ {owned}
        /\ backend' = IF BackendFor(g) # None THEN None ELSE backend

(* closeFailedBackend(g): the Parakeet lease of g or else the backend of g *)
(* is released, and the backend field of g is cleared.                     *)
CloseFailedBackend(g) ==
    LET owned == IF lease # None /\ load[lease].gen = g THEN lease ELSE None
        released == IF owned # None THEN owned ELSE BackendFor(g)
    IN  /\ lease' = IF owned # None THEN None ELSE lease
        /\ live' = live \ {released}
        /\ backend' = IF BackendFor(g) # None THEN None ELSE backend

(* loadModel(): nothing when a backend is there, of whatever generation.   *)
LoadModel(l) ==
    IF backend = None
    THEN loadJob' = l /\ load' = [load EXCEPT ![l].pc = "dispatched"]
    ELSE UNCHANGED <<loadJob, load>>

(* onFinishRecording(), on Main: the run it launches is recorderJob's.     *)
OnFinishRecording ==
    /\ isRecording' = FALSE
    /\ modelJob' = recorderJob
    /\ mod' = [mod EXCEPT ![recorderJob].pc = "dispatched"]

(* StreamingAudioReplay.reset: what was queued or streamed no longer       *)
(* reaches the backend that will be asked for the transcript.              *)
ReplayReset(on) ==
    /\ stream' = [enabled |-> on, active |-> None]
    /\ heard' = [u \in Dictations |-> IF heard[u] = "empty" THEN "empty" ELSE "lost"]

(* StreamingAudioReplay.start's check(activeBackend == null) fails.        *)
ReplayRefuses(b) == stream.enabled /\ stream.active \notin {None, b}

(* variant: what was queued is not handed to the backend                   *)
StartWithoutReplay(b) ==
    IF Streaming /\ stream.enabled
    THEN stream' = [stream EXCEPT !.active = b] /\ UNCHANGED heard
    ELSE UNCHANGED replay

(* startStreaming(b), when the check holds.                                *)
StartStreaming(b) ==
    IF Streaming /\ stream.enabled
    THEN /\ stream' = [stream EXCEPT !.active = b]
         /\ heard' = [u \in Dictations |-> IF heard[u] = "queued" THEN "live" ELSE heard[u]]
    ELSE UNCHANGED replay

(* Where a chunk of utterance u goes: StreamingAudioReplay.acceptAudio.    *)
Heard(u) ==
    IF ~Streaming \/ heard[u] = "lost" THEN heard[u]
    ELSE IF ~stream.enabled THEN "lost"
    ELSE IF stream.active = None THEN IF heard[u] = "live" THEN "lost" ELSE "queued"
    ELSE IF load[stream.active].gen = cap[u].gen THEN "live" ELSE "lost"

(* RecordingSessionPolicy.shouldAcceptSamples                              *)
ShouldAcceptSamples(u) == stopReason # "Cancel" /\ cap[u].gen = gen

-----------------------------------------------------------------------------
(* create(): one coroutine on Main, which nothing cancels.                 *)

(* RecognizerView.init() or a tap on a language: create() is called while  *)
(* no utterance is recorded or processed, the next identifier is taken.    *)
StartOver(d) == create[d].pc \in {"idle", "done"}
Create(d) ==
    /\ ~isRecording /\ recorderJob = None /\ modelJob = None
    /\ create[d].pc = "idle" /\ \A e \in 1..(d - 1) : create[e].pc # "idle"
    /\ Overlap \/ \A e \in Dictations : StartOver(e) /\ (create[e].pc = "done" => create[e].born # gen)
    /\ create' = [create EXCEPT ![d] = [pc |-> "settings", born |-> gen, gen |-> gen]]
    /\ UNCHANGED <<control, mic, leases, runtimes, history, jobs, replay,
                   cap, mod, load, clean, outcome>>

(* The settings name a model that is not installed: a download is offered. *)
ModelRequired(d) ==
    /\ "session" \in Faults
    /\ create[d].pc = "settings"
    /\ create' = [create EXCEPT ![d].pc = "done"]
    /\ UNCHANGED <<control, mic, leases, runtimes, history, jobs, replay,
                   cap, mod, load, clean, outcome>>

(* The model is ready: the replay is reset, and startRecordingWithModel-   *)
(* Session reads the generation, at once or once permission is granted.    *)
SettingsRead(d) ==
    /\ create[d].pc = "settings"
    /\ ReplayReset(Streaming)
    /\ \/ create' = [create EXCEPT ![d].pc = "acquire", ![d].gen = gen]
       \/ "denied" \in Faults /\ create' = [create EXCEPT ![d].pc = "asking", ![d].gen = gen]
    /\ UNCHANGED <<control, mic, leases, runtimes, history, jobs, cap, mod, load, clean, outcome>>

(* permissionResultGranted and permissionResultRejected                    *)
PermissionResult(d) ==
    /\ create[d].pc = "asking"
    /\ \/ create' = [create EXCEPT ![d].pc = "acquire", ![d].gen = gen]
       \/ create' = [create EXCEPT ![d].pc = "done"]
    /\ UNCHANGED <<control, mic, leases, runtimes, history, jobs, replay,
                   cap, mod, load, clean, outcome>>

(* modelLifecycle.acquireSession returns a token, ...                      *)
AcquireSession(d) ==
    /\ create[d].pc = "acquire"
    /\ openSessions' = openSessions \cup {d}
    /\ create' = [create EXCEPT ![d].pc = "leased"]
    /\ UNCHANGED <<control, mic, session, runtimes, history, jobs, replay,
                   cap, mod, load, clean, outcome>>

(* ... or throws, because a model comparison owns the runtimes.            *)
AcquireSessionFails(d) ==
    /\ "session" \in Faults
    /\ create[d].pc = "acquire"
    /\ FailRecognition(create[d].gen)
    /\ create' = [create EXCEPT ![d].pc = "done"]
    /\ UNCHANGED <<gen, runtimes, history, jobs, replay, cap, mod, load, clean>>

DeclinedIfStale(d) == create[d].gen # gen   \* variant: a held token is not looked at

(* The token arrives for a generation that has ended, or when another      *)
(* token is held: it is closed.                                            *)
Declined(d) == create[d].gen # gen \/ session # None
DeclineSession(d) ==
    /\ create[d].pc = "leased"
    /\ Declined(d)
    /\ openSessions' = openSessions \ {d}
    /\ create' = [create EXCEPT ![d].pc = "done"]
    /\ UNCHANGED <<control, mic, session, runtimes, history, jobs, replay,
                   cap, mod, load, clean, outcome>>

(* The token is kept and startRecording() starts the AudioRecord, the      *)
(* capture coroutine and, unless a backend is there, the model load.       *)
StartRecording(d) ==
    /\ create[d].pc = "leased"
    /\ ~Declined(d)
    /\ ~isRecording
    /\ session' = d
    /\ stopReason' = "none"
    /\ recorder' = d
    /\ micOn' = micOn \cup {d}
    /\ isRecording' = TRUE
    /\ recorderJob' = d
    /\ cap' = [cap EXCEPT ![d] = [pc |-> "starting", gen |-> gen, cancelled |-> FALSE]]
    /\ IF backend = None THEN UNCHANGED replay
       ELSE ~ReplayRefuses(backend) /\ StartStreaming(backend)
    /\ LoadModel(d)
    /\ create' = [create EXCEPT ![d].pc = "done"]
    /\ UNCHANGED <<gen, openSessions, runtimes, history, modelJob, mod, clean, outcome>>

(* AudioRecord throws SecurityException: the token is returned and the     *)
(* permission is asked for again.                                          *)
RecorderDenied(d) ==
    /\ "denied" \in Faults
    /\ create[d].pc = "leased"
    /\ ~Declined(d)
    /\ ~isRecording
    /\ stopReason' = "none"
    /\ StopAndReleaseRecorder(recorder)
    /\ openSessions' = openSessions \ {d}
    /\ create' = [create EXCEPT ![d].pc = "asking"]
    /\ UNCHANGED <<gen, isRecording, session, runtimes, history, jobs, replay,
                   cap, mod, load, clean, outcome>>

-----------------------------------------------------------------------------
(* recorderJob: the capture coroutine of utterance u.                      *)

GoCapture(u, pc) == cap' = [cap EXCEPT ![u].pc = pc]

(* store.begin() and, under the lock, the publication of the capture.      *)
CaptureBegins(u) ==
    /\ cap[u].pc = "starting"
    /\ GoCapture(u, "loop")
    /\ file' = [file EXCEPT ![u] = IF KeepAudio THEN "writing" ELSE "none"]
    /\ backup' = IF cap[u].gen = gen THEN (IF KeepAudio THEN u ELSE None) ELSE backup
    /\ UNCHANGED <<control, mic, leases, runtimes, jobs, replay, create, mod, load, clean, outcome>>

(* Cancelled before the try block: its finally does not run.               *)
CaptureNeverBegins(u) ==
    /\ cap[u].pc = "starting" /\ cap[u].cancelled
    /\ cap' = [cap EXCEPT ![u].pc = "done", ![u].cancelled = FALSE]
    /\ UNCHANGED <<control, mic, leases, runtimes, history, jobs, replay,
                   create, mod, load, clean, outcome>>

(* A suspension notices the cancellation and the finally block is next.    *)
CaptureCancelled(u) ==
    /\ cap[u].cancelled
    /\ cap[u].pc \in {"loop", "decide", "limitMain", "vadMain", "epilogue"}
    /\ GoCapture(u, "closing")
    /\ UNCHANGED <<control, mic, leases, runtimes, history, jobs, replay,
                   create, mod, load, clean, outcome>>

(* The loop's condition no longer holds, or the blocking read returns      *)
(* nothing, or appendSamples answers SessionEnded.                         *)
LoopEnds(u) ==
    /\ cap[u].pc = "loop"
    /\ "read" \in Faults \/ stopReason # "none" \/ u \notin micOn \/ cap[u].gen # gen
    /\ GoCapture(u, "epilogue")
    /\ UNCHANGED <<control, mic, leases, runtimes, history, jobs, replay,
                   create, mod, load, clean, outcome>>

(* A read of the AudioRecord that appendSamples may accept: the loop was   *)
(* entered with no stopReason.  One that arrives during the read changes   *)
(* nothing but where the loop is left, which LoopEnds covers.              *)
Reads(u) ==
    /\ cap[u].pc = "loop" /\ ~cap[u].cancelled
    /\ stopReason = "none" /\ u \in micOn
    /\ ShouldAcceptSamples(u)

(* appendSamples accepts; a failing capture.append gives up the history.   *)
Append(u) ==
    /\ Reads(u)
    /\ heard' = [heard EXCEPT ![u] = Heard(u)]
    /\ \/ UNCHANGED history
       \/ "history" \in Faults /\ backup = u /\ backup' = None /\ file' = [file EXCEPT ![u] = "closed"]
    /\ GoCapture(u, "decide")
    /\ UNCHANGED <<control, mic, leases, runtimes, jobs, stream, create, mod, load, clean, outcome>>

(* appendSamples finds the buffer full: DurationLimit.                     *)
AppendAtLimit(u) ==
    /\ Reads(u)
    /\ stopReason' = "Stopped"
    /\ GoCapture(u, "limitMain")
    /\ UNCHANGED <<gen, isRecording, mic, leases, runtimes, history, jobs, replay,
                   create, mod, load, clean, outcome>>

(* The detector has not decided: the waveform is shown, the loop goes on.  *)
KeepListening(u) ==
    /\ cap[u].pc = "decide"
    /\ GoCapture(u, "loop")
    /\ UNCHANGED <<control, mic, leases, runtimes, history, jobs, replay,
                   create, mod, load, clean, outcome>>

(* The detector ends the utterance.  The audio has been examined, without  *)
(* a suspension, since the append; then stopReason is checked and written, *)
(* without the lock and without a look at the generation.                  *)
VadStops(u) ==
    /\ cap[u].pc = "decide"
    /\ stopReason # "none" => Preemption
    /\ stopReason' = "Stopped"
    /\ GoCapture(u, "vadMain")
    /\ UNCHANGED <<gen, isRecording, mic, leases, runtimes, history, jobs, replay,
                   create, mod, load, clean, outcome>>

(* withContext(Main) after DurationLimit, which checks the generation, and *)
(* after a detected end of speech, which does not.                         *)
FinishFromCapture(u) ==
    /\ cap[u].pc \in {"limitMain", "vadMain"} /\ ~cap[u].cancelled
    /\ GoCapture(u, "epilogue")
    /\ IF isRecording /\ (cap[u].pc = "vadMain" \/ cap[u].gen = gen)
       THEN /\ OnFinishRecording
            /\ stopReason' = IF stopReason = "none" THEN "Stopped" ELSE stopReason
       ELSE UNCHANGED <<isRecording, stopReason, modelJob, mod>>
    /\ UNCHANGED <<gen, mic, leases, runtimes, history, recorderJob, loadJob, replay,
                   create, load, clean, outcome>>

(* withContext(Main) after the loop: a capture nobody stopped has failed,  *)
(* and what it recorded is transcribed.                                    *)
Epilogue(u) ==
    /\ cap[u].pc = "epilogue" /\ ~cap[u].cancelled
    /\ GoCapture(u, "closing")
    /\ IF stopReason = "none" /\ cap[u].gen = gen /\ isRecording
       THEN OnFinishRecording /\ stopReason' = "CaptureFailed"
       ELSE UNCHANGED <<isRecording, stopReason, modelJob, mod>>
    /\ UNCHANGED <<gen, mic, leases, runtimes, history, recorderJob, loadJob, replay,
                   create, load, clean, outcome>>

(* drainRecorderTail and appendFinalSilence, while the recorder runs on.   *)
DrainTail(u) ==
    heard' = [heard EXCEPT ![u] = IF stopReason = "Stopped" /\ u \in micOn /\ ShouldAcceptSamples(u)
                                  THEN Heard(u) ELSE @]

(* After the drain, the finally block: finishWriting, close unless a run   *)
(* will transcribe this capture, and the release of this AudioRecord.      *)
CaptureCloses(u) ==
    /\ cap[u].pc = "closing"
    /\ cap' = [cap EXCEPT ![u].pc = "done", ![u].cancelled = FALSE]
    /\ DrainTail(u)
    /\ file' = [file EXCEPT ![u] =
                  IF @ # "writing" THEN @
                  ELSE IF stopReason \in {"none", "Cancel"} \/ cap[u].gen # gen
                       THEN "closed" ELSE "finished"]
    /\ StopAndReleaseRecorder(u)
    /\ UNCHANGED <<control, leases, runtimes, backup, jobs, stream,
                   create, mod, load, clean, outcome>>

-----------------------------------------------------------------------------
(* loadModelJob: loadModelInner.                                           *)

GoLoad(l, pc) == load' = [load EXCEPT ![l].pc = pc]
LoadEnds(l) == load' = [load EXCEPT ![l].pc = "done", ![l].cancelled = FALSE]

(* loadGeneration = recognitionGeneration                                  *)
LoadBegins(l) ==
    /\ load[l].pc = "dispatched" /\ (load[l].cancelled => Preemption)
    /\ load' = [load EXCEPT ![l].pc = "loading", ![l].gen = gen]
    /\ UNCHANGED <<control, mic, leases, runtimes, history, jobs, replay,
                   create, cap, mod, clean, outcome>>

(* A suspension of the load notices the cancellation; loadOrCloseOnFailure *)
(* closes what was half loaded.                                            *)
LoadCancelled(l) ==
    /\ load[l].cancelled
    /\ load[l].pc \in {"dispatched", "loading", "failed"}
    /\ LoadEnds(l)
    /\ UNCHANGED <<control, mic, leases, runtimes, history, jobs, replay,
                   create, cap, mod, clean, outcome>>

LoadSucceeds(l) ==
    /\ load[l].pc = "loading"
    /\ GoLoad(l, "publish")
    /\ live' = live \cup {l}
    /\ UNCHANGED <<control, mic, leases, backend, lease, history, jobs, replay,
                   create, cap, mod, clean, outcome>>

(* An Exception inside the load is shown to its own generation only.       *)
LoadFails(l) ==
    /\ "load" \in Faults
    /\ load[l].pc = "loading"
    /\ IF load[l].gen = gen THEN GoLoad(l, "failed") ELSE LoadEnds(l)
    /\ UNCHANGED <<control, mic, leases, runtimes, history, jobs, replay,
                   create, cap, mod, clean, outcome>>

(* An OutOfMemoryError also closes what this generation had loaded.        *)
LoadOutOfMemory(l) ==
    /\ "memory" \in Faults
    /\ load[l].pc = "loading" /\ load[l].gen = gen
    /\ GoLoad(l, "failed")
    /\ CloseFailedBackend(gen)
    /\ UNCHANGED <<control, mic, leases, history, jobs, replay,
                   create, cap, mod, clean, outcome>>

(* variant: the generation is not compared                                 *)
PublishStale(l) ==
    /\ load[l].pc = "publish"
    /\ backend' = l
    /\ lease' = IF Parakeet THEN l ELSE lease
    /\ LoadEnds(l)
    /\ UNCHANGED <<control, mic, leases, live, history, jobs, replay,
                   create, cap, mod, clean, outcome>>

(* The publication, under the lock, for the generation that asked for it.  *)
Publish(l) ==
    /\ load[l].pc = "publish" /\ load[l].gen = gen
    /\ backend' = l
    /\ lease' = IF Parakeet THEN l ELSE lease
    /\ IF Streaming THEN GoLoad(l, "published") ELSE LoadEnds(l)
    /\ UNCHANGED <<control, mic, leases, live, history, jobs, replay,
                   create, cap, mod, clean, outcome>>

(* variant: the runtime is dropped and not released                        *)
DropUnpublished(l) ==
    /\ load[l].pc = "publish" /\ load[l].gen # gen
    /\ LoadEnds(l)
    /\ UNCHANGED <<control, mic, leases, runtimes, history, jobs, replay,
                   create, cap, mod, clean, outcome>>

(* A runtime loaded for a generation that has ended is released.           *)
ReleaseUnpublished(l) ==
    /\ load[l].pc = "publish" /\ load[l].gen # gen
    /\ LoadEnds(l)
    /\ live' = live \ {l}
    /\ UNCHANGED <<control, mic, leases, backend, lease, history, jobs, replay,
                   create, cap, mod, clean, outcome>>

(* (loadedBackend as? StreamingSpeechBackend)?.let(::startStreaming)       *)
StreamLoaded(l) ==
    /\ load[l].pc = "published"
    /\ IF ReplayRefuses(l)
       THEN /\ IF load[l].gen = gen THEN GoLoad(l, "failed") ELSE LoadEnds(l)
            /\ UNCHANGED replay
       ELSE LoadEnds(l) /\ StartStreaming(l)
    /\ UNCHANGED <<control, mic, leases, runtimes, history, jobs,
                   create, cap, mod, clean, outcome>>

(* withContext(Main) { failRecognition(error, loadGeneration) }            *)
LoadFailureShown(l) ==
    /\ load[l].pc = "failed" /\ ~load[l].cancelled
    /\ LoadEnds(l)
    /\ FailRecognition(load[l].gen)
    /\ UNCHANGED <<gen, runtimes, history, jobs, replay, create, cap, mod, clean>>

-----------------------------------------------------------------------------
(* modelJob: the coroutine onFinishRecording launches for utterance u.     *)

GoRun(u, pc) == mod' = [mod EXCEPT ![u].pc = pc, ![u].waits = None, ![u].runtime = None]
Over == [pc |-> "done", gen |-> 0, waits |-> None, runtime |-> None, cancelled |-> FALSE]

(* runModel() reads the generation and the load job only when it begins.   *)
RunModel(u) ==
    mod' = [mod EXCEPT ![u].pc = "waitLoad", ![u].gen = gen, ![u].waits = loadJob]

(* recorderJob?.join() reads the field when the coroutine runs; a reset    *)
(* may have cleared it, and cancelled this job, in the meantime.           *)
RunDispatched(u) ==
    /\ mod[u].pc = "dispatched" /\ (mod[u].cancelled => Preemption)
    /\ IF recorderJob = None THEN RunModel(u)
       ELSE mod' = [mod EXCEPT ![u].pc = "joining", ![u].waits = recorderJob]
    /\ UNCHANGED <<control, mic, leases, runtimes, history, jobs, replay,
                   create, cap, load, clean, outcome>>

RunNeverBegins(u) ==
    /\ mod[u].pc \in {"dispatched", "joining"} /\ mod[u].cancelled
    /\ mod' = [mod EXCEPT ![u] = Over]
    /\ UNCHANGED <<control, mic, leases, runtimes, history, jobs, replay,
                   create, cap, load, clean, outcome>>

JoinRecorder(u) ==
    /\ mod[u].pc = "joining" /\ (mod[u].cancelled => Preemption)
    /\ cap[mod[u].waits].pc = "done"
    /\ RunModel(u)
    /\ UNCHANGED <<control, mic, leases, runtimes, history, jobs, replay,
                   create, cap, load, clean, outcome>>

(* A suspension inside runModelInner notices the cancellation.             *)
RunCancelled(u) ==
    /\ mod[u].cancelled
    /\ mod[u].pc \in {"waitLoad", "waitRetry", "decoding", "releasing", "deliver", "failMain"}
    /\ GoRun(u, "cleanup")
    /\ UNCHANGED <<control, mic, leases, runtimes, history, jobs, replay,
                   create, cap, load, clean, outcome>>

Awaited(u) == mod[u].waits # None => load[mod[u].waits].pc = "done"

RunIsStale(u) == mod[u].gen # gen   \* variant: a cancellation is not looked at

(* The recognition ended before the model became ready.                    *)
RunIsOver(u) == mod[u].gen # gen \/ stopReason = "Cancel"

(* The load has ended: a stale or cancelled run ends, a loaded backend is  *)
(* used unless the yield() before the decoder notices a cancellation, a    *)
(* missing one is loaded again.                                            *)
LoadAwaited(u) ==
    /\ mod[u].pc = "waitLoad"
    /\ Awaited(u)
    /\ LET next == IF RunIsOver(u) THEN "cleanup"
                   ELSE IF BackendFor(gen) = None THEN "retry"
                   ELSE IF mod[u].cancelled THEN "cleanup" ELSE "decoding"
       IN  mod' = [mod EXCEPT ![u].pc = next, ![u].waits = None,
                              ![u].runtime = IF next = "decoding" THEN backend ELSE None]
    /\ UNCHANGED <<control, mic, leases, runtimes, history, jobs, replay,
                   create, cap, load, clean, outcome>>

(* loadModel() again, from the run's own thread.                           *)
RetryLoad(u) ==
    /\ mod[u].pc = "retry"
    /\ LoadModel(RetryOf(u))
    /\ mod' = [mod EXCEPT ![u].pc = "waitRetry", ![u].waits = loadJob']
    /\ UNCHANGED <<control, mic, leases, runtimes, history, recorderJob, modelJob, replay,
                   create, cap, clean, outcome>>

(* runModel's catch: a failure of a stale run is ignored, any other closes *)
(* the backend of the generation.                                          *)
RunFails(u) ==
    IF mod[u].gen # gen
    THEN GoRun(u, "cleanup") /\ UNCHANGED runtimes
    ELSE GoRun(u, "failMain") /\ CloseFailedBackend(gen)

RetryAwaited(u) ==
    /\ mod[u].pc = "waitRetry" /\ ~mod[u].cancelled
    /\ Awaited(u)
    /\ LET found == BackendFor(mod[u].gen)
       IN  IF found = None THEN RunFails(u)
           ELSE /\ mod' = [mod EXCEPT ![u].pc = "decoding", ![u].waits = None, ![u].runtime = found]
                /\ UNCHANGED runtimes
    /\ UNCHANGED <<control, mic, leases, history, jobs, replay,
                   create, cap, load, clean, outcome>>

(* The decoder returns the text, ...                                       *)
Decoded(u) ==
    /\ mod[u].pc = "decoding"
    /\ IF mod[u].gen = gen THEN mod' = [mod EXCEPT ![u].pc = "releasing"]
       ELSE GoRun(u, "cleanup")
    /\ UNCHANGED <<control, mic, leases, runtimes, history, jobs, replay,
                   create, cap, load, clean, outcome>>

(* ... or throws.                                                          *)
DecodeFails(u) ==
    /\ "decode" \in Faults
    /\ mod[u].pc = "decoding"
    /\ RunFails(u)
    /\ UNCHANGED <<control, mic, leases, history, jobs, replay,
                   create, cap, load, clean, outcome>>

(* modelLifecycle.release(runBackend, ...), then parakeetLease = null and  *)
(* clearBackend under the lock.  A reset in between would make its cleanup *)
(* release the runtime a second time, which does nothing.                  *)
ReleaseBackend(u) ==
    /\ mod[u].pc = "releasing"
    /\ live' = live \ {mod[u].runtime}
    /\ lease' = IF lease # None /\ load[lease].gen = mod[u].gen THEN None ELSE lease
    /\ backend' = IF BackendFor(mod[u].gen) = mod[u].runtime THEN None ELSE backend
    /\ GoRun(u, "deliver")
    /\ UNCHANGED <<control, mic, leases, history, jobs, replay,
                   create, cap, load, clean, outcome>>

(* withContext(Main): the text is handed to finished(), unless it is stale *)
Deliver(u) ==
    /\ mod[u].pc = "deliver" /\ ~mod[u].cancelled
    /\ GoRun(u, "cleanup")
    /\ outcome' = IF mod[u].gen = gen THEN [outcome EXCEPT ![u] = "delivered"] ELSE outcome
    /\ UNCHANGED <<control, mic, leases, runtimes, history, jobs, replay,
                   create, cap, load, clean>>

(* ... or blank: NoSpeechRecognizedException.                              *)
DeliverBlank(u) ==
    /\ "blank" \in Faults
    /\ mod[u].pc = "deliver" /\ ~mod[u].cancelled /\ mod[u].gen = gen
    /\ GoRun(u, "cleanup")
    /\ FailRecognition(gen)
    /\ UNCHANGED <<gen, runtimes, history, jobs, replay, create, cap, load, clean>>

(* ... or finished() throws: the editor did not take the text.             *)
DeliverThrows(u) ==
    /\ "editor" \in Faults
    /\ mod[u].pc = "deliver" /\ ~mod[u].cancelled /\ mod[u].gen = gen
    /\ RunFails(u)
    /\ UNCHANGED <<control, mic, leases, history, jobs, replay,
                   create, cap, load, clean, outcome>>

RunFailureShown(u) ==
    /\ mod[u].pc = "failMain" /\ ~mod[u].cancelled
    /\ GoRun(u, "cleanup")
    /\ FailRecognition(mod[u].gen)
    /\ UNCHANGED <<gen, runtimes, history, jobs, replay, create, cap, load, clean>>

(* runModel's finally, not cancellable: the Parakeet lease, the            *)
(* audio-history capture and the session of runGeneration are given back.  *)
RunEnds(u) ==
    /\ mod[u].pc = "cleanup"
    /\ mod' = [mod EXCEPT ![u] = Over]
    /\ IF lease # None /\ load[lease].gen = mod[u].gen
       THEN lease' = None /\ live' = live \ {lease}
       ELSE UNCHANGED <<lease, live>>
    /\ file' = IF backup # None /\ cap[backup].gen = mod[u].gen
               THEN [file EXCEPT ![backup] = "closed"] ELSE file
    /\ ReleaseModelSession(mod[u].gen)
    /\ UNCHANGED <<control, mic, backend, backup, jobs, replay,
                   create, cap, load, clean, outcome>>

-----------------------------------------------------------------------------
(* The user and the input method.                                          *)

(* finishRecognizerIfRecording                                             *)
PressFinish ==
    /\ isRecording
    /\ OnFinishRecording
    /\ stopReason' = IF stopReason = "none" THEN "Stopped" ELSE stopReason
    /\ UNCHANGED <<gen, mic, leases, runtimes, history, recorderJob, loadJob, replay,
                   create, cap, load, clean, outcome>>

(* reset(), also called by cancelRecognizer and by the input method when   *)
(* its session ends: everything the generation held passes to a cleanup.   *)
Reset ==
    /\ gen < MaxResets
    /\ Overlap \/ \A d \in Dictations : StartOver(d)
    /\ stopReason' = "Cancel"
    /\ StopAndReleaseRecorder(recorder)
    /\ gen' = gen + 1
    /\ isRecording' = FALSE
    /\ session' = None /\ backup' = None /\ backend' = None /\ lease' = None
    /\ recorderJob' = None /\ modelJob' = None /\ loadJob' = None
    /\ cap' = [u \in Dictations |-> IF u = recorderJob /\ cap[u].pc # "done"
                                         THEN [cap[u] EXCEPT !.cancelled = TRUE] ELSE cap[u]]
    /\ mod' = [u \in Dictations |-> IF u = modelJob /\ mod[u].pc # "done"
                                         THEN [mod[u] EXCEPT !.cancelled = TRUE] ELSE mod[u]]
    /\ load' = [l \in Loads |-> IF l = loadJob /\ load[l].pc # "done"
                                         THEN [load[l] EXCEPT !.cancelled = TRUE] ELSE load[l]]
    /\ ReplayReset(FALSE)
    /\ clean' = [clean EXCEPT ![gen] =
                   [due |-> TRUE, cap |-> recorderJob, mod |-> modelJob, load |-> loadJob,
                    runtime |-> IF lease # None THEN lease ELSE backend,
                    session |-> session, backup |-> backup]]
    /\ outcome' = [u \in Dictations |-> IF u = recorderJob /\ outcome[u] = "none"
                                        THEN "cancelled" ELSE outcome[u]]
    /\ UNCHANGED <<openSessions, live, file, create>>

(* variant: the run's job is not joined                                    *)
JoinedCaptureAndLoad(g) ==
    /\ clean[g].cap # None => cap[clean[g].cap].pc = "done"
    /\ clean[g].load # None => load[clean[g].load].pc = "done"

(* The jobs that reset() took over have ended.                             *)
Joined(g) ==
    /\ clean[g].cap # None => cap[clean[g].cap].pc = "done"
    /\ clean[g].mod # None => mod[clean[g].mod].pc = "done"
    /\ clean[g].load # None => load[clean[g].load].pc = "done"

(* The three jobs have ended: the capture is closed, the runtime released  *)
(* and the session token returned.                                         *)
Cleanup(g) ==
    /\ clean[g].due
    /\ Joined(g)
    /\ clean' = [clean EXCEPT ![g] = NothingDue]
    /\ file' = IF clean[g].backup # None THEN [file EXCEPT ![clean[g].backup] = "closed"] ELSE file
    /\ live' = live \ {clean[g].runtime}
    /\ openSessions' = openSessions \ {clean[g].session}
    /\ UNCHANGED <<control, mic, session, backend, lease, backup, jobs, replay,
                   create, cap, mod, load, outcome>>

-----------------------------------------------------------------------------
CreateNext(d) ==
    \/ Create(d) \/ ModelRequired(d) \/ SettingsRead(d) \/ PermissionResult(d)
    \/ AcquireSession(d) \/ AcquireSessionFails(d) \/ DeclineSession(d)
    \/ StartRecording(d) \/ RecorderDenied(d)

CaptureNext(u) ==
    \/ CaptureBegins(u) \/ CaptureNeverBegins(u) \/ CaptureCancelled(u) \/ LoopEnds(u)
    \/ Append(u) \/ AppendAtLimit(u) \/ KeepListening(u) \/ VadStops(u)
    \/ FinishFromCapture(u) \/ Epilogue(u) \/ CaptureCloses(u)

LoadNext(l) ==
    \/ LoadBegins(l) \/ LoadCancelled(l) \/ LoadSucceeds(l) \/ LoadFails(l)
    \/ LoadOutOfMemory(l) \/ Publish(l) \/ ReleaseUnpublished(l) \/ StreamLoaded(l)
    \/ LoadFailureShown(l)

RunNext(u) ==
    \/ RunDispatched(u) \/ RunNeverBegins(u) \/ JoinRecorder(u) \/ RunCancelled(u)
    \/ LoadAwaited(u) \/ RetryLoad(u) \/ RetryAwaited(u) \/ Decoded(u) \/ DecodeFails(u)
    \/ ReleaseBackend(u) \/ Deliver(u) \/ DeliverBlank(u) \/ DeliverThrows(u)
    \/ RunFailureShown(u) \/ RunEnds(u)

Next ==
    \/ \E d \in Dictations : CreateNext(d) \/ CaptureNext(d) \/ RunNext(d)
    \/ \E l \in Loads : LoadNext(l)
    \/ \E g \in Generations : Cleanup(g)
    \/ PressFinish
    \/ Reset

(* A dispatched coroutine is eventually run; what the user does, and when  *)
(* an utterance ends, is never promised.                                   *)
Resume(d) ==
    \/ ModelRequired(d) \/ SettingsRead(d) \/ AcquireSession(d) \/ AcquireSessionFails(d)
    \/ DeclineSession(d) \/ StartRecording(d) \/ RecorderDenied(d)

Fairness ==
    /\ \A d \in Dictations : WF_vars(Resume(d)) /\ WF_vars(CaptureNext(d)) /\ WF_vars(RunNext(d))
    /\ \A l \in Loads : WF_vars(LoadNext(l))
    /\ \A g \in Generations : WF_vars(Cleanup(g))

Spec == Init /\ [][Next]_vars
FairSpec == Spec /\ Fairness
-----------------------------------------------------------------------------
(* Safety.                                                                 *)

(* Every lease token acquired from the model lifecycle and not yet closed  *)
(* has exactly one owner that will close it: the start that is still       *)
(* deciding, the modelSession field, or the cleanup of the generation that *)
(* held it.  No token is lost and none is closed twice                     *)
(* (releaseModelSession, startRecordingWithModelSession, reset).           *)
HeldByCleanups == {clean[g].session : g \in Generations} \ {None}
SessionLeaseOwned ==
    /\ openSessions = {d \in Dictations : create[d].pc = "leased"}
                       \cup ({session} \ {None}) \cup HeldByCleanups
    /\ session # None => create[session].pc = "done" /\ session \notin HeldByCleanups
    /\ \A g \in Generations : clean[g].session # None =>
          /\ create[clean[g].session].pc = "done"
          /\ create[clean[g].session].gen = g

(* Whatever the fields hold belongs to the current generation: no stale    *)
(* load, capture or session is ever published into a newer dictation.      *)
FieldsAreCurrent ==
    /\ session # None => create[session].gen = gen
    /\ backend # None => load[backend].gen = gen
    /\ lease # None => load[lease].gen = gen
    /\ backup # None => cap[backup].gen = gen
    /\ recorder # None => cap[recorder].gen = gen
    /\ recorderJob # None => cap[recorderJob].gen = gen

(* The native runtime a run decodes with is not released under it, by its  *)
(* own generation's cleanup or by another coroutine.                       *)
RuntimeAliveWhileDecoding ==
    \A u \in Dictations : mod[u].pc = "decoding" => mod[u].runtime \in live

(* The only AudioRecord that runs is the one in the field, and its capture *)
(* coroutine is still there to read it and to release it.                  *)
MicrophoneOwned ==
    /\ micOn \subseteq {recorder}
    /\ \A u \in micOn : cap[u].pc # "done"

(* startRecording() never throws "Start recording when already recording": *)
(* a start whose token is accepted finds no recording under way.           *)
NeverStartTwice ==
    \A d \in Dictations : create[d].pc = "leased" /\ ~Declined(d) => ~isRecording

(* The engine keeps the promises of Dictation.                             *)
Stage(u) ==
    IF outcome[u] # "none" THEN outcome[u]
    ELSE IF mod[u].pc # "idle" THEN "processing"
    ELSE IF cap[u].pc # "idle" THEN "recording" ELSE "idle"
Screen == INSTANCE Dictation WITH
    Utterances <- Dictations, NoUtterance <- None,
    stage <- [u \in Dictations |-> Stage(u)], current <- recorderJob
ImplementsDictation == Screen!Spec

(* An active dictation keeps its model session from the first sample to    *)
(* the end of the decoding, so that no installation or benchmark gets in.  *)
SessionHeldWhileDictating ==
    /\ isRecording => session = recorderJob
    /\ \A u \in Dictations : mod[u].pc = "decoding" =>
          \E d \in openSessions : create[d].gen = mod[u].gen

(* A loaded runtime can always be reached by a coroutine that will release *)
(* it: no interleaving of load, retry, failure and reset leaks one.        *)
RuntimesOwned ==
    live \subseteq {l \in Loads : load[l].pc = "publish"} \cup {backend, lease}
                   \cup {mod[u].runtime : u \in Dictations}
                   \cup {clean[g].runtime : g \in Generations}

(* Every sample recorded for a streaming backend, before or after it was   *)
(* loaded, has reached the backend that is asked for the transcript.       *)
StreamedAudioComplete ==
    \A u \in Dictations :
        mod[u].pc = "decoding" /\ mod[u].gen = gen => heard[u] \in {"empty", "live"}

-----------------------------------------------------------------------------
(* Liveness.                                                               *)

(* A dictation that was stopped ends: in its text, in a failure that is    *)
(* shown, or in a cancellation.                                            *)
StoppedDictationEnds ==
    \A u \in Dictations : mod[u].pc = "dispatched" ~> outcome[u] # "none"

(* After a reset, everything the old generation held is given back for     *)
(* good: the microphone, the session tokens, the runtimes and the          *)
(* audio-history capture.                                                  *)
GivenBack(g) ==
    /\ \A u \in micOn : cap[u].gen # g
    /\ \A d \in openSessions : create[d].gen # g
    /\ \A l \in live : load[l].gen # g
    /\ \A u \in Dictations : cap[u].gen = g => file[u] \in {"none", "closed"}
ResetGivesBack == \A g \in Generations : gen > g ~> []GivenBack(g)

-----------------------------------------------------------------------------
(* Claims of the repository's documents that the code does not keep.       *)

(* A recording does not start for a create() that a reset has overtaken.   *)
ResetStopsPendingStart ==
    [][\A d \in Dictations : recorderJob' = d /\ recorderJob # d => create[d].born = gen]_vars

(* While the screen shows a recording, a capture coroutine reads it.       *)
RecordingIsCaptured == isRecording => cap[recorderJob].pc \notin {"closing", "done"}

=============================================================================
