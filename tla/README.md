# Verification of the voice-input engine

TLA+ modules, TLC configurations and TLAPS proofs about voice-input, an Android
input method and recognizer that records speech, transcribes it on the device
and types the text. `V/` below stands for
`src/app/src/main/java/org/futo/voiceinput/`, and `N/` for
`src/app/src/main/cpp/`.

## 1. The system

| component | state it keeps | operations | talks to | hard behaviour | what makes it correct |
|---|---|---|---|---|---|
| dictation engine, `V/AudioRecognizer.kt` | the generation, the stop reason, the recorder, the three jobs, the backend and Parakeet lease, the session token, the audio-history capture, the replay of streamed audio | `create`, permission answers, `startRecording`, `finishRecognizerIfRecording`, `reset`; coroutines that capture, load, run and clean up | all of the following | Main-thread handlers against three coroutines on `Dispatchers.Default`; cancellation that is noticed late; failures at each step | nothing of an ended generation reaches the next one; every resource has one owner; a stopped dictation ends |
| recognizer screen, `V/RecognizerView.kt` | the error card, partial text, the finalizer's job | starts, taps, results | engine, finalizer | callbacks of an utterance that is over | one result per utterance |
| model lifecycle, `V/recognition/RecognitionModelLifecycle.kt`, `V/parakeet/ParakeetEngineManager.kt` | active sessions and runtimes, benchmark ownership, the warm engine, its leases and timer | acquire and close a session, load, release, activate, delete, benchmark | store, engine, comparison | a mutex, a revision that is waited on, a timer in a scope that ends | no model is replaced or closed in use; who waits gets its turn |
| model store, `V/recognition/RecognitionModelCatalog.kt` | directories: installed, staged, previous; journal; marker | `recover`, `activateStaged`, `delete`, `invalidate` | file system | crash or failing move at each step | installation is atomic |
| downloads, `V/downloader/` | the partial file, range checkpoints, identity, sequential file | resume, ranges, fallback, promotion | server, store | crash, cancellation, servers without ranges | a checkpoint never promises missing bytes; only a verified file is installed |
| audio history, `V/history/` | audio and text files, the set in use | begin, append, close, delete, clear, purge, retranscribe | engine, settings page | pins, expiry against use | what is in use stays; what is deleted is not resurrected |
| text insertion, `V/ImeInsertionSession.kt`, `V/VoiceInputMethodService.kt`, `V/RecognizeActivity.kt` | the composing span, the ends not yet acknowledged | partial, finish, cancel, selection reports | editor, engine | late and foreign selection reports | only the session's own text is replaced |
| streaming backends, `V/nemotron/`, `V/moonshine/` | the queue of samples, the worker | accept, finish, close | engine | close against accept | the samples are transcribed in order, once |
| batch backends, `V/asr4all/`, `V/cohere/`, `V/ml/`, ... | none shared | load, transcribe, close | native libraries | - | - |
| cleanup service, `V/s1/` | the request, the bindings, the warm lease | normalize, cancel, unload | a process of its own | dying process, late cancellation | a reply goes to its request |
| finalizer, `V/TranscriptFinalizer.kt`, `V/harper/` | none | vocabulary, corrections, fallback | screen | a stage that fails | the text survives |
| microphone routing, `V/MicrophoneRouting.kt`, `V/AndroidMicrophonePlatform.kt` | the route, listeners | choose, observe | Android | devices come and go | the shown route is the used one |
| diagnostics, `V/diagnostics/` | rotating files | append, export | everyone | rotation, a crash in between | - |
| comparison, `V/benchmark/` | runs, ownership of the runtimes | run, cancel | lifecycle, history | cancellation | ownership is given back |
| settings, payment, updates, themes, migration | preferences | screens | - | - | - |
| whisper decoding, `N/voiceinput.cpp`, `N/ggml/whisper.cpp` | the window, the earlier text, up to 5 decoders, the key-value cache they share | encode, decode, sample, reorder, rank, seek | ggml | decoders that exchange sequences, a cache searched for contiguous cells, windows in which everything fails | each decoder attends to its own sequence; no text is lost; the inference ends |
| compute graphs, `N/ggml/ggml.c`, `N/ggml/ggml-alloc.c` | the graph, one buffer, the threads' position | build, place, compute | whisper | memory given back and taken over while threads compute; a barrier without locks | no source is overwritten before its last reader; every thread ends |
| quantisation, backends and other JNI, `N/` | tables, handles | kernels, JNI | - | - | - |

`PROJECT.json` lists for each component what is modelled, and under `hazards`
every place where this code is hard to test.

## 2. Modules

| module | what it is |
|---|---|
| `Dictation` | abstract: what whoever looks at the screen is promised about an utterance |
| `RecordingSession` | the dictation engine, `V/AudioRecognizer.kt`; shown to implement `Dictation` |
| `RecordingSession_proofs` | theorems about it and their proofs, with overlap and preemption |
| `RecordingSession_turns_proofs` | theorems about it when starts take turns, the refinement of `Dictation` among them |
| `RecordingSession_races_proofs` | theorems about it when starts race but no dictation fails, the refinement again among them |
| `MCRecordingSession` | the sets of failures TLC explores |
| `ModelLifecycle` | the companion object of `RecognitionModelLifecycle` and `ParakeetEngineManager` |
| `ModelLifecycle_proofs` | theorems about it and their proofs |
| `InstalledModel` | abstract: an atomic store of one model |
| `ModelStore` | `RecognitionModelStore` of `V/recognition/RecognitionModelCatalog.kt`, file operation by file operation; shown to implement `InstalledModel` |
| `ModelStore_proofs` | theorems about it and their proofs, the refinement among them |
| `S1Cleanup` | `V/s1/`: client, service and native library of the transcript cleanup |
| `S1Cleanup_proofs` | theorems about it and their proofs |
| `KvCache` | the self-attention cache of the text decoder, `N/ggml/whisper.cpp` |
| `WhisperFull` | `WhisperGGML_infer` and `whisper_full_with_state`; uses `KvCache` |
| `WhisperFull_proofs` | theorems about it and its cache, and their proofs |
| `GraphAllocator` | graph construction and `N/ggml/ggml-alloc.c`, as functions of a graph |
| `GraphCompute` | a graph built, placed and computed by threads; uses `GraphAllocator` |
| `GraphCompute_proofs` | theorems about both, and their proofs |

A definition introduced by "a variant" is a way the code could have gone wrong;
nothing uses it but the mutants of `PROJECT.json`, which show that each property
tells the variant from the code.

The modules meet where the components do. `RecordingSession` uses the lifecycle
through tokens and leases and does not see its mutex; `ModelLifecycle` has the
mutex and sees of a dictation only that it takes a session, loads, uses, and
releases its runtime (twice on a failure). `ModelStore` has the same mutex
around directories instead of runtimes, and the readers that do not take it.

### RecordingSession

A handler that runs on the Main thread without suspending is one action
(`StartRecording`, `PressFinish`, `Reset`, `FinishFromCapture`, ...). A
coroutine on `Dispatchers.Default` is a record with a program counter: `cap[u]`
(the capture of utterance u), `mod[u]` (its model run), `load[l]` (a model load;
load d is launched by `startRecording` for dictation d, load `RetryOf(d)` by d's
run when it finds no backend), `create[d]` (the coroutine of the d-th
`create()`) and `clean[g]` (what the reset that ended generation g launched). A
program counter advances from one access of shared state, or one suspension, to
the next. Cancellation is a flag, as in a Kotlin `Job`: it is noticed where the
coroutine suspends, native code is never interrupted, and a
`withContext(Dispatchers.Main)` block does not run in a cancelled coroutine. The
`finally` blocks run under `NonCancellable`.

| variables | fields of `AudioRecognizer` |
|---|---|
| `gen`, `stopReason`, `isRecording` | `recognitionGeneration`, `stopReason`, `isRecording` |
| `recorder`; `micOn` | `recorder`; the `AudioRecord`s that run |
| `session`; `openSessions` | `modelSession`; the tokens that `RecognitionModelLifecycle.acquireSession` has given out and that are not closed |
| `backend`, `lease`; `live` | `backend`, `parakeetLease`; the runtimes loaded and not released |
| `backup`, `file` | `audioCapture`, the file of each utterance |
| `recorderJob`, `modelJob`, `loadJob` | the jobs of those names |
| `stream`, `heard` | `StreamingAudioReplay`, and where the audio of each utterance went |
| `outcome` | what the user was last told of an utterance |

The repository's own notion of an owner is kept: a token, a runtime and a
capture carry the generation of the coroutine that made them, and the guards
compare it exactly where the code does.

What is abstracted: `Manual`, `Vad` and `DurationLimit` differ only in how much
of the recorder's buffer is drained, and are one value, "Stopped". Samples are
not counted: `heard` says whether the audio of an utterance is queued, has
reached the backend, or is lost to it. A release of a runtime and the clearing
of the field that follows it are one step, since a second release does nothing;
so are the parts of `runModel`'s `finally` and the loop test and the read behind
it. The runtime mutex of the lifecycle is not in this module. An `AudioRecord`
whose constructor fails, and an `IllegalStateException` thrown to the Main
looper, end the process and are not steps of the model.

Parameters and bounds:

* `MaxDictations`, `MaxResets`: how often `create()` and `reset()` are called.
* `Parakeet`, `Streaming`, `KeepAudio`: the kind of backend and whether the
  audio history is on. No backend is both, which `ConstantsAssumption` states.
* `Overlap`: may a start overlap a reset or another start? In the application it
  may: `create()` suspends to read the settings and to acquire a session, and
  nothing cancels it.
* `Preemption`: may a thread be preempted between two adjacent accesses of the
  fields, such as a check and its use?
* `Faults`: which of nine failures may occur: no permission, no session, a
  recorder that stops delivering, an unwritable history, a load that throws or
  runs out of memory, a decoder that throws or returns nothing, an editor that
  does not take the text.

Two dictations and one reset let an old generation's capture, load, run and
cleanup meet a complete new dictation; the third start of `races` lets two
starts compete in the new generation while the old one unwinds. Everything the
engine compares is one generation with the current one, so that a second reset
brings no new relation between two coroutines.

### ModelLifecycle

| variables | code |
|---|---|
| `mutex`, `benchmarkOwned`, `activeSessions`, `activeRuntimes` | `runtimeMutex` and the fields of those names of the companion object |
| `changed` | whether `runtimeChanges` has moved since the activation read it: `first { it != revision }` waits for just that |
| `files` | which copy of each model's files is on disk |
| `engine`, `activeLeaseIds`, `unloadJob` | `backend`, `activeLeaseIds` and `unloadJob` of `ParakeetEngineManager` |
| `pc`, `chosen`, `records`, `retries` | what a dictation or retranscription is doing |
| `installer`, `target` | the coroutine in `activate` |

Everything in `ParakeetEngineManager` happens under the manager's own mutex:
nobody sees an operation half done, so each of its outcomes is one step. An
`acquire()` hands out a lease, or throws after it has cancelled the timer
(`AcquireFailed`): the engine does not load, or the settings cannot be read for
the warm one. A backend whose first load fails or is cancelled on its return is
never stored in the field and is left to the garbage collector; `engine` does
not see it. `runtimeMutex` spans the load of a runtime and an activation and is
held over several steps, because sessions and comparisons end, timers fire and
screens are destroyed without it. A close cut short by a cancellation is an
outcome of each close (`torn`). `lost` says that the timer went without
unloading: with the scope of a destroyed screen, or in an `acquire()` that then
failed.

A client chooses `Parakeet`, `Other` (a backend of its own) or `Legacy`, which
is Whisper: the one card of the catalog without a `RecognitionModel`
(`RecognitionModelCatalog.kt:354`). `acquireRuntime` registers a runtime only
under its model, so that one is in `activeRuntimes` at no time, and a session
with it has a key that no model has. An installation that fails to load loses
its completion marker (`invalidateInstallation`); that is a step of `ModelStore`
and leaves `files` as they are.

### ModelStore

Three processes move the directories of one model: the installer (`activate`,
with `runtimeMutex`), the keeper (deletes the model, or loads its runtime and
invalidates it when it does not load; with `runtimeMutex`) and the screen
(`readiness`, without it). Each of `validateStaged`, `recover`,
`isExactInstalled`, `activateStaged`, `delete` and `invalidate` advances one
file operation at a time: journal, move to the backup, move into place,
verification, deletion of the journal, deletion of the backup. `lock` is
`storageLock`. Every move and deletion may fail, an interrupted recursive
deletion leaves a directory without a file and perhaps with its marker, and the
process may die between any two operations, perhaps to return with a newer
application and so a newer version in its catalog (`app`). A directory is the
version its artifacts are a whole copy of, and the version its marker names:
hashing decides just that.

### S1Cleanup

`req`, `answer`, `warm`, `timer`, `settings` are the application
(`S1MiniClient`, `S1MiniWarmBindingLease`, the settings' unload); `inbox`,
`alive`, `looper`, `activeJob`, `unloader` the service; `job`, `cancelled` the
coroutines; and `g_mutex`, `g_cancelled`, `g_model` the globals of
`N/s1mini_jni.cpp`. `onDestroy` is two steps, because it blocks on `g_mutex` in
between. Messages reach one looper in the order sent; one to a destroyed
instance still reaches its handler, whose scope starts no coroutine (`live`).
Android may refuse to bind, destroy an unbound service, kill the process, or ask
to trim memory.

### WhisperFull and KvCache

`pc` follows `whisper_full_with_state`: window, prompt, sampling, update of each
decoder's end, decoding, ranking. `kv` is the cache: the position and the
sequences of each cell, and who computed it, so that attending to a cell of
another decoder's token shows. `Scan` is the search of the code, wrap-around and
counter included; `FindSlot` says what it finds, the first place that fits from
the head on, and otherwise the first one from the start. The runs and proofs use
`FindSlot`, and `SearchIsFirstFit` says that in every reachable cache the two
agree. The reordering of a beam is done as the code does it, by
`seq_cp` to temporary ids, `seq_rm`, and `seq_cp` back. Probabilities are not
computed: a decoder samples any token `whisper_process_logits` leaves possible
(pairs of timestamps, no timestamp before the last, none above `max_initial_ts`
first, no second text without one at the start), beam candidates are taken in
any order, and any ranking is possible. The parameters are those
`WhisperGGML_infer` passes: one temperature, so no retry of a window; no
grammar; a language is forbidden through the abort callback, whose answer does
not change.

### GraphAllocator and GraphCompute

A graph is any sequence of at most `MaxTensors - 2` operations of five kinds: a
matrix product (needs the work buffer and an INIT phase), an element-wise sum
(may take over the memory of its first source), a scale (in place, one thread),
a view, and a copy into the cache (memory of another buffer). These are the
kinds among those in whisper's graphs that differ in how they share memory and
work, but for one: `N/ggml/whisper.cpp:2375` and `2469` also copy into a fresh
tensor of the same buffer, and that copy is not modelled. It is placed once to measure the buffer and once in a buffer of that size,
as `whisper_allocr_graph_init` and `_realloc` do. Threads then run
`ggml_graph_compute_thread`: `n_active` and `node_n` are the shared atomics, and
each access to them is a step. `memory` remembers per cell which tensor was last
written there, so a source overwritten early shows.

The recursion of `ggml_visit_parents` and the loop over the nodes in `Measured`
are recursive functions. `InTurn` is a loop over the sources of an operation, or
the results of a graph, of which there are at most two here. The two counts of
the first pass of the allocator are the cardinalities of what they count (`Uses`,
`ViewsOf`).

## 3. Runs

| run | checks | bounds | states |
|---|---|---|---|
| `races` | `MicrophoneOwned`, `NeverStartTwice` | 3 starts, 1 reset, overlap, no failure | 1.9 million |
| `overlap` | `TypeOK`, `SessionLeaseOwned`, `FieldsAreCurrent` | 2 starts, 1 reset, overlap, Parakeet, history, failing loads | 741 thousand |
| `faults` | `SessionHeldWhileDictating`, `RuntimesOwned`, `RuntimeAliveWhileDecoding`, `StreamedAudioComplete`, `ImplementsDictation` | 2 starts, 1 reset, streaming, history, all failures | 648 thousand |
| `liveness` | `StoppedDictationEnds`, `ResetGivesBack` | 2 starts, 1 reset, Parakeet, history, a failing read, load or decoder | 82 thousand |
| `late_start` | `ResetStopsPendingStart`: violated | 2 starts, 1 reset, overlap | |
| `stale_vad` | `RecordingIsCaptured`: violated | 2 starts, 1 reset, overlap | |
| `ghost_run` | `SessionHeldWhileDictating`: violated | 2 starts, 1 reset, preemption | |
| `model_lifecycle` | `TypeOK`, `EngineOpenWhileLeased`, `IdleEngineScheduled`, `ComparisonAlone`, `FilesInUseUntouched`, `ActivationEnds` | 2 clients with 3 runs, 2 activations, deletions or comparisons | 1.07 million |
| `model_store` | `TypeOK`, `RuntimeFilesUntouched`, `DeletedStaysDeleted`, `ImplementsInstalledModel` | 2 versions, 3 downloads, 2 crashes, 2 failing operations | 198 thousand |
| `s1_cleanup` | `TypeOK`, `ModelOwned`, `CancelledOnlyWhenDisturbed`, `NoModelWithoutService`, `UndisturbedAnswered` | 2 requests, 1 unload or trim, 1 death | 283 thousand |
| `whisper` | `TypeOK`, `OwnHistory`, `SearchIsFirstFit`, `CacheSuffices`, `PositionsInContext`, `RankedHasResult`, `SplitKeepsText`, `Ends` | greedy and a beam of 2, context of 10, cache of 13, audio of up to 2 windows | 193 thousand |
| `ggml_graph` | `TypeOK`, `SourcesReadIntact`, `FreeBlocksSound`, `NothingLeaked`, `ComputeEnds` | 2 threads, up to 5 tensors of size 1 or 2 | 207 thousand |

Deadlock is not checked in any run: a system in which the user starts nothing
more, the process does not die and no thread is left to run has stopped.

### Dictation engine

`ImplementsDictation` is refinement: the variables of `Dictation` are
`Stage(u)`, computed from the outcome and from how far the run and the capture
of u have come, and `recorderJob`.

What the three violations show, and what limits the passing runs:

* **late_start.** `create()` is not cancelled by `reset()`. It reads
  `recognitionGeneration` only when it resumes, takes the generation after the
  reset for its own and starts the microphone for a screen that was left.
* **stale_vad.** When the detector of a cancelled capture decides, it writes
  `stopReason` with neither lock nor generation check. If the next dictation has
  started by then, its capture leaves the loop; its epilogue sees a stop reason
  and does nothing; the recorder is released; and the screen goes on recording
  nothing.
* **ghost_run.** A cancelled run that is past its join reads the next
  dictation's generation in `runModel()`; it then ends as if it were that
  dictation's run and returns its session. This needs a thread that is preempted
  between the join and the next instruction. With one more dictation it also
  breaks `MicrophoneOwned`, `NeverStartTwice` and `ImplementsDictation`; the
  passing runs therefore leave `Preemption` out, and so do not speak about such
  schedules. Of the theorems below, those of `RecordingSession_proofs` do.

With overlapping starts and a failing load together,
`SessionHeldWhileDictating`, `RuntimesOwned`, `RuntimeAliveWhileDecoding` and
`ImplementsDictation` fail too: the second start of one generation may be
accepted after the first one has failed while its run still unwinds, and an old
run then passes for current. This is why `faults` keeps starts apart.

### The other runs: bounds, and what limits the properties

* **model_lifecycle.** Two clients and three runs let a runtime be leased,
  returned to the warm engine, leased again and used beside another; two changes
  let a comparison or deletion meet a waiting activation. `activeLeaseIds` and
  `activeRuntimes` are sets keyed by client, and every test on them asks whether
  they are empty or hold a given model. `EngineOpenWhileLeased` and
  `IdleEngineScheduled` except what the code does not do: a close that is
  cancelled while it waits on another dispatcher leaves the closed backend in
  the field, and the next `acquire()` hands it out (`torn`); the timer of a
  destroyed screen is gone, or an `acquire()` cancels the timer
  (`ParakeetEngineManager.kt:30`) and then fails to read the settings for the
  warm engine (line 35), and the engine stays warm until someone else uses it
  (`lost`). `ComparisonAlone` excepts Whisper: a retranscription with it has
  neither a session nor a registered runtime, and `acquireBenchmark` lets a
  comparison start beside it, although the plan for the benchmark says to run one
  recognition model at a time (`docs/plans/recognition-model-benchmark.md:51`).
  A dictation with it keeps its session until its decoder is done, which is
  `SessionHeldWhileDictating` of the engine. `ActivationEnds`
  excepts a retranscription whose `close()` threw: it releases once, its runtime
  stays registered, and activations of that model wait for good.
* **model_store.** Two versions give a reinstallation and an upgrade across a
  crash, with the older version's files still staged; with two crashes the
  second can hit the recovery from the first, and with two failures the
  restoration after a failed move fails too. `DeletedStaysDeleted` holds only up
  to one failure: after two, the backup of the failed activation outlives the
  deletion, which does not recover first, and the next `readiness` restores it.
* **s1_cleanup.** One global flag and one lock relate at most the running job,
  the next one, and one unload. A cancellation names no request: one that is
  late stops the newer job, and the unload's coroutine sets the flag whoever
  runs by then. `CancelledOnlyWhenDisturbed` and `UndisturbedAnswered` count
  such requests as disturbed, and say that nothing else aborts or delays one.
* **whisper.** The sizes keep the proportions that matter. The prompt takes at
  most half the context, a sequence is half less the slack, and the cache has
  room for exactly the longest prompt and both sequences: with one cell less the
  run fails. The last position is as tight (447 of 448 in the application). The
  argument carries over to the application: 229 + 5 * 220 = 1329 cells of 1344,
  so the worry of the comment at `N/ggml/whisper.cpp:3058`, that the cache may
  not suffice in theory, does not arise for its 5 decoders. `RankedHasResult`
  speaks of decoders that did not fail: when all fail, the first one's uncut
  tokens become the text of the window while the seek follows the last
  timestamp, so the tail of the window may be transcribed twice.
* **ggml_graph.** Three operations over two leaves give the shapes the allocator
  distinguishes: a source with one or more readers, a view, a view of a view, an
  in-place chain, a block between two free ones. Five tensors are too few for an
  operation that reads the cache after the copy into it; of those the theorem
  `SourcesStayIntact` speaks, and not the run. The invariants were also
  simulated on graphs of up to nine tensors (60 million states). That the
  measured buffer suffices is not claimed: the code relies on it for the graph
  it measured and for all smaller ones, and best fit promises neither, since it
  treats the last block apart (`N/ggml/ggml-alloc.c:107`) and the measured
  buffer may have no last block left; the simulation met an eight-tensor graph
  whose second placement fails, at the assertion. `NothingLeaked` leaves out the
  one leak of the code's own (`PartTaken`), which needs eight tensors too.

### Fairness

`RecordingSession!FairSpec` asks weak fairness of every coroutine: a dispatched
coroutine is eventually run (`Dispatchers.Default` and the Main looper serve
their queues), a blocking read of the recorder returns, and a native load or
decode returns or throws. Nothing is asked of the user: `Create`,
`PermissionResult`, `PressFinish` and `Reset` may never occur, and the detector
need never find the end of speech, so that liveness is claimed only of a
dictation that was stopped (`StoppedDictationEnds`) and of a generation that was
reset (`ResetGivesBack`).

`ModelLifecycle` asks weak fairness of a client that has a session, a load or a
release under way, of each step of the activation (a Kotlin `Mutex` serves its
waiters in order, and every holder's steps are fair) and of the end of a
comparison. No one need ever start anything, and no timer need fire. `S1Cleanup`
asks it of main threads, of coroutines that were dispatched, of the lock and of
a decoding, and not of timeouts, unloads, the destruction of the service or
deaths. `GraphCompute` asks it of each thread, which the operating system
schedules; the spinning step is no progress of its own. `WhisperFull` is
sequential and asks it of `Next`: the function goes on until it returns.
`ModelStore` states safety only.

## 4. Proofs

**RecordingSession.** `RecordingSession_proofs` proves, for any number of
dictations and resets, every kind of backend, every set of failures, with
overlap and preemption, from `ConstantsAssumption` alone:

* `TypeCorrect`: `Spec => []TypeOK`. It is inductive as it stands; one lemma per
  helper says what the helper does to the types of the fields it assigns.
* `FieldsCurrent`: `Spec => []FieldsAreCurrent`. Not inductive: a publication
  writes the field because the load's generation is current, but a load that had
  not yet read its generation could still change it. `FieldsAreSettled` adds
  that a published load and a kept start no longer change theirs, that a
  Parakeet lease is never held without a backend (so `loadModel()`, which looks
  at the backend only, dispatches no load whose lease is held), and that a run
  that decodes has a runtime (so its release clears the field of that runtime
  only).
* `SessionsOwned`: `Spec => []SessionLeaseOwned`. Here `CleanupsArePast` is
  added: a cleanup holding a token belongs to a generation that has ended, so
  that no reset overwrites it. The step of `Reset` needs `FieldsAreCurrent`: the
  token it takes over is of the generation it ends.

`RecordingSession_turns_proofs` proves, again for any number of dictations and
resets, every kind of backend and every set of failures, what the runs `races`
and `faults` say: `MicrophonesOwned`, `RuntimesAlive`, `RuntimesReachable`,
`SessionsHeld`, `StreamsComplete` and `KeepsPromises`, the refinement of
`Dictation`. Its hypothesis is `InTurn`: starts do not overlap, and
no thread is preempted between two adjacent accesses. Both halves are needed.
Section 3 shows what a preempted thread breaks (`ghost_run`); and with
overlapping starts and failures TLC refutes each of the six (`MicrophoneOwned`
with three starts and a failing load) and `NeverStartTwice`, which says nothing
where starts do not overlap. The hypothesis is
what an application would have in which `reset()` cancels a pending `create()`.

The inductive invariant `TurnsInv` says where everything is:

* `Jobs`: at most one start is pending, and only while nothing is on the screen,
  where the fields hold nothing; every capture, load and run is the one its
  field names, with the current generation, or was cancelled by a reset and has
  an older one. No run ever loads a model itself: the start's load succeeds, or
  the dictation has failed.
* `MicrophoneHeld`, `RecordingKnown`: the recorder belongs to the utterance on
  the screen, whose capture is not done. `RecordingKnown` keeps a failed
  dictation from being stopped, and so from a second run.
* `BackendKept`: until a run releases it, the loaded runtime is in the field and
  the session is held. `StaleRunsKept` and `CleanupsKnown` say the same of a run
  that a reset has cancelled while it decodes: the cleanup holds both and waits.
* `OutcomesKnown` relates what was shown to how far the run is, for the
  refinement; `StreamKnown`, what the replay holds.

For the refinement, `StartRecording` is `Start`, a stop by hand, detector, limit
or failing read is `Stop`, the end of a run `Deliver`, a failure of the current
dictation `Fail`, and `Reset` `Leave`; every other step, stale failures
included, is shown to stutter.

`RecordingSession_races_proofs` proves five of the six again, the refinement
included (`MicrophonesOwnedInRaces`, `RuntimesAliveInRaces`,
`RuntimesReachableInRaces`, `SessionsHeldInRaces`, `KeepsPromisesInRaces`), and
that no start finds a recording under way (`StartsOnceInRaces`), with starts that
overlap resets and each other as they do in the code. This is the regime of the run `races`, for any number of
dictations and resets and every non-streaming backend. Its hypothesis is
`Unfailing`: of the failures only those that fail no dictation under way (no
permission, a microphone that stops, an unwritable history), no streaming and no
preemption. With overlap and a failing load TLC refutes the properties (section
3), and with overlap and streaming `StreamedAudioComplete`, since a second start
empties the replay that the first records into; the other properties are not stated for
that case. The two modules together say that overlapping starts alone do no harm
to a backend that does not stream, that failures alone do none to any, and that
both together do.

The inductive invariant `RacesInv` differs from `TurnsInv`. Starts pend at any
time, so that nothing can be concluded from a quiet screen; the model session is
the lock. `OneAtATime`: while a dictation holds it, that dictation is the one
that `recorderJob`, `loadJob` and, once started, `modelJob` belong to, and while
none does, nothing is recorded and no backend is there. A start whose token is
kept therefore finds none (`StartFindsNone`). `CapturesHeld`, `LoadsHeld` and
`RunsHeld`: every coroutine of another dictation is over, or was cancelled by a
reset and is of an older generation. `CancelledRunsKept`: a cancelled run that
still decodes keeps its runtime and its session, because the cleanup of its
generation holds both and waits for it. TLC checked the parts over three starts
and two resets, with Parakeet, before they were proved.

**ModelLifecycle.** For any sets of clients and bounds, from
`LifecycleAssumption`: `TypeCorrect`, `EngineOpen`, `IdleScheduled`,
`ComparisonsAlone` and `FilesUntouched`, which are the type invariant, the three
safety invariants and the action property of the run. The inductive invariant
`IInv` adds to `TypeOK` and `ComparisonAlone`: `RuntimeKnown` (what is
registered for a client is the model it chose, if that has one, while it uses
it or could not close it, and nothing otherwise), `LeaseHeld` (a client that uses Parakeet is in
`activeLeaseIds`, the timer runs only without leases, and an engine is left
closed only by a close cut short) and `ActivationAlone` (while an activation has
the mutex, its model is in no session and no runtime). The engine is then open
because every step that closes it requires no lease, or no Parakeet runtime.

**S1Cleanup.** For any requests, unloads and deaths, from `CleanupAssumption`:
`TypeCorrect` (with: the lock is held by exactly the job inside the library),
`ModelStays`, `CancelledExplained` and `NoModelLeft`. The type of `job` is not
inductive without `SentOnce`: were a request handled twice, the second message
would put a job that holds the lock back into the queue; so no two messages in
the inbox ask for the same request, and what is in the inbox has no job yet.
`InboxKnown` adds that a live message finds an instance alive, so that no job is
queued in a process without service, which `NothingLeft` needs. `FlagExplained`
adds to the cancellation that a job inside the library with the flag set was
already disturbed: the flag is cleared under the lock it then holds.

**ModelStore.** For any versions and any number of crashes, failing operations
and downloads, from `StoreAssumption`: `TypeCorrect`, `RuntimeFiles`,
`DeletedStays`, and `Implements`, the refinement of `InstalledModel`. The
inductive invariant `IInv` is one for all four. `LocksHeld` says who is inside
which lock at each label; `DirectoriesSound`, that a marker or a whole set of
artifacts is inside a directory that exists; `StagesReached`, what each step of
an activation and of a recovery has established for the next one.
`NothingToRestore` is what keeps a deleted model deleted, and it needs
`UnfinishedKnown`: an activation whose backup is still there is under way, or is
being undone after a first fault, as long as somebody knows of an installed
version; so a deletion meets none. For the refinement, each file operation is
shown to leave the abstract store alone, except the placement of a first
version, the commit of a later one, and the stages of a removal.

**WhisperFull.** For any beam, context, cache, prompts and audio, from
`WhisperAssumption` and `SizeAssumption`: `PositionsKnown` and `RankedResults`;
and under `SizeSuffices`, that the cache holds the longest prompt and a whole
text for each decoder, `CacheEnough`: no search for a slot fails. The
application satisfies the hypothesis (1329 of 1344 cells, section 3). The
positions are bounded because a text ends at `MaxText`, and `NoStampsNoResult`
is needed to see that a window without timestamps, whose prompt is one token
longer, ends one token earlier. The cache suffices because of the frontier
(`RoomAhead`): cells beyond the prompt and what all decoders have appended were
never used, so the first fit is before them, however the reordering has left
holes. The least element that `FindSlot` chooses exists by `LeastOf`, from the
well-foundedness of the natural numbers: an induction that needs no theorem with
an operator as its parameter.

The cache itself has a second invariant, `HistoryInv`: `CellsKnown`, whose
cells, owners and sequences exist and which sequences are empty; `Lengths`, how
long the text of each decoder is at each label; and `Histories`, that a live
decoder attends to exactly one cell for each position up to its own and that
this cell was computed from its own text. From it follow `TypeCorrect` (with the
fields of a decoder in `Scalars`), `OwnHistories`, and `SearchFirstFit`.
`Histories` survives the reordering of a beam because of `MovedForm`: copying by
way of temporary ids leaves each sequence with the cells of the decoder it was
taken from, whatever the permutation. The search and the splitting of segments
are recursive functions, and their existence, which SMT does not give, comes
from a least argument where they would not exist (`UpTo`). `ScanIsFindSlot`
follows the search by what is left of its counter (`Left`): a probe fails past
the end, jumps over the obstacle, or wraps around once. `SplitsKeepText` follows
the segments by what is left of the text.

**GraphCompute.** For any sequence of operations, any sizes, buffer and number of
threads, from `GraphAssumption`: `TypeCorrect`, `FreeBlocks`,
`SourcesStayIntact` and `NothingIsLeaked`. The inductive invariant has four parts;
the third rests on the two before it, the fourth on the first.

1. *The graph and its allocation*, `GraphInv` (`GraphKept`). A graph under
   construction is well-formed (`GraphOK`), and the visit of
   `ggml_build_forward_impl` yields an order in which every source comes before
   its reader (`OrderOK`, by induction over the tensors). While nodes are placed,
   `Sound` holds: the free blocks are sorted and do not touch, a tensor lies
   within the buffer and within what it is a view of, and one whose cells are
   still held, by readers of its own or of a view or a taker, shares no cell with
   a free block. `Held` and not the count of readers alone is what is inductive:
   a source may be read out while a view of it is not. The counts are those of
   the uses left (`Uses`), which `CountsAre` shows for the first pass and
   `DropBoth` keeps. An operation that takes over its source does so before the
   readers of both are dropped; that the taking commutes with the dropping
   (`TakeCommutes`) makes the two orders of the sources one case.
   `FreeBlocks` follows, and the measured size is a size (`MeasuredSize`).
2. *The meeting of the threads*, `ThreadInv` (`ThreadsKept`). Either nobody goes
   on alone, and `n_active` counts the threads that are not waiting; or exactly
   one does, all the others wait for a position it has not published, and the
   counter is 0 or already reset. `Filled` says that the work buffer is that of
   the node in work.
3. *The memory*, `MemoryInv` (`MemoryKept`). `Apart`: when a node was placed, it
   overlapped nothing that it or a later node still needs, but for the source it
   took over, cell by cell. So what is `Alive` at node q has its value in all of
   its cells when nobody has begun with q, and later in all but those that the
   threads already done with q overwrote (`Intact`). Those cells are of another
   thread's share (`ShareApart`), which is why an element-wise operation may work
   in place while its threads run in any order, and why a matrix product, which
   reads its sources as a whole, may not.
4. *Every cell*, `LeakInv` (`LeakKept`). `Full` says of a placement under way that
   every cell is free or has a `Holder`, a tensor with memory of its own that will
   give it back or that nobody reads (`Covered`). A tensor gives its cells back when
   neither readers nor views are counted for it, so a count of views that stayed
   too high would lose them: `NoneExtra` bounds each count by the views that still
   answer for it, the two exceptions being views nobody reads and the nodes whose
   last view frees them and forgets their base (`Detached`). `OneTaker` and
   `SecondLevel` say where a taker can stand in a chain of views, and `NodesTake`
   that only nodes take over. `TakenCovers` and `GiveBackCovers` are the two
   operations on the free blocks, cell by cell. At the end of the graph nobody has
   readers left, so that a holder is unread, or is held by unread views, or is
   `PartTaken`'s base: `LeakFollows`. That the input has a reader (`InputRead`)
   comes from the order of the nodes: the first has nothing else to read.

The functions `VisitParents` and `Measured` define exist by well-founded
induction over the naturals, again in the form of a least counterexample.

Each proof has one step per action. The strengthenings were also evaluated by TLC
over bounded instances.

Only model-checked: of the dictation engine, everything about preempted threads
that `RecordingSession_proofs` does not state (`ghost_run` shows what fails
there), and liveness, which is outside what TLAPS decides.

## 5. Not modelled

* **Downloads**: the transfer, its ranges and checkpoints. What a crash leaves
  there depends on what file system and HTTP client had persisted. What a
  transfer leaves in the staging directory, whole or not, is in `ModelStore`.
* **Audio history** beyond the capture of a dictation: clearing, expiry, replay,
  retranscription of stored recordings.
* **Text insertion**: the composing text against late selection reports of a
  foreign editor.
* **Queues of the streaming backends**, **microphone routing**, **diagnostics**,
  **finalizer**: `PROJECT.json` gives the reasons.
* **Native arithmetic**: quantisation, tables, the kernels (the greater part of
  `ggml.c`, and all of `ggml-quants.c`), whose properties are numeric; the
  training and optimisation code of `ggml.c`, the backends other than the CPU
  and the grammar parser, which the application does not call; loading of
  models, spectrogram, encoder, language detection and JNI marshalling. The
  n-gram guessing proposes tokens that the model then verifies, and the limit of
  256 tokens is never met since a window ends at 220.
* **The abort callback inside a running graph**, and NUMA.

The map covers a small part of the 40 thousand lines of C and C++: nearly all of
these are kernels, tables, serialisation and unused features, with no protocol
to check. The application's own logic is in Kotlin and is mapped line by line.

## 6. Plan

Done: the dictation engine, the lifecycle, the store, the cleanup service, the
inference and the compute graphs, with their proofs as far as section 4 says.
Next, in this order:

1. `AudioHistory`: pins, clear, purge, delete, retranscribe; `ImeInsertion`: the
   composing text against late selection reports.
2. `ModelDownload`: checkpoints, identity, fallback and promotion with crashes.
