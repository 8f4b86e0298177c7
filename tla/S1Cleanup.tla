------------------------------ MODULE S1Cleanup -----------------------------
(***************************************************************************)
(* The cleanup of transcripts in a process of its own: S1MiniClient and    *)
(* its warm binding in the application, S1MiniService in the process       *)
(* :s1_cleanup, and the library behind it (s1mini_jni.cpp), whose model    *)
(* and cancellation flag are global to that process.                       *)
(*                                                                         *)
(* A request binds the service, sends MSG_NORMALIZE, and unbinds when it   *)
(* has an answer, when the connection is lost or when its caller is        *)
(* cancelled (the timeout of S1MiniTranscriptCleaner, a reset, a new       *)
(* dictation).  Messages reach the main looper of the service in the order *)
(* they were sent; jobs run on other threads and meet at g_mutex.          *)
(***************************************************************************)
EXTENDS Naturals, Sequences, FiniteSets

CONSTANTS
    Request,       \* the requests, of any caller
    None,
    MaxUnloads,    \* unloads by the settings or by low memory
    MaxDeaths      \* how often Android kills the process

ASSUME CleanupAssumption ==
    None \notin Request /\ {"unload", "destroy"} \cap Request = {}
    /\ MaxUnloads \in Nat /\ MaxDeaths \in Nat

VARIABLES
    req,        \* what each request is doing, seen from its client
    answer,     \* the answer on its way to, or at, the client
    warm,       \* the warm binding is held
    timer,      \* its release is scheduled
    settings,   \* the unload of the settings: idle, binding
    inbox,      \* messages for the main looper of the service
    alive,      \* an instance of the service is bound
    looper,     \* its main thread: free, or blocked in onDestroy
    activeJob,
    job,        \* the coroutine of each request
    cancelled,  \* the jobs cancelled before they began
    unloader,   \* the coroutine that unloads the model
    g_mutex, g_cancelled,
    g_model,    \* whether a model is loaded
    died,       \* who is still to hear that the process died (None: the warm binding)
    disturbed,  \* requests whose job was cancelled, unloaded or preempted
    overtaken,  \* a job passed onDestroy on its way to the model
    unloads, deaths

application == <<req, answer, warm, timer, settings>>
service == <<alive, looper, activeJob, unloader>>
jobs == <<job, cancelled>>
native == <<g_mutex, g_cancelled, g_model>>
ghosts == <<disturbed, overtaken>>
bounds == <<unloads, deaths>>
vars == <<req, answer, warm, timer, settings, inbox, alive, looper, activeJob,
          job, cancelled, unloader, g_mutex, g_cancelled, g_model,
          died, disturbed, overtaken, unloads, deaths>>

Init ==
    /\ req = [r \in Request |-> "new"]
    /\ answer = [r \in Request |-> "none"]
    /\ warm = FALSE /\ timer = FALSE /\ settings = "idle"
    /\ inbox = <<>>
    /\ alive = FALSE /\ looper = "free" /\ activeJob = None
    /\ job = [r \in Request |-> "none"] /\ cancelled = {}
    /\ unloader = "none"
    /\ g_mutex = None /\ g_cancelled = FALSE /\ g_model = FALSE
    /\ died = {} /\ disturbed = {} /\ overtaken = FALSE
    /\ unloads = 0 /\ deaths = 0

\* Requests whose connection is bound.
Bound == {r \in Request : req[r] \in {"binding", "sent"}}

InService == {r \in Request : job[r] \in {"queued", "entering", "loading", "decoding"}}

\* cancel() of the library, and of the job in activeJob.
CancelJob ==
    /\ g_cancelled' = TRUE
    /\ cancelled' = cancelled \cup {r \in {activeJob} : r # None /\ job[r] = "queued"}
    /\ disturbed' = disturbed \cup InService

-----------------------------------------------------------------------------
(* The application.                                                        *)

\* bindService with BIND_AUTO_CREATE; Android may refuse it.
Bind(r) ==
    /\ req[r] = "new"
    /\ \E ok \in BOOLEAN : req' = [req EXCEPT ![r] = IF ok THEN "binding" ELSE "failed"]
    /\ UNCHANGED <<answer, warm, timer, settings, inbox, service, jobs, native,
                   died, ghosts, bounds>>

\* The main thread of the service is free to create an instance for a binding.
Create ==
    /\ ~alive /\ looper = "free"
    /\ Bound # {} \/ warm \/ settings = "binding"
    /\ alive' = TRUE
    /\ UNCHANGED <<application, inbox, looper, activeJob, unloader, jobs, native,
                   died, ghosts, bounds>>

\* onServiceConnected sends the request.
Connect(r) ==
    /\ req[r] = "binding" /\ alive
    /\ req' = [req EXCEPT ![r] = "sent"]
    /\ inbox' = Append(inbox, [what |-> "normalize", of |-> r, live |-> TRUE])
    /\ UNCHANGED <<answer, warm, timer, settings, service, jobs, native, died,
                   ghosts, bounds>>

\* The caller is cancelled, by its timeout or from outside: MSG_CANCEL, which
\* names no request, and the connection is unbound.
GiveUp(r) ==
    /\ r \in Bound
    /\ req' = [req EXCEPT ![r] = "failed"]
    /\ answer' = [answer EXCEPT ![r] = "gaveUp"]
    /\ inbox' = IF req[r] = "sent" /\ r \notin died
                THEN Append(inbox, [what |-> "cancel", of |-> r, live |-> TRUE])
                ELSE inbox
    /\ UNCHANGED <<warm, timer, settings, service, jobs, native, died, ghosts, bounds>>

\* The handler of the replies: a result retains the warm binding before the
\* connection is unbound, so that the service outlives the request.
Receive(r) ==
    /\ req[r] = "sent" /\ answer[r] # "none"
    /\ req' = [req EXCEPT ![r] = IF answer[r] = "text" THEN "done" ELSE "failed"]
    /\ answer' = [answer EXCEPT ![r] = "none"]
    /\ IF answer[r] = "text"
       THEN \* timeoutMs: zero, positive, or forever
            \/ warm' = FALSE /\ timer' = FALSE
            \/ warm' = TRUE /\ timer' = TRUE
            \/ warm' = TRUE /\ timer' = FALSE
       ELSE UNCHANGED <<warm, timer>>
    /\ UNCHANGED <<settings, inbox, service, jobs, native, died, ghosts, bounds>>

\* S1MiniWarmBindingLease.release, by its timer.
ReleaseWarm ==
    /\ warm /\ timer
    /\ warm' = FALSE /\ timer' = FALSE
    /\ UNCHANGED <<req, answer, settings, inbox, service, jobs, native, died,
                   ghosts, bounds>>

\* unload(): the warm binding goes at once, and the message follows once the
\* service is connected.
BeginUnload ==
    /\ settings = "idle" /\ unloads < MaxUnloads
    /\ unloads' = unloads + 1
    /\ settings' = "binding"
    /\ warm' = FALSE /\ timer' = FALSE
    /\ UNCHANGED <<req, answer, inbox, service, jobs, native, died, ghosts, deaths>>

SendUnload ==
    /\ settings = "binding" /\ alive
    /\ settings' = "idle"
    /\ inbox' = Append(inbox, [what |-> "unload", of |-> None, live |-> TRUE])
    /\ UNCHANGED <<req, answer, warm, timer, service, jobs, native, died, ghosts, bounds>>

\* onServiceDisconnected of the warm binding
WarmDisconnected ==
    /\ None \in died
    /\ died' = died \ {None}
    /\ warm' = FALSE /\ timer' = FALSE
    /\ UNCHANGED <<req, answer, settings, inbox, service, jobs, native, ghosts, bounds>>

\* onServiceDisconnected of a request
Disconnected(r) ==
    /\ r \in died
    /\ died' = died \ {r}
    /\ req' = [req EXCEPT ![r] = IF @ = "sent" THEN "failed" ELSE @]
    /\ UNCHANGED <<answer, warm, timer, settings, inbox, service, jobs, native,
                   ghosts, bounds>>

-----------------------------------------------------------------------------
(* The main looper of the service.                                         *)

\* Messages to an instance that is gone reach its handler all the same, but
\* its scope starts no coroutine any more.
Serving == Head(inbox).live

HandleNormalize ==
    /\ looper = "free" /\ inbox # <<>> /\ Head(inbox).what = "normalize"
    /\ inbox' = Tail(inbox)
    /\ IF Serving
       THEN /\ CancelJob
            /\ activeJob' = Head(inbox).of
            /\ job' = [job EXCEPT ![Head(inbox).of] = "queued"]
       ELSE /\ g_cancelled' = TRUE
            /\ disturbed' = disturbed \cup InService \cup {Head(inbox).of}
            /\ UNCHANGED <<cancelled, activeJob, job>>
    /\ UNCHANGED <<application, alive, looper, unloader, g_mutex, g_model,
                   died, overtaken, bounds>>

HandleCancel ==
    /\ looper = "free" /\ inbox # <<>> /\ Head(inbox).what = "cancel"
    /\ inbox' = Tail(inbox)
    /\ CancelJob
    /\ activeJob' = None
    /\ UNCHANGED <<application, alive, looper, unloader, job, g_mutex,
                   g_model, died, overtaken, bounds>>

StartUnloader ==
    /\ unloader = "none"
    /\ CancelJob
    /\ activeJob' = None
    /\ unloader' = "queued"

HandleUnload ==
    /\ looper = "free" /\ inbox # <<>> /\ Head(inbox).what = "unload"
    /\ inbox' = Tail(inbox)
    /\ IF Serving THEN StartUnloader
       ELSE CancelJob /\ activeJob' = None /\ UNCHANGED unloader
    /\ UNCHANGED <<application, alive, looper, job, g_mutex, g_model,
                   died, overtaken, bounds>>

\* onTrimMemory
Trim ==
    /\ looper = "free" /\ alive /\ unloads < MaxUnloads
    /\ unloads' = unloads + 1
    /\ StartUnloader
    /\ UNCHANGED <<application, inbox, alive, looper, job, g_mutex,
                   g_model, died, overtaken, deaths>>

\* onDestroy, once nobody is bound, up to the lock in unload().
Destroy ==
    /\ looper = "free" /\ alive
    /\ Bound = {} /\ ~warm /\ settings = "idle"
    /\ alive' = FALSE
    /\ looper' = "destroying"
    /\ CancelJob
    /\ activeJob' = None
    /\ inbox' = [i \in DOMAIN inbox |-> [inbox[i] EXCEPT !.live = FALSE]]
    /\ UNCHANGED <<application, unloader, job, g_mutex, g_model,
                   died, overtaken, bounds>>

\* a variant: the scope is cancelled and the model stays
DestroyedKeepingModel ==
    /\ looper = "destroying" /\ g_mutex = None
    /\ looper' = "free"
    /\ cancelled' = cancelled \cup {r \in Request : job[r] = "queued"}
    /\ unloader' = IF unloader = "queued" THEN "none" ELSE unloader
    /\ overtaken' = \E r \in Request : job[r] = "entering"
    /\ UNCHANGED <<application, inbox, alive, activeJob, job, native, died, disturbed,
                   bounds>>

\* The rest of it: free the model, then cancel the scope.  Coroutines that have
\* not begun never do; one that is on its way into the library goes on.
Destroyed ==
    /\ looper = "destroying" /\ g_mutex = None
    /\ looper' = "free"
    /\ g_model' = FALSE
    /\ cancelled' = cancelled \cup {r \in Request : job[r] = "queued"}
    /\ unloader' = IF unloader = "queued" THEN "none" ELSE unloader
    /\ overtaken' = \E r \in Request : job[r] = "entering"
    /\ UNCHANGED <<application, inbox, alive, activeJob, job, g_mutex,
                   g_cancelled, died, disturbed, bounds>>

-----------------------------------------------------------------------------
(* The coroutines of the service and the library.                          *)

Begin(r) ==
    /\ job[r] = "queued"
    /\ job' = [job EXCEPT ![r] = IF r \in cancelled THEN "over" ELSE "entering"]
    /\ cancelled' = cancelled \ {r}
    /\ UNCHANGED <<application, inbox, service, native, died, ghosts, bounds>>

\* a variant: the flag of an earlier cancellation is left
EnterUncleared(r) ==
    /\ job[r] = "entering" /\ g_mutex = None
    /\ job' = [job EXCEPT ![r] = "loading"]
    /\ g_mutex' = r
    /\ UNCHANGED <<application, inbox, service, cancelled, g_cancelled, g_model,
                   died, ghosts, bounds>>

\* normalize() has the lock and clears the flag.
Enter(r) ==
    /\ job[r] = "entering" /\ g_mutex = None
    /\ job' = [job EXCEPT ![r] = "loading"]
    /\ g_mutex' = r
    /\ g_cancelled' = FALSE
    /\ UNCHANGED <<application, inbox, service, cancelled, g_model, died, ghosts, bounds>>

\* The end of normalize(): the lock goes, and what is to be sent is known.
Return(r, outcome) ==
    /\ job' = [job EXCEPT ![r] = outcome]
    /\ g_mutex' = None
    /\ UNCHANGED <<application, inbox, service, cancelled, g_cancelled, died, ghosts, bounds>>

\* load_model: the loaded model, or another in its place, or neither.
LoadModel(r) ==
    /\ job[r] = "loading"
    /\ g_model' = TRUE
    /\ job' = [job EXCEPT ![r] = "decoding"]
    /\ UNCHANGED <<application, inbox, service, cancelled, g_mutex, g_cancelled,
                   died, ghosts, bounds>>

\* a variant: the lock is not given back on the path of the failure
LoadFailedLocked(r) ==
    /\ job[r] = "loading"
    /\ g_model' \in {FALSE, g_model}
    /\ job' = [job EXCEPT ![r] = "error"]
    /\ UNCHANGED <<application, inbox, service, cancelled, g_mutex, g_cancelled,
                   died, ghosts, bounds>>

LoadFailed(r) ==
    /\ job[r] = "loading"
    /\ g_model' \in {FALSE, g_model}
    /\ Return(r, "error")

\* The prompt is evaluated and tokens are generated until the end or the flag.  A
\* flag that is set shows as "cancelled", as the failure of the evaluation it cut
\* short (decode_failed), or not at all, when it comes after the last look at it.
Decode(r) ==
    /\ job[r] = "decoding"
    /\ \E outcome \in {"text", "error", "cancelled"} :
          /\ outcome = "cancelled" => g_cancelled
          /\ Return(r, outcome)
    /\ UNCHANGED g_model

\* a variant: a failure is logged and not sent
ReplyResultOnly(r) ==
    /\ job[r] \in {"text", "error", "cancelled"}
    /\ job' = [job EXCEPT ![r] = "over"]
    /\ answer' = IF answer[r] = "none" /\ r \notin died /\ job[r] = "text"
                 THEN [answer EXCEPT ![r] = job[r]] ELSE answer
    /\ activeJob' = IF activeJob = r THEN None ELSE activeJob
    /\ UNCHANGED <<req, warm, timer, settings, inbox, alive, looper, unloader, cancelled,
                   native, died, ghosts, bounds>>

\* replyTo.send, and the finally block.
Reply(r) ==
    /\ job[r] \in {"text", "error", "cancelled"}
    /\ job' = [job EXCEPT ![r] = "over"]
    /\ answer' = IF answer[r] = "none" /\ r \notin died
                 THEN [answer EXCEPT ![r] = job[r]] ELSE answer
    /\ activeJob' = IF activeJob = r THEN None ELSE activeJob
    /\ UNCHANGED <<req, warm, timer, settings, inbox, alive, looper, unloader, cancelled, native, died, ghosts, bounds>>

\* The coroutine of an unload: unload() sets the flag again, whoever runs by
\* now, and waits for the lock.
BeginUnloading ==
    /\ unloader = "queued"
    /\ unloader' = "waiting"
    /\ g_cancelled' = TRUE
    /\ disturbed' = disturbed \cup InService
    /\ UNCHANGED <<application, inbox, alive, looper, activeJob, jobs,
                   g_mutex, g_model, died, overtaken, bounds>>

\* a variant: the model is freed as soon as the flag is set
UnloadUnlocked ==
    /\ unloader = "waiting"
    /\ unloader' = "none"
    /\ g_model' = FALSE
    /\ UNCHANGED <<application, inbox, alive, looper, activeJob, jobs,
                   g_mutex, g_cancelled, died, ghosts, bounds>>

Unload ==
    /\ unloader = "waiting" /\ g_mutex = None
    /\ unloader' = "none"
    /\ g_model' = FALSE
    /\ UNCHANGED <<application, inbox, alive, looper, activeJob, jobs,
                   g_mutex, g_cancelled, died, ghosts, bounds>>

\* Android kills the process: memory, messages and coroutines are gone, and the
\* clients hear of it.
Die ==
    /\ alive \/ looper = "destroying"
    /\ deaths < MaxDeaths
    /\ deaths' = deaths + 1
    /\ alive' = FALSE /\ looper' = "free" /\ activeJob' = None /\ unloader' = "none"
    /\ inbox' = <<>>
    /\ job' = [r \in Request |-> IF job[r] = "none" THEN "none" ELSE "over"]
    /\ g_mutex' = None /\ g_cancelled' = FALSE /\ g_model' = FALSE
    /\ cancelled' = {}
    /\ died' = died \cup {r \in Request : req[r] = "sent"} \cup {r \in {None} : warm}
    /\ overtaken' = FALSE
    /\ UNCHANGED <<application, disturbed, unloads>>

-----------------------------------------------------------------------------
Client(r) == Bind(r) \/ Connect(r) \/ GiveUp(r) \/ Receive(r) \/ Disconnected(r)

Looper == HandleNormalize \/ HandleCancel \/ HandleUnload \/ Destroyed

Coroutine(r) ==
    Begin(r) \/ Enter(r) \/ LoadModel(r) \/ LoadFailed(r) \/ Decode(r) \/ Reply(r)

Unloader == BeginUnloading \/ Unload

Next ==
    \/ \E r \in Request : Client(r) \/ Coroutine(r)
    \/ ReleaseWarm \/ WarmDisconnected \/ BeginUnload \/ SendUnload
    \/ Looper \/ Trim \/ Create \/ Destroy \/ Unloader \/ Die

(***************************************************************************)
(* Main threads handle what is posted to them, coroutines are dispatched,  *)
(* g_mutex is granted in the end, and a decoding ends.  Nothing is assumed *)
(* of timeouts, of unloads, of the destruction of the service or of death. *)
(***************************************************************************)
Fairness ==
    /\ WF_vars(Looper) /\ WF_vars(Create) /\ WF_vars(SendUnload) /\ WF_vars(Unloader)
    /\ \A r \in Request :
        /\ WF_vars(Connect(r)) /\ WF_vars(Receive(r)) /\ WF_vars(Disconnected(r))
        /\ WF_vars(Begin(r)) /\ WF_vars(Enter(r)) /\ WF_vars(LoadModel(r) \/ LoadFailed(r))
        /\ WF_vars(Decode(r)) /\ WF_vars(Reply(r))

Spec == Init /\ [][Next]_vars /\ Fairness

-----------------------------------------------------------------------------
(* Properties.                                                             *)

\* Types, and that g_mutex is held by the job inside the library.
TypeOK ==
    /\ req \in [Request -> {"new", "binding", "sent", "done", "failed"}]
    /\ answer \in [Request -> {"none", "text", "error", "cancelled", "gaveUp"}]
    /\ warm \in BOOLEAN /\ timer \in BOOLEAN /\ settings \in {"idle", "binding"}
    /\ \A i \in DOMAIN inbox : inbox[i] \in
           [what : {"normalize", "cancel", "unload"}, of : Request \cup {None}, live : BOOLEAN]
    /\ alive \in BOOLEAN /\ looper \in {"free", "destroying"}
    /\ activeJob \in Request \cup {None}
    /\ job \in [Request -> {"none", "queued", "entering", "loading", "decoding",
                            "text", "error", "cancelled", "over"}]
    /\ cancelled \in SUBSET Request
    /\ unloader \in {"none", "queued", "waiting"}
    /\ g_mutex \in Request \cup {None}
    /\ g_cancelled \in BOOLEAN /\ g_model \in BOOLEAN
    /\ died \in SUBSET (Request \cup {None}) /\ disturbed \in SUBSET Request /\ overtaken \in BOOLEAN
    /\ unloads \in 0..MaxUnloads /\ deaths \in 0..MaxDeaths
    /\ \A r \in Request : g_mutex = r <=> job[r] \in {"loading", "decoding"}

\* The model a job decodes with is there until the job returns, whoever unloads,
\* trims or destroys the service meanwhile.
ModelOwned == \A r \in Request : job[r] = "decoding" => g_model

\* A request is only answered as cancelled when something cancelled, preempted or
\* unloaded it after it reached the service: the flag of an earlier cancellation
\* does not abort the next request.
CancelledOnlyWhenDisturbed ==
    \A r \in Request : job[r] = "cancelled" \/ answer[r] = "cancelled" => r \in disturbed

\* A process whose service is destroyed keeps no model in memory, in whatever order
\* the destruction, the unloads and the jobs reach the lock, unless a job was already
\* past its last cancellation check when the service was destroyed.
NoModelWithoutService ==
    ~alive /\ looper = "free" /\ g_mutex = None => ~g_model \/ overtaken

\* A request that nothing disturbs is answered without the help of its timeout:
\* neither the lock, the order of messages nor a main thread that is blocked in
\* onDestroy keeps it waiting.
UndisturbedAnswered ==
    \A r \in Request :
        req[r] = "sent" ~> req[r] # "sent" \/ r \in disturbed
=============================================================================
