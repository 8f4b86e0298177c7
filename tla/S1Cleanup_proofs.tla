-------------------------- MODULE S1Cleanup_proofs --------------------------
(***************************************************************************)
(* Proofs about S1Cleanup for any number of requests, unloads and deaths   *)
(* of the process.                                                         *)
(***************************************************************************)
EXTENDS S1Cleanup, SequenceTheorems, TLAPS

-----------------------------------------------------------------------------
(* The strengthening.                                                      *)

Message == [what : {"normalize", "cancel", "unload"}, of : Request \cup {None}, live : BOOLEAN]

(* A message to normalize names its request, and one that is live has an   *)
(* instance of the service to serve it.                                    *)
InboxKnown ==
    /\ inbox \in Seq(Message)
    /\ \A i \in 1..Len(inbox) :
          inbox[i].what = "normalize" => inbox[i].of \in Request /\ (inbox[i].live => alive)

(* Jobs and the library: the mutex is held by the one job inside.          *)
JobsKnown ==
    /\ job \in [Request -> {"none", "queued", "entering", "loading", "decoding",
                            "text", "error", "cancelled", "over"}]
    /\ cancelled \in SUBSET Request
    /\ g_mutex \in Request \cup {None}
    /\ g_cancelled \in BOOLEAN /\ g_model \in BOOLEAN
    /\ \A r \in Request : g_mutex = r <=> job[r] \in {"loading", "decoding"}

(* Whoever was cancelled, or will be by the flag, was disturbed.            *)
FlagExplained ==
    \A r \in Request :
        /\ g_cancelled /\ job[r] \in {"loading", "decoding"} => r \in disturbed
        /\ job[r] = "cancelled" \/ answer[r] = "cancelled" => r \in disturbed

(* The types of all other variables.                                       *)
RestTyped ==
    /\ req \in [Request -> {"new", "binding", "sent", "done", "failed"}]
    /\ answer \in [Request -> {"none", "text", "error", "cancelled", "gaveUp"}]
    /\ warm \in BOOLEAN /\ timer \in BOOLEAN /\ settings \in {"idle", "binding"}
    /\ alive \in BOOLEAN /\ looper \in {"free", "destroying"}
    /\ activeJob \in Request \cup {None}
    /\ unloader \in {"none", "queued", "waiting"}
    /\ died \in SUBSET (Request \cup {None}) /\ disturbed \in SUBSET Request /\ overtaken \in BOOLEAN
    /\ unloads \in 0..MaxUnloads /\ deaths \in 0..MaxDeaths

(* Without a service there is no model and no job that will load one,      *)
(* unless a job was overtaken by the destruction.                          *)
NothingLeft ==
    ~alive /\ looper = "free" =>
        \/ overtaken
        \/ /\ ~g_model
           /\ \A r \in Request : /\ job[r] \notin {"entering", "loading", "decoding"}
                                 /\ job[r] = "queued" => r \in cancelled

(* A request is sent once: what is still in the inbox has no job yet, and  *)
(* no two messages ask for the same request.                               *)
SentOnce ==
    /\ \A r \in Request : req[r] \in {"new", "binding"} => job[r] = "none"
    /\ \A i \in 1..Len(inbox) :
          inbox[i].what = "normalize" =>
              job[inbox[i].of] = "none" /\ req[inbox[i].of] \notin {"new", "binding"}
    /\ \A i, j \in 1..Len(inbox) :
          inbox[i].what = "normalize" /\ inbox[j].what = "normalize" /\ inbox[i].of = inbox[j].of
              => i = j

Safe == InboxKnown /\ SentOnce /\ JobsKnown /\ RestTyped

-----------------------------------------------------------------------------
(* What CancelJob cancels and disturbs are requests. *)
LEMMA CancelTyped ==
    ASSUME Safe, CancelJob
    PROVE  /\ cancelled' \in SUBSET Request /\ disturbed' \in SUBSET Request
           /\ g_cancelled' = TRUE
<1>1. {r \in {activeJob} : r # None /\ job[r] = "queued"} \subseteq Request
  BY DEF Safe, RestTyped
<1>2. InService \subseteq Request
  BY DEF InService
<1>3. cancelled \subseteq Request /\ disturbed \subseteq Request
  BY DEF Safe, JobsKnown, RestTyped
<1> QED
  BY <1>1, <1>2, <1>3 DEF CancelJob

(* Every step keeps the inbox. *)
LEMMA InboxStep ==
    ASSUME Safe, [Next]_vars
    PROVE  InboxKnown'
<1>1. ASSUME NEW r \in Request, Bind(r)
      PROVE  InboxKnown'
  BY <1>1, CleanupAssumption DEF Bind, service, jobs, native, ghosts, bounds, Safe,
     InboxKnown, RestTyped, Message
<1>2. ASSUME NEW r \in Request, Connect(r)
      PROVE  InboxKnown'
  BY <1>2, CleanupAssumption DEF Connect, service, jobs, native, ghosts, bounds, Safe,
     InboxKnown, RestTyped, Message
<1>3. ASSUME NEW r \in Request, GiveUp(r)
      PROVE  InboxKnown'
  <2>1. CASE inbox' = inbox
    BY <1>3, <2>1 DEF GiveUp, service, Safe, InboxKnown, RestTyped
  <2>2. CASE inbox' = Append(inbox, [what |-> "cancel", of |-> r, live |-> TRUE])
    <3>1. [what |-> "cancel", of |-> r, live |-> TRUE] \in Message
      BY DEF Message
    <3>2. inbox' \in Seq(Message)
      BY <2>2, <3>1 DEF Safe, InboxKnown
    <3>3. alive' = alive
      BY <1>3 DEF GiveUp, service
    <3> QED
      BY <2>2, <3>1, <3>2, <3>3 DEF Safe, InboxKnown, Message
  <2> QED
    BY <1>3, <2>1, <2>2 DEF GiveUp
<1>4. ASSUME NEW r \in Request, Receive(r)
      PROVE  InboxKnown'
  BY <1>4, CleanupAssumption DEF Receive, service, jobs, native, ghosts, bounds, Safe,
     InboxKnown, RestTyped, Message
<1>5. ASSUME NEW r \in Request, Disconnected(r)
      PROVE  InboxKnown'
  BY <1>5, CleanupAssumption DEF Disconnected, service, jobs, native, ghosts, bounds,
     Safe, InboxKnown, RestTyped, Message
<1>6. ASSUME NEW r \in Request, Begin(r)
      PROVE  InboxKnown'
  BY <1>6, CleanupAssumption DEF Begin, application, service, native, ghosts, bounds,
     Safe, InboxKnown, RestTyped, Message
<1>7. ASSUME NEW r \in Request, Enter(r)
      PROVE  InboxKnown'
  BY <1>7, CleanupAssumption DEF Enter, application, service, ghosts, bounds, Safe,
     InboxKnown, RestTyped, Message
<1>8. ASSUME NEW r \in Request, LoadModel(r)
      PROVE  InboxKnown'
  BY <1>8, CleanupAssumption DEF LoadModel, application, service, ghosts, bounds, Safe,
     InboxKnown, RestTyped, Message
<1>9. ASSUME NEW r \in Request, LoadFailed(r)
      PROVE  InboxKnown'
  BY <1>9, CleanupAssumption DEF LoadFailed, Return, application, service, ghosts,
     bounds, Safe, InboxKnown, RestTyped, Message
<1>10. ASSUME NEW r \in Request, Decode(r)
      PROVE  InboxKnown'
  BY <1>10, CleanupAssumption DEF Decode, Return, application, service, ghosts, bounds,
     Safe, InboxKnown, RestTyped, Message
<1>11. ASSUME NEW r \in Request, Reply(r)
      PROVE  InboxKnown'
  BY <1>11, CleanupAssumption DEF Reply, native, ghosts, bounds, Safe, InboxKnown,
     RestTyped, Message
<1>12. CASE ReleaseWarm
  BY <1>12, CleanupAssumption DEF ReleaseWarm, service, jobs, native, ghosts, bounds,
     Safe, InboxKnown, RestTyped, Message
<1>13. CASE WarmDisconnected
  BY <1>13, CleanupAssumption DEF WarmDisconnected, service, jobs, native, ghosts,
     bounds, Safe, InboxKnown, RestTyped, Message
<1>14. CASE BeginUnload
  BY <1>14, CleanupAssumption DEF BeginUnload, service, jobs, native, ghosts, Safe,
     InboxKnown, RestTyped, Message
<1>15. CASE SendUnload
  BY <1>15, CleanupAssumption DEF SendUnload, service, jobs, native, ghosts, bounds,
     Safe, InboxKnown, RestTyped, Message
<1>16. CASE HandleNormalize
  BY <1>16, CleanupAssumption DEF HandleNormalize, InService, CancelJob, Serving,
     application, bounds, Safe, InboxKnown, RestTyped, Message
<1>17. CASE HandleCancel
  BY <1>17, CleanupAssumption DEF HandleCancel, CancelJob, application, bounds,
     InService, Safe, InboxKnown, RestTyped, Message
<1>18. CASE HandleUnload
  BY <1>18, CleanupAssumption DEF HandleUnload, CancelJob, Serving, StartUnloader,
     application, bounds, InService, Safe, InboxKnown, RestTyped, Message
<1>19. CASE Destroyed
  BY <1>19, CleanupAssumption DEF Destroyed, application, bounds, Safe, InboxKnown,
     RestTyped, Message
<1>20. CASE Trim
  BY <1>20, CleanupAssumption DEF Trim, StartUnloader, application, CancelJob,
     InService, Safe, InboxKnown, RestTyped, Message
<1>21. CASE Create
  BY <1>21, CleanupAssumption DEF Create, Bound, application, jobs, native, ghosts,
     bounds, Safe, InboxKnown, RestTyped, Message
<1>22. CASE Destroy
  <2>1. DOMAIN inbox = 1..Len(inbox) /\ \A i \in 1..Len(inbox) : inbox[i] \in Message
    BY DEF Safe, InboxKnown
  <2>2. inbox' = [i \in 1..Len(inbox) |-> [inbox[i] EXCEPT !.live = FALSE]]
    BY <1>22, <2>1 DEF Destroy
  <2>3. \A i \in 1..Len(inbox) : inbox'[i] \in Message /\ ~inbox'[i].live
                                  /\ inbox'[i].of = inbox[i].of /\ inbox'[i].what = inbox[i].what
    BY <2>1, <2>2 DEF Message
  <2>4. Len(inbox) \in Nat
    BY DEF Safe, InboxKnown
  <2>5. inbox' \in Seq(Message) /\ Len(inbox') = Len(inbox)
    <3>1. inbox' = [i \in 1..Len(inbox) |-> inbox'[i]]
      BY <2>2
    <3>2. inbox' \in [1..Len(inbox) -> Message]
      BY <2>3, <3>1
    <3> QED
      BY <2>4, <3>2
  <2> QED
    BY <2>3, <2>5 DEF Safe, InboxKnown
<1>23. CASE BeginUnloading
  BY <1>23, CleanupAssumption DEF BeginUnloading, InService, application, jobs, bounds,
     Safe, InboxKnown, RestTyped, Message
<1>24. CASE Unload
  BY <1>24, CleanupAssumption DEF Unload, application, jobs, ghosts, bounds, Safe,
     InboxKnown, RestTyped, Message
<1>25. CASE Die
  BY <1>25, CleanupAssumption DEF Die, application, Safe, InboxKnown, RestTyped, Message
<1>26. CASE UNCHANGED vars
  BY <1>26 DEF vars, Safe, InboxKnown, RestTyped, Message
<1> QED
  BY <1>1, <1>2, <1>3, <1>4, <1>5, <1>6, <1>7, <1>8, <1>9, <1>10, <1>11, <1>12, <1>13,
     <1>14, <1>15, <1>16, <1>17, <1>18, <1>19, <1>20, <1>21, <1>22, <1>23, <1>24, <1>25,
     <1>26 DEF Next, Client, Coroutine, Looper, Unloader

(* Every step keeps requests sent once. *)
LEMMA OnceStep ==
    ASSUME Safe, [Next]_vars
    PROVE  SentOnce'
<1>1. ASSUME NEW r \in Request, Bind(r)
      PROVE  SentOnce'
  BY <1>1, CleanupAssumption DEF Bind, service, jobs, native, ghosts, bounds, Safe,
     InboxKnown, SentOnce, JobsKnown, RestTyped, Message
<1>2. ASSUME NEW r \in Request, Connect(r)
      PROVE  SentOnce'
  BY <1>2, CleanupAssumption DEF Connect, service, jobs, native, ghosts, bounds, Safe,
     InboxKnown, SentOnce, JobsKnown, RestTyped, Message
<1>3. ASSUME NEW r \in Request, GiveUp(r)
      PROVE  SentOnce'
  BY <1>3, CleanupAssumption DEF GiveUp, Bound, service, jobs, native, ghosts, bounds,
     Safe, InboxKnown, SentOnce, JobsKnown, RestTyped, Message
<1>4. ASSUME NEW r \in Request, Receive(r)
      PROVE  SentOnce'
  BY <1>4, CleanupAssumption DEF Receive, service, jobs, native, ghosts, bounds, Safe,
     InboxKnown, SentOnce, JobsKnown, RestTyped, Message
<1>5. ASSUME NEW r \in Request, Disconnected(r)
      PROVE  SentOnce'
  BY <1>5, CleanupAssumption DEF Disconnected, service, jobs, native, ghosts, bounds,
     Safe, InboxKnown, SentOnce, JobsKnown, RestTyped, Message
<1>6. ASSUME NEW r \in Request, Begin(r)
      PROVE  SentOnce'
  BY <1>6, CleanupAssumption DEF Begin, application, service, native, ghosts, bounds,
     Safe, InboxKnown, SentOnce, JobsKnown, RestTyped, Message
<1>7. ASSUME NEW r \in Request, Enter(r)
      PROVE  SentOnce'
  BY <1>7, CleanupAssumption DEF Enter, application, service, ghosts, bounds, Safe,
     InboxKnown, SentOnce, JobsKnown, RestTyped, Message
<1>8. ASSUME NEW r \in Request, LoadModel(r)
      PROVE  SentOnce'
  BY <1>8, CleanupAssumption DEF LoadModel, application, service, ghosts, bounds, Safe,
     InboxKnown, SentOnce, JobsKnown, RestTyped, Message
<1>9. ASSUME NEW r \in Request, LoadFailed(r)
      PROVE  SentOnce'
  BY <1>9, CleanupAssumption DEF LoadFailed, Return, application, service, ghosts,
     bounds, Safe, InboxKnown, SentOnce, JobsKnown, RestTyped, Message
<1>10. ASSUME NEW r \in Request, Decode(r)
      PROVE  SentOnce'
  BY <1>10, CleanupAssumption DEF Decode, Return, application, service, ghosts, bounds,
     Safe, InboxKnown, SentOnce, JobsKnown, RestTyped, Message
<1>11. ASSUME NEW r \in Request, Reply(r)
      PROVE  SentOnce'
  BY <1>11, CleanupAssumption DEF Reply, native, ghosts, bounds, Safe, InboxKnown,
     SentOnce, JobsKnown, RestTyped, Message
<1>12. CASE ReleaseWarm
  BY <1>12, CleanupAssumption DEF ReleaseWarm, service, jobs, native, ghosts, bounds,
     Safe, InboxKnown, SentOnce, JobsKnown, RestTyped, Message
<1>13. CASE WarmDisconnected
  BY <1>13, CleanupAssumption DEF WarmDisconnected, service, jobs, native, ghosts,
     bounds, Safe, InboxKnown, SentOnce, JobsKnown, RestTyped, Message
<1>14. CASE BeginUnload
  BY <1>14, CleanupAssumption DEF BeginUnload, service, jobs, native, ghosts, Safe,
     InboxKnown, SentOnce, JobsKnown, RestTyped, Message
<1>15. CASE SendUnload
  BY <1>15, CleanupAssumption DEF SendUnload, service, jobs, native, ghosts, bounds,
     Safe, InboxKnown, SentOnce, JobsKnown, RestTyped, Message
<1>16. CASE HandleNormalize
  BY <1>16, CleanupAssumption DEF HandleNormalize, InService, CancelJob, Serving,
     application, bounds, Safe, InboxKnown, SentOnce, JobsKnown, RestTyped, Message
<1>17. CASE HandleCancel
  BY <1>17, CleanupAssumption DEF HandleCancel, CancelJob, application, bounds,
     InService, Safe, InboxKnown, SentOnce, JobsKnown, RestTyped, Message
<1>18. CASE HandleUnload
  BY <1>18, CleanupAssumption DEF HandleUnload, CancelJob, Serving, StartUnloader,
     application, bounds, InService, Safe, InboxKnown, SentOnce, JobsKnown, RestTyped,
     Message
<1>19. CASE Destroyed
  BY <1>19, CleanupAssumption DEF Destroyed, application, bounds, Safe, InboxKnown,
     SentOnce, JobsKnown, RestTyped, Message
<1>20. CASE Trim
  BY <1>20, CleanupAssumption DEF Trim, StartUnloader, application, CancelJob,
     InService, Safe, InboxKnown, SentOnce, JobsKnown, RestTyped, Message
<1>21. CASE Create
  BY <1>21, CleanupAssumption DEF Create, Bound, application, jobs, native, ghosts,
     bounds, Safe, InboxKnown, SentOnce, JobsKnown, RestTyped, Message
<1>22. CASE Destroy
  BY <1>22, CleanupAssumption DEF Destroy, Bound, CancelJob, application, bounds,
     InService, Safe, InboxKnown, SentOnce, JobsKnown, RestTyped, Message
<1>23. CASE BeginUnloading
  BY <1>23, CleanupAssumption DEF BeginUnloading, InService, application, jobs, bounds,
     Safe, InboxKnown, SentOnce, JobsKnown, RestTyped, Message
<1>24. CASE Unload
  BY <1>24, CleanupAssumption DEF Unload, application, jobs, ghosts, bounds, Safe,
     InboxKnown, SentOnce, JobsKnown, RestTyped, Message
<1>25. CASE Die
  BY <1>25, CleanupAssumption DEF Die, application, Safe, InboxKnown, SentOnce,
     JobsKnown, RestTyped, Message
<1>26. CASE UNCHANGED vars
  BY <1>26 DEF vars, Safe, InboxKnown, SentOnce, JobsKnown, RestTyped, Message
<1> QED
  BY <1>1, <1>2, <1>3, <1>4, <1>5, <1>6, <1>7, <1>8, <1>9, <1>10, <1>11, <1>12, <1>13,
     <1>14, <1>15, <1>16, <1>17, <1>18, <1>19, <1>20, <1>21, <1>22, <1>23, <1>24, <1>25,
     <1>26 DEF Next, Client, Coroutine, Looper, Unloader

(* Every step keeps the mutex with the job inside the library. *)
LEMMA JobsStep ==
    ASSUME Safe, [Next]_vars
    PROVE  JobsKnown'
<1>1. ASSUME NEW r \in Request, Bind(r)
      PROVE  JobsKnown'
  BY <1>1, CleanupAssumption DEF Bind, service, jobs, native, ghosts, bounds, Safe,
     InboxKnown, JobsKnown, Message
<1>2. ASSUME NEW r \in Request, Connect(r)
      PROVE  JobsKnown'
  BY <1>2, CleanupAssumption DEF Connect, service, jobs, native, ghosts, bounds, Safe,
     InboxKnown, JobsKnown, Message
<1>3. ASSUME NEW r \in Request, GiveUp(r)
      PROVE  JobsKnown'
  BY <1>3, CleanupAssumption DEF GiveUp, Bound, service, jobs, native, ghosts, bounds,
     Safe, InboxKnown, JobsKnown, Message
<1>4. ASSUME NEW r \in Request, Receive(r)
      PROVE  JobsKnown'
  BY <1>4, CleanupAssumption DEF Receive, service, jobs, native, ghosts, bounds, Safe,
     InboxKnown, JobsKnown, Message
<1>5. ASSUME NEW r \in Request, Disconnected(r)
      PROVE  JobsKnown'
  BY <1>5, CleanupAssumption DEF Disconnected, service, jobs, native, ghosts, bounds,
     Safe, InboxKnown, JobsKnown, Message
<1>6. ASSUME NEW r \in Request, Begin(r)
      PROVE  JobsKnown'
  BY <1>6, CleanupAssumption DEF Begin, application, service, native, ghosts, bounds,
     Safe, InboxKnown, JobsKnown, Message
<1>7. ASSUME NEW r \in Request, Enter(r)
      PROVE  JobsKnown'
  BY <1>7, CleanupAssumption DEF Enter, application, service, ghosts, bounds, Safe,
     InboxKnown, JobsKnown, Message
<1>8. ASSUME NEW r \in Request, LoadModel(r)
      PROVE  JobsKnown'
  BY <1>8, CleanupAssumption DEF LoadModel, application, service, ghosts, bounds, Safe,
     InboxKnown, JobsKnown, Message
<1>9. ASSUME NEW r \in Request, LoadFailed(r)
      PROVE  JobsKnown'
  BY <1>9, CleanupAssumption DEF LoadFailed, Return, application, service, ghosts,
     bounds, Safe, InboxKnown, JobsKnown, Message
<1>10. ASSUME NEW r \in Request, Decode(r)
      PROVE  JobsKnown'
  BY <1>10, CleanupAssumption DEF Decode, Return, application, service, ghosts, bounds,
     Safe, InboxKnown, JobsKnown, Message
<1>11. ASSUME NEW r \in Request, Reply(r)
      PROVE  JobsKnown'
  BY <1>11, CleanupAssumption DEF Reply, native, ghosts, bounds, Safe, InboxKnown,
     JobsKnown, Message
<1>12. CASE ReleaseWarm
  BY <1>12, CleanupAssumption DEF ReleaseWarm, service, jobs, native, ghosts, bounds,
     Safe, InboxKnown, JobsKnown, Message
<1>13. CASE WarmDisconnected
  BY <1>13, CleanupAssumption DEF WarmDisconnected, service, jobs, native, ghosts,
     bounds, Safe, InboxKnown, JobsKnown, Message
<1>14. CASE BeginUnload
  BY <1>14, CleanupAssumption DEF BeginUnload, service, jobs, native, ghosts, Safe,
     InboxKnown, JobsKnown, Message
<1>15. CASE SendUnload
  BY <1>15, CleanupAssumption DEF SendUnload, service, jobs, native, ghosts, bounds,
     Safe, InboxKnown, JobsKnown, Message
<1>16. CASE HandleNormalize
  <2> DEFINE h == Head(inbox).of
  <2>1. CASE Serving
    <3>1. h \in Request /\ job[h] = "none"
      <4>1. Len(inbox) >= 1 /\ Head(inbox) = inbox[1]
        BY <1>16 DEF HandleNormalize, Safe, InboxKnown
      <4> QED
        BY <1>16, <4>1 DEF HandleNormalize, Safe, InboxKnown, SentOnce
    <3>2. /\ job' = [job EXCEPT ![h] = "queued"] /\ CancelJob
          /\ g_mutex' = g_mutex /\ g_model' = g_model
      BY <1>16, <2>1 DEF HandleNormalize
    <3>3. cancelled' \in SUBSET Request /\ g_cancelled' = TRUE
      BY <3>2, CancelTyped
    <3> HIDE DEF h
    <3> QED
      BY <3>1, <3>2, <3>3 DEF Safe, JobsKnown
  <2>2. CASE ~Serving
    BY <1>16, <2>2 DEF HandleNormalize, Safe, JobsKnown
  <2> QED
    BY <2>1, <2>2
<1>17. CASE HandleCancel
  BY <1>17, CancelTyped DEF HandleCancel, Safe, JobsKnown
<1>18. CASE HandleUnload
  BY <1>18, CancelTyped DEF HandleUnload, StartUnloader, Serving, Safe, JobsKnown
<1>19. CASE Destroyed
  BY <1>19, CleanupAssumption DEF Destroyed, application, bounds, Safe, InboxKnown,
     JobsKnown, Message
<1>20. CASE Trim
  BY <1>20, CancelTyped DEF Trim, StartUnloader, Safe, JobsKnown
<1>21. CASE Create
  BY <1>21, CleanupAssumption DEF Create, Bound, application, jobs, native, ghosts,
     bounds, Safe, InboxKnown, JobsKnown, Message
<1>22. CASE Destroy
  BY <1>22, CancelTyped DEF Destroy, Safe, JobsKnown
<1>23. CASE BeginUnloading
  BY <1>23, CleanupAssumption DEF BeginUnloading, InService, application, jobs, bounds,
     Safe, InboxKnown, JobsKnown, Message
<1>24. CASE Unload
  BY <1>24, CleanupAssumption DEF Unload, application, jobs, ghosts, bounds, Safe,
     InboxKnown, JobsKnown, Message
<1>25. CASE Die
  BY <1>25, CleanupAssumption DEF Die, application, Safe, InboxKnown, JobsKnown, Message
<1>26. CASE UNCHANGED vars
  BY <1>26 DEF vars, Safe, InboxKnown, JobsKnown, Message
<1> QED
  BY <1>1, <1>2, <1>3, <1>4, <1>5, <1>6, <1>7, <1>8, <1>9, <1>10, <1>11, <1>12, <1>13,
     <1>14, <1>15, <1>16, <1>17, <1>18, <1>19, <1>20, <1>21, <1>22, <1>23, <1>24, <1>25,
     <1>26 DEF Next, Client, Coroutine, Looper, Unloader

(* Every step keeps the other types. *)
LEMMA RestStep ==
    ASSUME Safe, [Next]_vars
    PROVE  RestTyped'
<1>1. ASSUME NEW r \in Request, Bind(r)
      PROVE  RestTyped'
  BY <1>1, CleanupAssumption DEF Bind, service, jobs, native, ghosts, bounds, Safe,
     InboxKnown, JobsKnown, RestTyped, Message
<1>2. ASSUME NEW r \in Request, Connect(r)
      PROVE  RestTyped'
  BY <1>2, CleanupAssumption DEF Connect, service, jobs, native, ghosts, bounds, Safe,
     InboxKnown, JobsKnown, RestTyped, Message
<1>3. ASSUME NEW r \in Request, GiveUp(r)
      PROVE  RestTyped'
  BY <1>3, CleanupAssumption DEF GiveUp, Bound, service, jobs, native, ghosts, bounds,
     Safe, InboxKnown, JobsKnown, RestTyped, Message
<1>4. ASSUME NEW r \in Request, Receive(r)
      PROVE  RestTyped'
  BY <1>4, CleanupAssumption DEF Receive, service, jobs, native, ghosts, bounds, Safe,
     InboxKnown, JobsKnown, RestTyped, Message
<1>5. ASSUME NEW r \in Request, Disconnected(r)
      PROVE  RestTyped'
  BY <1>5, CleanupAssumption DEF Disconnected, service, jobs, native, ghosts, bounds,
     Safe, InboxKnown, JobsKnown, RestTyped, Message
<1>6. ASSUME NEW r \in Request, Begin(r)
      PROVE  RestTyped'
  BY <1>6, CleanupAssumption DEF Begin, application, service, native, ghosts, bounds,
     Safe, InboxKnown, JobsKnown, RestTyped, Message
<1>7. ASSUME NEW r \in Request, Enter(r)
      PROVE  RestTyped'
  BY <1>7, CleanupAssumption DEF Enter, application, service, ghosts, bounds, Safe,
     InboxKnown, JobsKnown, RestTyped, Message
<1>8. ASSUME NEW r \in Request, LoadModel(r)
      PROVE  RestTyped'
  BY <1>8, CleanupAssumption DEF LoadModel, application, service, ghosts, bounds, Safe,
     InboxKnown, JobsKnown, RestTyped, Message
<1>9. ASSUME NEW r \in Request, LoadFailed(r)
      PROVE  RestTyped'
  BY <1>9, CleanupAssumption DEF LoadFailed, Return, application, service, ghosts,
     bounds, Safe, InboxKnown, JobsKnown, RestTyped, Message
<1>10. ASSUME NEW r \in Request, Decode(r)
      PROVE  RestTyped'
  BY <1>10, CleanupAssumption DEF Decode, Return, application, service, ghosts, bounds,
     Safe, InboxKnown, JobsKnown, RestTyped, Message
<1>11. ASSUME NEW r \in Request, Reply(r)
      PROVE  RestTyped'
  BY <1>11, CleanupAssumption DEF Reply, native, ghosts, bounds, Safe, InboxKnown,
     JobsKnown, RestTyped, Message
<1>12. CASE ReleaseWarm
  BY <1>12, CleanupAssumption DEF ReleaseWarm, service, jobs, native, ghosts, bounds,
     Safe, InboxKnown, JobsKnown, RestTyped, Message
<1>13. CASE WarmDisconnected
  BY <1>13, CleanupAssumption DEF WarmDisconnected, service, jobs, native, ghosts,
     bounds, Safe, InboxKnown, JobsKnown, RestTyped, Message
<1>14. CASE BeginUnload
  <2>1. unloads' \in 0..MaxUnloads
    BY <1>14, CleanupAssumption DEF BeginUnload, Safe, RestTyped
  <2> QED
    BY <1>14, <2>1 DEF BeginUnload, service, jobs, native, ghosts, Safe, RestTyped
<1>15. CASE SendUnload
  BY <1>15, CleanupAssumption DEF SendUnload, service, jobs, native, ghosts, bounds,
     Safe, InboxKnown, JobsKnown, RestTyped, Message
<1>16. CASE HandleNormalize
  BY <1>16, CleanupAssumption DEF HandleNormalize, InService, CancelJob, Serving,
     application, bounds, Safe, InboxKnown, JobsKnown, RestTyped, Message
<1>17. CASE HandleCancel
  BY <1>17, CleanupAssumption DEF HandleCancel, CancelJob, application, bounds,
     InService, Safe, InboxKnown, JobsKnown, RestTyped, Message
<1>18. CASE HandleUnload
  BY <1>18, CleanupAssumption DEF HandleUnload, CancelJob, Serving, StartUnloader,
     application, bounds, InService, Safe, InboxKnown, JobsKnown, RestTyped, Message
<1>19. CASE Destroyed
  BY <1>19, CleanupAssumption DEF Destroyed, application, bounds, Safe, InboxKnown,
     JobsKnown, RestTyped, Message
<1>20. CASE Trim
  BY <1>20, CleanupAssumption DEF Trim, StartUnloader, application, CancelJob,
     InService, Safe, InboxKnown, JobsKnown, RestTyped, Message
<1>21. CASE Create
  BY <1>21, CleanupAssumption DEF Create, Bound, application, jobs, native, ghosts,
     bounds, Safe, InboxKnown, JobsKnown, RestTyped, Message
<1>22. CASE Destroy
  BY <1>22, CleanupAssumption DEF Destroy, Bound, CancelJob, application, bounds,
     InService, Safe, InboxKnown, JobsKnown, RestTyped, Message
<1>23. CASE BeginUnloading
  BY <1>23, CleanupAssumption DEF BeginUnloading, InService, application, jobs, bounds,
     Safe, InboxKnown, JobsKnown, RestTyped, Message
<1>24. CASE Unload
  BY <1>24, CleanupAssumption DEF Unload, application, jobs, ghosts, bounds, Safe,
     InboxKnown, JobsKnown, RestTyped, Message
<1>25. CASE Die
  <2>1. deaths' \in 0..MaxDeaths
    BY <1>25, CleanupAssumption DEF Die, Safe, RestTyped
  <2>2. died' \in SUBSET (Request \cup {None})
    BY <1>25 DEF Die, Safe, RestTyped
  <2> QED
    BY <1>25, <2>1, <2>2 DEF Die, application, Safe, RestTyped
<1>26. CASE UNCHANGED vars
  BY <1>26 DEF vars, Safe, InboxKnown, JobsKnown, RestTyped, Message
<1> QED
  BY <1>1, <1>2, <1>3, <1>4, <1>5, <1>6, <1>7, <1>8, <1>9, <1>10, <1>11, <1>12, <1>13,
     <1>14, <1>15, <1>16, <1>17, <1>18, <1>19, <1>20, <1>21, <1>22, <1>23, <1>24, <1>25,
     <1>26 DEF Next, Client, Coroutine, Looper, Unloader

(* Every step keeps the model under the job that decodes with it. *)
LEMMA OwnedStep ==
    ASSUME Safe, ModelOwned, [Next]_vars
    PROVE  ModelOwned'
<1>1. ASSUME NEW r \in Request, Bind(r)
      PROVE  ModelOwned'
  BY <1>1, CleanupAssumption DEF Bind, service, jobs, native, ghosts, bounds, Safe,
     JobsKnown, ModelOwned
<1>2. ASSUME NEW r \in Request, Connect(r)
      PROVE  ModelOwned'
  BY <1>2, CleanupAssumption DEF Connect, service, jobs, native, ghosts, bounds, Safe,
     JobsKnown, ModelOwned
<1>3. ASSUME NEW r \in Request, GiveUp(r)
      PROVE  ModelOwned'
  BY <1>3, CleanupAssumption DEF GiveUp, Bound, service, jobs, native, ghosts, bounds,
     Safe, JobsKnown, ModelOwned
<1>4. ASSUME NEW r \in Request, Receive(r)
      PROVE  ModelOwned'
  BY <1>4, CleanupAssumption DEF Receive, service, jobs, native, ghosts, bounds, Safe,
     JobsKnown, ModelOwned
<1>5. ASSUME NEW r \in Request, Disconnected(r)
      PROVE  ModelOwned'
  BY <1>5, CleanupAssumption DEF Disconnected, service, jobs, native, ghosts, bounds,
     Safe, JobsKnown, ModelOwned
<1>6. ASSUME NEW r \in Request, Begin(r)
      PROVE  ModelOwned'
  BY <1>6, CleanupAssumption DEF Begin, application, service, native, ghosts, bounds,
     Safe, JobsKnown, ModelOwned
<1>7. ASSUME NEW r \in Request, Enter(r)
      PROVE  ModelOwned'
  BY <1>7, CleanupAssumption DEF Enter, application, service, ghosts, bounds, Safe,
     JobsKnown, ModelOwned
<1>8. ASSUME NEW r \in Request, LoadModel(r)
      PROVE  ModelOwned'
  BY <1>8, CleanupAssumption DEF LoadModel, application, service, ghosts, bounds, Safe,
     JobsKnown, ModelOwned
<1>9. ASSUME NEW r \in Request, LoadFailed(r)
      PROVE  ModelOwned'
  BY <1>9, CleanupAssumption DEF LoadFailed, Return, application, service, ghosts,
     bounds, Safe, JobsKnown, ModelOwned
<1>10. ASSUME NEW r \in Request, Decode(r)
      PROVE  ModelOwned'
  BY <1>10, CleanupAssumption DEF Decode, Return, application, service, ghosts, bounds,
     Safe, JobsKnown, ModelOwned
<1>11. ASSUME NEW r \in Request, Reply(r)
      PROVE  ModelOwned'
  BY <1>11, CleanupAssumption DEF Reply, native, ghosts, bounds, Safe, JobsKnown,
     ModelOwned
<1>12. CASE ReleaseWarm
  BY <1>12, CleanupAssumption DEF ReleaseWarm, service, jobs, native, ghosts, bounds,
     Safe, JobsKnown, ModelOwned
<1>13. CASE WarmDisconnected
  BY <1>13, CleanupAssumption DEF WarmDisconnected, service, jobs, native, ghosts,
     bounds, Safe, JobsKnown, ModelOwned
<1>14. CASE BeginUnload
  BY <1>14, CleanupAssumption DEF BeginUnload, service, jobs, native, ghosts, Safe,
     JobsKnown, ModelOwned
<1>15. CASE SendUnload
  BY <1>15, CleanupAssumption DEF SendUnload, service, jobs, native, ghosts, bounds,
     Safe, JobsKnown, ModelOwned
<1>16. CASE HandleNormalize
  BY <1>16, CleanupAssumption DEF HandleNormalize, InService, CancelJob, Serving,
     application, bounds, Safe, JobsKnown, ModelOwned
<1>17. CASE HandleCancel
  BY <1>17, CleanupAssumption DEF HandleCancel, CancelJob, application, bounds,
     InService, Safe, JobsKnown, ModelOwned
<1>18. CASE HandleUnload
  BY <1>18, CleanupAssumption DEF HandleUnload, CancelJob, Serving, StartUnloader,
     application, bounds, InService, Safe, JobsKnown, ModelOwned
<1>19. CASE Destroyed
  BY <1>19, CleanupAssumption DEF Destroyed, application, bounds, Safe, JobsKnown,
     ModelOwned
<1>20. CASE Trim
  BY <1>20, CleanupAssumption DEF Trim, StartUnloader, application, CancelJob,
     InService, Safe, JobsKnown, ModelOwned
<1>21. CASE Create
  BY <1>21, CleanupAssumption DEF Create, Bound, application, jobs, native, ghosts,
     bounds, Safe, JobsKnown, ModelOwned
<1>22. CASE Destroy
  BY <1>22, CleanupAssumption DEF Destroy, Bound, CancelJob, application, bounds,
     InService, Safe, JobsKnown, ModelOwned
<1>23. CASE BeginUnloading
  BY <1>23, CleanupAssumption DEF BeginUnloading, InService, application, jobs, bounds,
     Safe, JobsKnown, ModelOwned
<1>24. CASE Unload
  BY <1>24, CleanupAssumption DEF Unload, application, jobs, ghosts, bounds, Safe,
     JobsKnown, ModelOwned
<1>25. CASE Die
  BY <1>25, CleanupAssumption DEF Die, application, Safe, JobsKnown, ModelOwned
<1>26. CASE UNCHANGED vars
  BY <1>26 DEF vars, Safe, JobsKnown, ModelOwned
<1> QED
  BY <1>1, <1>2, <1>3, <1>4, <1>5, <1>6, <1>7, <1>8, <1>9, <1>10, <1>11, <1>12, <1>13,
     <1>14, <1>15, <1>16, <1>17, <1>18, <1>19, <1>20, <1>21, <1>22, <1>23, <1>24, <1>25,
     <1>26 DEF Next, Client, Coroutine, Looper, Unloader

(* Every step that sets the flag, or is stopped by it, disturbs the request. *)
LEMMA FlagStep ==
    ASSUME Safe, FlagExplained, [Next]_vars
    PROVE  FlagExplained'
<1>1. ASSUME NEW r \in Request, Bind(r)
      PROVE  FlagExplained'
  BY <1>1, CleanupAssumption DEF Bind, service, jobs, native, ghosts, bounds, Safe,
     InboxKnown, JobsKnown, RestTyped, FlagExplained, Message
<1>2. ASSUME NEW r \in Request, Connect(r)
      PROVE  FlagExplained'
  BY <1>2, CleanupAssumption DEF Connect, service, jobs, native, ghosts, bounds, Safe,
     InboxKnown, JobsKnown, RestTyped, FlagExplained, Message
<1>3. ASSUME NEW r \in Request, GiveUp(r)
      PROVE  FlagExplained'
  BY <1>3, CleanupAssumption DEF GiveUp, Bound, service, jobs, native, ghosts, bounds,
     Safe, InboxKnown, JobsKnown, RestTyped, FlagExplained, Message
<1>4. ASSUME NEW r \in Request, Receive(r)
      PROVE  FlagExplained'
  BY <1>4, CleanupAssumption DEF Receive, service, jobs, native, ghosts, bounds, Safe,
     InboxKnown, JobsKnown, RestTyped, FlagExplained, Message
<1>5. ASSUME NEW r \in Request, Disconnected(r)
      PROVE  FlagExplained'
  BY <1>5, CleanupAssumption DEF Disconnected, service, jobs, native, ghosts, bounds,
     Safe, InboxKnown, JobsKnown, RestTyped, FlagExplained, Message
<1>6. ASSUME NEW r \in Request, Begin(r)
      PROVE  FlagExplained'
  BY <1>6, CleanupAssumption DEF Begin, application, service, native, ghosts, bounds,
     Safe, InboxKnown, JobsKnown, RestTyped, FlagExplained, Message
<1>7. ASSUME NEW r \in Request, Enter(r)
      PROVE  FlagExplained'
  BY <1>7, CleanupAssumption DEF Enter, application, service, ghosts, bounds, Safe,
     InboxKnown, JobsKnown, RestTyped, FlagExplained, Message
<1>8. ASSUME NEW r \in Request, LoadModel(r)
      PROVE  FlagExplained'
  BY <1>8, CleanupAssumption DEF LoadModel, application, service, ghosts, bounds, Safe,
     InboxKnown, JobsKnown, RestTyped, FlagExplained, Message
<1>9. ASSUME NEW r \in Request, LoadFailed(r)
      PROVE  FlagExplained'
  BY <1>9, CleanupAssumption DEF LoadFailed, Return, application, service, ghosts,
     bounds, Safe, InboxKnown, JobsKnown, RestTyped, FlagExplained, Message
<1>10. ASSUME NEW r \in Request, Decode(r)
      PROVE  FlagExplained'
  BY <1>10, CleanupAssumption DEF Decode, Return, application, service, ghosts, bounds,
     Safe, InboxKnown, JobsKnown, RestTyped, FlagExplained, Message
<1>11. ASSUME NEW r \in Request, Reply(r)
      PROVE  FlagExplained'
  BY <1>11, CleanupAssumption DEF Reply, native, ghosts, bounds, Safe, InboxKnown,
     JobsKnown, RestTyped, FlagExplained, Message
<1>12. CASE ReleaseWarm
  BY <1>12, CleanupAssumption DEF ReleaseWarm, service, jobs, native, ghosts, bounds,
     Safe, InboxKnown, JobsKnown, RestTyped, FlagExplained, Message
<1>13. CASE WarmDisconnected
  BY <1>13, CleanupAssumption DEF WarmDisconnected, service, jobs, native, ghosts,
     bounds, Safe, InboxKnown, JobsKnown, RestTyped, FlagExplained, Message
<1>14. CASE BeginUnload
  BY <1>14, CleanupAssumption DEF BeginUnload, service, jobs, native, ghosts, Safe,
     InboxKnown, JobsKnown, RestTyped, FlagExplained, Message
<1>15. CASE SendUnload
  BY <1>15, CleanupAssumption DEF SendUnload, service, jobs, native, ghosts, bounds,
     Safe, InboxKnown, JobsKnown, RestTyped, FlagExplained, Message
<1>16. CASE HandleNormalize
  BY <1>16, CleanupAssumption DEF HandleNormalize, InService, CancelJob, Serving,
     application, bounds, Safe, InboxKnown, JobsKnown, RestTyped, FlagExplained, Message
<1>17. CASE HandleCancel
  BY <1>17, CleanupAssumption DEF HandleCancel, CancelJob, application, bounds,
     InService, Safe, InboxKnown, JobsKnown, RestTyped, FlagExplained, Message
<1>18. CASE HandleUnload
  BY <1>18, CleanupAssumption DEF HandleUnload, CancelJob, Serving, StartUnloader,
     application, bounds, InService, Safe, InboxKnown, JobsKnown, RestTyped,
     FlagExplained, Message
<1>19. CASE Destroyed
  BY <1>19, CleanupAssumption DEF Destroyed, application, bounds, Safe, InboxKnown,
     JobsKnown, RestTyped, FlagExplained, Message
<1>20. CASE Trim
  BY <1>20, CleanupAssumption DEF Trim, StartUnloader, application, CancelJob,
     InService, Safe, InboxKnown, JobsKnown, RestTyped, FlagExplained, Message
<1>21. CASE Create
  BY <1>21, CleanupAssumption DEF Create, Bound, application, jobs, native, ghosts,
     bounds, Safe, InboxKnown, JobsKnown, RestTyped, FlagExplained, Message
<1>22. CASE Destroy
  BY <1>22, CleanupAssumption DEF Destroy, Bound, CancelJob, application, bounds,
     InService, Safe, InboxKnown, JobsKnown, RestTyped, FlagExplained, Message
<1>23. CASE BeginUnloading
  BY <1>23, CleanupAssumption DEF BeginUnloading, InService, application, jobs, bounds,
     Safe, InboxKnown, JobsKnown, RestTyped, FlagExplained, Message
<1>24. CASE Unload
  BY <1>24, CleanupAssumption DEF Unload, application, jobs, ghosts, bounds, Safe,
     InboxKnown, JobsKnown, RestTyped, FlagExplained, Message
<1>25. CASE Die
  BY <1>25, CleanupAssumption DEF Die, application, Safe, InboxKnown, JobsKnown,
     RestTyped, FlagExplained, Message
<1>26. CASE UNCHANGED vars
  BY <1>26 DEF vars, Safe, InboxKnown, JobsKnown, RestTyped, FlagExplained, Message
<1> QED
  BY <1>1, <1>2, <1>3, <1>4, <1>5, <1>6, <1>7, <1>8, <1>9, <1>10, <1>11, <1>12, <1>13,
     <1>14, <1>15, <1>16, <1>17, <1>18, <1>19, <1>20, <1>21, <1>22, <1>23, <1>24, <1>25,
     <1>26 DEF Next, Client, Coroutine, Looper, Unloader

(* Every step leaves nothing behind in a process without a service. *)
LEMMA LeftStep ==
    ASSUME Safe, NothingLeft, [Next]_vars
    PROVE  NothingLeft'
<1>1. ASSUME NEW r \in Request, Bind(r)
      PROVE  NothingLeft'
  BY <1>1, CleanupAssumption DEF Bind, service, jobs, native, ghosts, bounds, Safe,
     InboxKnown, JobsKnown, RestTyped, NothingLeft, Message
<1>2. ASSUME NEW r \in Request, Connect(r)
      PROVE  NothingLeft'
  BY <1>2, CleanupAssumption DEF Connect, service, jobs, native, ghosts, bounds, Safe,
     InboxKnown, JobsKnown, RestTyped, NothingLeft, Message
<1>3. ASSUME NEW r \in Request, GiveUp(r)
      PROVE  NothingLeft'
  BY <1>3, CleanupAssumption DEF GiveUp, Bound, service, jobs, native, ghosts, bounds,
     Safe, InboxKnown, JobsKnown, RestTyped, NothingLeft, Message
<1>4. ASSUME NEW r \in Request, Receive(r)
      PROVE  NothingLeft'
  BY <1>4, CleanupAssumption DEF Receive, service, jobs, native, ghosts, bounds, Safe,
     InboxKnown, JobsKnown, RestTyped, NothingLeft, Message
<1>5. ASSUME NEW r \in Request, Disconnected(r)
      PROVE  NothingLeft'
  BY <1>5, CleanupAssumption DEF Disconnected, service, jobs, native, ghosts, bounds,
     Safe, InboxKnown, JobsKnown, RestTyped, NothingLeft, Message
<1>6. ASSUME NEW r \in Request, Begin(r)
      PROVE  NothingLeft'
  BY <1>6, CleanupAssumption DEF Begin, application, service, native, ghosts, bounds,
     Safe, InboxKnown, JobsKnown, RestTyped, NothingLeft, Message
<1>7. ASSUME NEW r \in Request, Enter(r)
      PROVE  NothingLeft'
  BY <1>7, CleanupAssumption DEF Enter, application, service, ghosts, bounds, Safe,
     InboxKnown, JobsKnown, RestTyped, NothingLeft, Message
<1>8. ASSUME NEW r \in Request, LoadModel(r)
      PROVE  NothingLeft'
  BY <1>8, CleanupAssumption DEF LoadModel, application, service, ghosts, bounds, Safe,
     InboxKnown, JobsKnown, RestTyped, NothingLeft, Message
<1>9. ASSUME NEW r \in Request, LoadFailed(r)
      PROVE  NothingLeft'
  BY <1>9, CleanupAssumption DEF LoadFailed, Return, application, service, ghosts,
     bounds, Safe, InboxKnown, JobsKnown, RestTyped, NothingLeft, Message
<1>10. ASSUME NEW r \in Request, Decode(r)
      PROVE  NothingLeft'
  BY <1>10, CleanupAssumption DEF Decode, Return, application, service, ghosts, bounds,
     Safe, InboxKnown, JobsKnown, RestTyped, NothingLeft, Message
<1>11. ASSUME NEW r \in Request, Reply(r)
      PROVE  NothingLeft'
  BY <1>11, CleanupAssumption DEF Reply, native, ghosts, bounds, Safe, InboxKnown,
     JobsKnown, RestTyped, NothingLeft, Message
<1>12. CASE ReleaseWarm
  BY <1>12, CleanupAssumption DEF ReleaseWarm, service, jobs, native, ghosts, bounds,
     Safe, InboxKnown, JobsKnown, RestTyped, NothingLeft, Message
<1>13. CASE WarmDisconnected
  BY <1>13, CleanupAssumption DEF WarmDisconnected, service, jobs, native, ghosts,
     bounds, Safe, InboxKnown, JobsKnown, RestTyped, NothingLeft, Message
<1>14. CASE BeginUnload
  BY <1>14, CleanupAssumption DEF BeginUnload, service, jobs, native, ghosts, Safe,
     InboxKnown, JobsKnown, RestTyped, NothingLeft, Message
<1>15. CASE SendUnload
  BY <1>15, CleanupAssumption DEF SendUnload, service, jobs, native, ghosts, bounds,
     Safe, InboxKnown, JobsKnown, RestTyped, NothingLeft, Message
<1>16. CASE HandleNormalize
  BY <1>16, CleanupAssumption DEF HandleNormalize, InService, CancelJob, Serving,
     application, bounds, Safe, InboxKnown, JobsKnown, RestTyped, NothingLeft, Message
<1>17. CASE HandleCancel
  BY <1>17, CleanupAssumption DEF HandleCancel, CancelJob, application, bounds,
     InService, Safe, InboxKnown, JobsKnown, RestTyped, NothingLeft, Message
<1>18. CASE HandleUnload
  BY <1>18, CleanupAssumption DEF HandleUnload, CancelJob, Serving, StartUnloader,
     application, bounds, InService, Safe, InboxKnown, JobsKnown, RestTyped,
     NothingLeft, Message
<1>19. CASE Destroyed
  BY <1>19, CleanupAssumption DEF Destroyed, application, bounds, Safe, InboxKnown,
     JobsKnown, RestTyped, NothingLeft, Message
<1>20. CASE Trim
  BY <1>20, CleanupAssumption DEF Trim, StartUnloader, application, CancelJob,
     InService, Safe, InboxKnown, JobsKnown, RestTyped, NothingLeft, Message
<1>21. CASE Create
  BY <1>21, CleanupAssumption DEF Create, Bound, application, jobs, native, ghosts,
     bounds, Safe, InboxKnown, JobsKnown, RestTyped, NothingLeft, Message
<1>22. CASE Destroy
  BY <1>22, CleanupAssumption DEF Destroy, Bound, CancelJob, application, bounds,
     InService, Safe, InboxKnown, JobsKnown, RestTyped, NothingLeft, Message
<1>23. CASE BeginUnloading
  BY <1>23, CleanupAssumption DEF BeginUnloading, InService, application, jobs, bounds,
     Safe, InboxKnown, JobsKnown, RestTyped, NothingLeft, Message
<1>24. CASE Unload
  BY <1>24, CleanupAssumption DEF Unload, application, jobs, ghosts, bounds, Safe,
     InboxKnown, JobsKnown, RestTyped, NothingLeft, Message
<1>25. CASE Die
  BY <1>25, CleanupAssumption DEF Die, application, Safe, InboxKnown, JobsKnown,
     RestTyped, NothingLeft, Message
<1>26. CASE UNCHANGED vars
  BY <1>26 DEF vars, Safe, InboxKnown, JobsKnown, RestTyped, NothingLeft, Message
<1> QED
  BY <1>1, <1>2, <1>3, <1>4, <1>5, <1>6, <1>7, <1>8, <1>9, <1>10, <1>11, <1>12, <1>13,
     <1>14, <1>15, <1>16, <1>17, <1>18, <1>19, <1>20, <1>21, <1>22, <1>23, <1>24, <1>25,
     <1>26 DEF Next, Client, Coroutine, Looper, Unloader

-----------------------------------------------------------------------------
(* The theorems.                                                           *)

(* The inductive invariant holds in every state of the service.            *)
LEMMA SafeAlways == Spec => []Safe
<1>1. Init => Safe
  <2> SUFFICES ASSUME Init
               PROVE  Safe
    OBVIOUS
  <2>1. InboxKnown
    BY DEF Init, InboxKnown
  <2>2. JobsKnown
    BY CleanupAssumption DEF Init, JobsKnown
  <2>3. RestTyped
    <3>1. 0 \in 0..MaxUnloads /\ 0 \in 0..MaxDeaths
      BY CleanupAssumption
    <3> QED
      BY <3>1 DEF Init, RestTyped
  <2>4. SentOnce
    BY DEF Init, SentOnce
  <2> QED
    BY <2>1, <2>2, <2>3, <2>4 DEF Safe
<1>2. Safe /\ [Next]_vars => Safe'
  BY InboxStep, OnceStep, JobsStep, RestStep DEF Safe
<1> QED
  BY <1>1, <1>2, PTL DEF Spec

(* The types, and that g_mutex is held by the job inside the library.      *)
THEOREM TypeCorrect == Spec => []TypeOK
<1>1. InboxKnown => \A i \in DOMAIN inbox : inbox[i] \in
         [what : {"normalize", "cancel", "unload"}, of : Request \cup {None}, live : BOOLEAN]
  <2>1. InboxKnown => \A i \in DOMAIN inbox : inbox[i] \in Message
    BY DEF InboxKnown
  <2> QED
    BY <2>1 DEF Message
<1>2. Safe => TypeOK
  BY <1>1 DEF Safe, JobsKnown, RestTyped, TypeOK
<1> QED
  BY SafeAlways, <1>2, PTL

(* No unload, trim or destruction frees the model under a decoding job.    *)
THEOREM ModelStays == Spec => []ModelOwned
<1>1. Init => ModelOwned
  BY DEF Init, ModelOwned
<1>2. Safe /\ ModelOwned /\ [Next]_vars => ModelOwned'
  BY OwnedStep
<1> QED
  BY SafeAlways, <1>1, <1>2, PTL DEF Spec

(* The flag of an earlier cancellation does not abort the next request.    *)
THEOREM CancelledExplained == Spec => []CancelledOnlyWhenDisturbed
<1>1. Init => FlagExplained
  BY DEF Init, FlagExplained
<1>2. Safe /\ FlagExplained /\ [Next]_vars => FlagExplained'
  BY FlagStep
<1>3. FlagExplained => CancelledOnlyWhenDisturbed
  BY DEF FlagExplained, CancelledOnlyWhenDisturbed
<1> QED
  BY SafeAlways, <1>1, <1>2, <1>3, PTL DEF Spec

(* A process whose service is gone keeps no model, unless a job was past   *)
(* its last check for cancellation when the service was destroyed.         *)
THEOREM NoModelLeft == Spec => []NoModelWithoutService
<1>1. Init => NothingLeft
  BY DEF Init, NothingLeft
<1>2. Safe /\ NothingLeft /\ [Next]_vars => NothingLeft'
  BY LeftStep
<1>3. NothingLeft => NoModelWithoutService
  BY DEF NothingLeft, NoModelWithoutService
<1> QED
  BY SafeAlways, <1>1, <1>2, <1>3, PTL DEF Spec
=============================================================================
