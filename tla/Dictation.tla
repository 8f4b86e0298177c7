------------------------------ MODULE Dictation ------------------------------
(***************************************************************************)
(* What the dictation engine promises to whoever looks at the screen: one  *)
(* utterance at a time is recorded and then processed, its text is         *)
(* delivered at most once and only after it was stopped, and an utterance  *)
(* that failed, was cancelled or was delivered stays so.                   *)
(***************************************************************************)
CONSTANTS
    Utterances,      \* the utterances that may be dictated
    NoUtterance      \* not an utterance: the screen shows none

VARIABLES
    stage,           \* how far each utterance has come
    current          \* the utterance on the screen

vars == <<stage, current>>

Ended == {"delivered", "failed", "cancelled"}
Stages == {"idle", "recording", "processing"} \cup Ended

TypeOK ==
    /\ stage \in [Utterances -> Stages]
    /\ current \in Utterances \cup {NoUtterance}

Init ==
    /\ stage = [u \in Utterances |-> "idle"]
    /\ current = NoUtterance

(* A recording starts only when no other utterance is under way.           *)
Start(u) ==
    /\ stage[u] = "idle"
    /\ \A v \in Utterances : stage[v] \notin {"recording", "processing"}
    /\ stage' = [stage EXCEPT ![u] = "recording"]
    /\ current' = u

(* The user, the detector of the end of speech, the duration limit or a    *)
(* microphone that stopped: what was recorded is processed.                *)
Stop(u) ==
    /\ u = current /\ stage[u] = "recording"
    /\ stage' = [stage EXCEPT ![u] = "processing"]
    /\ UNCHANGED current

Deliver(u) ==
    /\ u = current /\ stage[u] = "processing"
    /\ stage' = [stage EXCEPT ![u] = "delivered"]
    /\ UNCHANGED current

Fail(u) ==
    /\ u = current /\ stage[u] \in {"recording", "processing"}
    /\ stage' = [stage EXCEPT ![u] = "failed"]
    /\ UNCHANGED current

(* The screen is left: what is under way is cancelled.                     *)
Leave ==
    /\ current # NoUtterance
    /\ stage' = [u \in Utterances |->
                   IF u = current /\ stage[u] \notin Ended THEN "cancelled" ELSE stage[u]]
    /\ current' = NoUtterance

Next ==
    \/ \E u \in Utterances : Start(u) \/ Stop(u) \/ Deliver(u) \/ Fail(u)
    \/ Leave

Spec == Init /\ [][Next]_vars
==============================================================================
