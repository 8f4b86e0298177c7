--------------------------- MODULE InstalledModel ---------------------------
(***************************************************************************)
(* What the store of one downloadable recognition model promises to the    *)
(* rest of the application (recognition/RecognitionModelCatalog.kt,        *)
(* class RecognitionModelStore), whatever its files look like and wherever *)
(* the process dies: there is one usable version, or none; an installation *)
(* replaces it at one instant and never by an older one; it is lost only   *)
(* while someone removes it, by deleting the model or by invalidating an   *)
(* installation that did not load.                                         *)
(***************************************************************************)
EXTENDS Naturals

CONSTANT Versions   \* the versions of the model that are ever published

NoVersion == 0

VARIABLES
    usable,     \* the version the next reader of the store gets, or NoVersion
    removing    \* a deletion or an invalidation is under way

vars == <<usable, removing>>

Init == usable = NoVersion /\ removing = FALSE

Install(v) ==
    /\ ~removing
    /\ v >= usable
    /\ usable' = v
    /\ UNCHANGED removing

AskRemoval ==
    /\ removing' = TRUE
    /\ UNCHANGED usable

Remove ==
    /\ removing
    /\ usable' = NoVersion
    /\ removing' \in BOOLEAN

EndRemoval ==
    /\ removing' = FALSE
    /\ UNCHANGED usable

Next ==
    \/ \E v \in Versions : Install(v)
    \/ AskRemoval
    \/ Remove
    \/ EndRemoval

Spec == Init /\ [][Next]_vars
=============================================================================
