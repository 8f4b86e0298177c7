SPECIFICATION Spec
CONSTANTS
    MaxDictations = 2
    MaxResets = 1
    Parakeet = FALSE
    Streaming = FALSE
    KeepAudio = FALSE
    Preemption = TRUE
    Overlap = FALSE
    Faults <- NoFaults
INVARIANT SessionHeldWhileDictating
CHECK_DEADLOCK FALSE
