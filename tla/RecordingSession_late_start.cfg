SPECIFICATION Spec
CONSTANTS
    MaxDictations = 2
    MaxResets = 1
    Parakeet = FALSE
    Streaming = FALSE
    KeepAudio = FALSE
    Preemption = FALSE
    Overlap = TRUE
    Faults <- NoFaults
PROPERTY ResetStopsPendingStart
CHECK_DEADLOCK FALSE
