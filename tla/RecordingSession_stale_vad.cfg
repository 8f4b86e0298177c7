SPECIFICATION Spec
CONSTANTS
    MaxDictations = 2
    MaxResets = 1
    Parakeet = FALSE
    Streaming = FALSE
    KeepAudio = FALSE
    Preemption = FALSE
    Overlap = TRUE
    Faults <- NoFaults
INVARIANT RecordingIsCaptured
CHECK_DEADLOCK FALSE
