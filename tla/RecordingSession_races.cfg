SPECIFICATION Spec
CONSTANTS
    MaxDictations = 3
    MaxResets = 1
    Parakeet = FALSE
    Streaming = FALSE
    KeepAudio = FALSE
    Preemption = FALSE
    Overlap = TRUE
    Faults <- NoFaults
INVARIANT MicrophoneOwned
INVARIANT NeverStartTwice
CHECK_DEADLOCK FALSE
