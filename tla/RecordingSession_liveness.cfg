SPECIFICATION FairSpec
CONSTANTS
    MaxDictations = 2
    MaxResets = 1
    Parakeet = TRUE
    Streaming = FALSE
    KeepAudio = TRUE
    Preemption = FALSE
    Overlap = FALSE
    Faults <- SomeFaults
PROPERTY StoppedDictationEnds
PROPERTY ResetGivesBack
CHECK_DEADLOCK FALSE
