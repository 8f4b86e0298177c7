SPECIFICATION Spec
CONSTANTS
    MaxDictations = 2
    MaxResets = 1
    Parakeet = FALSE
    Streaming = TRUE
    KeepAudio = TRUE
    Preemption = FALSE
    Overlap = FALSE
    Faults <- AllFaults
INVARIANT SessionHeldWhileDictating
INVARIANT RuntimesOwned
INVARIANT RuntimeAliveWhileDecoding
INVARIANT StreamedAudioComplete
PROPERTY ImplementsDictation
CHECK_DEADLOCK FALSE
