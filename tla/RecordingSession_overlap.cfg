SPECIFICATION Spec
CONSTANTS
    MaxDictations = 2
    MaxResets = 1
    Parakeet = TRUE
    Streaming = FALSE
    KeepAudio = TRUE
    Preemption = FALSE
    Overlap = TRUE
    Faults <- LoadFault
INVARIANT TypeOK
INVARIANT SessionLeaseOwned
INVARIANT FieldsAreCurrent
CHECK_DEADLOCK FALSE
