SPECIFICATION Spec
CONSTANTS
    Client = {c1, c2}
    Parakeet = Parakeet
    Other = Other
    Legacy = Legacy
    None = None
    MaxRuns = 3
    MaxChanges = 2
INVARIANTS TypeOK EngineOpenWhileLeased IdleEngineScheduled ComparisonAlone
PROPERTIES FilesInUseUntouched ActivationEnds
CHECK_DEADLOCK FALSE
