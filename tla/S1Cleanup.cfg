SPECIFICATION Spec
CONSTANTS
    Request = {r1, r2}
    None = None
    MaxUnloads = 1
    MaxDeaths = 1
INVARIANTS TypeOK ModelOwned CancelledOnlyWhenDisturbed NoModelWithoutService
PROPERTIES UndisturbedAnswered
CHECK_DEADLOCK FALSE
