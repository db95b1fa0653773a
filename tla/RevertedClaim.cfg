SPECIFICATION Spec
CONSTANTS
    Transfers = {h1, h2}
    MaxAttempts = 1
    None = None
INVARIANTS RevertedIsTrue
CHECK_DEADLOCK FALSE
