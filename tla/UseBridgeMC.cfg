SPECIFICATION Spec
CONSTANTS
    Transfers = {h1, h2}
    MaxAttempts = 1
    None = None
INVARIANTS HookTypeOK SuccessIsTrue WatchIsLive OwnStatus OwnDirection
PROPERTIES SourceWatchEnds
CHECK_DEADLOCK FALSE
