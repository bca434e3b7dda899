SPECIFICATION Spec
CONSTANTS
    Urls = {a}
    InvalidUrls = {}
    NoUrl = NoUrl
    MaxSockets = 1
    staleAfterMs = 2
    maxFutureSkewMs = 1
    MaxElapsed = 3
    MaxStepsBack = 1
INVARIANTS
    StaleAfterSilence
CHECK_DEADLOCK FALSE
