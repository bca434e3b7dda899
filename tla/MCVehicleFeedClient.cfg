SPECIFICATION Spec
CONSTANTS
    Urls = {a, b, broken}
    InvalidUrls = {broken}
    NoUrl = NoUrl
    MaxSockets = 3
    staleAfterMs = 2
    maxFutureSkewMs = 1
    MaxElapsed = 3
    MaxStepsBack = 1
INVARIANTS
    OneLiveSocket
    ShownIsFromUrl
    NeverDisconnectedForGood
    SilentIsStale
    FreshIsRecent
PROPERTIES
    BackoffSurvivesOpen
CHECK_DEADLOCK FALSE
