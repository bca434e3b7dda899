SPECIFICATION Spec
CONSTANTS
    Blank = Blank
    Garbled = Garbled
    Unreadable = Unreadable
    NoAnswer = NoAnswer
    Directories <- MCDirectories
    Queries <- MCQueries
INVARIANTS
    EarliestIsBest
    DirectAgreesWithEarliest
    AcceptedScheduleIsWhole
    WalksAreShortest
PROPERTIES
    QueriesAreAnswered
CHECK_DEADLOCK FALSE
