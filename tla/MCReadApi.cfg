SPECIFICATION MCSpec
CONSTANTS
    Absent = Absent
    Blank = Blank
    Stripped <- MCStripped
    Collation <- MCCollation
    Sessions = {s1, s2}
    s1 = s1
    s2 = s2
    Cycles <- MCCycles
    CallScenarios <- MCCallScenarios
    Bucket = 1
    Day = 2
    Retention = 1
    MaxNow = 2
    Requests = {q1, q2, q3}
    RouteIds = {r1, r2}
    NoRoute = NoRoute
    RequestScenarios <- MCRequestScenarios
    TtlSeconds = 2
    MaxEntries = 1
    QueryTimeout = 1
    MaxClock = 4
INVARIANTS
    CyclesCountedOnce
    RollupsAreWhole
    ServedIsRecent
PROPERTIES
    DailyNeverGoesBack
SYMMETRY Symmetry
CHECK_DEADLOCK FALSE
