SPECIFICATION MCSpec
CONSTANTS
    Updaters = {u1, u2}
    Absent = Absent
    Partial = Partial
    NoOne = NoOne
    MaxUpdates = 4
    MaxFaults = 3
    FaultContexts = {"recovering", "swapping", "rolling_back"}
SYMMETRY UpdaterSymmetry
INVARIANTS
    RecoveriesRefuseOnlyTheirOwn
PROPERTIES
    ImplementsStore
    ReportsAreTrue
CHECK_DEADLOCK FALSE
