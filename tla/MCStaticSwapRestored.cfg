SPECIFICATION MCSpec
CONSTANTS
    Updaters = {u1, u2}
    Absent = Absent
    Partial = Partial
    NoOne = NoOne
    MaxUpdates = 1
    MaxFaults = 1
    FaultContexts = {"recovering", "swapping", "rolling_back"}
SYMMETRY UpdaterSymmetry
PROPERTIES
    RestoredIsPrevious
CHECK_DEADLOCK FALSE
