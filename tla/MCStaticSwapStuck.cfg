SPECIFICATION MCSpec
CONSTANTS
    Updaters = {u1, u2}
    Absent = Absent
    Partial = Partial
    NoOne = NoOne
    MaxUpdates = 2
    MaxFaults = 2
    FaultContexts = {"recovering", "swapping", "rolling_back"}
SYMMETRY UpdaterSymmetry
INVARIANTS
    RecoveryNeverRefuses
CHECK_DEADLOCK FALSE
