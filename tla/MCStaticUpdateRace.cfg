SPECIFICATION Spec
CONSTANTS
    r1 = r1
    r2 = r2
    t1 = t1
    t2 = t2
    t3 = t3
    extra = extra
    red = red
    blue = blue
    Runs = {r1, r2}
    Retained = Retained
    NoFile = NoFile
    EmptyFile = EmptyFile
    Scenarios <- KeepersOnly
    MaxKills = 1
    Required = {"trips.txt"}
    NoDate = NoDate
    Unreadable = Unreadable
    MaxMembers = 4
    MaxMemberBytes = 4
    MaxTotalBytes = 8
    MaxRatio = 4
    Blank = Blank
    NoTime = NoTime
    Unusable = Unusable
    MinimumTrips = 2
    MinimumMatch <- MCMinimumMatch
    MaxFeedAge = 3
    MaxFutureSkew = 1
    TicksPerDay = 8
    LastTime = 50
    Now = 10
INVARIANTS
    ManifestNamesItsArchive
CHECK_DEADLOCK FALSE
