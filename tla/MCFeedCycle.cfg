SPECIFICATION Spec
CONSTANTS
    Absent = Absent
    Blank = Blank
    Garbled = Garbled
    Stripped <- MCStripped
    Collation <- MCCollation
    MinTime = 0
    MaxTime = 1000
    MaxInteger = 150
    MaxStopTimeOffset = 60
    DayLength = 100
    StopTimes <- MCStopTimes
    Trips <- MCTrips
    SNames = {"S1"}
    UtcOffset = 2
    Feeds <- MCFeeds
    Times = {108, 112, 120, 125, 128, 138}
    Limits = {Absent, 1}
    BatchSize = 2
INVARIANTS
    AcceptedFeedsAreShown
    ShownAsEstimatedAlone
