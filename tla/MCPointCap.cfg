SPECIFICATION QuerySpec
CONSTANTS
    Series = {gauge, count}
    Counter = {count}
    Tag = {measured, target}
    Width = 2
    RawWindow = 2
    Retention = 4
    MaxBack = 0
    MaxLag = 0
    MaxClock = 4
    MaxTicks = 3
    MaxQueue = 1
    Absent = Absent
    Second = 1
    DefaultWindow = 1
    MaxPoints = 1
    IntMax = 7
    HistoryEnabled = TRUE
    Queries <- MCQueries
INVARIANT PointsWithinCap
SYMMETRY Symmetry
CONSTRAINT CounterGoesAlong
VIEW Given200
