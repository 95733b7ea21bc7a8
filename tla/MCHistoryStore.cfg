CONSTANTS
    Series = {gauge, count}
    Counter = {count}
    Tag = {measured}
    Width = 2
    RawWindow = 2
    Retention = 6
    MaxBack = 1
    MaxLag = 2
    MaxClock = 7
    MaxTicks = 3
    MaxQueue = 2
SPECIFICATION Spec
INVARIANTS TypeOK RowsAreMeasured MeansAreExact RawWindowIntact PassIsThorough
PROPERTIES NothingElseIsLost
