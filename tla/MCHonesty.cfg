CONSTANTS
    Series = {gauge}
    Counter = {}
    Tag = {measured, target}
    Width = 2
    RawWindow = 2
    Retention = 4
    MaxBack = 1
    MaxLag = 2
    MaxClock = 7
    MaxTicks = 3
    MaxQueue = 2
SPECIFICATION Spec
INVARIANT EveryTagTravels
