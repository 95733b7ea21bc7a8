SPECIFICATION Spec
CONSTANTS
    Absent = Absent
    WellNamed = {"a", "b", "c", "g", "m"}
    HeaderNames <- MCHeaderNames
    Requests <- MCRequests
    Responses <- MCResponses
    RawConfigs <- MCRawConfigs
    Overrides = {Absent, "lan"}
    MaxFrames = 1
    WireRoom = 1
    MaxOpen = 1
INVARIANTS CredentialsStayApart RelayFaithful
PROPERTIES RequestsAnswered BridgesEnd ShutdownEnds
CHECK_DEADLOCK FALSE
