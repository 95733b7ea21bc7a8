CONSTANTS
    Agent = {g1}
    Period = 2
    AgentBudget = 1
    FetchTimeout = 3
    MaxRun = 2
    MaxRequest = 1
    MaxReceipt = 1
SPECIFICATION Spec
INVARIANTS TypeOK SpeedStoredOnce ReceiptStoredOnce
PROPERTIES NewSpeedIsStored NoInventedZero AgentsCostNoCadence NoStorm EveryTickEnds
