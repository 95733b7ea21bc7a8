CONSTANTS
    Agent = {g1, g2}
    Period = 2
    AgentBudget = 1
    FetchTimeout = 3
    MaxRun = 1
    MaxRequest = 0
    MaxReceipt = 0
SPECIFICATION Spec
PROPERTIES ListedAsItAnswered
