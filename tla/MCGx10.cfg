SPECIFICATION Spec
CONSTANTS
    Scrapes = {t1, t2}
    Candidates <- MCCandidates
    Count = 2
    Answers <- MCAnswers
    MAX_AGENT_GPUS = 1
    Numerals <- MCNumerals
    NoSample = NoSample
    Down = Down
    Unread = Unread
    NoScrape = NoScrape
    MaxReloads = 2
INVARIANTS HandlesBalanced StoredAsProbed
PROPERTIES RecoversWithoutRestart
