CONSTANTS
    Client = {c1, c2}
    MaxAge = 1
    Budget = 2
    StallBudget = 3
    RestartDelay = 2
    Horizon = 4
    MaxGeneration = 3
SPECIFICATION Spec
INVARIANTS TypeOK ScrapesApartRemeasure
PROPERTIES DownMeansNothingFresh EveryScrapeIsAnswered
