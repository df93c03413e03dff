SPECIFICATION FairSpec
CONSTANTS
    Routes   <- MCRoutes
    Start    = "/"
    Links    <- MCLinks
    Sitemaps <- MCSitemaps
    Sorted   <- MCSorted
    MaxPages = 4
INVARIANTS
    TypeOK
    MissesAreAccounted
    BudgetIsReported
PROPERTIES
    IsSurvey
    CrawlEnds
CHECK_DEADLOCK FALSE
