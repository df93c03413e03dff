SPECIFICATION Spec
CONSTANTS
    Routes <- MCRoutes
    Ids <- MCIds
    IdOf <- MCIdOf
    Manifests <- MCManifests
    Bootstrap = {}
    Files <- MCFiles
    Criteria <- MCCriteria
    Kind <- MCKind
    Violable = {"contrast"}
    App = "app"
    Requests <- MCRequests
    Offered <- MCOffered
    Nothing = Nothing
INVARIANTS
    TypeOK
    GreenIsEarned
    MappedFailIsReported
    GreenIsCovered
    HiddenFailIsBlocked
CHECK_DEADLOCK FALSE
