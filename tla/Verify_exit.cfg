SPECIFICATION Spec
CONSTANTS
    Routes <- MCRoutes
    Ids <- MCIds
    IdOf <- MCIdOf
    Manifests <- MCManifests
    Bootstrap = {}
    Files <- MCFiles
    Criteria <- MCCriteria
    Kind <- MCKind
    Violable = {"contrast"}
    App = "app"
    Requests <- MCRequests
    Offered <- MCOffered
    Nothing = Nothing
INVARIANT
    ExitZeroMeansChecksPassed
CHECK_DEADLOCK FALSE
