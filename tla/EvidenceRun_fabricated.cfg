SPECIFICATION Spec
CONSTANTS
    States = {login, home}
    Criteria     <- MCCriteria
    Kind         <- MCKind
    Observations <- MCObservations
    Nothing = Nothing
INVARIANT
    NoFabricatedPass
CHECK_DEADLOCK FALSE
