SPECIFICATION FairSpec
CONSTANTS
    States = {login, home}
    Criteria     <- MCCriteria
    Kind         <- MCKind
    Observations <- MCObservations
    Nothing = Nothing
INVARIANTS
    TypeOK
    PagesDecide
    LateAnswerIsNotUsed
    CompleteIsPublished
PROPERTY
    RunEnds
CHECK_DEADLOCK FALSE
