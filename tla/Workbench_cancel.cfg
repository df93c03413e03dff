SPECIFICATION FairSpec
CONSTANTS
    Starters   = {s1}
    Resumers   = {}
    Cancellers = {c1, c2}
    Steps   <- ThreeSteps
    RunStep <- MCRunStep
    NoJob = NoJob
PROPERTY
    CancelStopsTheRunner
CHECK_DEADLOCK FALSE
