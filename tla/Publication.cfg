SPECIFICATION Spec
CONSTANTS
    MaxRuns <- MCMaxRuns
    Nothing = Nothing
    Torn    = Torn
INVARIANTS
    TypeOK
    VerifyTellsOneExit
    WordMatchesDirectory
PROPERTY
    IsPublicRecord
CHECK_DEADLOCK FALSE
