SPECIFICATION Spec
CONSTANTS
    Starters   = {s1}
    Resumers   = {r1}
    Cancellers = {c1}
    Steps   <- OneStep
    RunStep <- MCRunStep
    NoJob = NoJob
INVARIANTS
    TypeOK
    LogAheadOfLedger
    ClosedJobIsWhole
    RunningIsUnfinished
    ReceiptStands
PROPERTY
    CancelSurvivesFreshWrites
CHECK_DEADLOCK FALSE
