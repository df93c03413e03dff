SPECIFICATION Spec
CONSTANTS
    Procs = {p1, p2}
    Commands  <- MCCommands
    Outputs   <- MCOutputs
    UserNames <- MCUserNames
    NoManifest = NoManifest
INVARIANTS
    TypeOK
    ForeignIsUntouched
    WritesUnderOwnClaim
    CompleteIsOneRun
CHECK_DEADLOCK FALSE
