SPECIFICATION Spec
CONSTANTS
    Procs = {p1, p2}
    Commands  <- MCCommands
    Outputs   <- MCOutputs
    UserNames <- MCUserNames
    NoManifest = NoManifest
INVARIANT
    NeverWedged
CHECK_DEADLOCK FALSE
