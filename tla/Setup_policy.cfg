SPECIFICATION Spec
CONSTANTS
    Manifests <- MCManifests
    Secrets   <- MCSecrets
    Installs  <- MCInstalls
    MaxChanges = 1
    Nothing   = Nothing
    Absent    = Absent
    Empty     = Empty
    Garbage   = Garbage
    NoKey     = NoKey
    Malformed = Malformed
INVARIANTS
    TypeOK
    CallsWithinPolicy
    GatesAgree
    ScaffoldIsUsable
    ChoiceIsKept
    HealthyMeansRunnable
CHECK_DEADLOCK FALSE
