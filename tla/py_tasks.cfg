CONSTANTS
    Workers = {w1, w2}
    Deployments = {{w1}, {w1, w2}}
    People = {p1}
    Requests = {r1}
    Batch = 2
    MaxRows = 3
    MaxRetries = 1
    MaxCrashes = 1
SPECIFICATION FairSpec
INVARIANTS
    TypeOK
    ChargedOnce
    ChargesBounded
    DoneMeansCharged
    RunningIsHeld
    BatchIsAccounted
PROPERTIES
    ImplementsBook
    PendingIsTaken
CHECK_DEADLOCK FALSE
