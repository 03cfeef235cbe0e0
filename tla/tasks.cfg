CONSTANTS
    None = None
    Tasks = {t1}
    Workers = {w1, w2}
    Reviewers = {r1, r2}
    Confidences = {0, 1, 2}
    Configs <- MCConfigs
    MaxStalled = 1
    MaxFaults = 3
CHECK_DEADLOCK FALSE
SPECIFICATION FairSpec
INVARIANTS
    TypeOK
    RunsBounded
    RunningIsHeld
    ApprovedIsOnRecord
PROPERTIES
    EnqueuedIsSettled
    ImplementsBook
    VerdictIsFinal
