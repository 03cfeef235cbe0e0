CONSTANTS
    None = None
    Tasks = {t1}
    Workers = {w1}
    Reviewers = {r1}
    Confidences = {0, 1, 2}
    Configs <- OneConfig
    MaxStalled = 1
    MaxFaults = 1
CHECK_DEADLOCK FALSE
SPECIFICATION Spec
INVARIANTS
    EscalatedNotRun
