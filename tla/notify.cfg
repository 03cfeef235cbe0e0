CONSTANTS
    None = None
    h1 = h1
    s1 = s1
    s2 = s2
    n1 = n1
    Hosts = {h1}
    Senders = {s1, s2}
    HostOf <- TwoThreads
    Notes = {n1}
    Event <- Charge
    Contacts <- BothChannels
    Threshold = 2
    Limit = 1
    MaxAttempts = 2
    MaxOutages = 1
    MaxRestarts = 1
SPECIFICATION FairSpec
INVARIANTS
    TypeOK
    SuppressedWasDelivered
    RepeatHasCause
    DailyLimit
    ClosedBelowThreshold
PROPERTIES
    SendReturns
CHECK_DEADLOCK FALSE
