CONSTANTS
    None = None
    h1 = h1
    s1 = s1
    s2 = s2
    n1 = n1
    Hosts = {h1}
    Senders = {s1}
    HostOf <- OneThread
    Notes = {n1}
    Event <- Expiring
    Contacts <- PhoneOnly
    Threshold = 2
    Limit = 2
    MaxAttempts = 2
    MaxOutages = 0
    MaxRestarts = 0
SPECIFICATION Spec
INVARIANTS
    NotifiedOnce
CHECK_DEADLOCK FALSE
