CONSTANTS
    None = None
    o1 = o1
    h1 = h1
    h2 = h2
    c1 = c1
    c2 = c2
    b1 = b1
    Contracts = {c1, c2}
    Owners = {o1}
    Owner <- OneOwner
    Homes = {h1, h2}
    Home <- TwoHomes
    Bills = {b1}
    BillHome <- AtHome
    Values = {2}
    Net = 4
    Fee = 1
    Tasks = {t1, t2}
    People = {p1, p2}
    Requests <- MCRequests
    MaxStalled = 1
    MaxFaults = 1
CHECK_DEADLOCK FALSE
SYMMETRY TaskSymmetry
SPECIFICATION Spec
INVARIANTS
    CapturedOnce
    PayoutIsCovered
PROPERTIES
    TerminatedIsFinal
