CONSTANTS
    None = None
    Charges = {c1}
    Tasks = {k1, k2}
    Emails = {}
    Phones = {c1}
    Offsets <- OneReminder
    Lead = 0
    DueDay = 0
    LastDay = 1
    MaxStalled = 1
    MaxFaults = 1
CHECK_DEADLOCK FALSE
SYMMETRY TaskSymmetry
SPECIFICATION Spec
INVARIANTS
    NoticesMatchIssues
    RowTellsDelivery
