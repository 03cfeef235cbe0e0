CONSTANTS
    None = None
    Mock = Mock
    Procs = {p1, p2}
    Charges = {c1, c2}
    Slots = {s1}
    Boletos = {b1}
    PixRefs = {}
    Payments = {k1, k2, k3}
    Extras = {}
    Ops = {"generate", "issue", "santander", "overdue"}
    Amounts = {5}
    Adjustments = {0}
    Rent = 10
    ExtraPrice = 2
SPECIFICATION FairSpec
INVARIANTS
    RecordedPerRequest
PROPERTIES
    PaidBoletoIsRecorded
CHECK_DEADLOCK FALSE
