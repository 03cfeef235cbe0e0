CONSTANTS
    None = None
    Mock = Mock
    Procs = {p1, p2}
    Charges = {c1, c2}
    Slots = {s1}
    Boletos = {b1, b2}
    PixRefs = {x1}
    Payments = {k1, k2}
    Extras = {e1}
    Ops = {"generate", "issue", "santander"}
    Amounts = {5, 10}
    Adjustments = {0}
    Rent = 10
    ExtraPrice = 2
SPECIFICATION Spec
INVARIANTS
    BoletoRecordedOnce
CHECK_DEADLOCK FALSE
