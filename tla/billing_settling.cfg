CONSTANTS
    None = None
    Mock = Mock
    Procs = {p1, p2}
    Charges = {c1, c2}
    Slots = {s1}
    Boletos = {b1}
    PixRefs = {x1}
    Payments = {k1, k2}
    Extras = {}
    Ops = {"generate", "compose", "issue", "santander", "psp", "overdue"}
    Amounts = {5, 10, 15}
    Adjustments = {0}
    Rent = 10
    ExtraPrice = 2
SPECIFICATION Spec
SYMMETRY Symmetric
INVARIANTS
    BoletoPaymentOnOwnCharge
    OverdueWasIssued
    SettledIsBacked
    OneLivePerSlot
    StoredBoletoIsOwn
CHECK_DEADLOCK FALSE
