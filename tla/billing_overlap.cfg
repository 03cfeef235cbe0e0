CONSTANTS
    None = None
    Mock = Mock
    Procs = {p1, p2}
    Charges = {c1, c2}
    Slots = {s1}
    Boletos = {b1}
    PixRefs = {x1}
    Payments = {k1}
    Extras = {e1}
    Ops = {"generate", "edit", "issue", "santander", "psp", "reconcile", "overdue"}
    Amounts = {10, 12}
    Adjustments = {0}
    Rent = 10
    ExtraPrice = 2
SPECIFICATION Spec
SYMMETRY Symmetric
INVARIANTS
    TypeOK
PROPERTIES
    IssuedIsFinal
    ReconciledStays
    BoletoAmountStays
    ImplementsBook
CHECK_DEADLOCK FALSE
