SPECIFICATION Spec
CONSTANTS
    File = {f1, f2, f3}
    Worker = {w1}
    Request = {r1, r2}
    InvoiceKey = {}
    NoKey = NoKey
    None = None
    MaxDocs = 3
    MonthlyLimit = 1
    Attempts = 1
    MaxStalled = 1
    Ops = {"upload", "remove"}
    Faults = {"redis", "store", "api"}
INVARIANTS RowHasFile LimitOvershoot
SYMMETRY Symmetry
CHECK_DEADLOCK FALSE
