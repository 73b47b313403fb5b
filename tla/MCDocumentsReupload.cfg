SPECIFICATION Spec
CONSTANTS
    File = {f1}
    Worker = {w1}
    Request = {r1}
    InvoiceKey = {k1}
    NoKey = NoKey
    None = None
    MaxDocs = 2
    MonthlyLimit <- Unlimited
    Attempts = 1
    MaxStalled = 1
    Ops = {"upload", "remove"}
    Faults = {}
INVARIANT NoStrandedDocument
CHECK_DEADLOCK FALSE
