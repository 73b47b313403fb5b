SPECIFICATION Spec
CONSTANTS
    File = {f1, f2}
    Worker = {w1, w2}
    Request = {r1, r2}
    InvoiceKey = {k1}
    NoKey = NoKey
    None = None
    MaxDocs = 2
    MonthlyLimit <- Unlimited
    Attempts = 2
    MaxStalled = 1
    Ops = {"upload", "confirm", "overwrite", "remove"}
    Faults = {}
INVARIANTS TypeOK ProcessedHasInvoice RowHasFile
PROPERTY ImplementsLifecycle
SYMMETRY Symmetry
CHECK_DEADLOCK FALSE
