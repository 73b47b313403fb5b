SPECIFICATION FairSpec
CONSTANTS
    File = {f1}
    Worker = {w1, w2}
    Request = {r1}
    InvoiceKey = {k1}
    NoKey = NoKey
    None = None
    MaxDocs = 1
    MonthlyLimit <- Unlimited
    Attempts = 3
    MaxStalled = 1
    Ops = {"upload", "confirm"}
    Faults = {"crash", "db"}
INVARIANT NoStrandedDocument
PROPERTIES JobsDrain QueuedDocumentSettles
CHECK_DEADLOCK FALSE
