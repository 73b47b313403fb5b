SPECIFICATION FairSpec
CONSTANTS
    Scan = {s1, s2}
    Worker = {w1, w2}
    Request = {r1}
    None = None
    MaxVehicles = 1
    VehicleLimit <- Unlimited
    Attempts = 3
    MaxStalled = 1
    Ops = {"scan"}
    Faults = {"crash", "db"}
INVARIANT UnfinishedScanHasJob
PROPERTIES OutcomeIsFinal QueuedScanIsAnswered
CHECK_DEADLOCK FALSE
