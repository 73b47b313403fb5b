SPECIFICATION Spec
CONSTANTS
    Scan = {s1, s2}
    Worker = {w1}
    Request = {r1, r2}
    None = None
    MaxVehicles = 3
    VehicleLimit = 1
    Attempts = 1
    MaxStalled = 1
    Ops = {"scan", "save", "create", "remove"}
    Faults = {"redis", "store", "api"}
INVARIANTS TypeOK VehicleOvershoot
SYMMETRY Symmetry
CHECK_DEADLOCK FALSE
