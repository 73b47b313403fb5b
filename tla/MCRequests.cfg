SPECIFICATION MCSpec
CONSTANTS
    u1 = u1
    u2 = u2
    t1 = t1
    t2 = t2
    r1 = r1
    r2 = r2
    User = {u1, u2}
    Tenant = {t1, t2}
    Row = {r1, r2, r3}
    Click = {c1}
    Handlers = {"createVehicle", "removeVehicle", "tco"}
    Roles = {"OWNER", "VIEWER"}
    Plans = {"STARTER", "STANDARD"}
    MaxAttempts = 2
    MaxChanges = 1
    None = None
INVARIANTS OwnRowsOnly RoleWasHeld
CHECK_DEADLOCK FALSE
