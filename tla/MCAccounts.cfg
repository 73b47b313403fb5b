SPECIFICATION Spec
CONSTANTS
    User = {u1, u2}
    Tenant = {t1}
    Invitation = {i1, i2}
    Request = {q1, q2}
    None = None
    MaxJoins = 3
    MaxUsers = 2
    Ops = {"invite", "accept", "revoke", "role", "remove", "account", "tenant", "upload", "retention"}
    Faults = {"store", "api"}
INVARIANTS TypeOK UserOvershoot NothingLeft
SYMMETRY Symmetry
CHECK_DEADLOCK FALSE
