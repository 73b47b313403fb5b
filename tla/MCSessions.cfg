SPECIFICATION Spec
CONSTANTS
    Token = {r1, r2, r3}
    Link = {l1, l2}
    Secret = {s1}
    Request = {q1, q2}
    None = None
    MaxEpoch = 2
    Ops = {"login", "verify", "confirm", "disable", "forgot", "reset", "refresh", "logout"}
INVARIANTS SignedOut CodeNeeded LinksBounded
SYMMETRY Symmetry
CHECK_DEADLOCK FALSE
