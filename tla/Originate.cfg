SPECIFICATION CallsSpec
CONSTANTS
    Phone = {n1, n2}
    None = none
    Request = {r1, r2}
    MaxOps = 5
INVARIANTS NewestIsReachable HungUpOnce
SYMMETRY CallsSymmetry
CHECK_DEADLOCK FALSE
