SPECIFICATION Spec
CONSTANTS
    Sim = {s1, s2}
    Phone = {n1, n2}
    Alias = {a1}
    Code = {c1}
    Null = null
    Request = {r1, r2}
    MaxOps = 3
INVARIANTS StaleIsExplained ImportedOrLost ProgressIsTrue
SYMMETRY Symmetry
CHECK_DEADLOCK FALSE
