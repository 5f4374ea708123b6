SPECIFICATION Spec
CONSTANTS
    Sim = {s1, s2}
    Plain = {s1}
    Country = {c1, c2}
    Null = null
    Request = {r1, r2}
    ChunkSize = 1
    MaxOps = 3
INVARIANT ListedIsRecorded
PROPERTIES MarkedWhenListed UnmarkedWhenGone
SYMMETRY Symmetry
CHECK_DEADLOCK FALSE
