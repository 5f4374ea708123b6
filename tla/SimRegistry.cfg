SPECIFICATION Spec
CONSTANTS
    Sim = {s1, s2}
    NoSim = none
    Reader = {1, 2}
    RemoveThreshold = 2
    MaxMoves = 1
    MaxFaults = 1
INVARIANTS ReachedWhereInserted RememberedIsListed ListedOnce
PROPERTIES ReleasedFirst  EmptiedIsReleased 
CHECK_DEADLOCK FALSE
