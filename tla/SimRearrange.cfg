SPECIFICATION Spec
CONSTANTS
    Sim = {s1, s2}
    NoSim = none
    Reader = {1, 2}
    RemoveThreshold = 2
    MaxMoves = 2
    MaxFaults = 0
CHECK_DEADLOCK FALSE
PROPERTY RearrangementHandled
