SPECIFICATION Spec
CONSTANTS
    Msg = {m1, m2}
    Text = {hello, empty}
    Noise = {empty}
    Window = 1
    MaxTime = 2
    MaxFaults = 1
    Hook = {}
    MaxConcurrent = 1
    NoNotice = none
INVARIANTS RepeatsAreLate AnnouncedIsStored
PROPERTY MessageIsKept
CHECK_DEADLOCK FALSE
