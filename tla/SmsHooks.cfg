SPECIFICATION Spec
CONSTANTS
    Msg = {m1, m2}
    Text = {hello, bye}
    Noise = {}
    Window = 1
    MaxTime = 0
    MaxFaults = 1
    Hook = {h1, h2}
    MaxConcurrent = 1
    NoNotice = none
PROPERTIES HooksInOrder NoticeIsServed
CHECK_DEADLOCK FALSE
