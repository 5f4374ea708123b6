SPECIFICATION Spec
CONSTANTS
    Sim = {p1, p2}
    Outside = {}
    Label = {bob}
    Plain = plain
    Text = {p1}
    Blank = blank
    None = none
    PageSize = 1
    Request = {r1, r2}
    Consumer = rx
    MaxRows = 3
    MaxOps = 3
INVARIANTS HiddenByRace ReadWasThere InferredSentIt FiledWhereSent LoopbackWasSent
PROPERTIES FiledOnce
SYMMETRY Symmetry
CHECK_DEADLOCK FALSE
