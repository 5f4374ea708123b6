SPECIFICATION Spec
CONSTANTS
    Call = {c1}
    NoRow = none
    MaxInFlight = 6
INVARIANT HangupEndsCall
CHECK_DEADLOCK FALSE
