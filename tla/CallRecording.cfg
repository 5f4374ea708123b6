SPECIFICATION Spec
CONSTANTS
    Call = {c1}
    NoRow = none
    MaxInFlight = 6
INVARIANT RecordedWhenEnded
PROPERTIES EndedIsFinal FinishIsRecorded
CHECK_DEADLOCK FALSE
