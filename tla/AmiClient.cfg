SPECIFICATION Spec
CONSTANTS
    Call = {c1, c2}
    NoCall = none
    MaxBackoff = 2
    MaxInbound = 3
INVARIANTS TypeOK AnsweredTruly LeaksOnlyUnsent LoginFirst
PROPERTIES DropWakesWaiters EveryCallReturns ImplementsRpc
CHECK_DEADLOCK FALSE
