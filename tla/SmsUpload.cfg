SPECIFICATION Spec
CONSTANTS
    NumSms = 1
    Task = {t1}
    NoTask = none
    MaxRetries = 2
    MaxItems = 2
    MaxFaults = 1
INVARIANTS UploadedIsAccepted AttemptsBounded
PROPERTIES ItemSettles ImplementsQueue
CHECK_DEADLOCK FALSE
