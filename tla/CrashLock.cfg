\* One crash, and nobody removes operator.lock.
CONSTANTS
    r1 = r1  r2 = r2
    Requests <- OneRequest
    Oversize <- NoOversize
    Subject  <- OneSnapshot
    BatchLimit = 1
    MaxHeight = 5
    MaxReorgs = 0
    DailyFees = 3
    MaxStops = 1
    MaxFaults = 0
    LockCleared = FALSE
SPECIFICATION FairOperatorSpec
PROPERTIES ComesBack
CHECK_DEADLOCK FALSE
