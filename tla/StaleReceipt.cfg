\* One reorganisation, nothing else goes wrong.
CONSTANTS
    r1 = r1  r2 = r2
    Requests <- OneRequest
    Oversize <- NoOversize
    Subject  <- OneSnapshot
    BatchLimit = 1
    MaxHeight = 5
    MaxReorgs = 1
    DailyFees = 3
    MaxStops = 0
    MaxFaults = 0
    LockCleared = TRUE
SPECIFICATION FairOperatorSpec
PROPERTIES ReceiptsEndTrue
CHECK_DEADLOCK FALSE
