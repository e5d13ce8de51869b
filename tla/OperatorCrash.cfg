\* A chain that keeps its blocks; the daemon crashes, nodes fail.
CONSTANTS
    r1 = r1  r2 = r2
    Requests <- TwoRequests
    Oversize <- OneOversize
    Subject  <- TwoSnapshots
    BatchLimit = 1
    MaxHeight = 5
    MaxReorgs = 0
    DailyFees = 6
    MaxStops = 1
    MaxFaults = 1
    LockCleared = TRUE
SPECIFICATION FairOperatorSpec
INVARIANTS NothingReverts
PROPERTIES OutcomesKnown RequestsAnswered
CHECK_DEADLOCK FALSE
