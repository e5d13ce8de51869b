\* Blocks vanish, the daemon crashes, nodes fail.
CONSTANTS
    r1 = r1  r2 = r2
    Requests <- TwoRequests
    Oversize <- NoOversize
    Subject  <- TwoSnapshots
    BatchLimit = 2
    MaxHeight = 5
    MaxReorgs = 1
    DailyFees = 4
    MaxStops = 1
    MaxFaults = 1
    LockCleared = TRUE
SPECIFICATION OperatorSpec
INVARIANTS OperatorTypeOK JournalCoversNetwork JournalFits SingleDecision
PROPERTIES UsesStore
CHECK_DEADLOCK FALSE
