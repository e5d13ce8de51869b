\* A chain that keeps its blocks.
CONSTANTS
    r1 = r1  r2 = r2  s1 = s1
    Requests <- TwoRequests
    Oversize <- OneOversize
    Subject  <- OwnSnapshots
    BatchLimit = 2
    MaxHeight = 5
    MaxReorgs = 0
SPECIFICATION Spec
INVARIANTS ReceiptsHold EventOrder
CHECK_DEADLOCK FALSE
