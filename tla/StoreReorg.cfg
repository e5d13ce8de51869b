\* Blocks may be dropped at any moment, handlers may die at any await.
CONSTANTS
    r1 = r1  r2 = r2  s1 = s1
    Requests <- TwoRequests
    Oversize <- NoOversize
    Subject  <- OneBorrower
    BatchLimit = 2
    MaxHeight = 4
    MaxReorgs = 1
SPECIFICATION Spec
INVARIANTS
    TypeOK AnchoredIsPublished NoEquivocation FrozenPartition
    FirstComeFirstAnchored CommitmentFirst SnapshotsKept
PROPERTIES HistoryIsImmutable ImplementsLog
SYMMETRY Symmetric
CHECK_DEADLOCK FALSE
