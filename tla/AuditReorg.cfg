\* Two audits of a chain that drops blocks above the finalized one.
CONSTANTS
    r1 = r1  r2 = r2
    BatchLimit = 1
    MaxHeight = 4
    MaxReorgs = 1
    Universe <- Few
    Altered <- NoLies
    Oversize <- OverLimit
    States <- OnlyHigh
    Sufficient <- OnlyHigh
    StateAt <- HighTable
    Time <- TightTimes
    Window = 1
    MaxBatches = 2
    MaxAudits = 2
SPECIFICATION Spec
INVARIANTS AuditSound VerdictStands FinalIsFinal
CHECK_DEADLOCK FALSE
