\* One audit of any log of three batches, its archive answering anything.
CONSTANTS
    r1 = r1  r2 = r2
    BatchLimit = 1
    MaxHeight = 4
    MaxReorgs = 0
    Universe <- Everything
    Altered <- OneLie
    Oversize <- OverLimit
    States <- AllStates
    Sufficient <- OnlyHigh
    StateAt <- StateTable
    Time <- TimeTable
    Window = 2
    MaxBatches = 3
    MaxAudits = 1
SPECIFICATION Spec
INVARIANTS TypeOK AuditSound NoFalseAlarm VerifiersAgree
CHECK_DEADLOCK FALSE
