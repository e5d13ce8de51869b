\* One batch after the other through the agent, with everything that can get lost.
CONSTANTS
    MaxBatches = 2
    MaxActions = 2
    MaxStops = 1
SPECIFICATION Spec
INVARIANTS
    SignedIsRequested
    SubmittedOnce
    OneOpenJournal
PROPERTY
    BatchEnds
CHECK_DEADLOCK FALSE
