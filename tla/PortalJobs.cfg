\* Three jobs of which two may be open, one crash, one kill, one error.
CONSTANTS
    j1 = j1  j2 = j2  j3 = j3
    Ids <- ThreeJobs
    MaxOpen = 2
    DailyLimit = 2
    MaxAttempts = 2
    MaxStops = 1
    MaxKills = 1
    MaxFaults = 1
SPECIFICATION FairSpec
INVARIANTS JobTypeOK OneWriter DoneInOrder OneRunning DoneIsAnswered AttemptsBounded
PROPERTIES JobsEnd
CHECK_DEADLOCK FALSE
