SPECIFICATION Spec
CONSTANTS
    MaxJobs = 4
    MaxInMem = 1
    MaxRows = 2
    Untargeted = {2}
INVARIANTS
    CountIsSafe
PROPERTIES
    UnfinishedKept
    
CHECK_DEADLOCK FALSE
