SPECIFICATION Spec
CONSTANTS
    MaxJobs = 3
    MaxInMem = 1
    MaxRows = 1
    Untargeted = {}
INVARIANTS
    WriterReleased
CHECK_DEADLOCK FALSE
