SPECIFICATION FairSpec
CONSTANTS
    j = j
    s1 = s1
    s2 = s2
    s3 = s3
    Job = j
    Streams = {s1, s2}
    Local = {s1}
    Picky = {s2}
    Breakable = {s1}
    Timers = {"expiry", "beat"}
INVARIANT ExitMeansRecorded
PROPERTY CancelEnds
PROPERTY EndedJobStopsRunner
PROPERTY DoJobReturns
CHECK_DEADLOCK FALSE
