SPECIFICATION Spec
CONSTANTS
    j = j
    s1 = s1
    s2 = s2
    s3 = s3
    Job = j
    Streams = {s1, s2, s3}
    Local = {s1}
    Picky = {s3}
    Breakable = {}
    Timers = {"ack", "beat"}
INVARIANT ExecutedOnce
INVARIANT ResultKept
INVARIANT ErrorRecorded
CHECK_DEADLOCK FALSE
