SPECIFICATION FairSpec
CONSTANTS
    j1 = j1
    j2 = j2
    j3 = j3
    r1 = r1
    r2 = r2
    AnyRunner = AnyRunner
    NoTarget = NoTarget
    Runners = {r1, r2}
    Expires = {j1}
    ByIdOnly = {}
    MaxTimers = 3
    Jobs = {j1}
    Target <- OneAny
INVARIANTS
    QueuedJobExpires
    AssignedIsWatched
PROPERTIES
    FollowsLifecycle
    AssignmentResolves
    LostRunnerDetected
    ExpiringJobSettles
