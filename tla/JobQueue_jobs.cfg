SPECIFICATION FairSpec
CONSTANTS
    j1 = j1
    j2 = j2
    j3 = j3
    r1 = r1
    r2 = r2
    AnyRunner = AnyRunner
    NoTarget = NoTarget
    Runners = {r1}
    Expires = {j3}
    ByIdOnly = {}
    MaxTimers = 1
    Jobs = {j1, j2, j3}
    Target <- ThreeTargets
INVARIANTS
    TypeOK
    IndexAgrees
    ErrorColumn
PROPERTIES
    AskIsAnswered
