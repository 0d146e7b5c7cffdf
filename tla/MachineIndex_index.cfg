SPECIFICATION FairSpec
CONSTANTS
    p1 = p1
    p2 = p2
    p3 = p3
    m1 = m1
    m2 = m2
    f1 = f1
    f2 = f2
    f3 = f3
    f4 = f4
    Process = {p1, p2}
    Machine = {m1, m2}
    File = {f1, f2, f3, f4}
    None = None
    MaxWrites = 3
    MaxCrashes = 1
INVARIANTS
    TypeOK
    EntryIsCurrent
PROPERTIES
    OthersKept
    DeletedIsGone
    OperationsEnd
