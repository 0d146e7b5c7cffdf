SPECIFICATION FairSpec
CONSTANTS
    t1 = t1
    t2 = t2
    t3 = t3
    t4 = t4
    e1 = e1
    e2 = e2
    e3 = e3
    e4 = e4
    n1 = n1
    n2 = n2
    Thread = {t1, t2, t3}
    Env = {e1, e2}
    EnvOf <- Shared
    Name = {n1}
    NameOf <- SameName
    Retry = {t1, t2, t3}
    File = {f1, f2, f3, f4}
    CanDeleteOpen = TRUE
    MaxCrashes = 1
    Dotlock = Dotlock
    None = None
INVARIANTS
    LiveFileExclusion
    CleansUp
PROPERTIES
    SomebodyEnters
