SPECIFICATION Spec
CONSTANTS
    a = a
    b = b
    Readers = {a}
    ChunkCount = 2
    ChunkSize = 2
    History <- AnyLimit
    MaxRead = 1
    MaxBatch = 3
    MaxEntries = 13
INVARIANTS
    InOrder
CHECK_DEADLOCK FALSE
