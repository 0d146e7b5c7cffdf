SPECIFICATION FairSpec
CONSTANTS
    a = a
    b = b
    Readers = {a, b}
    ChunkCount = 2
    ChunkSize = 2
    History <- All
    MaxRead = 2
    MaxBatch = 3
    MaxEntries = 4
PROPERTIES
    WriteReachesSleepers
    CloseReachesSleepers
CHECK_DEADLOCK FALSE
