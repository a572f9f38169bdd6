SPECIFICATION CheckSpec
CONSTANTS
    NCols = 2
    Null = Null
    OldTables <- SmallTables
    OldChunkSize = 2
    Sources = {"s1", "s2"}
    OldData <- SmallData
    NoRow = NoRow
    NChunks = 2
    Threads = 2
    QueueSize = 1
    Batch = 1
    Configs = {"all", "sample"}
    MaxStarts = 2
    MaxFaults = 1
    None = None
    Differences = {{}, {1}}
    SplitFrom = "target"
INVARIANTS
    OldRowsCovered
    OldFixRepairs
    OldVerdictSound
PROPERTY OldRunEnds
CHECK_DEADLOCK FALSE
