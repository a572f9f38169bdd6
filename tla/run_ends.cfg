SPECIFICATION FairSpec
CONSTANTS
    NTables = 2
    Split <- TwoTablesSplit
    Groups <- ThreeChunksGroups
    UniqueID <- Descending
    Lack = {1}
    StructDiff = {}
    Nil = Nil
    Workers = {w1, w2}
    SplitThreads = 2
    ChunksCap = 1
    SqlCap = 1
    Outcomes <- AnyOutcome
    MaxRuns = 1
INVARIANTS
    FreshPassIsEqual
PROPERTIES
    RunTerminates
