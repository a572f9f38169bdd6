SPECIFICATION Spec
CONSTANTS
    NTables = 2
    Split <- TwoTablesSplit
    Groups <- ThreeChunksGroups
    UniqueID <- Appended
    Lack = {1}
    StructDiff = {}
    Nil = Nil
    Workers = {w1, w2}
    SplitThreads = 1
    ChunksCap = 1
    SqlCap = 1
    Outcomes <- SameOrDiffer
    MaxRuns = 2
SYMMETRY Symmetry
INVARIANT
    SavedReportExact
