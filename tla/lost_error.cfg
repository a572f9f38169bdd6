SPECIFICATION Spec
CONSTANTS
    NTables = 1
    Split <- OneTableSplit
    Groups <- OneTableGroups
    UniqueID <- OneTableID
    Lack = {}
    StructDiff = {}
    Nil = Nil
    Workers = {w1, w2}
    SplitThreads = 1
    ChunksCap = 1
    SqlCap = 1
    Outcomes <- SameOrDiffer
    MaxRuns = 1
SYMMETRY Symmetry
INVARIANT
    PassMeansChecked
