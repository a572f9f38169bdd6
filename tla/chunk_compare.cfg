SPECIFICATION CompareSpec
CONSTANTS
    NCols = 1
    Null = Null
    Keys <- SmallKeys
    Vals = {0, 1}
    Shards = {s1, s2}
    Threshold = 1
    Databases <- SmallDatabases
    s1 = s1
    s2 = s2
    Nil = Nil
    End = End
INVARIANTS
    CompareTypeOK
    FixRepairs
    KeepsSharedRows
    VerdictRight
    CountsRight
    NarrowKeepsDifferences
    BinFatalFree
PROPERTIES
    CompareEnds
CHECK_DEADLOCK FALSE
