SPECIFICATION CompareSpec
CONSTANTS
    NCols = 1
    Null = Null
    Keys <- SmallKeys
    Vals = {0, 1}
    Shards = {s1, s2}
    Threshold = 1
    Databases <- ClusterDatabases
    s1 = s1
    s2 = s2
    Nil = Nil
    End = End
INVARIANTS
    DeletesRedundant
CHECK_DEADLOCK FALSE
