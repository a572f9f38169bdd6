SPECIFICATION BackSpec
CONSTANTS
    BarTables = {"t1", "t2"}
    BarSetups <- SmallSetups
    OptCap = 2
    Finished = 1
    NoTable = NoTable
    TTL = 300
    MaxRetry = 10
    Cluster <- SmallClusters
    BadTS = BadTS
    Dir = "d"
    Inside = {"a", "b"}
    Outside = {"f"}
    WatchNames = {"d", "f"}
    Loops = {"w1", "w2"}
    MaxChanges = 2
    MaxCalls = 4
    NoSetup <- OneSetup
    NoCluster <- OneCluster
    NoDisk <- EmptyDisk
    Disks <- SmallDisks
INVARIANTS
    BarSound
    DataKept
    EventsTell
CHECK_DEADLOCK FALSE
