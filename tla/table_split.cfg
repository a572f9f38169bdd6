SPECIFICATION SplitSpec
CONSTANTS
    NCols = 2
    Null = Null
    NoChunk = NoChunk
    BucketChoices <- SmallBuckets
    RowChoices <- SmallRows
    ChunkSize = 2
    MaxStarts = 2
INVARIANTS
    RowsOnce
    MarkLeavesNoRow
    IdsFollowRanges
    WalkReachesEnd
