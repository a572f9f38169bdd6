SPECIFICATION SplitSpec
CONSTANTS
    NCols = 2
    Null = Null
    NoChunk = NoChunk
    BucketChoices <- NullBuckets
    RowChoices <- NullRows
    ChunkSize = 2
    MaxStarts = 2
INVARIANTS
    RowsOnce
