----------------------------- MODULE TablePlan ------------------------------
(***************************************************************************)
(* What the splitters cut the tables into.  A table is cut into groups of  *)
(* buckets; a group [left, right] is cut into cnt chunks that share its    *)
(* bucket interval and count 0 .. cnt-1 (splitter/bucket.go produceChunks  *)
(* and splitChunkForBucket, chunk/chunk.go InitChunks).  The random        *)
(* splitter is the case of one group [0, 0] (splitter/random.go).  A table *)
(* whose data is not compared is one Empty chunk (source/chunks_iter.go).  *)
(*                                                                         *)
(* The cut is a constant: bucket statistics and chunk sizes are taken to   *)
(* be the same when an interrupted check is resumed, and every split to    *)
(* find as many random values as it asked for.                             *)
(***************************************************************************)
EXTENDS Integers, Sequences, FiniteSets, ChunkOrder

CONSTANTS
    NTables,    \* number of entries of the sorted TableDiffs
    Split,      \* table -> "bucket", "random" or "empty"
    Groups      \* table -> sequence of [left, right, cnt]

Tables == 0 .. (NTables - 1)

GroupType == [left : Nat, right : Nat, cnt : Nat]

\* produceChunks starts a group at the bucket after the previous one ended
\* (firstBucket = i + 1); the number of chunks is never negative.
ASSUME PlanAssumption ==
    /\ NTables \in Nat \ {0}
    /\ Split \in [Tables -> {"bucket", "random", "empty"}]
    /\ Groups \in [Tables -> Seq(GroupType)]
    /\ \A t \in Tables :
        /\ Len(Groups[t]) >= 1
        /\ \A k \in 1 .. Len(Groups[t]) : Groups[t][k].left <= Groups[t][k].right
        /\ \A j, k \in 1 .. Len(Groups[t]) :
              j < k => Groups[t][j].right < Groups[t][k].left
        /\ \A k \in 1 .. (Len(Groups[t]) - 1) :
              Groups[t][k + 1].left = Groups[t][k].right + 1

\* produceChunks closes a group when it holds chunkSize rows or more, so that
\* (count + halfChunkSize) / chunkSize is at least 1, and the rest of a table
\* counts 1.  The random splitter has the one group, whose count is 0 for a
\* table without rows.
ASSUME CountAssumption ==
    \A t \in Tables :
        /\ Split[t] = "bucket" => \A k \in 1 .. Len(Groups[t]) : Groups[t][k].cnt >= 1
        /\ Split[t] = "random" => Len(Groups[t]) = 1

\* splitRangeByRandom: a count of 0 or 1 leaves the range in one piece.
GroupSize(g) == IF g.cnt <= 1 THEN 1 ELSE g.cnt

\* InitChunks.  Only the first chunk of the first group has no lower bound,
\* only the last chunk of the last group no upper bound.
ChunkOf(t, k, i) ==
    [table |-> t, left |-> Groups[t][k].left, right |-> Groups[t][k].right,
     index |-> i, cnt |-> Groups[t][k].cnt, type |-> Split[t],
     isFirst |-> FALSE, isLast |-> FALSE,
     hasLower |-> k > 1 \/ i > 0,
     hasUpper |-> k < Len(Groups[t]) \/ i < GroupSize(Groups[t][k]) - 1]

EmptyChunk(t) ==
    [table |-> t, left |-> 0, right |-> 0, index |-> 0, cnt |-> 0,
     type |-> "empty", isFirst |-> TRUE, isLast |-> TRUE,
     hasLower |-> FALSE, hasUpper |-> FALSE]

GroupChunks(t, k) == {ChunkOf(t, k, i) : i \in 0 .. (GroupSize(Groups[t][k]) - 1)}

ChunksOf(t) ==
    IF Split[t] = "empty" THEN {EmptyChunk(t)}
    ELSE UNION {GroupChunks(t, k) : k \in 1 .. Len(Groups[t])}

\* Every chunk of a check that nothing interrupts.
Plan == UNION {ChunksOf(t) : t \in Tables}

\* The chunks of group k from index i on, in the order they are handed out.
SliceOf(t, k, i) ==
    [j \in 1 .. (GroupSize(Groups[t][k]) - i) |-> ChunkOf(t, k, i + j - 1)]

\* The slices a table is produced in when the check reaches it afresh.
AllSlices(t) ==
    IF Split[t] = "empty" THEN {<<EmptyChunk(t)>>}
    ELSE {SliceOf(t, k, 0) : k \in 1 .. Len(Groups[t])}

-----------------------------------------------------------------------------
\* Mutant: the chunk of the checkpoint is handed out a second time.
MutRestSlices(c) ==
    IF IsLastChunkForTable(c) THEN {}
    ELSE {SliceOf(c.table, k, 0) :
            k \in {j \in 1 .. Len(Groups[c.table]) :
                      Groups[c.table][j].left > c.right}}
         \cup
         {SliceOf(c.table, k, c.index) :
            k \in {j \in 1 .. Len(Groups[c.table]) :
                      Groups[c.table][j].left = c.left}}

\* produceChunks and NewRandomIteratorWithCheckpoint with a start range c:
\* nothing after the last chunk of the table; otherwise the rest of c's own
\* group, counted on from c.index + 1, and every later group.
RestSlices(c) ==
    IF IsLastChunkForTable(c) THEN {}
    ELSE {SliceOf(c.table, k, 0) :
            k \in {j \in 1 .. Len(Groups[c.table]) :
                      Groups[c.table][j].left > c.right}}
         \cup
         {SliceOf(c.table, k, c.index + 1) :
            k \in {j \in 1 .. Len(Groups[c.table]) :
                      /\ Groups[c.table][j].left = c.left
                      /\ c.cnt - c.index - 1 > 0}}
=============================================================================
