----------------------------- MODULE ChunkOrder -----------------------------
(***************************************************************************)
(* The identity of a chunk and the two orders sync_diff_inspector puts on  *)
(* chunks: the order of chunk ids (chunk/chunk.go, ChunkID.Compare), by    *)
(* which fix-SQL files and report entries are kept or dropped on restart,  *)
(* and the adjacency of checkpoint nodes (checkpoints/checkpoints.go,      *)
(* Node.IsAdjacent), by which the checkpoint moves forward.                *)
(*                                                                         *)
(* A chunk is a record.  table, left, right, index and cnt are the fields  *)
(* of ChunkID.  The bounds of the range are abstracted to whether some     *)
(* column has a lower and an upper bound, which is all the checkpoint code *)
(* asks of them; isFirst and isLast are the flags of chunk.Range.          *)
(***************************************************************************)
EXTENDS Integers

\* The node a fresh Checkpoint starts from: before every chunk, and "last of
\* table -1", so that the first chunk of table 0 is adjacent to it.
InitNode ==
    [table |-> -1, left |-> -1, right |-> -1, index |-> -1, cnt |-> 0,
     type |-> "none", isFirst |-> TRUE, isLast |-> TRUE,
     hasLower |-> FALSE, hasUpper |-> FALSE]

IsFirstChunkForBucket(c) == c.index = 0

\* Mutant: off by one.
MutIsLastChunkForBucket(c) == c.index = c.cnt

IsLastChunkForBucket(c) == c.index = c.cnt - 1

IsFirstChunkForTable(c) == c.isFirst \/ ~c.hasLower

IsLastChunkForTable(c) == c.isLast \/ ~c.hasUpper

\* ChunkID.Compare(o) < 0 and <= 0: table, then left bucket, then index.
\* The right bucket and the chunk count take no part.
ComparesLess(c, o) ==
    \/ c.table < o.table
    \/ c.table = o.table /\ c.left < o.left
    \/ c.table = o.table /\ c.left = o.left /\ c.index < o.index

ComparesLeq(c, o) ==
    \/ ComparesLess(c, o)
    \/ c.table = o.table /\ c.left = o.left /\ c.index = o.index

\* Node.IsLess, the order of the checkpoint's heap.
IsLess(n, next) ==
    \/ n.table < next.table
    \/ /\ n.table = next.table
       /\ n.left <= next.left - 1
    \/ /\ n.table = next.table
       /\ n.left = next.left
       /\ n.index < next.index

-----------------------------------------------------------------------------
\* Mutant: the next bucket may start anywhere, its first chunk is not awaited.
MutIsAdjacentAnyIndex(n, next) ==
    \/ /\ n.table = next.table - 1
       /\ IsLastChunkForTable(n) /\ IsFirstChunkForTable(next)
    \/ /\ n.table = next.table
       /\ n.right = next.left - 1
    \/ /\ n.table = next.table
       /\ n.left = next.left
       /\ n.index = next.index - 1

\* Node.IsAdjacent: next is the chunk that directly follows n in the global
\* order, across tables, across buckets, or inside a bucket.
IsAdjacent(n, next) ==
    \/ /\ n.table = next.table - 1
       /\ IsLastChunkForTable(n) /\ IsFirstChunkForTable(next)
    \/ /\ n.table = next.table
       /\ n.right = next.left - 1
       /\ IsLastChunkForBucket(n) /\ IsFirstChunkForBucket(next)
    \/ /\ n.table = next.table
       /\ n.right # next.left - 1
       /\ n.left = next.left
       /\ n.index = next.index - 1
=============================================================================
