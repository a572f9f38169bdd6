------------------------------ MODULE Splitter ------------------------------
(***************************************************************************)
(* How one table is cut into chunks: BucketIterator (splitter/bucket.go),  *)
(* the fall-back to RandomIterator (splitter/random.go), the cutting of a  *)
(* range at random values, and what both do when they are started again    *)
(* from a chunk of the checkpoint.                                         *)
(*                                                                         *)
(* The bucket statistics are the environment's: their counts and bounds    *)
(* need not fit the rows.  Rows and statistics do not change between runs. *)
(* Chunks are checked as soon as they exist, and mark is the node the      *)
(* checkpoint has advanced to.                                             *)
(***************************************************************************)
EXTENDS ChunkRange, ChunkOrder

CONSTANTS
    BucketChoices,  \* the statistics a table may have
    RowChoices,     \* the sets of rows a table may have
    ChunkSize,
    MaxStarts,      \* bound on the number of times the table is split
    NoChunk         \* "no start range"

\* What the fields of a chunk may be.
ChunkRecord ==
    [table : Int, left : Int, right : Int, index : Int, cnt : Int, type : {"bucket", "random"},
     isFirst : BOOLEAN, isLast : BOOLEAN, hasLower : BOOLEAN, hasUpper : BOOLEAN,
     lower : [Cols -> Int] \cup {<<>>}, upper : [Cols -> Int] \cup {<<>>}]

\* The statistics have their buckets in the order of the keys.
ASSUME SplitterAssumption ==
    /\ ChunkSize \in Nat \ {0} /\ MaxStarts \in Nat
    /\ NoChunk \notin ChunkRecord
    /\ \A bs \in BucketChoices :
         /\ bs \in Seq([count : Nat, upper : [Cols -> Int]])
         /\ \A m, n \in 1 .. Len(bs) : m < n => KeyLess(bs[m].upper, bs[n].upper)
    /\ \A R \in RowChoices : IsFiniteSet(R) /\ R \subseteq [Cols -> Int \cup {Null}]

VARIABLES
    buckets, rows,                    \* the environment
    ph, start,                        \* the iterator and its start range
    i, firstBucket, latestCount, low, \* the loop of produceChunks
    tasks,                            \* splits waiting for the chunk pool
    chunks, mark,                     \* chunks produced, the checkpoint's node
    short, starts                     \* history

loopVars == <<i, firstBucket, latestCount, low>>
splitVars == <<buckets, rows, ph, start, loopVars, tasks, chunks, mark, short, starts>>

\* Bucket n of the statistics, counted from 0 as the code does.
Bucket(n) == buckets[n + 1]
NBuckets == Len(buckets)

Task(lower, upper, left, right, begin, cnt, n, type) ==
    [lower |-> lower, upper |-> upper, left |-> left, right |-> right,
     begin |-> begin, cnt |-> cnt, n |-> n, type |-> type]

-----------------------------------------------------------------------------
(* Cutting a range.                                                        *)

\* The keys of S in their order.
InOrder(S) ==
    CHOOSE s \in [1 .. Cardinality(S) -> S] : \A m, n \in DOMAIN s : m < n => KeyLess(s[m], s[n])

\* GetRandomValues: up to n of the rows in the range, in order; a row with a
\* NULL is dropped after the LIMIT.
RandomValues(t, n) ==
    LET inRange == {row \in rows : Selects(t, row)}
        limit == Min({n, Cardinality(inRange)})
        full(s) == {row \in s : \A j \in Cols : row[j] # Null}
    IN  {InOrder(full(s)) : s \in kSubset(limit, inRange)}

\* splitRangeByRandom and InitChunks: the range is cut at the values vals.
Cut(t, vals) ==
    {[table |-> 0, left |-> t.left, right |-> t.right, index |-> t.begin + j,
      cnt |-> t.cnt, type |-> t.type, isFirst |-> FALSE, isLast |-> FALSE,
      lower |-> IF j = 0 THEN t.lower ELSE vals[j],
      upper |-> IF j = Len(vals) THEN t.upper ELSE vals[j + 1],
      hasLower |-> j > 0 \/ t.lower # <<>>,
      hasUpper |-> j < Len(vals) \/ t.upper # <<>>] : j \in 0 .. Len(vals)}

Values(t) == IF t.n <= 1 THEN {<<>>} ELSE RandomValues(t, t.n - 1)

\* splitChunkForBucket's goroutine.
SplitTask(t) ==
    /\ t \in tasks
    /\ \E vals \in Values(t) :
         /\ chunks' = chunks \cup Cut(t, vals)
         /\ short' = (short \/ Len(vals) < t.n - 1)
    /\ tasks' = tasks \ {t}
    /\ UNCHANGED <<buckets, rows, ph, start, loopVars, mark, starts>>

-----------------------------------------------------------------------------
(* AnalyzeSplitter and the two iterators.                                  *)

SplitInit ==
    /\ buckets \in BucketChoices /\ rows \in RowChoices
    /\ ph = "idle" /\ start = NoChunk
    /\ i = 0 /\ firstBucket = 0 /\ latestCount = 0 /\ low = <<>>
    /\ tasks = {} /\ chunks = {} /\ mark = InitNode
    /\ short = FALSE /\ starts = 0

\* After the last chunk of the table there is nothing to produce.
NothingLeft ==
    /\ ph = "idle" /\ start # NoChunk /\ IsLastChunkForTable(start)
    /\ ph' = "done"
    /\ UNCHANGED <<buckets, rows, start, loopVars, tasks, chunks, mark, short, starts>>

BucketFresh ==
    /\ ph = "idle" /\ buckets # <<>> /\ start = NoChunk
    /\ ph' = "loop"
    /\ i' = 0 /\ firstBucket' = 0 /\ latestCount' = 0 /\ low' = <<>>
    /\ UNCHANGED <<buckets, rows, start, tasks, chunks, mark, short, starts>>

\* Mutant: the rest of the start range's bucket is taken to be done.
MutBucketResume ==
    /\ ph = "idle" /\ buckets # <<>> /\ start # NoChunk /\ ~IsLastChunkForTable(start)
    /\ ph' = "loop"
    /\ i' = start.right + 1
    /\ firstBucket' = start.right + 1
    /\ latestCount' = Bucket(start.right).count
    /\ low' = Bucket(start.right).upper
    /\ UNCHANGED <<buckets, rows, start, tasks, chunks, mark, short, starts>>

\* produceChunks with a start range: the rest of its bucket group, cut as many
\* times as chunks are still missing, then the loop goes on behind the group.
BucketResume ==
    LET c == start
        left == c.cnt - c.index - 1
        rest == Task(c.upper, Bucket(c.right).upper, c.left, c.right, c.index + 1,
                     c.cnt, left, "bucket")
    IN  /\ ph = "idle" /\ buckets # <<>> /\ c # NoChunk /\ ~IsLastChunkForTable(c)
        /\ ph' = "loop"
        /\ i' = c.right + 1
        /\ firstBucket' = c.right + 1
        /\ latestCount' = Bucket(c.right).count
        /\ low' = Bucket(c.right).upper
        /\ tasks' = IF left > 0 THEN {rest} ELSE {}
        /\ UNCHANGED <<buckets, rows, start, chunks, mark, short, starts>>

\* Too few rows since the last chunk: merge the bucket into the next one.
MergeBucket ==
    /\ ph = "loop" /\ i < NBuckets
    /\ Bucket(i).count - latestCount < ChunkSize
    /\ i' = i + 1
    /\ UNCHANGED <<buckets, rows, ph, start, firstBucket, latestCount, low, tasks, chunks,
                   mark, short, starts>>

\* Mutant: the next group begins with the bucket this one ended with.
MutEmitGroup ==
    LET count == Bucket(i).count - latestCount
        cnt == IF i = firstBucket THEN (count + ChunkSize \div 2) \div ChunkSize ELSE 1
    IN  /\ ph = "loop" /\ i < NBuckets
        /\ count >= ChunkSize
        /\ tasks' = tasks \cup {Task(low, Bucket(i).upper, firstBucket, i, 0, cnt, cnt,
                                     "bucket")}
        /\ latestCount' = Bucket(i).count
        /\ low' = Bucket(i).upper
        /\ firstBucket' = i
        /\ i' = i + 1
        /\ UNCHANGED <<buckets, rows, ph, start, chunks, mark, short, starts>>

\* A group is full.  Only a group of one bucket is cut into several chunks.
EmitGroup ==
    LET count == Bucket(i).count - latestCount
        cnt == IF i = firstBucket THEN (count + ChunkSize \div 2) \div ChunkSize ELSE 1
    IN  /\ ph = "loop" /\ i < NBuckets
        /\ count >= ChunkSize
        /\ tasks' = tasks \cup {Task(low, Bucket(i).upper, firstBucket, i, 0, cnt, cnt,
                                     "bucket")}
        /\ latestCount' = Bucket(i).count
        /\ low' = Bucket(i).upper
        /\ firstBucket' = i + 1
        /\ i' = i + 1
        /\ UNCHANGED <<buckets, rows, ph, start, chunks, mark, short, starts>>

\* The rest of the keys, behind the last group, is one chunk.
EmitRest ==
    /\ ph = "loop" /\ i = NBuckets
    /\ tasks' = tasks \cup {Task(low, <<>>, firstBucket, NBuckets, 0, 1, 1, "bucket")}
    /\ ph' = "done"
    /\ UNCHANGED <<buckets, rows, start, loopVars, chunks, mark, short, starts>>

\* Without statistics the random splitter takes over: one group [0, 0], the
\* number of chunks from the number of rows, or from the start range.
RandomSplit ==
    LET cnt == (Cardinality(rows) + ChunkSize - 1) \div ChunkSize
        c == start
        t == IF c = NoChunk
             THEN Task(<<>>, <<>>, 0, 0, 0, cnt, cnt, "random")
             ELSE Task(c.upper, <<>>, 0, 0, c.index + 1, c.cnt, c.cnt - (c.index + 1),
                       "random")
    IN  /\ ph = "idle" /\ buckets = <<>>
        /\ c # NoChunk => ~IsLastChunkForTable(c)
        /\ \E vals \in Values(t) :
             /\ chunks' = chunks \cup Cut(t, vals)
             /\ short' = (short \/ Len(vals) < t.n - 1)
        /\ ph' = "done"
        /\ UNCHANGED <<buckets, rows, start, loopVars, tasks, mark, starts>>

-----------------------------------------------------------------------------
(* The checkpoint and the restart.                                         *)

\* GetChunkSnapshot moves to the adjacent chunk.
Advance ==
    /\ \E c \in chunks : IsAdjacent(mark, c) /\ mark' = c
    /\ UNCHANGED <<buckets, rows, ph, start, loopVars, tasks, chunks, short, starts>>

\* The process ends, anywhere; the next one starts from the checkpoint and
\* the chunks behind it are forgotten.
Restart ==
    /\ ph # "idle" /\ starts < MaxStarts
    /\ starts' = starts + 1
    /\ ph' = "idle"
    /\ start' = IF mark = InitNode THEN NoChunk ELSE mark
    /\ i' = 0 /\ firstBucket' = 0 /\ latestCount' = 0 /\ low' = <<>>
    /\ tasks' = {}
    /\ chunks' = {c \in chunks : ComparesLeq(c, mark)}
    /\ UNCHANGED <<buckets, rows, mark, short>>

Produced == ph = "done" /\ tasks = {}

\* The table is cut and the checkpoint cannot move any further.
AllDone ==
    /\ Produced /\ starts = MaxStarts
    /\ UNCHANGED splitVars

SplitNext ==
    \/ NothingLeft \/ BucketFresh \/ BucketResume \/ RandomSplit
    \/ MergeBucket \/ EmitGroup \/ EmitRest
    \/ (\E t \in tasks : SplitTask(t))
    \/ Advance \/ Restart \/ AllDone

SplitSpec == SplitInit /\ [][SplitNext]_splitVars

-----------------------------------------------------------------------------
(* Properties.                                                             *)

\* However the table was cut, interrupted and cut again, every row is in the
\* WHERE clause of exactly one chunk once all splits are done, and never in
\* that of two.
RowsOnce ==
    \A row \in rows :
        LET n == Cardinality({c \in chunks : Selects(c, row)})
        IN  n <= 1 /\ (Produced => n = 1)

\* The node of the checkpoint leaves no row behind: a row up to its upper
\* bound is in a chunk that the checkpoint covers.
MarkLeavesNoRow ==
    mark # InitNode =>
        \A row \in rows :
            mark.upper = <<>> \/ KeyLeq(row, mark.upper) =>
                \E c \in chunks : ComparesLeq(c, mark) /\ Selects(c, row)

\* The order of ids is the order of ranges: of two chunks the one with the
\* smaller id ends where or before the other begins, and no id is used twice.
\* The trimming of fix files and report entries on restart rests on it.
IdsFollowRanges ==
    \A c, d \in chunks :
        /\ ComparesLess(c, d) => c.upper # <<>> /\ d.lower # <<>> /\ KeyLeq(c.upper, d.lower)
        /\ c = d \/ ComparesLess(c, d) \/ ComparesLess(d, c)

\* When every split found the values it asked for, the checkpoint can walk
\* from chunk to chunk to the end of the table.
WalkReachesEnd ==
    Produced /\ ~short /\ (\A c \in chunks : ~IsAdjacent(mark, c)) =>
        mark # InitNode /\ IsLastChunkForTable(mark)
=============================================================================
