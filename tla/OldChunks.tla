----------------------------- MODULE OldChunks ------------------------------
(***************************************************************************)
(* How the old library cuts a table into chunks (pkg/diff/chunk.go), by    *)
(* the buckets of the statistics or at random values.                      *)
(*                                                                         *)
(* A row is the sequence of its index columns.  A chunk is the sequence of *)
(* the bounds of its first columns, each [lower, upper] with <<>> for none *)
(* (getSplitFields and the index give the same columns, and a column gets  *)
(* a bound only after those before it).                                    *)
(***************************************************************************)
EXTENDS Integers, Sequences, FiniteSetsExt, SequencesExt

CONSTANTS
    NCols, Null,
    OldTables,      \* the tables to split: [rows, buckets], a bucket [count, upper]
    OldChunkSize    \* ChunkSize

Cols == 1 .. NCols

\* The order of an index.
KeyLess(k, l) == \E i \in Cols : k[i] < l[i] /\ \A j \in 1 .. i - 1 : k[j] = l[j]

ASSUME OldChunksAssumption ==
    /\ NCols \in Nat \ {0} /\ OldChunkSize \in Nat \ {0} /\ Null \notin Int
    /\ \A t \in OldTables :
          /\ IsFiniteSet(t.rows) /\ t.rows \subseteq [Cols -> Int \cup {Null}]
          /\ t.buckets \in Seq([count : Nat, upper : [Cols -> Int]])
          /\ \A a, b \in DOMAIN t.buckets : a < b => ~KeyLess(t.buckets[b].upper, t.buckets[a].upper)

\* toString, as the rows it selects.  A comparison with NULL is not true.
AboveLower(chunk, row) ==
    LET bounded == {i \in DOMAIN chunk : chunk[i].lower # <<>>}
    IN bounded # {} =>
        \E i \in bounded :
            /\ \A j \in bounded : j < i => row[j] # Null /\ row[j] = chunk[j].lower[1]
            /\ row[i] # Null /\ row[i] > chunk[i].lower[1]

BelowUpper(chunk, row) ==
    LET bounded == {i \in DOMAIN chunk : chunk[i].upper # <<>>}
    IN bounded # {} =>
        \E i \in bounded :
            /\ \A j \in bounded : j < i => row[j] # Null /\ row[j] = chunk[j].upper[1]
            /\ row[i] # Null
            /\ row[i] < chunk[i].upper[1] \/ (i = Len(chunk) /\ row[i] = chunk[i].upper[1])

Where(chunk, row) == AboveLower(chunk, row) /\ BelowUpper(chunk, row)

\* update of one column: a bound that is not given stays as it was.
Update(bound, lower, upper) ==
    [lower |-> IF lower = <<>> THEN bound.lower ELSE lower,
     upper |-> IF upper = <<>> THEN bound.upper ELSE upper]

\* GetRandomValues: for one column the values of any n of the rows, in order;
\* a NULL is left out.
RandomValues(rows, c, n) ==
    LET k == IF n < Cardinality(rows) THEN n ELSE Cardinality(rows)
        InOrder(S) == {q \in SetToSeqs({r \in S : r[c] # Null}) : \A a, b \in DOMAIN q : a < b => q[a][c] <= q[b][c]}
    IN {[j \in DOMAIN q |-> q[j][c]] : q \in UNION {InOrder(S) : S \in kSubset(k, rows)}}

\* The columns of piece i (from 0), which stops at a column without values.
PieceOf(chunk, lists, i) ==
    LET bounded == IF i > 0 \/ \A c \in Cols : lists[c] # <<>> THEN NCols
                   ELSE (CHOOSE c \in Cols : lists[c] = <<>> /\ \A d \in 1 .. c - 1 : lists[d] # <<>>) - 1
        At(c, k) == IF k \in DOMAIN lists[c] THEN <<lists[c][k]>> ELSE <<>>
        Old(c) == IF c \in DOMAIN chunk THEN chunk[c] ELSE [lower |-> <<>>, upper |-> <<>>]
    IN [c \in DOMAIN chunk \cup 1 .. bounded |-> IF c <= bounded THEN Update(Old(c), At(c, i), At(c, i + 1)) ELSE chunk[c]]

\* splitRangeByRandom: the values of the columns are drawn independently.
splitRangeByRandom(chunk, count, rows) ==
    LET inside == {r \in rows : Where(chunk, r)}
        Lists == {l \in [Cols -> UNION {RandomValues(inside, c, count - 1) : c \in Cols}] :
                    \A c \in Cols : l[c] \in RandomValues(inside, c, count - 1)}
        Pieces(lists) == [i \in 1 .. Min({Len(lists[c]) : c \in Cols}) + 1 |-> PieceOf(chunk, lists, i - 1)]
    IN IF count <= 1 THEN {<<chunk>>} ELSE {Pieces(l) : l \in Lists}

VARIABLES
    oldTable,       \* the table
    splitAt,        \* i of the loop over the buckets, or "done"
    latestCount,
    lowerValues,
    oldChunks       \* the chunks

splitVars == <<oldTable, splitAt, latestCount, lowerValues, oldChunks>>

SplitInit(tables) ==
    /\ oldTable \in tables
    /\ splitAt = 0 /\ latestCount = 0 /\ lowerValues = <<>> /\ oldChunks = <<>>

\* randomSpliter.split, which is also the way out when there are no buckets.
RandomSplit ==
    /\ splitAt = 0 /\ oldTable.buckets = <<>>
    /\ LET chunkCnt == (Cardinality(oldTable.rows) + OldChunkSize - 1) \div OldChunkSize
       IN oldChunks' \in splitRangeByRandom(<<>>, chunkCnt, oldTable.rows)
    /\ splitAt' = Len(oldTable.buckets) + 1
    /\ UNCHANGED <<oldTable, latestCount, lowerValues>>

\* Mutant: a bucket too small for a chunk is passed over.
MutAdvances(count) == TRUE

\* Whether the next chunk begins behind this bucket; if not it is added to the
\* next one.
Advances(count) == count # 0

\* One turn of getChunksByBuckets.
BucketSplit ==
    /\ splitAt < Len(oldTable.buckets)
    /\ LET bucket == oldTable.buckets[splitAt + 1]
           chunk == [c \in Cols |-> [lower |-> IF lowerValues = <<>> THEN <<>> ELSE <<lowerValues[c]>>,
                                     upper |-> <<bucket.upper[c]>>]]
           count == (bucket.count - latestCount) \div OldChunkSize
       IN /\ \E pieces \in splitRangeByRandom(chunk, count, oldTable.rows) :
                oldChunks' = IF count = 0 THEN oldChunks ELSE oldChunks \o pieces
          /\ latestCount' = IF Advances(count) THEN bucket.count ELSE latestCount
          /\ lowerValues' = IF Advances(count) THEN bucket.upper ELSE lowerValues
    /\ splitAt' = splitAt + 1
    /\ UNCHANGED oldTable

\* The turn behind the last bucket.
LastSplit ==
    /\ oldTable.buckets # <<>> /\ splitAt = Len(oldTable.buckets)
    /\ LET open == IF lowerValues = <<>> THEN <<>>
                   ELSE [c \in Cols |-> [lower |-> <<lowerValues[c]>>, upper |-> <<>>]]
       IN oldChunks' = Append(oldChunks, open)
    /\ splitAt' = splitAt + 1
    /\ UNCHANGED <<oldTable, latestCount, lowerValues>>

SplitNext == RandomSplit \/ BucketSplit \/ LastSplit

-----------------------------------------------------------------------------
\* Every row of a table without NULL is in a chunk, and in only one when the
\* chunks come from random values alone.  Where a column may be NULL the lists
\* of random values differ in length and rows above the last common one are in
\* no chunk.  The random values of two columns need not be a key of the bucket
\* that they were drawn from, so that its first and its last chunk may reach
\* into other buckets.
OldRowsCovered ==
    splitAt = Len(oldTable.buckets) + 1 /\ (\A r \in oldTable.rows : Null \notin Range(r)) =>
        \A r \in oldTable.rows :
            LET in == {i \in DOMAIN oldChunks : Where(oldChunks[i], r)}
            IN in # {} /\ (oldTable.buckets = <<>> \/ NCols = 1 => Cardinality(in) = 1)
=============================================================================
