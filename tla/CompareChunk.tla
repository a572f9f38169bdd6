---------------------------- MODULE CompareChunk ----------------------------
(***************************************************************************)
(* What consume does with one chunk (sync_diff_inspector/diff.go): compare *)
(* counts and checksums, narrow the range by binary search, then walk both *)
(* row streams and write the statements that repair the downstream.        *)
(* SyncDiff takes the outcome of all this as one step.                     *)
(*                                                                         *)
(* A table is the number of copies of each row, and its rows do not change *)
(* while the chunk is compared.  A chunk ranged on the columns it is       *)
(* searched by, or not searched, is taken to be all of the table; of a     *)
(* chunk ranged on `fields` the rows beside it are there too.  MD5 is free *)
(* of collisions, so that a BIT_XOR of sums is the set of the rows with an *)
(* odd number of copies.  Index columns are not NULL, and export-fix-sql   *)
(* is on.                                                                  *)
(***************************************************************************)
EXTENDS ChunkRange, Functions

CONSTANTS
    Keys,       \* values of the key columns
    Vals,       \* values of the other columns
    Shards,     \* the tables the upstream table is merged from
    Threshold,  \* SplitThreshold
    Databases,  \* the databases to compare
    Nil, End    \* a row not read yet, the end of a stream

Row == [key : Keys, val : Vals]
Table == [Row -> Nat]
Sides == {"up", "down"}

\* The key is unique in the table.
UniqueKey(t) == \A r, s \in Row : t[r] > 0 /\ t[s] > 0 /\ r.key = s.key => t[r] = 1 /\ r = s

\* What the table and the chunk are like:
\*   split    a range of a primary or unique key, which has the chunk's IndexID;
\*   fields   a random chunk of the table's index-fields, of which `val` stands
\*            for the first, with an integer primary key: IndexID 0 is that of a
\*            random chunk and of the PRIMARY that GetTableInfoBySQL appends;
\*   order    a unique key, but no primary or unique key has the IndexID;
\*   none     no unique key.
Schemas == {"split", "fields", "order", "none"}

\* The bounds of a chunk on its index-fields, <<>> where it has none.
FieldBound == {<<>>} \cup {<<v>> : v \in Vals}

Database ==
    [tidb : SUBSET Sides,                   \* the sides that are a TiDB cluster
     schema : Schemas, fields : [lower : FieldBound, upper : FieldBound],
     up : [Shards -> Table], down : Table]

\* All rows of the table are in one shard.
Single(t) == \E s \in Shards : \A z \in Shards \ {s} : \A r \in Row : t[z][r] = 0

\* One table of all shards.
Merged(t) == [r \in Row |-> SumFunction([s \in Shards |-> t[s][r]])]

ASSUME CompareAssumption ==
    /\ Keys \subseteq [Cols -> Int] /\ Vals \subseteq Int /\ Threshold \in Nat
    /\ IsFiniteSet(Keys) /\ IsFiniteSet(Vals) /\ IsFiniteSet(Shards)
    /\ Nil \notin Row /\ End \notin Row /\ Nil # End
    /\ Databases \subseteq Database
    /\ \A d \in Databases :
         /\ d.schema # "none" => UniqueKey(Merged(d.up)) /\ UniqueKey(d.down)
         /\ "up" \in d.tidb => Single(d.up)
         /\ d.schema = "fields" =>
              /\ NCols = 1
              /\ d.fields.lower # <<>> /\ d.fields.upper # <<>> =>
                     d.fields.lower[1] < d.fields.upper[1]

VARIABLES
    tidb, schema, fields,       \* the two databases, and the chunk
    up, down,
    ph, range, count,           \* consume and binSearch
    unreadUp, unreadDown,       \* the row iterators
    lastUp, lastDown,           \* lastUpstreamData, lastDownstreamData
    equal, adds, dels,          \* the result of compareRows
    err,                        \* SetTableMeetError was called
    fixed,                      \* history: the downstream after dml.sqls
    cut                         \* history: sides whose stream ended early, unnoticed

env == <<tidb, schema, fields, up, down>>
search == <<range, count>>
streams == <<unreadUp, unreadDown>>
verdict == <<equal, adds, dels>>
chunkVars == <<env, ph, search, streams, lastUp, lastDown, verdict, err, fixed, cut>>

-----------------------------------------------------------------------------
(* Tables, and the queries on them.                                        *)

Empty == [r \in Row |-> 0]
Whole == [lower |-> <<>>, upper |-> <<>>]

\* Range.ToString for a chunk on `fields` behind whose bounds Update has put
\* those of the key, which only binSearch gives it: a bound that is missing
\* leaves its column out of the conditions, and the last column alone has <=.
AboveFields(rg, row) ==
    fields.lower # <<>> \/ rg.lower # <<>> =>
        \/ fields.lower # <<>> /\ row.val > fields.lower[1]
        \/ /\ rg.lower # <<>> /\ KeyLess(rg.lower, row.key)
           /\ fields.lower # <<>> => row.val = fields.lower[1]

BelowFields(rg, row) ==
    fields.upper # <<>> \/ rg.upper # <<>> =>
        \/ fields.upper # <<>> /\ row.val < fields.upper[1]
        \/ fields.upper # <<>> /\ rg = Whole /\ row.val = fields.upper[1]
        \/ /\ rg.upper # <<>> /\ KeyLeq(row.key, rg.upper)
           /\ fields.upper # <<>> => row.val = fields.upper[1]

\* The clause of the range holds of the row.
Selected(rg, row) ==
    IF schema = "fields" THEN AboveFields(rg, row) /\ BelowFields(rg, row)
    ELSE Selects(rg, row.key)

Within(t, rg) == [r \in Row |-> IF Selected(rg, r) THEN t[r] ELSE 0]

Count(t) == SumFunction(t)
Odd(t) == {r \in Row : t[r] % 2 = 1}

\* Mutant: only the counts are compared.
MutSameChecksum(rg) == Count(Within(Merged(up), rg)) = Count(Within(down, rg))

\* compareChecksumAndGetCount, over the shards of the upstream.
SameChecksum(rg) ==
    LET u == Within(Merged(up), rg)
        d == Within(down, rg)
    IN  Count(u) = Count(d) /\ Odd(u) = Odd(d)

CountUp(rg) == Count(Within(Merged(up), rg))

\* The order of the columns SelectUniqueOrderKey chooses: the unique key, or
\* all columns when there is none.
RowLess(r, s) ==
    \/ KeyLess(r.key, s.key)
    \/ schema = "none" /\ r.key = s.key /\ r.val < s.val

SameOrderKey(r, s) == ~RowLess(r, s) /\ ~RowLess(s, r)

\* Mutant: a result set offers a row that is not in it any more.
MutFirst(t) == {r \in Row : \A s \in Row : t[s] > 0 => ~RowLess(s, r)}

\* The first rows of a result set that is ordered by these columns.
First(t) == {r \in Row : t[r] > 0 /\ \A s \in Row : t[s] > 0 => ~RowLess(s, r)}

Take(t, r) == [t EXCEPT ![r] = @ - 1]

\* pickSource: a TiDB cluster, of two the downstream.
workSource == IF tidb = {"up"} THEN Merged(up) ELSE down

\* GetApproximateMidBySize: the row at offset count / 2 in the work source.
Mids ==
    LET t == Within(workSource, range)
    IN  {r.key : r \in {m \in Row : t[m] > 0 /\ Cardinality({s \in Row :
                             t[s] > 0 /\ KeyLess(s.key, m.key)}) = count \div 2}}

\* What a REPLACE and a DELETE ... LIMIT 1 statement do to a table.
Replaced(t, row) ==
    IF schema = "none" THEN [t EXCEPT ![row] = @ + 1]
    ELSE [r \in Row |-> IF r.key = row.key THEN IF r = row THEN 1 ELSE 0 ELSE t[r]]

Deleted(t, row) == [t EXCEPT ![row] = IF @ > 0 THEN @ - 1 ELSE 0]

-----------------------------------------------------------------------------
CompareInit ==
    /\ \E d \in Databases :
         /\ tidb = d.tidb /\ schema = d.schema /\ fields = d.fields
         /\ up = d.up /\ down = d.down
    /\ ph = "checksum" /\ range = Whole /\ count = 0
    /\ unreadUp = [s \in Shards |-> Empty] /\ unreadDown = Empty
    /\ lastUp = Nil /\ lastDown = Nil
    /\ equal = TRUE /\ adds = 0 /\ dels = 0
    /\ err = FALSE /\ fixed = down /\ cut = {}

-----------------------------------------------------------------------------
(* consume.                                                                *)

Checksum ==
    /\ ph = "checksum"
    /\ ph' = IF SameChecksum(Whole) THEN "done" ELSE "bin"
    /\ count' = CountUp(Whole)
    /\ UNCHANGED <<env, range, streams, lastUp, lastDown, verdict, err, fixed, cut>>

\* One of the queries fails: the rows are not compared.
ChecksumFails ==
    /\ ph = "checksum"
    /\ ph' = "done" /\ equal' = FALSE /\ err' = TRUE
    /\ UNCHANGED <<env, search, streams, lastUp, lastDown, adds, dels, fixed, cut>>

-----------------------------------------------------------------------------
(* BinGenerate and binSearch: one level of the recursion is one step.      *)

Left(mid) == [range EXCEPT !.upper = mid]

\* Mutant: the second half keeps the lower bound of the range.
MutRight(mid) == range

Right(mid) == [range EXCEPT !.lower = mid]

\* A primary or unique key has the IndexID of the chunk, whatever the columns
\* that the chunk is ranged on.
Searching == ph = "bin" /\ schema \in {"split", "fields"} /\ count > Threshold

\* The range is kept: it is small, or no unique key has its IndexID, or the
\* work source has too few rows.
BinKeep ==
    /\ ph = "bin" /\ (Searching => Mids = {})
    /\ ph' = "open"
    /\ UNCHANGED <<env, search, streams, lastUp, lastDown, verdict, err, fixed, cut>>

\* Mutant: a half without rows is searched like any other.
MutOneHalfEmpty(half, other) == FALSE

\* "If there is a count zero, we think the range is very small."
OneHalfEmpty(half, other) == 0 \in {CountUp(half), CountUp(other)}

\* Both halves differ, or one holds no upstream row.
BinStop ==
    /\ Searching
    /\ \E mid \in Mids :
         /\ CountUp(Left(mid)) + CountUp(Right(mid)) = count
         /\ \/ ~SameChecksum(Left(mid)) /\ ~SameChecksum(Right(mid))
            \/ OneHalfEmpty(Left(mid), Right(mid))
    /\ ph' = "open"
    /\ UNCHANGED <<env, search, streams, lastUp, lastDown, verdict, err, fixed, cut>>

\* Mutant: it is not asked whether the other half differs too.
MutBinGo(half, other) ==
    /\ CountUp(half) + CountUp(other) = count
    /\ ~OneHalfEmpty(half, other)
    /\ ~SameChecksum(half)
    /\ range' = half /\ count' = CountUp(half)
    /\ UNCHANGED <<env, ph, streams, lastUp, lastDown, verdict, err, fixed, cut>>

\* One half differs and the search goes on there.
BinGo(half, other) ==
    /\ CountUp(half) + CountUp(other) = count
    /\ ~OneHalfEmpty(half, other)
    /\ ~SameChecksum(half) /\ SameChecksum(other)
    /\ range' = half /\ count' = CountUp(half)
    /\ UNCHANGED <<env, ph, streams, lastUp, lastDown, verdict, err, fixed, cut>>

BinLeft == Searching /\ \E mid \in Mids : BinGo(Left(mid), Right(mid))
BinRight == Searching /\ \E mid \in Mids : BinGo(Right(mid), Left(mid))

\* The two conditions under which binSearch calls log.Fatal.
BinImpossible(mid) ==
    \/ CountUp(Left(mid)) + CountUp(Right(mid)) # count
    \/ /\ ~OneHalfEmpty(Left(mid), Right(mid))
       /\ SameChecksum(Left(mid)) /\ SameChecksum(Right(mid))

\* The process ends.
BinDies ==
    /\ Searching /\ \E mid \in Mids : BinImpossible(mid)
    /\ ph' = "dead"
    /\ UNCHANGED <<env, search, streams, lastUp, lastDown, verdict, err, fixed, cut>>

\* A query fails at any depth: the whole chunk is compared, and the table
\* has met an error.
BinFails ==
    /\ Searching
    /\ ph' = "open" /\ range' = Whole /\ err' = TRUE
    /\ UNCHANGED <<env, count, streams, lastUp, lastDown, verdict, fixed, cut>>

-----------------------------------------------------------------------------
(* compareRows.                                                            *)

\* GetRowsIterator of both sides.
OpenRows ==
    /\ ph = "open"
    /\ ph' = "rows"
    /\ unreadUp' = [s \in Shards |-> Within(up[s], range)]
    /\ unreadDown' = Within(down, range)
    /\ UNCHANGED <<env, search, lastUp, lastDown, verdict, err, fixed, cut>>

\* An iterator cannot be opened or reports an error, or CompareData cannot
\* convert a value: compareRows returns the error, and its counts are lost.
\* The statements written so far stay.
RowsFail ==
    /\ \/ ph = "open"
       \/ ph = "rows" /\ (Nil \in {lastUp, lastDown} \/ {lastUp, lastDown} \subseteq Row)
    /\ ph' = "done" /\ equal' = FALSE /\ err' = TRUE
    /\ adds' = 0 /\ dels' = 0
    /\ UNCHANGED <<env, search, streams, lastUp, lastDown, fixed, cut>>

\* MultiSourceRowsIterator.Next: the least of the shards' next rows.
NextUp ==
    /\ ph = "rows" /\ lastUp = Nil
    /\ IF \A s \in Shards : unreadUp[s] = Empty
       THEN lastUp' = End /\ UNCHANGED unreadUp
       ELSE \E s \in Shards : \E r \in First(unreadUp[s]) :
              /\ \A z \in Shards : \A h \in First(unreadUp[z]) : ~RowLess(h, r)
              /\ lastUp' = r
              /\ unreadUp' = [unreadUp EXCEPT ![s] = Take(@, r)]
    /\ UNCHANGED <<env, ph, search, unreadDown, lastDown, verdict, err, fixed, cut>>

NextDown ==
    /\ ph = "rows" /\ lastUp # Nil /\ lastDown = Nil
    /\ IF unreadDown = Empty
       THEN lastDown' = End /\ UNCHANGED unreadDown
       ELSE \E r \in First(unreadDown) :
              lastDown' = r /\ unreadDown' = Take(unreadDown, r)
    /\ UNCHANGED <<env, ph, search, unreadUp, lastUp, verdict, err, fixed, cut>>

\* TiDBRowsIterator.Next: rows.Next is false after an error too, and
\* rows.Err is not asked.
CutUp ==
    /\ ph = "rows" /\ lastUp = Nil /\ "up" \in tidb
    /\ \E s \in Shards : unreadUp[s] # Empty
    /\ lastUp' = End /\ cut' = cut \cup {"up"}
    /\ unreadUp' = [s \in Shards |-> Empty]
    /\ UNCHANGED <<env, ph, search, unreadDown, lastDown, verdict, err, fixed>>

CutDown ==
    /\ ph = "rows" /\ lastUp # Nil /\ lastDown = Nil /\ "down" \in tidb
    /\ unreadDown # Empty
    /\ lastDown' = End /\ cut' = cut \cup {"down"}
    /\ unreadDown' = Empty
    /\ UNCHANGED <<env, ph, search, unreadUp, lastUp, verdict, err, fixed>>

SameRow ==
    /\ ph = "rows" /\ lastUp \in Row /\ lastDown = lastUp
    /\ lastUp' = Nil /\ lastDown' = Nil
    /\ UNCHANGED <<env, ph, search, streams, verdict, err, fixed, cut>>

\* Mutant: the order of the two rows is mistaken.
MutDeleteRow ==
    /\ ph = "rows" /\ lastDown \in Row
    /\ lastUp = End \/ (lastUp \in Row /\ RowLess(lastUp, lastDown))
    /\ fixed' = Deleted(fixed, lastDown)
    /\ equal' = FALSE /\ dels' = dels + 1
    /\ lastDown' = Nil
    /\ UNCHANGED <<env, ph, search, streams, lastUp, adds, err, cut>>

\* The downstream row comes first, or the upstream has no more.
DeleteRow ==
    /\ ph = "rows" /\ lastDown \in Row
    /\ lastUp = End \/ (lastUp \in Row /\ RowLess(lastDown, lastUp))
    /\ fixed' = Deleted(fixed, lastDown)
    /\ equal' = FALSE /\ dels' = dels + 1
    /\ lastDown' = Nil
    /\ UNCHANGED <<env, ph, search, streams, lastUp, adds, err, cut>>

\* Mutant: the downstream row is passed over as well.
MutInsertRow ==
    /\ ph = "rows" /\ lastUp \in Row
    /\ lastDown = End \/ (lastDown \in Row /\ RowLess(lastUp, lastDown))
    /\ fixed' = Replaced(fixed, lastUp)
    /\ equal' = FALSE /\ adds' = adds + 1
    /\ lastUp' = Nil /\ lastDown' = IF lastDown = End THEN End ELSE Nil
    /\ UNCHANGED <<env, ph, search, streams, dels, err, cut>>

InsertRow ==
    /\ ph = "rows" /\ lastUp \in Row
    /\ lastDown = End \/ (lastDown \in Row /\ RowLess(lastUp, lastDown))
    /\ fixed' = Replaced(fixed, lastUp)
    /\ equal' = FALSE /\ adds' = adds + 1
    /\ lastUp' = Nil
    /\ UNCHANGED <<env, ph, search, streams, lastDown, dels, err, cut>>

\* Mutant: a changed row counts as added only.
MutUpdateRow ==
    /\ ph = "rows" /\ lastUp \in Row /\ lastDown \in Row /\ lastUp # lastDown
    /\ SameOrderKey(lastUp, lastDown)
    /\ fixed' = Replaced(fixed, lastUp)
    /\ equal' = FALSE /\ adds' = adds + 1
    /\ lastUp' = Nil /\ lastDown' = Nil
    /\ UNCHANGED <<env, ph, search, streams, dels, err, cut>>

UpdateRow ==
    /\ ph = "rows" /\ lastUp \in Row /\ lastDown \in Row /\ lastUp # lastDown
    /\ SameOrderKey(lastUp, lastDown)
    /\ fixed' = Replaced(fixed, lastUp)
    /\ equal' = FALSE /\ adds' = adds + 1 /\ dels' = dels + 1
    /\ lastUp' = Nil /\ lastDown' = Nil
    /\ UNCHANGED <<env, ph, search, streams, err, cut>>

RowsEnd ==
    /\ ph = "rows" /\ lastUp = End /\ lastDown = End
    /\ ph' = "done"
    /\ UNCHANGED <<env, search, streams, lastUp, lastDown, verdict, err, fixed, cut>>

-----------------------------------------------------------------------------
Goes ==
    \/ Checksum
    \/ BinKeep \/ BinStop \/ BinLeft \/ BinRight \/ BinDies
    \/ OpenRows \/ NextUp \/ NextDown
    \/ SameRow \/ DeleteRow \/ InsertRow \/ UpdateRow \/ RowsEnd

Breaks == ChecksumFails \/ BinFails \/ RowsFail \/ CutUp \/ CutDown

CompareNext == Goes \/ Breaks

\* consume runs on by itself: nothing in it waits for another goroutine, and
\* no failure of a query is needed for it to end.
CompareSpec ==
    /\ CompareInit /\ [][CompareNext]_chunkVars
    /\ WF_chunkVars(Goes)
-----------------------------------------------------------------------------
(* Properties.                                                             *)

CompareTypeOK ==
    /\ [tidb |-> tidb, schema |-> schema, fields |-> fields, up |-> up, down |-> down]
           \in Database
    /\ fixed \in Table /\ cut \subseteq Sides
    /\ ph \in {"checksum", "bin", "open", "rows", "done", "dead"}
    /\ {range.lower, range.upper} \subseteq Keys \cup {<<>>}
    /\ unreadUp \in [Shards -> Table] /\ unreadDown \in Table
    /\ lastUp \in Row \cup {Nil, End} /\ lastDown \in Row \cup {Nil, End}
    /\ {count, adds, dels} \subseteq Nat /\ {equal, err} \subseteq BOOLEAN

Upstream == Merged(up)

\* Rows that are in t more often than in u.
Surplus(t, u) == Count([r \in Row |-> IF t[r] > u[r] THEN t[r] - u[r] ELSE 0])

Clean == ph = "done" /\ ~err /\ cut = {}

\* If the chunk is searched at all, then by the columns it is ranged on.
SearchedAsRanged == schema # "fields"

\* Running the fix file of a chunk that compareRows went through to its end
\* leaves the downstream with the rows of the upstream, in the whole chunk and
\* not just in the range binSearch left; without a unique key as many copies.
\* The search of a chunk by other columns than it is ranged on may lose rows: of
\* these the fix file leaves each as it was or repairs it.
FixRepairs ==
    Clean /\ ~equal =>
        IF SearchedAsRanged THEN fixed = Upstream
        ELSE \A r \in Row : fixed[r] \in {Upstream[r], down[r]}

Shared(t) == \A r \in Row : t[r] >= Min({Upstream[r], down[r]})

\* No statement of the fix file, also one left by a comparison that failed
\* half-way or by a downstream stream that broke off, takes away a row that
\* both sides have, whatever the range of the search is.
KeepsSharedRows == "up" \notin cut => Shared(fixed)

\* What compareRows says of the rows it deletes when the upstream has no more:
\* "all the targetRows's data is redundant".
DeletesRedundant == Shared(fixed)

\* For a table with a unique key, consume calls a chunk equal exactly when
\* it is, although the checksum is a BIT_XOR, the order of rows is lost, and
\* the rows that are compared may be others than the search should have left.
VerdictRight ==
    Clean /\ schema # "none" => (equal <=> Within(Upstream, Whole) = Within(down, Whole))

\* The row counts in the report are the numbers of rows that are missing
\* and superfluous in the whole chunk, unless the search by other columns lost
\* some of them.
CountsRight ==
    SearchedAsRanged /\ Clean /\ ~equal =>
        adds = Surplus(Upstream, down) /\ dels = Surplus(down, Upstream)

\* The range binSearch narrows to holds every row on which the sides differ, if
\* the search goes by the columns of the range.
NarrowKeepsDifferences ==
    SearchedAsRanged /\ ph \in {"bin", "open", "rows"} =>
        \A r \in Row : Upstream[r] # down[r] => Selected(range, r)

\* binSearch ends the process, by one of its two log.Fatal calls, only in a
\* chunk that is searched by other columns than it is ranged on: in all others
\* the halves add up to the count, and they are not both equal.
BinFatalFree == SearchedAsRanged => ph # "dead"

\* The recursion of binSearch and the walk over the rows end.
CompareEnds == <>(ph \in {"done", "dead"})
=============================================================================
