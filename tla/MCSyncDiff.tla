----------------------------- MODULE MCSyncDiff -----------------------------
(***************************************************************************)
(* Small instances of the data check for TLC.                              *)
(***************************************************************************)
EXTENDS SyncDiffProperties, TLC

Grp(l, r, n) == [left |-> l, right |-> r, cnt |-> n]

\* A bucket table of three chunks, a bucket cut in two and the rest, and
\* a table that only one side has.
TwoTablesSplit  == (0 :> "bucket") @@ (1 :> "empty")
TwoTablesGroups == (0 :> <<Grp(0, 0, 2), Grp(1, 2, 1)>>) @@ (1 :> <<Grp(0, 0, 0)>>)

\* Two bucket groups of one chunk each, and the table that one side lacks.
ThreeChunksGroups == (0 :> <<Grp(0, 0, 1), Grp(1, 1, 1)>>) @@ (1 :> <<Grp(0, 0, 0)>>)

\* One table cut in two by the random splitter.
OneTableSplit  == (0 :> "random")
OneTableGroups == (0 :> <<Grp(0, 0, 2)>>)
OneTableID     == (0 :> 0)

\* NewSources sorts the tables by descending id.
Descending == [t \in 0 .. 1 |-> 1 - t]

\* checkTableMatched appends the tables the downstream lacks after the sort.
Appended == [t \in 0 .. 1 |-> t]

Same   == [equal |-> TRUE,  sqls |-> FALSE, err |-> FALSE]
Differ == [equal |-> FALSE, sqls |-> TRUE,  err |-> FALSE]
Failed == [equal |-> FALSE, sqls |-> FALSE, err |-> TRUE]

SameOrDiffer == {Same, Differ}
AnyOutcome   == {Same, Differ, Failed}

Symmetry == Permutations(Workers)
=============================================================================
