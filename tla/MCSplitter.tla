----------------------------- MODULE MCSplitter -----------------------------
(***************************************************************************)
(* Small tables for the splitter: two index columns of two values each.    *)
(***************************************************************************)
EXTENDS Splitter, SequencesExt, TLC

Keys == [Cols -> 0 .. 1]
Asc == SetToSortSeq(Keys, KeyLess)

\* Statistics of up to three buckets with ascending bounds and counts, which
\* make groups of one and of several buckets and of up to four chunks.
SmallCounts == {1, 2, 4, 5, 9}
Sorted(S) == SetToSortSeq(S, <)
SmallBuckets ==
    UNION {{[k \in 1 .. n |-> [count |-> Sorted(cs)[k], upper |-> Asc[Sorted(us)[k]]]] :
               cs \in kSubset(n, SmallCounts), us \in kSubset(n, 1 .. 4)} : n \in 0 .. 3}

SmallRows == {Keys, Keys \ {Asc[2]}, {Asc[3]}, {}}

\* A table whose index has a nullable column.
NullBuckets == {<<>>, <<[count |-> 2, upper |-> Asc[2]]>>}
NullRows == {Keys \cup {<<1, Null>>}}
=============================================================================
