------------------------------ MODULE OldRows -------------------------------
(***************************************************************************)
(* compareRows of the old library (pkg/diff/diff.go, merge.go): the rows   *)
(* of the sources, merged by a heap, against those of the target, and the  *)
(* statements that repair the target.                                      *)
(*                                                                         *)
(* A row is [at, num, val, copy]: the place of its key in ORDER BY, which  *)
(* is that of the databases' types and collation; the key as the code      *)
(* compares it, numbers as floats and strings byte by byte, so that other  *)
(* keys may be equal and the order another; the rest of the row; and a     *)
(* number that tells rows of the same content apart, since a table without *)
(* a unique key may hold copies.  A stream may break off: that of a source *)
(* is noticed, that of the target is taken for its end.  The statements    *)
(* reach the file in the order they are sent.                              *)
(***************************************************************************)
EXTENDS Integers, FiniteSets

CONSTANTS
    Sources,        \* the source tables
    OldData,        \* what is compared: [source, target], the rows of each, and
                    \* [single], the keys that a unique index allows once a table
    NoRow           \* a row not read, or the end of a stream

\* The rows of all sources.
Merged(d) == UNION {d.source[s] : s \in Sources}

\* Rows of the same content, and how many a table has of it.
Same(r, q) == r.at = q.at /\ r.num = q.num /\ r.val = q.val
Copies(rows, r) == Cardinality({q \in rows : Same(q, r)})

\* Rows whose copies are numbered.
Numbered(rows) ==
    /\ IsFiniteSet(rows) /\ NoRow \notin rows
    /\ \A r \in rows :
          /\ r = [at |-> r.at, num |-> r.num, val |-> r.val, copy |-> r.copy]
          /\ r.at \in Int /\ r.num \in Int /\ r.copy \in 1 .. Copies(rows, r)

ASSUME OldRowsAssumption ==
    /\ IsFiniteSet(Sources)
    /\ \A d \in OldData :
          /\ Numbered(Merged(d)) /\ Numbered(d.target)
          /\ \A s, z \in Sources : s # z => d.source[s] \cap d.source[z] = {}
          /\ \A rows \in {d.target} \cup {d.source[s] : s \in Sources} :
                \A r, q \in rows : r.at = q.at /\ r.at \in d.single => r = q

VARIABLES
    data,           \* the two sides
    sourceRows,     \* the rows of each source not read yet
    targetRows,     \* and of the target
    heap,           \* sourceRowDatas: the rows taken from the sources
    lastSource, lastTarget,
    rowsPc,         \* "read", "compare", "done", "error"
    rowsEqual,      \* equal
    fixed,          \* history: the target after the statements sent
    targetCut       \* history: the target's stream broke off

rowVars == <<data, sourceRows, targetRows, heap, lastSource, lastTarget, rowsPc, rowsEqual, fixed, targetCut>>

\* ORDER BY: the rows that a stream with these left may give next.
FirstRows(rows) == {r \in rows : \A q \in rows : r.at <= q.at}

RowsInit(choices) ==
    /\ data \in choices
    /\ sourceRows = [s \in Sources |-> data.source[s]]
    /\ targetRows = data.target
    /\ heap = [s \in Sources |-> NoRow] /\ lastSource = NoRow /\ lastTarget = NoRow
    /\ rowsPc = "read" /\ rowsEqual = TRUE /\ fixed = data.target /\ targetCut = FALSE

Heaps(rows) == [Sources -> (UNION {rows[s] : s \in Sources}) \cup {heap[s] : s \in Sources}]

\* Mutant: the heap is refilled only from sources that are still running when
\* it is empty.
MutRefill(rows) ==
    {h \in Heaps(rows) :
        \A s \in Sources :
           IF rows[s] # {} /\ \A z \in Sources : heap[z] = NoRow THEN h[s] \in FirstRows(rows[s]) ELSE h[s] = heap[s]}

\* getSourceRow: a row from every source that has none in the heap, then one of
\* the smallest of them.
Refill(rows) ==
    {h \in Heaps(rows) :
        \A s \in Sources :
           IF heap[s] = NoRow /\ rows[s] # {} THEN h[s] \in FirstRows(rows[s]) ELSE h[s] = heap[s]}

\* Less: the sources whose rows in the heap may come to its top.
Smallest(h, full) == {s \in full : \A z \in full : h[s].num <= h[z].num}

GetSourceRow ==
    \E filled \in Refill(sourceRows) :
       LET full == {s \in Sources : filled[s] # NoRow} IN
       /\ sourceRows' = [s \in Sources |-> sourceRows[s] \ {filled[s]}]
       /\ \/ full = {} /\ lastSource' = NoRow /\ heap' = filled
          \/ \E first \in Smallest(filled, full) :
                lastSource' = filled[first] /\ heap' = [filled EXCEPT ![first] = NoRow]

\* The head of the loop: the sides that have no row read one.
ReadRows ==
    /\ rowsPc = "read"
    /\ IF lastSource = NoRow THEN GetSourceRow ELSE UNCHANGED <<sourceRows, heap, lastSource>>
    /\ IF lastTarget = NoRow /\ targetRows # {}
       THEN lastTarget' \in FirstRows(targetRows) /\ targetRows' = targetRows \ {lastTarget'}
       ELSE UNCHANGED <<lastTarget, targetRows>>
    /\ rowsPc' = "compare"
    /\ UNCHANGED <<data, rowsEqual, fixed, targetCut>>

\* compareData: which of two different rows comes first.
Order ==
    IF lastTarget = NoRow THEN "insert"
    ELSE IF lastSource = NoRow THEN "delete"
    ELSE CASE lastSource.num < lastTarget.num -> "insert"
           [] lastSource.num > lastTarget.num -> "delete"
           [] lastSource.num = lastTarget.num -> "update"

\* REPLACE takes away the row that has the key, if the key is unique, and a
\* DELETE, which names all columns and has no LIMIT, every copy of the row.
Replaced(rows, row) ==
    LET kept == IF row.at \in data.single THEN {r \in rows : r.at # row.at} ELSE rows
    IN kept \cup {[row EXCEPT !.copy = Copies(kept, row) + 1]}
Deleted(rows, row) == {r \in rows : ~(r.at = row.at /\ r.val = row.val)}

\* The rest of a turn, with generateDML.  The two inner loops for a side that
\* has ended take the same turns.
CompareRow ==
    /\ rowsPc = "compare"
    /\ IF lastSource = NoRow /\ lastTarget = NoRow
       THEN rowsPc' = "done" /\ UNCHANGED <<lastSource, lastTarget, rowsEqual, fixed>>
       ELSE /\ rowsPc' = "read"
            /\ IF NoRow \notin {lastSource, lastTarget} /\ Same(lastSource, lastTarget)
               THEN UNCHANGED <<rowsEqual, fixed>>
               ELSE /\ rowsEqual' = FALSE
                    /\ fixed' = IF Order = "delete" THEN Deleted(fixed, lastTarget) ELSE Replaced(fixed, lastSource)
            /\ lastSource' = IF Order = "delete" THEN lastSource ELSE NoRow
            /\ lastTarget' = IF Order = "insert" THEN lastTarget ELSE NoRow
    /\ UNCHANGED <<data, sourceRows, targetRows, heap, targetCut>>

\* A source's stream breaks off, and getSourceRow returns the error.
SourceFails ==
    /\ rowsPc = "read" /\ lastSource = NoRow
    /\ \E s \in Sources : heap[s] = NoRow /\ sourceRows[s] # {}
    /\ rowsPc' = "error" /\ rowsEqual' = FALSE
    /\ UNCHANGED <<data, sourceRows, targetRows, heap, lastSource, lastTarget, fixed, targetCut>>

\* The target's stream breaks off; rows.Err is not looked at.
TargetCut ==
    /\ rowsPc = "read" /\ targetRows # {}
    /\ targetRows' = {} /\ targetCut' = TRUE
    /\ UNCHANGED <<data, sourceRows, heap, lastSource, lastTarget, rowsPc, rowsEqual, fixed>>

RowsNext == ReadRows \/ CompareRow \/ SourceFails \/ TargetCut

-----------------------------------------------------------------------------
\* Every key is unique, in all sources together too, and the code orders the
\* keys as the queries do.
Ordered(d) ==
    /\ \A rows \in {Merged(d), d.target} : \A r, q \in rows : r.at = q.at => r = q
    /\ \A r, q \in Merged(d) \cup d.target : r.at \in d.single /\ (r.at < q.at <=> r.num < q.num)

\* The comparison says equal only when the target holds the rows of all the
\* sources, each as often, and no other unless its stream broke off; whatever
\* the keys, their order and the copies are.  When the keys are unique and the
\* code orders them as the queries do, it says so whenever that is the case, as
\* diff.go:129 has it, and its statements turn the target into the rows of the
\* sources; after a break no row of the sources is missing, and a row that both
\* sides have is never taken away.  Of other keys none of this can be said:
\* the rows that diff.go:662 calls redundant may then be rows of a source.
OldFixRepairs ==
    LET merged == Merged(data)
    IN /\ rowsPc = "done" /\ rowsEqual =>
             \A r \in merged \cup data.target :
                IF targetCut THEN Copies(merged, r) <= Copies(data.target, r)
                ELSE Copies(merged, r) = Copies(data.target, r)
       /\ Ordered(data) =>
             /\ data.target \cap merged \subseteq fixed
             /\ rowsPc = "done" /\ ~targetCut => fixed = merged /\ (rowsEqual <=> data.target = merged)
             /\ rowsPc = "done" /\ targetCut => merged \subseteq fixed
=============================================================================
