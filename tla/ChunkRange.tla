----------------------------- MODULE ChunkRange -----------------------------
(***************************************************************************)
(* The rows a chunk stands for.  A range has a lower and an upper bound on *)
(* the columns of the split index; Range.ToString (chunk/chunk.go) turns   *)
(* it into the WHERE clause that every query about the chunk carries.      *)
(*                                                                         *)
(* A row is the sequence of its index columns, a bound a sequence of       *)
(* values, or <<>> when the range is open at that end: the splitters bound *)
(* all columns or none.  A column may be NULL; comparing NULL with a value *)
(* is not true, and the clause has no negation, so that a comparison with  *)
(* NULL may be read as false.                                              *)
(***************************************************************************)
EXTENDS Integers, Sequences, FiniteSetsExt

CONSTANTS
    NCols,      \* number of columns of the split index
    Null        \* the SQL NULL

ASSUME ChunkRangeAssumption == NCols \in Nat \ {0} /\ Null \notin Int

Cols == 1 .. NCols

Eq(v, x) == v # Null /\ v = x
Gt(v, x) == v # Null /\ v > x
Lt(v, x) == v # Null /\ v < x

\* The order of index keys that have no NULL.
KeyLess(k, l) ==
    \E i \in Cols : k[i] < l[i] /\ \A j \in 1 .. (i - 1) : k[j] = l[j]

KeyLeq(k, l) == k = l \/ KeyLess(k, l)

\* The leading columns on which both bounds agree (sameCondition).
SameLen(r) ==
    IF r.lower = <<>> \/ r.upper = <<>> THEN 0
    ELSE Max({n \in 0 .. NCols : \A j \in 1 .. n : r.lower[j] = r.upper[j]})

\* lowerCondition: some column is greater and those before it are equal.
AboveLower(r, row, from) ==
    r.lower # <<>> =>
        \E i \in from .. NCols :
            /\ \A j \in from .. (i - 1) : Eq(row[j], r.lower[j])
            /\ Gt(row[i], r.lower[i])

\* Mutant: the last column is compared with < as the others are.
MutBelowUpper(r, row, from) ==
    r.upper # <<>> =>
        \E i \in from .. NCols :
            /\ \A j \in from .. (i - 1) : Eq(row[j], r.upper[j])
            /\ Lt(row[i], r.upper[i])

\* upperCondition: the last column is compared with <=, the others with <.
BelowUpper(r, row, from) ==
    r.upper # <<>> =>
        \E i \in from .. NCols :
            /\ \A j \in from .. (i - 1) : Eq(row[j], r.upper[j])
            /\ Lt(row[i], r.upper[i]) \/ (i = NCols /\ Eq(row[i], r.upper[i]))

\* The WHERE clause holds of the row.  Equal bounds make it FALSE.
Selects(r, row) ==
    LET same == SameLen(r)
    IN  /\ same < NCols
        /\ \A j \in 1 .. same : Eq(row[j], r.lower[j])
        /\ AboveLower(r, row, same + 1)
        /\ BelowUpper(r, row, same + 1)
=============================================================================
