------------------------------- MODULE Report -------------------------------
(***************************************************************************)
(* The report of a check (report/report.go) as a value and the operations  *)
(* on it.  A report holds, per table, whether its data was found equal and *)
(* whether one side lacks the table, and per chunk how often an            *)
(* unsuccessful check of it was counted (the ChunkMap entries, to which    *)
(* rows-add and rows-delete are added).  The overall Result is not part of *)
(* the record: it is not written to the checkpoint file.                   *)
(***************************************************************************)
EXTENDS TablePlan

CONSTANTS
    UniqueID,     \* table -> rank of its "schema:table" string
    Lack,         \* tables that exist on one side only
    StructDiff    \* tables whose structures differ

\* A table is cut into an Empty chunk when it is lacking or when the
\* difference of the structures forbids comparing rows (IgnoreDataCheck).
ASSUME ReportAssumption ==
    /\ UniqueID \in [Tables -> Nat]
    /\ Lack \subseteq Tables /\ StructDiff \subseteq Tables
    /\ \A t \in Tables : Split[t] = "empty" => t \in Lack \cup StructDiff
    /\ \A t \in Lack : Split[t] = "empty"

Results == {"pass", "fail", "error"}

ReportType ==
    [dataEqual : [Tables -> BOOLEAN], lack : SUBSET Tables,
     chunkMap : [Plan -> Nat]]

InitReport ==
    [dataEqual |-> [t \in Tables |-> TRUE],
     lack      |-> {},
     chunkMap  |-> [c \in Plan |-> 0]]

\* SetTableStructCheckResult for the tables from index from on.
SetTableStructCheckResult(r, from) ==
    [r EXCEPT !.lack = {t \in Tables : IF t >= from THEN t \in Lack ELSE t \in @}]

ResultAfterStruct(result, from) ==
    IF result # "error" /\ \E t \in StructDiff \ Lack : t >= from
    THEN "fail" ELSE result

SetTableDataCheckResult(r, c, equal) ==
    IF equal THEN r
    ELSE [r EXCEPT !.dataEqual[c.table] = FALSE, !.chunkMap[c] = @ + 1]

\* Mutant: an equal chunk sets the result back to "pass".
MutResultAfterData(result, r, c, equal) ==
    IF result = "error" \/ c.table \in r.lack THEN result
    ELSE IF equal THEN "pass" ELSE "fail"

ResultAfterData(result, r, c, equal) ==
    IF ~equal /\ result # "error" /\ c.table \notin r.lack THEN "fail" ELSE result

\* SetTableMeetError
ResultAfterError(result, err) == IF err THEN "error" ELSE result

-----------------------------------------------------------------------------
\* Mutant: the entries of chunks after the snapshot's chunk are kept as well.
MutGetSnapshot(r, c) ==
    LET kept(t) == UniqueID[t] >= UniqueID[c.table]
    IN  [dataEqual |-> [t \in Tables |-> kept(t) => r.dataEqual[t]],
         lack      |-> {},
         chunkMap  |-> [d \in Plan |-> IF kept(d.table) THEN r.chunkMap[d] ELSE 0]]

\* GetSnapshot for chunk c: the results of the tables whose id is at least
\* that of c's table, and of their chunks those up to c.  A table that is
\* left out reads as in a new report.  TableLack is not copied.
GetSnapshot(r, c) ==
    LET kept(t) == UniqueID[t] >= UniqueID[c.table]
    IN  [dataEqual |-> [t \in Tables |-> kept(t) => r.dataEqual[t]],
         lack      |-> {},
         chunkMap  |-> [d \in Plan |-> IF kept(d.table) /\ ComparesLeq(d, c)
                                       THEN r.chunkMap[d] ELSE 0]]

\* LoadReport into a report that Init has just filled: the saved tables
\* replace the new ones, the Result stays as NewReport set it.
LoadReport(saved) == saved
=============================================================================
