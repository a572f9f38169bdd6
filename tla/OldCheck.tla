------------------------------ MODULE OldCheck ------------------------------
(***************************************************************************)
(* The old library: how it splits a table, how it compares the rows of a   *)
(* chunk, and the check that does the one and then the other for every     *)
(* chunk.  OldDiff takes the chunks and what a comparison finds as given,  *)
(* so the three do not share variables and a behaviour is one of any of    *)
(* them.                                                                   *)
(***************************************************************************)
EXTENDS OldChunks, OldRows, OldDiff

VARIABLE part

checkVars == <<part, splitVars, rowVars, oldVars>>

EmptyTable == [rows |-> {}, buckets |-> <<>>]
EmptyData == [source |-> [s \in Sources |-> {}], target |-> {}, single |-> {}]

CheckInit ==
    \/ part = "split" /\ SplitInit(OldTables) /\ RowsInit({EmptyData}) /\ OldInit({{}})
    \/ part = "rows" /\ SplitInit({EmptyTable}) /\ RowsInit(OldData) /\ OldInit({{}})
    \/ part = "check" /\ SplitInit({EmptyTable}) /\ RowsInit({EmptyData}) /\ OldInit(Differences)

OfCheck(A) == part = "check" /\ A /\ UNCHANGED <<part, splitVars, rowVars>>

CheckNext ==
    \/ part = "split" /\ SplitNext /\ UNCHANGED <<part, rowVars, oldVars>>
    \/ part = "rows" /\ RowsNext /\ UNCHANGED <<part, splitVars, oldVars>>
    \/ OfCheck(OldNext)

\* Goroutines that can go on do; nothing makes a process crash, a context be
\* cancelled or a new run start.
CheckFairness ==
    /\ WF_checkVars(OfCheck(MainStep)) /\ WF_checkVars(OfCheck(Dispatch))
    /\ WF_checkVars(OfCheck(WriterEnds)) /\ WF_checkVars(OfCheck(UpdaterEnds))
    /\ \A w \in Workers : WF_checkVars(OfCheck(WorkerStep(w)))

CheckSpec == CheckInit /\ [][CheckNext]_checkVars /\ CheckFairness
=============================================================================
