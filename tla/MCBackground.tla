---------------------------- MODULE MCBackground ----------------------------
(***************************************************************************)
(* Two tables on the bar, each pair of the kinds there are; a TiDB with    *)
(* each thing the keeper may find; a directory of two files and one file   *)
(* outside, watched by name.                                               *)
(***************************************************************************)
EXTENDS Background, TLC

\* Both tables are registered, or none; a table whose data is not compared has
\* one empty chunk; a checkpoint may have left the first table nothing to do.
Compared(regs) == [reg : regs, kind : {"random", "bucket", "limit"}, chunks : {1, 2}]
NothingLeft(regs) == [reg : regs, kind : {"random", "bucket", "limit"}, chunks : {0}]
Skipped == [reg : {"done"}, kind : {"skip"}, chunks : {1}] \cup [reg : {"lack"}, kind : {"lack"}, chunks : {1}]
SmallSetups ==
    {[t1 |-> x, t2 |-> y] : x \in Compared({"same", "continue"}) \cup NothingLeft({"same"}) \cup Skipped,
                            y \in Compared({"same"}) \cup Skipped}
    \cup {[t1 |-> x, t2 |-> y] : x \in Compared({"none"}), y \in Compared({"none"}) \cup [reg : {"none"}, kind : {"lack"}, chunks : {1}]}
OneSetup == [t \in BarTables |-> [reg |-> "none", kind |-> "random", chunks |-> 0]]

SmallClusters == [pd : BOOLEAN, latest : {<<>>, <<BadTS>>, <<0>>, <<2>>}, snap : {BadTS, 1, 3}, version : {"newer", "older"}]
OneCluster == [pd |-> FALSE, latest |-> <<>>, snap |-> BadTS, version |-> "older"]

Info(n) == [id |-> n, mod |-> 0, mode |-> 0]
SmallDisks == {(Dir :> Info(0)) @@ ("a" :> Info(1)) @@ ("f" :> Info(2))}
EmptyDisk == [p \in {} |-> {}]
=============================================================================
