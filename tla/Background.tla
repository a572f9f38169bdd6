----------------------------- MODULE Background -----------------------------
(***************************************************************************)
(* What runs beside a comparison: the progress bar, the keeper of the      *)
(* garbage collection and the file watcher.  They share no state, so a     *)
(* behaviour is one of any of the three.                                   *)
(***************************************************************************)
EXTENDS Progress, GCKeeper, Watcher

CONSTANTS
    NoSetup, NoCluster, NoDisk,     \* what a part that is not looked at starts from
    Disks                           \* the disks to watch

VARIABLE part

backVars == <<part, barVars, keeperVars, watchVars>>

BackInit ==
    \/ part = "bar" /\ BarInit(BarSetups) /\ KeeperInit({NoCluster}) /\ WatchInit({NoDisk})
    \/ part = "keeper" /\ BarInit({NoSetup}) /\ KeeperInit(Cluster) /\ WatchInit({NoDisk})
    \/ part = "watcher" /\ BarInit({NoSetup}) /\ KeeperInit({NoCluster}) /\ WatchInit(Disks)

BackNext ==
    \/ part = "bar" /\ BarNext /\ UNCHANGED <<part, keeperVars, watchVars>>
    \/ part = "keeper" /\ KeeperNext /\ UNCHANGED <<part, barVars, watchVars>>
    \/ part = "watcher" /\ WatchNext /\ UNCHANGED <<part, barVars, keeperVars>>

BackSpec == BackInit /\ [][BackNext]_backVars
=============================================================================
