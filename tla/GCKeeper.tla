------------------------------ MODULE GCKeeper ------------------------------
(***************************************************************************)
(* What keeps the garbage collection of a TiDB from the data that is being *)
(* compared: startGCKeeperForTiDB of sync_diff_inspector/diff.go and the   *)
(* service of utils/pd.go, which registers a snapshot with PD under a lease *)
(* and renews it half-way through.  Time is in seconds; a call to PD takes *)
(* none.  Timestamps are small numbers, and BadTS is a string that cannot  *)
(* be parsed, the empty one included.                                      *)
(***************************************************************************)
EXTENDS Integers, Sequences

CONSTANTS
    TTL,            \* defaultGCSafePointTTL, 300
    MaxRetry,       \* a round of attempts ends after this many retries, 10
    Cluster,        \* what the keeper finds: [pd, latest, snap, version]
    BadTS

\* The attempts of a round, one a second, fit between a tick and the end of the
\* lease.
ASSUME GCKeeperAssumption ==
    /\ TTL \in Nat \ {0, 1} /\ MaxRetry \in Nat /\ MaxRetry < TTL - TTL \div 2
    /\ BadTS \notin Nat
    /\ \A c \in Cluster :
          /\ c.snap \in Nat \cup {BadTS}
          /\ Len(c.latest) = 1 => c.latest[1] \in Nat \cup {BadTS}

VARIABLES
    cluster,        \* the TiDB this run compares
    keeper,         \* "off", "call", "retry", "wait", "none" or "ended"
    protected,      \* snapshotTS: what PD is asked to keep
    retryCnt,
    tickIn,         \* seconds to the next tick
    tickReady,      \* tick.C holds a tick
    lease,          \* seconds until PD drops the request; -1 before it has one
    roundFailed     \* history: a whole round of attempts failed

keeperVars == <<cluster, keeper, protected, retryCnt, tickIn, tickReady, lease, roundFailed>>

\* Mutant: the request is renewed when its lease ends.
MutUpdateInterval == TTL

updateInterval == TTL \div 2

KeeperInit(clusters) ==
    /\ cluster \in clusters
    /\ keeper = "off" /\ protected = BadTS /\ retryCnt = 0 /\ tickIn = updateInterval /\ tickReady = FALSE
    /\ lease = -1 /\ roundFailed = FALSE

\* GetSnapshot: the older of the cluster's latest and the configured snapshot,
\* as far as there are any.
GetSnapshot(latest, snap) ==
    CASE Len(latest) # 1 -> snap
      [] Len(latest) = 1 /\ latest[1] \in {BadTS, 0} -> snap
      [] Len(latest) = 1 /\ latest[1] \notin {BadTS, 0} /\ snap = BadTS -> latest[1]
      [] OTHER -> IF latest[1] < snap THEN latest[1] ELSE snap

\* StartGCSavepointUpdateService: for a TiDB newer than 4.0.0, with a snapshot
\* that can be parsed.
ServiceStarts(snap) == cluster.version = "newer" /\ snap # BadTS

\* startGCKeeperForTiDB: for a TiDB whose PD can be reached and is its own.
StartKeeper ==
    /\ keeper = "off"
    /\ LET snap == GetSnapshot(cluster.latest, cluster.snap) IN
       IF cluster.pd /\ ServiceStarts(snap)
       THEN keeper' = "call" /\ protected' = snap ELSE keeper' = "none" /\ UNCHANGED protected
    /\ UNCHANGED <<cluster, retryCnt, tickIn, tickReady, lease, roundFailed>>

\* UpdateServiceGCSafePoint.  The counter starts again with the next round.
Renew ==
    /\ keeper = "call"
    /\ lease' = TTL /\ keeper' = "wait" /\ retryCnt' = 0
    /\ UNCHANGED <<cluster, protected, tickIn, tickReady, roundFailed>>

RenewFails ==
    /\ keeper = "call"
    /\ keeper' = "retry"
    /\ UNCHANGED <<cluster, protected, retryCnt, tickIn, tickReady, lease, roundFailed>>

\* A second goes by.  The ticker drops a tick nobody took.
Clock(after) ==
    /\ lease' = IF lease > 0 THEN lease - 1 ELSE lease
    /\ IF tickIn = 1 THEN tickIn' = updateInterval /\ tickReady' = TRUE
       ELSE tickIn' = tickIn - 1 /\ UNCHANGED tickReady
    /\ keeper' = after
    /\ UNCHANGED <<cluster, protected>>

RetryAfterSecond ==
    /\ keeper = "retry"
    /\ IF retryCnt < MaxRetry
       THEN Clock("call") /\ retryCnt' = retryCnt + 1 /\ UNCHANGED roundFailed
       ELSE Clock("wait") /\ retryCnt' = 0 /\ roundFailed' = TRUE

WaitSecond == keeper = "wait" /\ ~tickReady /\ Clock("wait") /\ UNCHANGED <<retryCnt, roundFailed>>

NextRound ==
    /\ keeper = "wait" /\ tickReady
    /\ tickReady' = FALSE /\ keeper' = "call"
    /\ UNCHANGED <<cluster, protected, retryCnt, tickIn, lease, roundFailed>>

\* The comparison is over, or is given up.
EndKeeper ==
    /\ keeper \in {"retry", "wait"} /\ keeper' = "ended"
    /\ UNCHANGED <<cluster, protected, retryCnt, tickIn, tickReady, lease, roundFailed>>

KeeperNext ==
    StartKeeper \/ Renew \/ RenewFails \/ RetryAfterSecond \/ WaitSecond \/ NextRound \/ EndKeeper

-----------------------------------------------------------------------------
\* While the keeper runs, PD keeps the data the comparison reads: the snapshot
\* asked for is no newer than the one configured and than the latest at the
\* start, and the lease does not lapse between two renewals, however late in
\* its round an attempt succeeds.  One round in which all attempts fail is one
\* too many: the next comes as the lease ends.
DataKept ==
    keeper \in {"call", "retry", "wait"} =>
        /\ cluster.snap # BadTS => protected <= cluster.snap
        /\ Len(cluster.latest) = 1 /\ cluster.latest[1] \notin {BadTS, 0} => protected <= cluster.latest[1]
        /\ ~roundFailed /\ lease # -1 => lease > 0
=============================================================================
