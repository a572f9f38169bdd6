-------------------------- MODULE BackgroundProofs --------------------------
(***************************************************************************)
(* Proofs about what runs beside a comparison: the keeper of the garbage   *)
(* collection, for every lease, number of retries and cluster, the file    *)
(* watcher, for every set of files, of watched names, of loops and of      *)
(* disks, and the progress bar, for every set of tables, whatever each of  *)
(* them is, and every capacity of its channel.                             *)
(***************************************************************************)
EXTENDS Background, FiniteSetTheorems, FunctionTheorems, TLAPS

-----------------------------------------------------------------------------
(* The keeper: how the lease runs against the ticker.                      *)

KeeperType ==
    /\ keeper \in {"off", "call", "retry", "wait", "none", "ended"}
    /\ retryCnt \in 0 .. MaxRetry
    /\ tickIn \in 1 .. updateInterval /\ tickReady \in BOOLEAN
    /\ lease \in -1 .. TTL /\ roundFailed \in BOOLEAN

Keeping == keeper \in {"call", "retry", "wait"}

\* Between rounds the lease outlasts the next tick and a round of attempts; in
\* a round it outlasts the attempts that are left.
LeaseInv ==
    Keeping /\ ~roundFailed /\ lease # -1 =>
        /\ keeper = "wait" /\ tickReady => lease > MaxRetry
        /\ keeper = "wait" /\ ~tickReady => lease > MaxRetry + tickIn
        /\ keeper # "wait" => lease > MaxRetry - retryCnt

KeeperInv ==
    /\ KeeperType /\ LeaseInv
    /\ keeper = "off" => lease = -1
    /\ keeper = "wait" => retryCnt = 0
    /\ Keeping => /\ cluster \in Cluster
                  /\ protected = GetSnapshot(cluster.latest, cluster.snap)

\* updateInterval is at least one second, and leaves room in a lease for a whole
\* round of attempts.
LEMMA IntervalFacts ==
    /\ updateInterval \in Nat /\ updateInterval >= 1
    /\ updateInterval + MaxRetry < TTL
<1>1. TTL \in Nat /\ TTL >= 2 /\ MaxRetry \in Nat /\ MaxRetry < TTL - TTL \div 2
  BY GCKeeperAssumption
<1>2. TTL \div 2 \in Nat /\ TTL \div 2 >= 1
  BY <1>1
<1> QED BY <1>1, <1>2 DEF updateInterval

\* A keeper that has not started has no lease.
LEMMA KeeperInitially ==
    ASSUME NEW clusters, KeeperInit(clusters)
    PROVE  KeeperInv /\ keeper = "off"
<1>1. /\ keeper = "off" /\ retryCnt = 0 /\ tickIn = updateInterval /\ tickReady = FALSE
      /\ lease = -1 /\ roundFailed = FALSE
  BY DEF KeeperInit
<1>2. KeeperType
  <2>1. MaxRetry \in Nat /\ TTL \in Nat
    BY GCKeeperAssumption
  <2>2. retryCnt \in 0 .. MaxRetry /\ lease \in -1 .. TTL
    BY <1>1, <2>1
  <2>3. tickIn \in 1 .. updateInterval
    BY <1>1, IntervalFacts
  <2> QED BY <1>1, <2>2, <2>3 DEF KeeperType
<1> QED BY <1>1, <1>2 DEF KeeperInv, LeaseInv, Keeping

\* What a second does to the lease and the ticker.
LEMMA ClockTicks ==
    ASSUME KeeperType, NEW after, Clock(after)
    PROVE  /\ lease' \in -1 .. TTL /\ tickIn' \in 1 .. updateInterval /\ tickReady' \in BOOLEAN
           /\ lease' = -1 <=> lease = -1
           /\ lease > 0 => lease' = lease - 1
           /\ tickReady' /\ ~tickReady => tickIn = 1
           /\ ~tickReady' => tickIn' = tickIn - 1
           /\ keeper' = after /\ UNCHANGED <<cluster, protected>>
<1>1. /\ updateInterval \in Nat /\ updateInterval >= 1 /\ TTL \in Nat
      /\ lease \in -1 .. TTL /\ tickIn \in 1 .. updateInterval /\ tickReady \in BOOLEAN
  BY IntervalFacts, GCKeeperAssumption DEF KeeperType
<1>2. /\ lease' = IF lease > 0 THEN lease - 1 ELSE lease
      /\ IF tickIn = 1 THEN tickIn' = updateInterval /\ tickReady' = TRUE
         ELSE tickIn' = tickIn - 1 /\ UNCHANGED tickReady
      /\ keeper' = after /\ UNCHANGED <<cluster, protected>>
  BY DEF Clock
<1>3. /\ lease' \in -1 .. TTL /\ (lease' = -1 <=> lease = -1)
      /\ lease > 0 => lease' = lease - 1
  BY <1>1, <1>2
<1>4. tickIn' \in 1 .. updateInterval
  BY <1>1, <1>2
<1>5. /\ tickReady' \in BOOLEAN
      /\ tickReady' /\ ~tickReady => tickIn = 1
  BY <1>1, <1>2
<1>6. ~tickReady' => tickIn' = tickIn - 1
  BY <1>2
<1> QED BY <1>2, <1>3, <1>4, <1>5, <1>6

\* Every step of gcKeeper's loop, a second of its clock included, keeps what the
\* lease and the ticker have to do with each other.
LEMMA KeeperStep ==
    ASSUME KeeperInv, cluster \in Cluster, KeeperNext
    PROVE  KeeperInv'
<1>0. KeeperType /\ LeaseInv /\ MaxRetry \in Nat /\ TTL \in Nat
  BY GCKeeperAssumption DEF KeeperInv
<1>1. CASE StartKeeper
  <2>1. /\ UNCHANGED <<cluster, retryCnt, tickIn, tickReady, lease, roundFailed>>
        /\ lease = -1
        /\ \/ keeper' = "none"
           \/ keeper' = "call" /\ protected' = GetSnapshot(cluster.latest, cluster.snap)
    BY <1>1 DEF StartKeeper, KeeperInv
  <2> QED BY <1>0, <2>1 DEF KeeperInv, KeeperType, LeaseInv, Keeping
<1>2. CASE Renew
  <2>1. KeeperType'
    BY <1>0, <1>2 DEF Renew, KeeperType
  <2>2. LeaseInv'
    BY <1>0, <1>2, IntervalFacts DEF Renew, LeaseInv, KeeperType
  <2> QED BY <1>2, <2>1, <2>2 DEF Renew, KeeperInv, Keeping
<1>3. CASE RenewFails
  BY <1>0, <1>3 DEF RenewFails, KeeperInv, KeeperType, LeaseInv, Keeping
<1>4. CASE RetryAfterSecond
  <2>1. CASE retryCnt < MaxRetry
    <3>1. Clock("call") /\ retryCnt' = retryCnt + 1 /\ UNCHANGED roundFailed /\ keeper = "retry"
      BY <1>4, <2>1 DEF RetryAfterSecond
    <3>2. KeeperType'
      BY <1>0, <2>1, <3>1, ClockTicks DEF KeeperType
    <3>3. LeaseInv'
      BY <1>0, <2>1, <3>1, ClockTicks DEF KeeperType, LeaseInv, Keeping
    <3> QED BY <1>0, <3>1, <3>2, <3>3, ClockTicks DEF KeeperInv, Keeping
  <2>2. CASE ~(retryCnt < MaxRetry)
    <3>1. Clock("wait") /\ retryCnt' = 0 /\ roundFailed' = TRUE /\ keeper = "retry"
      BY <1>4, <2>2 DEF RetryAfterSecond
    <3>2. KeeperType'
      BY <1>0, <3>1, ClockTicks DEF KeeperType
    <3> QED BY <1>0, <3>1, <3>2, ClockTicks DEF KeeperInv, LeaseInv, Keeping
  <2> QED BY <2>1, <2>2
<1>5. CASE WaitSecond
  <2>1. /\ keeper = "wait" /\ ~tickReady /\ Clock("wait")
        /\ UNCHANGED <<retryCnt, roundFailed>>
    BY <1>5 DEF WaitSecond
  <2>2. KeeperType'
    BY <1>0, <2>1, ClockTicks DEF KeeperType
  <2>3. LeaseInv'
    BY <1>0, <2>1, ClockTicks DEF KeeperType, LeaseInv, Keeping
  <2> QED BY <1>0, <2>1, <2>2, <2>3, ClockTicks DEF KeeperInv, Keeping
<1>6. CASE NextRound
  <2>1. /\ keeper = "wait" /\ tickReady /\ retryCnt = 0
        /\ tickReady' = FALSE /\ keeper' = "call"
        /\ UNCHANGED <<cluster, protected, retryCnt, tickIn, lease, roundFailed>>
    BY <1>6 DEF NextRound, KeeperInv
  <2>2. KeeperType'
    BY <1>0, <2>1 DEF KeeperType
  <2>3. LeaseInv'
    BY <1>0, <2>1 DEF LeaseInv, Keeping
  <2> QED BY <2>1, <2>2, <2>3 DEF KeeperInv, Keeping
<1>7. CASE EndKeeper
  BY <1>0, <1>7 DEF EndKeeper, KeeperInv, KeeperType, LeaseInv, Keeping
<1> QED BY <1>1, <1>2, <1>3, <1>4, <1>5, <1>6, <1>7 DEF KeeperNext

\* Only a run that looks at the keeper starts it.
KeeperPart ==
    /\ KeeperInv
    /\ part = "keeper" => cluster \in Cluster
    /\ part # "keeper" => keeper = "off"

\* So do the steps of the other two parts, which leave the keeper alone.
LEMMA KeeperPartInvariant == BackSpec => []KeeperPart
<1>1. BackInit => KeeperPart
  BY KeeperInitially DEF BackInit, KeeperInit, KeeperPart
<1>2. KeeperPart /\ [BackNext]_backVars => KeeperPart'
  <2> SUFFICES ASSUME KeeperPart, [BackNext]_backVars PROVE KeeperPart'
    OBVIOUS
  <2>1. CASE part = "keeper" /\ KeeperNext /\ UNCHANGED part
    <3>1. UNCHANGED cluster
      BY <2>1
      DEF KeeperNext, StartKeeper, Renew, RenewFails, RetryAfterSecond, WaitSecond, Clock,
          NextRound, EndKeeper
    <3> QED BY <2>1, <3>1, KeeperStep DEF KeeperPart
  <2>2. CASE UNCHANGED <<part, keeperVars>>
    BY <2>2
    DEF KeeperPart, KeeperInv, KeeperType, LeaseInv, Keeping, keeperVars
  <2> QED BY <2>1, <2>2 DEF BackNext, backVars
<1> QED BY <1>1, <1>2, PTL DEF BackSpec

\* GetSnapshot is no newer than either of the two it chooses from.
LEMMA SnapshotOldest ==
    ASSUME NEW c \in Cluster
    PROVE  LET p == GetSnapshot(c.latest, c.snap)
           IN  /\ c.snap # BadTS => p <= c.snap
               /\ Len(c.latest) = 1 /\ c.latest[1] \notin {BadTS, 0} => p <= c.latest[1]
<1>1. c.snap \in Nat \cup {BadTS} /\ BadTS \notin Nat
  BY GCKeeperAssumption
<1>2. CASE Len(c.latest) # 1
  BY <1>1, <1>2 DEF GetSnapshot
<1>3. CASE Len(c.latest) = 1
  <2>1. c.latest[1] \in Nat \cup {BadTS}
    BY <1>3, GCKeeperAssumption
  <2> QED BY <1>1, <1>3, <2>1 DEF GetSnapshot
<1> QED BY <1>2, <1>3

\* While the keeper runs and no whole round of attempts has failed, PD keeps
\* the data a comparison reads: startGCKeeperForTiDB asks for a snapshot no
\* newer than those the rows are read at, and the lease never lapses between
\* two renewals, for every lease and interval in which a round of retries fits.
THEOREM DataIsKept == BackSpec => []DataKept
<1>1. KeeperPart => DataKept
  <2> SUFFICES ASSUME KeeperPart, Keeping PROVE
        /\ cluster.snap # BadTS => protected <= cluster.snap
        /\ Len(cluster.latest) = 1 /\ cluster.latest[1] \notin {BadTS, 0}
              => protected <= cluster.latest[1]
        /\ ~roundFailed /\ lease # -1 => lease > 0
    BY DEF DataKept, Keeping
  <2>1. /\ cluster \in Cluster /\ protected = GetSnapshot(cluster.latest, cluster.snap)
    BY DEF KeeperPart, KeeperInv
  <2>2. ~roundFailed /\ lease # -1 => lease > 0
    BY GCKeeperAssumption DEF KeeperPart, KeeperInv, KeeperType, LeaseInv, Keeping
  <2> QED BY <2>1, <2>2, SnapshotOldest
<1> QED BY <1>1, KeeperPartInvariant, PTL

-----------------------------------------------------------------------------
(* The watcher: what the reader knows against the disk as it was listed.   *)

SameLook(i, j) == i.mod = j.mod /\ i.mode = j.mode

\* The lists differ at most on files that the reader may not know right.
LooksLike(f, h) ==
    \A p \in (DOMAIN f \cup DOMAIN h) \ untold : p \in DOMAIN f \cap DOMAIN h /\ SameLook(f[p], h[p])

\* The reader knows of p, and of its look unless p was renamed.
Knows(p, f) == p \in DOMAIN told /\ (told[p] # Moved => SameLook(told[p], f[p]))

Agrees(f) == \A p \in (DOMAIN told \cup DOMAIN f) \ untold : p \in DOMAIN f /\ Knows(p, f)

\* A list with a file in the directory has the directory.
Whole(f) == \A p \in DOMAIN f \cap Inside : Dir \in DOMAIN f

\* The event tells the reader of p as it is listed now.
Tells(e, p) ==
    \/ e.op \in {"modify", "chmod", "create"} /\ e.path = p
    \/ e.op = "move" /\ e.to = p

\* The event tells the reader that p is gone.
TakesAway(e, p) == e.op \in {"move", "remove"} /\ e.path = p

EventOK(e, new) ==
    /\ e.op \in {"modify", "chmod", "move", "create", "remove"}
    /\ e.op \in {"modify", "chmod", "create"} => e.path \in DOMAIN new /\ e.info = new[e.path]
    /\ e.op \in {"move", "remove"} => e.path \notin DOMAIN new
    /\ e.op = "move" => e.to \in DOMAIN new

\* Half-way through the events, those to come tell the rest.
Telling(new, evs) ==
    /\ \A e \in evs : EventOK(e, new)
    /\ \A p \in DOMAIN new \ untold : Knows(p, new) \/ \E e \in evs : Tells(e, p)
    /\ \A p \in (DOMAIN told \ DOMAIN new) \ untold : \E e \in evs : TakesAway(e, p)

\* No round is under way.
Resting == Agrees(files) /\ LooksLike(seen, files)

\* Where the one loop that runs is in its round.
RoundAt(g) ==
    /\ watch[g] = "idle" => Resting
    /\ watch[g] \in {"list", "error", "listed"} => Agrees(files)
    /\ watch[g] \in {"listed", "events", "store"} => LooksLike(seen, currFileList[g])
    /\ watch[g] = "events" => Telling(currFileList[g], pending[g])
    /\ watch[g] = "store" => Agrees(currFileList[g])

LoopStates == {"off", "asked", "starting", "idle", "list", "error", "listed", "events", "store", "left"}

\* Once closed, a watcher tells nothing more.
WatchInv ==
    /\ watch \in [Loops -> LoopStates]
    /\ currFileList = [g \in Loops |-> currFileList[g]] /\ pending = [g \in Loops |-> pending[g]]
    /\ Whole(files) /\ \A g \in Loops : Whole(currFileList[g])
    /\ ~closed => /\ \A g \in Loops : watch[g] # "left"
                  /\ OneLoop =>
                        /\ (\A g \in Loops : watch[g] \in Out) => Resting
                        /\ \A g \in Loops : RoundAt(g)

\* The function is on the path as it was.
Kept(f, h, p) == (p \in DOMAIN h <=> p \in DOMAIN f) /\ (p \in DOMAIN f => h[p] = f[p])

\* A call that comes between the rounds changes both alike.
LEMMA AddAgrees ==
    ASSUME Agrees(files), NEW g, files' = Overlay(files, g), told' = Overlay(told, g), untold' = untold
    PROVE  Agrees(files)'
<1>1. /\ DOMAIN files' = DOMAIN files \cup DOMAIN g
      /\ DOMAIN told' = DOMAIN told \cup DOMAIN g
  BY DEF Overlay
<1>2. ASSUME NEW p \in (DOMAIN told' \cup DOMAIN files') \ untold'
      PROVE  p \in DOMAIN files' /\ Knows(p, files)'
  <2>1. CASE p \in DOMAIN g
    <3>1. files'[p] = g[p] /\ told'[p] = g[p]
      BY <1>1, <2>1 DEF Overlay
    <3> QED BY <1>1, <2>1, <3>1 DEF Knows, SameLook
  <2>2. CASE p \notin DOMAIN g
    <3>1. p \in DOMAIN files /\ p \in DOMAIN told
      BY <1>1, <1>2, <2>2 DEF Agrees, Knows
    <3>2. files'[p] = files[p] /\ told'[p] = told[p]
      BY <2>2, <3>1 DEF Overlay
    <3> QED BY <1>1, <1>2, <3>1, <3>2 DEF Agrees, Knows, SameLook
  <2> QED BY <2>1, <2>2
<1> QED BY <1>2 DEF Agrees

\* The list of a name has the name, and of the directory also its files.
LEMMA ListFacts ==
    ASSUME NEW n \in WatchNames, n \in DOMAIN disk
    PROVE  Whole(listForName(n)) /\ \A f : Whole(f) => Whole(Overlay(f, listForName(n)))
<1>1. DOMAIN listForName(n) = DOMAIN disk \cap ({n} \cup Children(n))
  BY DEF listForName, Restrict
<1>2. n = Dir \/ n \notin Inside
  BY WatcherAssumption
<1>3. Whole(listForName(n))
  BY <1>1, <1>2 DEF Whole, Children
<1>4. ASSUME NEW f, Whole(f) PROVE Whole(Overlay(f, listForName(n)))
  BY <1>3, <1>4 DEF Whole, Overlay
<1> QED BY <1>3, <1>4

\* A name that Remove, or the list, drops goes with its files.
LEMMA RemoveFacts ==
    ASSUME Whole(files), NEW n \in WatchNames
    PROVE  /\ Whole(doRemove(files, n))
           /\ DOMAIN doRemove(files, n) = DOMAIN files \ ({n} \cup Children(n))
           /\ \A p \in DOMAIN doRemove(files, n) : doRemove(files, n)[p] = files[p]
<1>1. n \in Outside \/ n = Dir
  BY WatcherAssumption
<1>2. n \in Outside => Children(n) = {} /\ n # Dir
  BY WatcherAssumption DEF Children
<1>3. Children(Dir) = Inside
  BY DEF Children
<1>4. CASE n \in DOMAIN files
  <2>1. /\ DOMAIN doRemove(files, n) = DOMAIN files \ ({n} \cup Children(n))
        /\ \A p \in DOMAIN doRemove(files, n) : doRemove(files, n)[p] = files[p]
    BY <1>4 DEF doRemove, Without, Restrict
  <2> QED BY <1>1, <1>2, <1>3, <2>1 DEF Whole
<1>5. CASE n \notin DOMAIN files
  <2>1. doRemove(files, n) = files
    BY <1>5 DEF doRemove
  <2>2. DOMAIN files \cap Children(n) = {}
    BY <1>1, <1>2, <1>3, <1>5 DEF Whole
  <2> QED BY <1>5, <2>1, <2>2
<1> QED BY <1>4, <1>5

\* The reader drops the same.
LEMMA RemoveAgrees ==
    ASSUME Agrees(files), Whole(files), NEW n \in WatchNames, files' = doRemove(files, n),
           told' = Without(told, {n} \cup Children(n)), untold' = untold
    PROVE  Agrees(files)'
<1>1. /\ DOMAIN files' = DOMAIN files \ ({n} \cup Children(n))
      /\ \A p \in DOMAIN files' : files'[p] = files[p]
  BY RemoveFacts
<1>2. /\ DOMAIN told' = DOMAIN told \ ({n} \cup Children(n))
      /\ \A p \in DOMAIN told' : told'[p] = told[p]
  BY DEF Without, Restrict
<1> QED BY <1>1, <1>2 DEF Agrees, Knows, SameLook

\* The events cover what changed between the two lists.
LEMMA EventsCover ==
    ASSUME NEW new, Agrees(files), NEW from \in Origins(new), NEW sent, sent = Events(new, from)
    PROVE  Telling(new, sent)
<1>1. /\ DOMAIN from = {q \in Came(new) : Same(new, q) # {}}
      /\ \A q \in DOMAIN from : from[q] \in Went(new)
  BY DEF Origins
<1>2. \A p \in DOMAIN files \cap DOMAIN new :
         files[p].mod # new[p].mod =>
            [op |-> "modify", path |-> p, info |-> new[p]] \in sent
  BY DEF Events
<1>3. \A p \in DOMAIN files \cap DOMAIN new :
         files[p].mode # new[p].mode =>
            [op |-> "chmod", path |-> p, info |-> new[p]] \in sent
  BY DEF Events
<1>4. \A q \in DOMAIN from :
         [op |-> "move", path |-> from[q], info |-> files[from[q]], to |-> q] \in sent
  BY DEF Events
<1>5. \A p \in Came(new) \ DOMAIN from :
         [op |-> "create", path |-> p, info |-> new[p]] \in sent
  BY DEF Events
<1>6. \A p \in Went(new) \ Range(from) :
         [op |-> "remove", path |-> p, info |-> files[p]] \in sent
  BY DEF Events
<1>7. \A e \in sent : EventOK(e, new)
  <2> SUFFICES ASSUME NEW e \in sent PROVE EventOK(e, new)
    OBVIOUS
  <2>1. CASE \E p \in DOMAIN files \cap DOMAIN new :
               \/ e = [op |-> "modify", path |-> p, info |-> new[p]]
               \/ e = [op |-> "chmod", path |-> p, info |-> new[p]]
    BY <2>1 DEF EventOK
  <2>2. CASE \E q \in DOMAIN from :
               e = [op |-> "move", path |-> from[q], info |-> files[from[q]], to |-> q]
    <3>1. PICK q \in DOMAIN from :
            e = [op |-> "move", path |-> from[q], info |-> files[from[q]], to |-> q]
      BY <2>2
    <3>2. e.op = "move" /\ e.path = from[q] /\ e.to = q
      BY <3>1
    <3>3. from[q] \notin DOMAIN new /\ q \in DOMAIN new
      BY <1>1 DEF Came, Went
    <3> QED BY <3>2, <3>3 DEF EventOK
  <2>3. CASE \E p \in Came(new) : e = [op |-> "create", path |-> p, info |-> new[p]]
    BY <2>3 DEF EventOK, Came
  <2>4. CASE \E p \in Went(new) : e = [op |-> "remove", path |-> p, info |-> files[p]]
    BY <2>4 DEF EventOK, Went
  <2> QED BY <2>1, <2>2, <2>3, <2>4 DEF Events
<1>8. ASSUME NEW p \in DOMAIN new \ untold
      PROVE  Knows(p, new) \/ \E e \in sent : Tells(e, p)
  <2>1. CASE p \in DOMAIN files
    <3>1. p \in DOMAIN told /\ (told[p] # Moved => SameLook(told[p], files[p]))
      BY <2>1 DEF Agrees, Knows
    <3>2. CASE SameLook(files[p], new[p])
      BY <3>1, <3>2 DEF Knows, SameLook
    <3>3. CASE files[p].mod # new[p].mod
      <4> DEFINE e == [op |-> "modify", path |-> p, info |-> new[p]]
      <4>1. e \in sent
        BY <1>2, <1>8, <2>1, <3>3
      <4>2. Tells(e, p)
        BY DEF Tells
      <4> QED BY <4>1, <4>2 DEF Tells
    <3>4. CASE files[p].mode # new[p].mode
      <4> DEFINE e == [op |-> "chmod", path |-> p, info |-> new[p]]
      <4>1. e \in sent
        BY <1>3, <1>8, <2>1, <3>4
      <4>2. Tells(e, p)
        BY DEF Tells
      <4> QED BY <4>1, <4>2 DEF Tells
    <3> QED BY <3>2, <3>3, <3>4 DEF SameLook
  <2>2. CASE p \in DOMAIN from
    BY <1>4, <2>2 DEF Tells
  <2>3. CASE p \in Came(new) \ DOMAIN from
    BY <1>5, <2>3 DEF Tells
  <2> QED BY <1>8, <2>1, <2>2, <2>3 DEF Came
<1>9. ASSUME NEW p \in (DOMAIN told \ DOMAIN new) \ untold
      PROVE  \E e \in sent : TakesAway(e, p)
  <2>1. p \in Went(new)
    BY <1>9 DEF Went, Agrees
  <2>2. CASE p \in Range(from)
    <3>1. PICK q \in DOMAIN from : p = from[q]
      BY <2>2 DEF Range
    <3> QED BY <1>4, <3>1 DEF TakesAway
  <2>3. CASE p \notin Range(from)
    <3> DEFINE e == [op |-> "remove", path |-> p, info |-> files[p]]
    <3>1. e \in sent
      BY <1>6, <2>1, <2>3
    <3>2. TakesAway(e, p)
      BY DEF TakesAway
    <3> QED BY <3>1, <3>2
  <2> QED BY <2>2, <2>3
<1> QED BY <1>7, <1>8, <1>9 DEF Telling

\* An event tells the reader what it is for and nothing that is not so.
LEMMA EventTells ==
    ASSUME NEW new, NEW evs, Telling(new, evs), NEW e \in evs, told' = Hear(e), untold' = untold
    PROVE  Telling(new, evs \ {e})'
<1>1. EventOK(e, new)
  BY DEF Telling
<1>2. CASE e.op \in {"modify", "chmod", "create"}
  <2>1. /\ DOMAIN told' = DOMAIN told \cup {e.path} /\ told'[e.path] = e.info
        /\ \A p \in DOMAIN told : p # e.path => told'[p] = told[p]
    BY <1>2 DEF Hear, Overlay
  <2>2. e.path \in DOMAIN new /\ e.info = new[e.path]
    BY <1>1, <1>2 DEF EventOK
  <2>3. \A p : Tells(e, p) => p = e.path
    BY <1>2 DEF Tells
  <2>4. \A p : ~TakesAway(e, p)
    BY <1>2 DEF TakesAway
  <2> QED BY <2>1, <2>2, <2>3, <2>4 DEF Telling, Knows, SameLook, EventOK
<1>3. CASE e.op = "move"
  <2>1. /\ DOMAIN told' = (DOMAIN told \ {e.path}) \cup {e.to} /\ told'[e.to] = Moved
        /\ \A p \in DOMAIN told : p # e.to /\ p # e.path => told'[p] = told[p]
    BY <1>3 DEF Hear, Overlay, Without, Restrict
  <2>2. e.path \notin DOMAIN new /\ e.to \in DOMAIN new
    BY <1>1, <1>3 DEF EventOK
  <2>3. \A p : (Tells(e, p) => p = e.to) /\ (TakesAway(e, p) => p = e.path)
    BY <1>3 DEF Tells, TakesAway
  <2> QED BY <2>1, <2>2, <2>3 DEF Telling, Knows, SameLook, EventOK
<1>4. CASE e.op = "remove"
  <2>1. /\ DOMAIN told' = DOMAIN told \ {e.path}
        /\ \A p \in DOMAIN told' : told'[p] = told[p]
    BY <1>4 DEF Hear, Without, Restrict
  <2>2. e.path \notin DOMAIN new
    BY <1>1, <1>4 DEF EventOK
  <2>3. \A p : ~Tells(e, p) /\ (TakesAway(e, p) => p = e.path)
    BY <1>4 DEF Tells, TakesAway
  <2> QED BY <2>1, <2>2, <2>3 DEF Telling, Knows, SameLook, EventOK
<1> QED BY <1>1, <1>2, <1>3, <1>4 DEF EventOK

\* A step of one loop, by the round it is in.
LEMMA LoopStep ==
    ASSUME WatchInv, NEW g \in Loops, watch[g] \notin Out, NEW w \in LoopStates \ Out,
           watch' = [watch EXCEPT ![g] = w], closePc' = closePc,
           Whole(files)', currFileList' = [h \in Loops |-> currFileList'[h]],
           pending' = [h \in Loops |-> pending'[h]],
           \A h \in Loops : h # g => currFileList'[h] = currFileList[h],
           Whole(currFileList[g])', ~closed => w # "left",
           ~closed /\ OneLoop => RoundAt(g)'
    PROVE  WatchInv'
<1>1. watch' \in [Loops -> LoopStates] /\ watch'[g] = w /\ \A h \in Loops : h # g => watch'[h] = watch[h]
  BY DEF WatchInv
<1>2. \A h \in Loops : Whole(currFileList'[h])
  BY DEF WatchInv, Whole
<1>3. closed' <=> closed
  BY DEF closed
<1>4. ASSUME ~closed' PROVE \A h \in Loops : watch'[h] # "left"
  BY <1>1, <1>3, <1>4 DEF WatchInv
<1>5. ASSUME ~closed', OneLoop'
      PROVE  /\ ~(\A h \in Loops : watch'[h] \in Out)
             /\ \A h \in Loops : RoundAt(h)'
  <2>1. OneLoop
    BY <1>1, <1>5 DEF OneLoop
  <2>2. RoundAt(g)'
    BY <1>3, <1>5, <2>1
  <2>3. \A h \in Loops : h # g => watch'[h] \in Out
    BY <1>1, <1>5, <2>1 DEF OneLoop
  <2>4. \A h \in Loops : h # g => RoundAt(h)'
    BY <2>3 DEF RoundAt, Out
  <2> QED BY <1>1, <2>2, <2>4
<1> QED BY <1>1, <1>2, <1>4, <1>5 DEF WatchInv

\* A call changes only the files of its name; in the middle of a round these are
\* then among those the reader may not know.
LEMMA CallStep ==
    ASSUME WatchInv, ~closed, ~Locked, NEW N, UNCHANGED <<watch, closePc, currFileList, pending>>,
           Whole(files)', untold \subseteq untold', MidRound => N \subseteq untold',
           \A p : p \notin N => Kept(files, files', p) /\ Kept(told, told', p) /\ Kept(seen, seen', p),
           Resting /\ ~MidRound => Resting'
    PROVE  WatchInv'
<1>1. (closed' <=> closed) /\ (OneLoop' <=> OneLoop)
  BY DEF closed, OneLoop
<1>2. \A g \in Loops : Whole(currFileList[g])'
  BY DEF WatchInv, Whole
<1>3. \A g \in Loops : watch[g] \in Out \cup {"idle", "listed", "store"}
  BY DEF WatchInv, Locked, LoopStates, Out
<1>4. ASSUME OneLoop, ~MidRound PROVE Resting' /\ \A g \in Loops : RoundAt(g)'
  <2>1. \A g \in Loops : watch[g] \in Out \cup {"idle"}
    BY <1>3, <1>4 DEF MidRound
  <2>2. Resting
    BY <1>4, <2>1 DEF WatchInv, RoundAt
  <2> QED BY <1>4, <2>1, <2>2 DEF RoundAt, Out
<1>5. ASSUME OneLoop, MidRound
      PROVE  ~(\A g \in Loops : watch[g] \in Out) /\ \A g \in Loops : RoundAt(g)'
  <2>1. PICK g \in Loops : watch[g] \in {"listed", "store"}
    BY <1>5 DEF MidRound
  <2>2. \A h \in Loops : h # g => watch[h] \in Out
    BY <1>5, <2>1 DEF OneLoop, Out
  <2>3. \A p : p \notin untold' => Kept(files, files', p) /\ Kept(told, told', p) /\ Kept(seen, seen', p)
    BY <1>5
  <2>4. RoundAt(g)
    BY <1>5 DEF WatchInv
  <2>5. LooksLike(seen, currFileList[g])'
    <3>1. LooksLike(seen, currFileList[g])
      BY <2>1, <2>4 DEF RoundAt
    <3> QED BY <2>3, <3>1 DEF LooksLike, Kept
  <2>6. CASE watch[g] = "listed"
    <3>1. Agrees(files)
      BY <2>4, <2>6 DEF RoundAt
    <3>2. Agrees(files)'
      BY <2>3, <3>1 DEF Agrees, Knows, Kept
    <3> QED BY <2>2, <2>5, <2>6, <3>2 DEF RoundAt, Out
  <2>7. CASE watch[g] = "store"
    <3>1. Agrees(currFileList[g])
      BY <2>4, <2>7 DEF RoundAt
    <3>2. Agrees(currFileList[g])'
      BY <2>3, <3>1 DEF Agrees, Knows, Kept
    <3> QED BY <2>2, <2>5, <2>7, <3>2 DEF RoundAt, Out
  <2> QED BY <2>1, <2>6, <2>7 DEF Out
<1> QED BY <1>1, <1>2, <1>4, <1>5 DEF WatchInv

\* A step that has nothing to do with the files.
LEMMA OtherStep ==
    ASSUME WatchInv, UNCHANGED <<closePc, watch, files, currFileList, pending, told, seen, untold>>
    PROVE  WatchInv'
<1>1. (closed' <=> closed) /\ (OneLoop' <=> OneLoop)
  BY DEF closed, OneLoop
<1>2. Resting' <=> Resting
  BY DEF Resting, Agrees, Knows, LooksLike
<1>3. ASSUME NEW g \in Loops PROVE RoundAt(g)' <=> RoundAt(g)
  <2>1. Agrees(files)' <=> Agrees(files)
    BY DEF Agrees, Knows
  <2>2. Agrees(currFileList[g])' <=> Agrees(currFileList[g])
    BY DEF Agrees, Knows
  <2>3. LooksLike(seen, currFileList[g])' <=> LooksLike(seen, currFileList[g])
    BY DEF LooksLike
  <2>4. Telling(currFileList[g], pending[g])' <=> Telling(currFileList[g], pending[g])
    BY DEF Telling, Knows, EventOK
  <2> QED BY <1>2, <2>1, <2>2, <2>3, <2>4 DEF RoundAt
<1>4. \A f : Whole(f)' <=> Whole(f)
  BY DEF Whole
<1> QED BY <1>1, <1>2, <1>3, <1>4 DEF WatchInv

\* A step of a watcher that is closed.
LEMMA ClosedStep ==
    ASSUME WatchInv, closed', watch' \in [Loops -> LoopStates],
           currFileList' = [g \in Loops |-> currFileList'[g]], pending' = [g \in Loops |-> pending'[g]],
           files' = files \/ files' = NoFiles,
           \A g \in Loops : currFileList'[g] = currFileList[g] \/ currFileList'[g] = NoFiles
    PROVE  WatchInv'
<1>1. Whole(files)' /\ \A g \in Loops : Whole(currFileList[g])'
  BY DEF WatchInv, Whole, NoFiles
<1> QED BY <1>1 DEF WatchInv

\* Start.
LEMMA StartStep ==
    ASSUME WatchInv, NEW g \in Loops, StartWatcher(g) \/ StartLooks(g) \/ Launch(g)
    PROVE  WatchInv'
<1>1. /\ watch[g] \in Out /\ UNCHANGED <<closePc, files, currFileList, pending, told, seen, untold>>
      /\ \/ watch' = [watch EXCEPT ![g] = "asked"] \/ watch' = [watch EXCEPT ![g] = "off"]
         \/ watch' = [watch EXCEPT ![g] = "starting"] \/ watch' = [watch EXCEPT ![g] = "idle"]
  BY DEF StartWatcher, StartLooks, Launch, Out, callerVars, history
<1>2. /\ watch' \in [Loops -> LoopStates] /\ watch'[g] \in Out \cup {"idle"}
      /\ \A h \in Loops : h # g => watch'[h] = watch[h]
  BY <1>1 DEF WatchInv, LoopStates, Out
<1>3. closed' <=> closed
  BY <1>1 DEF closed
<1>4. OneLoop' => OneLoop
  BY <1>1, <1>2 DEF OneLoop
<1>5. Resting' <=> Resting
  BY <1>1 DEF Resting, Agrees, Knows, LooksLike
<1>6. ASSUME ~closed, OneLoop'
      PROVE  /\ (\A h \in Loops : watch'[h] \in Out) => Resting'
             /\ \A h \in Loops : RoundAt(h)'
  <2>1. /\ (\A h \in Loops : watch[h] \in Out) => Resting
        /\ \A h \in Loops : RoundAt(h)
    BY <1>4, <1>6 DEF WatchInv
  <2>2. ASSUME NEW h \in Loops, h # g PROVE RoundAt(h)'
    <3>1. Agrees(files)' <=> Agrees(files)
      BY <1>1 DEF Agrees, Knows
    <3>2. Agrees(currFileList[h])' <=> Agrees(currFileList[h])
      BY <1>1 DEF Agrees, Knows
    <3>3. LooksLike(seen, currFileList[h])' <=> LooksLike(seen, currFileList[h])
      BY <1>1 DEF LooksLike
    <3>4. Telling(currFileList[h], pending[h])' <=> Telling(currFileList[h], pending[h])
      BY <1>1 DEF Telling, Knows, EventOK
    <3> QED BY <1>2, <1>5, <2>1, <2>2, <3>1, <3>2, <3>3, <3>4 DEF RoundAt
  <2>3. RoundAt(g)'
    <3>1. CASE watch'[g] = "idle"
      <4>1. \A h \in Loops : watch[h] \in Out
        BY <1>1, <1>2, <1>6, <3>1 DEF OneLoop, Out
      <4> QED BY <1>5, <2>1, <3>1, <4>1 DEF RoundAt
    <3>2. CASE watch'[g] \in Out
      BY <3>2 DEF RoundAt, Out
    <3> QED BY <1>2, <3>1, <3>2
  <2>4. (\A h \in Loops : watch'[h] \in Out) => \A h \in Loops : watch[h] \in Out
    BY <1>1, <1>2
  <2> QED BY <1>5, <2>1, <2>2, <2>3, <2>4
<1>7. Whole(files)' /\ \A h \in Loops : Whole(currFileList[h])' /\ (~closed => watch'[h] # "left")
  BY <1>1, <1>2 DEF WatchInv, Whole, Out
<1>8. currFileList' = [h \in Loops |-> currFileList'[h]] /\ pending' = [h \in Loops |-> pending'[h]]
  BY <1>1 DEF WatchInv
<1> QED BY <1>1, <1>2, <1>3, <1>6, <1>7, <1>8 DEF WatchInv

\* Add.
LEMMA AddStep == ASSUME WatchInv, NEW n \in WatchNames, Add(n) PROVE WatchInv'
<1> SUFFICES ASSUME NEW list, list = listForName(n), NEW f, f = files PROVE WatchInv'
  OBVIOUS
<1> DEFINE N == {n} \cup Children(n)
<1>1. /\ ~closed /\ ~Locked /\ n \in DOMAIN disk
      /\ files' = Overlay(f, list)
      /\ \/ n \in names /\ told' = told /\ seen' = seen /\ Differing(f, list) \subseteq untold'
         \/ n \notin names /\ told' = Overlay(told, list) /\ seen' = Overlay(seen, list)
            /\ untold' = untold \cup Raced(n)
      /\ untold \subseteq untold' /\ Raced(n) \subseteq untold'
      /\ UNCHANGED <<closePc, watch, currFileList, pending>>
  BY DEF Add, pollVars
<1>2. Whole(files)'
  <2>1. Whole(Overlay(f, list))
    BY <1>1, ListFacts DEF WatchInv
  <2> QED BY <1>1, <2>1 DEF Whole
<1>3. DOMAIN list \subseteq N
  BY DEF listForName, Restrict
<1>4. \A p, h : p \notin N => Kept(h, Overlay(h, list), p) /\ Kept(h, h, p)
  BY <1>3 DEF Overlay, Kept
<1>5. ASSUME NEW p, p \notin N
      PROVE  Kept(files, files', p) /\ Kept(told, told', p) /\ Kept(seen, seen', p)
  BY <1>1, <1>4, <1>5
<1>6. ASSUME Resting, ~MidRound PROVE Resting'
  <2>1. CASE told' = told /\ seen' = seen /\ Differing(f, list) \subseteq untold'
    <3>1. ASSUME NEW p, p \notin untold'
          PROVE  /\ p \in DOMAIN files' <=> p \in DOMAIN f
                 /\ p \in DOMAIN f => SameLook(files'[p], f[p])
      <4>1. DOMAIN files' = DOMAIN f \cup DOMAIN list
        BY <1>1 DEF Overlay
      <4>2. p \in DOMAIN list => p \in DOMAIN f /\ SameLook(list[p], f[p])
        BY <2>1, <3>1 DEF Differing, Visible, SameLook
      <4>3. p \in DOMAIN f => files'[p] = IF p \in DOMAIN list THEN list[p] ELSE f[p]
        BY <1>1 DEF Overlay
      <4> QED BY <4>1, <4>2, <4>3 DEF SameLook
    <3>2. Agrees(files)'
      BY <1>1, <1>6, <2>1, <3>1 DEF Resting, Agrees, Knows, SameLook
    <3>3. LooksLike(seen, files)'
      BY <1>1, <1>6, <2>1, <3>1 DEF Resting, LooksLike, SameLook
    <3> QED BY <3>2, <3>3 DEF Resting
  <2>2. CASE told' = Overlay(told, list) /\ seen' = Overlay(seen, list) /\ untold' = untold \cup Raced(n)
    <3>1. untold' = untold
      BY <1>6, <2>2 DEF Raced
    <3>2. Agrees(files)'
      BY <1>1, <1>6, <2>2, <3>1, AddAgrees DEF Resting
    <3>3. LooksLike(seen, files)'
      BY <1>1, <1>6, <2>2, <3>1 DEF Resting, LooksLike, SameLook, Overlay
    <3> QED BY <3>2, <3>3 DEF Resting
  <2> QED BY <1>1, <2>1, <2>2
<1>7. MidRound => N \subseteq untold'
  BY <1>1 DEF Raced
<1> HIDE DEF N
<1> QED BY <1>1, <1>2, <1>5, <1>6, <1>7, CallStep

\* Remove.
LEMMA RemoveStep == ASSUME WatchInv, NEW n \in WatchNames, Remove(n) PROVE WatchInv'
<1> DEFINE N == {n} \cup Children(n)
<1>1. /\ ~closed /\ ~Locked
      /\ files' = doRemove(files, n) /\ told' = Without(told, N) /\ seen' = Without(seen, N)
      /\ untold' = untold \cup Raced(n)
      /\ UNCHANGED <<closePc, watch, currFileList, pending>>
  BY DEF Remove, pollVars
<1>2. /\ Whole(files)' /\ DOMAIN files' = DOMAIN files \ N
      /\ \A p \in DOMAIN files' : files'[p] = files[p]
  BY <1>1, RemoveFacts DEF WatchInv, Whole
<1>3. /\ DOMAIN seen' = DOMAIN seen \ N /\ \A p \in DOMAIN seen' : seen'[p] = seen[p]
      /\ DOMAIN told' = DOMAIN told \ N /\ \A p \in DOMAIN told' : told'[p] = told[p]
  BY <1>1 DEF Without, Restrict
<1>4. \A p : p \notin N => Kept(files, files', p) /\ Kept(told, told', p) /\ Kept(seen, seen', p)
  BY <1>2, <1>3 DEF Kept
<1>5. ASSUME Resting, ~MidRound PROVE Resting'
  <2>1. untold' = untold
    BY <1>1, <1>5 DEF Raced
  <2>2. Agrees(files)'
    BY <1>1, <1>5, <2>1, RemoveAgrees DEF Resting, WatchInv
  <2>3. LooksLike(seen, files)'
    BY <1>2, <1>3, <1>5, <2>1 DEF Resting, LooksLike, SameLook
  <2> QED BY <2>2, <2>3 DEF Resting
<1>6. (MidRound => N \subseteq untold') /\ untold \subseteq untold'
  BY <1>1 DEF Raced
<1> HIDE DEF N
<1> QED BY <1>1, <1>2, <1>4, <1>5, <1>6, CallStep

\* A tick, and the errors of the list.
LEMMA TickStep == ASSUME WatchInv, NEW g \in Loops, Tick(g) \/ SendError(g) PROVE WatchInv'
<1>1. PICK w \in {"list", "listed"} :
         /\ watch[g] \in {"idle", "error"} /\ watch' = [watch EXCEPT ![g] = w]
         /\ w = "listed" => seen' = currFileList'[g]
         /\ \/ currFileList' = [currFileList EXCEPT ![g] = NoFiles] \/ currFileList' = currFileList
         /\ UNCHANGED <<closePc, files, pending, told, untold>>
  <2>1. currFileList = [h \in Loops |-> currFileList[h]]
    BY DEF WatchInv
  <2>2. CASE Tick(g)
    BY <2>1, <2>2 DEF Tick, Listed, callerVars
  <2>3. CASE SendError(g)
    BY <2>1, <2>3 DEF SendError, Listed
  <2> QED BY <2>2, <2>3
<1>2. /\ currFileList' = [h \in Loops |-> currFileList'[h]]
      /\ \A h \in Loops : h # g => currFileList'[h] = currFileList[h]
      /\ currFileList'[g] \in {currFileList[g], NoFiles}
  BY <1>1 DEF WatchInv
<1>3. Whole(currFileList[g])' /\ Whole(files)'
  BY <1>1, <1>2 DEF WatchInv, Whole, NoFiles
<1>4. ASSUME ~closed, OneLoop PROVE RoundAt(g)'
  <2>1. Agrees(files)
    BY <1>1, <1>4 DEF WatchInv, RoundAt, Resting
  <2>2. Agrees(files)'
    BY <1>1, <2>1 DEF Agrees, Knows
  <2>3. watch'[g] = w
    BY <1>1 DEF WatchInv
  <2>4. w = "listed" => LooksLike(seen, currFileList[g])'
    BY <1>1 DEF LooksLike, SameLook
  <2> QED BY <1>1, <2>2, <2>3, <2>4 DEF RoundAt
<1>5. watch[g] \notin Out /\ w \in LoopStates \ Out /\ w # "left"
  BY <1>1 DEF Out, LoopStates
<1>6. pending' = [h \in Loops |-> pending'[h]]
  BY <1>1 DEF WatchInv
<1> QED BY <1>1, <1>2, <1>3, <1>4, <1>5, <1>6, LoopStep

\* A name is listed, or found to be gone.
LEMMA ListStep == ASSUME WatchInv, NEW g \in Loops, NEW n \in WatchNames, ListName(g, n) PROVE WatchInv'
<1>1. watch[g] = "list" /\ UNCHANGED <<closePc, pending, untold>>
  BY DEF ListName, callerVars
<1>2. currFileList = [h \in Loops |-> currFileList[h]] /\ pending' = [h \in Loops |-> pending'[h]]
  BY <1>1 DEF WatchInv
<1>3. ~closed /\ OneLoop => Agrees(files)
  BY <1>1 DEF WatchInv, RoundAt
<1>4. watch[g] \notin Out
  BY <1>1 DEF Out
<1>5. CASE n \in DOMAIN disk
  <2> SUFFICES ASSUME NEW list, list = Overlay(currFileList[g], listForName(n)) PROVE WatchInv'
    OBVIOUS
  <2>1. PICK w \in {"list", "listed"} :
          /\ watch' = [watch EXCEPT ![g] = w] /\ (w = "listed" => seen' = list)
          /\ currFileList' = [currFileList EXCEPT ![g] = list]
          /\ UNCHANGED <<files, told>>
    BY <1>5 DEF ListName, Listed
  <2>2. /\ currFileList' = [h \in Loops |-> currFileList'[h]] /\ currFileList'[g] = list
        /\ \A h \in Loops : h # g => currFileList'[h] = currFileList[h]
    BY <1>2, <2>1
  <2>3. Whole(list)
    BY <1>5, ListFacts DEF WatchInv
  <2>4. Whole(currFileList[g])' /\ Whole(files)'
    BY <2>1, <2>2, <2>3 DEF WatchInv, Whole
  <2>5. ASSUME ~closed, OneLoop PROVE RoundAt(g)'
    <3>1. Agrees(files)'
      BY <1>1, <1>3, <2>1, <2>5 DEF Agrees, Knows
    <3>2. watch'[g] = w
      BY <2>1 DEF WatchInv
    <3>3. w = "listed" => LooksLike(seen, currFileList[g])'
      BY <2>1, <2>2 DEF LooksLike, SameLook
    <3> QED BY <3>1, <3>2, <3>3 DEF RoundAt
  <2>6. w \in LoopStates \ Out /\ w # "left"
    BY DEF Out, LoopStates
  <2> QED BY <1>1, <1>2, <1>4, <2>1, <2>2, <2>4, <2>5, <2>6, LoopStep
<1>6. CASE n \notin DOMAIN disk
  <2>1. /\ files' = doRemove(files, n) /\ told' = Without(told, {n} \cup Children(n))
        /\ watch' = [watch EXCEPT ![g] = "error"] /\ UNCHANGED <<currFileList, seen>>
    BY <1>6 DEF ListName
  <2>2. Whole(doRemove(files, n))
    BY RemoveFacts DEF WatchInv
  <2>3. Whole(currFileList[g])' /\ Whole(files)'
    BY <2>1, <2>2 DEF WatchInv, Whole
  <2>4. ASSUME ~closed, OneLoop PROVE RoundAt(g)'
    <3>1. Agrees(files)'
      BY <1>1, <1>3, <2>1, <2>4, RemoveAgrees DEF WatchInv
    <3>2. watch'[g] = "error"
      BY <2>1 DEF WatchInv
    <3> QED BY <3>1, <3>2 DEF RoundAt
  <2>5. "error" \in LoopStates \ Out
    BY DEF Out, LoopStates
  <2> QED BY <1>1, <1>2, <1>4, <2>1, <2>3, <2>4, <2>5, LoopStep
<1> QED BY <1>5, <1>6

\* The events are found, and sent.
LEMMA EventStep == ASSUME WatchInv, NEW g \in Loops, PollEvents(g) \/ SendEvent(g) PROVE WatchInv'
<1> SUFFICES ASSUME NEW new, new = currFileList[g], NEW evs, evs = pending[g] PROVE WatchInv'
  OBVIOUS
<1>1. PICK left :
         /\ pending' = [pending EXCEPT ![g] = left]
         /\ watch' = [watch EXCEPT ![g] = IF pending'[g] = {} THEN "store" ELSE "events"]
         /\ UNCHANGED <<closePc, files, currFileList, seen, untold>>
         /\ \/ /\ watch[g] = "listed" /\ told' = told
               /\ \E from \in Origins(new) : left = Events(new, from)
            \/ /\ watch[g] = "events"
               /\ \E e \in evs : left = evs \ {e} /\ told' = Hear(e)
  <2>1. CASE PollEvents(g)
    <3>1. PICK from \in Origins(new) : pending' = [pending EXCEPT ![g] = Events(new, from)]
      BY <2>1 DEF PollEvents
    <3> QED BY <2>1, <3>1 DEF PollEvents, callerVars, history
  <2>2. CASE SendEvent(g)
    <3>1. PICK e \in evs : pending' = [pending EXCEPT ![g] = evs \ {e}] /\ told' = Hear(e)
      BY <2>2 DEF SendEvent
    <3> QED BY <2>2, <3>1 DEF SendEvent
  <2> QED BY <2>1, <2>2
<1>2. pending'[g] = left /\ pending' = [h \in Loops |-> pending'[h]]
  BY <1>1 DEF WatchInv
<1> DEFINE w == IF left = {} THEN "store" ELSE "events"
<1>3. /\ watch' = [watch EXCEPT ![g] = w] /\ watch'[g] = w
      /\ w \in LoopStates \ Out /\ w # "left" /\ watch[g] \notin Out
  BY <1>1, <1>2 DEF WatchInv, LoopStates, Out
<1>4. Whole(currFileList[g])' /\ Whole(files)' /\ currFileList' = [h \in Loops |-> currFileList'[h]]
  BY <1>1 DEF WatchInv, Whole
<1>5. ASSUME ~closed, OneLoop PROVE RoundAt(g)'
  <2>1. RoundAt(g)
    BY <1>5 DEF WatchInv
  <2>2. LooksLike(seen, new)
    BY <1>1, <2>1 DEF RoundAt
  <2>3. Telling(new, left)'
    <3>1. CASE /\ watch[g] = "listed" /\ told' = told
               /\ \E from \in Origins(new) : left = Events(new, from)
      <4>1. Agrees(files)
        BY <2>1, <3>1 DEF RoundAt
      <4>2. Telling(new, left)
        BY <3>1, <4>1, EventsCover
      <4> QED BY <1>1, <3>1, <4>2 DEF Telling, Knows, EventOK
    <3>2. CASE watch[g] = "events" /\ \E e \in evs : left = evs \ {e} /\ told' = Hear(e)
      <4>1. Telling(new, evs)
        BY <2>1, <3>2 DEF RoundAt
      <4> QED BY <1>1, <3>2, <4>1, EventTells
    <3> QED BY <1>1, <3>1, <3>2
  <2>4. left = {} => Agrees(new)'
    BY <2>3 DEF Telling, Agrees, Knows
  <2>5. currFileList'[g] = new /\ LooksLike(seen, currFileList[g])'
    BY <1>1, <2>2 DEF LooksLike, SameLook
  <2>6. CASE left = {}
    <3>1. w = "store"
      BY <2>6
    <3>2. Agrees(currFileList[g])'
      BY <2>4, <2>5, <2>6 DEF Agrees, Knows
    <3> QED BY <1>3, <2>5, <3>1, <3>2 DEF RoundAt
  <2>7. CASE left # {}
    <3>1. w = "events"
      BY <2>7
    <3>2. Telling(currFileList[g], pending[g])'
      BY <1>2, <2>3, <2>5 DEF Telling, Knows, EventOK
    <3> QED BY <1>3, <2>5, <3>1, <3>2 DEF RoundAt
  <2> QED BY <2>6, <2>7
<1> HIDE DEF w
<1> QED BY <1>1, <1>2, <1>3, <1>4, <1>5, LoopStep

\* The new list is stored.
LEMMA StoreStep == ASSUME WatchInv, NEW g \in Loops, StoreFiles(g) PROVE WatchInv'
<1>1. /\ watch[g] = "store" /\ watch' = [watch EXCEPT ![g] = "idle"]
      /\ files' = currFileList[g] /\ currFileList' = [currFileList EXCEPT ![g] = NoFiles]
      /\ UNCHANGED <<closePc, pending, told, seen, untold>>
  BY DEF StoreFiles, callerVars, history
<1>2. /\ currFileList' = [h \in Loops |-> currFileList'[h]] /\ currFileList'[g] = NoFiles
      /\ \A h \in Loops : h # g => currFileList'[h] = currFileList[h]
      /\ pending' = [h \in Loops |-> pending'[h]] /\ watch'[g] = "idle"
  BY <1>1 DEF WatchInv
<1>3. Whole(currFileList[g])' /\ Whole(files)'
  BY <1>1, <1>2 DEF WatchInv, Whole, NoFiles
<1>4. ASSUME ~closed, OneLoop PROVE RoundAt(g)'
  <2>1. Agrees(currFileList[g]) /\ LooksLike(seen, currFileList[g])
    BY <1>1, <1>4 DEF WatchInv, RoundAt
  <2>2. Resting'
    BY <1>1, <2>1 DEF Resting, Agrees, Knows, LooksLike, SameLook
  <2> QED BY <1>2, <2>2 DEF RoundAt
<1>5. watch[g] \notin Out /\ "idle" \in LoopStates \ Out
  BY <1>1 DEF Out, LoopStates
<1> QED BY <1>1, <1>2, <1>3, <1>4, <1>5, LoopStep

\* A round of the watcher, with the calls that fall into it, keeps the reader
\* told: the state of the loop says which list the reader agrees with.
LEMMA WatchStep ==
    ASSUME WatchInv, WatchNext
    PROVE  WatchInv'
<1>1. CASE Change \/ CloseWatcher
  <2>1. UNCHANGED <<closePc, watch, files, currFileList, pending, told, seen, untold>>
    BY <1>1 DEF Change, CloseWatcher, callerVars, pollVars, history
  <2> QED BY <2>1, OtherStep
<1>2. CASE CloseClosed \/ CloseWaits \/ CloseEnds
  <2>1. closed' /\ UNCHANGED <<watch, currFileList, pending>> /\ (files' = files \/ files' = NoFiles)
    BY <1>2 DEF CloseClosed, CloseWaits, CloseEnds, pollVars, closed
  <2>2. /\ watch' \in [Loops -> LoopStates] /\ currFileList' = [g \in Loops |-> currFileList'[g]]
        /\ pending' = [g \in Loops |-> pending'[g]]
    BY <2>1 DEF WatchInv
  <2> QED BY <2>1, <2>2, ClosedStep
<1>3. ASSUME NEW g \in Loops, ListStops(g) \/ EventsStop(g) \/ WatchLeaves(g) PROVE WatchInv'
  <2>1. /\ closed' /\ files' = files
        /\ \E w \in LoopStates : watch' = [watch EXCEPT ![g] = w]
        /\ currFileList' = currFileList \/ currFileList' = [currFileList EXCEPT ![g] = NoFiles]
        /\ pending' = pending \/ pending' = [pending EXCEPT ![g] = {}]
    BY <1>3 DEF ListStops, EventsStop, WatchLeaves, callerVars, closed, LoopStates
  <2>2. /\ watch' \in [Loops -> LoopStates] /\ currFileList' = [h \in Loops |-> currFileList'[h]]
        /\ pending' = [h \in Loops |-> pending'[h]]
        /\ \A h \in Loops : currFileList'[h] = currFileList[h] \/ currFileList'[h] = NoFiles
    BY <2>1 DEF WatchInv
  <2> QED BY <2>1, <2>2, ClosedStep
<1>4. ASSUME NEW g \in Loops,
             \/ StartWatcher(g) \/ StartLooks(g) \/ Launch(g) \/ Tick(g) \/ SendError(g)
             \/ PollEvents(g) \/ SendEvent(g) \/ StoreFiles(g) \/ \E n \in WatchNames : ListName(g, n)
      PROVE  WatchInv'
  BY <1>4, StartStep, TickStep, EventStep, StoreStep, ListStep
<1> QED BY <1>1, <1>2, <1>3, <1>4, AddStep, RemoveStep DEF WatchNext

\* A fresh watcher has told nothing and watches nothing.
LEMMA WatchInitially ==
    ASSUME NEW disks, WatchInit(disks)
    PROVE  WatchInv
<1>1. Resting /\ Whole(files) /\ \A g \in Loops : Whole(currFileList[g]) /\ RoundAt(g)
  BY DEF WatchInit, Resting, Agrees, LooksLike, Whole, RoundAt, NoFiles
<1> QED BY <1>1 DEF WatchInit, WatchInv, LoopStates

\* The other two parts leave the watcher alone.
LEMMA WatchInvariant == BackSpec => []WatchInv
<1>1. BackInit => WatchInv
  BY WatchInitially DEF BackInit
<1>2. WatchInv /\ [BackNext]_backVars => WatchInv'
  <2> SUFFICES ASSUME WatchInv, [BackNext]_backVars PROVE WatchInv'
    OBVIOUS
  <2>1. CASE UNCHANGED watchVars
    BY <2>1, OtherStep DEF watchVars, callerVars, pollVars, history
  <2> QED BY <2>1, WatchStep DEF BackNext, backVars
<1> QED BY <1>1, <1>2, PTL DEF BackSpec

\* Before a Close has begun, one Start at most got past the flag.
StartInv ==
    /\ closing \in Nat
    /\ ~closed /\ closing = 0 =>
          /\ running = 0 => \A g \in Loops : watch[g] = "off"
          /\ \A g, h \in Loops : g # h => watch[g] = "off" \/ watch[h] = "off"

\* A step of a loop that a Start got past the flag for, and of a Start.
LEMMA StartedStep ==
    ASSUME StartInv, WatchInv, NEW g \in Loops, NEW w, watch' = [watch EXCEPT ![g] = w],
           closePc' = closePc, closing' = closing,
           \/ watch[g] # "off" /\ (w = "off" => closed) /\ running' = running
           \/ running = 0 /\ running' = 1
    PROVE  StartInv'
<1>1. closed' <=> closed
  BY DEF closed
<1>2. watch'[g] = w /\ \A h \in Loops : h # g => watch'[h] = watch[h]
  BY DEF WatchInv
<1> QED BY <1>1, <1>2 DEF StartInv

LEMMA StartInvariant == BackSpec => []StartInv
<1>1. BackInit => StartInv
  BY DEF BackInit, WatchInit, StartInv
<1>2. WatchInv /\ StartInv /\ [BackNext]_backVars => StartInv'
  <2> SUFFICES ASSUME WatchInv, StartInv, [BackNext]_backVars PROVE StartInv'
    OBVIOUS
  <2>1. CASE UNCHANGED watchVars
    BY <2>1 DEF StartInv, watchVars, callerVars, pollVars, closed
  <2>2. CASE Change \/ \E n \in WatchNames : Add(n) \/ Remove(n)
    <3>1. UNCHANGED <<closing, closePc, running, watch>>
      BY <2>2 DEF Change, Add, Remove, callerVars, pollVars
    <3> QED BY <3>1 DEF StartInv, closed
  <2>3. CASE CloseWatcher
    BY <2>3 DEF CloseWatcher, StartInv
  <2>4. CASE CloseClosed \/ CloseWaits \/ CloseEnds
    <3>1. closed' /\ closing' \in Nat
      BY <2>4 DEF CloseClosed, CloseWaits, CloseEnds, StartInv, closed
    <3> QED BY <3>1 DEF StartInv
  <2>5. ASSUME NEW g \in Loops, StartWatcher(g) \/ StartLooks(g) \/ Launch(g) PROVE StartInv'
    <3>1. CASE StartWatcher(g)
      BY <3>1, StartedStep DEF StartWatcher
    <3>2. CASE StartLooks(g)
      <4> DEFINE w == IF closed THEN "off" ELSE "starting"
      <4>1. /\ watch' = [watch EXCEPT ![g] = w] /\ watch[g] # "off" /\ (w = "off" => closed)
            /\ UNCHANGED <<closing, closePc, running>>
        BY <3>2 DEF StartLooks, callerVars
      <4> HIDE DEF w
      <4> QED BY <4>1, StartedStep
    <3>3. CASE Launch(g)
      BY <3>3, StartedStep DEF Launch, callerVars
    <3> QED BY <2>5, <3>1, <3>2, <3>3
  <2>6. ASSUME NEW g \in Loops,
               \/ Tick(g) \/ SendError(g) \/ ListStops(g) \/ PollEvents(g) \/ SendEvent(g)
               \/ EventsStop(g) \/ StoreFiles(g) \/ WatchLeaves(g) \/ \E n \in WatchNames : ListName(g, n)
        PROVE  StartInv'
    <3>1. /\ watch[g] # "off" /\ UNCHANGED <<closing, closePc, running>>
          /\ \E w \in LoopStates \ Out : watch' = [watch EXCEPT ![g] = w]
      BY <2>6 DEF Tick, SendError, ListStops, PollEvents, SendEvent, EventsStop, StoreFiles, WatchLeaves,
                  ListName, Listed, callerVars, LoopStates, Out
    <3>2. PICK w \in LoopStates \ Out : watch' = [watch EXCEPT ![g] = w]
      BY <3>1
    <3> QED BY <3>1, <3>2, StartedStep DEF Out
  <2> QED BY <2>1, <2>2, <2>3, <2>4, <2>5, <2>6 DEF BackNext, backVars, WatchNext
<1> QED BY <1>1, <1>2, WatchInvariant, PTL DEF BackSpec

\* Between two rounds the reader of the watcher's channels knows which files the
\* disk had, and how each looked, when they were last listed or their name was
\* added: the events of pollEvents and the errors leave nothing out and tell
\* nothing untrue, whatever the files, the names, the changes and the order of
\* the calls, while one loop runs, as it does until a Close has begun.  A call
\* between a list and its store harms no file but those of its name, and an Add
\* of a name that is watched only those that had changed.
THEOREM ReaderIsTold == BackSpec => []EventsTell
<1>1. WatchInv /\ StartInv => EventsTell
  <2> SUFFICES ASSUME WatchInv, StartInv PROVE EventsTell
    OBVIOUS
  <2>1. ~closed /\ closing = 0 => OneLoop
    BY DEF StartInv, OneLoop, Out
  <2>2. ASSUME BetweenRounds, NEW p \in (DOMAIN told \cup DOMAIN seen) \ untold PROVE Informed(p)
    <3>1. Agrees(files) /\ LooksLike(seen, files)
      BY <2>2 DEF WatchInv, BetweenRounds, RoundAt, Resting
    <3>2. p \in DOMAIN told /\ p \in DOMAIN seen /\ (told[p] # Moved => SameLook(told[p], seen[p]))
      BY <2>2, <3>1 DEF Agrees, Knows, LooksLike, SameLook
    <3> QED BY <3>2 DEF Informed, Visible, SameLook
  <2> QED BY <2>1, <2>2 DEF EventsTell
<1> QED BY <1>1, WatchInvariant, StartInvariant, PTL

-----------------------------------------------------------------------------
(* The progress bar: the operations in the channel.                        *)

\* What StartTable tells of the chunks of a table, RegisterTable of its structure.
Base(t) == IF Known(t) THEN setup[t].chunks ELSE 0
Result(t) == IF setup[t].reg = "same" THEN {} ELSE {setup[t].reg}

Results == {"none", "same", "continue", "done", "lack", "pass", "different"}

\* The operations of a table.  That of the limit splitter's last chunk is the
\* last of Updates.
Regs(t) == [op : {"register"}, table : {t}, result : SUBSET Results]
Starts(t) == [op : {"start"}, table : {t}, total : Nat, stop : BOOLEAN]
Updates(t) == [op : {"update"}, table : {t}, total : {1}, stop : BOOLEAN]
Lasts(t) == {o \in Updates(t) : o.stop}
Stops(t) == [op : {"update"}, table : {t}, total : {0}, stop : {TRUE}]
Fails(t) == [op : {"fail"}, table : {t}]
Incs(t) == [op : {"inc"}, table : {t}]
Closes == [op : {"close"}]

TableOps(t) == Starts(t) \cup Updates(t) \cup Stops(t) \cup Fails(t) \cup Incs(t)
AllOps == (UNION {Regs(t) \cup TableOps(t) : t \in BarTables}) \cup Closes

Among(s, O) == \E n \in 1 .. Len(s) : s[n] \in O

\* How many of the first n operations in s are in O.
Num(s, O, n) == Cardinality({j \in 1 .. n : s[j] \in O})
One(x, O) == IF x \in O THEN 1 ELSE 0

\* The channel r after x is sent to q, and after an operation is served from it.
SentTo(q, x, r) == q \in Seq(AllOps) /\ x \in AllOps /\ r = Append(q, x)
ServedFrom(q, r) == q \in Seq(AllOps) /\ q # <<>> /\ r = Tail(q)

-----------------------------------------------------------------------------
(* The progress bar: how a table stands.                                   *)

\* Nobody has sent the start of the table.
Unstarted(t) == producer[t] = "start" \/ ~Started(t)

\* The start of the table is served.
Begun(t) == ~Unstarted(t) /\ ~Among(optCh, Starts(t))

\* The table is not finished.
Live(t) == ~Begun(t) \/ t \in tableMap
RegWaits(t) == t \in unregistered \/ Among(optCh, Regs(t))

\* The limit splitter has told of its last chunk.
LastSent(t) == producer[t] = "end" \/ (producer[t] = "publish" /\ produced[t] + 1 = setup[t].chunks)

\* The chunks compared and announced, as far as that is served.
Got(t) == IF Begun(t) THEN entry[t].progress ELSE 0
Tot(t) == IF Begun(t) THEN entry[t].total ELSE Base(t)

\* The chunks the producer has announced.
Announced(t) ==
    IF Known(t) THEN setup[t].chunks ELSE produced[t] + (IF producer[t] = "publish" THEN 1 ELSE 0)

EntryRecord == [phase : {"register", "prestart", "comparing", "finish"}, result : SUBSET Results,
                progress : Nat, total : Nat, stop : BOOLEAN]

BarType ==
    /\ setup \in BarSetups
    /\ unregistered \subseteq {t \in BarTables : Registered(t)}
    /\ producer \in [BarTables -> {"start", "update", "publish", "stop", "end"}]
    /\ produced \in [BarTables -> Nat]
    /\ comparing \in [BarTables -> [taken : Nat, failed : Nat, differs : BOOLEAN]]
    /\ optCh \in Seq(AllOps)
    /\ tableMap \subseteq BarTables /\ tableList \subseteq BarTables /\ tableFailList \subseteq BarTables
    /\ entry \in [BarTables -> EntryRecord \cup {NoTable}]
    /\ \A t \in tableMap \cup tableList : entry[t] \in EntryRecord
    /\ serving \in BOOLEAN

\* Tables are registered before one is started, and Close comes last.
QueueOK ==
    /\ \A m, n \in 1 .. Len(optCh) : m < n =>
          /\ optCh[m].op # "close"
          /\ optCh[n].op = "register" => optCh[m].op = "register"
    /\ unregistered # {} =>
          /\ \A n \in 1 .. Len(optCh) : optCh[n].op = "register"
          /\ \A t \in BarTables : Unstarted(t)
    /\ \A n \in 1 .. Len(optCh) :
          /\ optCh[n].op = "register" => \A t \in BarTables : ~Begun(t)
          /\ optCh[n].op = "close" => AllSent
    /\ ~serving => AllSent /\ optCh = <<>>

\* The operations of a table, and their order.
OpsOK(t) ==
    /\ \A n \in 1 .. Len(optCh) :
          /\ optCh[n] \in Regs(t) => optCh[n].result = Result(t) /\ Registered(t) /\ t \notin unregistered
          /\ optCh[n] \in Starts(t) => optCh[n].total = Base(t) /\ optCh[n].stop = Known(t)
          /\ optCh[n] \in Updates(t) => ~Known(t)
          /\ optCh[n] \in Stops(t) => setup[t].kind = "bucket"
          /\ Unstarted(t) => optCh[n] \notin TableOps(t)
    /\ \A m, n \in 1 .. Len(optCh) : m < n =>
          /\ optCh[n] \in Regs(t) => optCh[m] \notin Regs(t)
          /\ optCh[n] \in Starts(t) => optCh[m] \notin TableOps(t)
          /\ setup[t].kind = "limit" /\ optCh[m] \in Lasts(t) => optCh[n] \notin Updates(t)

\* A producer, and the workers that compare what it published.
SendersOK(t) ==
    /\ comparing[t].taken + comparing[t].failed <= produced[t]
    /\ Unstarted(t) => produced[t] = 0 /\ ~comparing[t].differs
    /\ producer[t] = "start" => Started(t)
    /\ producer[t] \in {"update", "publish"} => produced[t] < setup[t].chunks
    /\ producer[t] \in {"stop", "end"} => produced[t] = setup[t].chunks
    /\ producer[t] = "update" => ~Known(t)
    /\ producer[t] = "stop" => setup[t].kind = "bucket"

\* A table before its start is served.
WaitingOK(t) ==
    ~Begun(t) =>
        /\ t \notin tableFailList
        /\ t \in tableMap <=> t \in tableList
        /\ t \in tableMap <=> Registered(t) /\ ~RegWaits(t)
        /\ t \in tableMap =>
              /\ entry[t].phase = "register" /\ entry[t].progress = 0 /\ entry[t].total = 0
              /\ entry[t].result = Result(t)

\* What is served and what waits in the channel add up, and no chunk is counted
\* before it is announced, nor said to differ after it is counted.
CountsOK(t) ==
    Live(t) =>
        /\ Got(t) + Num(optCh, Incs(t), Len(optCh)) = comparing[t].taken
        /\ Tot(t) + Num(optCh, Updates(t), Len(optCh)) = Announced(t)
        /\ \A n \in 0 .. Len(optCh) : Got(t) + Num(optCh, Incs(t), n) <= Tot(t) + Num(optCh, Updates(t), n)
        /\ \A n \in 1 .. Len(optCh) :
              optCh[n] \in Fails(t) => Got(t) + Num(optCh, Incs(t), n) < setup[t].chunks

\* A table that is being compared, and one that is finished.
BegunOK(t) ==
    Begun(t) =>
        /\ t \in tableList => t \in tableMap /\ entry[t].phase = "comparing"
        /\ t \in tableMap /\ setup[t].reg # "lack" => t \in tableList
        /\ t \in tableMap /\ Known(t) => entry[t].stop /\ entry[t].progress < entry[t].total
        /\ t \in tableMap /\ setup[t].kind = "limit" /\ entry[t].stop =>
              /\ entry[t].progress < entry[t].total
              /\ ~Among(optCh, Updates(t))
        /\ t \notin tableMap /\ setup[t].reg = "same" /\ setup[t].kind # "bucket" =>
              /\ comparing[t].taken = setup[t].chunks
              /\ t \in tableFailList <=> comparing[t].differs

\* The last update of the limit splitter is sent once, and not lost.
LimitOK(t) ==
    setup[t].kind = "limit" =>
        /\ Among(optCh, Lasts(t)) => LastSent(t)
        /\ Begun(t) /\ t \in tableMap => (entry[t].stop => LastSent(t))
        /\ Live(t) /\ LastSent(t) /\ setup[t].chunks > 0 =>
              Among(optCh, Lasts(t)) \/ (Begun(t) /\ entry[t].stop)

\* A table fails just when a worker said so, as far as that is served.
FailsOK(t) ==
    setup[t].reg = "same" /\ Live(t) =>
        /\ t \notin tableFailList
        /\ comparing[t].differs <=> Among(optCh, Fails(t)) \/ (Begun(t) /\ entry[t].result # {})

TableInv(t) ==
    OpsOK(t) /\ SendersOK(t) /\ WaitingOK(t) /\ CountsOK(t) /\ BegunOK(t) /\ LimitOK(t) /\ FailsOK(t)

\* The chunks on the bar, and those of them that are compared.
TotalCells == UNION {{t} \X (1 .. entry[t].total) : t \in tableMap}
ProgressCells == UNION {{t} \X (1 .. entry[t].progress) : t \in tableMap}

CountersOK ==
    /\ progressTableNums = Cardinality({t \in tableList : Begun(t)})
    /\ finishTableNums = Finished + Cardinality({t \in BarTables : Begun(t) /\ t \notin tableList})
    /\ IsFiniteSet(ProgressCells) /\ progress = Cardinality(ProgressCells)
    /\ IsFiniteSet(TotalCells) /\ total = Cardinality(TotalCells)

BarInv == BarType /\ QueueOK /\ CountersOK /\ \A t \in BarTables : TableInv(t)

\* The kind of an operation and its table.
LEMMA OpFields ==
    ASSUME NEW t, NEW x
    PROVE  /\ x \in Regs(t) => x.op = "register" /\ x.table = t
           /\ x \in Starts(t) => x.op = "start" /\ x.table = t
           /\ x \in Updates(t) => x.op = "update" /\ x.table = t /\ x.total = 1
           /\ x \in Stops(t) => x.op = "update" /\ x.table = t /\ x.total = 0
           /\ x \in Fails(t) => x.op = "fail" /\ x.table = t
           /\ x \in Incs(t) => x.op = "inc" /\ x.table = t
           /\ x \in Closes => x.op = "close"
           /\ Lasts(t) \subseteq Updates(t)
  BY DEF Regs, Starts, Updates, Stops, Fails, Incs, Closes, Lasts

\* Every operation is one of those of a table, or Close.
LEMMA OpOfTable ==
    ASSUME NEW x \in AllOps
    PROVE  /\ x.op = "register" => x.table \in BarTables /\ x \in Regs(x.table)
           /\ x.op = "start" => x.table \in BarTables /\ x \in Starts(x.table)
           /\ x.op = "update" => x.table \in BarTables /\ x \in Updates(x.table) \cup Stops(x.table)
           /\ x.op = "fail" => x.table \in BarTables /\ x \in Fails(x.table)
           /\ x.op = "inc" => x.table \in BarTables /\ x \in Incs(x.table)
<1>1. CASE x \in Closes
  BY <1>1, OpFields
<1>2. CASE \E t \in BarTables : x \in Regs(t) \cup TableOps(t)
  <2>1. PICK t \in BarTables : x \in Regs(t) \cup TableOps(t)
    BY <1>2
  <2> QED BY <2>1, OpFields DEF TableOps
<1>3. x \in Closes \/ \E t \in BarTables : x \in Regs(t) \cup TableOps(t)
  BY DEF AllOps
<1> QED BY <1>1, <1>2, <1>3

\* An operation is of one kind, and of one table.
LEMMA OpsApart ==
    ASSUME NEW t, NEW x
    PROVE  /\ x \in Regs(t) => x \notin TableOps(t)
           /\ x \in Starts(t) => x \notin Updates(t) \cup Fails(t) \cup Incs(t) \cup Regs(t) \cup Stops(t)
           /\ x \in Updates(t) => x \notin Starts(t) \cup Fails(t) \cup Incs(t) \cup Regs(t) \cup Stops(t)
           /\ x \in Stops(t) => x \notin Starts(t) \cup Fails(t) \cup Incs(t) \cup Regs(t) \cup Updates(t)
           /\ x \in Fails(t) => x \notin Starts(t) \cup Updates(t) \cup Incs(t) \cup Regs(t) \cup Stops(t)
           /\ x \in Incs(t) => x \notin Starts(t) \cup Updates(t) \cup Fails(t) \cup Regs(t) \cup Stops(t)
           /\ x \in Closes => x \notin Regs(t) \cup TableOps(t)
           /\ \A u : u # t /\ x \in Regs(u) \cup TableOps(u) => x \notin Regs(t) \cup TableOps(t)
<1>1. ASSUME NEW u, u # t, x \in Regs(u) \cup TableOps(u) PROVE x \notin Regs(t) \cup TableOps(t)
  <2>1. x.table = u
    BY <1>1, OpFields DEF TableOps
  <2>2. x \in Regs(t) \cup TableOps(t) => x.table = t
    BY OpFields DEF TableOps
  <2> QED BY <1>1, <2>1, <2>2
<1>2. /\ x \in Regs(t) => x \notin TableOps(t)
      /\ x \in Closes => x \notin Regs(t) \cup TableOps(t)
  BY OpFields DEF TableOps
<1> QED BY <1>1, <1>2, OpFields

\* Num is a natural number, and 0 of none.
LEMMA NumType ==
    ASSUME NEW s, NEW O, NEW n \in Nat
    PROVE  /\ Num(s, O, n) \in Nat
           /\ IsFiniteSet({j \in 1 .. n : s[j] \in O})
           /\ (\A j \in 1 .. n : s[j] \notin O) => Num(s, O, n) = 0
<1>1. IsFiniteSet(1 .. n)
  BY FS_Interval
<1>2. IsFiniteSet({j \in 1 .. n : s[j] \in O})
  BY <1>1, FS_Subset
<1> QED BY <1>2, FS_CardinalityType, FS_EmptySet DEF Num

\* Num depends on the first n operations alone.
LEMMA NumSame ==
    ASSUME NEW s, NEW r, NEW O, NEW n \in Nat, \A j \in 1 .. n : s[j] = r[j]
    PROVE  Num(s, O, n) = Num(r, O, n)
<1>1. {j \in 1 .. n : s[j] \in O} = {j \in 1 .. n : r[j] \in O}
  OBVIOUS
<1> QED BY <1>1 DEF Num

\* One operation more.
LEMMA NumNext ==
    ASSUME NEW s, NEW O, NEW n \in Nat
    PROVE  Num(s, O, n + 1) = Num(s, O, n) + One(s[n + 1], O)
<1> DEFINE A == {j \in 1 .. n : s[j] \in O}
           B == {j \in 1 .. (n + 1) : s[j] \in O}
<1>1. IsFiniteSet(A) /\ n + 1 \notin A /\ Cardinality(A) \in Nat
  <2>1. n + 1 \notin A
    OBVIOUS
  <2>2. IsFiniteSet(A)
    BY NumType
  <2> HIDE DEF A
  <2> QED BY <2>1, <2>2, FS_CardinalityType
<1>2. \A j : j \in 1 .. (n + 1) <=> j \in 1 .. n \/ j = n + 1
  OBVIOUS
<1>3. B = IF s[n + 1] \in O THEN A \cup {n + 1} ELSE A
  BY <1>2
<1> HIDE DEF A, B
<1>4. Cardinality(A \cup {n + 1}) = Cardinality(A) + 1
  BY <1>1, FS_AddElement
<1>5. Num(s, O, n) = Cardinality(A) /\ Num(s, O, n + 1) = Cardinality(B)
  BY DEF Num, A, B
<1> QED BY <1>1, <1>3, <1>4, <1>5 DEF One

\* The first operation is taken away.
LEMMA NumTail ==
    ASSUME NEW s, NEW r, NEW O, NEW n \in Nat, \A j \in 1 .. n : r[j] = s[j + 1]
    PROVE  Num(s, O, n + 1) = Num(r, O, n) + One(s[1], O)
<1> DEFINE A == {j \in 1 .. n : r[j] \in O}
           B == {j \in 1 .. (n + 1) : s[j] \in O}
           C == B \ {1}
           f == [j \in A |-> j + 1]
<1>1. IsFiniteSet(A) /\ IsFiniteSet(B)
  <2>1. n + 1 \in Nat
    OBVIOUS
  <2> QED BY <2>1, NumType
<1>2. f \in [A -> C] /\ \A j \in A : f[j] = j + 1
  OBVIOUS
<1>3. \A j, k \in A : f[j] = f[k] => j = k
  OBVIOUS
<1>4. \A c \in C : \E j \in A : f[j] = c
  <2> TAKE c \in C
  <2>1. c - 1 \in 1 .. n /\ (c - 1) + 1 = c
    OBVIOUS
  <2>2. c - 1 \in A
    BY <2>1
  <2> QED BY <2>1, <2>2
<1> HIDE DEF A, B, f
<1>5. f \in Bijection(A, C)
  <2> HIDE DEF C
  <2> QED BY <1>2, <1>3, <1>4, Fun_IsBij
<1>6. Cardinality(A) = Cardinality(C) /\ IsFiniteSet(C) /\ Cardinality(C) \in Nat
  <2>1. ExistsBijection(A, C)
    BY <1>5 DEF ExistsBijection
  <2>2. IsFiniteSet(C)
    BY <1>1, FS_Subset
  <2> HIDE DEF C
  <2> QED BY <1>1, <2>1, <2>2, FS_Bijection, FS_CardinalityType
<1>7. s[1] \in O <=> 1 \in B
  BY DEF B
<1>8. CASE 1 \in B
  <2>1. B = C \cup {1} /\ 1 \notin C
    BY <1>8
  <2> HIDE DEF C
  <2>2. Cardinality(B) = Cardinality(C) + 1
    BY <1>6, <2>1, FS_AddElement
  <2>3. Num(s, O, n + 1) = Cardinality(B) /\ Num(r, O, n) = Cardinality(A)
    BY DEF Num, A, B
  <2> QED BY <1>6, <1>7, <1>8, <2>2, <2>3 DEF One
<1>9. CASE 1 \notin B
  <2>1. B = C
    BY <1>9
  <2>2. Num(s, O, n + 1) = Cardinality(B) /\ Num(r, O, n) = Cardinality(A)
    BY DEF Num, A, B
  <2> HIDE DEF C
  <2> QED BY <1>6, <1>7, <1>9, <2>1, <2>2 DEF One
<1> QED BY <1>8, <1>9

\* What Append does to the channel.
LEMMA Sent ==
    ASSUME NEW q, NEW x, NEW r, SentTo(q, x, r)
    PROVE  /\ r \in Seq(AllOps) /\ Len(q) \in Nat /\ Len(r) = Len(q) + 1
           /\ \A n \in 1 .. Len(q) : r[n] = q[n]
           /\ r[Len(q) + 1] = x
           /\ \A n : n \in 1 .. Len(r) <=> n \in 1 .. Len(q) \/ n = Len(q) + 1
  BY DEF SentTo

\* What Tail does to the channel.
LEMMA Served ==
    ASSUME NEW q, NEW r, ServedFrom(q, r)
    PROVE  /\ r \in Seq(AllOps) /\ Len(r) \in Nat /\ Len(q) = Len(r) + 1
           /\ \A n \in 1 .. Len(r) : r[n] = q[n + 1] /\ n + 1 \in 1 .. Len(q)
           /\ Head(q) = q[1] /\ 1 \in 1 .. Len(q) /\ q[1] \in AllOps
           /\ \A n \in 1 .. Len(q) : n = 1 \/ n - 1 \in 1 .. Len(r)
  BY DEF ServedFrom

\* Which operations are in the channel after a send.
LEMMA AmongSent ==
    ASSUME NEW q, NEW x, NEW r, SentTo(q, x, r), NEW O
    PROVE  Among(r, O) <=> Among(q, O) \/ x \in O
  BY Sent DEF Among

\* Which operations are in the channel before one is served.
LEMMA AmongServed ==
    ASSUME NEW q, NEW r, ServedFrom(q, r), NEW O
    PROVE  Among(q, O) <=> Among(r, O) \/ q[1] \in O
<1>1. ASSUME Among(q, O), q[1] \notin O PROVE Among(r, O)
  <2>1. PICK n \in 1 .. Len(q) : q[n] \in O
    BY <1>1 DEF Among
  <2>2. n - 1 \in 1 .. Len(r) /\ (n - 1) + 1 = n
    BY <1>1, <2>1, Served
  <2>3. r[n - 1] = q[n]
    BY <2>2, Served
  <2> QED BY <2>1, <2>2, <2>3 DEF Among
<1>2. Among(r, O) => Among(q, O)
  BY Served DEF Among
<1>3. q[1] \in O => Among(q, O)
  BY Served DEF Among
<1> QED BY <1>1, <1>2, <1>3

\* Num before and after a send.
LEMMA NumSent ==
    ASSUME NEW q, NEW x, NEW r, SentTo(q, x, r), NEW O
    PROVE  /\ \A n \in 0 .. Len(q) : Num(r, O, n) = Num(q, O, n) /\ Num(q, O, n) \in Nat
           /\ Num(r, O, Len(q) + 1) = Num(q, O, Len(q)) + One(x, O)
<1>1. ASSUME NEW n \in 0 .. Len(q) PROVE Num(r, O, n) = Num(q, O, n) /\ Num(q, O, n) \in Nat
  <2>1. n \in Nat /\ \A j \in 1 .. n : r[j] = q[j]
    BY Sent
  <2>2. Num(r, O, n) = Num(q, O, n)
    BY <2>1, NumSame, Zenon
  <2>3. Num(q, O, n) \in Nat
    BY <2>1, NumType, Zenon
  <2> QED BY <2>2, <2>3
<1>2. Len(q) \in Nat /\ r[Len(q) + 1] = x
  BY Sent
<1>3. Num(r, O, Len(q) + 1) = Num(r, O, Len(q)) + One(x, O)
  <2>1. Num(r, O, Len(q) + 1) = Num(r, O, Len(q)) + One(r[Len(q) + 1], O)
    BY <1>2, NumNext, Zenon
  <2> QED BY <1>2, <2>1, Zenon
<1>4. Num(r, O, Len(q)) = Num(q, O, Len(q))
  BY <1>1, <1>2
<1> QED BY <1>1, <1>3, <1>4

\* Num before and after an operation is served.
LEMMA NumServed ==
    ASSUME NEW q, NEW r, ServedFrom(q, r), NEW O
    PROVE  /\ \A n \in 0 .. Len(r) : Num(q, O, n + 1) = Num(r, O, n) + One(q[1], O)
           /\ \A n \in 0 .. Len(r) : Num(r, O, n) \in Nat
           /\ Len(q) = Len(r) + 1
<1>1. ASSUME NEW n \in 0 .. Len(r)
      PROVE  /\ Num(q, O, n + 1) = Num(r, O, n) + One(q[1], O)
             /\ Num(r, O, n) \in Nat
  <2>1. n \in Nat /\ \A j \in 1 .. n : r[j] = q[j + 1]
    BY Served
  <2>2. Num(q, O, n + 1) = Num(r, O, n) + One(q[1], O)
    BY <2>1, NumTail, Zenon
  <2>3. Num(r, O, n) \in Nat
    BY <2>1, NumType, Zenon
  <2> QED BY <2>2, <2>3
<1> QED BY <1>1, Served

-----------------------------------------------------------------------------
(* The progress bar: a send.                                               *)

\* What is known of a table.
LEMMA SetupFacts ==
    ASSUME BarType, NEW t \in BarTables
    PROVE  /\ setup[t].kind \in {"random", "bucket", "limit", "skip", "lack"}
           /\ setup[t].reg \in {"none", "same", "continue", "done", "lack"}
           /\ setup[t].chunks \in Nat
           /\ setup[t].kind = "skip" <=> setup[t].reg = "done"
           /\ setup[t].reg = "lack" => setup[t].kind = "lack"
           /\ setup[t].kind \in {"skip", "lack"} => setup[t].chunks <= 1
<1>1. setup \in BarSetups
  BY DEF BarType
<1>2. setup[t] \in [reg : {"none", "same", "continue", "done", "lack"},
                    kind : {"random", "bucket", "limit", "skip", "lack"}, chunks : Nat]
  BY <1>1, ProgressAssumption
<1>3. /\ setup[t].kind = "skip" <=> setup[t].reg = "done"
      /\ setup[t].reg = "lack" => setup[t].kind = "lack"
      /\ setup[t].kind \in {"skip", "lack"} => setup[t].chunks <= 1
  BY <1>1, ProgressAssumption
<1> QED BY <1>2, <1>3

\* What is known of the producer of a table and of the workers.
LEMMA SenderFacts ==
    ASSUME BarType, NEW t \in BarTables, SendersOK(t)
    PROVE  /\ produced[t] \in Nat /\ comparing[t].taken \in Nat /\ comparing[t].failed \in Nat
           /\ comparing[t].differs \in BOOLEAN
           /\ producer[t] \in {"start", "update", "publish", "stop", "end"}
           /\ Announced(t) \in Nat /\ Base(t) \in Nat
           /\ produced[t] <= Announced(t) /\ Announced(t) <= setup[t].chunks
           /\ producer[t] # "start" /\ ~Started(t) => producer[t] = "end"
<1>1. /\ produced[t] \in Nat /\ comparing[t].taken \in Nat /\ comparing[t].failed \in Nat
      /\ comparing[t].differs \in BOOLEAN
      /\ producer[t] \in {"start", "update", "publish", "stop", "end"}
  BY DEF BarType
<1>2. setup[t].chunks \in Nat /\ Base(t) \in Nat
  BY SetupFacts DEF Base
<1>3. producer[t] = "start" => produced[t] = 0
  BY DEF SendersOK, Unstarted
<1>4. produced[t] <= setup[t].chunks /\ (producer[t] = "publish" => produced[t] < setup[t].chunks)
  BY <1>1, <1>2, <1>3 DEF SendersOK
<1>5. Announced(t) \in Nat /\ produced[t] <= Announced(t) /\ Announced(t) <= setup[t].chunks
  BY <1>1, <1>2, <1>4 DEF Announced
<1>6. producer[t] # "start" /\ ~Started(t) => producer[t] = "end"
  BY <1>1, <1>2 DEF SendersOK, Started, Known
<1> QED BY <1>1, <1>2, <1>5, <1>6

\* A send of something else than an update, a failure or an Inc of the table
\* keeps what is counted of it.
LEMMA CountsKept ==
    ASSUME BarType, NEW t \in BarTables, SendersOK(t), CountsOK(t), BegunOK(t), LimitOK(t), FailsOK(t),
           \/ optCh' = optCh
           \/ \E x : x \notin Updates(t) \cup Fails(t) \cup Incs(t) /\ SentTo(optCh, x, optCh'),
           UNCHANGED <<setup, entries>>, Begun(t)' <=> Begun(t), Announced(t)' = Announced(t),
           comparing'[t] = comparing[t],
           setup[t].kind = "limit" => /\ LastSent(t) => LastSent(t)'
                                      /\ LastSent(t)' /\ setup[t].chunks > 0 => LastSent(t)
    PROVE  CountsOK(t)' /\ BegunOK(t)' /\ LimitOK(t)' /\ FailsOK(t)'
<1>1. UNCHANGED <<setup, entry, tableMap, tableList, tableFailList>>
  BY DEF entries
<1>2. /\ Live(t)' <=> Live(t)
      /\ Got(t)' = Got(t) /\ Tot(t)' = Tot(t)
  BY <1>1 DEF Live, Got, Tot, Base, Known
<1>3. ASSUME NEW O, O \subseteq Updates(t) \cup Fails(t) \cup Incs(t)
      PROVE  Among(optCh', O) <=> Among(optCh, O)
  BY <1>3, AmongSent DEF BarType
<1>4. /\ Among(optCh', Updates(t)) <=> Among(optCh, Updates(t))
      /\ Among(optCh', Fails(t)) <=> Among(optCh, Fails(t))
      /\ Among(optCh', Lasts(t)) <=> Among(optCh, Lasts(t))
  BY <1>3, OpFields
<1>5. CountsOK(t)'
  <2>1. CASE optCh' = optCh
    BY <1>1, <1>2, <2>1 DEF CountsOK
  <2>2. CASE optCh' # optCh
    <3>1. PICK x : x \notin Updates(t) \cup Fails(t) \cup Incs(t) /\ SentTo(optCh, x, optCh')
      BY <2>2
    <3> DEFINE L == Len(optCh)
    <3>2. /\ optCh \in Seq(AllOps) /\ L \in Nat /\ Len(optCh') = L + 1
          /\ \A n \in 1 .. L : optCh'[n] = optCh[n]
          /\ optCh'[L + 1] = x
      BY <3>1, Sent DEF BarType
    <3>3. ASSUME NEW O, x \notin O
          PROVE  /\ \A n \in 0 .. L : Num(optCh', O, n) = Num(optCh, O, n)
                 /\ Num(optCh', O, L + 1) = Num(optCh, O, L)
      <4>1. /\ \A n \in 0 .. L : Num(optCh', O, n) = Num(optCh, O, n) /\ Num(optCh, O, n) \in Nat
            /\ Num(optCh', O, L + 1) = Num(optCh, O, L) + One(x, O)
        <5>1. SentTo(optCh, x, optCh')
          BY <3>1, <3>2
        <5>2. \A n \in 0 .. Len(optCh) : Num(optCh', O, n) = Num(optCh, O, n) /\ Num(optCh, O, n) \in Nat
          BY <5>1, NumSent
        <5>3. Num(optCh', O, Len(optCh) + 1) = Num(optCh, O, Len(optCh)) + One(x, O)
          BY <5>1, NumSent
        <5> QED BY <5>2, <5>3
      <4>2. L \in 0 .. L
        BY <3>2
      <4> HIDE DEF L
      <4> QED BY <3>3, <4>1, <4>2 DEF One
    <3>4. SUFFICES ASSUME Live(t)
          PROVE  /\ Got(t) + Num(optCh', Incs(t), L + 1) = comparing[t].taken
                 /\ Tot(t) + Num(optCh', Updates(t), L + 1) = Announced(t)
                 /\ \A n \in 0 .. (L + 1) :
                       Got(t) + Num(optCh', Incs(t), n) <= Tot(t) + Num(optCh', Updates(t), n)
                 /\ \A n \in 1 .. (L + 1) :
                       optCh'[n] \in Fails(t) => Got(t) + Num(optCh', Incs(t), n) < setup[t].chunks
      BY <1>1, <1>2, <3>2 DEF CountsOK
    <3>5. /\ Got(t) + Num(optCh, Incs(t), L) = comparing[t].taken
          /\ Tot(t) + Num(optCh, Updates(t), L) = Announced(t)
          /\ \A n \in 0 .. L : Got(t) + Num(optCh, Incs(t), n) <= Tot(t) + Num(optCh, Updates(t), n)
          /\ \A n \in 1 .. L : optCh[n] \in Fails(t) => Got(t) + Num(optCh, Incs(t), n) < setup[t].chunks
      BY <3>4 DEF CountsOK
    <3> HIDE DEF L
    <3>6. \A n \in 0 .. (L + 1) : n \in 0 .. L \/ n = L + 1
      BY <3>2
    <3>7. \A n \in 1 .. (L + 1) : (n \in 1 .. L /\ n \in 0 .. L) \/ n = L + 1
      BY <3>2
    <3>8. L \in 0 .. L
      BY <3>2
    <3>9. \A n \in 0 .. (L + 1) : Got(t) + Num(optCh', Incs(t), n) <= Tot(t) + Num(optCh', Updates(t), n)
      BY <3>1, <3>3, <3>5, <3>6, <3>8
    <3>10. \A n \in 1 .. (L + 1) :
              optCh'[n] \in Fails(t) => Got(t) + Num(optCh', Incs(t), n) < setup[t].chunks
      BY <3>1, <3>2, <3>3, <3>5, <3>7
    <3> QED BY <3>1, <3>3, <3>5, <3>9, <3>10
  <2> QED BY <2>1, <2>2
<1>6. BegunOK(t)'
  BY <1>1, <1>4 DEF BegunOK, Known
<1>7. LimitOK(t)'
  BY <1>1, <1>2, <1>4 DEF LimitOK
<1>8. FailsOK(t)'
  BY <1>1, <1>2, <1>4 DEF FailsOK
<1> QED BY <1>5, <1>6, <1>7, <1>8

\* The operations of a table after a send.
LEMMA OpsSent ==
    ASSUME BarType, NEW t \in BarTables, OpsOK(t), NEW x, SentTo(optCh, x, optCh'), setup' = setup,
           t \in unregistered' => t \in unregistered,
           Unstarted(t)' => Unstarted(t) /\ x \notin TableOps(t),
           x \in Regs(t) => /\ x.result = Result(t) /\ Registered(t) /\ t \notin unregistered'
                            /\ ~Among(optCh, Regs(t)),
           x \in Starts(t) => x.total = Base(t) /\ x.stop = Known(t) /\ Unstarted(t),
           x \in Updates(t) => ~Known(t) /\ (setup[t].kind = "limit" => ~Among(optCh, Lasts(t))),
           x \in Stops(t) => setup[t].kind = "bucket"
    PROVE  OpsOK(t)'
<1> DEFINE L == Len(optCh)
<1>1. /\ L \in Nat /\ Len(optCh') = L + 1
      /\ \A n \in 1 .. L : optCh'[n] = optCh[n]
      /\ optCh'[L + 1] = x
      /\ \A n : n \in 1 .. Len(optCh') <=> n \in 1 .. L \/ n = L + 1
  BY Sent
<1>2. /\ Result(t)' = Result(t) /\ Base(t)' = Base(t) /\ Known(t)' = Known(t)
      /\ Registered(t)' = Registered(t)
  BY DEF Result, Base, Known, Registered
<1>3. ASSUME NEW n \in 1 .. L
      PROVE  /\ optCh[n] \in Regs(t) => optCh[n].result = Result(t) /\ Registered(t) /\ t \notin unregistered'
             /\ optCh[n] \in Starts(t) => optCh[n].total = Base(t) /\ optCh[n].stop = Known(t)
             /\ optCh[n] \in Updates(t) => ~Known(t)
             /\ optCh[n] \in Stops(t) => setup[t].kind = "bucket"
             /\ Unstarted(t)' => optCh[n] \notin TableOps(t)
  BY DEF OpsOK
<1>4. /\ x \in Regs(t) => x.result = Result(t) /\ Registered(t) /\ t \notin unregistered'
      /\ x \in Starts(t) => x.total = Base(t) /\ x.stop = Known(t)
      /\ x \in Updates(t) => ~Known(t)
      /\ x \in Stops(t) => setup[t].kind = "bucket"
      /\ Unstarted(t)' => x \notin TableOps(t)
  OBVIOUS
<1>5. ASSUME NEW m \in 1 .. Len(optCh'), NEW n \in 1 .. Len(optCh'), m < n
      PROVE  /\ optCh'[n] \in Regs(t) => optCh'[m] \notin Regs(t)
             /\ optCh'[n] \in Starts(t) => optCh'[m] \notin TableOps(t)
             /\ setup[t].kind = "limit" /\ optCh'[m] \in Lasts(t) => optCh'[n] \notin Updates(t)
  <2> HIDE DEF L
  <2>1. m \in 1 .. L
    BY <1>1, <1>5
  <2>2. CASE n \in 1 .. L
    BY <1>1, <1>5, <2>1, <2>2 DEF OpsOK, L
  <2>3. CASE n = L + 1
    <3>1. optCh'[n] = x /\ optCh'[m] = optCh[m]
      BY <1>1, <2>1, <2>3
    <3>2. x \in Regs(t) => optCh[m] \notin Regs(t)
      BY <2>1 DEF Among, L
    <3>3. x \in Starts(t) => optCh[m] \notin TableOps(t)
      BY <2>1 DEF OpsOK, L
    <3>4. setup[t].kind = "limit" /\ optCh[m] \in Lasts(t) => x \notin Updates(t)
      BY <2>1 DEF Among, L
    <3> QED BY <3>1, <3>2, <3>3, <3>4
  <2> QED BY <1>1, <2>2, <2>3
<1> HIDE DEF L
<1>6. \A n \in 1 .. Len(optCh') :
          /\ optCh'[n] \in Regs(t) => optCh'[n].result = Result(t) /\ Registered(t) /\ t \notin unregistered'
          /\ optCh'[n] \in Starts(t) => optCh'[n].total = Base(t) /\ optCh'[n].stop = Known(t)
          /\ optCh'[n] \in Updates(t) => ~Known(t)
          /\ optCh'[n] \in Stops(t) => setup[t].kind = "bucket"
          /\ Unstarted(t)' => optCh'[n] \notin TableOps(t)
  <2> TAKE n \in 1 .. Len(optCh')
  <2>1. CASE n \in 1 .. L
    BY <1>1, <1>3, <2>1
  <2>2. CASE n = L + 1
    BY <1>1, <1>4, <2>2
  <2> QED BY <1>1, <2>1, <2>2
<1> QED BY <1>2, <1>5, <1>6 DEF OpsOK

\* The order of the channel after a send, which comes before Close.
LEMMA QueueSent ==
    ASSUME BarType, QueueOK, NEW x, SentTo(optCh, x, optCh'), serving, serving' = serving,
           unregistered' \subseteq unregistered,
           \A n \in 1 .. Len(optCh) : optCh[n].op # "close",
           \A u \in BarTables : Begun(u)' => Begun(u),
           unregistered' # {} => x.op = "register" /\ \A u \in BarTables : Unstarted(u)',
           x.op = "register" => unregistered # {},
           x.op = "close" => AllSent'
    PROVE  QueueOK'
<1> DEFINE L == Len(optCh)
<1>1. /\ L \in Nat /\ Len(optCh') = L + 1
      /\ \A n \in 1 .. L : optCh'[n] = optCh[n]
      /\ optCh'[L + 1] = x
      /\ \A n : n \in 1 .. Len(optCh') <=> n \in 1 .. L \/ n = L + 1
  BY Sent
<1>2. x.op = "register" =>
          /\ \A n \in 1 .. L : optCh[n].op = "register"
          /\ \A u \in BarTables : ~Begun(u)
  BY DEF QueueOK, Begun
<1>3. ASSUME NEW m \in 1 .. Len(optCh'), NEW n \in 1 .. Len(optCh'), m < n
      PROVE  /\ optCh'[m].op # "close"
             /\ optCh'[n].op = "register" => optCh'[m].op = "register"
  <2> HIDE DEF L
  <2>1. m \in 1 .. L
    BY <1>1, <1>3
  <2>2. CASE n \in 1 .. L
    BY <1>1, <1>3, <2>1, <2>2 DEF QueueOK, L
  <2>3. CASE n = L + 1
    BY <1>1, <1>2, <2>1, <2>3 DEF L
  <2> QED BY <1>1, <2>2, <2>3
<1>4. unregistered' # {} =>
          /\ \A n \in 1 .. Len(optCh') : optCh'[n].op = "register"
          /\ \A u \in BarTables : Unstarted(u)'
  <2> SUFFICES ASSUME unregistered' # {} PROVE \A n \in 1 .. Len(optCh') : optCh'[n].op = "register"
    OBVIOUS
  <2> QED BY <1>1, <1>2
<1>5. \A n \in 1 .. Len(optCh') :
          /\ optCh'[n].op = "register" => \A u \in BarTables : ~Begun(u)'
          /\ optCh'[n].op = "close" => AllSent'
  <2> TAKE n \in 1 .. Len(optCh')
  <2>1. CASE n \in 1 .. L
    BY <1>1, <2>1 DEF QueueOK
  <2>2. CASE n = L + 1
    BY <1>1, <1>2, <2>2
  <2> QED BY <1>1, <2>1, <2>2
<1> HIDE DEF L
<1> QED BY <1>3, <1>4, <1>5 DEF QueueOK

\* Who sends does so before Close.
LEMMA SendersFirst ==
    ASSUME QueueOK, ~AllSent
    PROVE  serving /\ \A n \in 1 .. Len(optCh) : optCh[n].op # "close"
  BY DEF QueueOK

\* A table stands as it did when what is sent is not about it.
LEMMA OtherSent ==
    ASSUME BarType, NEW t \in BarTables, TableInv(t), NEW x, SentTo(optCh, x, optCh'),
           x \notin Regs(t) \cup TableOps(t), UNCHANGED <<setup, entries>>,
           producer'[t] = producer[t], produced'[t] = produced[t], comparing'[t] = comparing[t],
           t \in unregistered' <=> t \in unregistered
    PROVE  TableInv(t)' /\ (Begun(t)' <=> Begun(t)) /\ (Unstarted(t)' <=> Unstarted(t))
<1>1. UNCHANGED <<setup, entry, tableMap, tableList, tableFailList>>
  BY DEF entries
<1>2. /\ Among(optCh', Starts(t)) <=> Among(optCh, Starts(t))
      /\ Among(optCh', Regs(t)) <=> Among(optCh, Regs(t))
  BY AmongSent DEF TableOps
<1>3. /\ Unstarted(t)' <=> Unstarted(t)
      /\ Announced(t)' = Announced(t) /\ (LastSent(t)' <=> LastSent(t))
      /\ Known(t)' = Known(t) /\ Started(t)' = Started(t)
      /\ Result(t)' = Result(t) /\ Registered(t)' = Registered(t)
  BY <1>1 DEF Unstarted, Started, Announced, Known, LastSent, Result, Registered
<1>4. Begun(t)' <=> Begun(t)
  BY <1>2, <1>3 DEF Begun
<1>5. CountsOK(t)' /\ BegunOK(t)' /\ LimitOK(t)' /\ FailsOK(t)'
  BY <1>3, <1>4, CountsKept DEF TableInv, TableOps
<1>6. OpsOK(t)'
  BY <1>1, <1>3, OpsSent DEF TableInv, TableOps
<1>7. SendersOK(t)'
  BY <1>1, <1>3 DEF SendersOK, TableInv
<1>8. WaitingOK(t)'
  BY <1>1, <1>2, <1>3, <1>4 DEF WaitingOK, TableInv, RegWaits
<1> QED BY <1>3, <1>4, <1>5, <1>6, <1>7, <1>8 DEF TableInv

\* The counters stay when the server does nothing.
LEMMA CountersKept ==
    ASSUME BarType, CountersOK, UNCHANGED <<entries, counters>>,
           \A t \in BarTables : Begun(t)' <=> Begun(t)
    PROVE  CountersOK'
<1>1. UNCHANGED <<entry, tableMap, tableList, progressTableNums, finishTableNums, progress, total>>
  BY DEF entries, counters
<1>2. {t \in tableList : Begun(t)}' = {t \in tableList : Begun(t)}
  BY <1>1 DEF BarType
<1>3. {t \in BarTables : Begun(t) /\ t \notin tableList}' = {t \in BarTables : Begun(t) /\ t \notin tableList}
  BY <1>1
<1>4. ProgressCells' = ProgressCells /\ TotalCells' = TotalCells
  BY <1>1 DEF ProgressCells, TotalCells
<1> QED BY <1>1, <1>2, <1>3, <1>4 DEF CountersOK

\* An operation of a table is one of all.
LEMMA OpInAll == ASSUME NEW t \in BarTables, NEW x \in Regs(t) \cup TableOps(t) PROVE x \in AllOps
  BY DEF AllOps

\* A table sends, and the others stand as they did.
LEMMA SendStep ==
    ASSUME BarInv, NEW t \in BarTables, NEW x \in Regs(t) \cup TableOps(t), SentTo(optCh, x, optCh'),
           ~AllSent, UNCHANGED <<setup, entries, counters, serving>>, BarType',
           unregistered' \subseteq unregistered,
           \A u \in BarTables \ {t} : /\ producer'[u] = producer[u] /\ produced'[u] = produced[u]
                                      /\ comparing'[u] = comparing[u]
                                      /\ u \in unregistered' <=> u \in unregistered,
           unregistered' # {} => x \in Regs(t) /\ (Unstarted(t)' <=> Unstarted(t)),
           x \in Regs(t) => t \in unregistered,
           TableInv(t)', Begun(t)' <=> Begun(t)
    PROVE  BarInv'
<1>1. BarType /\ QueueOK /\ CountersOK /\ \A u \in BarTables : TableInv(u)
  BY DEF BarInv
<1>2. ASSUME NEW u \in BarTables \ {t}
      PROVE  TableInv(u)' /\ (Begun(u)' <=> Begun(u)) /\ (Unstarted(u)' <=> Unstarted(u))
  <2>1. x \notin Regs(u) \cup TableOps(u)
    BY OpsApart
  <2> QED BY <1>1, <2>1, OtherSent
<1>3. \A u \in BarTables : TableInv(u)' /\ (Begun(u)' <=> Begun(u))
  BY <1>2
<1>4. CountersOK'
  BY <1>1, <1>3, CountersKept
<1>5. /\ x.op # "close"
      /\ x.op = "register" <=> x \in Regs(t)
  BY OpFields DEF TableOps
<1>6. QueueOK'
  <2>1. serving /\ \A n \in 1 .. Len(optCh) : optCh[n].op # "close"
    BY <1>1, SendersFirst
  <2>2. unregistered' # {} => \A u \in BarTables : Unstarted(u)'
    <3>1. unregistered' # {} => unregistered # {}
      OBVIOUS
    <3>2. unregistered' # {} => \A u \in BarTables : Unstarted(u)
      BY <1>1, <3>1 DEF QueueOK
    <3> QED BY <1>2, <3>2
  <2>3. /\ x.op = "register" => unregistered # {}
        /\ unregistered' # {} => x.op = "register"
    BY <1>5
  <2>4. \A u \in BarTables : Begun(u)' => Begun(u)
    BY <1>3
  <2> QED BY <1>1, <1>5, <2>1, <2>2, <2>3, <2>4, QueueSent
<1> QED BY <1>3, <1>4, <1>6 DEF BarInv

\* A table whose chunks are not all known or compared has still to send.
LEMMA NotAllSent ==
    ASSUME NEW t \in BarTables,
           t \in unregistered \/ producer[t] # "end" \/ comparing[t].taken # produced[t]
    PROVE  ~AllSent
  BY DEF AllSent

\* RegisterTable.
LEMMA RegisterTableStep == ASSUME BarInv, NEW t \in BarTables, RegisterTable(t) PROVE BarInv'
<1> DEFINE x == [op |-> "register", table |-> t,
                 result |-> IF setup[t].reg = "same" THEN {} ELSE {setup[t].reg}]
<1>1. BarType /\ TableInv(t) /\ QueueOK
  BY DEF BarInv
<1>2. x \in Regs(t) /\ x.result = Result(t)
  BY <1>1, SetupFacts DEF Regs, Results, Result
<1>3. /\ t \in unregistered /\ unregistered' = unregistered \ {t} /\ optCh' = Append(optCh, x)
      /\ UNCHANGED <<setup, producer, produced, comparing, entries, counters, serving>>
  BY DEF RegisterTable, Send
<1> HIDE DEF x
<1>4. x \in AllOps /\ x \notin TableOps(t)
  BY <1>2, OpInAll, OpsApart
<1>5. SentTo(optCh, x, optCh')
  BY <1>1, <1>3, <1>4 DEF SentTo, BarType
<1>6. BarType'
  <2>1. optCh' \in Seq(AllOps)
    BY <1>5, Sent
  <2> QED BY <1>1, <1>3, <2>1 DEF BarType, entries, Registered
<1>7. /\ Unstarted(t)' <=> Unstarted(t)
      /\ Known(t)' = Known(t) /\ Started(t)' = Started(t) /\ Result(t)' = Result(t)
      /\ Announced(t)' = Announced(t) /\ (LastSent(t)' <=> LastSent(t)) /\ Registered(t)' = Registered(t)
  BY <1>3 DEF Unstarted, Started, Known, Announced, LastSent, Result, Registered
<1>8. /\ Among(optCh', Starts(t)) <=> Among(optCh, Starts(t))
      /\ Among(optCh', Regs(t))
      /\ ~Among(optCh, Regs(t)) /\ Registered(t)
  <2>1. ~Among(optCh, Regs(t))
    BY <1>1, <1>3 DEF TableInv, OpsOK, Among
  <2> QED BY <1>1, <1>2, <1>3, <1>4, <1>5, <2>1, AmongSent DEF TableOps, BarType
<1>9. Begun(t)' <=> Begun(t)
  BY <1>7, <1>8 DEF Begun
<1>10. CountsOK(t)' /\ BegunOK(t)' /\ LimitOK(t)' /\ FailsOK(t)'
  BY <1>1, <1>3, <1>4, <1>5, <1>7, <1>9, CountsKept DEF TableInv, TableOps
<1>11. OpsOK(t)'
  BY <1>1, <1>2, <1>3, <1>4, <1>5, <1>7, <1>8, OpsSent DEF TableInv, TableOps
<1>12. SendersOK(t)'
  BY <1>1, <1>3, <1>7 DEF SendersOK, TableInv
<1>13. WaitingOK(t)'
  <2>1. RegWaits(t) /\ RegWaits(t)'
    BY <1>3, <1>8 DEF RegWaits
  <2> QED BY <1>1, <1>3, <1>7, <1>9, <2>1 DEF WaitingOK, TableInv, entries
<1>14. TableInv(t)'
  BY <1>10, <1>11, <1>12, <1>13 DEF TableInv
<1>15. ~AllSent
  BY <1>3, NotAllSent
<1> QED BY <1>2, <1>3, <1>5, <1>6, <1>7, <1>9, <1>14, <1>15, SendStep

\* StartTable: nothing is counted before it is served.
LEMMA StartTableStep == ASSUME BarInv, NEW t \in BarTables, StartTable(t) PROVE BarInv'
<1> DEFINE x == [op |-> "start", table |-> t, total |-> Base(t), stop |-> Known(t)]
<1>1. BarType /\ TableInv(t) /\ QueueOK
  BY DEF BarInv
<1>2. x \in Starts(t) /\ x.total = Base(t) /\ x.stop = Known(t)
  BY <1>1, SetupFacts DEF Starts, Base, Known
<1>3. /\ unregistered = {} /\ producer[t] = "start" /\ optCh' = Append(optCh, x)
      /\ producer' = [producer EXCEPT ![t] =
                CASE setup[t].kind = "limit" /\ setup[t].chunks = 0 -> "end"
                  [] setup[t].kind = "bucket" /\ setup[t].chunks = 0 -> "stop"
                  [] Known(t) -> "publish"
                  [] OTHER -> "update"]
      /\ UNCHANGED <<setup, unregistered, produced, comparing, entries, counters, serving>>
  BY DEF StartTable, Send, Known, Base
<1> HIDE DEF x
<1>4. x \in AllOps /\ x \notin Updates(t) \cup Fails(t) \cup Incs(t) \cup Regs(t) \cup Stops(t)
  BY <1>2, OpInAll, OpsApart DEF TableOps
<1>5. SentTo(optCh, x, optCh')
  BY <1>1, <1>3, <1>4 DEF SentTo, BarType
<1>6. /\ setup[t].chunks \in Nat /\ setup[t].kind \in {"random", "bucket", "limit", "skip", "lack"}
      /\ setup[t].kind \in {"skip", "lack"} => setup[t].chunks <= 1
      /\ Started(t) /\ Unstarted(t) /\ produced[t] = 0
  BY <1>1, <1>3, SetupFacts DEF TableInv, SendersOK, Unstarted
<1>7. \/ producer'[t] = "end" /\ setup[t].kind = "limit" /\ setup[t].chunks = 0
      \/ producer'[t] = "stop" /\ setup[t].kind = "bucket" /\ setup[t].chunks = 0
      \/ producer'[t] = "publish" /\ Known(t) /\ setup[t].chunks > 0
      \/ producer'[t] = "update" /\ ~Known(t) /\ setup[t].chunks > 0
  <2>1. producer'[t] = CASE setup[t].kind = "limit" /\ setup[t].chunks = 0 -> "end"
                         [] setup[t].kind = "bucket" /\ setup[t].chunks = 0 -> "stop"
                         [] Known(t) -> "publish"
                         [] OTHER -> "update"
    BY <1>1, <1>3 DEF BarType
  <2>2. Known(t) => setup[t].chunks > 0
    BY <1>6 DEF Known, Started
  <2>3. ~Known(t) => setup[t].kind = "limit" \/ setup[t].kind = "bucket"
    BY <1>6 DEF Known
  <2>4. Known(t) => setup[t].kind # "limit" /\ setup[t].kind # "bucket"
    BY DEF Known
  <2>5. setup[t].chunks = 0 \/ setup[t].chunks > 0
    BY <1>6
  <2> QED BY <2>1, <2>2, <2>3, <2>4, <2>5
<1>8. BarType'
  <2>1. optCh' \in Seq(AllOps)
    BY <1>5, Sent
  <2>2. producer' \in [BarTables -> {"start", "update", "publish", "stop", "end"}]
    BY <1>1, <1>3 DEF BarType
  <2> QED BY <1>1, <1>3, <2>1, <2>2 DEF BarType, entries, Registered
<1>9. /\ Known(t)' = Known(t) /\ Started(t)' = Started(t)
      /\ ~Unstarted(t)' /\ Announced(t)' = Announced(t)
  BY <1>3, <1>6, <1>7 DEF Known, Started, Unstarted, Announced
<1>10. Among(optCh', Starts(t)) /\ (Among(optCh', Regs(t)) <=> Among(optCh, Regs(t)))
  BY <1>2, <1>4, <1>5, AmongSent
<1>11. ~Begun(t) /\ ~Begun(t)'
  BY <1>6, <1>10 DEF Begun
<1>12. setup[t].kind = "limit" => /\ LastSent(t) => LastSent(t)'
                                  /\ LastSent(t)' /\ setup[t].chunks > 0 => LastSent(t)
  <2>1. ~LastSent(t)
    BY <1>3 DEF LastSent
  <2>2. setup[t].kind = "limit" => ~Known(t)
    BY DEF Known
  <2>3. setup[t].kind = "limit" /\ setup[t].chunks > 0 => ~LastSent(t)'
    BY <1>6, <1>7, <2>2 DEF LastSent
  <2> QED BY <2>1, <2>3
<1>13. CountsOK(t)' /\ BegunOK(t)' /\ LimitOK(t)' /\ FailsOK(t)'
  BY <1>1, <1>3, <1>4, <1>5, <1>9, <1>11, <1>12, CountsKept DEF TableInv
<1>14. OpsOK(t)'
  BY <1>1, <1>2, <1>3, <1>4, <1>5, <1>6, <1>9, OpsSent DEF TableInv
<1>15. SendersOK(t)'
  <2>1. comparing[t].taken + comparing[t].failed <= produced[t] /\ ~comparing[t].differs
    BY <1>1, <1>6 DEF TableInv, SendersOK
  <2> QED BY <1>3, <1>6, <1>7, <1>9, <2>1 DEF SendersOK
<1>16. WaitingOK(t)'
  BY <1>1, <1>3, <1>10, <1>11 DEF WaitingOK, TableInv, entries, RegWaits, Result, Registered
<1>17. TableInv(t)'
  BY <1>13, <1>14, <1>15, <1>16 DEF TableInv
<1>18. ~AllSent
  BY <1>3, NotAllSent
<1> QED
  <2>1. x \in Regs(t) \cup TableOps(t) /\ x \notin Regs(t)
    BY <1>2, <1>4 DEF TableOps
  <2>2. \A u \in BarTables \ {t} : producer'[u] = producer[u]
    BY <1>1, <1>3 DEF BarType
  <2> QED BY <1>3, <1>5, <1>8, <1>11, <1>17, <1>18, <2>1, <2>2, SendStep

\* The counts of a table after a send of its own.
LEMMA CountsGrow ==
    ASSUME BarType, NEW t \in BarTables, SendersOK(t), CountsOK(t), NEW x, SentTo(optCh, x, optCh'),
           UNCHANGED <<setup, entry, tableMap>>, Begun(t)' <=> Begun(t),
           comparing'[t].taken = comparing[t].taken + One(x, Incs(t)),
           Announced(t)' = Announced(t) + One(x, Updates(t)),
           comparing[t].taken + One(x, Incs(t)) <= Announced(t) + One(x, Updates(t)),
           x \in Fails(t) => comparing[t].taken < setup[t].chunks
    PROVE  CountsOK(t)'
<1> DEFINE L == Len(optCh)
<1>1. /\ L \in Nat /\ Len(optCh') = L + 1
      /\ \A n \in 1 .. L : optCh'[n] = optCh[n]
      /\ optCh'[L + 1] = x
  BY Sent
<1>2. /\ Live(t)' <=> Live(t)
      /\ Got(t)' = Got(t) /\ Tot(t)' = Tot(t)
  BY DEF Live, Got, Tot, Base, Known
<1>3. ASSUME NEW O
      PROVE  /\ \A n \in 0 .. L : Num(optCh', O, n) = Num(optCh, O, n) /\ Num(optCh, O, n) \in Nat
             /\ Num(optCh', O, L + 1) = Num(optCh, O, L) + One(x, O)
  BY NumSent
<1>4. SUFFICES ASSUME Live(t)
      PROVE  /\ Got(t) + Num(optCh', Incs(t), L + 1) = comparing'[t].taken
             /\ Tot(t) + Num(optCh', Updates(t), L + 1) = Announced(t)'
             /\ \A n \in 0 .. (L + 1) :
                   Got(t) + Num(optCh', Incs(t), n) <= Tot(t) + Num(optCh', Updates(t), n)
             /\ \A n \in 1 .. (L + 1) :
                   optCh'[n] \in Fails(t) => Got(t) + Num(optCh', Incs(t), n) < setup[t].chunks
  BY <1>1, <1>2 DEF CountsOK
<1>5. /\ Got(t) + Num(optCh, Incs(t), L) = comparing[t].taken
      /\ Tot(t) + Num(optCh, Updates(t), L) = Announced(t)
      /\ \A n \in 0 .. L : Got(t) + Num(optCh, Incs(t), n) <= Tot(t) + Num(optCh, Updates(t), n)
      /\ \A n \in 1 .. L : optCh[n] \in Fails(t) => Got(t) + Num(optCh, Incs(t), n) < setup[t].chunks
  BY <1>4 DEF CountsOK
<1>6. Got(t) \in Nat /\ Tot(t) \in Nat
  <2>1. Begun(t) => entry[t] \in EntryRecord
    BY <1>4 DEF Live, BarType
  <2>2. Base(t) \in Nat
    BY SenderFacts
  <2> QED BY <2>1, <2>2 DEF Got, Tot, EntryRecord
<1> HIDE DEF L
<1>7. L \in 0 .. L
  BY <1>1
<1>8. /\ Num(optCh, Incs(t), L) \in Nat /\ Num(optCh, Updates(t), L) \in Nat
      /\ Num(optCh', Incs(t), L + 1) = Num(optCh, Incs(t), L) + One(x, Incs(t))
      /\ Num(optCh', Updates(t), L + 1) = Num(optCh, Updates(t), L) + One(x, Updates(t))
      /\ One(x, Incs(t)) \in 0 .. 1 /\ One(x, Updates(t)) \in 0 .. 1
  BY <1>3, <1>7 DEF One
<1>9. /\ Got(t) + Num(optCh', Incs(t), L + 1) = comparing'[t].taken
      /\ Tot(t) + Num(optCh', Updates(t), L + 1) = Announced(t)'
      /\ Got(t) + Num(optCh', Incs(t), L + 1) <= Tot(t) + Num(optCh', Updates(t), L + 1)
  <2> DEFINE a == Num(optCh, Incs(t), L)
             b == Num(optCh, Updates(t), L)
             o == One(x, Incs(t))
             p == One(x, Updates(t))
  <2>1. /\ a \in Nat /\ b \in Nat /\ o \in 0 .. 1 /\ p \in 0 .. 1
        /\ Got(t) \in Nat /\ Tot(t) \in Nat
        /\ Got(t) + a = comparing[t].taken /\ Tot(t) + b = Announced(t)
        /\ comparing'[t].taken = comparing[t].taken + o /\ Announced(t)' = Announced(t) + p
        /\ comparing[t].taken + o <= Announced(t) + p
        /\ Num(optCh', Incs(t), L + 1) = a + o /\ Num(optCh', Updates(t), L + 1) = b + p
    BY <1>5, <1>6, <1>8
  <2> HIDE DEF a, b, o, p
  <2> QED BY <2>1
<1>10. \A n \in 0 .. (L + 1) : n \in 0 .. L \/ n = L + 1
  BY <1>1
<1>11. \A n \in 1 .. (L + 1) : (n \in 1 .. L /\ n \in 0 .. L) \/ n = L + 1
  BY <1>1
<1>12. \A n \in 0 .. (L + 1) : Got(t) + Num(optCh', Incs(t), n) <= Tot(t) + Num(optCh', Updates(t), n)
  BY <1>3, <1>5, <1>9, <1>10
<1>13. x \in Fails(t) => Got(t) + Num(optCh', Incs(t), L + 1) < setup[t].chunks
  <2> SUFFICES ASSUME x \in Fails(t) PROVE Got(t) + Num(optCh', Incs(t), L + 1) < setup[t].chunks
    OBVIOUS
  <2>1. One(x, Incs(t)) = 0
    BY OpsApart DEF One
  <2>2. comparing'[t].taken = comparing[t].taken /\ comparing[t].taken < setup[t].chunks
    BY <2>1, SenderFacts
  <2> QED BY <1>9, <2>2
<1>14. \A n \in 1 .. (L + 1) :
           optCh'[n] \in Fails(t) => Got(t) + Num(optCh', Incs(t), n) < setup[t].chunks
  <2> TAKE n \in 1 .. (L + 1)
  <2>1. CASE n \in 1 .. L /\ n \in 0 .. L
    BY <1>1, <1>3, <1>5, <2>1
  <2>2. CASE n = L + 1
    BY <1>1, <1>13, <2>2
  <2> QED BY <1>11, <2>1, <2>2
<1> QED BY <1>9, <1>12, <1>14

\* UpdateTotal.
LEMMA UpdateTotalStep == ASSUME BarInv, NEW t \in BarTables, UpdateTotal(t) PROVE BarInv'
<1> DEFINE x == [op |-> "update", table |-> t, total |-> 1,
                 stop |-> setup[t].kind = "limit" /\ produced[t] + 1 = setup[t].chunks]
<1>1. BarType /\ TableInv(t) /\ QueueOK /\ SendersOK(t)
  BY DEF BarInv, TableInv
<1>2. /\ x \in Updates(t) /\ (x \in Lasts(t) <=> x.stop)
      /\ x.stop <=> setup[t].kind = "limit" /\ produced[t] + 1 = setup[t].chunks
  BY DEF Updates, Lasts
<1>3. /\ producer[t] = "update" /\ optCh' = Append(optCh, x)
      /\ producer' = [producer EXCEPT ![t] = "publish"]
      /\ UNCHANGED <<setup, unregistered, produced, comparing, entries, counters, serving>>
  BY DEF UpdateTotal, Send
<1> HIDE DEF x
<1>4. x \in AllOps /\ x \notin Starts(t) \cup Fails(t) \cup Incs(t) \cup Regs(t) \cup Stops(t)
  BY <1>2, OpInAll, OpsApart DEF TableOps
<1>5. SentTo(optCh, x, optCh')
  BY <1>1, <1>3, <1>4 DEF SentTo, BarType
<1>6. /\ setup[t].chunks \in Nat /\ ~Known(t) /\ Started(t) /\ ~Unstarted(t)
      /\ produced[t] < setup[t].chunks /\ produced[t] \in Nat
  <2>1. ~Known(t) /\ produced[t] < setup[t].chunks
    BY <1>1, <1>3 DEF SendersOK
  <2>2. Started(t)
    BY <2>1 DEF Known, Started
  <2> QED BY <1>1, <1>3, <2>1, <2>2, SetupFacts DEF Unstarted, BarType
<1>7. producer'[t] = "publish" /\ producer' \in [BarTables -> {"start", "update", "publish", "stop", "end"}]
  BY <1>1, <1>3 DEF BarType
<1>8. BarType'
  <2>1. optCh' \in Seq(AllOps)
    BY <1>5, Sent
  <2> QED BY <1>1, <1>3, <1>7, <2>1 DEF BarType, entries, Registered
<1>9. /\ Known(t)' = Known(t) /\ Started(t)' = Started(t) /\ ~Unstarted(t)'
      /\ Announced(t)' = Announced(t) + 1
  BY <1>3, <1>6, <1>7 DEF Known, Started, Unstarted, Announced
<1>10. /\ Among(optCh', Starts(t)) <=> Among(optCh, Starts(t))
       /\ Among(optCh', Regs(t)) <=> Among(optCh, Regs(t))
       /\ Among(optCh', Fails(t)) <=> Among(optCh, Fails(t))
       /\ Among(optCh', Lasts(t)) <=> Among(optCh, Lasts(t)) \/ x.stop
  BY <1>2, <1>4, <1>5, AmongSent
<1>11. Begun(t)' <=> Begun(t)
  BY <1>6, <1>9, <1>10 DEF Begun
<1>12. unregistered = {}
  BY <1>1, <1>6 DEF QueueOK
<1>13. /\ UNCHANGED <<entry, tableMap, tableList, tableFailList>>
       /\ Live(t)' <=> Live(t)
  BY <1>3, <1>11 DEF entries, Live
<1>14. CountsOK(t)'
  <2>1. One(x, Updates(t)) = 1 /\ One(x, Incs(t)) = 0
    BY <1>2, <1>4 DEF One
  <2>2. /\ comparing[t].taken \in Nat /\ comparing[t].failed \in Nat /\ Announced(t) \in Nat
        /\ produced[t] <= Announced(t) /\ comparing[t].taken + comparing[t].failed <= produced[t]
    BY <1>1, SenderFacts DEF SendersOK
  <2>3. /\ comparing'[t].taken = comparing[t].taken + One(x, Incs(t))
        /\ Announced(t)' = Announced(t) + One(x, Updates(t))
        /\ comparing[t].taken + One(x, Incs(t)) <= Announced(t) + One(x, Updates(t))
    BY <1>3, <1>6, <1>9, <2>1, <2>2
  <2> QED BY <1>1, <1>3, <1>4, <1>5, <1>11, <1>13, <2>3, CountsGrow DEF TableInv
<1>15. ~LastSent(t) /\ (LastSent(t)' <=> produced[t] + 1 = setup[t].chunks)
  BY <1>3, <1>6, <1>7 DEF LastSent
<1>16. setup[t].kind = "limit" => ~Among(optCh, Lasts(t)) /\ (Begun(t) /\ t \in tableMap => ~entry[t].stop)
  BY <1>1, <1>15 DEF TableInv, LimitOK
<1>17. BegunOK(t)'
  BY <1>1, <1>3, <1>9, <1>11, <1>13, <1>16 DEF TableInv, BegunOK
<1>18. LimitOK(t)'
  BY <1>2, <1>3, <1>10, <1>11, <1>13, <1>15, <1>16 DEF LimitOK
<1>19. FailsOK(t)'
  BY <1>1, <1>3, <1>10, <1>11, <1>13 DEF TableInv, FailsOK
<1>20. OpsOK(t)'
  BY <1>1, <1>2, <1>3, <1>4, <1>5, <1>6, <1>9, <1>16, OpsSent DEF TableInv
<1>21. SendersOK(t)'
  BY <1>1, <1>3, <1>6, <1>7, <1>9 DEF SendersOK
<1>22. WaitingOK(t)'
  BY <1>1, <1>3, <1>10, <1>11, <1>13 DEF WaitingOK, TableInv, RegWaits, Result, Registered
<1>23. TableInv(t)'
  BY <1>14, <1>17, <1>18, <1>19, <1>20, <1>21, <1>22 DEF TableInv
<1>24. ~AllSent
  BY <1>3, NotAllSent
<1> QED
  <2>1. x \in Regs(t) \cup TableOps(t) /\ x \notin Regs(t)
    BY <1>2, <1>4 DEF TableOps
  <2>2. \A u \in BarTables \ {t} : producer'[u] = producer[u]
    BY <1>1, <1>3 DEF BarType
  <2> QED BY <1>3, <1>5, <1>8, <1>11, <1>12, <1>23, <1>24, <2>1, <2>2, SendStep

\* produceChunks of the bucket splitter ends.
LEMMA StopUpdateStep == ASSUME BarInv, NEW t \in BarTables, StopUpdate(t) PROVE BarInv'
<1> DEFINE x == [op |-> "update", table |-> t, total |-> 0, stop |-> TRUE]
<1>1. BarType /\ TableInv(t) /\ QueueOK /\ SendersOK(t)
  BY DEF BarInv, TableInv
<1>2. x \in Stops(t)
  BY DEF Stops
<1>3. /\ producer[t] = "stop" /\ optCh' = Append(optCh, x)
      /\ producer' = [producer EXCEPT ![t] = "end"]
      /\ UNCHANGED <<setup, unregistered, produced, comparing, entries, counters, serving>>
  BY DEF StopUpdate, Send
<1> HIDE DEF x
<1>4. x \in AllOps /\ x \notin Starts(t) \cup Fails(t) \cup Incs(t) \cup Regs(t) \cup Updates(t)
  BY <1>2, OpInAll, OpsApart DEF TableOps
<1>5. SentTo(optCh, x, optCh')
  BY <1>1, <1>3, <1>4 DEF SentTo, BarType
<1>6. setup[t].kind = "bucket" /\ ~Known(t) /\ Started(t) /\ ~Unstarted(t) /\ produced[t] = setup[t].chunks
  BY <1>1, <1>3 DEF SendersOK, Known, Started, Unstarted
<1>7. producer'[t] = "end" /\ producer' \in [BarTables -> {"start", "update", "publish", "stop", "end"}]
  BY <1>1, <1>3 DEF BarType
<1>8. BarType'
  <2>1. optCh' \in Seq(AllOps)
    BY <1>5, Sent
  <2> QED BY <1>1, <1>3, <1>7, <2>1 DEF BarType, entries, Registered
<1>9. /\ Known(t)' = Known(t) /\ Started(t)' = Started(t) /\ ~Unstarted(t)'
      /\ Announced(t)' = Announced(t)
  BY <1>3, <1>6, <1>7 DEF Known, Started, Unstarted, Announced
<1>10. /\ Among(optCh', Starts(t)) <=> Among(optCh, Starts(t))
       /\ Among(optCh', Regs(t)) <=> Among(optCh, Regs(t))
  BY <1>4, <1>5, AmongSent
<1>11. Begun(t)' <=> Begun(t)
  BY <1>6, <1>9, <1>10 DEF Begun
<1>12. unregistered = {}
  BY <1>1, <1>6 DEF QueueOK
<1>13. CountsOK(t)' /\ BegunOK(t)' /\ LimitOK(t)' /\ FailsOK(t)'
  <2>1. setup[t].kind # "limit"
    BY <1>6
  <2> QED BY <1>1, <1>3, <1>4, <1>5, <1>9, <1>11, <2>1, CountsKept DEF TableInv
<1>14. OpsOK(t)'
  BY <1>1, <1>2, <1>3, <1>4, <1>5, <1>6, <1>9, OpsSent DEF TableInv
<1>15. SendersOK(t)'
  BY <1>1, <1>3, <1>6, <1>7, <1>9 DEF SendersOK
<1>16. WaitingOK(t)'
  BY <1>1, <1>3, <1>10, <1>11 DEF WaitingOK, TableInv, RegWaits, Result, Registered, entries
<1>17. TableInv(t)'
  BY <1>13, <1>14, <1>15, <1>16 DEF TableInv
<1>18. ~AllSent
  BY <1>3, NotAllSent
<1> QED
  <2>1. x \in Regs(t) \cup TableOps(t) /\ x \notin Regs(t)
    BY <1>2, <1>4 DEF TableOps
  <2>2. \A u \in BarTables \ {t} : producer'[u] = producer[u]
    BY <1>1, <1>3 DEF BarType
  <2> QED BY <1>3, <1>5, <1>8, <1>11, <1>12, <1>17, <1>18, <2>1, <2>2, SendStep

\* A worker's operation: Fail or Inc, for a chunk that is published.
LEMMA WorkerSends ==
    ASSUME BarInv, NEW t \in BarTables, NEW x \in Fails(t) \cup Incs(t), optCh' = Append(optCh, x),
           comparing[t].taken + comparing[t].failed < produced[t] \/ comparing[t].failed > 0,
           comparing' \in [BarTables -> [taken : Nat, failed : Nat, differs : BOOLEAN]],
           \A u \in BarTables \ {t} : comparing'[u] = comparing[u],
           comparing'[t].taken = comparing[t].taken + One(x, Incs(t)),
           comparing'[t].taken + comparing'[t].failed <= produced[t],
           comparing'[t].differs <=> comparing[t].differs \/ x \in Fails(t),
           x \in Fails(t) => comparing[t].taken + comparing[t].failed < produced[t],
           UNCHANGED <<setup, unregistered, producer, produced, entries, counters, serving>>
    PROVE  BarInv'
<1>1. BarType /\ TableInv(t) /\ QueueOK /\ SendersOK(t)
  BY DEF BarInv, TableInv
<1>2. x \in AllOps /\ x \notin Starts(t) \cup Updates(t) \cup Regs(t) \cup Stops(t)
  BY OpInAll, OpsApart DEF TableOps
<1>3. SentTo(optCh, x, optCh')
  BY <1>1, <1>2 DEF SentTo, BarType
<1>4. /\ comparing[t].taken \in Nat /\ comparing[t].failed \in Nat
      /\ produced[t] \in Nat /\ Announced(t) \in Nat /\ setup[t].chunks \in Nat
      /\ produced[t] <= Announced(t) /\ Announced(t) <= setup[t].chunks
      /\ comparing[t].taken + comparing[t].failed <= produced[t]
  BY <1>1, SenderFacts, SetupFacts DEF SendersOK
<1>5. comparing[t].taken < produced[t] /\ produced[t] > 0 /\ comparing[t].taken < setup[t].chunks
  <2>1. comparing[t].taken + comparing[t].failed < produced[t] \/ comparing[t].failed > 0
    OBVIOUS
  <2> DEFINE a == comparing[t].taken
             b == comparing[t].failed
             c == produced[t]
             d == Announced(t)
             e == setup[t].chunks
  <2>2. a \in Nat /\ b \in Nat /\ c \in Nat /\ d \in Nat /\ e \in Nat /\ c <= d /\ d <= e /\ a + b <= c
    BY <1>4
  <2>3. a + b < c \/ b > 0
    BY <2>1
  <2> HIDE DEF a, b, c, d, e
  <2>4. a < c /\ c > 0 /\ a < e
    BY <2>2, <2>3
  <2> QED BY <2>4 DEF a, c, e
<1>6. ~Unstarted(t) /\ Started(t)
  BY <1>1, <1>4, <1>5 DEF SendersOK, Unstarted
<1>7. unregistered = {}
  BY <1>1, <1>6 DEF QueueOK
<1>8. BarType'
  <2>1. optCh' \in Seq(AllOps)
    BY <1>3, Sent
  <2> QED BY <1>1, <2>1 DEF BarType, entries, Registered
<1>9. /\ Known(t)' = Known(t) /\ Started(t)' = Started(t) /\ (Unstarted(t)' <=> Unstarted(t))
      /\ Announced(t)' = Announced(t) /\ (LastSent(t)' <=> LastSent(t))
  BY DEF Known, Started, Unstarted, Announced, LastSent
<1>10. /\ Among(optCh', Starts(t)) <=> Among(optCh, Starts(t))
       /\ Among(optCh', Regs(t)) <=> Among(optCh, Regs(t))
       /\ Among(optCh', Updates(t)) <=> Among(optCh, Updates(t))
       /\ Among(optCh', Lasts(t)) <=> Among(optCh, Lasts(t))
       /\ Among(optCh', Fails(t)) <=> Among(optCh, Fails(t)) \/ x \in Fails(t)
  BY <1>2, <1>3, AmongSent, OpFields
<1>11. Begun(t)' <=> Begun(t)
  BY <1>9, <1>10 DEF Begun
<1>12. /\ UNCHANGED <<entry, tableMap, tableList, tableFailList>>
       /\ Live(t)' <=> Live(t)
  BY <1>11 DEF entries, Live
<1>13. CountsOK(t)'
  <2>1. One(x, Updates(t)) = 0 /\ One(x, Incs(t)) \in 0 .. 1
    BY <1>2 DEF One
  <2>2. comparing[t].taken + One(x, Incs(t)) <= Announced(t) + One(x, Updates(t))
    BY <1>4, <1>5, <2>1
  <2>3. Announced(t)' = Announced(t) + One(x, Updates(t))
    BY <1>4, <1>9, <2>1
  <2> QED BY <1>1, <1>3, <1>5, <1>11, <1>12, <2>2, <2>3, CountsGrow DEF TableInv
<1>14. BegunOK(t)'
  <2>1. ASSUME Begun(t), t \notin tableMap, setup[t].reg = "same", setup[t].kind # "bucket" PROVE FALSE
    <3>1. comparing[t].taken = setup[t].chunks
      BY <1>1, <2>1 DEF TableInv, BegunOK
    <3> QED BY <1>4, <1>5, <3>1
  <2> QED BY <1>1, <1>9, <1>10, <1>11, <1>12, <2>1 DEF TableInv, BegunOK
<1>15. LimitOK(t)'
  BY <1>1, <1>9, <1>10, <1>11, <1>12 DEF TableInv, LimitOK
<1>16. FailsOK(t)'
  BY <1>1, <1>10, <1>11, <1>12 DEF TableInv, FailsOK
<1>17. OpsOK(t)'
  BY <1>1, <1>2, <1>3, <1>6, <1>9, OpsSent DEF TableInv
<1>18. SendersOK(t)'
  BY <1>1, <1>6, <1>9 DEF SendersOK
<1>19. WaitingOK(t)'
  BY <1>1, <1>10, <1>11, <1>12 DEF WaitingOK, TableInv, RegWaits, Result, Registered
<1>20. TableInv(t)'
  BY <1>13, <1>14, <1>15, <1>16, <1>17, <1>18, <1>19 DEF TableInv
<1>21. ~AllSent
  BY <1>4, <1>5, NotAllSent
<1> QED
  <2>1. x \in Regs(t) \cup TableOps(t) /\ x \notin Regs(t)
    BY <1>2 DEF TableOps
  <2> QED BY <1>3, <1>7, <1>8, <1>11, <1>20, <1>21, <2>1, SendStep

\* FailTable.
LEMMA FailTableStep == ASSUME BarInv, NEW t \in BarTables, FailTable(t) PROVE BarInv'
<1> DEFINE x == [op |-> "fail", table |-> t]
<1>1. BarType /\ SendersOK(t)
  BY DEF BarInv, TableInv
<1>2. x \in Fails(t)
  BY DEF Fails
<1>3. /\ comparing[t].taken + comparing[t].failed < produced[t] /\ optCh' = Append(optCh, x)
      /\ comparing' = [comparing EXCEPT ![t].failed = @ + 1, ![t].differs = TRUE]
      /\ UNCHANGED <<setup, unregistered, producer, produced, entries, counters, serving>>
  BY DEF FailTable, Send
<1> HIDE DEF x
<1>4. One(x, Incs(t)) = 0
  BY <1>2, OpsApart DEF One
<1>5. /\ comparing \in [BarTables -> [taken : Nat, failed : Nat, differs : BOOLEAN]]
      /\ produced[t] \in Nat
  BY <1>1 DEF BarType
<1>6. /\ comparing' \in [BarTables -> [taken : Nat, failed : Nat, differs : BOOLEAN]]
      /\ \A u \in BarTables \ {t} : comparing'[u] = comparing[u]
      /\ comparing'[t].taken = comparing[t].taken
      /\ comparing'[t].failed = comparing[t].failed + 1 /\ comparing'[t].differs
      /\ comparing[t].taken \in Nat /\ comparing[t].failed \in Nat
  <2> DEFINE b == [comparing[t] EXCEPT !.failed = @ + 1]
             c == [b EXCEPT !.differs = TRUE]
  <2>1. comparing' = [comparing EXCEPT ![t] = c]
    BY <1>3, <1>5
  <2>2. comparing[t] \in [taken : Nat, failed : Nat, differs : BOOLEAN]
    BY <1>5
  <2>3. /\ b \in [taken : Nat, failed : Nat, differs : BOOLEAN]
        /\ b.taken = comparing[t].taken /\ b.failed = comparing[t].failed + 1
    BY <2>2
  <2> HIDE DEF b
  <2>4. c \in [taken : Nat, failed : Nat, differs : BOOLEAN] /\ c.differs
    BY <2>3
  <2>5. c.taken = b.taken /\ c.failed = b.failed
    BY <2>3
  <2> HIDE DEF c
  <2> QED BY <1>5, <2>1, <2>2, <2>3, <2>4, <2>5
<1>7. /\ comparing'[t].taken = comparing[t].taken + One(x, Incs(t))
      /\ comparing'[t].taken + comparing'[t].failed <= produced[t]
  BY <1>3, <1>4, <1>5, <1>6
<1> QED BY <1>2, <1>3, <1>6, <1>7, WorkerSends

\* Inc.
LEMMA IncStep == ASSUME BarInv, NEW t \in BarTables, Inc(t) PROVE BarInv'
<1> DEFINE x == [op |-> "inc", table |-> t]
<1>1. BarType /\ SendersOK(t)
  BY DEF BarInv, TableInv
<1>2. x \in Incs(t)
  BY DEF Incs
<1>3. /\ optCh' = Append(optCh, x)
      /\ \/ /\ comparing[t].taken + comparing[t].failed < produced[t]
            /\ comparing' = [comparing EXCEPT ![t].taken = @ + 1]
         \/ /\ comparing[t].failed > 0
            /\ comparing' = [comparing EXCEPT ![t].taken = @ + 1, ![t].failed = @ - 1]
      /\ UNCHANGED <<setup, unregistered, producer, produced, entries, counters, serving>>
  BY DEF Inc, Send
<1> HIDE DEF x
<1>4. One(x, Incs(t)) = 1 /\ x \notin Fails(t)
  BY <1>2, OpsApart DEF One
<1>5. /\ comparing \in [BarTables -> [taken : Nat, failed : Nat, differs : BOOLEAN]]
      /\ produced[t] \in Nat /\ comparing[t].taken + comparing[t].failed <= produced[t]
  BY <1>1 DEF BarType, SendersOK
<1>6. /\ comparing' \in [BarTables -> [taken : Nat, failed : Nat, differs : BOOLEAN]]
      /\ \A u \in BarTables \ {t} : comparing'[u] = comparing[u]
      /\ comparing'[t].taken = comparing[t].taken + 1
      /\ comparing'[t].differs = comparing[t].differs
      /\ comparing[t].taken \in Nat /\ comparing[t].failed \in Nat
      /\ comparing'[t].taken + comparing'[t].failed <= produced[t]
  <2>1. CASE /\ comparing[t].taken + comparing[t].failed < produced[t]
             /\ comparing' = [comparing EXCEPT ![t].taken = @ + 1]
    BY <1>5, <2>1
  <2>2. CASE /\ comparing[t].failed > 0
             /\ comparing' = [comparing EXCEPT ![t].taken = @ + 1, ![t].failed = @ - 1]
    BY <1>5, <2>2
  <2> QED BY <1>3, <2>1, <2>2
<1>7. comparing[t].taken + comparing[t].failed < produced[t] \/ comparing[t].failed > 0
  BY <1>3
<1>8. comparing'[t].taken = comparing[t].taken + One(x, Incs(t))
  BY <1>4, <1>6
<1> QED BY <1>2, <1>3, <1>4, <1>6, <1>7, <1>8, WorkerSends

\* A chunk goes to the workers.
LEMMA PublishStep == ASSUME BarInv, NEW t \in BarTables, Publish(t) PROVE BarInv'
<1>1. BarType /\ TableInv(t) /\ QueueOK /\ SendersOK(t) /\ CountersOK
  BY DEF BarInv, TableInv
<1>2. /\ producer[t] = "publish" /\ produced' = [produced EXCEPT ![t] = @ + 1]
      /\ producer' = [producer EXCEPT ![t] =
            CASE produced[t] + 1 = setup[t].chunks -> (IF setup[t].kind = "bucket" THEN "stop" ELSE "end")
              [] setup[t].kind = "random" /\ produced[t] + 1 < setup[t].chunks -> "publish"
              [] OTHER -> "update"]
      /\ UNCHANGED <<setup, unregistered, comparing, optCh, entries, counters, serving>>
  BY DEF Publish
<1>3. /\ setup[t].chunks \in Nat /\ produced[t] \in Nat /\ produced[t] < setup[t].chunks
      /\ setup[t].kind \in {"random", "bucket", "limit", "skip", "lack"}
      /\ setup[t].kind \in {"skip", "lack"} => setup[t].chunks <= 1
      /\ Started(t) /\ ~Unstarted(t)
      /\ comparing[t].taken \in Nat /\ comparing[t].failed \in Nat
      /\ comparing[t].taken + comparing[t].failed <= produced[t]
  BY <1>1, <1>2, SetupFacts, SenderFacts DEF SendersOK, Started, Unstarted
<1>4. produced'[t] = produced[t] + 1 /\ produced' \in [BarTables -> Nat]
  BY <1>1, <1>2 DEF BarType
<1>5. \/ producer'[t] = "stop" /\ setup[t].kind = "bucket" /\ produced[t] + 1 = setup[t].chunks
      \/ producer'[t] = "end" /\ setup[t].kind # "bucket" /\ produced[t] + 1 = setup[t].chunks
      \/ producer'[t] = "publish" /\ setup[t].kind = "random" /\ produced[t] + 1 < setup[t].chunks
      \/ producer'[t] = "update" /\ ~Known(t) /\ produced[t] + 1 < setup[t].chunks
  <2>1. producer'[t] = CASE produced[t] + 1 = setup[t].chunks -> (IF setup[t].kind = "bucket" THEN "stop" ELSE "end")
                         [] setup[t].kind = "random" /\ produced[t] + 1 < setup[t].chunks -> "publish"
                         [] OTHER -> "update"
    BY <1>1, <1>2 DEF BarType
  <2>2. produced[t] + 1 = setup[t].chunks \/ produced[t] + 1 < setup[t].chunks
    BY <1>3
  <2>3. CASE produced[t] + 1 = setup[t].chunks
    BY <2>1, <2>3
  <2>4. CASE produced[t] + 1 < setup[t].chunks /\ setup[t].kind = "random"
    BY <1>3, <2>1, <2>4
  <2>5. CASE produced[t] + 1 < setup[t].chunks /\ setup[t].kind # "random"
    <3>1. setup[t].kind \notin {"skip", "lack"}
      BY <1>3, <2>5
    <3> QED BY <1>3, <2>1, <2>5, <3>1 DEF Known
  <2> QED BY <2>2, <2>3, <2>4, <2>5
<1>6. producer' \in [BarTables -> {"start", "update", "publish", "stop", "end"}]
  BY <1>1, <1>2 DEF BarType
<1>7. BarType'
  BY <1>1, <1>2, <1>4, <1>6 DEF BarType, entries, Registered
<1>8. /\ Known(t)' = Known(t) /\ Started(t)' = Started(t) /\ ~Unstarted(t)'
      /\ UNCHANGED <<entry, tableMap, tableList, tableFailList>>
  BY <1>2, <1>3, <1>5 DEF Known, Started, Unstarted, entries
<1>9. Begun(t)' <=> Begun(t)
  BY <1>2, <1>3, <1>8 DEF Begun
<1>10. Announced(t)' = Announced(t)
  <2>1. CASE Known(t)
    BY <1>2, <1>8, <2>1 DEF Announced
  <2>2. CASE ~Known(t)
    <3>1. producer'[t] # "publish"
      BY <1>5, <2>2 DEF Known
    <3>2. Announced(t)' = produced[t] + 1 + 0 /\ Announced(t) = produced[t] + 1
      BY <1>2, <1>4, <1>8, <2>2, <3>1 DEF Announced
    <3> QED BY <1>3, <3>2
  <2> QED BY <2>1, <2>2
<1>11. setup[t].kind = "limit" => (LastSent(t)' <=> LastSent(t))
  <2> SUFFICES ASSUME setup[t].kind = "limit" PROVE LastSent(t)' <=> LastSent(t)
    OBVIOUS
  <2>1. LastSent(t) <=> produced[t] + 1 = setup[t].chunks
    BY <1>2 DEF LastSent
  <2>2. producer'[t] # "publish" /\ (producer'[t] = "end" <=> produced[t] + 1 = setup[t].chunks)
    BY <1>3, <1>5
  <2> QED BY <2>1, <2>2 DEF LastSent
<1>12. CountsOK(t)' /\ BegunOK(t)' /\ LimitOK(t)' /\ FailsOK(t)'
  BY <1>1, <1>2, <1>9, <1>10, <1>11, CountsKept DEF TableInv
<1>13. OpsOK(t)'
  BY <1>1, <1>2, <1>3, <1>8 DEF TableInv, OpsOK, Result, Registered, Base
<1>14. SendersOK(t)'
  <2>1. comparing'[t].taken + comparing'[t].failed <= produced'[t]
    BY <1>2, <1>3, <1>4
  <2> QED BY <1>2, <1>3, <1>4, <1>5, <1>8, <2>1 DEF SendersOK
<1>15. WaitingOK(t)'
  BY <1>1, <1>2, <1>8, <1>9 DEF WaitingOK, TableInv, RegWaits, Result, Registered
<1>16. TableInv(t)'
  BY <1>12, <1>13, <1>14, <1>15 DEF TableInv
<1>17. ASSUME NEW u \in BarTables \ {t} PROVE TableInv(u)' /\ (Begun(u)' <=> Begun(u))
  <2>1. TableInv(u)
    BY DEF BarInv
  <2>2. producer'[u] = producer[u] /\ produced'[u] = produced[u] /\ comparing'[u] = comparing[u]
    BY <1>1, <1>2 DEF BarType
  <2>3. /\ Unstarted(u)' <=> Unstarted(u)
        /\ Known(u)' = Known(u) /\ Started(u)' = Started(u) /\ Announced(u)' = Announced(u)
        /\ LastSent(u)' <=> LastSent(u)
    BY <1>2, <2>2 DEF Unstarted, Started, Known, Announced, LastSent
  <2>4. Begun(u)' <=> Begun(u)
    BY <1>2, <2>3 DEF Begun
  <2>5. CountsOK(u)' /\ BegunOK(u)' /\ LimitOK(u)' /\ FailsOK(u)'
    BY <1>1, <1>2, <2>1, <2>2, <2>3, <2>4, CountsKept DEF TableInv
  <2>6. OpsOK(u)' /\ SendersOK(u)' /\ WaitingOK(u)'
    BY <1>2, <1>8, <2>1, <2>2, <2>3, <2>4
    DEF TableInv, OpsOK, SendersOK, WaitingOK, RegWaits, Result, Registered, Base
  <2> QED BY <2>4, <2>5, <2>6 DEF TableInv
<1>18. \A u \in BarTables : TableInv(u)' /\ (Begun(u)' <=> Begun(u))
  BY <1>9, <1>16, <1>17
<1>19. CountersOK'
  BY <1>1, <1>2, <1>18, CountersKept
<1>20. QueueOK'
  <2>1. ~AllSent /\ unregistered = {}
    BY <1>1, <1>2, <1>3, NotAllSent DEF QueueOK
  <2>2. serving /\ \A n \in 1 .. Len(optCh) : optCh[n].op # "close"
    BY <1>1, <2>1, SendersFirst
  <2> QED BY <1>1, <1>2, <1>18, <2>1, <2>2 DEF QueueOK
<1> QED BY <1>7, <1>18, <1>19, <1>20 DEF BarInv

\* Close.
LEMMA CloseBarStep == ASSUME BarInv, CloseBar PROVE BarInv'
<1> DEFINE x == [op |-> "close"]
<1>1. BarType /\ QueueOK /\ CountersOK /\ \A t \in BarTables : TableInv(t)
  BY DEF BarInv
<1>2. /\ AllSent /\ serving /\ (\A n \in DOMAIN optCh : optCh[n].op # "close") /\ optCh' = Append(optCh, x)
      /\ UNCHANGED <<senders, entries, counters, serving>>
  BY DEF CloseBar, Send
<1>3. x \in Closes /\ x \in AllOps /\ x.op = "close"
  BY DEF Closes, AllOps
<1> HIDE DEF x
<1>4. SentTo(optCh, x, optCh')
  BY <1>1, <1>2, <1>3 DEF SentTo, BarType
<1>5. UNCHANGED <<setup, unregistered, producer, produced, comparing>>
  BY <1>2 DEF senders
<1>6. ASSUME NEW t \in BarTables
      PROVE  TableInv(t)' /\ (Begun(t)' <=> Begun(t)) /\ (Unstarted(t)' <=> Unstarted(t))
  <2>1. x \notin Regs(t) \cup TableOps(t)
    BY <1>3, OpsApart
  <2> QED BY <1>1, <1>2, <1>4, <1>5, <2>1, OtherSent
<1>7. BarType'
  <2>1. optCh' \in Seq(AllOps)
    BY <1>4, Sent
  <2> QED BY <1>1, <1>2, <1>5, <2>1 DEF BarType, entries, Registered
<1>8. QueueOK'
  <2>1. \A n \in 1 .. Len(optCh) : optCh[n].op # "close"
    BY <1>1, <1>2 DEF BarType
  <2>2. AllSent' /\ unregistered' = {}
    BY <1>2, <1>5 DEF AllSent
  <2>3. \A t \in BarTables : Begun(t)' => Begun(t)
    BY <1>6
  <2> QED BY <1>1, <1>2, <1>3, <1>4, <2>1, <2>2, <2>3, QueueSent
<1>9. CountersOK'
  BY <1>1, <1>2, <1>6, CountersKept
<1> QED BY <1>6, <1>7, <1>8, <1>9 DEF BarInv

-----------------------------------------------------------------------------
(* The progress bar: an operation is served.                               *)

\* What the server is given.
LEMMA Received ==
    ASSUME BarType, NEW k, Receive(k)
    PROVE  /\ ServedFrom(optCh, optCh') /\ serving
           /\ Head(optCh) = optCh[1] /\ optCh[1].op = k /\ optCh[1] \in AllOps
<1>1. ServedFrom(optCh, optCh') /\ serving /\ Head(optCh).op = k
  BY DEF Receive, ServedFrom, BarType
<1>2. Head(optCh) = optCh[1] /\ optCh[1] \in AllOps
  BY <1>1, Served
<1> QED BY <1>1, <1>2

\* A table is started just when its start is served, and before what else is
\* done with it.
LEMMA BegunServed ==
    ASSUME BarType, NEW t \in BarTables, OpsOK(t), ServedFrom(optCh, optCh'), UNCHANGED senders
    PROVE  /\ Begun(t)' <=> Begun(t) \/ optCh[1] \in Starts(t)
           /\ optCh[1] \in Starts(t) => ~Begun(t)
           /\ optCh[1] \in TableOps(t) /\ optCh[1] \notin Starts(t) => Begun(t)
           /\ Unstarted(t)' <=> Unstarted(t)
<1>1. Unstarted(t)' <=> Unstarted(t)
  BY DEF senders, Unstarted, Started, Known
<1>2. Among(optCh, Starts(t)) <=> Among(optCh', Starts(t)) \/ optCh[1] \in Starts(t)
  BY AmongServed
<1>3. 1 \in 1 .. Len(optCh) /\ Len(optCh') \in Nat
      /\ \A n \in 1 .. Len(optCh') : optCh'[n] = optCh[n + 1] /\ n + 1 \in 1 .. Len(optCh) /\ 1 < n + 1
  BY Served
<1>4. ASSUME optCh[1] \in TableOps(t) PROVE ~Unstarted(t) /\ ~Among(optCh', Starts(t))
  <2>1. ~Unstarted(t)
    BY <1>3, <1>4 DEF OpsOK
  <2>2. \A n \in 1 .. Len(optCh') : optCh'[n] \notin Starts(t)
    BY <1>3, <1>4 DEF OpsOK
  <2> QED BY <2>1, <2>2 DEF Among
<1>5. optCh[1] \in Starts(t) => optCh[1] \in TableOps(t)
  BY DEF TableOps
<1> QED BY <1>1, <1>2, <1>4, <1>5 DEF Begun

\* The operations of a table after one is served.
LEMMA OpsServed ==
    ASSUME BarType, NEW t \in BarTables, OpsOK(t), ServedFrom(optCh, optCh'), UNCHANGED senders
    PROVE  OpsOK(t)'
<1>1. /\ Len(optCh') \in Nat
      /\ \A n \in 1 .. Len(optCh') : optCh'[n] = optCh[n + 1] /\ n + 1 \in 1 .. Len(optCh)
      /\ \A m, n \in 1 .. Len(optCh') : m < n => m + 1 < n + 1
  BY Served
<1>2. /\ Result(t)' = Result(t) /\ Base(t)' = Base(t) /\ Known(t)' = Known(t) /\ setup' = setup
      /\ Registered(t)' = Registered(t) /\ (Unstarted(t)' <=> Unstarted(t)) /\ unregistered' = unregistered
  BY DEF senders, Result, Base, Known, Registered, Unstarted, Started
<1>3. \A n \in 1 .. Len(optCh') :
          /\ optCh'[n] \in Regs(t) => optCh'[n].result = Result(t) /\ Registered(t) /\ t \notin unregistered
          /\ optCh'[n] \in Starts(t) => optCh'[n].total = Base(t) /\ optCh'[n].stop = Known(t)
          /\ optCh'[n] \in Updates(t) => ~Known(t)
          /\ optCh'[n] \in Stops(t) => setup[t].kind = "bucket"
          /\ Unstarted(t) => optCh'[n] \notin TableOps(t)
  BY <1>1 DEF OpsOK
<1>4. \A m, n \in 1 .. Len(optCh') : m < n =>
          /\ optCh'[n] \in Regs(t) => optCh'[m] \notin Regs(t)
          /\ optCh'[n] \in Starts(t) => optCh'[m] \notin TableOps(t)
          /\ setup[t].kind = "limit" /\ optCh'[m] \in Lasts(t) => optCh'[n] \notin Updates(t)
  BY <1>1 DEF OpsOK
<1> QED BY <1>2, <1>3, <1>4 DEF OpsOK

\* The order of the channel after one is served.
LEMMA QueueServed ==
    ASSUME BarType, QueueOK, \A u \in BarTables : OpsOK(u), ServedFrom(optCh, optCh'), UNCHANGED senders,
           serving, serving' \/ (AllSent /\ optCh' = <<>>)
    PROVE  QueueOK'
<1>1. /\ Len(optCh') \in Nat /\ 1 \in 1 .. Len(optCh)
      /\ \A n \in 1 .. Len(optCh') : optCh'[n] = optCh[n + 1] /\ n + 1 \in 1 .. Len(optCh) /\ 1 < n + 1
      /\ \A m, n \in 1 .. Len(optCh') : m < n => m + 1 < n + 1
  BY Served
<1>2. \A m, n \in 1 .. Len(optCh') : m < n =>
          /\ optCh'[m].op # "close"
          /\ optCh'[n].op = "register" => optCh'[m].op = "register"
  BY <1>1 DEF QueueOK
<1>3. unregistered' = unregistered /\ (AllSent' <=> AllSent)
      /\ \A u \in BarTables : Unstarted(u)' <=> Unstarted(u)
  BY DEF senders, AllSent, Unstarted, Started, Known
<1>4. unregistered' # {} =>
          /\ \A n \in 1 .. Len(optCh') : optCh'[n].op = "register"
          /\ \A u \in BarTables : Unstarted(u)'
  BY <1>1, <1>3 DEF QueueOK
<1>5. ASSUME NEW n \in 1 .. Len(optCh')
      PROVE  /\ optCh'[n].op = "register" => \A u \in BarTables : ~Begun(u)'
             /\ optCh'[n].op = "close" => AllSent'
  <2>1. optCh'[n] = optCh[n + 1] /\ n + 1 \in 1 .. Len(optCh) /\ 1 < n + 1
    BY <1>1
  <2>2. optCh'[n].op = "close" => AllSent'
    BY <1>3, <2>1 DEF QueueOK
  <2>3. ASSUME optCh'[n].op = "register", NEW u \in BarTables PROVE ~Begun(u)'
    <3>1. optCh[1].op = "register" /\ ~Begun(u)
      BY <1>1, <2>1, <2>3 DEF QueueOK
    <3>2. optCh[1] \notin Starts(u)
      BY <3>1, OpFields
    <3> QED BY <3>1, <3>2, BegunServed
  <2> QED BY <2>2, <2>3
<1>6. ~serving' => AllSent' /\ optCh' = <<>>
  BY <1>3
<1> QED BY <1>2, <1>4, <1>5, <1>6 DEF QueueOK

\* What is counted of a table that is not finished moves from the channel to
\* its entry.
LEMMA CountsServed ==
    ASSUME BarType, NEW t \in BarTables, CountsOK(t), SendersOK(t), Live(t), ServedFrom(optCh, optCh'),
           UNCHANGED senders, Got(t) \in Nat, Tot(t) \in Nat,
           Got(t)' = Got(t) + One(optCh[1], Incs(t)), Tot(t)' = Tot(t) + One(optCh[1], Updates(t))
    PROVE  CountsOK(t)'
<1> DEFINE L == Len(optCh')
<1>1. /\ Len(optCh) = L + 1 /\ L \in Nat
      /\ \A n \in 1 .. L : optCh'[n] = optCh[n + 1] /\ n + 1 \in 1 .. Len(optCh)
      /\ \A n \in 0 .. L : n + 1 \in 0 .. Len(optCh)
  BY Served
<1>2. ASSUME NEW O
      PROVE  \A n \in 0 .. L : Num(optCh, O, n + 1) = Num(optCh', O, n) + One(optCh[1], O) /\ Num(optCh', O, n) \in Nat
  BY NumServed
<1>3. comparing' = comparing /\ setup' = setup /\ Announced(t)' = Announced(t)
  BY DEF senders, Announced, Known
<1>4. /\ Got(t) + Num(optCh, Incs(t), L + 1) = comparing[t].taken
      /\ Tot(t) + Num(optCh, Updates(t), L + 1) = Announced(t)
      /\ \A n \in 0 .. L : Got(t) + Num(optCh, Incs(t), n + 1) <= Tot(t) + Num(optCh, Updates(t), n + 1)
      /\ \A n \in 1 .. L :
            optCh'[n] \in Fails(t) => Got(t) + Num(optCh, Incs(t), n + 1) < setup[t].chunks
  BY <1>1 DEF CountsOK
<1>5. One(optCh[1], Incs(t)) \in Nat /\ One(optCh[1], Updates(t)) \in Nat
  BY DEF One
<1>6. L \in 0 .. L /\ \A n \in 1 .. L : n \in 0 .. L
  BY <1>1
<1> HIDE DEF L
<1>7. ASSUME NEW n \in 0 .. L
      PROVE  /\ Got(t)' + Num(optCh', Incs(t), n) = Got(t) + Num(optCh, Incs(t), n + 1)
             /\ Tot(t)' + Num(optCh', Updates(t), n) = Tot(t) + Num(optCh, Updates(t), n + 1)
  <2>1. /\ Num(optCh, Incs(t), n + 1) = Num(optCh', Incs(t), n) + One(optCh[1], Incs(t))
        /\ Num(optCh, Updates(t), n + 1) = Num(optCh', Updates(t), n) + One(optCh[1], Updates(t))
        /\ Num(optCh', Incs(t), n) \in Nat /\ Num(optCh', Updates(t), n) \in Nat
    BY <1>2
  <2> DEFINE a == Num(optCh', Incs(t), n)
             b == Num(optCh', Updates(t), n)
             c == One(optCh[1], Incs(t))
             d == One(optCh[1], Updates(t))
             g == Got(t)
             k == Tot(t)
  <2>2. /\ a \in Nat /\ b \in Nat /\ c \in Nat /\ d \in Nat /\ g \in Nat /\ k \in Nat
        /\ Got(t)' = g + c /\ Tot(t)' = k + d
        /\ Num(optCh, Incs(t), n + 1) = a + c /\ Num(optCh, Updates(t), n + 1) = b + d
    BY <1>5, <2>1
  <2> HIDE DEF a, b, c, d, g, k
  <2>3. Got(t)' + a = g + Num(optCh, Incs(t), n + 1) /\ Tot(t)' + b = k + Num(optCh, Updates(t), n + 1)
    BY <2>2
  <2> QED BY <2>3 DEF a, b, g, k
<1>8. /\ Got(t)' + Num(optCh', Incs(t), L) = comparing[t].taken
      /\ Tot(t)' + Num(optCh', Updates(t), L) = Announced(t)
  BY <1>4, <1>6, <1>7
<1>9. \A n \in 0 .. L : Got(t)' + Num(optCh', Incs(t), n) <= Tot(t)' + Num(optCh', Updates(t), n)
  BY <1>4, <1>7
<1>10. \A n \in 1 .. L : optCh'[n] \in Fails(t) => Got(t)' + Num(optCh', Incs(t), n) < setup[t].chunks
  BY <1>4, <1>6, <1>7
<1> QED BY <1>3, <1>8, <1>9, <1>10 DEF CountsOK, L

\* What is counted of a table that is not finished.
LEMMA LiveFacts ==
    ASSUME BarType, NEW t \in BarTables, Live(t)
    PROVE  /\ Got(t) \in Nat /\ Tot(t) \in Nat
           /\ t \in tableMap => entry[t] \in EntryRecord
           /\ CountsOK(t) => Got(t) <= Tot(t) /\ Got(t) <= comparing[t].taken /\ Tot(t) <= Announced(t)
<1>1. t \in tableMap =>
         /\ entry[t] \in EntryRecord /\ entry[t].progress \in Nat /\ entry[t].total \in Nat
  BY DEF BarType, EntryRecord
<1>2. Base(t) \in Nat
  BY SetupFacts DEF Base
<1>3. Got(t) \in Nat /\ Tot(t) \in Nat
  BY <1>1, <1>2 DEF Live, Got, Tot
<1>4. CountsOK(t) => Got(t) <= Tot(t) /\ Got(t) <= comparing[t].taken /\ Tot(t) <= Announced(t)
  <2> SUFFICES ASSUME CountsOK(t)
               PROVE  Got(t) <= Tot(t) /\ Got(t) <= comparing[t].taken /\ Tot(t) <= Announced(t)
    OBVIOUS
  <2>1. Len(optCh) \in Nat /\ 0 \in 0 .. Len(optCh)
    BY DEF BarType
  <2>2. \A n \in 1 .. 0 : optCh[n] \notin Incs(t) /\ optCh[n] \notin Updates(t)
    OBVIOUS
  <2>3. Num(optCh, Incs(t), 0) = 0 /\ Num(optCh, Updates(t), 0) = 0
    BY <2>2, NumType
  <2>4. Num(optCh, Incs(t), Len(optCh)) \in Nat /\ Num(optCh, Updates(t), Len(optCh)) \in Nat
    BY <2>1, NumType
  <2>5. /\ Got(t) + Num(optCh, Incs(t), Len(optCh)) = comparing[t].taken
        /\ Tot(t) + Num(optCh, Updates(t), Len(optCh)) = Announced(t)
        /\ Got(t) + Num(optCh, Incs(t), 0) <= Tot(t) + Num(optCh, Updates(t), 0)
    BY <2>1 DEF CountsOK
  <2> QED BY <1>3, <2>3, <2>4, <2>5
<1> QED BY <1>1, <1>3, <1>4

\* A table stands as it did when what is served is not about it, or comes
\* after it is finished.
LEMMA KeptServed ==
    ASSUME BarType, NEW t \in BarTables, TableInv(t), ServedFrom(optCh, optCh'), UNCHANGED senders,
           \/ optCh[1] \notin Regs(t) \cup TableOps(t)
           \/ optCh[1] \in TableOps(t) /\ optCh[1] \notin Starts(t) /\ t \notin tableMap,
           entry'[t] = entry[t], t \in tableMap' <=> t \in tableMap,
           t \in tableList' <=> t \in tableList, t \in tableFailList' <=> t \in tableFailList
    PROVE  TableInv(t)' /\ (Begun(t)' <=> Begun(t))
<1>1. OpsOK(t)' /\ SendersOK(t)'
  BY OpsServed DEF TableInv, senders, SendersOK, Unstarted, Started, Known
<1>2. /\ UNCHANGED <<setup, unregistered, producer, produced, comparing>>
      /\ LastSent(t)' <=> LastSent(t)
      /\ Known(t)' = Known(t) /\ Result(t)' = Result(t) /\ Registered(t)' = Registered(t) /\ Base(t)' = Base(t)
  BY DEF senders, LastSent, Known, Result, Registered, Base
<1>3. optCh[1] \notin Starts(t)
  BY DEF TableOps
<1>4. Begun(t)' <=> Begun(t)
  BY <1>3, BegunServed DEF TableInv
<1>5. Live(t)' <=> Live(t)
  BY <1>4 DEF Live
<1>6. /\ Among(optCh', Lasts(t)) => Among(optCh, Lasts(t))
      /\ Among(optCh', Updates(t)) => Among(optCh, Updates(t))
  BY AmongServed
<1>7. CASE optCh[1] \notin Regs(t) \cup TableOps(t)
  <2>1. /\ optCh[1] \notin Updates(t) /\ optCh[1] \notin Fails(t) /\ optCh[1] \notin Incs(t)
        /\ optCh[1] \notin Regs(t) /\ optCh[1] \notin Lasts(t)
    BY <1>7, OpFields DEF TableOps
  <2>2. /\ Among(optCh', Fails(t)) <=> Among(optCh, Fails(t))
        /\ Among(optCh', Regs(t)) <=> Among(optCh, Regs(t))
        /\ Among(optCh', Lasts(t)) <=> Among(optCh, Lasts(t))
    BY <2>1, AmongServed
  <2>3. CountsOK(t)'
    <3>1. CASE Live(t)
      <4>1. One(optCh[1], Incs(t)) = 0 /\ One(optCh[1], Updates(t)) = 0
        BY <2>1 DEF One
      <4>2. Got(t)' = Got(t) /\ Tot(t)' = Tot(t) /\ Got(t) \in Nat /\ Tot(t) \in Nat
        BY <1>2, <1>4, <3>1, LiveFacts DEF Got, Tot
      <4>3. Got(t)' = Got(t) + One(optCh[1], Incs(t)) /\ Tot(t)' = Tot(t) + One(optCh[1], Updates(t))
        BY <4>1, <4>2
      <4> QED BY <3>1, <4>2, <4>3, CountsServed DEF TableInv
    <3>2. CASE ~Live(t)
      BY <1>5, <3>2 DEF CountsOK
    <3> QED BY <3>1, <3>2
  <2>4. WaitingOK(t)'
    BY <1>2, <1>4, <2>2 DEF TableInv, WaitingOK, RegWaits
  <2>5. BegunOK(t)' /\ LimitOK(t)'
    BY <1>2, <1>4, <1>5, <1>6, <2>2 DEF TableInv, BegunOK, LimitOK
  <2>6. FailsOK(t)'
    BY <1>2, <1>4, <1>5, <2>2 DEF TableInv, FailsOK
  <2> QED BY <1>1, <1>4, <2>3, <2>4, <2>5, <2>6 DEF TableInv
<1>8. CASE optCh[1] \in TableOps(t) /\ optCh[1] \notin Starts(t) /\ t \notin tableMap
  <2>1. Begun(t) /\ ~Live(t) /\ Begun(t)' /\ ~Live(t)' /\ t \notin tableMap'
    BY <1>4, <1>8, BegunServed DEF TableInv, Live
  <2>2. CountsOK(t)' /\ FailsOK(t)' /\ WaitingOK(t)'
    BY <2>1 DEF CountsOK, FailsOK, WaitingOK
  <2>3. BegunOK(t)' /\ LimitOK(t)'
    BY <1>2, <1>6, <2>1 DEF TableInv, BegunOK, LimitOK
  <2> QED BY <1>1, <1>4, <2>2, <2>3 DEF TableInv
<1> QED BY <1>7, <1>8

-----------------------------------------------------------------------------
(* The progress bar: its counters.                                         *)

\* f[t] cells for each table t of M.
Cells(M, f) == UNION {{u} \X (1 .. f[u]) : u \in M}
Totals == [t \in BarTables |-> entry[t].total]
Progresses == [t \in BarTables |-> entry[t].progress]

\* The cells of the bar are those of the totals and of the progresses.
LEMMA BarCells ==
    ASSUME BarType
    PROVE  TotalCells = Cells(tableMap, Totals) /\ ProgressCells = Cells(tableMap, Progresses)
<1>1. \A u \in tableMap : Totals[u] = entry[u].total /\ Progresses[u] = entry[u].progress
  BY DEF BarType, Totals, Progresses
<1> HIDE DEF Totals, Progresses
<1>2. Cells(tableMap, Totals) = TotalCells
  BY <1>1 DEF TotalCells, Cells
<1>3. Cells(tableMap, Progresses) = ProgressCells
  BY <1>1 DEF ProgressCells, Cells
<1> QED BY <1>2, <1>3

\* The cells of one table.
LEMMA OneTableCells ==
    ASSUME NEW t, NEW k \in Nat
    PROVE  IsFiniteSet({t} \X (1 .. k)) /\ Cardinality({t} \X (1 .. k)) = k
<1>1. IsFiniteSet({t}) /\ Cardinality({t}) = 1
  BY FS_Singleton
<1>2. IsFiniteSet(1 .. k) /\ Cardinality(1 .. k) = k
  BY FS_Interval
<1>3. IsFiniteSet({t} \X (1 .. k)) /\ Cardinality({t} \X (1 .. k)) = Cardinality({t}) * Cardinality(1 .. k)
  BY <1>1, <1>2, FS_Product
<1> QED BY <1>1, <1>2, <1>3

\* The cells of a table are not those of the others.
LEMMA CellsSplit ==
    ASSUME NEW M, NEW f, NEW t, NEW a \in Nat, t \in M => a = f[t], t \notin M => a = 0,
           IsFiniteSet(Cells(M \ {t}, f))
    PROVE  IsFiniteSet(Cells(M, f)) /\ Cardinality(Cells(M, f)) = Cardinality(Cells(M \ {t}, f)) + a
<1> DEFINE R == Cells(M \ {t}, f)
           A == {t} \X (1 .. a)
<1>1. IsFiniteSet(A) /\ Cardinality(A) = a
  BY OneTableCells
<1>2. R \cap A = {}
  BY DEF Cells
<1>3. Cells(M, f) = R \cup A
  <2>1. CASE t \in M
    <3>1. A = {t} \X (1 .. f[t])
      BY <2>1
    <3>2. ASSUME NEW c PROVE c \in Cells(M, f) <=> c \in R \cup ({t} \X (1 .. f[t]))
      BY <2>1 DEF Cells
    <3> QED BY <3>1, <3>2
  <2>2. CASE t \notin M
    <3>1. M \ {t} = M /\ A = {}
      BY <2>2
    <3> QED BY <3>1
  <2> QED BY <2>1, <2>2
<1> HIDE DEF R, A
<1>4. IsFiniteSet(R)
  BY DEF R
<1>5. IsFiniteSet(R \cup A) /\ Cardinality(R \cup A) = Cardinality(R) + Cardinality(A) - Cardinality(R \cap A)
  BY <1>1, <1>4, FS_Union
<1>6. Cardinality(R \cap A) = 0 /\ Cardinality(R) \in Nat
  BY <1>2, <1>4, FS_EmptySet, FS_CardinalityType
<1>7. Cardinality(R \cup A) = Cardinality(R) + a
  BY <1>1, <1>5, <1>6
<1> QED BY <1>3, <1>5, <1>7 DEF R

\* Table t, with a cells of those of f in M, comes to have b of those of g in N.
CellsMove(M, f, N, g, t, a, b) ==
    /\ a \in Nat /\ b \in Nat /\ IsFiniteSet(Cells(M, f))
    /\ M \ {t} = N \ {t} /\ \A u \in M \ {t} : f[u] = g[u]
    /\ t \in M => a = f[t]
    /\ t \notin M => a = 0
    /\ t \in N => b = g[t]
    /\ t \notin N => b = 0

\* The cells when one table changes.
LEMMA CellsStep ==
    ASSUME NEW M, NEW f, NEW N, NEW g, NEW t, NEW a, NEW b, CellsMove(M, f, N, g, t, a, b)
    PROVE  /\ IsFiniteSet(Cells(N, g))
           /\ Cardinality(Cells(N, g)) + a = Cardinality(Cells(M, f)) + b
           /\ Cardinality(Cells(M, f)) \in Nat /\ Cardinality(Cells(N, g)) \in Nat
<1> USE DEF CellsMove
<1>1. Cells(M \ {t}, f) \subseteq Cells(M, f)
  BY DEF Cells
<1>2. Cells(N \ {t}, g) = Cells(M \ {t}, f)
  <2>1. \A u \in N \ {t} : {u} \X (1 .. g[u]) = {u} \X (1 .. f[u])
    OBVIOUS
  <2> QED BY <2>1 DEF Cells
<1>3. IsFiniteSet(Cells(M \ {t}, f)) /\ IsFiniteSet(Cells(N \ {t}, g))
  BY <1>1, <1>2, FS_Subset
<1>4. Cardinality(Cells(M, f)) = Cardinality(Cells(M \ {t}, f)) + a
  BY <1>3, CellsSplit
<1>5. IsFiniteSet(Cells(N, g)) /\ Cardinality(Cells(N, g)) = Cardinality(Cells(N \ {t}, g)) + b
  BY <1>3, CellsSplit
<1>6. Cardinality(Cells(M \ {t}, f)) \in Nat
  BY <1>3, FS_CardinalityType
<1> QED BY <1>2, <1>4, <1>5, <1>6

\* The counters after one table changes: c, b and p, q stand for its total and
\* progress on the bar before and after.
LEMMA CountersServed ==
    ASSUME BarType, BarType', CountersOK, NEW t \in BarTables,
           NEW c \in Nat, NEW b \in Nat, NEW p \in Nat, NEW q \in Nat,
           tableMap \ {t} = tableMap' \ {t}, \A u \in BarTables \ {t} : entry'[u] = entry[u],
           t \in tableMap => c = entry[t].total /\ p = entry[t].progress,
           t \notin tableMap => c = 0 /\ p = 0,
           t \in tableMap' => b = entry'[t].total /\ q = entry'[t].progress,
           t \notin tableMap' => b = 0 /\ q = 0,
           total' = total + b - c, progress' = progress + q - p,
           progressTableNums' = Cardinality({u \in tableList : Begun(u)}'),
           finishTableNums' = Finished + Cardinality({u \in BarTables : Begun(u) /\ u \notin tableList}')
    PROVE  CountersOK'
<1>1. tableMap \subseteq BarTables
  BY DEF BarType
<1>2. \A u \in tableMap \ {t} : Totals[u] = Totals'[u] /\ Progresses[u] = Progresses'[u]
  BY <1>1 DEF Totals, Progresses
<1>3. /\ t \in tableMap => c = Totals[t] /\ p = Progresses[t]
      /\ t \in tableMap' => b = Totals'[t] /\ q = Progresses'[t]
  BY DEF Totals, Progresses
<1>4. /\ TotalCells = Cells(tableMap, Totals) /\ ProgressCells = Cells(tableMap, Progresses)
      /\ TotalCells' = Cells(tableMap', Totals') /\ ProgressCells' = Cells(tableMap', Progresses')
  <2>1. TotalCells = Cells(tableMap, Totals) /\ ProgressCells = Cells(tableMap, Progresses)
    BY BarCells
  <2>2. \A u \in tableMap' : Totals'[u] = entry'[u].total /\ Progresses'[u] = entry'[u].progress
    BY DEF BarType, Totals, Progresses
  <2> HIDE DEF Totals, Progresses
  <2>3. TotalCells' = Cells(tableMap', Totals')
    BY <2>2 DEF TotalCells, Cells
  <2>4. ProgressCells' = Cells(tableMap', Progresses')
    BY <2>2 DEF ProgressCells, Cells
  <2> QED BY <2>1, <2>3, <2>4
<1> HIDE DEF Totals, Progresses
<1>5. IsFiniteSet(Cells(tableMap, Totals)) /\ IsFiniteSet(Cells(tableMap, Progresses))
  BY <1>4 DEF CountersOK
<1>6. /\ IsFiniteSet(Cells(tableMap', Totals'))
      /\ Cardinality(Cells(tableMap', Totals')) + c = Cardinality(Cells(tableMap, Totals)) + b
      /\ Cardinality(Cells(tableMap, Totals)) \in Nat /\ Cardinality(Cells(tableMap', Totals')) \in Nat
  <2> DEFINE M == tableMap
             N == tableMap'
             f == Totals
             g == Totals'
  <2>1. CellsMove(M, f, N, g, t, c, b)
    BY <1>2, <1>3, <1>5 DEF CellsMove
  <2> HIDE DEF M, N, f, g
  <2>2. /\ IsFiniteSet(Cells(N, g))
        /\ Cardinality(Cells(N, g)) + c = Cardinality(Cells(M, f)) + b
        /\ Cardinality(Cells(M, f)) \in Nat /\ Cardinality(Cells(N, g)) \in Nat
    BY <2>1, CellsStep
  <2> QED BY <2>2 DEF M, N, f, g
<1>7. /\ IsFiniteSet(Cells(tableMap', Progresses'))
      /\ Cardinality(Cells(tableMap', Progresses')) + p = Cardinality(Cells(tableMap, Progresses)) + q
      /\ Cardinality(Cells(tableMap, Progresses)) \in Nat /\ Cardinality(Cells(tableMap', Progresses')) \in Nat
  <2> DEFINE M == tableMap
             N == tableMap'
             f == Progresses
             g == Progresses'
  <2>1. CellsMove(M, f, N, g, t, p, q)
    BY <1>2, <1>3, <1>5 DEF CellsMove
  <2> HIDE DEF M, N, f, g
  <2>2. /\ IsFiniteSet(Cells(N, g))
        /\ Cardinality(Cells(N, g)) + p = Cardinality(Cells(M, f)) + q
        /\ Cardinality(Cells(M, f)) \in Nat /\ Cardinality(Cells(N, g)) \in Nat
    BY <2>1, CellsStep
  <2> QED BY <2>2 DEF M, N, f, g
<1>8. total = Cardinality(Cells(tableMap, Totals)) /\ progress = Cardinality(Cells(tableMap, Progresses))
  BY <1>4 DEF CountersOK
<1>9. total' = Cardinality(Cells(tableMap', Totals')) /\ progress' = Cardinality(Cells(tableMap', Progresses'))
  BY <1>6, <1>7, <1>8
<1> QED BY <1>4, <1>6, <1>7, <1>9 DEF CountersOK

-----------------------------------------------------------------------------
(* The progress bar: the steps of the server.                              *)

\* All but table t stand as they did.
OthersKept(t) ==
    /\ \A u \in BarTables \ {t} : entry'[u] = entry[u]
    /\ tableMap' \ {t} = tableMap \ {t} /\ tableList' \ {t} = tableList \ {t}
    /\ tableFailList' \ {t} = tableFailList \ {t}

\* The rest of a step that is about one table.
LEMMA ServeStep ==
    ASSUME BarInv, NEW t \in BarTables, ServedFrom(optCh, optCh'), UNCHANGED senders, serving, serving' = serving,
           optCh[1] \in Regs(t) \cup TableOps(t), OthersKept(t), BarType', CountersOK', TableInv(t)'
    PROVE  BarInv'
<1>1. BarType /\ QueueOK /\ \A u \in BarTables : TableInv(u) /\ OpsOK(u)
  BY DEF BarInv, TableInv
<1>2. QueueOK'
  BY <1>1, QueueServed
<1>3. ASSUME NEW u \in BarTables, u # t PROVE TableInv(u)'
  <2>1. optCh[1] \notin Regs(u) \cup TableOps(u)
    BY <1>3, OpsApart
  <2>2. /\ entry'[u] = entry[u] /\ (u \in tableMap' <=> u \in tableMap)
        /\ u \in tableList' <=> u \in tableList
        /\ u \in tableFailList' <=> u \in tableFailList
    BY <1>3 DEF OthersKept
  <2> QED BY <1>1, <2>1, <2>2, KeptServed
<1> QED BY <1>2, <1>3 DEF BarInv

\* An operation that leaves the entries alone.
LEMMA IdleStep ==
    ASSUME BarInv, ServedFrom(optCh, optCh'), UNCHANGED senders, serving, serving' \/ (AllSent /\ optCh' = <<>>),
           UNCHANGED <<entries, counters>>, serving' \in BOOLEAN,
           \A t \in BarTables : \/ optCh[1] \notin Regs(t) \cup TableOps(t)
                                \/ optCh[1] \in TableOps(t) /\ optCh[1] \notin Starts(t) /\ t \notin tableMap
    PROVE  BarInv'
<1>1. BarType /\ QueueOK /\ CountersOK /\ \A u \in BarTables : TableInv(u) /\ OpsOK(u)
  BY DEF BarInv, TableInv
<1>2. QueueOK'
  BY <1>1, QueueServed
<1>3. UNCHANGED <<entry, tableMap, tableList, tableFailList>>
  BY DEF entries
<1>4. \A u \in BarTables : TableInv(u)' /\ (Begun(u)' <=> Begun(u))
  BY <1>1, <1>3, KeptServed
<1>5. CountersOK'
  BY <1>1, <1>4, CountersKept
<1>6. optCh' \in Seq(AllOps)
  BY Served
<1>7. BarType'
  BY <1>1, <1>3, <1>6 DEF BarType, senders, Registered
<1> QED BY <1>2, <1>4, <1>5, <1>7 DEF BarInv

\* ServeClose.
LEMMA ServeCloseStep == ASSUME BarInv, ServeClose PROVE BarInv'
<1>1. BarType /\ QueueOK
  BY DEF BarInv
<1>2. Receive("close") /\ serving' = FALSE /\ UNCHANGED <<senders, entries, counters>>
  BY DEF ServeClose
<1>3. ServedFrom(optCh, optCh') /\ serving /\ optCh[1].op = "close"
  BY <1>1, <1>2, Received
<1>4. \A t \in BarTables : optCh[1] \notin Regs(t) \cup TableOps(t)
  BY <1>3, OpFields DEF TableOps
<1>5. optCh' = <<>>
  <2>1. /\ optCh' \in Seq(AllOps) /\ Len(optCh') \in Nat /\ 1 \in 1 .. Len(optCh)
        /\ \A n \in 1 .. Len(optCh') : n + 1 \in 1 .. Len(optCh) /\ 1 < n + 1
    BY <1>3, Served
  <2>2. \A n \in 1 .. Len(optCh) : ~(1 < n)
    BY <1>1, <1>3, <2>1 DEF QueueOK
  <2>3. \A n \in 1 .. Len(optCh') : FALSE
    BY <2>1, <2>2
  <2>4. Len(optCh') = 0
    BY <2>1, <2>3
  <2> QED BY <2>1, <2>4
<1>6. AllSent
  BY <1>1, <1>3, Served DEF QueueOK
<1> QED BY <1>2, <1>3, <1>4, <1>5, <1>6, IdleStep

\* The tables that are started and listed, and started and not, when the steps
\* starts none.
LEMMA SameBegun ==
    ASSUME BarType, CountersOK, \A u \in BarTables : Begun(u)' <=> Begun(u),
           tableList' = tableList, UNCHANGED <<progressTableNums, finishTableNums>>
    PROVE  /\ progressTableNums' = Cardinality({u \in tableList : Begun(u)}')
           /\ finishTableNums' = Finished + Cardinality({u \in BarTables : Begun(u) /\ u \notin tableList}')
<1>1. {u \in tableList : Begun(u)}' = {u \in tableList : Begun(u)}
  BY DEF BarType
<1>2. {u \in BarTables : Begun(u) /\ u \notin tableList}' = {u \in BarTables : Begun(u) /\ u \notin tableList}
  OBVIOUS
<1> QED BY <1>1, <1>2 DEF CountersOK

\* ServeUpdate.
LEMMA ServeUpdateStep == ASSUME BarInv, ServeUpdate PROVE BarInv'
<1> SUFFICES ASSUME NEW o, o = Head(optCh), NEW t, t = o.table PROVE BarInv'
  OBVIOUS
<1>1. BarType /\ CountersOK /\ \A u \in BarTables : TableInv(u) /\ OpsOK(u) /\ SendersOK(u)
  BY DEF BarInv, TableInv
<1>2. /\ Receive("update") /\ UNCHANGED senders
      /\ UNCHANGED <<tableMap, tableList, tableFailList, progressTableNums, finishTableNums, progress, serving>>
      /\ IF t \in tableMap
         THEN /\ entry' = [entry EXCEPT ![t].total = @ + o.total, ![t].stop = o.stop]
              /\ total' = total + o.total
         ELSE UNCHANGED <<entry, total>>
  BY DEF ServeUpdate
<1>3. ServedFrom(optCh, optCh') /\ serving /\ o = optCh[1] /\ o.op = "update" /\ o \in AllOps
  BY <1>1, <1>2, Received
<1>4. t \in BarTables /\ o \in Updates(t) \cup Stops(t)
  BY <1>3, OpOfTable
<1>5. o.total \in Nat /\ o.stop \in BOOLEAN /\ o.total = One(o, Updates(t)) /\ One(o, Incs(t)) = 0
  <2>1. CASE o \in Updates(t)
    <3>1. o \notin Incs(t) /\ o.total = 1
      BY <2>1, OpsApart, OpFields
    <3>2. o.stop \in BOOLEAN
      BY <2>1 DEF Updates
    <3> QED BY <2>1, <3>1, <3>2 DEF One
  <2>2. CASE o \in Stops(t)
    <3>1. o \notin Incs(t) /\ o \notin Updates(t) /\ o.total = 0
      BY <2>2, OpsApart, OpFields
    <3>2. o.stop \in BOOLEAN
      BY <2>2 DEF Stops
    <3> QED BY <3>1, <3>2 DEF One
  <2> QED BY <1>4, <2>1, <2>2
<1>6. o \in TableOps(t) /\ o \notin Starts(t) /\ o \notin Fails(t) /\ o \notin Regs(t)
  BY <1>4, OpsApart DEF TableOps
<1>7. Begun(t) /\ \A u \in BarTables : Begun(u)' <=> Begun(u)
  <2>1. \A u \in BarTables : u # t => o \notin Starts(u)
    BY <1>6, OpsApart DEF TableOps
  <2> QED BY <1>1, <1>2, <1>3, <1>4, <1>6, <2>1, BegunServed
<1>8. CASE t \notin tableMap
  <2>1. \A u \in BarTables : u # t => o \notin Regs(u) \cup TableOps(u)
    BY <1>6, OpsApart
  <2> QED BY <1>2, <1>3, <1>6, <1>8, <2>1, IdleStep DEF entries, counters
<1>9. CASE t \in tableMap
  <2>1. entry[t] \in EntryRecord /\ Live(t) /\ Got(t) = entry[t].progress /\ Tot(t) = entry[t].total
    BY <1>1, <1>4, <1>7, <1>9 DEF BarType, Live, Got, Tot
  <2> DEFINE b == [entry[t] EXCEPT !.total = @ + o.total]
             e == [b EXCEPT !.stop = o.stop]
  <2>2. entry' = [entry EXCEPT ![t] = e] /\ total' = total + o.total
    <3>1. entry \in [BarTables -> EntryRecord \cup {NoTable}]
      BY <1>1 DEF BarType
    <3>2. entry' = [entry EXCEPT ![t].total = @ + o.total, ![t].stop = o.stop] /\ total' = total + o.total
      BY <1>2, <1>9
    <3> QED BY <1>4, <3>1, <3>2
  <2>3. /\ e.phase = entry[t].phase /\ e.result = entry[t].result /\ e.progress = entry[t].progress
        /\ e.total = entry[t].total + o.total /\ e.stop = o.stop /\ e \in EntryRecord
    <3>1. /\ b \in EntryRecord /\ b.phase = entry[t].phase /\ b.result = entry[t].result
          /\ b.progress = entry[t].progress /\ b.total = entry[t].total + o.total
      BY <1>5, <2>1 DEF EntryRecord
    <3> HIDE DEF b
    <3> QED BY <1>5, <3>1 DEF EntryRecord
  <2> HIDE DEF b, e
  <2>4. entry'[t] = e /\ \A u \in BarTables \ {t} : entry'[u] = entry[u]
    BY <1>1, <1>4, <2>2 DEF BarType
  <2>5. OthersKept(t)
    BY <1>2, <2>4 DEF OthersKept
  <2>6. BarType'
    <3>1. optCh' \in Seq(AllOps)
      BY <1>3, Served
    <3>2. entry' \in [BarTables -> EntryRecord \cup {NoTable}]
      BY <1>1, <1>4, <2>2, <2>3 DEF BarType
    <3>3. \A u \in tableMap' \cup tableList' : entry'[u] \in EntryRecord
      BY <1>1, <1>2, <2>3, <2>4 DEF BarType
    <3> QED BY <1>1, <1>2, <3>1, <3>2, <3>3 DEF BarType, senders, Registered
  <2>7. OpsOK(t)' /\ SendersOK(t)' /\ WaitingOK(t)'
    BY <1>1, <1>2, <1>3, <1>4, <1>7, OpsServed DEF senders, SendersOK, Unstarted, Started, Known, WaitingOK
  <2>8. entry[t].progress \in Nat /\ entry[t].total \in Nat /\ entry[t].progress <= entry[t].total
    BY <1>1, <1>4, <2>1, LiveFacts DEF TableInv
  <2>9. CountsOK(t)'
    <3>1. Got(t)' = entry[t].progress /\ Tot(t)' = entry[t].total + o.total
      BY <1>4, <1>7, <2>3, <2>4 DEF Got, Tot
    <3>2. Got(t)' = Got(t) + One(o, Incs(t)) /\ Tot(t)' = Tot(t) + One(o, Updates(t))
      BY <1>5, <2>1, <2>8, <3>1
    <3> QED BY <1>1, <1>2, <1>3, <1>4, <2>1, <2>8, <3>2, CountsServed DEF TableInv
  <2>10. o \in Lasts(t) => Among(optCh, Lasts(t)) /\ (setup[t].kind = "limit" => ~Among(optCh', Updates(t)))
    <3>1. Len(optCh') \in Nat /\ 1 \in 1 .. Len(optCh)
          /\ \A n \in 1 .. Len(optCh') : optCh'[n] = optCh[n + 1] /\ n + 1 \in 1 .. Len(optCh) /\ 1 < n + 1
      BY <1>3, Served
    <3>2. o \in Lasts(t) => Among(optCh, Lasts(t))
      BY <1>3, <3>1 DEF Among
    <3>3. \A n \in 1 .. Len(optCh') :
             setup[t].kind = "limit" /\ o \in Lasts(t) => optCh'[n] \notin Updates(t)
      BY <1>1, <1>3, <1>4, <3>1 DEF OpsOK
    <3> QED BY <3>2, <3>3 DEF Among
  <2>11. setup[t].kind = "limit" => o \in Updates(t) /\ (o.stop <=> o \in Lasts(t))
    BY <1>1, <1>3, <1>4, Served DEF OpsOK, Lasts
  <2>12. ~Known(t) /\ setup' = setup /\ Known(t)' = Known(t) /\ (LastSent(t)' <=> LastSent(t))
    <3>1. ~Known(t)
      BY <1>1, <1>3, <1>4, Served DEF OpsOK, Known
    <3> QED BY <1>2, <3>1 DEF senders, Known, LastSent
  <2>13. BegunOK(t)'
    <3>1. setup[t].kind = "limit" /\ e.stop => e.progress < e.total /\ ~Among(optCh', Updates(t))
      BY <1>5, <2>3, <2>8, <2>10, <2>11, OpFields
    <3> QED BY <1>1, <1>2, <1>4, <1>7, <1>9, <2>3, <2>4, <2>12, <3>1 DEF TableInv, BegunOK
  <2>14. LimitOK(t)'
    <3>1. Among(optCh, Lasts(t)) <=> Among(optCh', Lasts(t)) \/ o \in Lasts(t)
      BY <1>3, AmongServed
    <3>2. setup[t].kind = "limit" => ~entry[t].stop
      <4>1. o \in Updates(t) => Among(optCh, Updates(t))
        BY <1>3, AmongServed
      <4> QED BY <1>1, <1>4, <1>7, <1>9, <2>11, <4>1 DEF TableInv, BegunOK
    <3> QED BY <1>1, <1>2, <1>4, <1>7, <1>9, <2>1, <2>3, <2>4, <2>11, <2>12, <3>1, <3>2 DEF TableInv, LimitOK
  <2>15. FailsOK(t)'
    <3>1. Among(optCh', Fails(t)) <=> Among(optCh, Fails(t))
      BY <1>3, <1>6, AmongServed
    <3>2. comparing' = comparing /\ setup' = setup
      BY <1>2 DEF senders
    <3> QED BY <1>1, <1>2, <1>4, <1>7, <2>1, <2>3, <2>4, <3>1, <3>2 DEF TableInv, FailsOK
  <2>16. TableInv(t)'
    BY <2>7, <2>9, <2>13, <2>14, <2>15 DEF TableInv
  <2>17. CountersOK'
    <3>1. /\ progressTableNums' = Cardinality({u \in tableList : Begun(u)}')
          /\ finishTableNums' = Finished + Cardinality({u \in BarTables : Begun(u) /\ u \notin tableList}')
      BY <1>1, <1>2, <1>7, SameBegun
    <3>2. e.total \in Nat /\ e.progress \in Nat
      BY <2>3 DEF EntryRecord
    <3>3. IsFiniteSet(TotalCells) /\ IsFiniteSet(ProgressCells) /\ total \in Nat /\ progress \in Nat
      BY <1>1, FS_CardinalityType DEF CountersOK
    <3>4. total' = total + e.total - entry[t].total /\ progress' = progress + e.progress - entry[t].progress
      BY <1>2, <1>5, <2>2, <2>3, <2>8, <3>3
    <3> QED BY <1>1, <1>2, <1>4, <1>9, <2>4, <2>6, <2>8, <3>1, <3>2, <3>4, CountersServed
  <2> QED BY <1>2, <1>3, <1>4, <1>6, <2>5, <2>6, <2>16, <2>17, ServeStep
<1> QED BY <1>8, <1>9

\* ServeFail.
LEMMA ServeFailStep == ASSUME BarInv, ServeFail PROVE BarInv'
<1> SUFFICES ASSUME NEW o, o = Head(optCh), NEW t, t = o.table PROVE BarInv'
  OBVIOUS
<1>1. BarType /\ CountersOK /\ \A u \in BarTables : TableInv(u) /\ OpsOK(u) /\ SendersOK(u)
  BY DEF BarInv, TableInv
<1>2. /\ Receive("fail") /\ UNCHANGED senders
      /\ UNCHANGED <<tableMap, tableList, tableFailList, counters, serving>>
      /\ entry' = IF t \in tableMap THEN [entry EXCEPT ![t].result = @ \cup {"different"}] ELSE entry
  BY DEF ServeFail
<1>3. ServedFrom(optCh, optCh') /\ serving /\ o = optCh[1] /\ o.op = "fail" /\ o \in AllOps
  BY <1>1, <1>2, Received
<1>4. t \in BarTables /\ o \in Fails(t)
  BY <1>3, OpOfTable
<1>5. One(o, Updates(t)) = 0 /\ One(o, Incs(t)) = 0
  BY <1>4, OpsApart DEF One
<1>6. o \in TableOps(t) /\ o \notin Starts(t) /\ o \notin Updates(t) /\ o \notin Regs(t)
  BY <1>4, OpsApart DEF TableOps
<1>7. Begun(t) /\ \A u \in BarTables : Begun(u)' <=> Begun(u)
  <2>1. \A u \in BarTables : u # t => o \notin Starts(u)
    BY <1>6, OpsApart DEF TableOps
  <2> QED BY <1>1, <1>2, <1>3, <1>4, <1>6, <2>1, BegunServed
<1>8. CASE t \notin tableMap
  <2>1. \A u \in BarTables : u # t => o \notin Regs(u) \cup TableOps(u)
    BY <1>6, OpsApart
  <2> QED BY <1>1, <1>2, <1>3, <1>6, <1>8, <2>1, IdleStep DEF entries, BarType
<1>9. CASE t \in tableMap
  <2>1. entry[t] \in EntryRecord /\ Live(t) /\ Got(t) = entry[t].progress /\ Tot(t) = entry[t].total
    BY <1>1, <1>4, <1>7, <1>9 DEF BarType, Live, Got, Tot
  <2> DEFINE e == [entry[t] EXCEPT !.result = @ \cup {"different"}]
  <2>2. entry' = [entry EXCEPT ![t] = e]
    BY <1>2, <1>9
  <2>3. /\ e.phase = entry[t].phase /\ e.result = entry[t].result \cup {"different"}
        /\ e.progress = entry[t].progress /\ e.total = entry[t].total /\ e.stop = entry[t].stop
        /\ e \in EntryRecord
    BY <2>1 DEF EntryRecord, Results
  <2> HIDE DEF e
  <2>4. entry'[t] = e /\ \A u \in BarTables \ {t} : entry'[u] = entry[u]
    BY <1>1, <1>4, <2>2 DEF BarType
  <2>5. OthersKept(t)
    BY <1>2, <2>4 DEF OthersKept
  <2>6. BarType'
    <3>1. optCh' \in Seq(AllOps)
      BY <1>3, Served
    <3>2. entry' \in [BarTables -> EntryRecord \cup {NoTable}]
      BY <1>1, <1>4, <2>2, <2>3 DEF BarType
    <3>3. \A u \in tableMap' \cup tableList' : entry'[u] \in EntryRecord
      BY <1>1, <1>2, <2>3, <2>4 DEF BarType
    <3> QED BY <1>1, <1>2, <3>1, <3>2, <3>3 DEF BarType, senders, Registered
  <2>7. OpsOK(t)' /\ SendersOK(t)' /\ WaitingOK(t)'
    BY <1>1, <1>2, <1>3, <1>4, <1>7, OpsServed DEF senders, SendersOK, Unstarted, Started, Known, WaitingOK
  <2>8. entry[t].progress \in Nat /\ entry[t].total \in Nat /\ entry[t].progress <= entry[t].total
    BY <1>1, <1>4, <2>1, LiveFacts DEF TableInv
  <2>9. CountsOK(t)'
    <3>1. Got(t)' = entry[t].progress /\ Tot(t)' = entry[t].total
      BY <1>4, <1>7, <2>3, <2>4 DEF Got, Tot
    <3>2. Got(t)' = Got(t) + One(o, Incs(t)) /\ Tot(t)' = Tot(t) + One(o, Updates(t))
      BY <1>5, <2>1, <2>8, <3>1
    <3> QED BY <1>1, <1>2, <1>3, <1>4, <2>1, <2>8, <3>2, CountsServed DEF TableInv
  <2>10. /\ Among(optCh', Lasts(t)) <=> Among(optCh, Lasts(t))
         /\ Among(optCh', Updates(t)) <=> Among(optCh, Updates(t))
         /\ Among(optCh, Fails(t))
    BY <1>3, <1>4, <1>6, AmongServed, OpFields
  <2>11. /\ comparing' = comparing /\ setup' = setup /\ Known(t)' = Known(t) /\ (LastSent(t)' <=> LastSent(t))
    BY <1>2 DEF senders, Known, LastSent
  <2>12. BegunOK(t)' /\ LimitOK(t)'
    BY <1>1, <1>2, <1>4, <1>7, <1>9, <2>1, <2>3, <2>4, <2>10, <2>11 DEF TableInv, BegunOK, LimitOK, Live
  <2>13. FailsOK(t)'
    BY <1>1, <1>2, <1>4, <1>7, <2>1, <2>3, <2>4, <2>10, <2>11 DEF TableInv, FailsOK
  <2>14. TableInv(t)'
    BY <2>7, <2>9, <2>12, <2>13 DEF TableInv
  <2>15. CountersOK'
    <3>1. /\ progressTableNums' = Cardinality({u \in tableList : Begun(u)}')
          /\ finishTableNums' = Finished + Cardinality({u \in BarTables : Begun(u) /\ u \notin tableList}')
      BY <1>1, <1>2, <1>7, SameBegun DEF counters
    <3>2. IsFiniteSet(TotalCells) /\ IsFiniteSet(ProgressCells) /\ total \in Nat /\ progress \in Nat
      BY <1>1, FS_CardinalityType DEF CountersOK
    <3>3. total' = total + e.total - entry[t].total /\ progress' = progress + e.progress - entry[t].progress
      BY <1>2, <2>3, <2>8, <3>2 DEF counters
    <3> QED BY <1>1, <1>2, <1>4, <1>9, <2>3, <2>4, <2>6, <2>8, <3>1, <3>3, CountersServed
  <2> QED BY <1>2, <1>3, <1>4, <1>6, <2>5, <2>6, <2>14, <2>15, ServeStep
<1> QED BY <1>8, <1>9

\* ServeRegister.
LEMMA ServeRegisterStep == ASSUME BarInv, ServeRegister PROVE BarInv'
<1> SUFFICES ASSUME NEW o, o = Head(optCh), NEW t, t = o.table PROVE BarInv'
  OBVIOUS
<1>1. BarType /\ QueueOK /\ CountersOK /\ \A u \in BarTables : TableInv(u) /\ OpsOK(u) /\ SendersOK(u)
  BY DEF BarInv, TableInv
<1>2. /\ Receive("register") /\ UNCHANGED <<senders, counters, serving>>
      /\ IF t \in tableMap THEN UNCHANGED entries
         ELSE /\ entry' = [entry EXCEPT ![t] = [phase |-> "register", result |-> o.result,
                                                progress |-> 0, total |-> 0, stop |-> FALSE]]
              /\ tableMap' = tableMap \cup {t} /\ tableList' = tableList \cup {t}
              /\ UNCHANGED tableFailList
  BY DEF ServeRegister
<1>3. /\ ServedFrom(optCh, optCh') /\ serving /\ o = optCh[1] /\ o.op = "register" /\ o \in AllOps
      /\ 1 \in 1 .. Len(optCh)
  BY <1>1, <1>2, Received, Served
<1>4. t \in BarTables /\ o \in Regs(t)
  BY <1>3, OpOfTable
<1>5. /\ One(o, Updates(t)) = 0 /\ One(o, Incs(t)) = 0 /\ o \notin Fails(t) /\ o \notin Updates(t)
      /\ \A u \in BarTables : o \notin Starts(u)
  <2>1. o \notin TableOps(t)
    BY <1>4, OpsApart
  <2> QED BY <1>3, <2>1, OpFields DEF One, TableOps
<1>6. /\ o.result = Result(t) /\ Registered(t) /\ t \notin unregistered
      /\ \A u \in BarTables : ~Begun(u) /\ ~Begun(u)'
  <2>1. o.result = Result(t) /\ Registered(t) /\ t \notin unregistered
    BY <1>1, <1>3, <1>4 DEF OpsOK
  <2>2. \A u \in BarTables : ~Begun(u)
    BY <1>1, <1>3 DEF QueueOK
  <2> QED BY <1>1, <1>2, <1>3, <1>5, <2>1, <2>2, BegunServed
<1>7. t \notin tableMap /\ t \notin tableList /\ t \notin tableFailList
  <2>1. RegWaits(t)
    BY <1>3, <1>4 DEF RegWaits, Among
  <2> QED BY <1>1, <1>4, <1>6, <2>1 DEF TableInv, WaitingOK
<1> DEFINE e == [phase |-> "register", result |-> o.result, progress |-> 0, total |-> 0, stop |-> FALSE]
<1>8. /\ entry' = [entry EXCEPT ![t] = e] /\ tableMap' = tableMap \cup {t} /\ tableList' = tableList \cup {t}
      /\ tableFailList' = tableFailList
  BY <1>2, <1>7
<1>9. /\ e.phase = "register" /\ e.result = Result(t) /\ e.progress = 0 /\ e.total = 0
      /\ e \in EntryRecord
  <2>1. o.result \in SUBSET Results
    BY <1>4 DEF Regs
  <2> QED BY <1>6, <2>1 DEF EntryRecord
<1> HIDE DEF e
<1>10. entry'[t] = e /\ \A u \in BarTables \ {t} : entry'[u] = entry[u]
  BY <1>1, <1>4, <1>8 DEF BarType
<1>11. OthersKept(t)
  BY <1>8, <1>10 DEF OthersKept
<1>12. BarType'
  <2>1. optCh' \in Seq(AllOps)
    BY <1>3, Served
  <2>2. entry' \in [BarTables -> EntryRecord \cup {NoTable}]
    BY <1>1, <1>4, <1>8, <1>9 DEF BarType
  <2>3. \A u \in tableMap' \cup tableList' : entry'[u] \in EntryRecord
    BY <1>1, <1>4, <1>8, <1>9, <1>10 DEF BarType
  <2> QED BY <1>1, <1>2, <1>4, <1>8, <2>1, <2>2, <2>3 DEF BarType, senders, Registered
<1>13. OpsOK(t)' /\ SendersOK(t)'
  BY <1>1, <1>2, <1>3, <1>4, OpsServed DEF senders, SendersOK, Unstarted, Started, Known
<1>14. /\ Live(t) /\ Live(t)' /\ Got(t) = 0 /\ Got(t)' = 0 /\ Tot(t) = Base(t) /\ Tot(t)' = Base(t)
       /\ Base(t) \in Nat
  <2>1. Base(t)' = Base(t)
    BY <1>2 DEF senders, Base, Known
  <2> QED BY <1>1, <1>4, <1>6, <2>1, SetupFacts DEF Live, Got, Tot, Base
<1>15. CountsOK(t)'
  <2>1. Got(t)' = Got(t) + One(o, Incs(t)) /\ Tot(t)' = Tot(t) + One(o, Updates(t))
    BY <1>5, <1>14
  <2>2. Got(t) \in Nat /\ Tot(t) \in Nat
    BY <1>14
  <2> QED BY <1>1, <1>2, <1>3, <1>4, <1>14, <2>1, <2>2, CountsServed DEF TableInv
<1>16. /\ Among(optCh', Lasts(t)) <=> Among(optCh, Lasts(t))
       /\ Among(optCh', Fails(t)) <=> Among(optCh, Fails(t))
  BY <1>3, <1>5, AmongServed, OpFields
<1>17. /\ comparing' = comparing /\ setup' = setup /\ (LastSent(t)' <=> LastSent(t))
       /\ Result(t)' = Result(t) /\ Registered(t)' = Registered(t) /\ unregistered' = unregistered
  BY <1>2 DEF senders, LastSent, Result, Registered
<1>18. BegunOK(t)' /\ LimitOK(t)' /\ FailsOK(t)'
  BY <1>1, <1>4, <1>6, <1>8, <1>14, <1>16, <1>17 DEF TableInv, BegunOK, LimitOK, FailsOK
<1>19. WaitingOK(t)'
  <2>1. ~RegWaits(t)'
    <3>1. Len(optCh') \in Nat
          /\ \A n \in 1 .. Len(optCh') : optCh'[n] = optCh[n + 1] /\ n + 1 \in 1 .. Len(optCh) /\ 1 < n + 1
      BY <1>3, Served
    <3>2. \A n \in 1 .. Len(optCh') : optCh'[n] \notin Regs(t)
      BY <1>1, <1>3, <1>4, <3>1 DEF OpsOK
    <3> QED BY <1>6, <1>17, <3>2 DEF RegWaits, Among
  <2> QED BY <1>6, <1>7, <1>8, <1>9, <1>10, <1>17, <2>1 DEF WaitingOK
<1>20. TableInv(t)'
  BY <1>13, <1>15, <1>18, <1>19 DEF TableInv
<1>21. CountersOK'
  <2>1. {u \in tableList : Begun(u)} = {} /\ {u \in tableList : Begun(u)}' = {}
    BY <1>1, <1>6, <1>12 DEF BarType
  <2>2. /\ {u \in BarTables : Begun(u) /\ u \notin tableList} = {}
        /\ {u \in BarTables : Begun(u) /\ u \notin tableList}' = {}
    BY <1>6
  <2>3. /\ progressTableNums' = Cardinality({u \in tableList : Begun(u)}')
        /\ finishTableNums' = Finished + Cardinality({u \in BarTables : Begun(u) /\ u \notin tableList}')
    BY <1>1, <1>2, <2>1, <2>2 DEF counters, CountersOK
  <2>4. IsFiniteSet(TotalCells) /\ IsFiniteSet(ProgressCells) /\ total \in Nat /\ progress \in Nat
    BY <1>1, FS_CardinalityType DEF CountersOK
  <2>5. total' = total + e.total - 0 /\ progress' = progress + e.progress - 0
    BY <1>2, <1>9, <2>4 DEF counters
  <2>6. e.total \in Nat /\ e.progress \in Nat /\ tableMap \ {t} = tableMap' \ {t} /\ 0 \in Nat
    BY <1>8, <1>9
  <2> QED BY <1>1, <1>4, <1>7, <1>8, <1>10, <1>12, <2>3, <2>5, <2>6, CountersServed
<1> QED BY <1>2, <1>3, <1>4, <1>11, <1>12, <1>20, <1>21, ServeStep

\* Of the tables e of the list, those that are skipped, those that go on to be
\* compared and those that are finished.
FlushSets(e, list, S, G, D) ==
    /\ S = {u \in list : e[u].phase = "prestart" /\ e[u].result \in {{"lack"}, {"done"}}}
    /\ G = {u \in list : e[u].phase = "prestart" /\ e[u].result \notin {{"lack"}, {"done"}}}
    /\ D = {u \in list : e[u].phase = "finish"}

\* What flush does with them.
LEMMA Flushed ==
    ASSUME NEW e, NEW list, NEW p, NEW q, Flush(e, list, p, q), NEW S, NEW G, NEW D,
           FlushSets(e, list, S, G, D)
    PROVE  /\ entry' = [u \in BarTables |-> IF u \in G THEN [e[u] EXCEPT !.phase = "comparing"] ELSE e[u]]
           /\ tableList' = list \ (S \cup D)
           /\ tableFailList' = tableFailList \cup S \cup {u \in D : e[u].result # {}}
           /\ progressTableNums' = progressTableNums + Cardinality(G) - Cardinality(D)
           /\ finishTableNums' = finishTableNums + Cardinality(S) + Cardinality(D)
           /\ progress' = p /\ total' = q
<1> DEFINE prestart == {u \in list : e[u].phase = "prestart"}
           skipped == {u \in prestart : e[u].result \in {{"lack"}, {"done"}}}
           going == prestart \ skipped
           done == {u \in list : e[u].phase = "finish"}
<1>1. skipped = S /\ going = G /\ done = D
  BY DEF FlushSets
<1>2. /\ entry' = [u \in BarTables |-> IF u \in going THEN [e[u] EXCEPT !.phase = "comparing"] ELSE e[u]]
      /\ tableList' = list \ (skipped \cup done)
      /\ tableFailList' = tableFailList \cup skipped \cup {u \in done : e[u].result # {}}
      /\ progressTableNums' = progressTableNums + Cardinality(going) - Cardinality(done)
      /\ finishTableNums' = finishTableNums + Cardinality(skipped) + Cardinality(done)
      /\ progress' = p /\ total' = q
  BY DEF Flush
<1> HIDE DEF prestart, skipped, going, done
<1> QED BY <1>1, <1>2

\* A listed table is on the bar: it waits for its start or is compared.
LEMMA ListedTable ==
    ASSUME BarInv, NEW u \in tableList
    PROVE  u \in BarTables /\ u \in tableMap /\ entry[u].phase \in {"register", "comparing"}
<1>1. u \in BarTables /\ WaitingOK(u) /\ BegunOK(u)
  BY DEF BarInv, BarType, TableInv
<1> QED BY <1>1 DEF WaitingOK, BegunOK

\* The tables started and listed, and those started and not listed, when a
\* table is started or finished.
LEMMA BegunTables ==
    ASSUME BarType, CountersOK, NEW t \in BarTables, NEW O \in SUBSET BarTables,
           \A u \in BarTables \ {t} : (Begun(u)' <=> Begun(u)) /\ (u \in tableList' <=> u \in tableList),
           tableList' \subseteq BarTables, Begun(t)'
    PROVE  /\ t \in tableList' /\ ~Begun(t) =>
                /\ Cardinality({u \in tableList : Begun(u)}') = progressTableNums + 1
                /\ Finished + Cardinality({u \in BarTables : Begun(u) /\ u \notin tableList}') = finishTableNums
           /\ t \notin tableList' /\ ~Begun(t) =>
                /\ Cardinality({u \in tableList : Begun(u)}') = progressTableNums
                /\ Finished + Cardinality({u \in BarTables : Begun(u) /\ u \notin tableList}') = finishTableNums + 1
           /\ t \notin tableList' /\ Begun(t) /\ t \in tableList =>
                /\ Cardinality({u \in tableList : Begun(u)}') = progressTableNums - 1
                /\ Finished + Cardinality({u \in BarTables : Begun(u) /\ u \notin tableList}') = finishTableNums + 1
           /\ t \notin tableList' /\ Begun(t) /\ t \notin tableList =>
                /\ Cardinality({u \in tableList : Begun(u)}') = progressTableNums
                /\ Finished + Cardinality({u \in BarTables : Begun(u) /\ u \notin tableList}') = finishTableNums
           /\ progressTableNums \in Nat /\ finishTableNums \in Nat
<1> DEFINE A == {u \in tableList : Begun(u)}
           B == {u \in BarTables : Begun(u) /\ u \notin tableList}
<1>1. IsFiniteSet(BarTables) /\ Finished \in Nat
  BY ProgressAssumption
<1>2. A \subseteq BarTables /\ B \subseteq BarTables
  BY DEF BarType
<1>3. /\ A' = IF t \in tableList' THEN A \cup {t} ELSE A \ {t}
      /\ B' = IF t \in tableList' THEN B \ {t} ELSE B \cup {t}
      /\ t \in A <=> t \in tableList /\ Begun(t)
      /\ t \in B <=> Begun(t) /\ t \notin tableList
  BY DEF BarType
<1>4. progressTableNums = Cardinality(A) /\ finishTableNums = Finished + Cardinality(B)
  BY DEF CountersOK
<1> HIDE DEF A, B
<1>5. IsFiniteSet(A) /\ IsFiniteSet(B) /\ Cardinality(A) \in Nat /\ Cardinality(B) \in Nat
  BY <1>1, <1>2, FS_Subset, FS_CardinalityType
<1>6. /\ t \notin A => Cardinality(A \cup {t}) = Cardinality(A) + 1 /\ A \ {t} = A
      /\ t \notin B => Cardinality(B \cup {t}) = Cardinality(B) + 1 /\ B \ {t} = B
      /\ t \in A => Cardinality(A \ {t}) = Cardinality(A) - 1
      /\ t \in B => B \cup {t} = B
  <2>1. /\ t \notin A => Cardinality(A \cup {t}) = Cardinality(A) + 1
        /\ t \notin B => Cardinality(B \cup {t}) = Cardinality(B) + 1
    BY <1>5, FS_AddElement
  <2>2. t \in A => Cardinality(A \ {t}) = Cardinality(A) - 1
    BY <1>5, FS_RemoveElement
  <2>3. (t \notin A => A \ {t} = A) /\ (t \notin B => B \ {t} = B) /\ (t \in B => B \cup {t} = B)
    OBVIOUS
  <2> QED BY <2>1, <2>2, <2>3
<1>7. /\ t \in tableList' /\ ~Begun(t) =>
           Cardinality(A') = progressTableNums + 1 /\ Finished + Cardinality(B') = finishTableNums
      /\ t \notin tableList' /\ ~Begun(t) =>
           Cardinality(A') = progressTableNums /\ Finished + Cardinality(B') = finishTableNums + 1
      /\ t \notin tableList' /\ Begun(t) /\ t \in tableList =>
           Cardinality(A') = progressTableNums - 1 /\ Finished + Cardinality(B') = finishTableNums + 1
      /\ t \notin tableList' /\ Begun(t) /\ t \notin tableList =>
           Cardinality(A') = progressTableNums /\ Finished + Cardinality(B') = finishTableNums
  <2>1. CASE t \in tableList' /\ ~Begun(t)
    <3>1. Cardinality(A') = Cardinality(A) + 1 /\ B' = B
      BY <1>3, <1>6, <2>1
    <3> QED BY <1>4, <2>1, <3>1
  <2>2. CASE t \notin tableList' /\ ~Begun(t)
    <3>1. A' = A /\ Cardinality(B') = Cardinality(B) + 1
      BY <1>3, <1>6, <2>2
    <3> QED BY <1>1, <1>4, <1>5, <2>2, <3>1
  <2>3. CASE t \notin tableList' /\ Begun(t) /\ t \in tableList
    <3>1. Cardinality(A') = Cardinality(A) - 1 /\ Cardinality(B') = Cardinality(B) + 1
      BY <1>3, <1>6, <2>3
    <3> QED BY <1>1, <1>4, <1>5, <2>3, <3>1
  <2>4. CASE t \notin tableList' /\ Begun(t) /\ t \notin tableList
    <3>1. A' = A /\ B' = B
      BY <1>3, <1>6, <2>4
    <3> QED BY <1>4, <2>4, <3>1
  <2> QED BY <2>1, <2>2, <2>3, <2>4
<1> QED BY <1>1, <1>4, <1>5, <1>7 DEF A, B

\* What ServeStart does to the entries, the lists and the counters.
LEMMA StartServed ==
    ASSUME BarInv, NEW o, o = Head(optCh), NEW t \in BarTables, t = o.table, ServeStart,
           o.total \in Nat, o.stop \in BOOLEAN, t \in tableMap => entry[t].result = Result(t),
           t \in tableMap <=> Registered(t)
    PROVE  /\ OthersKept(t)
           /\ entry' \in [BarTables -> EntryRecord \cup {NoTable}] /\ entry'[t] \in EntryRecord
           /\ entry'[t].progress = 0 /\ entry'[t].total = o.total /\ entry'[t].stop = o.stop
           /\ setup[t].reg = "same" => entry'[t].result = {}
           /\ t \in tableMap' <=> setup[t].reg # "done"
           /\ t \in tableList' <=> setup[t].reg \notin {"done", "lack"}
           /\ t \in tableList' => entry'[t].phase = "comparing"
           /\ t \in tableFailList' <=> t \in tableFailList \/ setup[t].reg \in {"done", "lack"}
           /\ setup[t].reg \notin {"done", "lack"} =>
                progressTableNums' = progressTableNums + 1 /\ finishTableNums' = finishTableNums
           /\ setup[t].reg \in {"done", "lack"} =>
                progressTableNums' = progressTableNums /\ finishTableNums' = finishTableNums + 1
           /\ progress' = progress /\ total' = IF setup[t].reg = "done" THEN total ELSE total + o.total
<1> DEFINE result == IF t \in tableMap THEN entry[t].result ELSE {"pass"}
           r == [phase |-> "prestart", result |-> result, progress |-> 0, total |-> o.total, stop |-> o.stop]
           e == [entry EXCEPT ![t] = r]
           list == tableList \cup {t}
           Skip == setup[t].reg \in {"done", "lack"}
           S == IF Skip THEN {t} ELSE {}
           G == IF Skip THEN {} ELSE {t}
<1>1. BarType /\ CountersOK /\ setup[t].reg \in {"none", "same", "continue", "done", "lack"}
  BY SetupFacts DEF BarInv
<1>2. /\ tableMap' = IF "done" \in result THEN tableMap \ {t} ELSE tableMap \cup {t}
      /\ Flush(e, list, progress, IF "done" \in result THEN total ELSE total + o.total)
  BY DEF ServeStart
<1>3. /\ result = IF setup[t].reg = "none" THEN {"pass"} ELSE IF setup[t].reg = "same" THEN {} ELSE {setup[t].reg}
      /\ result \in SUBSET Results
  BY <1>1 DEF Result, Registered, Results
<1>4. /\ "done" \in result <=> setup[t].reg = "done"
      /\ result \in {{"lack"}, {"done"}} <=> Skip
      /\ setup[t].reg = "same" => result = {}
  BY <1>1, <1>3
<1> HIDE DEF result
<1>5. /\ r \in EntryRecord /\ r.phase = "prestart" /\ r.result = result /\ r.progress = 0
      /\ r.total = o.total /\ r.stop = o.stop
  BY <1>3 DEF EntryRecord
<1> HIDE DEF r
<1>6. /\ e[t] = r /\ \A u \in BarTables \ {t} : e[u] = entry[u]
      /\ e \in [BarTables -> EntryRecord \cup {NoTable}]
  BY <1>1, <1>5 DEF BarType
<1> HIDE DEF e
<1>7. \A u \in list : u # t => u \in BarTables /\ e[u].phase # "prestart" /\ e[u].phase # "finish"
  BY <1>6, ListedTable
<1>8. FlushSets(e, list, S, G, {})
  BY <1>4, <1>5, <1>6, <1>7 DEF FlushSets
<1>9. /\ entry' = [u \in BarTables |-> IF u \in G THEN [e[u] EXCEPT !.phase = "comparing"] ELSE e[u]]
      /\ tableList' = list \ S
      /\ tableFailList' = tableFailList \cup S
      /\ progressTableNums' = progressTableNums + Cardinality(G) - Cardinality({})
      /\ finishTableNums' = finishTableNums + Cardinality(S) + Cardinality({})
      /\ progress' = progress /\ total' = IF "done" \in result THEN total ELSE total + o.total
  <2> DEFINE q == IF "done" \in result THEN total ELSE total + o.total
  <2>1. Flush(e, list, progress, q)
    BY <1>2
  <2>2. {u \in {} : e[u].result # {}} = {}
    OBVIOUS
  <2> HIDE DEF S, G, list, q
  <2>3. /\ entry' = [u \in BarTables |-> IF u \in G THEN [e[u] EXCEPT !.phase = "comparing"] ELSE e[u]]
        /\ tableList' = list \ (S \cup {})
        /\ tableFailList' = tableFailList \cup S \cup {u \in {} : e[u].result # {}}
        /\ progressTableNums' = progressTableNums + Cardinality(G) - Cardinality({})
        /\ finishTableNums' = finishTableNums + Cardinality(S) + Cardinality({})
        /\ progress' = progress /\ total' = q
    BY <1>8, <2>1, Flushed, Zenon
  <2> QED BY <2>2, <2>3 DEF q
<1>10. Cardinality({}) = 0 /\ Cardinality({t}) = 1
  BY FS_EmptySet, FS_Singleton
<1>11. progressTableNums \in Nat /\ finishTableNums \in Nat
  <2>1. IsFiniteSet({u \in tableList : Begun(u)}) /\ IsFiniteSet({u \in BarTables : Begun(u) /\ u \notin tableList})
    BY <1>1, ProgressAssumption, FS_Subset DEF BarType
  <2> QED BY <1>1, <2>1, ProgressAssumption, FS_CardinalityType DEF CountersOK
<1>12. /\ ~Skip => progressTableNums' = progressTableNums + 1 /\ finishTableNums' = finishTableNums
       /\ Skip => progressTableNums' = progressTableNums /\ finishTableNums' = finishTableNums + 1
  BY <1>9, <1>10, <1>11
<1>13. /\ entry'[t] = (IF Skip THEN r ELSE [r EXCEPT !.phase = "comparing"])
       /\ \A u \in BarTables \ {t} : entry'[u] = entry[u]
  BY <1>6, <1>9
<1>14. /\ entry'[t] \in EntryRecord /\ entry'[t].progress = 0 /\ entry'[t].total = o.total
       /\ entry'[t].stop = o.stop /\ entry'[t].result = result
       /\ ~Skip => entry'[t].phase = "comparing"
  <2>1. CASE Skip
    BY <1>5, <1>13, <2>1
  <2>2. CASE ~Skip
    BY <1>5, <1>13, <2>2 DEF EntryRecord
  <2> QED BY <2>1, <2>2
<1>15. entry' \in [BarTables -> EntryRecord \cup {NoTable}]
  <2>1. \A u \in BarTables : entry'[u] \in EntryRecord \cup {NoTable}
    BY <1>1, <1>13, <1>14 DEF BarType
  <2> QED BY <1>9, <2>1
<1>16. /\ t \in tableMap' <=> setup[t].reg # "done"
       /\ t \in tableList' <=> ~Skip
       /\ t \in tableFailList' <=> t \in tableFailList \/ Skip
       /\ tableMap' \ {t} = tableMap \ {t} /\ tableList' \ {t} = tableList \ {t}
       /\ tableFailList' \ {t} = tableFailList \ {t}
  BY <1>2, <1>4, <1>9
<1>17. OthersKept(t)
  BY <1>13, <1>16 DEF OthersKept
<1> QED BY <1>4, <1>9, <1>12, <1>14, <1>15, <1>16, <1>17

\* The start of a table that is served, and what becomes of the table.
LEMMA StartReceived ==
    ASSUME BarInv, ServeStart, NEW o, o = Head(optCh), NEW t, t = o.table
    PROVE  /\ t \in BarTables /\ o \in Starts(t) /\ o = optCh[1] /\ ServedFrom(optCh, optCh')
           /\ o.total = Base(t) /\ o.stop = Known(t) /\ o.total \in Nat /\ o.stop \in BOOLEAN
           /\ ~Unstarted(t) /\ ~Begun(t) /\ Begun(t)'
           /\ \A u \in BarTables \ {t} : Begun(u)' <=> Begun(u)
           /\ t \in tableMap <=> Registered(t)
           /\ t \notin tableFailList
           /\ t \in tableMap => entry[t].result = Result(t) /\ entry[t].progress = 0 /\ entry[t].total = 0
<1>1. BarType /\ QueueOK /\ CountersOK /\ \A u \in BarTables : TableInv(u) /\ OpsOK(u) /\ SendersOK(u)
  BY DEF BarInv, TableInv
<1>2. /\ Receive("start") /\ UNCHANGED <<senders, serving>>
      /\ UNCHANGED senders /\ serving' = serving
  BY DEF ServeStart
<1>3. /\ ServedFrom(optCh, optCh') /\ serving /\ o = optCh[1] /\ o.op = "start" /\ o \in AllOps
      /\ 1 \in 1 .. Len(optCh)
  BY <1>1, <1>2, Received, Served
<1>4. t \in BarTables /\ o \in Starts(t)
  BY <1>3, OpOfTable
<1>5. /\ One(o, Updates(t)) = 0 /\ One(o, Incs(t)) = 0 /\ o \notin Fails(t) /\ o \notin Updates(t)
      /\ o \in TableOps(t)
  BY <1>4, OpsApart DEF One, TableOps
<1>6. /\ o.total = Base(t) /\ o.stop = Known(t) /\ o.total \in Nat /\ o.stop \in BOOLEAN
      /\ ~Unstarted(t)
  <2>1. o.total = Base(t) /\ o.stop = Known(t) /\ ~Unstarted(t)
    BY <1>1, <1>3, <1>4, <1>5 DEF OpsOK
  <2> QED BY <1>4, <2>1 DEF Starts
<1>7. ~Begun(t) /\ Begun(t)' /\ \A u \in BarTables \ {t} : Begun(u)' <=> Begun(u)
  <2>1. \A u \in BarTables : u # t => o \notin Starts(u)
    BY <1>5, OpsApart DEF TableOps
  <2> QED BY <1>1, <1>2, <1>3, <1>4, <2>1, BegunServed
<1>8. ~RegWaits(t)
  <2>1. unregistered = {}
    BY <1>1, <1>3 DEF QueueOK
  <2>2. \A n \in 1 .. Len(optCh) : optCh[n].op # "register"
    <3> TAKE n \in 1 .. Len(optCh)
    <3>1. n = 1 \/ 1 < n
      BY <1>3
    <3> QED BY <1>1, <1>3, <3>1 DEF QueueOK
  <2>3. \A n \in 1 .. Len(optCh) : optCh[n] \notin Regs(t)
    BY <2>2, OpFields
  <2> QED BY <2>1, <2>3 DEF RegWaits, Among
<1>9. /\ t \in tableMap <=> Registered(t)
      /\ t \notin tableFailList
      /\ t \in tableMap => entry[t].result = Result(t) /\ entry[t].progress = 0 /\ entry[t].total = 0
  BY <1>1, <1>4, <1>7, <1>8 DEF TableInv, WaitingOK
<1> QED BY <1>3, <1>4, <1>6, <1>7, <1>9

\* ServeStart.
LEMMA ServeStartStep == ASSUME BarInv, ServeStart PROVE BarInv'
<1> SUFFICES ASSUME NEW o, o = Head(optCh), NEW t, t = o.table PROVE BarInv'
  OBVIOUS
<1>1. BarType /\ QueueOK /\ CountersOK /\ \A u \in BarTables : TableInv(u) /\ OpsOK(u) /\ SendersOK(u)
  BY DEF BarInv, TableInv
<1>2. /\ Receive("start") /\ UNCHANGED <<senders, serving>>
      /\ UNCHANGED senders /\ serving' = serving
  BY DEF ServeStart
<1>3. /\ ServedFrom(optCh, optCh') /\ serving /\ o = optCh[1] /\ o.op = "start" /\ o \in AllOps
      /\ 1 \in 1 .. Len(optCh)
  BY <1>1, <1>2, Received, Served
<1>4. t \in BarTables /\ o \in Starts(t)
  BY <1>3, OpOfTable
<1>5. /\ One(o, Updates(t)) = 0 /\ One(o, Incs(t)) = 0 /\ o \notin Fails(t) /\ o \notin Updates(t)
      /\ o \in TableOps(t)
  BY <1>4, OpsApart DEF One, TableOps
<1>6. /\ o.total = Base(t) /\ o.stop = Known(t) /\ o.total \in Nat /\ o.stop \in BOOLEAN
      /\ ~Unstarted(t)
  BY StartReceived
<1>7. ~Begun(t) /\ Begun(t)' /\ \A u \in BarTables \ {t} : Begun(u)' <=> Begun(u)
  BY StartReceived
<1>9. /\ t \in tableMap <=> Registered(t)
      /\ t \notin tableFailList
      /\ t \in tableMap => entry[t].result = Result(t) /\ entry[t].progress = 0 /\ entry[t].total = 0
  BY StartReceived
<1>10. /\ OthersKept(t)
       /\ entry' \in [BarTables -> EntryRecord \cup {NoTable}] /\ entry'[t] \in EntryRecord
       /\ entry'[t].progress = 0 /\ entry'[t].total = o.total /\ entry'[t].stop = o.stop
       /\ setup[t].reg = "same" => entry'[t].result = {}
       /\ t \in tableMap' <=> setup[t].reg # "done"
       /\ t \in tableList' <=> setup[t].reg \notin {"done", "lack"}
       /\ t \in tableList' => entry'[t].phase = "comparing"
       /\ t \in tableFailList' <=> t \in tableFailList \/ setup[t].reg \in {"done", "lack"}
       /\ setup[t].reg \notin {"done", "lack"} =>
            progressTableNums' = progressTableNums + 1 /\ finishTableNums' = finishTableNums
       /\ setup[t].reg \in {"done", "lack"} =>
            progressTableNums' = progressTableNums /\ finishTableNums' = finishTableNums + 1
       /\ progress' = progress /\ total' = IF setup[t].reg = "done" THEN total ELSE total + o.total
  BY <1>4, <1>6, <1>9, StartServed
<1>11. BarType'
  <2>1. optCh' \in Seq(AllOps)
    BY <1>3, Served
  <2>2. /\ tableMap' \subseteq BarTables /\ tableList' \subseteq BarTables /\ tableFailList' \subseteq BarTables
        /\ \A u \in tableMap' \cup tableList' : u = t \/ (u \in tableMap \cup tableList /\ entry'[u] = entry[u])
    <3>1. /\ tableMap \subseteq BarTables /\ tableList \subseteq BarTables /\ tableFailList \subseteq BarTables
          /\ \A u \in BarTables \ {t} : entry'[u] = entry[u]
          /\ tableMap' \ {t} = tableMap \ {t} /\ tableList' \ {t} = tableList \ {t}
          /\ tableFailList' \ {t} = tableFailList \ {t}
      BY <1>1, <1>10 DEF OthersKept, BarType
    <3>2. \A u : /\ u \in tableMap' => u = t \/ u \in tableMap
                 /\ u \in tableList' => u = t \/ u \in tableList
                 /\ u \in tableFailList' => u = t \/ u \in tableFailList
      BY <3>1
    <3> QED BY <1>4, <3>1, <3>2
  <2>3. \A u \in tableMap' \cup tableList' : entry'[u] \in EntryRecord
    BY <1>1, <1>10, <2>2 DEF BarType
  <2> QED BY <1>1, <1>2, <1>10, <2>1, <2>2, <2>3 DEF BarType, senders, Registered
<1>12. OpsOK(t)' /\ SendersOK(t)' /\ WaitingOK(t)'
  BY <1>1, <1>2, <1>3, <1>4, <1>7, OpsServed DEF senders, SendersOK, Unstarted, Started, Known, WaitingOK
<1>13. /\ Live(t) /\ Got(t) = 0 /\ Tot(t) = Base(t) /\ Base(t) \in Nat
       /\ Got(t)' = 0 /\ Tot(t)' = Base(t)
  BY <1>1, <1>4, <1>6, <1>7, <1>10, SetupFacts DEF Live, Got, Tot, Base
<1>14. CountsOK(t)'
  <2>1. Got(t)' = Got(t) + One(o, Incs(t)) /\ Tot(t)' = Tot(t) + One(o, Updates(t))
    BY <1>5, <1>13
  <2>2. Got(t) \in Nat /\ Tot(t) \in Nat
    BY <1>13
  <2> QED BY <1>1, <1>2, <1>3, <1>4, <1>13, <2>1, <2>2, CountsServed DEF TableInv
<1>15. /\ Among(optCh', Lasts(t)) <=> Among(optCh, Lasts(t))
       /\ Among(optCh', Fails(t)) <=> Among(optCh, Fails(t))
  BY <1>3, <1>5, AmongServed, OpFields
<1>16. /\ comparing' = comparing /\ setup' = setup /\ (LastSent(t)' <=> LastSent(t)) /\ Known(t)' = Known(t)
  BY <1>2 DEF senders, LastSent, Known
<1>17. BegunOK(t)'
  <2>1. Known(t) => entry'[t].stop /\ entry'[t].progress < entry'[t].total
    <3> SUFFICES ASSUME Known(t) PROVE entry'[t].stop /\ entry'[t].progress < entry'[t].total
      OBVIOUS
    <3>1. setup[t].chunks \in Nat /\ setup[t].chunks > 0
      BY <1>1, <1>4, <1>6, SetupFacts DEF Known, Unstarted, Started
    <3> QED BY <1>6, <1>10, <3>1 DEF Base
  <2>2. setup[t].kind = "limit" => ~entry'[t].stop
    BY <1>6, <1>10 DEF Known
  <2>3. t \in tableList' => t \in tableMap'
    BY <1>10
  <2>4. t \notin tableMap' => setup[t].reg # "same"
    BY <1>10
  <2>5. t \in tableMap' /\ setup[t].reg # "lack" => t \in tableList'
    BY <1>10
  <2> QED BY <1>10, <1>16, <2>1, <2>2, <2>3, <2>4, <2>5 DEF BegunOK
<1>18. LimitOK(t)'
  <2>1. setup[t].kind = "limit" => ~entry'[t].stop
    BY <1>6, <1>10 DEF Known
  <2> QED BY <1>1, <1>4, <1>7, <1>13, <1>15, <1>16, <2>1 DEF TableInv, LimitOK
<1>19. FailsOK(t)'
  <2>1. setup[t].reg = "same" =>
           /\ t \notin tableFailList' /\ entry'[t].result = {}
           /\ comparing[t].differs <=> Among(optCh, Fails(t))
    <3> SUFFICES ASSUME setup[t].reg = "same"
                 PROVE  /\ t \notin tableFailList' /\ entry'[t].result = {}
                        /\ comparing[t].differs <=> Among(optCh, Fails(t))
      OBVIOUS
    <3>1. t \notin tableFailList' /\ entry'[t].result = {}
      BY <1>9, <1>10
    <3> QED BY <1>1, <1>4, <1>7, <1>13, <3>1 DEF TableInv, FailsOK
  <2> QED BY <1>15, <1>16, <2>1 DEF FailsOK
<1>20. TableInv(t)'
  BY <1>12, <1>14, <1>17, <1>18, <1>19 DEF TableInv
<1>21. CountersOK'
  <2>1. \A u \in BarTables \ {t} : (Begun(u)' <=> Begun(u)) /\ (u \in tableList' <=> u \in tableList)
    BY <1>7, <1>10 DEF OthersKept
  <2>2. tableList' \subseteq BarTables
    BY <1>11 DEF BarType
  <2>3. /\ progressTableNums' = Cardinality({u \in tableList : Begun(u)}')
        /\ finishTableNums' = Finished + Cardinality({u \in BarTables : Begun(u) /\ u \notin tableList}')
    <3>1. CASE t \in tableList'
      BY <1>1, <1>4, <1>7, <1>10, <2>1, <2>2, <3>1, BegunTables
    <3>2. CASE t \notin tableList'
      BY <1>1, <1>4, <1>7, <1>10, <2>1, <2>2, <3>2, BegunTables
    <3> QED BY <3>1, <3>2
  <2>4. IsFiniteSet(TotalCells) /\ IsFiniteSet(ProgressCells) /\ total \in Nat /\ progress \in Nat
    BY <1>1, FS_CardinalityType DEF CountersOK
  <2> DEFINE b == IF setup[t].reg = "done" THEN 0 ELSE o.total
  <2>5. /\ b \in Nat /\ total' = total + b - 0 /\ progress' = progress + 0 - 0
        /\ t \in tableMap' => b = entry'[t].total /\ 0 = entry'[t].progress
        /\ t \notin tableMap' => b = 0
    BY <1>6, <1>10, <2>4
  <2> HIDE DEF b
  <2>6. /\ tableMap \ {t} = tableMap' \ {t} /\ 0 \in Nat
        /\ \A u \in BarTables \ {t} : entry'[u] = entry[u]
    BY <1>10 DEF OthersKept
  <2>7. t \in tableMap => 0 = entry[t].total /\ 0 = entry[t].progress
    BY <1>9
  <2> QED BY <1>1, <1>4, <1>11, <2>3, <2>5, <2>6, <2>7, CountersServed
<1> QED BY <1>2, <1>3, <1>4, <1>5, <1>10, <1>11, <1>20, <1>21, ServeStep

\* What FinishTable does to the entries, the lists and the counters.
LEMMA FinishServed ==
    ASSUME BarInv, NEW t \in tableMap, Begun(t), NEW e \in EntryRecord, FinishTable(t, e)
    PROVE  /\ OthersKept(t) /\ t \notin tableMap' /\ t \notin tableList'
           /\ entry' \in [BarTables -> EntryRecord \cup {NoTable}]
           /\ t \in tableFailList' <=> t \in tableFailList \/ (t \in tableList /\ e.result # {})
           /\ t \in tableList =>
                progressTableNums' = progressTableNums - 1 /\ finishTableNums' = finishTableNums + 1
           /\ t \notin tableList =>
                progressTableNums' = progressTableNums /\ finishTableNums' = finishTableNums
           /\ progress' = progress + 1 - e.progress /\ total' = total - e.total
<1> DEFINE r == [e EXCEPT !.phase = "finish"]
           f == [entry EXCEPT ![t] = r]
           D == IF t \in tableList THEN {t} ELSE {}
           p == progress + 1 - e.progress
           q == total - e.total
<1>1. BarType /\ CountersOK /\ t \in BarTables
  BY DEF BarInv, BarType
<1>2. tableMap' = tableMap \ {t} /\ Flush(f, tableList, p, q)
  BY DEF FinishTable
<1>3. r \in EntryRecord /\ r.phase = "finish" /\ r.result = e.result
  BY DEF EntryRecord
<1> HIDE DEF r
<1>4. /\ f[t] = r /\ \A u \in BarTables \ {t} : f[u] = entry[u]
      /\ f \in [BarTables -> EntryRecord \cup {NoTable}]
  BY <1>1, <1>3 DEF BarType
<1> HIDE DEF f
<1>5. FlushSets(f, tableList, {}, {}, D)
  <2>1. \A u \in tableList : u # t => u \in BarTables /\ f[u].phase # "prestart" /\ f[u].phase # "finish"
    BY <1>4, ListedTable
  <2> QED BY <1>3, <1>4, <2>1 DEF FlushSets
<1>6. /\ entry' = [u \in BarTables |-> IF u \in {} THEN [f[u] EXCEPT !.phase = "comparing"] ELSE f[u]]
      /\ tableList' = tableList \ ({} \cup D)
      /\ tableFailList' = tableFailList \cup {} \cup {u \in D : f[u].result # {}}
      /\ progressTableNums' = progressTableNums + Cardinality({}) - Cardinality(D)
      /\ finishTableNums' = finishTableNums + Cardinality({}) + Cardinality(D)
      /\ progress' = p /\ total' = q
  <2> HIDE DEF D, p, q
  <2> QED BY <1>2, <1>5, Flushed, Zenon
<1>7. \A u \in BarTables : entry'[u] = f[u]
  BY <1>6
<1>8. entry' \in [BarTables -> EntryRecord \cup {NoTable}]
  <2>1. \A u \in BarTables : entry'[u] \in EntryRecord \cup {NoTable}
    BY <1>4, <1>7
  <2> QED BY <1>6, <2>1
<1>9. Cardinality({}) = 0 /\ Cardinality({t}) = 1
  BY FS_EmptySet, FS_Singleton
<1>10. progressTableNums \in Nat /\ finishTableNums \in Nat
  <2>1. IsFiniteSet({u \in tableList : Begun(u)}) /\ IsFiniteSet({u \in BarTables : Begun(u) /\ u \notin tableList})
    BY <1>1, ProgressAssumption, FS_Subset DEF BarType
  <2> QED BY <1>1, <2>1, ProgressAssumption, FS_CardinalityType DEF CountersOK
<1>11. /\ t \in tableList =>
            progressTableNums' = progressTableNums - 1 /\ finishTableNums' = finishTableNums + 1
       /\ t \notin tableList =>
            progressTableNums' = progressTableNums /\ finishTableNums' = finishTableNums
  BY <1>6, <1>9, <1>10
<1>12. t \in tableFailList' <=> t \in tableFailList \/ (t \in tableList /\ e.result # {})
  BY <1>3, <1>4, <1>6
<1>13. OthersKept(t) /\ t \notin tableMap' /\ t \notin tableList'
  <2>1. \A u \in BarTables \ {t} : entry'[u] = entry[u]
    BY <1>4, <1>7
  <2> QED BY <1>2, <1>6, <2>1 DEF OthersKept
<1> QED BY <1>6, <1>8, <1>11, <1>12, <1>13

\* A table that is finished by an Inc has its last chunk compared, and no
\* failure is still in the channel.
LEMMA LastInc ==
    ASSUME BarType, NEW t \in BarTables, TableInv(t), ServedFrom(optCh, optCh'), optCh[1] \in Incs(t),
           Begun(t), t \in tableMap, entry[t].stop, entry[t].progress + 1 >= entry[t].total,
           setup[t].kind = "bucket" => ~Among(optCh, Updates(t)) /\ producer[t] = "end"
    PROVE  comparing[t].taken = setup[t].chunks /\ ~Among(optCh, Fails(t))
<1>1. OpsOK(t) /\ SendersOK(t) /\ CountsOK(t) /\ BegunOK(t) /\ LimitOK(t) /\ Live(t)
  BY DEF TableInv, Live
<1>2. /\ Got(t) = entry[t].progress /\ Tot(t) = entry[t].total /\ Got(t) \in Nat /\ Tot(t) \in Nat
  BY <1>1, LiveFacts DEF Got, Tot
<1>3. /\ setup[t].chunks \in Nat /\ setup[t].kind \in {"random", "bucket", "limit", "skip", "lack"}
      /\ produced[t] \in Nat /\ comparing[t].taken \in Nat /\ comparing[t].failed \in Nat
      /\ Announced(t) \in Nat /\ produced[t] <= Announced(t) /\ Announced(t) <= setup[t].chunks
      /\ comparing[t].taken + comparing[t].failed <= produced[t]
  BY <1>1, SetupFacts, SenderFacts DEF SendersOK
<1>4. Len(optCh) \in Nat /\ 1 \in 1 .. Len(optCh) /\ Len(optCh') \in Nat /\ Len(optCh) = Len(optCh') + 1
  BY Served
<1>5. ~Among(optCh, Updates(t)) /\ Announced(t) = setup[t].chunks
  <2>1. CASE Known(t)
    BY <1>1, <2>1 DEF OpsOK, Among, Announced
  <2>2. CASE ~Known(t)
    <3>1. setup[t].kind \in {"limit", "bucket"}
      BY <1>3, <2>2 DEF Known
    <3>2. ~Among(optCh, Updates(t)) /\ LastSent(t)
      BY <1>1, <3>1 DEF BegunOK, LimitOK, LastSent
    <3>3. Announced(t) = produced[t] + (IF producer[t] = "publish" THEN 1 ELSE 0)
      BY <2>2 DEF Announced
    <3>4. CASE producer[t] = "end"
      BY <1>1, <1>3, <3>2, <3>3, <3>4 DEF SendersOK
    <3>5. CASE producer[t] = "publish" /\ produced[t] + 1 = setup[t].chunks
      BY <3>2, <3>3, <3>5
    <3> QED BY <3>2, <3>4, <3>5 DEF LastSent
  <2> QED BY <2>1, <2>2
<1>6. \A n \in 1 .. Len(optCh) : Num(optCh, Incs(t), n) \in Nat /\ Num(optCh, Incs(t), n) >= 1
  <2> TAKE n \in 1 .. Len(optCh)
  <2>1. n - 1 \in 0 .. Len(optCh') /\ (n - 1) + 1 = n
    BY <1>4
  <2>2. /\ Num(optCh, Incs(t), (n - 1) + 1) = Num(optCh', Incs(t), n - 1) + One(optCh[1], Incs(t))
        /\ Num(optCh', Incs(t), n - 1) \in Nat
    BY <2>1, NumServed
  <2>3. One(optCh[1], Incs(t)) = 1
    BY DEF One
  <2> QED BY <2>1, <2>2, <2>3
<1>7. Num(optCh, Updates(t), Len(optCh)) = 0
  <2>1. \A n \in 1 .. Len(optCh) : optCh[n] \notin Updates(t)
    BY <1>5 DEF Among
  <2> QED BY <1>4, <2>1, NumType
<1>8. /\ Got(t) + Num(optCh, Incs(t), Len(optCh)) = comparing[t].taken
      /\ Tot(t) + Num(optCh, Updates(t), Len(optCh)) = Announced(t)
      /\ \A n \in 1 .. Len(optCh) :
            optCh[n] \in Fails(t) => Got(t) + Num(optCh, Incs(t), n) < setup[t].chunks
  BY <1>1 DEF CountsOK
<1>9. Tot(t) = setup[t].chunks /\ Got(t) + 1 >= setup[t].chunks
  BY <1>2, <1>5, <1>7, <1>8
<1>10. comparing[t].taken = setup[t].chunks
  <2>1. Num(optCh, Incs(t), Len(optCh)) \in Nat /\ Num(optCh, Incs(t), Len(optCh)) >= 1
    <3>1. Len(optCh) \in 1 .. Len(optCh)
      BY <1>4
    <3> QED BY <1>6, <3>1, Zenon
  <2>2. comparing[t].taken <= setup[t].chunks
    BY <1>3
  <2> DEFINE g == Got(t)
             k == Num(optCh, Incs(t), Len(optCh))
             a == comparing[t].taken
             c == setup[t].chunks
  <2>3. /\ g \in Nat /\ k \in Nat /\ k >= 1 /\ a \in Nat /\ c \in Nat
        /\ g + k = a /\ g + 1 >= c /\ a <= c
    BY <1>2, <1>3, <1>8, <1>9, <2>1, <2>2
  <2> HIDE DEF g, k, a, c
  <2>4. a = c
    BY <2>3
  <2> QED BY <2>4 DEF a, c
<1>11. \A n \in 1 .. Len(optCh) : optCh[n] \notin Fails(t)
  <2> SUFFICES ASSUME NEW n \in 1 .. Len(optCh), optCh[n] \in Fails(t) PROVE FALSE
    OBVIOUS
  <2>1. Got(t) + Num(optCh, Incs(t), n) < setup[t].chunks
    BY <1>8
  <2>2. Num(optCh, Incs(t), n) \in Nat /\ Num(optCh, Incs(t), n) >= 1
    BY <1>6
  <2> QED BY <1>2, <1>3, <1>9, <2>1, <2>2
<1> QED BY <1>10, <1>11 DEF Among

\* ServeInc.
LEMMA ServeIncStep == ASSUME BarInv, ServeInc PROVE BarInv'
<1> SUFFICES ASSUME NEW o, o = Head(optCh), NEW t, t = o.table PROVE BarInv'
  OBVIOUS
<1> DEFINE e == [entry[t] EXCEPT !.progress = @ + 1]
<1>1. BarType /\ CountersOK /\ \A u \in BarTables : TableInv(u) /\ OpsOK(u) /\ SendersOK(u)
  BY DEF BarInv, TableInv
<1>2. /\ Receive("inc") /\ UNCHANGED senders /\ serving' = serving
      /\ IF t \notin tableMap THEN UNCHANGED <<entries, counters>>
         ELSE IF e.progress >= e.total /\ e.stop THEN FinishTable(t, e)
              ELSE /\ entry' = [entry EXCEPT ![t] = e] /\ progress' = progress + 1
                   /\ UNCHANGED <<tableMap, tableList, tableFailList, progressTableNums, finishTableNums, total>>
  BY DEF ServeInc
<1>3. ServedFrom(optCh, optCh') /\ serving /\ o = optCh[1] /\ o.op = "inc" /\ o \in AllOps
  BY <1>1, <1>2, Received
<1>4. t \in BarTables /\ o \in Incs(t)
  BY <1>3, OpOfTable
<1>5. One(o, Updates(t)) = 0 /\ One(o, Incs(t)) = 1
  BY <1>4, OpsApart DEF One
<1>6. o \in TableOps(t) /\ o \notin Starts(t) /\ o \notin Updates(t) /\ o \notin Regs(t) /\ o \notin Fails(t)
  BY <1>4, OpsApart DEF TableOps
<1>7. Begun(t) /\ \A u \in BarTables : Begun(u)' <=> Begun(u)
  <2>1. \A u \in BarTables : u # t => o \notin Starts(u)
    BY <1>6, OpsApart DEF TableOps
  <2> QED BY <1>1, <1>2, <1>3, <1>4, <1>6, <2>1, BegunServed
<1>8. CASE t \notin tableMap
  <2>1. \A u \in BarTables : u # t => o \notin Regs(u) \cup TableOps(u)
    BY <1>6, OpsApart
  <2> QED BY <1>1, <1>2, <1>3, <1>6, <1>8, <2>1, IdleStep DEF BarType
<1>9. OpsOK(t)' /\ SendersOK(t)' /\ WaitingOK(t)'
  BY <1>1, <1>2, <1>3, <1>4, <1>7, OpsServed DEF senders, SendersOK, Unstarted, Started, Known, WaitingOK
<1>10. /\ Among(optCh', Lasts(t)) <=> Among(optCh, Lasts(t))
       /\ Among(optCh', Updates(t)) <=> Among(optCh, Updates(t))
       /\ Among(optCh', Fails(t)) <=> Among(optCh, Fails(t))
  BY <1>3, <1>6, AmongServed, OpFields
<1>11. /\ comparing' = comparing /\ setup' = setup /\ Known(t)' = Known(t) /\ (LastSent(t)' <=> LastSent(t))
  BY <1>2 DEF senders, Known, LastSent
<1>12. optCh' \in Seq(AllOps)
  BY <1>3, Served
<1>13. IsFiniteSet(TotalCells) /\ IsFiniteSet(ProgressCells) /\ total \in Nat /\ progress \in Nat
  BY <1>1, FS_CardinalityType DEF CountersOK
<1>14. CASE t \in tableMap
  <2>1. entry[t] \in EntryRecord /\ Live(t) /\ Got(t) = entry[t].progress /\ Tot(t) = entry[t].total
    BY <1>1, <1>4, <1>7, <1>14 DEF BarType, Live, Got, Tot
  <2>2. /\ e.phase = entry[t].phase /\ e.result = entry[t].result /\ e.progress = entry[t].progress + 1
        /\ e.total = entry[t].total /\ e.stop = entry[t].stop /\ e \in EntryRecord
    BY <2>1 DEF EntryRecord
  <2> HIDE DEF e
  <2>3. /\ entry[t].progress \in Nat /\ entry[t].total \in Nat /\ entry[t].progress <= entry[t].total
        /\ entry[t].stop \in BOOLEAN
    BY <1>1, <1>4, <2>1, LiveFacts DEF TableInv, EntryRecord
  <2>4. CASE ~(e.progress >= e.total /\ e.stop)
    <3>1. /\ entry' = [entry EXCEPT ![t] = e] /\ progress' = progress + 1
          /\ UNCHANGED <<tableMap, tableList, tableFailList, progressTableNums, finishTableNums, total>>
      BY <1>2, <1>14, <2>4
    <3>2. entry'[t] = e /\ \A u \in BarTables \ {t} : entry'[u] = entry[u]
      BY <1>1, <1>4, <3>1 DEF BarType
    <3>3. OthersKept(t)
      BY <3>1, <3>2 DEF OthersKept
    <3>4. BarType'
      <4>1. entry' \in [BarTables -> EntryRecord \cup {NoTable}]
        BY <1>1, <1>4, <2>2, <3>1 DEF BarType
      <4>2. \A u \in tableMap' \cup tableList' : entry'[u] \in EntryRecord
        BY <1>1, <2>2, <3>1, <3>2 DEF BarType
      <4> QED BY <1>1, <1>2, <1>12, <3>1, <4>1, <4>2 DEF BarType, senders, Registered
    <3>5. CountsOK(t)'
      <4>1. Got(t)' = entry[t].progress + 1 /\ Tot(t)' = entry[t].total
        BY <1>4, <1>7, <2>2, <3>2 DEF Got, Tot
      <4>2. Got(t)' = Got(t) + One(o, Incs(t)) /\ Tot(t)' = Tot(t) + One(o, Updates(t))
        BY <1>5, <2>1, <2>3, <4>1
      <4> QED BY <1>1, <1>2, <1>3, <1>4, <2>1, <2>3, <4>2, CountsServed DEF TableInv
    <3>6. BegunOK(t)'
      <4>1. e.stop => e.progress < e.total
        BY <2>2, <2>3, <2>4
      <4> QED BY <1>1, <1>4, <1>7, <1>10, <1>11, <1>14, <2>2, <3>1, <3>2, <4>1 DEF TableInv, BegunOK
    <3>7. LimitOK(t)' /\ FailsOK(t)'
      BY <1>1, <1>4, <1>7, <1>10, <1>11, <2>1, <2>2, <3>1, <3>2 DEF TableInv, LimitOK, FailsOK
    <3>8. TableInv(t)'
      BY <1>9, <3>5, <3>6, <3>7 DEF TableInv
    <3>9. CountersOK'
      <4>1. /\ progressTableNums' = Cardinality({u \in tableList : Begun(u)}')
            /\ finishTableNums' = Finished + Cardinality({u \in BarTables : Begun(u) /\ u \notin tableList}')
        BY <1>1, <1>7, <3>1, SameBegun
      <4>2. total' = total + e.total - entry[t].total /\ progress' = progress + e.progress - entry[t].progress
        BY <1>13, <2>2, <2>3, <3>1
      <4>3. e.total \in Nat /\ e.progress \in Nat
        BY <2>2, <2>3
      <4> QED BY <1>1, <1>4, <1>14, <2>3, <3>1, <3>2, <3>4, <4>1, <4>2, <4>3, CountersServed
    <3> QED BY <1>2, <1>3, <1>4, <1>6, <3>3, <3>4, <3>8, <3>9, ServeStep
  <2>5. CASE e.progress >= e.total /\ e.stop
    <3>1. FinishTable(t, e)
      BY <1>2, <1>14, <2>5
    <3>2. /\ OthersKept(t) /\ t \notin tableMap' /\ t \notin tableList'
          /\ entry' \in [BarTables -> EntryRecord \cup {NoTable}]
          /\ t \in tableFailList' <=> t \in tableFailList \/ (t \in tableList /\ e.result # {})
          /\ t \in tableList =>
               progressTableNums' = progressTableNums - 1 /\ finishTableNums' = finishTableNums + 1
          /\ t \notin tableList =>
               progressTableNums' = progressTableNums /\ finishTableNums' = finishTableNums
          /\ progress' = progress + 1 - e.progress /\ total' = total - e.total
      BY <1>7, <1>14, <2>2, <3>1, FinishServed
    <3>3. BarType'
      <4>1. /\ tableMap \subseteq BarTables /\ tableList \subseteq BarTables /\ tableFailList \subseteq BarTables
            /\ \A u \in BarTables \ {t} : entry'[u] = entry[u]
            /\ tableMap' \ {t} = tableMap \ {t} /\ tableList' \ {t} = tableList \ {t}
            /\ tableFailList' \ {t} = tableFailList \ {t}
        BY <1>1, <3>2 DEF OthersKept, BarType
      <4>2. \A u : /\ u \in tableMap' => u # t /\ u \in tableMap
                   /\ u \in tableList' => u # t /\ u \in tableList
                   /\ u \in tableFailList' => u = t \/ u \in tableFailList
        BY <3>2, <4>1
      <4>3. tableMap' \subseteq BarTables /\ tableList' \subseteq BarTables /\ tableFailList' \subseteq BarTables
        BY <1>4, <4>1, <4>2
      <4>4. \A u \in tableMap' \cup tableList' : entry'[u] \in EntryRecord
        BY <1>1, <4>1, <4>2 DEF BarType
      <4> QED BY <1>1, <1>2, <1>12, <3>2, <4>3, <4>4 DEF BarType, senders, Registered
    <3>4. Begun(t)' /\ ~Live(t)'
      BY <1>4, <1>7, <3>2 DEF Live
    <3>5. CountsOK(t)' /\ FailsOK(t)'
      BY <3>4 DEF CountsOK, FailsOK
    <3>6. LimitOK(t)'
      BY <1>1, <1>4, <1>10, <1>11, <3>2, <3>4 DEF TableInv, LimitOK
    <3>7. BegunOK(t)'
      <4>1. ASSUME setup[t].reg = "same", setup[t].kind # "bucket"
            PROVE  comparing[t].taken = setup[t].chunks /\ (t \in tableFailList' <=> comparing[t].differs)
        <5>1. comparing[t].taken = setup[t].chunks /\ ~Among(optCh, Fails(t))
          <6>1. entry[t].stop /\ entry[t].progress + 1 >= entry[t].total
            BY <2>2, <2>5
          <6> QED BY <1>1, <1>3, <1>4, <1>7, <1>14, <4>1, <6>1, LastInc
        <5>2. t \in tableList
          BY <1>1, <1>4, <1>7, <1>14, <4>1 DEF TableInv, BegunOK
        <5>3. t \notin tableFailList /\ (comparing[t].differs <=> e.result # {})
          BY <1>1, <1>4, <1>7, <2>1, <2>2, <4>1, <5>1 DEF TableInv, FailsOK
        <5> QED BY <3>2, <5>1, <5>2, <5>3
      <4> QED BY <1>11, <3>2, <4>1 DEF BegunOK
    <3>8. TableInv(t)'
      BY <1>9, <3>5, <3>6, <3>7 DEF TableInv
    <3>9. CountersOK'
      <4>1. \A u \in BarTables \ {t} : (Begun(u)' <=> Begun(u)) /\ (u \in tableList' <=> u \in tableList)
        BY <1>7, <3>2 DEF OthersKept
      <4>2. tableList' \subseteq BarTables
        BY <3>3 DEF BarType
      <4>3. /\ progressTableNums' = Cardinality({u \in tableList : Begun(u)}')
            /\ finishTableNums' = Finished + Cardinality({u \in BarTables : Begun(u) /\ u \notin tableList}')
        <5>1. CASE t \in tableList
          BY <1>1, <1>4, <1>7, <3>2, <3>4, <4>1, <4>2, <5>1, BegunTables
        <5>2. CASE t \notin tableList
          BY <1>1, <1>4, <1>7, <3>2, <3>4, <4>1, <4>2, <5>2, BegunTables
        <5> QED BY <5>1, <5>2
      <4>4. total' = total + 0 - entry[t].total /\ progress' = progress + 0 - entry[t].progress
        BY <1>13, <2>2, <2>3, <3>2
      <4>5. /\ tableMap \ {t} = tableMap' \ {t} /\ 0 \in Nat
            /\ \A u \in BarTables \ {t} : entry'[u] = entry[u]
        BY <3>2 DEF OthersKept
      <4> QED BY <1>1, <1>4, <1>14, <2>3, <3>2, <3>3, <4>3, <4>4, <4>5, CountersServed
    <3> QED BY <1>2, <1>3, <1>4, <1>6, <3>2, <3>3, <3>8, <3>9, ServeStep
  <2> QED BY <2>4, <2>5
<1> QED BY <1>8, <1>14

\* None of the first no operations is in a set.
LEMMA NoneSent == ASSUME NEW s, NEW O PROVE Num(s, O, 0) = 0
<1>1. \A j \in 1 .. 0 : s[j] \notin O
  OBVIOUS
<1>2. 0 \in Nat
  OBVIOUS
<1> QED BY <1>1, <1>2, NumType, Zenon

\* The initial states.
LEMMA BarInitially == ASSUME BarInit(BarSetups) PROVE BarInv
<1>1. /\ setup \in BarSetups
      /\ unregistered = {t \in BarTables : Registered(t)}
      /\ producer = [t \in BarTables |-> IF Started(t) THEN "start" ELSE "end"]
      /\ produced = [t \in BarTables |-> 0]
      /\ comparing = [t \in BarTables |-> [taken |-> 0, failed |-> 0, differs |-> FALSE]]
      /\ optCh = <<>> /\ entry = [t \in BarTables |-> NoTable]
      /\ tableMap = {} /\ tableList = {} /\ tableFailList = {}
      /\ progressTableNums = 0 /\ finishTableNums = Finished /\ progress = 0 /\ total = 0
      /\ serving = TRUE
  BY DEF BarInit
<1>2. Len(optCh) = 0 /\ optCh \in Seq(AllOps) /\ \A n \in 1 .. 0 : FALSE
  BY <1>1
<1>3. BarType
  <2>1. comparing \in [BarTables -> [taken : Nat, failed : Nat, differs : BOOLEAN]]
    BY <1>1
  <2>2. producer \in [BarTables -> {"start", "update", "publish", "stop", "end"}] /\ produced \in [BarTables -> Nat]
    BY <1>1
  <2>3. entry \in [BarTables -> EntryRecord \cup {NoTable}]
    BY <1>1
  <2> QED BY <1>1, <1>2, <2>1, <2>2, <2>3 DEF BarType
<1>4. ASSUME NEW t \in BarTables
      PROVE  /\ Unstarted(t) /\ ~Begun(t) /\ producer[t] = (IF Started(t) THEN "start" ELSE "end")
             /\ produced[t] = 0 /\ comparing[t].taken = 0 /\ comparing[t].failed = 0 /\ ~comparing[t].differs
  BY <1>1 DEF Unstarted, Begun
<1>5. \A O : ~Among(optCh, O)
  BY <1>2 DEF Among
<1>6. QueueOK
  BY <1>1, <1>2, <1>4 DEF QueueOK
<1>7. CountersOK
  <2>1. TotalCells = {} /\ ProgressCells = {}
    BY <1>1 DEF TotalCells, ProgressCells
  <2>2. {t \in tableList : Begun(t)} = {} /\ {t \in BarTables : Begun(t) /\ t \notin tableList} = {}
    BY <1>1, <1>4
  <2>3. /\ IsFiniteSet(TotalCells) /\ IsFiniteSet(ProgressCells)
        /\ Cardinality(TotalCells) = 0 /\ Cardinality(ProgressCells) = 0
        /\ Cardinality({t \in tableList : Begun(t)}) = 0
        /\ Cardinality({t \in BarTables : Begun(t) /\ t \notin tableList}) = 0
    BY <2>1, <2>2, FS_EmptySet, Zenon
  <2>4. finishTableNums = Finished + 0
    BY <1>1, ProgressAssumption
  <2> QED BY <1>1, <2>3, <2>4 DEF CountersOK
<1>8. ASSUME NEW t \in BarTables PROVE TableInv(t)
  <2>1. setup[t].chunks \in Nat /\ setup[t].kind \in {"random", "bucket", "limit", "skip", "lack"}
    BY <1>3, SetupFacts
  <2>2. ~Started(t) => setup[t].chunks = 0 /\ Known(t) /\ setup[t].kind # "limit"
    BY <2>1 DEF Started, Known
  <2>3. OpsOK(t)
    BY <1>2 DEF OpsOK
  <2>4. SendersOK(t)
    BY <1>4, <2>1, <2>2 DEF SendersOK
  <2>5. WaitingOK(t)
    BY <1>1, <1>4 DEF WaitingOK, RegWaits
  <2>6. CountsOK(t)
    <3>1. Got(t) = 0 /\ Tot(t) = Base(t) /\ Base(t) = Announced(t) /\ Base(t) \in Nat
      BY <1>4, <2>1 DEF Got, Tot, Base, Announced
    <3>2. Num(optCh, Incs(t), 0) = 0 /\ Num(optCh, Updates(t), 0) = 0
      BY NoneSent
    <3>3. \A n \in 0 .. 0 : n = 0
      OBVIOUS
    <3> QED BY <1>2, <1>4, <3>1, <3>2, <3>3 DEF CountsOK
  <2>7. BegunOK(t) /\ FailsOK(t)
    BY <1>1, <1>4, <1>5 DEF BegunOK, FailsOK
  <2>8. LimitOK(t)
    <3>1. setup[t].kind = "limit" => ~(LastSent(t) /\ setup[t].chunks > 0)
      BY <1>4, <2>1, <2>2 DEF LastSent
    <3> QED BY <1>4, <1>5, <3>1 DEF LimitOK
  <2> QED BY <2>3, <2>4, <2>5, <2>6, <2>7, <2>8 DEF TableInv
<1> QED BY <1>3, <1>6, <1>7, <1>8 DEF BarInv

\* A product is as large as its factors are.
LEMMA ProductGrows ==
    ASSUME NEW a \in Nat, NEW b \in Nat, NEW c \in Nat, NEW d \in Nat, a <= c, b <= d
    PROVE  a * b <= c * d
<1>1. PICK x \in Nat : c = a + x
  <2>1. c - a \in Nat /\ c = a + (c - a)
    OBVIOUS
  <2> QED BY <2>1
<1>2. PICK y \in Nat : d = b + y
  <2>1. d - b \in Nat /\ d = b + (d - b)
    OBVIOUS
  <2> QED BY <2>1
<1>3. c * d = a * b + a * y + x * b + x * y
  BY <1>1, <1>2
<1>4. a * b \in Nat /\ a * y \in Nat /\ x * b \in Nat /\ x * y \in Nat
  OBVIOUS
<1> QED BY <1>3, <1>4

\* The bar has at least the cells that are filled.
LEMMA BarHolds ==
    ASSUME BarInv
    PROVE  progressTableNums * progress <= (tableNums - finishTableNums) * (total + 1)
<1>1. BarType /\ CountersOK /\ IsFiniteSet(BarTables) /\ Finished \in Nat
  BY ProgressAssumption DEF BarInv
<1> DEFINE A == {t \in tableList : Begun(t)}
           B == {t \in BarTables : Begun(t) /\ t \notin tableList}
<1>2. A \subseteq BarTables /\ B \subseteq BarTables /\ A \cap B = {}
  BY <1>1 DEF BarType
<1>3. progressTableNums = Cardinality(A) /\ finishTableNums = Finished + Cardinality(B)
  BY <1>1 DEF CountersOK
<1> HIDE DEF A, B
<1>4. /\ IsFiniteSet(A) /\ IsFiniteSet(B) /\ IsFiniteSet(A \cup B)
      /\ Cardinality(A) \in Nat /\ Cardinality(B) \in Nat /\ Cardinality(BarTables) \in Nat
      /\ Cardinality(A \cup B) <= Cardinality(BarTables)
  <2>1. A \cup B \subseteq BarTables
    BY <1>2
  <2> QED BY <1>1, <1>2, <2>1, FS_Subset, FS_CardinalityType
<1>5. Cardinality(A \cup B) = Cardinality(A) + Cardinality(B)
  <2>1. Cardinality(A \cup B) = Cardinality(A) + Cardinality(B) - Cardinality(A \cap B)
    BY <1>4, FS_Union
  <2>2. Cardinality(A \cap B) = 0
    BY <1>2, FS_EmptySet
  <2> QED BY <1>4, <2>1, <2>2
<1>6. /\ progressTableNums \in Nat /\ tableNums - finishTableNums \in Nat
      /\ progressTableNums <= tableNums - finishTableNums
  BY <1>1, <1>3, <1>4, <1>5 DEF tableNums
<1>7. ProgressCells \subseteq TotalCells
  <2>1. ASSUME NEW t \in tableMap PROVE 1 .. entry[t].progress \subseteq 1 .. entry[t].total
    <3>1. t \in BarTables /\ WaitingOK(t) /\ CountsOK(t) /\ Live(t)
      BY <2>1 DEF BarInv, BarType, TableInv, Live
    <3>2. entry[t].progress \in Nat /\ entry[t].total \in Nat /\ entry[t].progress <= entry[t].total
      <4>1. CASE Begun(t)
        BY <1>1, <2>1, <3>1, <4>1, LiveFacts DEF Got, Tot
      <4>2. CASE ~Begun(t)
        BY <2>1, <3>1, <4>2 DEF WaitingOK
      <4> QED BY <4>1, <4>2
    <3> QED BY <3>2
  <2>2. \A t \in tableMap : {t} \X (1 .. entry[t].progress) \subseteq {t} \X (1 .. entry[t].total)
    BY <2>1
  <2> QED BY <2>2 DEF ProgressCells, TotalCells
<1>8. progress \in Nat /\ total \in Nat /\ progress <= total
  BY <1>1, <1>7, FS_Subset, FS_CardinalityType DEF CountersOK
<1>9. progress <= total + 1 /\ total + 1 \in Nat
  BY <1>8
<1> DEFINE n == tableNums - finishTableNums
<1>10. n \in Nat /\ progressTableNums <= n
  BY <1>6
<1> HIDE DEF n
<1>11. progressTableNums * progress <= n * (total + 1)
  BY <1>6, <1>8, <1>9, <1>10, ProductGrows
<1> QED BY <1>11 DEF n

-----------------------------------------------------------------------------
(* The progress bar: the last total of a bucket table.                     *)

\* The last total is served, and the table not finished.
Closing(t) == Begun(t) /\ t \in tableMap /\ entry[t].stop

\* It follows all the others, and comes before the last chunk is counted unless
\* it was sent when all were compared.
BucketOK(t) ==
    IF setup[t].kind # "bucket" THEN t \notin late
    ELSE /\ t \in late \/ Among(optCh, Stops(t)) \/ Closing(t) => producer[t] = "end"
         /\ producer[t] = "end" /\ Live(t) => Among(optCh, Stops(t)) \/ Closing(t)
         /\ \A n \in 1 .. Len(optCh) :
               /\ optCh[n] \in Updates(t) => ~optCh[n].stop
               /\ optCh[n] \in Stops(t) /\ Live(t) =>
                     (Got(t) + Num(optCh, Incs(t), n) < setup[t].chunks <=> t \notin late)
         /\ \A m, n \in 1 .. Len(optCh) :
               m < n /\ optCh[m] \in Stops(t) => optCh[n] \notin Updates(t) \cup Stops(t)
         /\ Closing(t) =>
               /\ ~Among(optCh, Updates(t)) /\ ~Among(optCh, Stops(t))
               /\ entry[t].progress < setup[t].chunks <=> t \notin late
         /\ ~Live(t) =>
               /\ t \notin late /\ producer[t] = "end" /\ ~Among(optCh, Stops(t))
               /\ comparing[t].taken = setup[t].chunks
               /\ setup[t].reg = "same" => (t \in tableFailList <=> comparing[t].differs)

BucketInv == \A t \in BarTables : BucketOK(t)

\* A send that is not the last total.
LEMMA BucketSent ==
    ASSUME BarType, NEW t \in BarTables, BucketOK(t), NEW x, SentTo(optCh, x, optCh'),
           UNCHANGED <<setup, entries>>, Begun(t)' <=> Begun(t), t \in late' <=> t \in late,
           setup[t].kind = "bucket" =>
              /\ producer'[t] = "end" <=> producer[t] = "end"
              /\ x \notin Stops(t)
              /\ x \in Updates(t) => ~x.stop /\ producer[t] # "end"
              /\ ~Live(t) => /\ comparing'[t].taken = comparing[t].taken
                             /\ comparing'[t].differs <=> comparing[t].differs
    PROVE  BucketOK(t)'
<1>1. UNCHANGED <<setup, entry, tableMap, tableFailList>>
  BY DEF entries
<1>2. (Live(t)' <=> Live(t)) /\ (Closing(t)' <=> Closing(t)) /\ Got(t)' = Got(t)
  BY <1>1 DEF Live, Closing, Got
<1>3. CASE setup[t].kind # "bucket"
  BY <1>1, <1>3 DEF BucketOK
<1>4. CASE setup[t].kind = "bucket"
  <2>1. /\ Len(optCh) \in Nat /\ \A n \in 1 .. Len(optCh) : optCh'[n] = optCh[n]
        /\ optCh'[Len(optCh) + 1] = x
        /\ \A n : n \in 1 .. Len(optCh') <=> n \in 1 .. Len(optCh) \/ n = Len(optCh) + 1
    BY Sent
  <2>2. /\ Among(optCh', Stops(t)) <=> Among(optCh, Stops(t))
        /\ Among(optCh', Updates(t)) <=> Among(optCh, Updates(t)) \/ x \in Updates(t)
    BY <1>4, AmongSent
  <2>3. ASSUME NEW n \in 1 .. Len(optCh')
        PROVE  /\ optCh'[n] \in Updates(t) => ~optCh'[n].stop
               /\ optCh'[n] \in Stops(t) /\ Live(t) =>
                     (Got(t) + Num(optCh', Incs(t), n) < setup[t].chunks <=> t \notin late')
    <3>1. CASE n \in 1 .. Len(optCh)
      <4>1. Num(optCh', Incs(t), n) = Num(optCh, Incs(t), n)
        <5>1. n \in 0 .. Len(optCh)
          BY <2>1, <3>1
        <5>2. \A k \in 0 .. Len(optCh) :
                 /\ Num(optCh', Incs(t), k) = Num(optCh, Incs(t), k)
                 /\ Num(optCh, Incs(t), k) \in Nat
          <6> DEFINE O == Incs(t)
          <6> HIDE DEF O
          <6>1. SentTo(optCh, x, optCh')
            OBVIOUS
          <6>2. \A k \in 0 .. Len(optCh) : Num(optCh', O, k) = Num(optCh, O, k) /\ Num(optCh, O, k) \in Nat
            BY <6>1, NumSent
          <6> QED BY <6>2 DEF O
        <5> QED BY <5>1, <5>2
      <4> QED BY <1>4, <2>1, <3>1, <4>1 DEF BucketOK
    <3>2. CASE n = Len(optCh) + 1
      BY <1>4, <2>1, <3>2
    <3> QED BY <2>1, <3>1, <3>2
  <2>4. ASSUME NEW m \in 1 .. Len(optCh'), NEW n \in 1 .. Len(optCh'), m < n, optCh'[m] \in Stops(t)
        PROVE  optCh'[n] \notin Updates(t) \cup Stops(t)
    <3>1. m \in 1 .. Len(optCh) /\ optCh[m] \in Stops(t)
      BY <1>4, <2>1, <2>4
    <3>2. CASE n \in 1 .. Len(optCh)
      BY <1>4, <2>1, <2>4, <3>1, <3>2 DEF BucketOK
    <3>3. CASE n = Len(optCh) + 1
      <4>1. producer[t] = "end"
        BY <1>4, <3>1 DEF BucketOK, Among
      <4> QED BY <1>4, <2>1, <3>3, <4>1
    <3> QED BY <2>1, <3>2, <3>3
  <2>5. Closing(t) => producer[t] = "end"
    BY <1>4 DEF BucketOK
  <2> QED BY <1>1, <1>2, <1>4, <2>2, <2>3, <2>4, <2>5 DEF BucketOK
<1> QED BY <1>3, <1>4

\* A step that sends nothing to the bar and serves nothing.
LEMMA BucketSame ==
    ASSUME NEW t \in BarTables, BucketOK(t), UNCHANGED <<setup, optCh, entries, comparing>>,
           Begun(t)' <=> Begun(t), t \in late' <=> t \in late,
           setup[t].kind = "bucket" => (producer'[t] = "end" <=> producer[t] = "end")
    PROVE  BucketOK(t)'
<1>1. UNCHANGED <<setup, optCh, entry, tableMap, tableFailList, comparing>>
  BY DEF entries
<1>2. (Live(t)' <=> Live(t)) /\ (Closing(t)' <=> Closing(t)) /\ Got(t)' = Got(t)
  BY <1>1 DEF Live, Closing, Got
<1> QED BY <1>1, <1>2 DEF BucketOK

\* An operation is served that is not the last total.
LEMMA BucketServed ==
    ASSUME BarType, NEW t \in BarTables, BucketOK(t), ServedFrom(optCh, optCh'), UNCHANGED senders,
           setup[t].kind = "bucket" =>
              /\ (Live(t)' <=> Live(t)) /\ (Closing(t)' <=> Closing(t)) /\ optCh[1] \notin Stops(t)
              /\ Live(t) => Got(t) \in Nat /\ Got(t)' = Got(t) + One(optCh[1], Incs(t))
              /\ Closing(t) => (entry'[t].progress < setup[t].chunks <=> t \notin late)
              /\ ~Live(t) => (t \in tableFailList' <=> t \in tableFailList)
    PROVE  BucketOK(t)'
<1>1. UNCHANGED <<setup, producer, comparing, late>>
  BY DEF senders
<1>2. CASE setup[t].kind # "bucket"
  BY <1>1, <1>2 DEF BucketOK
<1>3. CASE setup[t].kind = "bucket"
  <2>1. /\ Len(optCh') \in Nat
        /\ \A n \in 1 .. Len(optCh') : optCh'[n] = optCh[n + 1] /\ n + 1 \in 1 .. Len(optCh)
    BY Served
  <2>2. /\ Among(optCh', Stops(t)) <=> Among(optCh, Stops(t))
        /\ Among(optCh', Updates(t)) => Among(optCh, Updates(t))
    BY <1>3, AmongServed
  <2>3. ASSUME NEW n \in 1 .. Len(optCh')
        PROVE  /\ optCh'[n] \in Updates(t) => ~optCh'[n].stop
               /\ optCh'[n] \in Stops(t) /\ Live(t)' =>
                     (Got(t)' + Num(optCh', Incs(t), n) < setup[t].chunks <=> t \notin late)
    <3>1. optCh'[n] \in Updates(t) => ~optCh'[n].stop
      BY <1>3, <2>1 DEF BucketOK
    <3>2. ASSUME optCh'[n] \in Stops(t), Live(t)
          PROVE  Got(t)' + Num(optCh', Incs(t), n) < setup[t].chunks <=> t \notin late
      <4>1. Got(t) + Num(optCh, Incs(t), n + 1) < setup[t].chunks <=> t \notin late
        BY <1>3, <2>1, <3>2 DEF BucketOK
      <4>2. Num(optCh, Incs(t), n + 1) = Num(optCh', Incs(t), n) + One(optCh[1], Incs(t))
            /\ Num(optCh', Incs(t), n) \in Nat
        <5>1. n \in 0 .. Len(optCh')
          BY <2>1
        <5> QED BY <5>1, NumServed
      <4>3. One(optCh[1], Incs(t)) \in Nat /\ Got(t) \in Nat /\ Got(t)' = Got(t) + One(optCh[1], Incs(t))
        BY <1>3, <3>2 DEF One
      <4>4. Got(t)' + Num(optCh', Incs(t), n) = Got(t) + Num(optCh, Incs(t), n + 1)
        BY <4>2, <4>3
      <4> QED BY <4>1, <4>4
    <3> QED BY <1>3, <3>1, <3>2
  <2>4. \A m, n \in 1 .. Len(optCh') :
           m < n /\ optCh'[m] \in Stops(t) => optCh'[n] \notin Updates(t) \cup Stops(t)
    <3> TAKE m, n \in 1 .. Len(optCh')
    <3>1. m < n => m + 1 < n + 1
      BY <2>1
    <3> QED BY <1>3, <2>1, <3>1 DEF BucketOK
  <2> QED BY <1>1, <1>3, <2>2, <2>3, <2>4 DEF BucketOK
<1> QED BY <1>2, <1>3

\* A table's send leaves the others as they were.
LEMMA BucketSends ==
    ASSUME BarInv, BucketInv, NEW t \in BarTables, NEW x \in Regs(t) \cup TableOps(t),
           SentTo(optCh, x, optCh'), UNCHANGED <<setup, entries>>,
           \A u \in BarTables \ {t} : /\ producer'[u] = producer[u] /\ comparing'[u] = comparing[u]
                                      /\ u \in late' <=> u \in late,
           BucketOK(t)'
    PROVE  BucketInv'
<1>1. ASSUME NEW u \in BarTables \ {t} PROVE BucketOK(u)'
  <2>1. BarType /\ BucketOK(u) /\ x \notin Starts(u) \cup Stops(u) \cup Updates(u)
    BY OpsApart DEF BarInv, BucketInv, TableOps
  <2>2. Among(optCh', Starts(u)) <=> Among(optCh, Starts(u))
    BY <2>1, AmongSent
  <2>3. Unstarted(u)' <=> Unstarted(u)
    BY DEF Unstarted, Started, Known
  <2>4. Begun(u)' <=> Begun(u)
    BY <2>2, <2>3 DEF Begun
  <2> QED BY <2>1, <2>4, BucketSent
<1> QED BY <1>1 DEF BucketInv

\* So does an operation of a table that is served.
LEMMA BucketServes ==
    ASSUME BarInv, BucketInv, NEW t \in BarTables, ServedFrom(optCh, optCh'), UNCHANGED senders,
           optCh[1] \in Regs(t) \cup TableOps(t), OthersKept(t), BucketOK(t)'
    PROVE  BucketInv'
<1>1. ASSUME NEW u \in BarTables \ {t} PROVE BucketOK(u)'
  <2>1. BarType /\ TableInv(u) /\ BucketOK(u)
    BY DEF BarInv, BucketInv
  <2>2. optCh[1] \notin Starts(u) \cup Stops(u) \cup Incs(u)
    BY OpsApart DEF TableOps
  <2>3. Begun(u)' <=> Begun(u)
    BY <2>1, <2>2, BegunServed DEF TableInv
  <2>4. /\ entry'[u] = entry[u] /\ (u \in tableMap' <=> u \in tableMap)
        /\ u \in tableFailList' <=> u \in tableFailList
    BY DEF OthersKept
  <2>5. /\ (Live(u)' <=> Live(u)) /\ (Closing(u)' <=> Closing(u)) /\ Got(u)' = Got(u)
        /\ Live(u) => Got(u) \in Nat
    BY <2>1, <2>3, <2>4, LiveFacts DEF Live, Closing, Got
  <2>6. One(optCh[1], Incs(u)) = 0
    BY <2>2 DEF One
  <2>7. Live(u) => Got(u) \in Nat /\ Got(u)' = Got(u) + One(optCh[1], Incs(u))
    BY <2>5, <2>6
  <2>8. setup[u].kind = "bucket" /\ Closing(u) => (entry'[u].progress < setup[u].chunks <=> u \notin late)
    BY <2>1, <2>4 DEF BucketOK
  <2> QED BY <2>1, <2>2, <2>4, <2>5, <2>7, <2>8, BucketServed
<1> QED BY <1>1 DEF BucketInv

-----------------------------------------------------------------------------
(* The progress bar: the last total and those who send.                    *)

\* RegisterTable.
LEMMA RegisterTableBucket == ASSUME BarInv, BucketInv, NEW t \in BarTables, RegisterTable(t) PROVE BucketInv'
<1> DEFINE x == [op |-> "register", table |-> t,
                 result |-> IF setup[t].reg = "same" THEN {} ELSE {setup[t].reg}]
<1>1. BarType /\ BucketOK(t)
  BY DEF BarInv, BucketInv
<1>2. x \in Regs(t)
  BY <1>1, SetupFacts DEF Regs, Results
<1>3. optCh' = Append(optCh, x) /\ UNCHANGED <<setup, producer, comparing, late, entries>>
  BY DEF RegisterTable, Send
<1> HIDE DEF x
<1>4. x \in AllOps /\ x \notin Starts(t) \cup Stops(t) \cup Updates(t)
  BY <1>2, OpInAll, OpsApart DEF TableOps
<1>5. SentTo(optCh, x, optCh')
  BY <1>1, <1>3, <1>4 DEF SentTo, BarType
<1>6. Begun(t)' <=> Begun(t)
  <2>1. Among(optCh', Starts(t)) <=> Among(optCh, Starts(t))
    BY <1>4, <1>5, AmongSent
  <2> QED BY <1>3, <2>1 DEF Begun, Unstarted, Started, Known
<1>7. BucketOK(t)'
  BY <1>1, <1>3, <1>4, <1>5, <1>6, BucketSent
<1> QED BY <1>2, <1>3, <1>5, <1>7, BucketSends

\* StartTable.
LEMMA StartTableBucket == ASSUME BarInv, BucketInv, NEW t \in BarTables, StartTable(t) PROVE BucketInv'
<1> DEFINE x == [op |-> "start", table |-> t, total |-> Base(t), stop |-> Known(t)]
<1>1. BarType /\ BucketOK(t)
  BY DEF BarInv, BucketInv
<1>2. x \in Starts(t)
  BY <1>1, SetupFacts DEF Starts, Base, Known
<1>3. /\ producer[t] = "start" /\ optCh' = Append(optCh, x)
      /\ producer' = [producer EXCEPT ![t] =
                CASE setup[t].kind = "limit" /\ setup[t].chunks = 0 -> "end"
                  [] setup[t].kind = "bucket" /\ setup[t].chunks = 0 -> "stop"
                  [] Known(t) -> "publish"
                  [] OTHER -> "update"]
      /\ UNCHANGED <<setup, comparing, late, entries>>
  BY DEF StartTable, Send, Known, Base
<1> HIDE DEF x
<1>4. x \in AllOps /\ x \notin Stops(t) \cup Updates(t)
  BY <1>2, OpInAll, OpsApart DEF TableOps
<1>5. SentTo(optCh, x, optCh')
  BY <1>1, <1>3, <1>4 DEF SentTo, BarType
<1>6. /\ \A u \in BarTables \ {t} : producer'[u] = producer[u]
      /\ setup[t].kind = "bucket" => producer'[t] # "end"
  BY <1>1, <1>3 DEF BarType, Known
<1>7. ~Begun(t) /\ ~Begun(t)'
  <2>1. Among(optCh', Starts(t))
    BY <1>2, <1>5, AmongSent
  <2> QED BY <1>3, <2>1 DEF Begun, Unstarted
<1>8. BucketOK(t)'
  BY <1>1, <1>3, <1>4, <1>5, <1>6, <1>7, BucketSent
<1>9. x \in Regs(t) \cup TableOps(t)
  BY <1>2 DEF TableOps
<1> QED BY <1>3, <1>5, <1>6, <1>8, <1>9, BucketSends

\* UpdateTotal: of a bucket table it does not say that it is the last.
LEMMA UpdateTotalBucket == ASSUME BarInv, BucketInv, NEW t \in BarTables, UpdateTotal(t) PROVE BucketInv'
<1> DEFINE x == [op |-> "update", table |-> t, total |-> 1,
                 stop |-> setup[t].kind = "limit" /\ produced[t] + 1 = setup[t].chunks]
<1>1. BarType /\ BucketOK(t)
  BY DEF BarInv, BucketInv
<1>2. x \in Updates(t) /\ (setup[t].kind = "bucket" => ~x.stop)
  BY DEF Updates
<1>3. /\ producer[t] = "update" /\ optCh' = Append(optCh, x)
      /\ producer' = [producer EXCEPT ![t] = "publish"]
      /\ UNCHANGED <<setup, comparing, late, entries>>
  BY DEF UpdateTotal, Send
<1> HIDE DEF x
<1>4. x \in AllOps /\ x \notin Starts(t) \cup Stops(t)
  BY <1>2, OpInAll, OpsApart DEF TableOps
<1>5. SentTo(optCh, x, optCh')
  BY <1>1, <1>3, <1>4 DEF SentTo, BarType
<1>6. (\A u \in BarTables \ {t} : producer'[u] = producer[u]) /\ producer'[t] = "publish"
  BY <1>1, <1>3 DEF BarType
<1>7. Begun(t)' <=> Begun(t)
  <2>1. Among(optCh', Starts(t)) <=> Among(optCh, Starts(t))
    BY <1>4, <1>5, AmongSent
  <2> QED BY <1>3, <1>6, <2>1 DEF Begun, Unstarted, Started, Known
<1>8. BucketOK(t)'
  BY <1>1, <1>2, <1>3, <1>4, <1>5, <1>6, <1>7, BucketSent
<1>9. x \in Regs(t) \cup TableOps(t)
  BY <1>2 DEF TableOps
<1> QED BY <1>3, <1>5, <1>6, <1>8, <1>9, BucketSends

\* Publish: what comes of the producer is the last total, not the end.
LEMMA PublishBucket == ASSUME BarInv, BucketInv, NEW t \in BarTables, Publish(t) PROVE BucketInv'
<1>1. BarType /\ \A u \in BarTables : BucketOK(u)
  BY DEF BarInv, BucketInv
<1>2. /\ producer[t] = "publish"
      /\ producer' = [producer EXCEPT ![t] =
            CASE produced[t] + 1 = setup[t].chunks -> (IF setup[t].kind = "bucket" THEN "stop" ELSE "end")
              [] setup[t].kind = "random" /\ produced[t] + 1 < setup[t].chunks -> "publish"
              [] OTHER -> "update"]
      /\ UNCHANGED <<setup, comparing, late, optCh, entries>>
  BY DEF Publish
<1>3. /\ \A u \in BarTables \ {t} : producer'[u] = producer[u]
      /\ producer'[t] = CASE produced[t] + 1 = setup[t].chunks ->
                               (IF setup[t].kind = "bucket" THEN "stop" ELSE "end")
                          [] setup[t].kind = "random" /\ produced[t] + 1 < setup[t].chunks -> "publish"
                          [] OTHER -> "update"
  BY <1>1, <1>2 DEF BarType
<1>4. producer'[t] # "start" /\ (setup[t].kind = "bucket" => producer'[t] # "end")
  <2>1. CASE produced[t] + 1 = setup[t].chunks
    BY <1>3, <2>1, SetupFacts, <1>1 DEF BarType
  <2>2. CASE produced[t] + 1 # setup[t].chunks
    BY <1>3, <2>2
  <2> QED BY <2>1, <2>2
<1>5. ASSUME NEW u \in BarTables PROVE BucketOK(u)'
  <2>1. (producer'[u] = "start") <=> (producer[u] = "start")
    BY <1>2, <1>3, <1>4
  <2>2. Begun(u)' <=> Begun(u)
    BY <1>2, <2>1 DEF Begun, Unstarted, Started, Known
  <2>3. setup[u].kind = "bucket" => (producer'[u] = "end" <=> producer[u] = "end")
    BY <1>2, <1>3, <1>4
  <2> QED BY <1>1, <1>2, <2>2, <2>3, BucketSame
<1> QED BY <1>5 DEF BucketInv

\* StopUpdate: the chunks that are not counted yet are those that are not
\* compared, or whose Inc is in the channel.
LEMMA StopUpdateBucket == ASSUME BarInv, BucketInv, NEW t \in BarTables, StopUpdate(t) PROVE BucketInv'
<1> DEFINE x == [op |-> "update", table |-> t, total |-> 0, stop |-> TRUE]
<1>1. BarType /\ BucketOK(t) /\ SendersOK(t) /\ CountsOK(t)
  BY DEF BarInv, BucketInv, TableInv
<1>2. x \in Stops(t)
  BY DEF Stops
<1>3. /\ producer[t] = "stop" /\ optCh' = Append(optCh, x)
      /\ producer' = [producer EXCEPT ![t] = "end"]
      /\ late' = IF comparing[t].taken = setup[t].chunks THEN late \cup {t} ELSE late
      /\ UNCHANGED <<setup, comparing, entries>>
  BY DEF StopUpdate, Send
<1> HIDE DEF x
<1>4. x \in AllOps /\ x \notin Starts(t) \cup Incs(t) \cup Updates(t)
  BY <1>2, OpInAll, OpsApart DEF TableOps
<1>5. SentTo(optCh, x, optCh')
  BY <1>1, <1>3, <1>4 DEF SentTo, BarType
<1>6. (\A u \in BarTables \ {t} : producer'[u] = producer[u]) /\ producer'[t] = "end"
  BY <1>1, <1>3 DEF BarType
<1>7. UNCHANGED <<setup, entry, tableMap, tableFailList, comparing>>
  BY <1>3 DEF entries
<1>8. Begun(t)' <=> Begun(t)
  <2>1. Among(optCh', Starts(t)) <=> Among(optCh, Starts(t))
    BY <1>4, <1>5, AmongSent
  <2> QED BY <1>3, <1>6, <2>1 DEF Begun, Unstarted, Started, Known
<1>9. (Live(t)' <=> Live(t)) /\ (Closing(t)' <=> Closing(t)) /\ Got(t)' = Got(t)
  BY <1>7, <1>8 DEF Live, Closing, Got
<1>10. setup[t].kind = "bucket" /\ produced[t] = setup[t].chunks
  BY <1>1, <1>3 DEF SendersOK
<1>11. t \notin late /\ ~Among(optCh, Stops(t)) /\ ~Closing(t) /\ Live(t)
  BY <1>1, <1>3, <1>10 DEF BucketOK
<1>12. /\ Len(optCh) \in Nat /\ \A n \in 1 .. Len(optCh) : optCh'[n] = optCh[n]
       /\ optCh'[Len(optCh) + 1] = x
       /\ \A n : n \in 1 .. Len(optCh') <=> n \in 1 .. Len(optCh) \/ n = Len(optCh) + 1
  BY <1>5, Sent
<1>13. \A n \in 1 .. Len(optCh) : optCh[n] \notin Stops(t)
  BY <1>11 DEF Among
<1>14. Got(t) + Num(optCh', Incs(t), Len(optCh) + 1) < setup[t].chunks <=> t \notin late'
  <2>1. Num(optCh', Incs(t), Len(optCh) + 1) = Num(optCh, Incs(t), Len(optCh)) + One(x, Incs(t))
    BY <1>5, NumSent
  <2>2. One(x, Incs(t)) = 0 /\ Num(optCh, Incs(t), Len(optCh)) \in Nat /\ Got(t) \in Nat
    BY <1>1, <1>4, <1>11, <1>12, NumType, LiveFacts DEF One
  <2>3. Got(t) + Num(optCh', Incs(t), Len(optCh) + 1) = comparing[t].taken
    BY <1>1, <1>11, <2>1, <2>2 DEF CountsOK
  <2>4. comparing[t].taken \in Nat /\ setup[t].chunks \in Nat /\ comparing[t].taken <= setup[t].chunks
    BY <1>1, <1>10, SenderFacts, SetupFacts DEF SendersOK
  <2>5. t \in late' <=> comparing[t].taken = setup[t].chunks
    BY <1>3, <1>11
  <2> QED BY <2>3, <2>4, <2>5
<1>15. BucketOK(t)'
  <2>1. Among(optCh', Stops(t))
    BY <1>2, <1>5, AmongSent
  <2>2. \A n \in 1 .. Len(optCh') :
           /\ optCh'[n] \in Updates(t) => ~optCh'[n].stop
           /\ optCh'[n] \in Stops(t) => (Got(t) + Num(optCh', Incs(t), n) < setup[t].chunks <=> t \notin late')
    <3> TAKE n \in 1 .. Len(optCh')
    <3>1. CASE n \in 1 .. Len(optCh)
      BY <1>1, <1>10, <1>12, <1>13, <3>1 DEF BucketOK
    <3>2. CASE n = Len(optCh) + 1
      BY <1>4, <1>12, <1>14, <3>2
    <3> QED BY <1>12, <3>1, <3>2
  <2>3. \A m, n \in 1 .. Len(optCh') : m < n => optCh'[m] \notin Stops(t)
    <3> TAKE m, n \in 1 .. Len(optCh')
    <3>1. m < n => m \in 1 .. Len(optCh)
      BY <1>12
    <3> QED BY <1>12, <1>13, <3>1
  <2> QED BY <1>6, <1>7, <1>9, <1>10, <1>11, <2>1, <2>2, <2>3 DEF BucketOK
<1>16. x \in Regs(t) \cup TableOps(t)
  BY <1>2 DEF TableOps
<1>17. \A u \in BarTables \ {t} : u \in late' <=> u \in late
  BY <1>3
<1> QED BY <1>3, <1>5, <1>6, <1>15, <1>16, <1>17, BucketSends

\* FailTable and Inc: a table that is finished has no chunk that is not counted.
LEMMA WorkerBucket ==
    ASSUME BarInv, BucketInv, NEW t \in BarTables, NEW x \in Fails(t) \cup Incs(t), optCh' = Append(optCh, x),
           comparing[t].taken + comparing[t].failed < produced[t] \/ comparing[t].failed > 0,
           \A u \in BarTables \ {t} : comparing'[u] = comparing[u],
           UNCHANGED <<setup, producer, late, entries>>
    PROVE  BucketInv'
<1>1. BarType /\ BucketOK(t) /\ SendersOK(t)
  BY DEF BarInv, BucketInv, TableInv
<1>2. x \in Regs(t) \cup TableOps(t) /\ x \in AllOps /\ x \notin Starts(t) \cup Stops(t) \cup Updates(t)
  <2>1. x \in Regs(t) \cup TableOps(t)
    BY DEF TableOps
  <2> QED BY <2>1, OpInAll, OpsApart
<1>3. SentTo(optCh, x, optCh')
  BY <1>1, <1>2 DEF SentTo, BarType
<1>4. Begun(t)' <=> Begun(t)
  <2>1. Among(optCh', Starts(t)) <=> Among(optCh, Starts(t))
    BY <1>2, <1>3, AmongSent
  <2> QED BY <2>1 DEF Begun, Unstarted, Started, Known
<1>5. setup[t].kind = "bucket" => Live(t)
  <2> SUFFICES ASSUME setup[t].kind = "bucket", ~Live(t) PROVE FALSE
    OBVIOUS
  <2>1. comparing[t].taken = setup[t].chunks
    BY <1>1 DEF BucketOK
  <2>2. /\ produced[t] \in Nat /\ comparing[t].taken \in Nat /\ comparing[t].failed \in Nat
        /\ Announced(t) \in Nat /\ setup[t].chunks \in Nat
        /\ produced[t] <= Announced(t) /\ Announced(t) <= setup[t].chunks
        /\ comparing[t].taken + comparing[t].failed <= produced[t]
    BY <1>1, SenderFacts, SetupFacts DEF SendersOK
  <2> QED BY <2>1, <2>2
<1>6. BucketOK(t)'
  BY <1>1, <1>2, <1>3, <1>4, <1>5, BucketSent
<1> QED BY <1>2, <1>3, <1>6, BucketSends

\* FailTable.
LEMMA FailTableBucket == ASSUME BarInv, BucketInv, NEW t \in BarTables, FailTable(t) PROVE BucketInv'
<1> DEFINE x == [op |-> "fail", table |-> t]
<1>1. BarType
  BY DEF BarInv
<1>2. x \in Fails(t)
  BY DEF Fails
<1>3. /\ comparing[t].taken + comparing[t].failed < produced[t] /\ optCh' = Append(optCh, x)
      /\ comparing' = [comparing EXCEPT ![t].failed = @ + 1, ![t].differs = TRUE]
      /\ UNCHANGED <<setup, producer, late, entries>>
  BY DEF FailTable, Send
<1> HIDE DEF x
<1>4. \A u \in BarTables \ {t} : comparing'[u] = comparing[u]
  BY <1>1, <1>3 DEF BarType
<1> QED BY <1>2, <1>3, <1>4, WorkerBucket

\* Inc.
LEMMA IncBucket == ASSUME BarInv, BucketInv, NEW t \in BarTables, Inc(t) PROVE BucketInv'
<1> DEFINE x == [op |-> "inc", table |-> t]
<1>1. BarType
  BY DEF BarInv
<1>2. x \in Incs(t)
  BY DEF Incs
<1>3. /\ optCh' = Append(optCh, x)
      /\ \/ /\ comparing[t].taken + comparing[t].failed < produced[t]
            /\ comparing' = [comparing EXCEPT ![t].taken = @ + 1]
         \/ /\ comparing[t].failed > 0
            /\ comparing' = [comparing EXCEPT ![t].taken = @ + 1, ![t].failed = @ - 1]
      /\ UNCHANGED <<setup, producer, late, entries>>
  BY DEF Inc, Send
<1> HIDE DEF x
<1>4. \A u \in BarTables \ {t} : comparing'[u] = comparing[u]
  BY <1>1, <1>3 DEF BarType
<1>5. comparing[t].taken + comparing[t].failed < produced[t] \/ comparing[t].failed > 0
  BY <1>3
<1> QED BY <1>2, <1>3, <1>4, <1>5, WorkerBucket

\* CloseBar.
LEMMA CloseBarBucket == ASSUME BarInv, BucketInv, CloseBar PROVE BucketInv'
<1> DEFINE x == [op |-> "close"]
<1>1. BarType /\ \A t \in BarTables : BucketOK(t)
  BY DEF BarInv, BucketInv
<1>2. optCh' = Append(optCh, x) /\ UNCHANGED <<senders, entries>>
  BY DEF CloseBar, Send
<1>3. x \in Closes /\ x \in AllOps
  BY DEF Closes, AllOps
<1> HIDE DEF x
<1>4. SentTo(optCh, x, optCh')
  BY <1>1, <1>2, <1>3 DEF SentTo, BarType
<1>5. UNCHANGED <<setup, producer, comparing, late>>
  BY <1>2 DEF senders
<1>6. ASSUME NEW t \in BarTables PROVE BucketOK(t)'
  <2>1. x \notin Starts(t) \cup Stops(t) \cup Updates(t)
    BY <1>3, OpsApart DEF TableOps
  <2>2. Among(optCh', Starts(t)) <=> Among(optCh, Starts(t))
    BY <1>4, <2>1, AmongSent
  <2>3. Begun(t)' <=> Begun(t)
    BY <1>5, <2>2 DEF Begun, Unstarted, Started, Known
  <2> QED BY <1>1, <1>2, <1>4, <1>5, <2>1, <2>3, BucketSent
<1> QED BY <1>6 DEF BucketInv

-----------------------------------------------------------------------------
(* The progress bar: the last total and the server.                        *)

\* ServeRegister.
LEMMA ServeRegisterBucket == ASSUME BarInv, BucketInv, ServeRegister PROVE BucketInv'
<1> SUFFICES ASSUME NEW o, o = Head(optCh), NEW t, t = o.table PROVE BucketInv'
  OBVIOUS
<1>1. BarType /\ QueueOK /\ \A u \in BarTables : OpsOK(u) /\ BucketOK(u)
  BY DEF BarInv, TableInv, BucketInv
<1>2. /\ Receive("register") /\ UNCHANGED senders
      /\ IF t \in tableMap THEN UNCHANGED entries
         ELSE /\ entry' = [entry EXCEPT ![t] = [phase |-> "register", result |-> o.result,
                                                progress |-> 0, total |-> 0, stop |-> FALSE]]
              /\ tableMap' = tableMap \cup {t} /\ tableList' = tableList \cup {t}
              /\ UNCHANGED tableFailList
  BY DEF ServeRegister
<1>3. /\ ServedFrom(optCh, optCh') /\ o = optCh[1] /\ o.op = "register" /\ o \in AllOps
      /\ 1 \in 1 .. Len(optCh)
  BY <1>1, <1>2, Received, Served
<1>4. t \in BarTables /\ o \in Regs(t) /\ o \notin Stops(t) /\ One(o, Incs(t)) = 0
  BY <1>3, OpOfTable, OpFields DEF One
<1>5. ~Begun(t) /\ ~Begun(t)'
  <2>1. ~Begun(t) /\ o \notin Starts(t)
    BY <1>1, <1>3, <1>4, OpFields DEF QueueOK
  <2> QED BY <1>1, <1>2, <1>3, <1>4, <2>1, BegunServed
<1>6. Live(t) /\ Live(t)' /\ Got(t) = 0 /\ Got(t)' = 0 /\ ~Closing(t) /\ ~Closing(t)'
  BY <1>5 DEF Live, Got, Closing
<1>7. BucketOK(t)'
  BY <1>1, <1>2, <1>3, <1>4, <1>6, BucketServed
<1>8. OthersKept(t)
  BY <1>1, <1>2, <1>4 DEF OthersKept, entries, BarType
<1> QED BY <1>2, <1>3, <1>4, <1>7, <1>8, BucketServes

\* ServeStart: the splitter did not know the chunks.
LEMMA ServeStartBucket == ASSUME BarInv, BucketInv, ServeStart PROVE BucketInv'
<1> SUFFICES ASSUME NEW o, o = Head(optCh), NEW t, t = o.table PROVE BucketInv'
  OBVIOUS
<1>1. BarType /\ \A u \in BarTables : OpsOK(u) /\ BucketOK(u)
  BY DEF BarInv, TableInv, BucketInv
<1>2. UNCHANGED senders
  BY DEF ServeStart
<1>3. /\ t \in BarTables /\ o \in Starts(t) /\ o = optCh[1] /\ ServedFrom(optCh, optCh')
      /\ o.stop = Known(t) /\ o.total \in Nat /\ o.stop \in BOOLEAN
      /\ ~Begun(t) /\ Begun(t)'
      /\ t \in tableMap <=> Registered(t)
      /\ t \in tableMap => entry[t].result = Result(t)
  BY StartReceived
<1>4. /\ OthersKept(t) /\ entry'[t].progress = 0 /\ entry'[t].stop = o.stop
      /\ t \in tableMap' <=> setup[t].reg # "done"
  BY <1>3, StartServed
<1>5. o \notin Stops(t) /\ One(o, Incs(t)) = 0
  BY <1>3, OpsApart DEF One
<1>6. setup[t].kind = "bucket" => ~Known(t) /\ setup[t].reg # "done"
  BY <1>1, <1>3, SetupFacts DEF Known
<1>7. setup[t].kind = "bucket" =>
         Live(t) /\ Live(t)' /\ Got(t) = 0 /\ Got(t)' = 0 /\ ~Closing(t) /\ ~Closing(t)'
  BY <1>3, <1>4, <1>6 DEF Live, Got, Closing
<1>8. BucketOK(t)'
  BY <1>1, <1>2, <1>3, <1>5, <1>7, BucketServed
<1>9. o \in Regs(t) \cup TableOps(t)
  BY <1>3 DEF TableOps
<1> QED BY <1>2, <1>3, <1>4, <1>8, <1>9, BucketServes

\* ServeUpdate: what is counted when the last total is served is what was to be
\* counted before it.
LEMMA ServeUpdateBucket == ASSUME BarInv, BucketInv, ServeUpdate PROVE BucketInv'
<1> SUFFICES ASSUME NEW o, o = Head(optCh), NEW t, t = o.table PROVE BucketInv'
  OBVIOUS
<1>1. BarType /\ \A u \in BarTables : OpsOK(u) /\ BucketOK(u)
  BY DEF BarInv, TableInv, BucketInv
<1>2. /\ Receive("update") /\ UNCHANGED senders /\ UNCHANGED <<tableMap, tableList, tableFailList>>
      /\ IF t \in tableMap
         THEN entry' = [entry EXCEPT ![t].total = @ + o.total, ![t].stop = o.stop]
         ELSE UNCHANGED entry
  BY DEF ServeUpdate
<1>3. /\ ServedFrom(optCh, optCh') /\ o = optCh[1] /\ o.op = "update" /\ o \in AllOps
      /\ 1 \in 1 .. Len(optCh)
  BY <1>1, <1>2, Received, Served
<1>4. t \in BarTables /\ o \in Updates(t) \cup Stops(t)
  BY <1>3, OpOfTable
<1>5. o \in TableOps(t) /\ o \notin Starts(t) /\ One(o, Incs(t)) = 0
  BY <1>4, OpsApart DEF TableOps, One
<1>6. Begun(t) /\ Begun(t)'
  BY <1>1, <1>2, <1>3, <1>4, <1>5, BegunServed
<1>7. /\ \A u \in BarTables \ {t} : entry'[u] = entry[u]
      /\ t \in tableMap => entry'[t].stop = o.stop /\ entry'[t].progress = entry[t].progress
  <2>1. CASE t \notin tableMap
    BY <1>2, <2>1
  <2>2. CASE t \in tableMap
    <3>1. entry[t] \in EntryRecord /\ entry \in [BarTables -> EntryRecord \cup {NoTable}]
      BY <1>1, <2>2 DEF BarType
    <3> DEFINE b == [entry[t] EXCEPT !.total = @ + o.total]
               e == [b EXCEPT !.stop = o.stop]
    <3>2. entry' = [entry EXCEPT ![t] = e]
      BY <1>2, <1>4, <2>2, <3>1
    <3>3. b.progress = entry[t].progress /\ DOMAIN b = DOMAIN entry[t]
      BY <3>1 DEF EntryRecord
    <3>4. DOMAIN b = {"phase", "result", "progress", "total", "stop"}
      BY <3>1, <3>3 DEF EntryRecord
    <3> HIDE DEF b
    <3>5. e.progress = entry[t].progress /\ e.stop = o.stop
      BY <3>3, <3>4
    <3> HIDE DEF e
    <3> QED BY <1>4, <3>1, <3>2, <3>5
  <2> QED BY <2>1, <2>2
<1>8. OthersKept(t)
  BY <1>2, <1>7 DEF OthersKept
<1>9. (Live(t)' <=> Live(t)) /\ (Live(t) <=> t \in tableMap) /\ (t \in tableMap => Got(t)' = Got(t))
  BY <1>2, <1>6, <1>7 DEF Live, Got
<1>10. Live(t) => Got(t) \in Nat
  BY <1>1, <1>4, LiveFacts
<1>11. BucketOK(t)'
  <2>1. CASE setup[t].kind # "bucket"
    BY <1>1, <1>2, <1>4, <2>1 DEF BucketOK, senders
  <2>2. CASE setup[t].kind = "bucket" /\ ~Live(t)
    <3>1. o \notin Stops(t)
      BY <1>1, <1>3, <1>4, <2>2 DEF BucketOK, Among
    <3>2. ~Closing(t) /\ ~Closing(t)'
      BY <1>2, <1>9, <2>2 DEF Closing
    <3> QED BY <1>1, <1>2, <1>3, <1>4, <1>9, <2>2, <3>1, <3>2, BucketServed
  <2>3. CASE setup[t].kind = "bucket" /\ Live(t) /\ o \in Updates(t)
    <3>1. o \notin Stops(t) /\ ~o.stop
      BY <1>1, <1>3, <1>4, <2>3, OpsApart DEF BucketOK
    <3>2. ~Closing(t)
      BY <1>1, <1>3, <1>4, <2>3 DEF BucketOK, Among
    <3>3. ~Closing(t)'
      BY <1>7, <1>9, <2>3, <3>1 DEF Closing
    <3>4. Got(t) \in Nat /\ Got(t)' = Got(t) + One(o, Incs(t))
      BY <1>5, <1>9, <1>10, <2>3
    <3> QED BY <1>1, <1>2, <1>3, <1>4, <1>9, <2>3, <3>1, <3>2, <3>3, <3>4, BucketServed
  <2>4. CASE setup[t].kind = "bucket" /\ Live(t) /\ o \in Stops(t)
    <3>1. UNCHANGED <<setup, producer, comparing, late>>
      BY <1>2 DEF senders
    <3>2. producer[t] = "end"
      BY <1>1, <1>3, <1>4, <2>4 DEF BucketOK, Among
    <3>3. /\ Len(optCh') \in Nat
          /\ \A n \in 1 .. Len(optCh') : optCh'[n] = optCh[n + 1] /\ n + 1 \in 1 .. Len(optCh) /\ 1 < n + 1
      BY <1>3, Served
    <3>4. \A n \in 1 .. Len(optCh') : optCh'[n] \notin Updates(t) \cup Stops(t)
      BY <1>1, <1>3, <1>4, <2>4, <3>3 DEF BucketOK
    <3>5. o.stop
      BY <2>4 DEF Stops
    <3>6. Closing(t)' /\ Live(t)' /\ Got(t) = entry[t].progress /\ entry'[t].progress = entry[t].progress
      BY <1>2, <1>6, <1>7, <1>9, <2>4, <3>5 DEF Closing, Got
    <3>7. entry[t].progress < setup[t].chunks <=> t \notin late
      <4>1. Num(optCh, Incs(t), 1) = 0
        <5>1. Num(optCh, Incs(t), 0 + 1) = Num(optCh, Incs(t), 0) + One(optCh[0 + 1], Incs(t))
          BY NumNext
        <5> QED BY <1>3, <1>5, <5>1, NoneSent
      <4>2. Got(t) + Num(optCh, Incs(t), 1) < setup[t].chunks <=> t \notin late
        BY <1>1, <1>3, <1>4, <2>4 DEF BucketOK
      <4> QED BY <1>10, <2>4, <3>6, <4>1, <4>2
    <3> QED BY <2>4, <3>1, <3>2, <3>4, <3>6, <3>7 DEF BucketOK, Among
  <2> QED BY <1>4, <2>1, <2>2, <2>3, <2>4
<1> QED BY <1>2, <1>3, <1>4, <1>5, <1>8, <1>11, BucketServes

\* ServeFail.
LEMMA ServeFailBucket == ASSUME BarInv, BucketInv, ServeFail PROVE BucketInv'
<1> SUFFICES ASSUME NEW o, o = Head(optCh), NEW t, t = o.table PROVE BucketInv'
  OBVIOUS
<1>1. BarType /\ \A u \in BarTables : OpsOK(u) /\ BucketOK(u)
  BY DEF BarInv, TableInv, BucketInv
<1>2. /\ Receive("fail") /\ UNCHANGED senders /\ UNCHANGED <<tableMap, tableList, tableFailList>>
      /\ entry' = IF t \in tableMap THEN [entry EXCEPT ![t].result = @ \cup {"different"}] ELSE entry
  BY DEF ServeFail
<1>3. ServedFrom(optCh, optCh') /\ o = optCh[1] /\ o.op = "fail" /\ o \in AllOps
  BY <1>1, <1>2, Received
<1>4. t \in BarTables /\ o \in Fails(t)
  BY <1>3, OpOfTable
<1>5. o \in TableOps(t) /\ o \notin Starts(t) /\ o \notin Stops(t) /\ One(o, Incs(t)) = 0
  BY <1>4, OpsApart DEF TableOps, One
<1>6. Begun(t) /\ Begun(t)'
  BY <1>1, <1>2, <1>3, <1>4, <1>5, BegunServed
<1>7. /\ \A u \in BarTables \ {t} : entry'[u] = entry[u]
      /\ t \in tableMap => entry'[t].stop = entry[t].stop /\ entry'[t].progress = entry[t].progress
  <2>1. CASE t \notin tableMap
    BY <1>2, <2>1
  <2>2. CASE t \in tableMap
    <3>1. entry[t] \in EntryRecord /\ entry \in [BarTables -> EntryRecord \cup {NoTable}]
      BY <1>1, <2>2 DEF BarType
    <3> DEFINE e == [entry[t] EXCEPT !.result = @ \cup {"different"}]
    <3>2. entry' = [entry EXCEPT ![t] = e]
      BY <1>2, <2>2
    <3>3. e.progress = entry[t].progress /\ e.stop = entry[t].stop
      BY <3>1 DEF EntryRecord
    <3> HIDE DEF e
    <3> QED BY <1>4, <3>1, <3>2, <3>3
  <2> QED BY <2>1, <2>2
<1>8. OthersKept(t)
  BY <1>2, <1>7 DEF OthersKept
<1>9. /\ (Live(t)' <=> Live(t)) /\ (Closing(t)' <=> Closing(t))
      /\ Live(t) => Got(t)' = Got(t) /\ Got(t) \in Nat
  BY <1>1, <1>2, <1>4, <1>6, <1>7, LiveFacts DEF Live, Got, Closing
<1>10. Live(t) => Got(t) \in Nat /\ Got(t)' = Got(t) + One(o, Incs(t))
  BY <1>5, <1>9
<1>11. setup[t].kind = "bucket" /\ Closing(t) => (entry'[t].progress < setup[t].chunks <=> t \notin late)
  BY <1>1, <1>4, <1>7 DEF BucketOK, Closing
<1>12. BucketOK(t)'
  BY <1>1, <1>2, <1>3, <1>4, <1>5, <1>9, <1>10, <1>11, BucketServed
<1> QED BY <1>2, <1>3, <1>4, <1>5, <1>8, <1>12, BucketServes

\* A table whose last total is served: how many of its chunks are counted, and
\* whether it is late, when one more is served.
LEMMA ClosingInc ==
    ASSUME BarType, NEW t \in BarTables, TableInv(t), BucketOK(t), ServedFrom(optCh, optCh'),
           optCh[1] \in Incs(t), setup[t].kind = "bucket", Closing(t)
    PROVE  /\ entry[t].progress \in Nat /\ entry[t].total = setup[t].chunks /\ setup[t].chunks \in Nat
           /\ t \notin late /\ ~Among(optCh, Updates(t)) /\ producer[t] = "end"
<1>1. SendersOK(t) /\ CountsOK(t) /\ Live(t) /\ Begun(t)
  BY DEF TableInv, Closing, Live
<1>2. /\ producer[t] = "end" /\ ~Among(optCh, Updates(t))
      /\ entry[t].progress < setup[t].chunks <=> t \notin late
  BY DEF BucketOK
<1>3. /\ Got(t) = entry[t].progress /\ Tot(t) = entry[t].total /\ Got(t) \in Nat /\ Tot(t) \in Nat
  BY <1>1, LiveFacts DEF Got, Tot
<1>4. /\ produced[t] = setup[t].chunks /\ setup[t].chunks \in Nat /\ Announced(t) = produced[t]
      /\ comparing[t].taken \in Nat /\ comparing[t].failed \in Nat
      /\ comparing[t].taken + comparing[t].failed <= produced[t]
  BY <1>1, <1>2, SenderFacts, SetupFacts DEF SendersOK, Announced, Known
<1>5. Len(optCh) \in Nat /\ Len(optCh') \in Nat /\ Len(optCh) = Len(optCh') + 1
  BY Served
<1>6. Num(optCh, Updates(t), Len(optCh)) = 0
  <2>1. \A n \in 1 .. Len(optCh) : optCh[n] \notin Updates(t)
    BY <1>2 DEF Among
  <2> QED BY <1>5, <2>1, NumType
<1>7. Num(optCh, Incs(t), Len(optCh)) \in Nat /\ Num(optCh, Incs(t), Len(optCh)) >= 1
  <2>1. Len(optCh') \in 0 .. Len(optCh')
    BY <1>5
  <2>2. /\ Num(optCh, Incs(t), Len(optCh') + 1) = Num(optCh', Incs(t), Len(optCh')) + One(optCh[1], Incs(t))
        /\ Num(optCh', Incs(t), Len(optCh')) \in Nat
    BY <2>1, NumServed
  <2>3. One(optCh[1], Incs(t)) = 1
    BY DEF One
  <2> QED BY <1>5, <2>2, <2>3
<1>8. /\ Got(t) + Num(optCh, Incs(t), Len(optCh)) = comparing[t].taken
      /\ Tot(t) + Num(optCh, Updates(t), Len(optCh)) = Announced(t)
  BY <1>1 DEF CountsOK
<1>9. entry[t].total = setup[t].chunks
  BY <1>3, <1>4, <1>6, <1>8
<1>10. entry[t].progress < setup[t].chunks
  <2> DEFINE k == Num(optCh, Incs(t), Len(optCh))
             a == comparing[t].taken
  <2>1. k \in Nat /\ k >= 1 /\ a \in Nat /\ entry[t].progress + k = a /\ a <= setup[t].chunks
    BY <1>3, <1>4, <1>7, <1>8
  <2> HIDE DEF k, a
  <2> QED BY <1>3, <1>4, <2>1
<1> QED BY <1>2, <1>3, <1>4, <1>9, <1>10

\* ServeInc: a table whose last total is served is finished by its last chunk,
\* unless it is late and no chunk follows.
LEMMA ServeIncBucket == ASSUME BarInv, BucketInv, ServeInc PROVE BucketInv'
<1> SUFFICES ASSUME NEW o, o = Head(optCh), NEW t, t = o.table PROVE BucketInv'
  OBVIOUS
<1> DEFINE e == [entry[t] EXCEPT !.progress = @ + 1]
<1>1. BarType /\ \A u \in BarTables : OpsOK(u) /\ BucketOK(u) /\ TableInv(u)
  BY DEF BarInv, TableInv, BucketInv
<1>2. /\ Receive("inc") /\ UNCHANGED senders
      /\ IF t \notin tableMap THEN UNCHANGED entries
         ELSE IF e.progress >= e.total /\ e.stop THEN FinishTable(t, e)
              ELSE entry' = [entry EXCEPT ![t] = e] /\ UNCHANGED <<tableMap, tableList, tableFailList>>
  BY DEF ServeInc
<1>3. ServedFrom(optCh, optCh') /\ o = optCh[1] /\ o.op = "inc" /\ o \in AllOps
  BY <1>1, <1>2, Received
<1>4. t \in BarTables /\ o \in Incs(t)
  BY <1>3, OpOfTable
<1>5. o \in TableOps(t) /\ o \notin Starts(t) /\ o \notin Stops(t) /\ One(o, Incs(t)) = 1
  BY <1>4, OpsApart DEF TableOps, One
<1>6. Begun(t) /\ Begun(t)'
  BY <1>1, <1>2, <1>3, <1>4, <1>5, BegunServed
<1>7. UNCHANGED <<setup, producer, comparing, late>>
  BY <1>2 DEF senders
<1>8. CASE t \notin tableMap
  <2>1. UNCHANGED <<entry, tableMap, tableList, tableFailList>>
    BY <1>2, <1>8 DEF entries
  <2>2. ~Live(t) /\ ~Live(t)' /\ ~Closing(t) /\ ~Closing(t)' /\ OthersKept(t)
    BY <1>6, <1>8, <2>1 DEF Live, Closing, OthersKept
  <2>3. BucketOK(t)'
    BY <1>1, <1>2, <1>3, <1>4, <1>5, <2>1, <2>2, BucketServed
  <2> QED BY <1>2, <1>3, <1>4, <1>5, <2>2, <2>3, BucketServes
<1>9. CASE t \in tableMap
  <2>1. entry[t] \in EntryRecord /\ Live(t) /\ Got(t) = entry[t].progress /\ Got(t) \in Nat
    BY <1>1, <1>4, <1>6, <1>9, LiveFacts DEF BarType, Live, Got
  <2>2. /\ e.result = entry[t].result /\ e.progress = entry[t].progress + 1
        /\ e.total = entry[t].total /\ e.stop = entry[t].stop /\ e \in EntryRecord
    BY <2>1 DEF EntryRecord
  <2> HIDE DEF e
  <2>3. CASE ~(e.progress >= e.total /\ e.stop)
    <3>1. entry' = [entry EXCEPT ![t] = e] /\ UNCHANGED <<tableMap, tableList, tableFailList>>
      BY <1>2, <1>9, <2>3
    <3>2. entry'[t] = e /\ \A u \in BarTables \ {t} : entry'[u] = entry[u]
      BY <1>1, <1>4, <3>1 DEF BarType
    <3>3. OthersKept(t)
      BY <3>1, <3>2 DEF OthersKept
    <3>4. /\ Live(t)' /\ (Closing(t)' <=> Closing(t)) /\ Got(t)' = Got(t) + One(o, Incs(t))
      BY <1>5, <1>6, <1>9, <2>1, <2>2, <3>1, <3>2 DEF Live, Closing, Got
    <3>5. setup[t].kind = "bucket" /\ Closing(t) => (entry'[t].progress < setup[t].chunks <=> t \notin late)
      <4> SUFFICES ASSUME setup[t].kind = "bucket", Closing(t)
                   PROVE  entry'[t].progress < setup[t].chunks /\ t \notin late
        OBVIOUS
      <4>1. entry[t].progress \in Nat /\ entry[t].total = setup[t].chunks /\ setup[t].chunks \in Nat /\ t \notin late
        BY <1>1, <1>3, <1>4, ClosingInc
      <4>2. e.stop
        BY <2>2 DEF Closing
      <4> QED BY <2>2, <2>3, <3>2, <4>1, <4>2
    <3>6. BucketOK(t)'
      BY <1>1, <1>2, <1>3, <1>4, <1>5, <2>1, <3>1, <3>4, <3>5, BucketServed
    <3> QED BY <1>2, <1>3, <1>4, <1>5, <3>3, <3>6, BucketServes
  <2>4. CASE e.progress >= e.total /\ e.stop
    <3>1. FinishTable(t, e)
      BY <1>2, <1>9, <2>4
    <3>2. /\ OthersKept(t) /\ t \notin tableMap'
          /\ t \in tableFailList' <=> t \in tableFailList \/ (t \in tableList /\ e.result # {})
      BY <1>6, <1>9, <2>2, <3>1, FinishServed
    <3>3. BucketOK(t)'
      <4>1. CASE setup[t].kind # "bucket"
        BY <1>1, <1>4, <1>7, <4>1 DEF BucketOK
      <4>2. CASE setup[t].kind = "bucket"
        <5>1. Closing(t) /\ entry[t].progress + 1 >= entry[t].total
          BY <1>6, <1>9, <2>2, <2>4 DEF Closing
        <5>2. t \notin late /\ ~Among(optCh, Updates(t)) /\ producer[t] = "end"
          BY <1>1, <1>3, <1>4, <4>2, <5>1, ClosingInc
        <5>3. comparing[t].taken = setup[t].chunks /\ ~Among(optCh, Fails(t))
          BY <1>1, <1>3, <1>4, <1>6, <1>9, <5>1, <5>2, LastInc DEF Closing
        <5>4. ~Among(optCh, Stops(t))
          BY <1>1, <1>4, <4>2, <5>1 DEF BucketOK
        <5>5. /\ ~Among(optCh', Stops(t)) /\ ~Among(optCh', Updates(t))
          BY <1>3, <5>2, <5>4, AmongServed
        <5>6. setup[t].reg = "same" => (t \in tableFailList' <=> comparing[t].differs)
          <6> SUFFICES ASSUME setup[t].reg = "same" PROVE t \in tableFailList' <=> comparing[t].differs
            OBVIOUS
          <6>1. t \in tableList
            BY <1>1, <1>4, <1>6, <1>9 DEF TableInv, BegunOK
          <6>2. t \notin tableFailList /\ (comparing[t].differs <=> e.result # {})
            BY <1>1, <1>4, <1>6, <2>1, <2>2, <5>3 DEF TableInv, FailsOK
          <6> QED BY <3>2, <6>1, <6>2
        <5>7. ~Live(t)' /\ ~Closing(t)'
          BY <1>6, <3>2 DEF Live, Closing
        <5> QED BY <1>7, <4>2, <5>2, <5>3, <5>5, <5>6, <5>7 DEF BucketOK, Among
      <4> QED BY <4>1, <4>2
    <3> QED BY <1>2, <1>3, <1>4, <1>5, <3>2, <3>3, BucketServes
  <2> QED BY <2>3, <2>4
<1> QED BY <1>8, <1>9

\* ServeClose.
LEMMA ServeCloseBucket == ASSUME BarInv, BucketInv, ServeClose PROVE BucketInv'
<1>1. BarType /\ \A u \in BarTables : OpsOK(u) /\ BucketOK(u)
  BY DEF BarInv, TableInv, BucketInv
<1>2. Receive("close") /\ UNCHANGED senders /\ UNCHANGED entries
  BY DEF ServeClose
<1>3. ServedFrom(optCh, optCh') /\ optCh[1].op = "close"
  BY <1>1, <1>2, Received
<1>4. UNCHANGED <<entry, tableMap, tableFailList>>
  BY <1>2 DEF entries
<1>5. ASSUME NEW t \in BarTables PROVE BucketOK(t)'
  <2>1. optCh[1] \notin Starts(t) /\ optCh[1] \notin Stops(t) /\ One(optCh[1], Incs(t)) = 0
    BY <1>3, OpFields DEF One
  <2>2. Begun(t)' <=> Begun(t)
    BY <1>1, <1>2, <1>3, <2>1, BegunServed
  <2>3. /\ (Live(t)' <=> Live(t)) /\ (Closing(t)' <=> Closing(t)) /\ Got(t)' = Got(t)
        /\ Live(t) => Got(t) \in Nat
    BY <1>1, <1>4, <2>2, LiveFacts DEF Live, Closing, Got
  <2>4. Live(t) => Got(t) \in Nat /\ Got(t)' = Got(t) + One(optCh[1], Incs(t))
    BY <2>1, <2>3
  <2>5. setup[t].kind = "bucket" /\ Closing(t) => (entry'[t].progress < setup[t].chunks <=> t \notin late)
    BY <1>1, <1>4 DEF BucketOK
  <2> QED BY <1>1, <1>2, <1>3, <1>4, <2>1, <2>3, <2>4, <2>5, BucketServed
<1> QED BY <1>5 DEF BucketInv

\* The initial states: no last total is sent, and there is none for a table that
\* has nothing to start with.
LEMMA BucketInitially == ASSUME BarInit(BarSetups) PROVE BucketInv
<1>1. /\ producer = [t \in BarTables |-> IF Started(t) THEN "start" ELSE "end"]
      /\ late = {} /\ optCh = <<>> /\ Len(optCh) = 0
  BY DEF BarInit
<1>2. ASSUME NEW t \in BarTables PROVE BucketOK(t)
  <2>1. setup[t].kind = "bucket" => producer[t] = "start"
    BY <1>1 DEF Started, Known
  <2>2. setup[t].kind = "bucket" => ~Begun(t)
    BY <2>1 DEF Begun, Unstarted
  <2>3. ~Among(optCh, Stops(t)) /\ \A n \in 1 .. Len(optCh) : FALSE
    BY <1>1 DEF Among
  <2> QED BY <1>1, <2>1, <2>2, <2>3 DEF BucketOK, Closing, Live
<1> QED BY <1>2 DEF BucketInv

-----------------------------------------------------------------------------
(* The progress bar: the end.                                              *)

\* When the server returns, the tables that are open are those whose last total
\* was late.
LEMMA BarEnds ==
    ASSUME BarInv, BucketInv, ~serving, NEW t \in BarTables, setup[t].chunks > 0
    PROVE  /\ t \in tableMap <=> t \in late
           /\ t \in tableList <=> t \in late
           /\ setup[t].reg = "same" => (t \in tableFailList <=> comparing[t].differs /\ t \notin late)
<1>1. BarType /\ QueueOK /\ TableInv(t) /\ SendersOK(t) /\ CountsOK(t) /\ BegunOK(t) /\ LimitOK(t) /\ BucketOK(t)
  BY DEF BarInv, TableInv, BucketInv
<1>2. optCh = <<>> /\ Len(optCh) = 0 /\ producer[t] = "end" /\ comparing[t].taken = produced[t]
  BY <1>1 DEF QueueOK, AllSent
<1>3. \A O : ~Among(optCh, O) /\ Num(optCh, O, 0) = 0
  BY <1>2, NoneSent DEF Among
<1>4. produced[t] = setup[t].chunks /\ setup[t].chunks \in Nat /\ Announced(t) = setup[t].chunks
  BY <1>1, <1>2, SetupFacts DEF SendersOK, Announced
<1>5. Begun(t)
  BY <1>2, <1>3 DEF Begun, Unstarted, Started
<1>6. t \in tableMap => entry[t].progress = setup[t].chunks /\ entry[t].total = setup[t].chunks
  <2> SUFFICES ASSUME t \in tableMap
               PROVE  entry[t].progress = setup[t].chunks /\ entry[t].total = setup[t].chunks
    OBVIOUS
  <2>1. Live(t) /\ Got(t) = entry[t].progress /\ Tot(t) = entry[t].total
    BY <1>5 DEF Live, Got, Tot
  <2>2. Got(t) \in Nat /\ Tot(t) \in Nat
    BY <1>1, <2>1, LiveFacts
  <2>3. Got(t) + 0 = comparing[t].taken /\ Tot(t) + 0 = Announced(t)
    BY <1>1, <1>2, <1>3, <2>1 DEF CountsOK
  <2> QED BY <1>2, <1>4, <2>1, <2>2, <2>3
<1>7. t \in tableList => t \in tableMap
  BY <1>1, <1>5 DEF BegunOK
<1>8. CASE setup[t].kind # "bucket"
  <2>1. t \notin late
    BY <1>1, <1>8 DEF BucketOK
  <2>2. t \notin tableMap
    <3> SUFFICES ASSUME t \in tableMap PROVE FALSE
      OBVIOUS
    <3>1. ~(entry[t].progress < entry[t].total)
      BY <1>4, <1>6
    <3>2. ~Known(t)
      BY <1>1, <1>5, <3>1 DEF BegunOK
    <3>3. setup[t].kind = "limit"
      BY <1>1, <1>8, <3>2, SetupFacts DEF Known
    <3>4. entry[t].stop
      BY <1>1, <1>2, <1>3, <3>3 DEF LimitOK, LastSent, Live
    <3> QED BY <1>1, <1>5, <3>1, <3>3, <3>4 DEF BegunOK
  <2>3. setup[t].reg = "same" => (t \in tableFailList <=> comparing[t].differs)
    BY <1>1, <1>5, <1>8, <2>2 DEF BegunOK
  <2> QED BY <1>7, <2>1, <2>2, <2>3
<1>9. CASE setup[t].kind = "bucket"
  <2>1. setup[t].reg # "lack"
    BY <1>1, <1>9, SetupFacts
  <2>2. CASE t \in tableMap
    <3>1. Live(t)
      BY <2>2 DEF Live
    <3>2. Closing(t)
      BY <1>1, <1>2, <1>3, <1>9, <3>1 DEF BucketOK
    <3>3. entry[t].progress < setup[t].chunks <=> t \notin late
      BY <1>1, <1>9, <3>2 DEF BucketOK
    <3>4. t \in late
      BY <1>4, <1>6, <2>2, <3>3
    <3>5. t \in tableList
      BY <1>1, <1>5, <2>1, <2>2 DEF BegunOK
    <3>6. setup[t].reg = "same" => t \notin tableFailList
      BY <1>1, <3>1 DEF TableInv, FailsOK
    <3> QED BY <2>2, <3>4, <3>5, <3>6
  <2>3. CASE t \notin tableMap
    <3>1. ~Live(t)
      BY <1>5, <2>3 DEF Live
    <3>2. /\ t \notin late
          /\ setup[t].reg = "same" => (t \in tableFailList <=> comparing[t].differs)
      BY <1>1, <1>9, <3>1 DEF BucketOK
    <3> QED BY <1>7, <2>3, <3>2
  <2> QED BY <2>2, <2>3
<1> QED BY <1>8, <1>9

\* A bar that is not looked at does not move.
BarRests ==
    progressTableNums = 0 /\ progress = 0 /\ finishTableNums = Finished /\ total = 0 /\ serving

BarPart == IF part = "bar" THEN BarInv /\ BucketInv ELSE BarRests

\* The bar's invariant holds throughout.
LEMMA BarPartInvariant == BackSpec => []BarPart
<1>1. BackInit => BarPart
  <2>1. ASSUME NEW setups, BarInit(setups) PROVE BarRests
    BY <2>1 DEF BarInit, BarRests
  <2>2. CASE part = "bar" /\ BarInit(BarSetups)
    BY <2>2, BarInitially, BucketInitially DEF BarPart
  <2>3. CASE part # "bar" /\ BarInit({NoSetup})
    BY <2>1, <2>3 DEF BarPart
  <2>4. BackInit => (part = "bar" /\ BarInit(BarSetups)) \/ (part # "bar" /\ BarInit({NoSetup}))
    BY DEF BackInit
  <2> QED BY <2>2, <2>3, <2>4
<1>2. BarPart /\ [BackNext]_backVars => BarPart'
  <2> SUFFICES ASSUME BarPart, [BackNext]_backVars PROVE BarPart'
    OBVIOUS
  <2>1. CASE part = "bar" /\ BarNext /\ UNCHANGED <<part, keeperVars, watchVars>>
    <3>1. BarInv /\ BucketInv /\ part' = "bar"
      BY <2>1 DEF BarPart
    <3>2. BarInv' /\ BucketInv'
      <4>1. ASSUME NEW t \in BarTables,
                   RegisterTable(t) \/ StartTable(t) \/ UpdateTotal(t) \/ Publish(t)
                   \/ StopUpdate(t) \/ FailTable(t) \/ Inc(t)
            PROVE  BarInv' /\ BucketInv'
        <5>1. BarInv'
          BY <3>1, <4>1, RegisterTableStep, StartTableStep, UpdateTotalStep, PublishStep, StopUpdateStep,
             FailTableStep, IncStep
        <5>2. BucketInv'
          BY <3>1, <4>1, RegisterTableBucket, StartTableBucket, UpdateTotalBucket, PublishBucket,
             StopUpdateBucket, FailTableBucket, IncBucket
        <5> QED BY <5>1, <5>2
      <4>2. CASE CloseBar \/ ServeRegister \/ ServeStart \/ ServeUpdate \/ ServeFail \/ ServeInc \/ ServeClose
        <5>1. BarInv'
          BY <3>1, <4>2, CloseBarStep, ServeRegisterStep, ServeStartStep, ServeUpdateStep, ServeFailStep,
             ServeIncStep, ServeCloseStep
        <5>2. BucketInv'
          BY <3>1, <4>2, CloseBarBucket, ServeRegisterBucket, ServeStartBucket, ServeUpdateBucket,
             ServeFailBucket, ServeIncBucket, ServeCloseBucket
        <5> QED BY <5>1, <5>2
      <4> QED BY <2>1, <4>1, <4>2 DEF BarNext
    <3> QED BY <3>1, <3>2 DEF BarPart
  <2>2. CASE UNCHANGED <<part, barVars>>
    <3>1. UNCHANGED <<part, setup, unregistered, producer, produced, comparing, late, optCh, entry, tableMap,
                      tableList, tableFailList, progressTableNums, finishTableNums, progress, total, serving>>
      BY <2>2 DEF barVars, senders, entries, counters
    <3>2. BarRests' <=> BarRests
      BY <3>1 DEF BarRests
    <3>3. BarInv => BarInv'
      <4> SUFFICES ASSUME BarInv PROVE BarInv'
        OBVIOUS
      <4>1. \A t \in BarTables : TableInv(t)' /\ (Begun(t)' <=> Begun(t))
        <5> TAKE t \in BarTables
        <5>1. TableInv(t)
          BY DEF BarInv
        <5>2. /\ Unstarted(t)' <=> Unstarted(t)
              /\ Started(t)' = Started(t) /\ Known(t)' = Known(t) /\ Announced(t)' = Announced(t)
              /\ Result(t)' = Result(t) /\ Registered(t)' = Registered(t) /\ Base(t)' = Base(t)
              /\ LastSent(t)' <=> LastSent(t)
          BY <3>1 DEF Unstarted, Started, Known, Announced, Result, Registered, Base, LastSent
        <5>3. Begun(t)' <=> Begun(t)
          BY <3>1, <5>2 DEF Begun
        <5>4. /\ Live(t)' <=> Live(t)
              /\ Got(t)' = Got(t) /\ Tot(t)' = Tot(t)
          BY <3>1, <5>2, <5>3 DEF Live, Got, Tot
        <5>5. OpsOK(t)' /\ SendersOK(t)' /\ WaitingOK(t)'
          BY <3>1, <5>1, <5>2, <5>3 DEF TableInv, OpsOK, SendersOK, WaitingOK, RegWaits
        <5>6. CountsOK(t)' /\ BegunOK(t)' /\ LimitOK(t)' /\ FailsOK(t)'
          BY <3>1, <5>1, <5>2, <5>3, <5>4 DEF TableInv, CountsOK, BegunOK, LimitOK, FailsOK
        <5> QED BY <5>3, <5>5, <5>6 DEF TableInv
      <4>2. BarType'
        BY <3>1 DEF BarInv, BarType, Registered
      <4>3. QueueOK'
        BY <3>1, <4>1 DEF BarInv, QueueOK, AllSent, Unstarted, Started, Known
      <4>4. CountersOK'
        BY <3>1, <4>1, CountersKept DEF BarInv, entries, counters
      <4> QED BY <4>1, <4>2, <4>3, <4>4 DEF BarInv
    <3>4. BarInv /\ BucketInv => BucketInv'
      <4> SUFFICES ASSUME BarInv, BucketInv, NEW t \in BarTables PROVE BucketOK(t)'
        BY DEF BucketInv
      <4>1. Begun(t)' <=> Begun(t)
        BY <3>1 DEF Begun, Unstarted, Started, Known
      <4> QED BY <3>1, <4>1, BucketSame DEF BucketInv, entries
    <3> QED BY <3>1, <3>2, <3>3, <3>4 DEF BarPart
  <2>3. \/ part = "bar" /\ BarNext /\ UNCHANGED <<part, keeperVars, watchVars>>
        \/ UNCHANGED <<part, barVars>>
    BY DEF BackNext, backVars
  <2> QED BY <2>1, <2>2, <2>3
<1> QED BY <1>1, <1>2, PTL DEF BackSpec

\* The bar is never filled past its end, whenever it is drawn, and when the
\* server returns a table stays open just when its splitter said that no chunk
\* follows after all were counted, and a table that is finished, and whose
\* structure is the same, is among the failed ones just when a worker said so:
\* the operations that serve applies in the order of optCh, whatever the order the
\* splitters and the workers send them in.
THEOREM BarIsSound == BackSpec => []BarSound
<1>1. BarPart => BarSound
  <2> SUFFICES ASSUME BarPart PROVE BarSound
    OBVIOUS
  <2>1. CASE part = "bar"
    <3>1. BarInv /\ BucketInv
      BY <2>1 DEF BarPart
    <3> QED BY <3>1, BarHolds, BarEnds DEF BarSound
  <2>2. CASE part # "bar"
    <3>1. /\ progressTableNums = 0 /\ progress = 0 /\ finishTableNums = Finished /\ total = 0 /\ serving
      BY <2>2 DEF BarPart, BarRests
    <3>2. Cardinality(BarTables) \in Nat /\ Finished \in Nat
      BY ProgressAssumption, FS_CardinalityType
    <3>3. 0 * 0 <= (tableNums - Finished) * (0 + 1)
      BY <3>2 DEF tableNums
    <3> QED BY <3>1, <3>3 DEF BarSound
  <2> QED BY <2>1, <2>2
<1> QED BY <1>1, BarPartInvariant, PTL
=============================================================================
