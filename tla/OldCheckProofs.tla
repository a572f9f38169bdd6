--------------------------- MODULE OldCheckProofs ---------------------------
(***************************************************************************)
(* Proofs about OldCheck: what a run of the old library says of two tables *)
(* is true of them but for the streams of the target that broke off,       *)
(* whatever runs were killed, cancelled or configured otherwise before it; *)
(* what the comparison of rows says of them for any keys, and that its     *)
(* statements repair the target where the code orders keys as the queries  *)
(* do; and the chunks of a table lose no row of it.                        *)
(***************************************************************************)
EXTENDS OldCheck, FiniteSetTheorems, FunctionTheorems, WellFoundedInduction, TLAPS

-----------------------------------------------------------------------------
(* The check with its checkpoint: where a chunk is.                        *)

States == {"not_checked", "checking", "success", "failed", "ignore", "error"}
Good == {"success", "ignore"}
Tables == UNION {[D -> States] : D \in SUBSET Chunks}
InfoRecord == [total : Nat, success : Nat, failed : Nat, ignore : Nat]

\* Where Equal is before the workers are started, and while they run.
Loading == {"off", "load", "clean summary", "clean chunks", "init summary", "split", "launch"}
Running == {"collect", "wait", "stop updater", "return"}

InSeq(c, s) == \E n \in 1 .. Len(s) : s[n] = c
Distinct(s) == \A m, n \in 1 .. Len(s) : m # n => s[m] # s[n]

Holds(w, c) == worker[w].at \in {"check", "finish"} /\ worker[w].chunk = c
Waits(c) == InSeq(c, unsent) \/ \E w \in Workers : InSeq(c, queue[w]) \/ Holds(w, c)

\* The chunks a worker is done with, and those of them found equal or left out.
Out == {c \in DOMAIN state : ~Waits(c)}
GoodOut == {c \in Out : state[c] \in Good}

\* The workers with a result to report, and the results there are.
Reporting == {w \in Workers : worker[w].at = "report"}
Reported == got + Len(results) + Cardinality(Reporting)
Unequal ==
    equalSoFar = FALSE \/ InSeq(FALSE, results) \/ \E w \in Reporting : worker[w].eq = FALSE

CheckType ==
    /\ differ \in SUBSET Chunks /\ missed \in SUBSET Chunks
    /\ chunkRow \in [{"target", "stats"} -> Tables] /\ state \in Tables
    /\ summary \in {None} \cup SummaryRecord /\ config \in {None} \cup Configs
    /\ main \in Loading \cup Running \cup {"done"} /\ (main \in Loading \ {"off"} => config \in Configs)
    /\ cancelled \in BOOLEAN /\ inserted \in Nat
    /\ unsent \in Seq(Chunks) /\ queue \in [Workers -> Seq(Chunks)]
    /\ worker \in [Workers -> {Off, Idle, Gone} \cup [at : {"report"}, eq : BOOLEAN]
                      \cup [at : {"check"}, chunk : Chunks]
                      \cup [at : {"finish"}, chunk : Chunks, outcome : {"success", "failed", "ignore", "error"}]]
    /\ results \in Seq(BOOLEAN) /\ got \in Nat /\ equalSoFar \in BOOLEAN

\* A chunk waits at one place, and its ID says with which worker.
PlaceOK ==
    /\ Distinct(unsent)
    /\ \A w \in Workers :
          /\ Distinct(queue[w])
          /\ \A c \in Chunks : InSeq(c, queue[w]) => c % Threads = w /\ ~Holds(w, c)
          /\ \A c \in Chunks : Holds(w, c) => c % Threads = w
    /\ \A c \in Chunks : InSeq(c, unsent) => \A w \in Workers : ~InSeq(c, queue[w]) /\ ~Holds(w, c)

\* What is in memory and in the chunk table is true of the data.
StatesOK ==
    /\ \A c \in DOMAIN state : state[c] = "success" => c \notin differ \ missed
    /\ config = "all" => \A c \in DOMAIN state : state[c] # "ignore"
    /\ \A w \in Workers : worker[w].at = "finish" =>
          /\ worker[w].outcome = "success" => worker[w].chunk \notin differ \ missed
          /\ worker[w].outcome = "failed" => worker[w].chunk \in differ \cup missed
          /\ worker[w].outcome = "ignore" => config # "all"
    /\ \A c \in DOMAIN chunkRow["target"] : chunkRow["target"][c] = "success" => c \notin differ \ missed

\* The rows of a summary that is not new are complete, and of its configuration.
SummaryOK ==
    summary # None =>
        /\ summary.state # "not_checked" => DOMAIN chunkRow["target"] = Chunks
        /\ summary.hash = "all" => \A c \in DOMAIN chunkRow["target"] : chunkRow["target"][c] # "ignore"

\* Nothing is under way before the launch.
LoadingOK ==
    /\ main \in Loading =>
          /\ info = None /\ unsent = <<>> /\ results = <<>> /\ got = 0 /\ equalSoFar
          /\ \A w \in Workers : worker[w] = Off /\ queue[w] = <<>>
    /\ main \in {"load", "clean summary", "clean chunks"} => state = <<>>
    /\ main \in {"clean chunks", "init summary"} => summary = None
    /\ main = "init summary" => chunkRow["target"] = <<>>
    /\ main \in {"load", "clean summary", "clean chunks", "init summary"} => inserted = 0
    /\ main = "split" => DOMAIN chunkRow["target"] = 0 .. inserted - 1 /\ inserted <= NChunks
    /\ main = "launch" => DOMAIN state = Chunks /\ DOMAIN chunkRow["target"] = Chunks
    /\ main \in {"split", "launch"} => summary \in SummaryRecord /\ summary.hash = config

\* No worker is left when Equal stops its helpers, and only its end has a result.
EndOK ==
    /\ main \in {"stop updater", "return", "done"} => \A w \in Workers : worker[w] \in {Off, Gone}
    /\ result # "none" => main = "done"

\* From the launch on: the table is that of this run, and its counters count
\* chunks that are done.
Launched == info # None \/ main \in Running \/ \E w \in Workers : worker[w] \notin {Off, Gone}
LaunchedOK ==
    Launched =>
        /\ info \in InfoRecord /\ info.total = NChunks
        /\ DOMAIN state = Chunks /\ DOMAIN chunkRow["target"] = Chunks
        /\ summary \in SummaryRecord /\ summary.hash = config
        /\ info.success + info.ignore <= Cardinality(GoodOut)

\* No more results than chunks that are done; if as many, they tell of all.
ReportsOK ==
    /\ Reported <= Cardinality(Out)
    /\ ~Unequal /\ Reported = Cardinality(Out) => GoodOut = Out
    /\ Unequal => differ \cup missed # {} \/ cancelled \/ \E c \in Out : state[c] = "error"
    /\ main \in {"wait", "stop updater", "return"} /\ equalSoFar => got = NChunks

VerdictInv ==
    /\ CheckType /\ PlaceOK /\ StatesOK /\ SummaryOK /\ LoadingOK /\ EndOK /\ LaunchedOK /\ ReportsOK
    /\ OldVerdictSound

-----------------------------------------------------------------------------
(* Lemmas: what is in a sequence, and sizes.                               *)

\* There is a chunk, there is a worker, and a worker for every chunk.
LEMMA ChunksFinite ==
    /\ IsFiniteSet(Chunks) /\ Cardinality(Chunks) = NChunks /\ Chunks # {}
    /\ \A c \in Chunks : c % Threads \in Workers
<1>1. NChunks \in Nat \ {0} /\ Threads \in Nat \ {0}
  BY OldDiffAssumption
<1>2. IsFiniteSet(0 .. NChunks - 1) /\ Cardinality(0 .. NChunks - 1) = NChunks
  BY <1>1, FS_Interval
<1>3. 0 \in Chunks
  BY <1>1 DEF Chunks
<1>4. \A c \in Chunks : c % Threads \in Workers
  BY <1>1 DEF Chunks, Workers
<1> QED BY <1>2, <1>3, <1>4 DEF Chunks

\* The workers are finitely many.
LEMMA WorkersFinite == \A W \in SUBSET Workers : IsFiniteSet(W) /\ Cardinality(W) \in Nat
<1>1. Threads \in Nat
  BY OldDiffAssumption
<1>2. IsFiniteSet(0 .. Threads - 1)
  BY <1>1, FS_Interval
<1>3. IsFiniteSet(Workers)
  BY <1>2 DEF Workers
<1> QED BY <1>3, FS_Subset, FS_CardinalityType

\* What is in a sequence with an element more.
LEMMA AppendIn ==
    ASSUME NEW T, NEW s \in Seq(T), NEW e \in T
    PROVE  /\ Append(s, e) \in Seq(T)
           /\ \A c : InSeq(c, Append(s, e)) <=> InSeq(c, s) \/ c = e
           /\ Distinct(s) /\ ~InSeq(e, s) => Distinct(Append(s, e))
<1> DEFINE a == Append(s, e)
<1>1. a \in Seq(T) /\ Len(a) = Len(s) + 1 /\ Len(s) \in Nat
  OBVIOUS
<1>2. a[Len(s) + 1] = e /\ \A n \in 1 .. Len(s) : a[n] = s[n]
  OBVIOUS
<1> HIDE DEF a
<1>3. ASSUME NEW c PROVE InSeq(c, a) <=> InSeq(c, s) \/ c = e
  BY <1>1, <1>2 DEF InSeq
<1>4. ASSUME Distinct(s), ~InSeq(e, s) PROVE Distinct(a)
  BY <1>1, <1>2, <1>4 DEF InSeq, Distinct
<1> QED BY <1>1, <1>3, <1>4 DEF a

\* And without its first.
LEMMA TailIn ==
    ASSUME NEW T, NEW s \in Seq(T), s # <<>>
    PROVE  /\ Tail(s) \in Seq(T) /\ Head(s) \in T
           /\ \A c : InSeq(c, s) <=> InSeq(c, Tail(s)) \/ c = Head(s)
           /\ Distinct(s) => Distinct(Tail(s)) /\ ~InSeq(Head(s), Tail(s))
<1> DEFINE t == Tail(s)
<1>1. t \in Seq(T) /\ Len(t) = Len(s) - 1 /\ Len(s) \in Nat /\ Len(s) # 0 /\ Head(s) = s[1] /\ s[1] \in T
  OBVIOUS
<1>2. \A n \in 1 .. Len(s) - 1 : t[n] = s[n + 1]
  OBVIOUS
<1> HIDE DEF t
<1>3. ASSUME NEW c PROVE InSeq(c, s) <=> InSeq(c, t) \/ c = Head(s)
  <2>1. ASSUME InSeq(c, s), c # Head(s) PROVE InSeq(c, t)
    <3>1. PICK n \in 1 .. Len(s) : s[n] = c
      BY <2>1 DEF InSeq
    <3>2. n - 1 \in 1 .. Len(t) /\ t[n - 1] = s[n]
      BY <1>1, <1>2, <2>1, <3>1
    <3> QED BY <3>1, <3>2 DEF InSeq
  <2>2. ASSUME InSeq(c, t) PROVE InSeq(c, s)
    BY <1>1, <1>2, <2>2 DEF InSeq
  <2>3. InSeq(Head(s), s)
    BY <1>1 DEF InSeq
  <2> QED BY <2>1, <2>2, <2>3
<1>4. ASSUME Distinct(s) PROVE Distinct(t) /\ ~InSeq(Head(s), t)
  BY <1>1, <1>2, <1>4 DEF InSeq, Distinct
<1> QED BY <1>1, <1>3, <1>4 DEF t

\* Nothing is in the empty sequence.
LEMMA EmptyIn == Distinct(<<>>) /\ \A c : ~InSeq(c, <<>>)
  BY DEF Distinct, InSeq

\* A chunk or a result more.
LEMMA OneMore ==
    ASSUME NEW S, IsFiniteSet(S), NEW c, c \notin S
    PROVE  IsFiniteSet(S \cup {c}) /\ Cardinality(S \cup {c}) = Cardinality(S) + 1 /\ Cardinality(S) \in Nat
  BY FS_AddElement, FS_CardinalityType

\* A part of a finite set is smaller unless it is all of it.
LEMMA PartSmaller ==
    ASSUME NEW S, IsFiniteSet(S), NEW T, T \subseteq S
    PROVE  /\ IsFiniteSet(T) /\ Cardinality(T) \in Nat /\ Cardinality(S) \in Nat
           /\ Cardinality(T) <= Cardinality(S) /\ (Cardinality(T) = Cardinality(S) => T = S)
  BY FS_Subset, FS_CardinalityType

-----------------------------------------------------------------------------
(* Before the launch.                                                      *)

\* What holds while nothing is under way.
LEMMA FreshPipe ==
    ASSUME CheckType', unsent' = <<>>, results' = <<>>, got' = 0, equalSoFar' = TRUE,
           \A w \in Workers : worker'[w] = Off /\ queue'[w] = <<>>,
           main' \in Loading \cup {"done"}
    PROVE  /\ PlaceOK' /\ ReportsOK'
           /\ \A w \in Workers : worker'[w].at = "off" /\ worker'[w] \in {Off, Gone}
<1>1. \A w \in Workers : worker'[w].at = "off" /\ worker'[w] \in {Off, Gone}
  BY DEF Off
<1>2. \A c : ~Waits(c)'
  BY <1>1, EmptyIn DEF Waits, Holds
<1>3. PlaceOK'
  BY <1>1, EmptyIn DEF PlaceOK, Holds
<1>4. Out' = DOMAIN state' /\ Out' \subseteq Chunks
  BY <1>2 DEF Out, CheckType, Tables
<1>5. Reporting' = {} /\ Cardinality(Reporting') = 0
  BY <1>1, FS_EmptySet DEF Reporting
<1>6. Reported' = 0
  BY <1>5 DEF Reported
<1>7. ~Unequal'
  <2>1. equalSoFar' # FALSE /\ ~InSeq(FALSE, results')
    BY EmptyIn
  <2> QED BY <1>5, <2>1, Zenon DEF Unequal
<1>8. Cardinality(Out') \in Nat /\ (Cardinality(Out') = 0 => Out' = {})
  BY <1>4, ChunksFinite, FS_Subset, FS_CardinalityType, FS_EmptySet
<1>9. Out' = {} => GoodOut' = Out'
  BY DEF GoodOut
<1>10. ReportsOK'
  <2>1. Reported' <= Cardinality(Out') /\ (Reported' = Cardinality(Out') => GoodOut' = Out')
    BY <1>6, <1>8, <1>9
  <2>2. ~(main' \in {"wait", "stop updater", "return"})
    BY DEF Loading
  <2> QED BY <1>7, <2>1, <2>2 DEF ReportsOK
<1> QED BY <1>1, <1>3, <1>10

\* The same at the very beginning.
LEMMA VerdictInit ==
    ASSUME NEW D, D \subseteq SUBSET Chunks, OldInit(D)
    PROVE  VerdictInv
<1>0. \A w \in Workers : worker[w] = Off /\ worker[w].at = "off" /\ queue[w] = <<>>
  BY DEF OldInit, Fresh, Off
<1>1. CheckType
  <2>1. chunkRow \in [{"target", "stats"} -> Tables] /\ state \in Tables
    <3>1. <<>> \in [{} -> States]
      OBVIOUS
    <3>2. [{} -> States] \subseteq Tables
      BY DEF Tables
    <3> QED BY <3>1, <3>2 DEF OldInit, NoRows, Fresh
  <2>2. unsent \in Seq(Chunks) /\ queue \in [Workers -> Seq(Chunks)] /\ results \in Seq(BOOLEAN)
    BY DEF OldInit, Fresh
  <2>3. worker \in [Workers -> {Off}]
    BY DEF OldInit, Fresh
  <2> QED BY <2>1, <2>2, <2>3 DEF CheckType, OldInit, Fresh, Loading
<1>2. \A c : ~Waits(c)
  BY <1>0, EmptyIn DEF Waits, Holds, OldInit, Fresh
<1>3. PlaceOK
  BY <1>0, EmptyIn DEF PlaceOK, Holds, OldInit, Fresh
<1>4. Out = {} /\ GoodOut = {}
  BY DEF Out, GoodOut, OldInit, Fresh
<1>5. Reporting = {}
  BY <1>0 DEF Reporting
<1>6. ReportsOK
  <2>1. Reported = 0 /\ Cardinality(Out) = 0
    BY <1>4, <1>5, FS_EmptySet DEF Reported, OldInit, Fresh
  <2>2. ~Unequal
    <3>1. equalSoFar # FALSE /\ ~InSeq(FALSE, results)
      BY EmptyIn DEF OldInit, Fresh
    <3> QED BY <1>5, <3>1, Zenon DEF Unequal
  <2> QED BY <1>4, <2>1, <2>2 DEF ReportsOK, OldInit, Fresh
<1>7. StatesOK
  BY <1>0 DEF StatesOK, OldInit, Fresh, NoRows
<1>8. SummaryOK /\ OldVerdictSound
  BY DEF SummaryOK, OldVerdictSound, OldInit, Fresh
<1>9. LoadingOK /\ EndOK /\ LaunchedOK
  BY <1>0 DEF LoadingOK, EndOK, LaunchedOK, Launched, OldInit, Fresh, Running
<1> QED BY <1>1, <1>3, <1>6, <1>7, <1>8, <1>9 DEF VerdictInv

\* The process starts, or is killed.
LEMMA StartOrCrash ==
    ASSUME VerdictInv, SplitFrom = "target", OldStart \/ OldCrash
    PROVE  VerdictInv'
<1>0. /\ unsent' = <<>> /\ results' = <<>> /\ got' = 0 /\ equalSoFar' = TRUE /\ result' = "none"
      /\ \A w \in Workers : worker'[w] = Off /\ queue'[w] = <<>>
      /\ main' \in {"load", "off"} /\ state' = <<>> /\ info' = None /\ inserted' = 0 /\ cancelled' = FALSE
      /\ UNCHANGED <<differ, missed, summary, chunkRow>>
      /\ config' \in Configs \cup {None} /\ (main' = "load" => config' \in Configs)
      /\ queue' = [w \in Workers |-> <<>>] /\ worker' = [w \in Workers |-> Off]
  BY DEF OldStart, OldCrash, Restart, db, Fault, Failure
<1>1. CheckType'
  <2>1. state' \in Tables
    <3>1. <<>> \in [{} -> States]
      OBVIOUS
    <3>2. [{} -> States] \subseteq Tables
      BY DEF Tables
    <3> QED BY <1>0, <3>1, <3>2
  <2>2. unsent' \in Seq(Chunks) /\ queue' \in [Workers -> Seq(Chunks)] /\ results' \in Seq(BOOLEAN)
    BY <1>0
  <2>3. worker' \in [Workers -> {Off}]
    BY <1>0
  <2> QED BY <1>0, <2>1, <2>2, <2>3 DEF CheckType, VerdictInv, Loading
<1>2. PlaceOK' /\ ReportsOK' /\ \A w \in Workers : worker'[w].at = "off" /\ worker'[w] \in {Off, Gone}
  BY <1>0, <1>1, FreshPipe DEF Loading
<1>3. StatesOK' /\ SummaryOK'
  BY <1>0, <1>2 DEF StatesOK, SummaryOK, VerdictInv
<1>4. LoadingOK' /\ EndOK' /\ LaunchedOK'
  BY <1>0, <1>2 DEF LoadingOK, EndOK, LaunchedOK, Launched, Running
<1>5. OldVerdictSound'
  BY <1>0 DEF VerdictInv, OldVerdictSound
<1> QED BY <1>1, <1>2, <1>3, <1>4, <1>5 DEF VerdictInv

\* The pipe of a process that is loading.
LEMMA LoadingPipe ==
    ASSUME VerdictInv, main \in Loading, CheckType', UNCHANGED <<unsent, results, got, equalSoFar, worker, queue>>,
           main' \in Loading \cup {"done"}
    PROVE  /\ PlaceOK' /\ ReportsOK'
           /\ \A w \in Workers : worker'[w].at = "off" /\ worker'[w] \in {Off, Gone}
<1>1. /\ unsent = <<>> /\ results = <<>> /\ got = 0 /\ equalSoFar = TRUE
      /\ \A w \in Workers : worker[w] = Off /\ queue[w] = <<>>
  BY DEF VerdictInv, LoadingOK, CheckType
<1> QED BY <1>1, FreshPipe

\* A step of the loading that leaves memory and chunk table as they are.
LEMMA LoadingStill ==
    ASSUME VerdictInv, SplitFrom = "target", main \in Loading,
           UNCHANGED <<differ, missed, chunkRow, state, config, info, unsent, results, got, equalSoFar, worker, queue>>,
           CheckType', main' \in Loading \cup {"done"},
           main' = "done" \/ result' = "none",
           result' \in {"none", "error"},
           summary' # None => \/ summary' = summary
                              \/ summary'.state = "not_checked" /\ summary'.hash = config /\ chunkRow["target"] = <<>>,
           (main' \in Loading) => LoadingOK'
    PROVE  VerdictInv'
<1>1. PlaceOK' /\ ReportsOK' /\ \A w \in Workers : worker'[w].at = "off" /\ worker'[w] \in {Off, Gone}
  BY LoadingPipe
<1>2. StatesOK'
  BY <1>1 DEF StatesOK, VerdictInv
<1>3. SummaryOK'
  BY DEF SummaryOK, VerdictInv
<1>4. LoadingOK' /\ EndOK'
  BY <1>1 DEF LoadingOK, EndOK, Loading
<1>5. LaunchedOK'
  <2>1. info' = None
    BY DEF VerdictInv, LoadingOK
  <2> QED BY <1>1, <2>1 DEF LaunchedOK, Launched, Running, Loading
<1>6. OldVerdictSound'
  BY DEF VerdictInv, OldVerdictSound
<1> QED BY <1>1, <1>2, <1>3, <1>4, <1>5, <1>6 DEF VerdictInv

\* The statements of the loading that do not touch the chunk table, and the
\* end with an error.
LEMMA StatementStep ==
    ASSUME VerdictInv, SplitFrom = "target", CleanSummary \/ InitTableSummary \/ LoadFails
    PROVE  VerdictInv'
<1>1. main \in Loading /\ main \notin {"off", "launch"} /\ config \in Configs
  BY DEF CleanSummary, InitTableSummary, LoadFails, Loading, VerdictInv, CheckType
<1>2. UNCHANGED <<differ, missed, chunkRow, state, config, info, unsent, results, got, equalSoFar, worker, queue, inserted, cancelled>>
  BY DEF CleanSummary, InitTableSummary, LoadFails, db, past, Fault, Failure, loadVars, pipe, tally, helpers
<1>3. main' \in Loading \cup {"done"} /\ (main' = "done" \/ result' = "none") /\ result' \in {"none", "error"}
  <2>1. result = "none"
    BY <1>1 DEF VerdictInv, EndOK, Loading
  <2> QED BY <2>1 DEF CleanSummary, InitTableSummary, LoadFails, Loading, tally
<1>4. summary' \in {None, summary, [state |-> "not_checked", hash |-> config]}
  BY DEF CleanSummary, InitTableSummary, LoadFails, db
<1>5. CheckType'
  BY <1>1, <1>2, <1>3, <1>4 DEF VerdictInv, CheckType, SummaryRecord
<1>6. summary' # None => \/ summary' = summary
                         \/ summary'.state = "not_checked" /\ summary'.hash = config /\ chunkRow["target"] = <<>>
  <2>1. CASE main = "init summary"
    <3>1. summary = None /\ chunkRow["target"] = <<>>
      BY <2>1 DEF VerdictInv, LoadingOK
    <3>2. [state |-> "not_checked", hash |-> config].state = "not_checked"
      OBVIOUS
    <3>3. [state |-> "not_checked", hash |-> config].hash = config
      OBVIOUS
    <3> QED BY <1>4, <3>1, <3>2, <3>3
  <2>2. CASE main # "init summary"
    BY <2>2 DEF CleanSummary, InitTableSummary, LoadFails, db
  <2> QED BY <2>1, <2>2
<1>7. main' \in Loading => LoadingOK'
  <2> SUFFICES ASSUME main' \in Loading PROVE LoadingOK'
    OBVIOUS
  <2>1. LoadingOK /\ inserted = 0
    BY <1>1 DEF VerdictInv, LoadingOK, CleanSummary, InitTableSummary, LoadFails, Loading
  <2>2. CASE CleanSummary
    BY <1>1, <1>2, <2>1, <2>2 DEF CleanSummary, LoadingOK
  <2>3. CASE InitTableSummary
    <3>1. NChunks \in Nat
      BY OldDiffAssumption
    <3>2. chunkRow["target"] = <<>>
      BY <2>1, <2>3 DEF InitTableSummary, LoadingOK
    <3>3. DOMAIN chunkRow["target"] = {} /\ 0 .. inserted - 1 = {}
      BY <2>1, <3>2
    <3>6. main' = "split" /\ summary' = [state |-> "not_checked", hash |-> config]
      BY <2>3 DEF InitTableSummary
    <3>7. summary' \in SummaryRecord /\ summary'.hash = config'
      BY <1>1, <1>2, <3>6 DEF SummaryRecord
    <3>4. main' = "split" /\ chunkRow' = chunkRow /\ inserted' = 0 /\ inserted' <= NChunks
      BY <1>2, <2>1, <3>1, <3>6
    <3>5. /\ info' = None /\ unsent' = <<>> /\ results' = <<>> /\ got' = 0 /\ equalSoFar'
          /\ \A w \in Workers : worker'[w] = Off /\ queue'[w] = <<>>
      BY <1>1, <1>2, <2>1 DEF LoadingOK
    <3> QED BY <1>2, <2>1, <3>3, <3>4, <3>5, <3>7 DEF LoadingOK
  <2>4. CASE LoadFails
    BY <2>4 DEF LoadFails, Loading
  <2> QED BY <2>2, <2>3, <2>4
<1> QED BY <1>1, <1>2, <1>3, <1>5, <1>6, <1>7, LoadingStill

\* The chunks of the target are deleted.
LEMMA CleanChunksStep ==
    ASSUME VerdictInv, SplitFrom = "target", CleanChunks
    PROVE  VerdictInv'
<1>1. main \in Loading /\ main' = "init summary" /\ summary = None /\ result = "none" /\ config \in Configs
  BY DEF CleanChunks, Loading, VerdictInv, LoadingOK, CheckType, EndOK
<1>2. /\ UNCHANGED <<differ, summary, state, config, info, unsent, results, got, equalSoFar, worker, queue, inserted, cancelled, result>>
      /\ missed' = {} /\ state = <<>> /\ chunkRow' = [chunkRow EXCEPT !["target"] = <<>>]
  BY DEF CleanChunks, loadVars, pipe, tally, helpers, VerdictInv, LoadingOK
<1>3. chunkRow' \in [{"target", "stats"} -> Tables] /\ chunkRow'["target"] = <<>>
  <2>1. <<>> \in [{} -> States]
    OBVIOUS
  <2>2. [{} -> States] \subseteq Tables
    BY DEF Tables
  <2> QED BY <1>2, <2>1, <2>2 DEF VerdictInv, CheckType
<1>4. CheckType'
  BY <1>1, <1>2, <1>3 DEF VerdictInv, CheckType, Loading
<1>5. PlaceOK' /\ ReportsOK' /\ \A w \in Workers : worker'[w].at = "off" /\ worker'[w] \in {Off, Gone}
  BY <1>1, <1>2, <1>4, LoadingPipe DEF Loading
<1>6. StatesOK' /\ SummaryOK' /\ OldVerdictSound'
  <2>1. DOMAIN chunkRow'["target"] = {} /\ DOMAIN state' = {}
    BY <1>2, <1>3
  <2> QED BY <1>1, <1>2, <1>5, <2>1 DEF StatesOK, SummaryOK, OldVerdictSound, VerdictInv
<1>7. LoadingOK' /\ EndOK'
  BY <1>1, <1>2, <1>3, <1>5 DEF LoadingOK, EndOK, CleanChunks, VerdictInv
<1>8. LaunchedOK'
  <2>1. info' = None
    BY <1>1, <1>2 DEF VerdictInv, LoadingOK
  <2> QED BY <1>1, <1>5, <2>1 DEF LaunchedOK, Launched, Running
<1> QED BY <1>4, <1>5, <1>6, <1>7, <1>8 DEF VerdictInv

\* The chunks come from the checkpoint, or there is none to use.
LEMMA LoadStep ==
    ASSUME VerdictInv, SplitFrom = "target", LoadCheckpoint
    PROVE  VerdictInv'
<1>1. main = "load" /\ main \in Loading /\ result = "none" /\ config \in Configs /\ state \in Tables
  BY DEF LoadCheckpoint, Loading, VerdictInv, EndOK, CheckType
<1>2. UNCHANGED <<differ, missed, summary, chunkRow, config, info, unsent, results, got, equalSoFar, worker, queue, inserted, cancelled, result>>
  BY DEF LoadCheckpoint, past, Fault, Failure, db, pipe, tally, helpers
<1>3. \/ state' = state /\ main' = "clean summary"
      \/ /\ state' = chunkRow["target"] /\ loadFromCheckPoint
         /\ main' = IF chunkRow["target"] = <<>> THEN "split" ELSE "launch"
  BY DEF LoadCheckpoint
<1>4. CheckType'
  <2>1. chunkRow["target"] \in Tables
    BY DEF VerdictInv, CheckType
  <2> QED BY <1>1, <1>2, <1>3, <2>1 DEF VerdictInv, CheckType, Loading
<1>5. main' \in Loading
  BY <1>3 DEF Loading
<1>6. PlaceOK' /\ ReportsOK' /\ \A w \in Workers : worker'[w].at = "off" /\ worker'[w] \in {Off, Gone}
  BY <1>1, <1>2, <1>4, <1>5, LoadingPipe
<1>7. StatesOK' /\ SummaryOK' /\ OldVerdictSound'
  <2>1. SummaryOK' /\ OldVerdictSound'
    BY <1>1, <1>2 DEF SummaryOK, OldVerdictSound, VerdictInv
  <2>2. CASE state' = state
    BY <1>2, <1>6, <2>1, <2>2 DEF StatesOK, VerdictInv
  <2>3. CASE state' = chunkRow["target"] /\ loadFromCheckPoint
    <3>1. config = "all" => \A c \in DOMAIN chunkRow["target"] : chunkRow["target"][c] # "ignore"
      BY <2>3 DEF loadFromCheckPoint, VerdictInv, SummaryOK
    <3>2. \A c \in DOMAIN chunkRow["target"] : chunkRow["target"][c] = "success" => c \notin differ \ missed
      BY DEF VerdictInv, StatesOK
    <3>3. \A w \in Workers : worker'[w].at # "finish"
      BY <1>6
    <3> QED BY <1>2, <2>1, <2>3, <3>1, <3>2, <3>3 DEF StatesOK
  <2> QED BY <1>3, <2>2, <2>3, <2>1
<1>8. LoadingOK' /\ EndOK'
  <2>1. loadFromCheckPoint => summary \in SummaryRecord /\ summary.hash = config /\ DOMAIN chunkRow["target"] = Chunks
    BY DEF loadFromCheckPoint, VerdictInv, SummaryOK, CheckType
  <2>2. chunkRow["target"] = <<>> => DOMAIN chunkRow["target"] # Chunks
    BY ChunksFinite
  <2>3. EndOK'
    BY <1>1, <1>2, <1>5 DEF EndOK, Loading
  <2> QED BY <1>1, <1>2, <1>3, <2>1, <2>2, <2>3 DEF LoadingOK, VerdictInv
<1>9. LaunchedOK'
  <2>1. info' = None
    BY <1>1, <1>2 DEF VerdictInv, LoadingOK
  <2> QED BY <1>5, <1>6, <2>1 DEF LaunchedOK, Launched, Running, Loading
<1> QED BY <1>4, <1>6, <1>7, <1>8, <1>9 DEF VerdictInv

\* A batch of chunks is inserted.
LEMMA InitChunksStep ==
    ASSUME VerdictInv, SplitFrom = "target", InitChunks
    PROVE  VerdictInv'
<1>1. main = "split" /\ main \in Loading /\ result = "none" /\ config \in Configs /\ inserted < NChunks
  BY DEF InitChunks, Loading, VerdictInv, EndOK, CheckType
<1>2. /\ UNCHANGED <<differ, missed, summary, main, state, config, info, unsent, results, got, equalSoFar, worker, queue, cancelled, result>>
      /\ inserted' = inserted + Cardinality(NextBatch)
      /\ chunkRow' = [chunkRow EXCEPT !["target"] = Write(@, [c \in NextBatch |-> "not_checked"])]
  BY DEF InitChunks, past, Fault, Failure, pipe, tally, helpers
<1>3. PICK b \in Nat : NextBatch = inserted .. b - 1 /\ inserted < b /\ b <= NChunks
  <2>1. inserted \in Nat /\ NChunks \in Nat /\ Batch \in Nat \ {0}
    BY OldDiffAssumption DEF VerdictInv, CheckType
  <2>2. CASE inserted + Batch < NChunks
    BY <2>1, <2>2 DEF NextBatch
  <2>3. CASE ~(inserted + Batch < NChunks)
    BY <1>1, <2>1, <2>3 DEF NextBatch
  <2> QED BY <2>2, <2>3
<1>4. inserted' = b /\ inserted \in Nat
  <2>1. inserted \in Nat /\ b \in Nat
    BY DEF VerdictInv, CheckType
  <2>2. Cardinality(inserted .. b - 1) = b - inserted
    BY <1>3, <2>1, FS_Interval
  <2> QED BY <1>2, <1>3, <2>1, <2>2
<1> DEFINE old == chunkRow["target"]
           new == Write(old, [c \in NextBatch |-> "not_checked"])
<1>5. old \in Tables /\ DOMAIN old = 0 .. inserted - 1
  BY <1>1 DEF VerdictInv, CheckType, LoadingOK
<1>6. /\ DOMAIN new = 0 .. b - 1 /\ new \in Tables
      /\ \A c \in DOMAIN new : new[c] = "not_checked" \/ (c \in DOMAIN old /\ new[c] = old[c])
  <2>1. DOMAIN new = NextBatch \cup DOMAIN old
    BY DEF Write
  <2>2. \A c \in DOMAIN new : new[c] = IF c \in NextBatch THEN "not_checked" ELSE old[c]
    BY DEF Write
  <2>3. DOMAIN new = 0 .. b - 1
    <3>1. inserted .. b - 1 \cup 0 .. inserted - 1 = 0 .. b - 1
      BY <1>3, <1>4
    <3> QED BY <1>3, <1>5, <2>1, <3>1
  <2>4. NChunks \in Nat
    BY OldDiffAssumption
  <2>5. DOMAIN new \subseteq Chunks
    BY <1>3, <2>3, <2>4 DEF Chunks
  <2>6. \A c \in DOMAIN old : old[c] \in States
    BY <1>5 DEF Tables
  <2>7. \A c \in DOMAIN new : new[c] \in States
    BY <2>1, <2>2, <2>6 DEF States
  <2>8. new \in [DOMAIN new -> States]
    BY <2>7 DEF Write
  <2>9. new \in Tables
    BY <2>5, <2>8 DEF Tables
  <2> QED BY <2>1, <2>2, <2>3, <2>9
<1> HIDE DEF old, new
<1>7. chunkRow' = [chunkRow EXCEPT !["target"] = new]
  BY <1>2 DEF new, old
<1>8. chunkRow' \in [{"target", "stats"} -> Tables] /\ chunkRow'["target"] = new
  BY <1>6, <1>7 DEF VerdictInv, CheckType
<1>9. CheckType'
  BY <1>1, <1>2, <1>3, <1>4, <1>8 DEF VerdictInv, CheckType
<1>10. PlaceOK' /\ ReportsOK' /\ \A w \in Workers : worker'[w].at = "off" /\ worker'[w] \in {Off, Gone}
  BY <1>1, <1>2, <1>9, LoadingPipe
<1>11. StatesOK'
  <2>1. \A c \in DOMAIN new : new[c] = "success" => c \notin differ \ missed
    BY <1>6 DEF VerdictInv, StatesOK, old
  <2> QED BY <1>2, <1>8, <1>10, <2>1 DEF StatesOK, VerdictInv
<1>12. SummaryOK' /\ OldVerdictSound'
  <2>1. DOMAIN old = Chunks => DOMAIN new = Chunks
    <3>1. NChunks \in Nat
      BY OldDiffAssumption
    <3>2. NChunks - 1 \in Chunks /\ inserted <= NChunks - 1
      BY <1>1, <1>4, <3>1 DEF Chunks
    <3>3. ~(NChunks - 1 \in DOMAIN old)
      BY <1>4, <1>5, <3>1, <3>2
    <3> QED BY <3>2, <3>3
  <2>2. summary # None => /\ summary.state # "not_checked" => DOMAIN old = Chunks
                          /\ summary.hash = "all" => \A c \in DOMAIN old : old[c] # "ignore"
    BY DEF VerdictInv, SummaryOK, old
  <2>3. SummaryOK'
    BY <1>2, <1>6, <1>8, <2>1, <2>2 DEF SummaryOK
  <2> QED BY <1>1, <1>2, <2>3 DEF OldVerdictSound, VerdictInv
<1>13. LoadingOK' /\ EndOK'
  BY <1>1, <1>2, <1>3, <1>4, <1>6, <1>8, <1>10 DEF LoadingOK, EndOK, VerdictInv
<1>14. LaunchedOK'
  <2>1. info' = None
    BY <1>1, <1>2 DEF VerdictInv, LoadingOK
  <2> QED BY <1>1, <1>2, <1>10, <2>1 DEF LaunchedOK, Launched, Running
<1> QED BY <1>9, <1>10, <1>11, <1>12, <1>13, <1>14 DEF VerdictInv

\* All chunks are inserted.
LEMMA ChunksSplitStep ==
    ASSUME VerdictInv, SplitFrom = "target", ChunksSplit
    PROVE  VerdictInv'
<1>1. main = "split" /\ main \in Loading /\ result = "none" /\ config \in Configs /\ inserted = NChunks /\ main' = "launch"
  BY DEF ChunksSplit, Loading, VerdictInv, EndOK, CheckType
<1>2. /\ UNCHANGED <<differ, missed, summary, chunkRow, config, info, unsent, results, got, equalSoFar, worker, queue, cancelled, result>>
      /\ inserted' = 0 /\ state' = [c \in Chunks |-> "not_checked"]
  BY DEF ChunksSplit, db, past, Fault, Failure, pipe, tally, helpers
<1>3. state' \in Tables /\ DOMAIN state' = Chunks /\ \A c \in Chunks : state'[c] = "not_checked"
  <2>1. state' \in [Chunks -> States]
    BY <1>2 DEF States
  <2> QED BY <1>2, <2>1 DEF Tables
<1>4. CheckType'
  BY <1>1, <1>2, <1>3 DEF VerdictInv, CheckType, Loading
<1>5. PlaceOK' /\ ReportsOK' /\ \A w \in Workers : worker'[w].at = "off" /\ worker'[w] \in {Off, Gone}
  BY <1>1, <1>2, <1>4, LoadingPipe DEF Loading
<1>6. StatesOK' /\ SummaryOK' /\ OldVerdictSound'
  BY <1>1, <1>2, <1>3, <1>5 DEF StatesOK, SummaryOK, OldVerdictSound, VerdictInv
<1>7. LoadingOK' /\ EndOK'
  <2>1. DOMAIN chunkRow["target"] = Chunks
    BY <1>1 DEF VerdictInv, LoadingOK, Chunks
  <2> QED BY <1>1, <1>2, <1>3, <1>5, <2>1 DEF LoadingOK, EndOK, VerdictInv
<1>8. LaunchedOK'
  <2>1. info' = None
    BY <1>1, <1>2 DEF VerdictInv, LoadingOK
  <2> QED BY <1>1, <1>5, <2>1 DEF LaunchedOK, Launched, Running
<1> QED BY <1>4, <1>5, <1>6, <1>7, <1>8 DEF VerdictInv

-----------------------------------------------------------------------------
(* After the launch.                                                       *)

\* The chunks a worker is done with are finitely many.
LEMMA OutFinite ==
    ASSUME CheckType
    PROVE  /\ Out \subseteq Chunks /\ GoodOut \subseteq Out /\ IsFiniteSet(Out) /\ IsFiniteSet(GoodOut)
           /\ Cardinality(Out) \in Nat /\ Cardinality(GoodOut) \in Nat
           /\ Cardinality(Out) <= NChunks /\ Cardinality(GoodOut) <= NChunks
           /\ (Cardinality(Out) = NChunks => Out = Chunks) /\ (Cardinality(GoodOut) = NChunks => GoodOut = Chunks)
<1>1. Out \subseteq Chunks /\ GoodOut \subseteq Out
  BY DEF CheckType, Tables, Out, GoodOut
<1> QED BY <1>1, ChunksFinite, PartSmaller

\* A step that leaves the pipe alone: the chunks and the results are where
\* they were.
LEMMA PipeStill ==
    ASSUME VerdictInv, UNCHANGED <<state, unsent, results, worker, queue>>
    PROVE  /\ PlaceOK' /\ Out' = Out /\ GoodOut' = GoodOut /\ Reporting' = Reporting
           /\ \A w \in Workers : worker'[w] = worker[w]
<1>1. \A c : Waits(c)' <=> Waits(c)
  BY DEF Waits, Holds
<1>2. Out' = Out /\ GoodOut' = GoodOut /\ Reporting' = Reporting
  BY <1>1 DEF Out, GoodOut, Reporting
<1>3. PlaceOK'
  BY DEF PlaceOK, Holds, VerdictInv
<1> QED BY <1>2, <1>3

\* What the counters say is true of the data.
LEMMA SuccessIsEqual ==
    ASSUME VerdictInv, info # None, SummaryState = "success", config = "all"
    PROVE  differ \subseteq missed
<1>1. /\ info \in InfoRecord /\ info.total = NChunks /\ DOMAIN state = Chunks
      /\ info.success + info.ignore <= Cardinality(GoodOut)
  BY DEF VerdictInv, LaunchedOK, Launched
<1>2. info.total = info.success + info.ignore
  BY <1>1 DEF SummaryState, InfoRecord
<1>3. GoodOut = Chunks
  BY <1>1, <1>2, OutFinite DEF VerdictInv, InfoRecord
<1>4. \A c \in Chunks : state[c] = "success"
  BY <1>1, <1>3 DEF GoodOut, Good, VerdictInv, StatesOK
<1> QED BY <1>1, <1>4 DEF VerdictInv, StatesOK, CheckType

\* What a run with all its results says is true of the data.
LEMMA EqualIsEqual ==
    ASSUME VerdictInv, main = "return"
    PROVE  /\ equalSoFar /\ config = "all" => differ \subseteq missed
           /\ ~equalSoFar => differ \cup missed # {} \/ cancelled \/ \E c \in DOMAIN state : state[c] = "error"
<1>1. DOMAIN state = Chunks
  BY DEF VerdictInv, LaunchedOK, Launched, Running
<1>2. ASSUME equalSoFar, config = "all" PROVE differ \subseteq missed
  <2>1. got = NChunks /\ Reported <= Cardinality(Out) /\ (~Unequal /\ Reported = Cardinality(Out) => GoodOut = Out)
    BY <1>2 DEF VerdictInv, ReportsOK
  <2>2. Len(results) \in Nat /\ Cardinality(Reporting) \in Nat /\ NChunks \in Nat
    BY WorkersFinite, OldDiffAssumption DEF VerdictInv, CheckType, Reporting
  <2>3. Reported = got + Len(results) + Cardinality(Reporting)
    BY DEF Reported
  <2>4. Cardinality(Out) \in Nat /\ Cardinality(Out) <= NChunks /\ (Cardinality(Out) = NChunks => Out = Chunks)
    BY OutFinite DEF VerdictInv
  <2>5. Reported = Cardinality(Out) /\ Out = Chunks /\ Len(results) = 0 /\ Cardinality(Reporting) = 0
    BY <2>1, <2>2, <2>3, <2>4
  <2>6. Reporting = {}
    BY <2>5, WorkersFinite, FS_EmptySet DEF Reporting
  <2>7. ~Unequal
    <3>1. equalSoFar # FALSE
      BY <1>2
    <3>2. ~InSeq(FALSE, results)
      BY <2>5 DEF InSeq
    <3> QED BY <2>6, <3>1, <3>2, Zenon DEF Unequal
  <2>8. GoodOut = Chunks
    BY <2>1, <2>5, <2>7
  <2>9. \A c \in Chunks : state[c] = "success"
    BY <1>1, <1>2, <2>8 DEF GoodOut, Good, VerdictInv, StatesOK
  <2> QED BY <1>1, <2>9 DEF VerdictInv, StatesOK, CheckType
<1>3. ASSUME ~equalSoFar PROVE differ \cup missed # {} \/ cancelled \/ \E c \in DOMAIN state : state[c] = "error"
  <2>1. Unequal
    <3>1. equalSoFar \in BOOLEAN
      BY DEF VerdictInv, CheckType
    <3>2. equalSoFar = FALSE
      BY <1>3, <3>1
    <3> QED BY <3>2, Zenon DEF Unequal
  <2> QED BY <2>1 DEF VerdictInv, ReportsOK, Out
<1> QED BY <1>2, <1>3

\* Equal and its helpers when the pipe stands still: the context is cancelled,
\* a helper is stopped or ends, the summary is written, Equal returns.
LEMMA HelperStep ==
    ASSUME VerdictInv, SplitFrom = "target",
           OldCancel \/ StopWriter \/ StopUpdater \/ Return \/ WriterEnds \/ Tick \/ UpdaterEnds
    PROVE  VerdictInv'
<1>1. UNCHANGED <<differ, missed, chunkRow, config, inserted, state, info, unsent, queue, worker, results, got, equalSoFar>>
  BY DEF OldCancel, StopWriter, StopUpdater, Return, WriterEnds, Tick, UpdaterEnds, WriteSummary, db, past, Fault, Failure, loadVars, pipe, tally, helpers
<1>2. \/ main' = main
      \/ main = "wait" /\ main' = "stop updater" /\ \A w \in Workers : worker[w] = Gone
      \/ main = "stop updater" /\ main' = "return"
      \/ main = "return" /\ main' = "done"
  BY DEF OldCancel, StopWriter, StopUpdater, Return, WriterEnds, Tick, UpdaterEnds
<1>3. cancelled' \in BOOLEAN /\ (cancelled => cancelled')
  BY DEF OldCancel, StopWriter, StopUpdater, Return, WriterEnds, Tick, UpdaterEnds, VerdictInv, CheckType
<1>4. summary' = summary \/ (info # None /\ summary' = [summary EXCEPT !.state = SummaryState])
  BY DEF OldCancel, StopWriter, StopUpdater, Return, WriterEnds, Tick, UpdaterEnds, WriteSummary, db
<1>5. info # None => summary \in SummaryRecord /\ summary.hash = config /\ DOMAIN chunkRow["target"] = Chunks
  BY DEF VerdictInv, LaunchedOK, Launched
<1>6. SummaryState \in {"not_checked", "checking", "success", "failed"}
  BY DEF SummaryState
<1>7. \/ summary' = summary
      \/ /\ info # None /\ summary' \in SummaryRecord /\ summary \in SummaryRecord
         /\ summary'.hash = config /\ summary.hash = config /\ summary'.state = SummaryState
  BY <1>4, <1>5, <1>6 DEF SummaryRecord
<1>8. CheckType'
  <2>1. config \in {None} \cup Configs /\ summary \in {None} \cup SummaryRecord
    BY DEF VerdictInv, CheckType
  <2>2. summary' \in {None} \cup SummaryRecord
    BY <1>7, <2>1
  <2>3. main' \in Loading \cup Running \cup {"done"} /\ (main' \in Loading \ {"off"} => config' \in Configs)
    BY <1>1, <1>2 DEF VerdictInv, CheckType, Loading, Running
  <2> QED BY <1>1, <1>3, <2>1, <2>2, <2>3 DEF VerdictInv, CheckType
<1>9. PlaceOK' /\ Out' = Out /\ GoodOut' = GoodOut /\ Reporting' = Reporting
  BY <1>1, PipeStill
<1>10. StatesOK'
  BY <1>1 DEF VerdictInv, StatesOK
<1>11. SummaryOK'
  <2>1. CASE summary' = summary
    BY <1>1, <2>1 DEF VerdictInv, SummaryOK
  <2>2. CASE /\ info # None /\ summary' \in SummaryRecord /\ summary \in SummaryRecord
             /\ summary'.hash = config /\ summary.hash = config
    <3>1. summary # None
      BY <2>2, OldDiffAssumption
    <3> QED BY <1>1, <1>5, <2>2, <3>1 DEF VerdictInv, SummaryOK
  <2> QED BY <1>7, <2>1, <2>2
<1>12. LoadingOK'
  <2>1. CASE main \in Loading
    <3>1. info = None /\ main' = main
      BY <1>2, <2>1 DEF VerdictInv, LoadingOK, Loading
    <3>2. summary' = summary
      BY <1>4, <3>1
    <3> QED BY <1>1, <3>1, <3>2 DEF VerdictInv, LoadingOK
  <2>2. CASE ~(main \in Loading)
    <3>1. ~(main' \in Loading)
      BY <1>2, <2>2 DEF Loading
    <3> QED BY <3>1 DEF LoadingOK, Loading
  <2> QED BY <2>1, <2>2
<1>13. EndOK'
  <2>1. result' = result \/ main' = "done"
    BY DEF OldCancel, StopWriter, StopUpdater, Return, WriterEnds, Tick, UpdaterEnds, tally
  <2>2. result # "none" => main = "done" /\ main' = "done"
    BY <1>2 DEF VerdictInv, EndOK
  <2>3. main' \in {"stop updater", "return", "done"} => \A w \in Workers : worker[w] \in {Off, Gone}
    BY <1>2 DEF VerdictInv, EndOK
  <2> QED BY <1>1, <2>1, <2>2, <2>3 DEF EndOK
<1>14. LaunchedOK'
  <2>1. Launched' => Launched
    BY <1>1, <1>2 DEF Launched, Running
  <2>2. Launched => summary' \in SummaryRecord /\ summary'.hash = config
    BY <1>7 DEF VerdictInv, LaunchedOK
  <2> QED BY <1>1, <1>9, <2>1, <2>2 DEF VerdictInv, LaunchedOK
<1>15. ReportsOK'
  <2>1. Reported' = Reported /\ (Unequal' <=> Unequal)
    BY <1>1, <1>9 DEF Reported, Unequal
  <2>2. main' \in {"wait", "stop updater", "return"} => main \in {"wait", "stop updater", "return"}
    BY <1>2
  <2> QED BY <1>1, <1>3, <1>9, <2>1, <2>2 DEF VerdictInv, ReportsOK
<1>16. OldVerdictSound'
  <2>1. result' = result \/ (Return /\ result' = IF equalSoFar THEN "equal" ELSE "differ")
    BY DEF OldCancel, StopWriter, StopUpdater, Return, WriterEnds, Tick, UpdaterEnds, tally
  <2>2. summary' # None /\ summary'.state = "success" /\ summary'.hash = "all" => differ \subseteq missed
    <3>1. CASE summary' = summary
      BY <3>1 DEF VerdictInv, OldVerdictSound
    <3>2. CASE info # None /\ summary'.hash = config /\ summary'.state = SummaryState
      BY <3>2, SuccessIsEqual
    <3> QED BY <1>7, <3>1, <3>2
  <2>3. CASE result' = result
    BY <1>1, <1>3, <2>2, <2>3 DEF VerdictInv, OldVerdictSound
  <2>4. CASE Return /\ result' = IF equalSoFar THEN "equal" ELSE "differ"
    <3>1. main = "return"
      BY <2>4 DEF Return
    <3>2. result' = "equal" /\ config = "all" => differ \subseteq missed
      BY <2>4, <3>1, EqualIsEqual
    <3>3. result' = "differ" => differ \cup missed # {} \/ cancelled \/ \E c \in DOMAIN state : state[c] = "error"
      BY <2>4, <3>1, EqualIsEqual
    <3> QED BY <1>1, <1>3, <2>2, <3>2, <3>3 DEF OldVerdictSound
  <2> QED BY <2>1, <2>3, <2>4
<1> QED BY <1>8, <1>9, <1>10, <1>11, <1>12, <1>13, <1>14, <1>15, <1>16 DEF VerdictInv

\* The workers start.
LEMMA LaunchStep ==
    ASSUME VerdictInv, SplitFrom = "target", Launch
    PROVE  VerdictInv'
<1>1. /\ main = "launch" /\ main' = "collect" /\ UNCHANGED <<differ, missed, summary, chunkRow, cancelled, config, inserted, state, queue, results, got, equalSoFar, result>>
      /\ unsent' \in SendOrders /\ worker' = [w \in Workers |-> Idle]
      /\ info' = [total |-> Cardinality(DOMAIN state), success |-> 0, failed |-> 0, ignore |-> 0]
  BY DEF Launch, db, past, Fault, Failure, loadVars, tally, helpers
<1>2. /\ results = <<>> /\ got = 0 /\ equalSoFar = TRUE /\ result = "none"
      /\ \A w \in Workers : queue[w] = <<>>
      /\ DOMAIN state = Chunks /\ DOMAIN chunkRow["target"] = Chunks
      /\ summary \in SummaryRecord /\ summary.hash = config
  BY <1>1 DEF VerdictInv, LoadingOK, EndOK, Loading, CheckType
<1>3. unsent' \in Seq(Chunks) /\ Distinct(unsent')
  <2>1. NChunks \in Nat /\ Cardinality(Chunks) = NChunks
    BY OldDiffAssumption, ChunksFinite
  <2>2. ASSUME unsent' \in SetToSeqs(Chunks) PROVE unsent' \in Seq(Chunks) /\ Distinct(unsent')
    <3>1. unsent' \in [1 .. NChunks -> Chunks] /\ \A i, j \in 1 .. NChunks : i # j => unsent'[i] # unsent'[j]
      BY <2>1, <2>2 DEF SetToSeqs
    <3>2. unsent' \in Seq(Chunks) /\ Len(unsent') = NChunks
      BY <2>1, <3>1
    <3> QED BY <3>1, <3>2 DEF Distinct
  <2>3. ASSUME unsent' = [n \in 1 .. NChunks |-> n - 1] PROVE unsent' \in Seq(Chunks) /\ Distinct(unsent')
    <3>1. \A n \in 1 .. NChunks : n - 1 \in Chunks
      BY <2>1 DEF Chunks
    <3>2. unsent' \in [1 .. NChunks -> Chunks]
      BY <2>3, <3>1
    <3>3. unsent' \in Seq(Chunks) /\ Len(unsent') = NChunks
      BY <2>1, <3>2
    <3>4. \A n \in 1 .. NChunks : unsent'[n] = n - 1
      BY <2>3
    <3> QED BY <2>1, <3>3, <3>4 DEF Distinct
  <2> QED BY <1>1, <1>2, <2>2, <2>3 DEF SendOrders
<1>4. \A w \in Workers : worker'[w] = Idle /\ worker'[w].at = "idle" /\ queue'[w] = <<>>
  BY <1>1, <1>2 DEF Idle
<1>5. info' \in InfoRecord /\ info'.total = NChunks /\ info'.success = 0 /\ info'.ignore = 0
  BY <1>1, <1>2, ChunksFinite, OldDiffAssumption DEF InfoRecord
<1>6. CheckType'
  <2>1. worker' \in [Workers -> {Idle}]
    BY <1>1
  <2> QED BY <1>1, <1>3, <2>1 DEF VerdictInv, CheckType, Running, Loading
<1>7. PlaceOK'
  BY <1>3, <1>4, EmptyIn DEF PlaceOK, Holds
<1>8. Reporting' = {} /\ Cardinality(Reporting') = 0
  BY <1>4, FS_EmptySet DEF Reporting
<1>9. Reported' = 0 /\ ~Unequal'
  <2>1. equalSoFar' # FALSE /\ ~InSeq(FALSE, results')
    BY <1>1, <1>2, EmptyIn
  <2>2. ~Unequal'
    BY <1>8, <2>1, Zenon DEF Unequal
  <2> QED BY <1>1, <1>2, <1>8, <2>2 DEF Reported
<1>10. Cardinality(Out') \in Nat /\ (Cardinality(Out') = 0 => Out' = {}) /\ Cardinality(GoodOut') \in Nat
  <2>1. Out' \subseteq Chunks /\ GoodOut' \subseteq Chunks
    BY <1>1, <1>2 DEF Out, GoodOut
  <2> QED BY <2>1, ChunksFinite, FS_Subset, FS_CardinalityType, FS_EmptySet
<1>11. ReportsOK'
  <2>1. Reported' <= Cardinality(Out') /\ (Reported' = Cardinality(Out') => GoodOut' = Out')
    BY <1>9, <1>10 DEF GoodOut
  <2>2. ~(main' \in {"wait", "stop updater", "return"})
    BY <1>1
  <2> QED BY <1>9, <2>1, <2>2 DEF ReportsOK
<1>12. LaunchedOK'
  <2>1. info'.success + info'.ignore <= Cardinality(GoodOut')
    BY <1>5, <1>10
  <2> QED BY <1>1, <1>2, <1>5, <2>1 DEF LaunchedOK
<1>13. StatesOK'
  BY <1>1, <1>4 DEF StatesOK, VerdictInv
<1>14. SummaryOK' /\ OldVerdictSound'
  BY <1>1, <1>2 DEF SummaryOK, OldVerdictSound, VerdictInv
<1>15. LoadingOK' /\ EndOK'
  BY <1>1, <1>2 DEF LoadingOK, EndOK, Loading
<1> QED BY <1>6, <1>7, <1>11, <1>12, <1>13, <1>14, <1>15 DEF VerdictInv

\* The parts of the invariant that only a step of a worker with a row of its
\* own disturbs.
LEMMA RunningFrame ==
    ASSUME VerdictInv, UNCHANGED <<differ, summary, config, inserted, result>>, missed \subseteq missed',
           ~(main \in Loading), cancelled => cancelled',
           result = "differ" => state' = state,
           main' = main \/ (main = "collect" /\ main' = "wait"),
           main = "done" => \A w \in Workers : worker'[w] \in {Off, Gone},
           main \in {"stop updater", "return"} => \A w \in Workers : worker'[w] \in {Off, Gone},
           \/ chunkRow'["target"] = chunkRow["target"]
           \/ /\ summary.hash = config
              /\ DOMAIN chunkRow'["target"] = Chunks
              /\ config = "all" => \A c \in Chunks : chunkRow'["target"][c] # "ignore"
    PROVE  SummaryOK' /\ LoadingOK' /\ EndOK' /\ OldVerdictSound'
<1>1. SummaryOK'
  BY DEF VerdictInv, SummaryOK
<1>2. ~(main' \in Loading)
  BY DEF Loading
<1>3. LoadingOK'
  BY <1>2 DEF LoadingOK, Loading
<1>4. EndOK'
  BY DEF VerdictInv, EndOK
<1>5. OldVerdictSound'
  BY DEF VerdictInv, OldVerdictSound
<1> QED BY <1>1, <1>3, <1>4, <1>5

\* A step that takes none of the chunks and no result away.
LEMMA ReportsKept ==
    ASSUME VerdictInv, CheckType', UNCHANGED <<differ, cancelled, state, equalSoFar, got>>, missed \subseteq missed',
           main' = main, Out' = Out, Reported' <= Reported, Reported' \in Nat,
           Unequal' => Unequal, Reported' = Reported => (Unequal' <=> Unequal)
    PROVE  ReportsOK' /\ GoodOut' = GoodOut
<1>1. GoodOut' = GoodOut
  BY DEF GoodOut
<1>2. Cardinality(Out) \in Nat /\ Reported <= Cardinality(Out)
  BY OutFinite DEF VerdictInv, ReportsOK
<1>3. Reported \in Nat
  <2>1. Len(results) \in Nat /\ got \in Nat /\ Cardinality(Reporting) \in Nat
    BY WorkersFinite DEF VerdictInv, CheckType, Reporting
  <2> QED BY <2>1 DEF Reported
<1>4. Reported' <= Cardinality(Out') /\ (Reported' = Cardinality(Out') => Reported = Cardinality(Out) /\ Reported' = Reported)
  BY <1>2, <1>3
<1>5. ~Unequal' /\ Reported' = Cardinality(Out') => GoodOut' = Out'
  BY <1>1, <1>4 DEF VerdictInv, ReportsOK
<1> QED BY <1>1, <1>4, <1>5 DEF VerdictInv, ReportsOK

\* The next chunk goes to its worker, or the rest is dropped.
LEMMA DispatchStep ==
    ASSUME VerdictInv, SplitFrom = "target", Dispatch
    PROVE  VerdictInv'
<1> SUFFICES ASSUME NEW x, x = Head(unsent), NEW v, v = x % Threads PROVE VerdictInv'
  OBVIOUS
<1>1. /\ main \in {"collect", "wait"} /\ unsent # <<>>
      /\ UNCHANGED <<differ, missed, summary, chunkRow, main, cancelled, config, inserted, state, info, worker, results, got, equalSoFar, result>>
      /\ \/ queue' = [queue EXCEPT ![v] = Append(@, x)] /\ unsent' = Tail(unsent)
         \/ unsent' = <<>> /\ queue' = queue
  BY DEF Dispatch, db, past, Fault, Failure, loadVars, tally, helpers
<1>2. unsent \in Seq(Chunks) /\ queue \in [Workers -> Seq(Chunks)]
  BY DEF VerdictInv, CheckType
<1>3. /\ Tail(unsent) \in Seq(Chunks) /\ x \in Chunks
      /\ \A d : InSeq(d, unsent) <=> InSeq(d, Tail(unsent)) \/ d = x
      /\ Distinct(Tail(unsent)) /\ ~InSeq(x, Tail(unsent))
  BY <1>1, <1>2, TailIn DEF VerdictInv, PlaceOK
<1>4. v \in Workers
  BY <1>3, ChunksFinite
<1>5. \A w \in Workers : ~InSeq(x, queue[w]) /\ ~Holds(w, x)
  BY <1>3 DEF VerdictInv, PlaceOK
<1>6. DOMAIN state = Chunks
  BY <1>1 DEF VerdictInv, LaunchedOK, Launched, Running
<1>7. main \in Running /\ ~(main \in Loading) /\ result = "none"
  BY <1>1 DEF VerdictInv, EndOK, Running, Loading
<1>8. \A w, d : Holds(w, d)' <=> Holds(w, d)
  BY <1>1 DEF Holds
<1>9. Reporting' = Reporting /\ Reported' = Reported /\ (Unequal' <=> Unequal) /\ \A w : worker'[w] = worker[w]
  BY <1>1 DEF Reporting, Reported, Unequal
<1>10. CASE queue' = [queue EXCEPT ![v] = Append(@, x)] /\ unsent' = Tail(unsent)
  <2>1. /\ queue' \in [Workers -> Seq(Chunks)]
        /\ queue'[v] = Append(queue[v], x) /\ \A w \in Workers : w # v => queue'[w] = queue[w]
    BY <1>2, <1>3, <1>4, <1>10
  <2>2. /\ \A d : InSeq(d, queue'[v]) <=> InSeq(d, queue[v]) \/ d = x
        /\ Distinct(queue'[v])
    BY <1>2, <1>3, <1>4, <1>5, <2>1, AppendIn DEF VerdictInv, PlaceOK
  <2>3. CheckType'
    BY <1>1, <1>3, <1>10, <2>1 DEF VerdictInv, CheckType
  <2>4. PlaceOK'
    <3>1. Distinct(unsent')
      BY <1>3, <1>10
    <3>2. ASSUME NEW w \in Workers
          PROVE  /\ Distinct(queue'[w])
                 /\ \A d \in Chunks : InSeq(d, queue'[w]) => d % Threads = w /\ ~Holds(w, d)
                 /\ \A d \in Chunks : Holds(w, d) => d % Threads = w
      BY <1>5, <2>1, <2>2 DEF VerdictInv, PlaceOK
    <3>3. ASSUME NEW d \in Chunks, InSeq(d, unsent'), NEW w \in Workers PROVE ~InSeq(d, queue'[w]) /\ ~Holds(w, d)
      BY <1>3, <1>10, <2>1, <2>2, <3>3 DEF VerdictInv, PlaceOK
    <3> QED BY <1>8, <3>1, <3>2, <3>3 DEF PlaceOK
  <2>5. \A d : Waits(d)' <=> Waits(d)
    BY <1>3, <1>4, <1>8, <1>10, <2>1, <2>2 DEF Waits
  <2>6. Out' = Out
    BY <1>1, <2>5 DEF Out
  <2>7. Reported \in Nat
    <3>1. Len(results) \in Nat /\ got \in Nat /\ Cardinality(Reporting) \in Nat
      BY WorkersFinite DEF VerdictInv, CheckType, Reporting
    <3> QED BY <3>1 DEF Reported
  <2>8. ReportsOK' /\ GoodOut' = GoodOut
    BY <1>1, <1>9, <2>3, <2>6, <2>7, ReportsKept
  <2>9. StatesOK'
    BY <1>1, <1>9 DEF VerdictInv, StatesOK
  <2>10. LaunchedOK'
    BY <1>1, <1>7, <2>8 DEF VerdictInv, LaunchedOK, Launched
  <2>11. SummaryOK' /\ LoadingOK' /\ EndOK' /\ OldVerdictSound'
    BY <1>1, <1>7, <1>9, RunningFrame
  <2> QED BY <2>3, <2>4, <2>8, <2>9, <2>10, <2>11 DEF VerdictInv
<1>11. CASE unsent' = <<>> /\ queue' = queue
  <2>1. CheckType'
    BY <1>1, <1>11 DEF VerdictInv, CheckType
  <2>2. PlaceOK'
    BY <1>8, <1>11, EmptyIn DEF VerdictInv, PlaceOK
  <2>3. ~Waits(x)' /\ Waits(x) /\ \A d : Waits(d)' => Waits(d)
    <3>1. \A d : Waits(d)' <=> \E w \in Workers : InSeq(d, queue[w]) \/ Holds(w, d)
      BY <1>8, <1>11, EmptyIn DEF Waits
    <3>2. \A d : Waits(d) <=> InSeq(d, unsent) \/ \E w \in Workers : InSeq(d, queue[w]) \/ Holds(w, d)
      BY DEF Waits
    <3> QED BY <1>3, <1>5, <3>1, <3>2
  <2>4. Out \subseteq Out' /\ x \in Out' /\ x \notin Out /\ GoodOut \subseteq GoodOut'
    <3>1. Out \subseteq Out' /\ x \in Out' /\ x \notin Out
      BY <1>1, <1>3, <1>6, <2>3 DEF Out
    <3> QED BY <1>1, <3>1 DEF GoodOut
  <2>5. /\ IsFiniteSet(Out') /\ IsFiniteSet(GoodOut') /\ Cardinality(Out) \in Nat /\ Cardinality(Out') \in Nat
        /\ Cardinality(Out) < Cardinality(Out') /\ Cardinality(GoodOut) <= Cardinality(GoodOut')
        /\ Cardinality(GoodOut) \in Nat /\ Cardinality(GoodOut') \in Nat
    <3>1. Out' \subseteq Chunks /\ GoodOut' \subseteq Chunks
      BY <1>1, <1>6 DEF Out, GoodOut
    <3>2. IsFiniteSet(Out') /\ IsFiniteSet(GoodOut')
      BY <3>1, ChunksFinite, FS_Subset
    <3> QED BY <2>4, <3>2, PartSmaller
  <2>6. Reported <= Cardinality(Out) /\ Reported \in Nat
    <3>1. Len(results) \in Nat /\ got \in Nat /\ Cardinality(Reporting) \in Nat
      BY WorkersFinite DEF VerdictInv, CheckType, Reporting
    <3>2. Reported \in Nat
      BY <3>1 DEF Reported
    <3> QED BY <3>2 DEF VerdictInv, ReportsOK
  <2>7. ReportsOK'
    <3>1. Reported' <= Cardinality(Out') /\ ~(Reported' = Cardinality(Out'))
      BY <1>9, <2>5, <2>6
    <3> QED BY <1>1, <1>9, <2>4, <3>1 DEF VerdictInv, ReportsOK
  <2>8. StatesOK'
    BY <1>1, <1>9 DEF VerdictInv, StatesOK
  <2>9. LaunchedOK'
    <3>1. /\ info \in InfoRecord /\ info.total = NChunks /\ DOMAIN state = Chunks
          /\ DOMAIN chunkRow["target"] = Chunks /\ summary \in SummaryRecord /\ summary.hash = config
          /\ info.success + info.ignore <= Cardinality(GoodOut)
      BY <1>7 DEF VerdictInv, LaunchedOK, Launched
    <3>2. info.success + info.ignore <= Cardinality(GoodOut')
      BY <2>5, <3>1 DEF InfoRecord
    <3> QED BY <1>1, <3>1, <3>2 DEF LaunchedOK
  <2>10. SummaryOK' /\ LoadingOK' /\ EndOK' /\ OldVerdictSound'
    BY <1>1, <1>7, <1>9, RunningFrame
  <2> QED BY <2>1, <2>2, <2>7, <2>8, <2>9, <2>10 DEF VerdictInv
<1> QED BY <1>1, <1>10, <1>11

\* A result is received, or the context is done.
LEMMA CollectStep ==
    ASSUME VerdictInv, SplitFrom = "target", CollectResult
    PROVE  VerdictInv'
<1>1. /\ main = "collect" /\ UNCHANGED <<differ, missed, summary, chunkRow, cancelled, config, inserted, state, info, unsent, queue, worker, result>>
      /\ \/ /\ results # <<>> /\ results' = Tail(results) /\ got' = got + 1
            /\ equalSoFar' = (equalSoFar /\ Head(results))
            /\ main' = IF got' = Cardinality(DOMAIN state) THEN "wait" ELSE main
         \/ cancelled /\ equalSoFar' = FALSE /\ main' = "wait" /\ results' = results /\ got' = got
  BY DEF CollectResult, db, past, Fault, Failure, loadVars
<1>2. main \in Running /\ ~(main \in Loading) /\ result = "none" /\ main' \in {"collect", "wait"} /\ DOMAIN state = Chunks
  BY <1>1 DEF VerdictInv, EndOK, Running, Loading, LaunchedOK, Launched
<1>3. /\ Len(results) \in Nat /\ got \in Nat /\ Cardinality(Reporting) \in Nat /\ results \in Seq(BOOLEAN)
      /\ Cardinality(Out) \in Nat /\ equalSoFar \in BOOLEAN
  BY WorkersFinite, OutFinite DEF VerdictInv, CheckType, Reporting
<1>4. /\ results' \in Seq(BOOLEAN) /\ got' \in Nat /\ equalSoFar' \in BOOLEAN
      /\ got' + Len(results') = got + Len(results)
  <2>1. results # <<>> => Tail(results) \in Seq(BOOLEAN) /\ Len(Tail(results)) = Len(results) - 1
    BY <1>3
  <2>2. (results # <<>> /\ results' = Tail(results) /\ got' = got + 1) \/ (results' = results /\ got' = got)
    BY <1>1
  <2>4. results' \in Seq(BOOLEAN) /\ got' \in Nat /\ got' + Len(results') = got + Len(results)
    BY <1>3, <2>1, <2>2
  <2>3. equalSoFar' \in BOOLEAN
    BY <1>1
  <2> QED BY <2>3, <2>4
<1>5. CheckType'
  <2>1. main' \in Loading \cup Running \cup {"done"} /\ ~(main' \in Loading)
    BY <1>2 DEF Running, Loading
  <2> QED BY <1>1, <1>4, <2>1 DEF VerdictInv, CheckType
<1>6. PlaceOK'
  BY <1>1 DEF VerdictInv, PlaceOK, Holds
<1>7. /\ Out' = Out /\ GoodOut' = GoodOut /\ Reporting' = Reporting /\ \A w : worker'[w] = worker[w]
  <2>1. \A d : Waits(d)' <=> Waits(d)
    BY <1>1 DEF Waits, Holds
  <2> QED BY <1>1, <2>1 DEF Out, GoodOut, Reporting
<1>8. Reported' = Reported
  BY <1>3, <1>4, <1>7 DEF Reported
<1>9. ReportsOK'
  <2>1. CASE /\ results # <<>> /\ results' = Tail(results) /\ got' = got + 1
             /\ equalSoFar' = (equalSoFar /\ Head(results))
             /\ main' = IF got' = Cardinality(DOMAIN state) THEN "wait" ELSE main
    <3>1. Unequal' <=> Unequal
      <4>1. (InSeq(FALSE, results) <=> InSeq(FALSE, results') \/ Head(results) = FALSE) /\ Head(results) \in BOOLEAN
        BY <1>3, <2>1, TailIn
      <4>2. equalSoFar' = FALSE <=> equalSoFar = FALSE \/ Head(results) = FALSE
        BY <1>3, <2>1, <4>1
      <4> QED BY <1>7, <4>1, <4>2 DEF Unequal
    <3>2. main' \in {"wait", "stop updater", "return"} => got' = NChunks
      BY <1>1, <1>2, <2>1, ChunksFinite
    <3> QED BY <1>1, <1>7, <1>8, <3>1, <3>2 DEF VerdictInv, ReportsOK
  <2>2. CASE cancelled /\ equalSoFar' = FALSE /\ main' = "wait" /\ results' = results /\ got' = got
    <3>1. Unequal' /\ ~equalSoFar'
      BY <2>2 DEF Unequal
    <3> QED BY <1>1, <1>7, <1>8, <2>2, <3>1 DEF VerdictInv, ReportsOK
  <2> QED BY <1>1, <2>1, <2>2
<1>10. StatesOK'
  BY <1>1, <1>7 DEF VerdictInv, StatesOK
<1>11. LaunchedOK'
  BY <1>1, <1>2, <1>7 DEF VerdictInv, LaunchedOK, Launched
<1>12. SummaryOK' /\ LoadingOK' /\ EndOK' /\ OldVerdictSound'
  <2>1. main' = main \/ (main = "collect" /\ main' = "wait")
    BY <1>1
  <2>2. main # "done" /\ ~(main \in {"stop updater", "return"})
    BY <1>1
  <2> QED BY <1>1, <1>2, <2>1, <2>2, RunningFrame
<1> QED BY <1>5, <1>6, <1>9, <1>10, <1>11, <1>12 DEF VerdictInv

-----------------------------------------------------------------------------
(* The workers.                                                            *)

\* While a worker has something to do, Equal waits for it.
LEMMA WorkerRuns ==
    ASSUME VerdictInv, NEW w \in Workers, worker[w] # Off, worker[w] # Gone
    PROVE  /\ main \in {"collect", "wait"} /\ main \in Running /\ ~(main \in Loading) /\ result = "none" /\ Launched
           /\ DOMAIN state = Chunks /\ DOMAIN chunkRow["target"] = Chunks /\ state \in [Chunks -> States]
           /\ summary \in SummaryRecord /\ summary.hash = config
           /\ info \in InfoRecord /\ info.total = NChunks /\ info.success + info.ignore <= Cardinality(GoodOut)
<1>1. ~(main \in Loading)
  BY DEF VerdictInv, LoadingOK
<1>2. ~(main \in {"stop updater", "return", "done"})
  BY DEF VerdictInv, EndOK
<1>3. main \in {"collect", "wait"}
  BY <1>1, <1>2 DEF VerdictInv, CheckType, Running
<1>4. result = "none"
  BY <1>3 DEF VerdictInv, EndOK
<1>5. main \in Running /\ Launched
  BY <1>3 DEF Running, Launched
<1>6. DOMAIN state = Chunks
  BY <1>5 DEF VerdictInv, LaunchedOK
<1>7. state \in [Chunks -> States]
  BY <1>6 DEF VerdictInv, CheckType, Tables
<1> QED BY <1>1, <1>3, <1>4, <1>5, <1>6, <1>7 DEF VerdictInv, LaunchedOK

\* How many results there are.
LEMMA ReportedNat ==
    ASSUME VerdictInv
    PROVE  /\ Reported \in Nat /\ Len(results) \in Nat /\ got \in Nat /\ Cardinality(Reporting) \in Nat
           /\ IsFiniteSet(Reporting) /\ Reported <= Cardinality(Out)
<1>1. Len(results) \in Nat /\ got \in Nat /\ Cardinality(Reporting) \in Nat /\ IsFiniteSet(Reporting)
  BY WorkersFinite DEF VerdictInv, CheckType, Reporting
<1>2. Reported \in Nat
  BY <1>1 DEF Reported
<1> QED BY <1>1, <1>2 DEF VerdictInv, ReportsOK

\* A worker is done with a chunk, and has a result to report.
LEMMA ChunkDone ==
    ASSUME VerdictInv, CheckType', NEW w \in Workers, NEW x \in Chunks, NEW e \in BOOLEAN,
           worker[w].at # "report", worker' = [worker EXCEPT ![w] = [at |-> "report", eq |-> e]],
           x \notin Out, Out' = Out \cup {x}, \A d \in Out : state'[d] = state[d],
           e = TRUE => state'[x] \in Good,
           e = FALSE => state'[x] = "error" \/ differ \cup missed # {},
           UNCHANGED <<results, got, equalSoFar, differ, missed, cancelled, main>>
    PROVE  /\ ReportsOK' /\ GoodOut \subseteq GoodOut' /\ (e = TRUE => x \in GoodOut')
           /\ Cardinality(GoodOut) <= Cardinality(GoodOut') /\ Cardinality(GoodOut) \in Nat /\ Cardinality(GoodOut') \in Nat
           /\ (e = TRUE => Cardinality(GoodOut) + 1 <= Cardinality(GoodOut'))
<1>1. worker'[w] = [at |-> "report", eq |-> e] /\ \A v \in Workers : v # w => worker'[v] = worker[v]
  BY DEF VerdictInv, CheckType
<1>2. Reporting' = Reporting \cup {w} /\ w \notin Reporting
  BY <1>1 DEF Reporting
<1>3. Cardinality(Reporting') = Cardinality(Reporting) + 1
  BY <1>2, ReportedNat, OneMore
<1>4. Reported' = Reported + 1 /\ Reported \in Nat /\ Reported <= Cardinality(Out)
  BY <1>3, ReportedNat DEF Reported
<1>5. IsFiniteSet(Out) /\ Cardinality(Out') = Cardinality(Out) + 1 /\ Cardinality(Out) \in Nat
  BY OutFinite, OneMore DEF VerdictInv
<1>6. GoodOut \subseteq GoodOut' /\ (e = TRUE => x \in GoodOut') /\ GoodOut' \subseteq Out'
  BY DEF GoodOut
<1>7. (e = TRUE /\ GoodOut = Out) => GoodOut' = Out'
  BY <1>6
<1>8. Unequal' <=> Unequal \/ e = FALSE
  <2>1. \A v \in Reporting : worker'[v] = worker[v]
    BY <1>1, <1>2 DEF Reporting
  <2>2. (\E v \in Reporting' : worker'[v].eq = FALSE) <=> (\E v \in Reporting : worker[v].eq = FALSE) \/ e = FALSE
    BY <1>1, <1>2, <2>1
  <2> QED BY <2>2, Zenon DEF Unequal
<1>9. Reported' <= Cardinality(Out') /\ (Reported' = Cardinality(Out') => Reported = Cardinality(Out))
  BY <1>4, <1>5
<1>10. ReportsOK'
  <2>1. ~Unequal' /\ Reported' = Cardinality(Out') => GoodOut' = Out'
    <3>1. ~Unequal' => e = TRUE
      BY <1>8
    <3>2. ~Unequal /\ Reported = Cardinality(Out) => GoodOut = Out
      BY DEF VerdictInv, ReportsOK
    <3> QED BY <1>7, <1>8, <1>9, <3>1, <3>2
  <2>2. Unequal' => differ \cup missed # {} \/ cancelled \/ \E d \in Out' : state'[d] = "error"
    <3>1. CASE Unequal
      BY <3>1 DEF VerdictInv, ReportsOK
    <3>2. CASE e = FALSE
      BY <3>2
    <3> QED BY <1>8, <3>1, <3>2
  <2> QED BY <1>9, <2>1, <2>2 DEF VerdictInv, ReportsOK
<1>11. Cardinality(GoodOut) \in Nat /\ IsFiniteSet(GoodOut') /\ Cardinality(GoodOut') \in Nat /\ Cardinality(GoodOut) <= Cardinality(GoodOut')
  <2>1. IsFiniteSet(Out') /\ IsFiniteSet(GoodOut)
    BY <1>5, OneMore, OutFinite DEF VerdictInv
  <2>2. IsFiniteSet(GoodOut')
    BY <1>6, <2>1, FS_Subset
  <2> QED BY <1>6, <2>2, PartSmaller
<1>12. e = TRUE => Cardinality(GoodOut) + 1 <= Cardinality(GoodOut')
  <2> SUFFICES ASSUME e = TRUE PROVE Cardinality(GoodOut) + 1 <= Cardinality(GoodOut')
    OBVIOUS
  <2>1. x \in GoodOut' /\ x \notin GoodOut
    BY <1>6 DEF GoodOut
  <2>2. ~(Cardinality(GoodOut) = Cardinality(GoodOut'))
    BY <1>6, <1>11, <2>1, PartSmaller
  <2> QED BY <1>11, <2>2
<1> QED BY <1>6, <1>10, <1>11, <1>12

\* A result is reported, or dropped when the context is done.
LEMMA ReportStep ==
    ASSUME VerdictInv, SplitFrom = "target", NEW w \in Workers, ReportChunk(w)
    PROVE  VerdictInv'
<1>1. /\ worker[w].at = "report"
      /\ UNCHANGED <<differ, missed, summary, chunkRow, main, cancelled, config, inserted, state, info, unsent, queue, got, equalSoFar, result>>
  BY DEF ReportChunk, db, past, Fault, Failure, loadVars, tally
<1>0. \/ results' = Append(results, worker[w].eq) /\ worker' = [worker EXCEPT ![w] = Idle]
      \/ cancelled /\ worker' = [worker EXCEPT ![w] = Gone] /\ results' = results
  BY DEF ReportChunk
<1>2. worker[w] \in [at : {"report"}, eq : BOOLEAN] /\ worker[w] # Off /\ worker[w] # Gone
  <2>1. worker[w] \in {Off, Idle, Gone} \cup [at : {"report"}, eq : BOOLEAN]
           \cup [at : {"check"}, chunk : Chunks]
           \cup [at : {"finish"}, chunk : Chunks, outcome : {"success", "failed", "ignore", "error"}]
    BY DEF VerdictInv, CheckType
  <2> QED BY <1>1, <2>1 DEF Off, Idle, Gone
<1>21. PICK e \in BOOLEAN : e = worker[w].eq
  BY <1>2
<1>22. (results' = Append(results, e) /\ worker' = [worker EXCEPT ![w] = Idle])
       \/ (cancelled /\ worker' = [worker EXCEPT ![w] = Gone] /\ results' = results)
  BY <1>0, <1>21
<1> DEFINE runs == main \in {"collect", "wait"} /\ ~(main \in Loading) /\ result = "none" /\ Launched
<1>3. runs
  BY <1>2, WorkerRuns
<1>4. PICK u \in {Idle, Gone} : worker' = [worker EXCEPT ![w] = u]
  BY <1>22
<1>5. u.at \in {"idle", "gone"} /\ worker'[w] = u /\ \A v \in Workers : v # w => worker'[v] = worker[v]
  BY <1>4 DEF VerdictInv, CheckType, Idle, Gone
<1>6. \A v \in Workers : \A d : Holds(v, d)' <=> Holds(v, d)
  BY <1>1, <1>5 DEF Holds
<1>7. results \in Seq(BOOLEAN) /\ results' \in Seq(BOOLEAN)
  <2>1. results \in Seq(BOOLEAN)
    BY DEF VerdictInv, CheckType
  <2>2. Append(results, e) \in Seq(BOOLEAN)
    BY <1>21, <2>1, AppendIn, Zenon
  <2>3. results' = Append(results, e) \/ results' = results
    BY <1>22
  <2> QED BY <2>1, <2>2, <2>3
<1>8. CheckType'
  <2>1. worker' \in [Workers -> {Off, Idle, Gone} \cup [at : {"report"}, eq : BOOLEAN]
           \cup [at : {"check"}, chunk : Chunks]
           \cup [at : {"finish"}, chunk : Chunks, outcome : {"success", "failed", "ignore", "error"}]]
    BY <1>4 DEF VerdictInv, CheckType
  <2> QED BY <1>1, <1>7, <2>1 DEF VerdictInv, CheckType
<1>9. PlaceOK' /\ Out' = Out
  <2>1. \A d : Waits(d)' <=> Waits(d)
    BY <1>1, <1>6 DEF Waits
  <2>2. Out' = Out
    BY <1>1, <2>1 DEF Out
  <2> QED BY <1>1, <1>6, <2>2 DEF VerdictInv, PlaceOK
<1>10. Reporting' = Reporting \ {w} /\ w \in Reporting
  BY <1>1, <1>5 DEF Reporting
<1>11. Cardinality(Reporting') = Cardinality(Reporting) - 1 /\ Cardinality(Reporting) \in Nat /\ Cardinality(Reporting') \in Nat
  BY <1>10, ReportedNat, FS_RemoveElement, FS_CardinalityType
<1>12. ReportsOK' /\ GoodOut' = GoodOut
  <2>1. \A v \in Reporting' : worker'[v] = worker[v]
    BY <1>5, <1>10 DEF Reporting
  <2>2. (\E v \in Reporting : worker[v].eq = FALSE) <=> (\E v \in Reporting' : worker'[v].eq = FALSE) \/ worker[w].eq = FALSE
    BY <1>10, <2>1
  <2>3. CASE results' = Append(results, e)
    <3>1. InSeq(FALSE, results') <=> InSeq(FALSE, results) \/ worker[w].eq = FALSE
      <4>1. FALSE \in BOOLEAN
        OBVIOUS
      <4>2. InSeq(FALSE, Append(results, e)) <=> InSeq(FALSE, results) \/ e = FALSE
        BY <1>7, <1>21, <4>1, AppendIn
      <4> QED BY <1>21, <2>3, <4>2
    <3>2. Len(results') = Len(results) + 1
      BY <1>2, <1>7, <2>3
    <3>3. Reported' = Reported /\ Reported \in Nat
      BY <1>1, <1>11, <3>2, ReportedNat DEF Reported
    <3>4. equalSoFar' = equalSoFar
      BY <1>1
    <3>5. Unequal' <=> Unequal
      BY <2>2, <3>1, <3>4, Zenon DEF Unequal
    <3> QED BY <1>1, <1>8, <1>9, <3>3, <3>5, ReportsKept
  <2>4. CASE results' = results
    <3>1. Reported' = Reported - 1 /\ Reported \in Nat /\ Reported' \in Nat
      BY <1>1, <1>11, <2>4, ReportedNat DEF Reported
    <3>2. equalSoFar' = equalSoFar /\ (InSeq(FALSE, results') <=> InSeq(FALSE, results))
      BY <1>1, <2>4
    <3>3. Unequal' => Unequal
      BY <2>2, <3>2, Zenon DEF Unequal
    <3>4. Reported' <= Reported /\ Reported' # Reported
      BY <3>1
    <3> QED BY <1>1, <1>8, <1>9, <3>1, <3>3, <3>4, ReportsKept
  <2> QED BY <1>22, <2>3, <2>4
<1>13. StatesOK'
  <2>1. \A v \in Workers : worker'[v].at = "finish" => worker'[v] = worker[v]
    BY <1>5
  <2> QED BY <1>1, <2>1 DEF VerdictInv, StatesOK
<1>14. LaunchedOK'
  BY <1>1, <1>3, <1>12 DEF VerdictInv, LaunchedOK
<1>15. SummaryOK' /\ LoadingOK' /\ EndOK' /\ OldVerdictSound'
  BY <1>1, <1>3, RunningFrame
<1> QED BY <1>8, <1>9, <1>12, <1>13, <1>14, <1>15 DEF VerdictInv

\* A worker leaves.
LEMMA LeaveStep ==
    ASSUME VerdictInv, SplitFrom = "target", NEW w \in Workers, WorkerLeaves(w)
    PROVE  VerdictInv'
<1>1. /\ worker[w] = Idle /\ worker' = [worker EXCEPT ![w] = Gone]
      /\ UNCHANGED <<differ, missed, summary, chunkRow, main, cancelled, config, inserted, state, info, unsent, queue, results, got, equalSoFar, result>>
  BY DEF WorkerLeaves, db, past, Fault, Failure, loadVars, tally
<1>2. worker[w].at = "idle" /\ worker[w] # Off /\ worker[w] # Gone
  BY <1>1 DEF Idle, Off, Gone
<1>3. main \in {"collect", "wait"} /\ ~(main \in Loading) /\ result = "none" /\ Launched
  BY <1>2, WorkerRuns
<1>5. worker'[w] = Gone /\ worker'[w].at = "gone" /\ \A v \in Workers : v # w => worker'[v] = worker[v]
  BY <1>1 DEF VerdictInv, CheckType, Gone
<1>6. \A v \in Workers : \A d : Holds(v, d)' <=> Holds(v, d)
  BY <1>1, <1>2, <1>5 DEF Holds
<1>8. CheckType'
  BY <1>1 DEF VerdictInv, CheckType
<1>9. PlaceOK' /\ Out' = Out
  <2>1. \A d : Waits(d)' <=> Waits(d)
    BY <1>1, <1>6 DEF Waits
  <2>2. Out' = Out
    BY <1>1, <2>1 DEF Out
  <2> QED BY <1>1, <1>6, <2>2 DEF VerdictInv, PlaceOK
<1>10. Reporting' = Reporting /\ \A v \in Reporting : worker'[v] = worker[v]
  BY <1>2, <1>5 DEF Reporting
<1>11. Reported' = Reported /\ (Unequal' <=> Unequal) /\ Reported \in Nat
  <2>1. equalSoFar' = equalSoFar /\ (InSeq(FALSE, results') <=> InSeq(FALSE, results))
    BY <1>1
  <2>2. (\E v \in Reporting : worker[v].eq = FALSE) <=> (\E v \in Reporting' : worker'[v].eq = FALSE)
    BY <1>10
  <2>3. Unequal' <=> Unequal
    BY <2>1, <2>2, Zenon DEF Unequal
  <2> QED BY <1>1, <1>10, <2>3, ReportedNat DEF Reported
<1>12. ReportsOK' /\ GoodOut' = GoodOut
  BY <1>1, <1>8, <1>9, <1>11, ReportsKept
<1>13. StatesOK'
  <2>1. \A v \in Workers : worker'[v].at = "finish" => worker'[v] = worker[v]
    BY <1>5
  <2> QED BY <1>1, <2>1 DEF VerdictInv, StatesOK
<1>14. LaunchedOK'
  BY <1>1, <1>3, <1>12 DEF VerdictInv, LaunchedOK
<1>15. SummaryOK' /\ LoadingOK' /\ EndOK' /\ OldVerdictSound'
  BY <1>1, <1>3, RunningFrame
<1> QED BY <1>8, <1>9, <1>12, <1>13, <1>14, <1>15 DEF VerdictInv

\* A row of the checkpoint is replaced, or is not.
LEMMA RowSaved ==
    ASSUME VerdictInv, NEW x \in Chunks, NEW s \in States, saveChunk(x, s), DOMAIN chunkRow["target"] = Chunks
    PROVE  /\ chunkRow' \in [{"target", "stats"} -> Tables] /\ DOMAIN chunkRow'["target"] = Chunks
           /\ \A d \in Chunks : chunkRow'["target"][d] = chunkRow["target"][d] \/ (d = x /\ chunkRow'["target"][d] = s)
<1> DEFINE rows == chunkRow["target"]
<1>1. chunkRow \in [{"target", "stats"} -> Tables] /\ rows \in [Chunks -> States]
  BY DEF VerdictInv, CheckType, Tables
<1>2. CASE chunkRow' = chunkRow
  BY <1>1, <1>2
<1>3. CASE chunkRow' = [chunkRow EXCEPT !["target"] = Write(@, [d \in {x} |-> s])]
  <2> DEFINE new == Write(rows, [d \in {x} |-> s])
  <2>1. new = [d \in Chunks |-> IF d = x THEN s ELSE rows[d]]
    <3>1. Chunks \cup {x} = Chunks
      OBVIOUS
    <3> QED BY <3>1 DEF Write
  <2>2. new \in [Chunks -> States]
    BY <1>1, <2>1
  <2>3. new \in Tables
    BY <2>2 DEF Tables
  <2>4. chunkRow'["target"] = new
    BY <1>1, <1>3
  <2>5. chunkRow' \in [{"target", "stats"} -> Tables]
    BY <1>1, <1>3, <2>3
  <2> QED BY <2>1, <2>2, <2>4, <2>5
<1> QED BY <1>2, <1>3 DEF saveChunk

\* A chunk that a worker holds is nowhere else.
LEMMA HeldOnce ==
    ASSUME PlaceOK, NEW w \in Workers, NEW x \in Chunks, Holds(w, x)
    PROVE  /\ ~InSeq(x, unsent) /\ \A v \in Workers : ~InSeq(x, queue[v]) /\ (v # w => ~Holds(v, x))
           /\ Waits(x)
  BY DEF PlaceOK, Waits

\* The rows of a chunk are compared.
LEMMA CheckStep ==
    ASSUME VerdictInv, SplitFrom = "target", NEW w \in Workers, CheckChunk(w)
    PROVE  VerdictInv'
<1> SUFFICES ASSUME NEW x, x = worker[w].chunk PROVE VerdictInv'
  OBVIOUS
<1>1. /\ worker[w].at = "check"
      /\ missed \subseteq missed' /\ missed' \subseteq missed \cup {x}
      /\ UNCHANGED <<differ, summary, chunkRow, main, cancelled, config, inserted, state, info, unsent, queue, results, got, equalSoFar, result>>
  BY DEF CheckChunk, db, past, Fault, Failure, loadVars, tally
<1>2. worker[w] \in [at : {"check"}, chunk : Chunks] /\ worker[w] # Off /\ worker[w] # Gone
  <2>1. worker[w] \in {Off, Idle, Gone} \cup [at : {"report"}, eq : BOOLEAN]
           \cup [at : {"check"}, chunk : Chunks]
           \cup [at : {"finish"}, chunk : Chunks, outcome : {"success", "failed", "ignore", "error"}]
    BY DEF VerdictInv, CheckType
  <2> QED BY <1>1, <2>1 DEF Off, Idle, Gone
<1>3. PICK o \in {"success", "failed", "error"} :
         /\ worker' = [worker EXCEPT ![w] = [at |-> "finish", chunk |-> x, outcome |-> o]]
         /\ (o = "success" => x \notin differ \ missed') /\ (o = "failed" => x \in differ \cup missed')
  <2>1. CASE worker' = [worker EXCEPT ![w] =
                [at |-> "finish", chunk |-> x, outcome |-> IF x \in differ THEN "failed" ELSE "success"]]
    BY <1>1, <2>1
  <2>3. CASE /\ missed' = missed \cup {x}
             /\ \E o \in {"success", "failed"} : worker' = [worker EXCEPT ![w] = [at |-> "finish", chunk |-> x, outcome |-> o]]
    BY <2>3
  <2>2. CASE worker' = [worker EXCEPT ![w] = [at |-> "finish", chunk |-> x, outcome |-> "error"]]
    BY <2>2
  <2> QED BY <2>1, <2>2, <2>3 DEF CheckChunk
<1> DEFINE y == [at |-> "finish", chunk |-> x, outcome |-> o]
<1>4. main \in {"collect", "wait"} /\ ~(main \in Loading) /\ result = "none" /\ Launched
  BY <1>2, WorkerRuns
<1>5. worker'[w] = y /\ \A v \in Workers : v # w => worker'[v] = worker[v]
  BY <1>3 DEF VerdictInv, CheckType
<1>6. \A v \in Workers : \A d : Holds(v, d)' <=> Holds(v, d)
  <2>1. worker'[w].at = "finish" /\ worker'[w].chunk = x
    BY <1>5
  <2> QED BY <1>1, <1>5, <2>1 DEF Holds
<1>7. CheckType'
  <2>1. x \in Chunks
    BY <1>2
  <2>2. y \in [at : {"finish"}, chunk : Chunks, outcome : {"success", "failed", "ignore", "error"}]
    BY <1>3, <2>1
  <2>3. worker' \in [Workers -> {Off, Idle, Gone} \cup [at : {"report"}, eq : BOOLEAN]
           \cup [at : {"check"}, chunk : Chunks]
           \cup [at : {"finish"}, chunk : Chunks, outcome : {"success", "failed", "ignore", "error"}]]
    BY <1>3, <2>2 DEF VerdictInv, CheckType
  <2> QED BY <1>1, <2>1, <2>3 DEF VerdictInv, CheckType
<1>8. PlaceOK' /\ Out' = Out
  <2>1. \A d : Waits(d)' <=> Waits(d)
    BY <1>1, <1>6 DEF Waits
  <2>2. Out' = Out
    BY <1>1, <2>1 DEF Out
  <2> QED BY <1>1, <1>6, <2>2 DEF VerdictInv, PlaceOK
<1>9. Reporting' = Reporting /\ \A v \in Reporting : worker'[v] = worker[v]
  <2>1. worker'[w].at = "finish"
    BY <1>5
  <2> QED BY <1>1, <1>5, <2>1 DEF Reporting
<1>10. Reported' = Reported /\ (Unequal' <=> Unequal) /\ Reported \in Nat
  <2>1. equalSoFar' = equalSoFar /\ (InSeq(FALSE, results') <=> InSeq(FALSE, results))
    BY <1>1
  <2>2. (\E v \in Reporting : worker[v].eq = FALSE) <=> (\E v \in Reporting' : worker'[v].eq = FALSE)
    BY <1>9
  <2>3. Unequal' <=> Unequal
    BY <2>1, <2>2, Zenon DEF Unequal
  <2> QED BY <1>1, <1>9, <2>3, ReportedNat DEF Reported
<1>11. ReportsOK' /\ GoodOut' = GoodOut
  BY <1>1, <1>7, <1>8, <1>10, ReportsKept
<1>12. StatesOK'
  <2>1. \A v \in Workers : worker'[v].at = "finish" =>
          /\ worker'[v].outcome = "success" => worker'[v].chunk \notin differ \ missed'
          /\ worker'[v].outcome = "failed" => worker'[v].chunk \in differ \cup missed'
          /\ worker'[v].outcome = "ignore" => config # "all"
    <3>1. y.outcome = o /\ y.chunk = x
      OBVIOUS
    <3> QED BY <1>1, <1>3, <1>5, <3>1 DEF VerdictInv, StatesOK
  <2> QED BY <1>1, <2>1 DEF VerdictInv, StatesOK
<1>13. LaunchedOK'
  BY <1>1, <1>4, <1>11 DEF VerdictInv, LaunchedOK
<1>14. SummaryOK' /\ LoadingOK' /\ EndOK' /\ OldVerdictSound'
  BY <1>1, <1>4, RunningFrame
<1> QED BY <1>7, <1>8, <1>11, <1>12, <1>13, <1>14 DEF VerdictInv

\* The outcome of a chunk is recorded: in memory, in the counters and in the
\* checkpoint.
LEMMA FinishStep ==
    ASSUME VerdictInv, SplitFrom = "target", NEW w \in Workers, FinishChunk(w)
    PROVE  VerdictInv'
<1> SUFFICES ASSUME NEW x, x = worker[w].chunk, NEW o, o = worker[w].outcome
             PROVE VerdictInv'
  OBVIOUS
<1>0. PICK e \in BOOLEAN : e = (o \in Good)
  <2>1. (o \in Good) \in BOOLEAN
    OBVIOUS
  <2> QED BY <2>1, Zenon
<1>1. /\ worker[w].at = "finish"
      /\ UNCHANGED <<differ, missed, summary, main, cancelled, config, inserted, unsent, queue, results, got, equalSoFar, result>>
      /\ state' = [state EXCEPT ![x] = o] /\ saveChunk(x, o)
  BY DEF FinishChunk, saveChunk, past, Fault, Failure, loadVars, tally
<1>2. worker' = [worker EXCEPT ![w] = [at |-> "report", eq |-> e]]
  BY <1>0 DEF FinishChunk, Good
<1>3. info' = CASE o = "success" -> [info EXCEPT !.success = @ + 1]
                [] o = "ignore" -> [info EXCEPT !.ignore = @ + 1]
                [] OTHER -> [info EXCEPT !.failed = @ + 1]
  BY DEF FinishChunk
<1>4. /\ worker[w] \in [at : {"finish"}, chunk : Chunks, outcome : {"success", "failed", "ignore", "error"}]
      /\ worker[w] # Off /\ worker[w] # Gone
  <2>1. worker[w] \in {Off, Idle, Gone} \cup [at : {"report"}, eq : BOOLEAN]
           \cup [at : {"check"}, chunk : Chunks]
           \cup [at : {"finish"}, chunk : Chunks, outcome : {"success", "failed", "ignore", "error"}]
    BY DEF VerdictInv, CheckType
  <2> QED BY <1>1, <2>1 DEF Off, Idle, Gone
<1>5. x \in Chunks /\ o \in {"success", "failed", "ignore", "error"} /\ o \in States
  BY <1>4 DEF States
<1>6. /\ main \in {"collect", "wait"} /\ main \in Running /\ ~(main \in Loading) /\ result = "none" /\ Launched
      /\ DOMAIN state = Chunks /\ DOMAIN chunkRow["target"] = Chunks /\ state \in [Chunks -> States]
      /\ summary \in SummaryRecord /\ summary.hash = config
      /\ info \in InfoRecord /\ info.total = NChunks /\ info.success + info.ignore <= Cardinality(GoodOut)
  BY <1>4, WorkerRuns
<1>7. /\ chunkRow' \in [{"target", "stats"} -> Tables] /\ DOMAIN chunkRow'["target"] = Chunks
      /\ \A d \in Chunks : chunkRow'["target"][d] = chunkRow["target"][d] \/ (d = x /\ chunkRow'["target"][d] = o)
  BY <1>1, <1>5, <1>6, RowSaved
<1>8. state' \in [Chunks -> States] /\ state' \in Tables /\ state'[x] = o /\ \A d \in Chunks : d # x => state'[d] = state[d]
  BY <1>1, <1>5, <1>6 DEF Tables
<1>9. /\ (o = "success" => x \notin differ \ missed) /\ (o = "failed" => x \in differ \cup missed) /\ (o = "ignore" => config # "all")
  BY <1>1 DEF VerdictInv, StatesOK
<1>10. /\ worker'[w] = [at |-> "report", eq |-> e] /\ worker'[w].at = "report"
       /\ \A v \in Workers : v # w => worker'[v] = worker[v]
  BY <1>2 DEF VerdictInv, CheckType
<1>11. CheckType'
  <2>1. [at |-> "report", eq |-> e] \in [at : {"report"}, eq : BOOLEAN]
    OBVIOUS
  <2>2. worker' \in [Workers -> {Off, Idle, Gone} \cup [at : {"report"}, eq : BOOLEAN]
           \cup [at : {"check"}, chunk : Chunks]
           \cup [at : {"finish"}, chunk : Chunks, outcome : {"success", "failed", "ignore", "error"}]]
    BY <1>2, <2>1 DEF VerdictInv, CheckType
  <2> QED BY <1>1, <1>7, <1>8, <2>2 DEF VerdictInv, CheckType
<1>12. Holds(w, x)
  BY <1>1 DEF Holds
<1>13. \A v \in Workers : \A d : Holds(v, d)' <=> Holds(v, d) /\ v # w
  BY <1>10 DEF Holds
<1>14. PlaceOK'
  BY <1>1, <1>13 DEF VerdictInv, PlaceOK
<1>15. x \notin Out /\ Out' = Out \cup {x}
  <2>1. Waits(x) /\ ~Waits(x)'
    BY <1>1, <1>5, <1>12, <1>13, HeldOnce DEF VerdictInv, Waits
  <2>2. \A d : d # x => (Waits(d)' <=> Waits(d))
    <3>1. \A d : Holds(w, d) => d = x
      BY DEF Holds
    <3> QED BY <1>1, <1>13, <3>1 DEF Waits
  <2> QED BY <1>5, <1>6, <1>8, <2>1, <2>2 DEF Out
<1>16. /\ ReportsOK' /\ Cardinality(GoodOut) <= Cardinality(GoodOut')
       /\ Cardinality(GoodOut) \in Nat /\ Cardinality(GoodOut') \in Nat
       /\ (e = TRUE => Cardinality(GoodOut) + 1 <= Cardinality(GoodOut'))
  <2>1. \A d \in Out : state'[d] = state[d]
    BY <1>6, <1>8, <1>15 DEF Out
  <2>2. (e = TRUE => state'[x] \in Good) /\ (e = FALSE => state'[x] = "error" \/ differ \cup missed # {})
    BY <1>0, <1>5, <1>8, <1>9 DEF Good
  <2>3. worker[w].at # "report"
    BY <1>1
  <2> QED BY <1>1, <1>2, <1>5, <1>11, <1>15, <2>1, <2>2, <2>3, ChunkDone
<1>17. StatesOK'
  <2>1. \A v \in Workers : worker'[v].at = "finish" => worker'[v] = worker[v]
    BY <1>10
  <2>2. \A d \in Chunks : state'[d] = state[d] \/ (d = x /\ state'[d] = o)
    BY <1>8
  <2>3. DOMAIN state' = Chunks
    BY <1>8
  <2> QED BY <1>1, <1>6, <1>7, <1>9, <2>1, <2>2, <2>3 DEF VerdictInv, StatesOK
<1>18. LaunchedOK'
  <2>1. info' \in InfoRecord /\ info'.total = NChunks /\ info'.success + info'.ignore <= Cardinality(GoodOut')
    <3>1. CASE o = "success"
      <4>1. e = TRUE
        BY <1>0, <3>1 DEF Good
      <4>2. info' = [info EXCEPT !.success = @ + 1]
        BY <1>3, <3>1
      <4> QED BY <1>6, <1>16, <4>1, <4>2 DEF InfoRecord
    <3>2. CASE o = "ignore"
      <4>1. e = TRUE
        BY <1>0, <3>2 DEF Good
      <4>2. info' = [info EXCEPT !.ignore = @ + 1]
        BY <1>3, <3>2
      <4> QED BY <1>6, <1>16, <4>1, <4>2 DEF InfoRecord
    <3>3. CASE o # "success" /\ o # "ignore"
      <4>1. info' = [info EXCEPT !.failed = @ + 1]
        BY <1>3, <3>3
      <4> QED BY <1>6, <1>16, <4>1 DEF InfoRecord
    <3> QED BY <3>1, <3>2, <3>3
  <2>2. DOMAIN state' = Chunks
    BY <1>8
  <2> QED BY <1>1, <1>6, <1>7, <2>1, <2>2 DEF LaunchedOK
<1>19. SummaryOK' /\ LoadingOK' /\ EndOK' /\ OldVerdictSound'
  <2>1. config = "all" => \A d \in Chunks : chunkRow'["target"][d] # "ignore"
    BY <1>6, <1>7, <1>9, OldDiffAssumption DEF VerdictInv, SummaryOK
  <2> QED BY <1>1, <1>6, <1>7, <2>1, RunningFrame
<1> QED BY <1>11, <1>14, <1>16, <1>17, <1>18, <1>19 DEF VerdictInv

\* A worker takes a chunk: it is done already, it is left out, or it is checked.
LEMMA TakeStep ==
    ASSUME VerdictInv, SplitFrom = "target", NEW w \in Workers, TakeChunk(w)
    PROVE  VerdictInv'
<1> SUFFICES ASSUME NEW x, x = Head(queue[w]) PROVE VerdictInv'
  OBVIOUS
<1>1. /\ worker[w] = Idle /\ queue[w] # <<>> /\ queue' = [queue EXCEPT ![w] = Tail(@)]
      /\ UNCHANGED <<differ, missed, summary, main, cancelled, config, inserted, info, unsent, results, got, equalSoFar, result>>
  BY DEF TakeChunk, saveChunk, past, Fault, Failure, loadVars, tally
<1>2. worker[w].at = "idle" /\ worker[w] # Off /\ worker[w] # Gone
  BY <1>1 DEF Idle, Off, Gone
<1>3. /\ main \in {"collect", "wait"} /\ main \in Running /\ ~(main \in Loading) /\ result = "none" /\ Launched
      /\ DOMAIN state = Chunks /\ DOMAIN chunkRow["target"] = Chunks /\ state \in [Chunks -> States]
      /\ summary \in SummaryRecord /\ summary.hash = config
      /\ info \in InfoRecord /\ info.total = NChunks /\ info.success + info.ignore <= Cardinality(GoodOut)
  BY <1>2, WorkerRuns
<1>4. /\ queue[w] \in Seq(Chunks) /\ queue' \in [Workers -> Seq(Chunks)] /\ x \in Chunks
      /\ queue'[w] = Tail(queue[w]) /\ \A v \in Workers : v # w => queue'[v] = queue[v]
  BY <1>1 DEF VerdictInv, CheckType
<1>5. /\ \A d : InSeq(d, queue[w]) <=> InSeq(d, queue'[w]) \/ d = x
      /\ Distinct(queue'[w]) /\ ~InSeq(x, queue'[w])
  <2>1. Distinct(queue[w])
    BY DEF VerdictInv, PlaceOK
  <2> QED BY <1>1, <1>4, <2>1, TailIn
<1>6. /\ x % Threads = w /\ ~InSeq(x, unsent) /\ \A v \in Workers : ~InSeq(x, queue'[v]) /\ ~Holds(v, x)
  <2>1. InSeq(x, queue[w])
    BY <1>5
  <2>2. x % Threads = w /\ ~InSeq(x, unsent)
    BY <1>4, <2>1 DEF VerdictInv, PlaceOK
  <2>3. \A v \in Workers : ~InSeq(x, queue'[v])
    BY <1>4, <1>5, <2>2 DEF VerdictInv, PlaceOK
  <2>4. \A v \in Workers : ~Holds(v, x)
    BY <1>4, <2>1, <2>2 DEF VerdictInv, PlaceOK
  <2> QED BY <2>2, <2>3, <2>4
<1>7. Waits(x)
  BY <1>5 DEF Waits
<1>8. /\ \A v \in Workers : \A d : InSeq(d, queue'[v]) => InSeq(d, queue[v])
      /\ \A v \in Workers : Distinct(queue'[v])
  BY <1>4, <1>5 DEF VerdictInv, PlaceOK
<1>9. \A d : ~Holds(w, d)
  BY <1>2 DEF Holds
<1>10. CASE /\ state[x] \in {"success", "ignore"}
            /\ worker' = [worker EXCEPT ![w] = [at |-> "report", eq |-> TRUE]]
            /\ UNCHANGED <<state, chunkRow>>
  <2>1. /\ worker'[w] = [at |-> "report", eq |-> TRUE] /\ worker'[w].at = "report"
        /\ \A v \in Workers : v # w => worker'[v] = worker[v]
    BY <1>10 DEF VerdictInv, CheckType
  <2>2. CheckType'
    <3>1. worker' \in [Workers -> {Off, Idle, Gone} \cup [at : {"report"}, eq : BOOLEAN]
             \cup [at : {"check"}, chunk : Chunks]
             \cup [at : {"finish"}, chunk : Chunks, outcome : {"success", "failed", "ignore", "error"}]]
      BY <1>10 DEF VerdictInv, CheckType
    <3> QED BY <1>1, <1>4, <1>10, <3>1 DEF VerdictInv, CheckType
  <2>3. \A v \in Workers : \A d : Holds(v, d)' <=> Holds(v, d)
    BY <1>9, <2>1 DEF Holds
  <2>4. PlaceOK'
    BY <1>1, <1>8, <2>3 DEF VerdictInv, PlaceOK
  <2>5. x \notin Out /\ Out' = Out \cup {x}
    <3>1. ~Waits(x)'
      BY <1>1, <1>6, <2>3 DEF Waits
    <3>2. \A d : d # x => (Waits(d)' <=> Waits(d))
      BY <1>1, <1>4, <1>5, <2>3 DEF Waits
    <3> QED BY <1>3, <1>4, <1>7, <1>10, <3>1, <3>2 DEF Out
  <2>6. /\ ReportsOK' /\ Cardinality(GoodOut) <= Cardinality(GoodOut')
        /\ Cardinality(GoodOut) \in Nat /\ Cardinality(GoodOut') \in Nat
    <3>1. \A d \in Out : state'[d] = state[d]
      BY <1>10
    <3>2. state'[x] \in Good /\ TRUE # FALSE
      BY <1>10 DEF Good
    <3>3. worker[w].at # "report" /\ TRUE \in BOOLEAN
      BY <1>2
    <3> QED BY <1>1, <1>4, <1>10, <2>2, <2>5, <3>1, <3>2, <3>3, ChunkDone
  <2>7. StatesOK'
    <3>1. \A v \in Workers : worker'[v].at = "finish" => worker'[v] = worker[v]
      BY <2>1
    <3> QED BY <1>1, <1>10, <3>1 DEF VerdictInv, StatesOK
  <2>8. LaunchedOK'
    <3>1. info'.success + info'.ignore <= Cardinality(GoodOut')
      BY <1>1, <1>3, <2>6 DEF InfoRecord
    <3> QED BY <1>1, <1>3, <1>10, <3>1 DEF LaunchedOK
  <2>9. SummaryOK' /\ LoadingOK' /\ EndOK' /\ OldVerdictSound'
    BY <1>1, <1>3, <1>10, RunningFrame
  <2> QED BY <2>2, <2>4, <2>6, <2>7, <2>8, <2>9 DEF VerdictInv
<1>11. ASSUME NEW y \in [at : {"check"}, chunk : {x}] \cup [at : {"finish"}, chunk : {x}, outcome : {"ignore"}],
              worker' = [worker EXCEPT ![w] = y], y.at = "finish" => config # "all",
              \/ state' = state
              \/ state[x] \notin Good /\ state' = [state EXCEPT ![x] = "checking"],
              chunkRow' = chunkRow \/ saveChunk(x, "checking")
       PROVE  VerdictInv'
  <2>1. /\ worker'[w] = y /\ y.at \in {"check", "finish"} /\ y.chunk = x
        /\ \A v \in Workers : v # w => worker'[v] = worker[v]
    BY <1>11 DEF VerdictInv, CheckType
  <2>2. /\ state' \in [Chunks -> States] /\ state' \in Tables
        /\ \A d \in Chunks : state'[d] = state[d] \/ (d = x /\ state'[d] = "checking" /\ state[d] \notin Good)
    <3>1. CASE state' = state
      BY <1>3, <3>1 DEF Tables
    <3>2. CASE state[x] \notin Good /\ state' = [state EXCEPT ![x] = "checking"]
      <4>1. "checking" \in States
        BY DEF States
      <4>2. state' \in [Chunks -> States] /\ \A d \in Chunks : state'[d] = IF d = x THEN "checking" ELSE state[d]
        BY <1>3, <1>4, <3>2, <4>1
      <4>3. state' \in Tables
        BY <4>2 DEF Tables
      <4> QED BY <3>2, <4>2, <4>3
    <3> QED BY <1>11, <3>1, <3>2
  <2>3. /\ chunkRow' \in [{"target", "stats"} -> Tables] /\ DOMAIN chunkRow'["target"] = Chunks
        /\ \A d \in Chunks : chunkRow'["target"][d] = chunkRow["target"][d] \/ (d = x /\ chunkRow'["target"][d] = "checking")
    <3>1. CASE chunkRow' = chunkRow
      BY <1>3, <3>1 DEF VerdictInv, CheckType
    <3>2. CASE saveChunk(x, "checking")
      <4>1. "checking" \in States
        BY DEF States
      <4> QED BY <1>3, <1>4, <3>2, <4>1, RowSaved
    <3> QED BY <1>11, <3>1, <3>2
  <2>4. CheckType'
    <3>1. y \in [at : {"check"}, chunk : Chunks]
             \cup [at : {"finish"}, chunk : Chunks, outcome : {"success", "failed", "ignore", "error"}]
      BY <1>4, <1>11
    <3>2. worker' \in [Workers -> {Off, Idle, Gone} \cup [at : {"report"}, eq : BOOLEAN]
             \cup [at : {"check"}, chunk : Chunks]
             \cup [at : {"finish"}, chunk : Chunks, outcome : {"success", "failed", "ignore", "error"}]]
      BY <1>11, <3>1 DEF VerdictInv, CheckType
    <3> QED BY <1>1, <1>4, <2>2, <2>3, <3>2 DEF VerdictInv, CheckType
  <2>5. /\ \A v \in Workers : v # w => \A d : Holds(v, d)' <=> Holds(v, d)
        /\ \A d : Holds(w, d)' <=> d = x
    BY <2>1 DEF Holds
  <2>6. PlaceOK'
    <3>1. \A v \in Workers : \A d : Holds(v, d)' => Holds(v, d) \/ (v = w /\ d = x)
      BY <2>5
    <3>2. \A v \in Workers : \A d \in Chunks : InSeq(d, queue'[v]) => d % Threads = v /\ ~Holds(v, d)'
      BY <1>6, <1>8, <3>1 DEF VerdictInv, PlaceOK
    <3>3. \A v \in Workers : \A d \in Chunks : Holds(v, d)' => d % Threads = v
      BY <1>6, <3>1 DEF VerdictInv, PlaceOK
    <3>4. \A d \in Chunks : InSeq(d, unsent') => \A v \in Workers : ~InSeq(d, queue'[v]) /\ ~Holds(v, d)'
      BY <1>1, <1>6, <1>8, <3>1 DEF VerdictInv, PlaceOK
    <3> QED BY <1>1, <1>8, <3>2, <3>3, <3>4 DEF VerdictInv, PlaceOK
  <2>7. Out' = Out
    <3>1. \A d : Waits(d)' <=> Waits(d)
      <4>1. ASSUME NEW d, d # x PROVE Waits(d)' <=> Waits(d)
        BY <1>1, <1>4, <1>5, <1>9, <2>5, <4>1 DEF Waits
      <4>2. Waits(x)'
        BY <2>5 DEF Waits
      <4> QED BY <1>7, <4>1, <4>2
    <3> QED BY <1>3, <2>2, <3>1 DEF Out
  <2>8. x \notin Out
    BY <1>7 DEF Out
  <2>9. \A d \in Out : state'[d] = state[d]
    BY <1>3, <2>2, <2>8 DEF Out
  <2>10. GoodOut' = GoodOut
    BY <2>7, <2>9 DEF GoodOut
  <2>11. Reporting' = Reporting /\ \A v \in Reporting : worker'[v] = worker[v]
    BY <1>2, <2>1 DEF Reporting
  <2>12. Reported' = Reported /\ (Unequal' <=> Unequal)
    <3>1. equalSoFar' = equalSoFar /\ (InSeq(FALSE, results') <=> InSeq(FALSE, results))
      BY <1>1
    <3>2. (\E v \in Reporting : worker[v].eq = FALSE) <=> (\E v \in Reporting' : worker'[v].eq = FALSE)
      BY <2>11
    <3>3. Unequal' <=> Unequal
      BY <3>1, <3>2, Zenon DEF Unequal
    <3> QED BY <1>1, <2>11, <3>3 DEF Reported
  <2>13. ReportsOK'
    <3>1. (\E d \in Out : state[d] = "error") <=> (\E d \in Out' : state'[d] = "error")
      BY <2>7, <2>9
    <3> QED BY <1>1, <2>7, <2>10, <2>12, <3>1 DEF VerdictInv, ReportsOK
  <2>14. StatesOK'
    <3>1. \A v \in Workers : worker'[v].at = "finish" =>
            /\ worker'[v].outcome = "success" => worker'[v].chunk \notin differ \ missed
            /\ worker'[v].outcome = "failed" => worker'[v].chunk \in differ \cup missed
            /\ worker'[v].outcome = "ignore" => config # "all"
      <4>1. y.at = "finish" => y.outcome = "ignore"
        BY <1>11
      <4> QED BY <1>11, <2>1, <4>1 DEF VerdictInv, StatesOK
    <3>2. DOMAIN state' = Chunks
      BY <2>2
    <3> QED BY <1>1, <1>3, <2>2, <2>3, <3>1, <3>2 DEF VerdictInv, StatesOK
  <2>15. LaunchedOK'
    <3>1. DOMAIN state' = Chunks
      BY <2>2
    <3> QED BY <1>1, <1>3, <2>3, <2>10, <3>1 DEF LaunchedOK
  <2>16. SummaryOK' /\ LoadingOK' /\ EndOK' /\ OldVerdictSound'
    <3>1. config = "all" => \A d \in Chunks : chunkRow'["target"][d] # "ignore"
      BY <1>3, <2>3, OldDiffAssumption DEF VerdictInv, SummaryOK
    <3> QED BY <1>1, <1>3, <2>3, <3>1, RunningFrame
  <2> QED BY <2>4, <2>6, <2>13, <2>14, <2>15, <2>16 DEF VerdictInv
<1>12. CASE /\ config = "sample"
            /\ worker' = [worker EXCEPT ![w] = [at |-> "finish", chunk |-> x, outcome |-> "ignore"]]
            /\ UNCHANGED <<state, chunkRow>>
  BY <1>11, <1>12
<1>13. CASE /\ state[x] \notin Good /\ state' = [state EXCEPT ![x] = "checking"]
            /\ worker' = [worker EXCEPT ![w] = [at |-> "check", chunk |-> x]] /\ saveChunk(x, "checking")
  BY <1>11, <1>13
<1> QED BY <1>10, <1>12, <1>13 DEF TakeChunk, Good

-----------------------------------------------------------------------------
(* The verdicts.                                                           *)

\* The invariant is inductive.
LEMMA VerdictStep ==
    ASSUME VerdictInv, SplitFrom = "target", OldNext \/ UNCHANGED oldVars
    PROVE  VerdictInv'
<1>1. CASE OldStart \/ OldCrash
  BY <1>1, StartOrCrash
<1>2. CASE LoadCheckpoint \/ CleanSummary \/ CleanChunks \/ InitTableSummary \/ LoadFails \/ InitChunks \/ ChunksSplit
  BY <1>2, LoadStep, StatementStep, CleanChunksStep, InitChunksStep, ChunksSplitStep
<1>3. CASE OldCancel \/ StopWriter \/ StopUpdater \/ Return \/ WriterEnds \/ Tick \/ UpdaterEnds
  BY <1>3, HelperStep
<1>4. CASE Launch
  BY <1>4, LaunchStep
<1>5. CASE Dispatch
  BY <1>5, DispatchStep
<1>6. CASE CollectResult
  BY <1>6, CollectStep
<1>7. CASE \E w \in Workers : WorkerStep(w)
  <2>1. PICK w \in Workers : WorkerStep(w)
    BY <1>7
  <2> QED BY <2>1, TakeStep, CheckStep, FinishStep, ReportStep, LeaveStep DEF WorkerStep
<1>8. CASE UNCHANGED oldVars
  <2>1. UNCHANGED <<differ, missed, summary, chunkRow, main, cancelled, config, inserted, state, info, unsent, queue,
                    worker, results, got, equalSoFar, result>>
    BY <1>8 DEF oldVars, db, past, Fault, Failure, loadVars, pipe, tally
  <2>2. PlaceOK' /\ Out' = Out /\ GoodOut' = GoodOut /\ Reporting' = Reporting
    BY <2>1, PipeStill
  <2>3. CheckType'
    BY <2>1 DEF VerdictInv, CheckType
  <2>4. ReportsOK' /\ LaunchedOK'
    <3>1. Reported' = Reported /\ (Unequal' <=> Unequal)
      BY <2>1, <2>2 DEF Reported, Unequal
    <3> QED BY <2>1, <2>2, <3>1 DEF VerdictInv, ReportsOK, LaunchedOK, Launched
  <2>5. StatesOK'
    BY <2>1 DEF VerdictInv, StatesOK
  <2>6. SummaryOK' /\ OldVerdictSound'
    BY <2>1 DEF VerdictInv, SummaryOK, OldVerdictSound
  <2>7. LoadingOK'
    BY <2>1 DEF VerdictInv, LoadingOK
  <2>8. EndOK'
    BY <2>1 DEF VerdictInv, EndOK
  <2> QED BY <2>2, <2>3, <2>4, <2>5, <2>6, <2>7, <2>8 DEF VerdictInv
<1> QED BY <1>1, <1>2, <1>3, <1>4, <1>5, <1>6, <1>7, <1>8 DEF OldNext, MainStep

\* A run says that the tables are equal only when every chunk that differs is
\* one whose stream of the target broke off unnoticed, in this run or in one it
\* resumes, and that they differ only for a reason, for any number of chunks,
\* workers and restarts.
THEOREM OldVerdictIsSound == CheckSpec => []OldVerdictSound
<1>1. CASE SplitFrom = "target"
  <2>1. CheckInit => VerdictInv
    <3>1. Differences \subseteq SUBSET Chunks /\ {{}} \subseteq SUBSET Chunks
      BY OldDiffAssumption DEF Chunks
    <3> QED BY <3>1, VerdictInit DEF CheckInit
  <2>2. VerdictInv /\ [CheckNext]_checkVars => VerdictInv'
    <3> SUFFICES ASSUME VerdictInv, [CheckNext]_checkVars PROVE VerdictInv'
      OBVIOUS
    <3>1. OldNext \/ UNCHANGED oldVars
      BY DEF CheckNext, OfCheck, checkVars
    <3> QED BY <1>1, <3>1, VerdictStep
  <2>3. VerdictInv => OldVerdictSound
    BY DEF VerdictInv
  <2> QED BY <2>1, <2>2, <2>3, PTL DEF CheckSpec
<1>2. CASE SplitFrom # "target"
  <2>1. OldVerdictSound
    BY <1>2 DEF OldVerdictSound
  <2> QED BY <2>1, PTL
<1> QED BY <1>1, <1>2

-----------------------------------------------------------------------------
(* The comparison of rows: what is left of the sides, and what is repaired. *)

\* The rows a side has still to be asked for, or has just given.
Given(row) == IF row = NoRow THEN {} ELSE {row}
SourceLeft == (UNION {sourceRows[s] \cup Given(heap[s]) : s \in Sources}) \cup Given(lastSource)
TargetLeft == targetRows \cup Given(lastTarget)
Settled == Merged(data) \ SourceLeft
TargetGone == data.target \ TargetLeft

DataOK(d) ==
    /\ Numbered(Merged(d)) /\ Numbered(d.target)
    /\ \A s, z \in Sources : s # z => d.source[s] \cap d.source[z] = {}

RowsType ==
    /\ DataOK(data)
    /\ sourceRows = [s \in Sources |-> sourceRows[s]] /\ heap = [s \in Sources |-> heap[s]]
    /\ \A s \in Sources : sourceRows[s] \subseteq data.source[s] /\ Given(heap[s]) \subseteq data.source[s]
    /\ Given(lastSource) \subseteq Merged(data)
    /\ targetRows \subseteq data.target /\ Given(lastTarget) \subseteq data.target
    /\ rowsPc \in {"read", "compare", "done", "error"} /\ rowsEqual \in BOOLEAN /\ targetCut \in BOOLEAN

\* The row at hand is there once, and a side without one has ended.
HandOK ==
    /\ \A s \in Sources :
          /\ heap[s] \notin sourceRows[s] /\ lastSource \notin sourceRows[s]
          /\ lastSource # NoRow => heap[s] # lastSource
    /\ lastTarget \notin targetRows
    /\ rowsPc = "compare" => /\ lastSource = NoRow => SourceLeft = {}
                             /\ lastTarget = NoRow => TargetLeft = {}
    /\ rowsPc = "done" => SourceLeft = {} /\ TargetLeft = {}

\* While no difference was found, the rows read of the sides are the same, each
\* as often; behind a break of its stream, the target's may be more.
PairedOK ==
    rowsEqual =>
        \A r \in Merged(data) \cup data.target :
            IF targetCut THEN Copies(Settled, r) <= Copies(TargetGone, r)
            ELSE Copies(Settled, r) = Copies(TargetGone, r)

\* The row at hand is the first of what is left of its side.
FirstOK ==
    /\ \A s \in Sources : heap[s] # NoRow => \A q \in sourceRows[s] : heap[s].at <= q.at
    /\ lastSource # NoRow => \A q \in SourceLeft : lastSource.at <= q.at
    /\ lastTarget # NoRow => \A q \in TargetLeft : lastTarget.at <= q.at

\* A row is as it was until its key is reached, and then as in the sources.
RepairOK ==
    /\ Settled \subseteq fixed /\ TargetLeft \subseteq fixed /\ data.target \cap SourceLeft \subseteq fixed
    /\ \A q \in fixed : q \in Settled \/ q \in TargetLeft \/ (targetCut /\ q \in data.target)
    /\ \A t \in TargetLeft, r \in Settled : t.at # r.at
    /\ ~targetCut => \A r \in SourceLeft, t \in TargetGone : r.at # t.at

\* The sides are equal as far as they were read, or they differ.
EqualOK ==
    ~targetCut /\ rowsPc # "error" =>
        IF rowsEqual THEN Settled = TargetGone ELSE data.target # Merged(data)

RowsInv ==
    /\ RowsType /\ HandOK /\ PairedOK
    /\ Ordered(data) => FirstOK /\ RepairOK /\ EqualOK

-----------------------------------------------------------------------------
(* Rows and their copies.                                                  *)

\* The fields of the rows of both sides.
LEMMA RowFields ==
    ASSUME NEW d, DataOK(d), NEW r \in Merged(d) \cup d.target
    PROVE  /\ r = [at |-> r.at, num |-> r.num, val |-> r.val, copy |-> r.copy]
           /\ r.at \in Int /\ r.num \in Int /\ r # NoRow
  BY DEF DataOK, Numbered

\* The two sides are finite.
LEMMA SidesFinite ==
    ASSUME NEW d, DataOK(d)
    PROVE  IsFiniteSet(Merged(d)) /\ IsFiniteSet(d.target)
  BY DEF DataOK, Numbered

\* A row more counts for the rows of its content.
LEMMA CopiesAdd ==
    ASSUME NEW S, IsFiniteSet(S), NEW a, a \notin S, NEW r
    PROVE  /\ Copies(S, r) \in Nat
           /\ Copies(S \cup {a}, r) = Copies(S, r) + (IF Same(a, r) THEN 1 ELSE 0)
<1> DEFINE old == {q \in S : Same(q, r)}
           new == {q \in S \cup {a} : Same(q, r)}
<1>1. IsFiniteSet(old) /\ Cardinality(old) \in Nat /\ a \notin old
  BY FS_Subset, FS_CardinalityType
<1>2. CASE Same(a, r)
  <2>1. new = old \cup {a}
    BY <1>2
  <2> HIDE DEF old, new
  <2>2. Cardinality(new) = Cardinality(old) + 1
    BY <1>1, <2>1, OneMore
  <2> QED BY <1>1, <1>2, <2>2 DEF old, new, Copies
<1>3. CASE ~Same(a, r)
  <2>1. new = old
    BY <1>3
  <2>2. Copies(S \cup {a}, r) = Copies(S, r)
    BY <2>1 DEF Copies
  <2>3. Copies(S, r) \in Nat
    BY <1>1 DEF Copies
  <2> HIDE DEF old, new
  <2> QED BY <1>3, <2>2, <2>3
<1> QED BY <1>2, <1>3

\* And more rows are no fewer copies.
LEMMA CopiesGrow ==
    ASSUME NEW S, IsFiniteSet(S), NEW T, T \subseteq S, NEW r
    PROVE  Copies(T, r) \in Nat /\ Copies(S, r) \in Nat /\ Copies(T, r) <= Copies(S, r)
<1> DEFINE old == {q \in T : Same(q, r)}
           new == {q \in S : Same(q, r)}
<1>1. IsFiniteSet(new) /\ old \subseteq new
  BY FS_Subset
<1> HIDE DEF old, new
<1>2. Cardinality(old) \in Nat /\ Cardinality(new) \in Nat /\ Cardinality(old) <= Cardinality(new)
  BY <1>1, PartSmaller
<1> QED BY <1>2 DEF old, new, Copies

\* Of ordered data there is one copy of a row, the first, and the code tells
\* rows apart as the queries do.
LEMMA OrderedRows ==
    ASSUME NEW d, DataOK(d), Ordered(d)
    PROVE  /\ \A r \in Merged(d) \cup d.target : r.copy = 1 /\ r.at \in d.single
           /\ \A r, q \in Merged(d) : r.at = q.at => r = q
           /\ \A r, q \in d.target : r.at = q.at => r = q
           /\ \A r, q \in Merged(d) \cup d.target :
                 /\ Same(r, q) => r = q
                 /\ r.num < q.num <=> r.at < q.at
                 /\ r.num = q.num <=> r.at = q.at
<1>1. \A r, q \in Merged(d) : r.at = q.at => r = q
  BY DEF Ordered
<1>2. \A r, q \in d.target : r.at = q.at => r = q
  BY DEF Ordered
<1>3. ASSUME NEW rows \in {Merged(d), d.target}, NEW r \in rows PROVE r.copy = 1
  <2> DEFINE one == {q \in rows : Same(q, r)}
  <2>1. one = {r}
    BY <1>1, <1>2 DEF Same
  <2>2. Cardinality(one) = 1
    <3> HIDE DEF one
    <3> QED BY <2>1, FS_Singleton
  <2>3. r.copy \in 1 .. Copies(rows, r)
    BY DEF DataOK, Numbered
  <2>4. Copies(rows, r) = 1
    BY <2>2 DEF Copies
  <2> QED BY <2>3, <2>4
<1>4. \A r \in Merged(d) \cup d.target : r.copy = 1 /\ r.at \in d.single
  BY <1>3 DEF Ordered
<1>5. ASSUME NEW r \in Merged(d) \cup d.target, NEW q \in Merged(d) \cup d.target
      PROVE  /\ Same(r, q) => r = q
             /\ r.num < q.num <=> r.at < q.at
             /\ r.num = q.num <=> r.at = q.at
  <2>1. /\ r = [at |-> r.at, num |-> r.num, val |-> r.val, copy |-> r.copy]
        /\ q = [at |-> q.at, num |-> q.num, val |-> q.val, copy |-> q.copy]
        /\ r.at \in Int /\ r.num \in Int /\ q.at \in Int /\ q.num \in Int
    BY RowFields
  <2>2. (r.at < q.at <=> r.num < q.num) /\ (q.at < r.at <=> q.num < r.num)
    BY DEF Ordered
  <2>3. Same(r, q) => r = q
    BY <1>4, <2>1 DEF Same
  <2> QED BY <2>1, <2>2, <2>3
<1> QED BY <1>1, <1>2, <1>4, <1>5

\* A REPLACE of a row of ordered data takes its key's row away.
LEMMA ReplacedIs ==
    ASSUME NEW rows, DataOK(data), Ordered(data), NEW a \in Merged(data)
    PROVE  Replaced(rows, a) = {r \in rows : r.at # a.at} \cup {a}
<1> DEFINE kept == {r \in rows : r.at # a.at}
           same == {q \in kept : Same(q, a)}
<1>1. a.at \in data.single /\ a.copy = 1 /\ a = [at |-> a.at, num |-> a.num, val |-> a.val, copy |-> a.copy]
  BY OrderedRows, RowFields
<1>2. same = {}
  BY DEF Same
<1>3. Cardinality(same) = 0
  <2> HIDE DEF same
  <2> QED BY <1>2, FS_EmptySet
<1>4. Copies(kept, a) + 1 = 1
  <2>1. Copies(kept, a) = 0
    BY <1>3 DEF Copies
  <2> QED BY <2>1
<1>5. [a EXCEPT !.copy = 1] = a
  BY <1>1
<1>6. Replaced(rows, a) = kept \cup {[a EXCEPT !.copy = Copies(kept, a) + 1]}
  BY <1>1 DEF Replaced
<1> HIDE DEF kept
<1>7. Replaced(rows, a) = kept \cup {a}
  BY <1>4, <1>5, <1>6
<1> QED BY <1>7 DEF kept

-----------------------------------------------------------------------------
(* The comparison of rows.                                                 *)

\* At the beginning all is left.
LEMMA RowsInitially ==
    ASSUME NEW D, \A d \in D : DataOK(d), RowsInit(D)
    PROVE  RowsInv
<1>1. /\ DataOK(data) /\ sourceRows = [s \in Sources |-> data.source[s]] /\ targetRows = data.target
      /\ heap = [s \in Sources |-> NoRow] /\ lastSource = NoRow /\ lastTarget = NoRow
      /\ rowsPc = "read" /\ rowsEqual = TRUE /\ fixed = data.target /\ targetCut = FALSE
  BY DEF RowsInit
<1>2. SourceLeft = Merged(data) /\ TargetLeft = data.target /\ Settled = {} /\ TargetGone = {}
  BY <1>1 DEF SourceLeft, TargetLeft, Given, Merged, Settled, TargetGone
<1>3. RowsType
  BY <1>1 DEF RowsType, Given, Merged
<1>4. HandOK /\ FirstOK
  BY <1>1 DEF HandOK, FirstOK, DataOK, Numbered, Merged
<1>5. PairedOK /\ RepairOK /\ EqualOK
  BY <1>1, <1>2 DEF PairedOK, RepairOK, EqualOK
<1> QED BY <1>3, <1>4, <1>5 DEF RowsInv

\* A row is read from the sources.
LEMMA SourceRead ==
    ASSUME RowsInv, lastSource = NoRow, GetSourceRow, data' = data
    PROVE  /\ sourceRows' = [s \in Sources |-> sourceRows'[s]] /\ heap' = [s \in Sources |-> heap'[s]]
           /\ \A s \in Sources :
                 /\ sourceRows'[s] \subseteq data.source[s] /\ Given(heap'[s]) \subseteq data.source[s]
                 /\ heap'[s] \notin sourceRows'[s] /\ lastSource' \notin sourceRows'[s]
                 /\ lastSource' # NoRow => heap'[s] # lastSource'
           /\ Given(lastSource') \subseteq Merged(data) /\ SourceLeft' = SourceLeft
           /\ lastSource' = NoRow => SourceLeft = {}
           /\ Ordered(data) =>
                 /\ \A s \in Sources : heap'[s] # NoRow => \A q \in sourceRows'[s] : heap'[s].at <= q.at
                 /\ lastSource' # NoRow => \A q \in SourceLeft : lastSource'.at <= q.at
<1>1. PICK filled \in Refill(sourceRows) :
         LET full == {s \in Sources : filled[s] # NoRow} IN
         /\ sourceRows' = [s \in Sources |-> sourceRows[s] \ {filled[s]}]
         /\ \/ full = {} /\ lastSource' = NoRow /\ heap' = filled
            \/ \E first \in Smallest(filled, full) :
                  lastSource' = filled[first] /\ heap' = [filled EXCEPT ![first] = NoRow]
  BY DEF GetSourceRow
<1> DEFINE full == {s \in Sources : filled[s] # NoRow}
           rest == [s \in Sources |-> sourceRows[s] \ {filled[s]}]
<1>2. /\ DataOK(data) /\ \A s \in Sources : sourceRows[s] \subseteq data.source[s] /\ Given(heap[s]) \subseteq data.source[s]
      /\ \A s \in Sources : heap[s] \notin sourceRows[s]
      /\ \A s \in Sources : data.source[s] \subseteq Merged(data)
      /\ Ordered(data) => \A s \in Sources : heap[s] # NoRow => \A q \in sourceRows[s] : heap[s].at <= q.at
  BY DEF RowsInv, RowsType, HandOK, FirstOK, Merged
<1>3. \A s \in Sources : NoRow \notin data.source[s] /\ NoRow \notin sourceRows[s]
  BY <1>2 DEF DataOK, Numbered
<1>4. filled = [s \in Sources |-> filled[s]] /\ rest = [s \in Sources |-> rest[s]]
  BY DEF Refill, Heaps
<1>5. ASSUME NEW s \in Sources
      PROVE  /\ filled[s] # NoRow => filled[s] \in data.source[s]
             /\ filled[s] = NoRow => sourceRows[s] = {}
             /\ rest[s] \cup Given(filled[s]) = sourceRows[s] \cup Given(heap[s])
             /\ rest[s] \subseteq sourceRows[s] /\ filled[s] \notin rest[s]
             /\ Ordered(data) /\ filled[s] # NoRow => \A q \in rest[s] : filled[s].at <= q.at
  <2>1. IF heap[s] = NoRow /\ sourceRows[s] # {} THEN filled[s] \in FirstRows(sourceRows[s]) ELSE filled[s] = heap[s]
    BY DEF Refill
  <2>2. rest[s] = sourceRows[s] \ {filled[s]}
    OBVIOUS
  <2> HIDE DEF rest
  <2>3. CASE heap[s] = NoRow /\ sourceRows[s] # {}
    <3>1. filled[s] \in sourceRows[s] /\ \A q \in sourceRows[s] : filled[s].at <= q.at
      BY <2>1, <2>3 DEF FirstRows
    <3> QED BY <1>2, <1>3, <2>2, <2>3, <3>1 DEF Given
  <2>4. CASE ~(heap[s] = NoRow /\ sourceRows[s] # {})
    BY <1>2, <1>3, <2>1, <2>2, <2>4 DEF Given
  <2> QED BY <2>3, <2>4
<1>6. /\ sourceRows' = rest
      /\ \/ full = {} /\ lastSource' = NoRow /\ heap' = filled
         \/ \E first \in Smallest(filled, full) :
               lastSource' = filled[first] /\ heap' = [filled EXCEPT ![first] = NoRow]
  BY <1>1
<1> HIDE DEF rest
<1>7. SourceLeft = UNION {rest[s] \cup Given(filled[s]) : s \in Sources}
  <2>1. SourceLeft = UNION {sourceRows[s] \cup Given(heap[s]) : s \in Sources}
    BY DEF SourceLeft, Given
  <2> QED BY <1>5, <2>1
<1>8. CASE full = {} /\ lastSource' = NoRow /\ heap' = filled
  <2>1. \A s \in Sources : filled[s] = NoRow /\ sourceRows[s] = {} /\ rest[s] = {} /\ Given(filled[s]) = {}
    BY <1>5, <1>8 DEF Given
  <2>2. SourceLeft = {}
    BY <1>7, <2>1
  <2>3. SourceLeft' = {}
    BY <1>6, <1>8, <2>1 DEF SourceLeft, Given
  <2> QED BY <1>4, <1>6, <1>8, <2>1, <2>2, <2>3 DEF Given
<1>9. ASSUME NEW first \in Smallest(filled, full),
             lastSource' = filled[first], heap' = [filled EXCEPT ![first] = NoRow]
      PROVE  /\ sourceRows' = [s \in Sources |-> sourceRows'[s]] /\ heap' = [s \in Sources |-> heap'[s]]
             /\ \A s \in Sources :
                   /\ sourceRows'[s] \subseteq data.source[s] /\ Given(heap'[s]) \subseteq data.source[s]
                   /\ heap'[s] \notin sourceRows'[s] /\ lastSource' \notin sourceRows'[s]
                   /\ lastSource' # NoRow => heap'[s] # lastSource'
             /\ Given(lastSource') \subseteq Merged(data) /\ SourceLeft' = SourceLeft
             /\ lastSource' # NoRow
             /\ Ordered(data) =>
                   /\ \A s \in Sources : heap'[s] # NoRow => \A q \in sourceRows'[s] : heap'[s].at <= q.at
                   /\ \A q \in SourceLeft : lastSource'.at <= q.at
  <2>1. first \in Sources /\ filled[first] # NoRow /\ \A z \in full : filled[first].num <= filled[z].num
    BY DEF Smallest
  <2>2. \A s \in Sources : heap'[s] = IF s = first THEN NoRow ELSE filled[s]
    BY <1>4, <1>9, <2>1
  <2>3. filled[first] \in data.source[first]
    BY <1>5, <2>1
  <2> HIDE DEF full
  <2>4. SourceLeft' = SourceLeft
    <3>1. SourceLeft' = (UNION {rest[s] \cup Given(heap'[s]) : s \in Sources}) \cup {filled[first]}
      BY <1>6, <1>9, <2>1 DEF SourceLeft, Given
    <3>2. \A s \in Sources : Given(heap'[s]) = IF s = first THEN {} ELSE Given(filled[s])
      BY <2>2 DEF Given
    <3>3. Given(filled[first]) = {filled[first]}
      BY <2>1 DEF Given
    <3>4. \A q : (\E s \in Sources : q \in rest[s] \cup Given(heap'[s])) \/ q = filled[first]
                 <=> \E s \in Sources : q \in rest[s] \cup Given(filled[s])
      BY <2>1, <3>2, <3>3
    <3>5. \A q : q \in SourceLeft' <=> q \in SourceLeft
      BY <1>7, <3>1, <3>4
    <3> QED BY <3>5
  <2>5. ASSUME Ordered(data), NEW q \in SourceLeft PROVE lastSource'.at <= q.at
    <3>1. PICK s \in Sources : q \in rest[s] \/ q \in Given(filled[s])
      BY <1>7
    <3>2. filled[s] # NoRow
      BY <1>5, <3>1 DEF Given
    <3>3. filled[first].num <= filled[s].num
      BY <2>1, <3>2 DEF full
    <3>4. filled[s].at <= q.at \/ filled[s] = q
      BY <1>5, <2>5, <3>1, <3>2 DEF Given
    <3>5. q \in Merged(data)
      BY <1>2, <1>5, <3>1, <3>2 DEF Given
    <3>6. filled[first] \in Merged(data) /\ filled[s] \in Merged(data)
      BY <1>2, <1>5, <2>1, <2>3, <3>2
    <3>7. /\ filled[first].at \in Int /\ filled[s].at \in Int /\ q.at \in Int
          /\ filled[first].num \in Int /\ filled[s].num \in Int
      BY <1>2, <3>5, <3>6, RowFields
    <3>8. filled[s].num < filled[first].num <=> filled[s].at < filled[first].at
      BY <1>2, <2>5, <3>6, OrderedRows
    <3> QED BY <1>9, <3>3, <3>4, <3>7, <3>8
  <2>6. ASSUME NEW s \in Sources
        PROVE  /\ rest[s] \subseteq data.source[s] /\ Given(heap'[s]) \subseteq data.source[s]
               /\ heap'[s] \notin rest[s] /\ lastSource' \notin rest[s] /\ heap'[s] # lastSource'
               /\ Ordered(data) /\ heap'[s] # NoRow => \A q \in rest[s] : heap'[s].at <= q.at
    <3>1. rest[s] \subseteq data.source[s] /\ NoRow \notin rest[s]
      BY <1>2, <1>3, <1>5
    <3>2. CASE s = first
      BY <1>5, <1>9, <2>1, <2>2, <2>3, <3>1, <3>2 DEF Given
    <3>3. CASE s # first
      <4>1. heap'[s] = filled[s] /\ (filled[s] # NoRow => filled[s] \in data.source[s])
        BY <1>5, <2>2, <3>3
      <4>2. data.source[s] \cap data.source[first] = {}
        BY <1>2, <2>1, <3>3 DEF DataOK
      <4> QED BY <1>5, <1>9, <2>1, <2>3, <3>1, <4>1, <4>2 DEF Given
    <3> QED BY <3>2, <3>3
  <2>7. heap' = [s \in Sources |-> heap'[s]] /\ sourceRows' = [s \in Sources |-> sourceRows'[s]]
    BY <1>4, <1>6, <1>9
  <2>8. Given(lastSource') \subseteq Merged(data) /\ lastSource' # NoRow
    BY <1>2, <1>9, <2>1, <2>3 DEF Given
  <2> QED BY <1>6, <2>4, <2>5, <2>6, <2>7, <2>8
<1> QED BY <1>6, <1>8, <1>9

\* The step with which rows are read.
LEMMA ReadRowsStep ==
    ASSUME RowsInv, ReadRows
    PROVE  RowsInv'
<1>1. /\ rowsPc = "read" /\ rowsPc' = "compare" /\ UNCHANGED <<data, rowsEqual, fixed, targetCut>>
      /\ IF lastSource = NoRow THEN GetSourceRow ELSE UNCHANGED <<sourceRows, heap, lastSource>>
      /\ IF lastTarget = NoRow /\ targetRows # {}
         THEN lastTarget' \in FirstRows(targetRows) /\ targetRows' = targetRows \ {lastTarget'}
         ELSE UNCHANGED <<lastTarget, targetRows>>
  BY DEF ReadRows
<1>2. RowsType /\ HandOK /\ DataOK(data)
  BY DEF RowsInv, RowsType
<1>3. /\ sourceRows' = [s \in Sources |-> sourceRows'[s]] /\ heap' = [s \in Sources |-> heap'[s]]
      /\ \A s \in Sources :
            /\ sourceRows'[s] \subseteq data.source[s] /\ Given(heap'[s]) \subseteq data.source[s]
            /\ heap'[s] \notin sourceRows'[s] /\ lastSource' \notin sourceRows'[s]
            /\ lastSource' # NoRow => heap'[s] # lastSource'
      /\ Given(lastSource') \subseteq Merged(data) /\ SourceLeft' = SourceLeft
      /\ lastSource' = NoRow => SourceLeft = {}
      /\ Ordered(data) =>
            /\ \A s \in Sources : heap'[s] # NoRow => \A q \in sourceRows'[s] : heap'[s].at <= q.at
            /\ lastSource' # NoRow => \A q \in SourceLeft : lastSource'.at <= q.at
  <2>1. CASE lastSource = NoRow
    BY <1>1, <2>1, SourceRead
  <2>2. CASE lastSource # NoRow
    <3>1. UNCHANGED <<sourceRows, heap, lastSource>>
      BY <1>1, <2>2
    <3>2. SourceLeft' = SourceLeft
      BY <3>1 DEF SourceLeft
    <3> QED BY <1>2, <2>2, <3>1, <3>2 DEF RowsType, HandOK, FirstOK, RowsInv
  <2> QED BY <2>1, <2>2
<1>4. /\ targetRows' \subseteq data.target /\ Given(lastTarget') \subseteq data.target /\ TargetLeft' = TargetLeft
      /\ lastTarget' \notin targetRows' /\ (lastTarget' = NoRow => TargetLeft = {})
      /\ Ordered(data) /\ lastTarget' # NoRow => \A q \in TargetLeft : lastTarget'.at <= q.at
  <2>1. CASE lastTarget = NoRow /\ targetRows # {}
    <3>1. lastTarget' \in targetRows /\ \A q \in targetRows : lastTarget'.at <= q.at
      BY <1>1, <2>1 DEF FirstRows
    <3>2. TargetLeft = targetRows /\ targetRows \subseteq data.target
      BY <1>2, <2>1 DEF TargetLeft, Given, RowsType
    <3>3. NoRow \notin data.target
      BY <1>2 DEF DataOK, Numbered
    <3> QED BY <1>1, <2>1, <3>1, <3>2, <3>3 DEF TargetLeft, Given
  <2>2. CASE ~(lastTarget = NoRow /\ targetRows # {})
    <3>1. UNCHANGED <<lastTarget, targetRows>>
      BY <1>1, <2>2
    <3>2. TargetLeft' = TargetLeft
      BY <3>1 DEF TargetLeft
    <3>3. lastTarget' = NoRow => TargetLeft = {}
      BY <2>2, <3>1 DEF TargetLeft, Given
    <3> QED BY <1>2, <3>1, <3>2, <3>3 DEF RowsType, HandOK, FirstOK, RowsInv
  <2> QED BY <2>1, <2>2
<1>5. RowsType'
  BY <1>1, <1>2, <1>3, <1>4 DEF RowsType
<1>6. HandOK' /\ (Ordered(data) => FirstOK')
  BY <1>1, <1>3, <1>4 DEF HandOK, FirstOK
<1>7. Settled' = Settled /\ TargetGone' = TargetGone /\ (Ordered(data)' <=> Ordered(data))
  BY <1>1, <1>3, <1>4 DEF Settled, TargetGone
<1>8. PairedOK'
  BY <1>1, <1>7 DEF RowsInv, PairedOK
<1>9. Ordered(data) => RepairOK'
  BY <1>1, <1>3, <1>4, <1>7 DEF RowsInv, RepairOK
<1>10. Ordered(data) => EqualOK'
  BY <1>1, <1>4, <1>7 DEF RowsInv, EqualOK
<1> QED BY <1>5, <1>6, <1>7, <1>8, <1>9, <1>10 DEF RowsInv

\* A stream breaks off.
LEMMA BreakStep ==
    ASSUME RowsInv, SourceFails \/ TargetCut
    PROVE  RowsInv'
<1>1. /\ UNCHANGED <<data, sourceRows, heap, lastSource, lastTarget, fixed>> /\ rowsPc = "read"
      /\ \/ rowsPc' = "error" /\ rowsEqual' = FALSE /\ UNCHANGED <<targetRows, targetCut>>
         \/ rowsPc' = "read" /\ rowsEqual' = rowsEqual /\ targetRows' = {} /\ targetCut' = TRUE
  BY DEF SourceFails, TargetCut
<1>2. SourceLeft' = SourceLeft /\ Settled' = Settled /\ (Ordered(data)' <=> Ordered(data))
  BY <1>1 DEF SourceLeft, Settled
<1>3. TargetLeft' \subseteq TargetLeft /\ (targetCut' = targetCut => TargetLeft' = TargetLeft \/ targetCut)
      /\ TargetLeft \subseteq data.target /\ (targetCut => targetCut')
  BY <1>1 DEF TargetLeft, RowsInv, RowsType
<1>4. RowsType'
  BY <1>1 DEF RowsInv, RowsType
<1>5. HandOK' /\ (Ordered(data) => FirstOK')
  BY <1>1, <1>2, <1>3 DEF RowsInv, HandOK, FirstOK
<1>6. targetCut' \/ TargetLeft' = TargetLeft
  BY <1>1 DEF TargetLeft
<1>7. Ordered(data) => RepairOK'
  BY <1>1, <1>2, <1>3, <1>6 DEF RowsInv, RepairOK, TargetGone
<1>8. EqualOK'
  BY <1>1 DEF EqualOK
<1>9. PairedOK'
  <2> SUFFICES ASSUME rowsEqual', NEW r \in Merged(data) \cup data.target
               PROVE  targetCut' /\ Copies(Settled, r) <= Copies(TargetGone', r)
    BY <1>1, <1>2 DEF PairedOK
  <2>1. targetCut' = TRUE /\ rowsEqual
    BY <1>1
  <2>2. TargetGone \subseteq TargetGone' /\ IsFiniteSet(TargetGone') /\ IsFiniteSet(Settled)
    BY <1>1, <1>3, SidesFinite, FS_Subset DEF TargetGone, Settled, RowsInv, RowsType
  <2>3. Copies(TargetGone, r) \in Nat /\ Copies(TargetGone', r) \in Nat /\ Copies(TargetGone, r) <= Copies(TargetGone', r)
    <3> SUFFICES ASSUME NEW S, S = TargetGone'
                 PROVE  Copies(TargetGone, r) \in Nat /\ Copies(S, r) \in Nat /\ Copies(TargetGone, r) <= Copies(S, r)
      OBVIOUS
    <3> QED BY <2>2, CopiesGrow
  <2>4. Copies(Settled, r) \in Nat
    BY <2>2, CopiesGrow
  <2>5. Copies(Settled, r) <= Copies(TargetGone, r)
    BY <2>1, <2>3, <2>4 DEF RowsInv, PairedOK
  <2> QED BY <2>1, <2>3, <2>4, <2>5
<1> QED BY <1>2, <1>4, <1>5, <1>7, <1>8, <1>9 DEF RowsInv

\* What the rows at hand tell of the rows that are left.
LEMMA AtHand ==
    ASSUME RowsInv, rowsPc = "compare"
    PROVE  /\ SourceLeft \subseteq Merged(data) /\ TargetLeft \subseteq data.target /\ DataOK(data)
           /\ lastSource # NoRow => lastSource \in SourceLeft
           /\ lastTarget # NoRow => lastTarget \in TargetLeft
           /\ lastSource = NoRow => SourceLeft = {}
           /\ lastTarget = NoRow => TargetLeft = {}
           /\ \A r \in SourceLeft \cup TargetLeft : r.at \in Int /\ r.num \in Int
           /\ Ordered(data) =>
                 /\ lastSource # NoRow => \A q \in SourceLeft : lastSource.at <= q.at
                 /\ lastTarget # NoRow => \A q \in TargetLeft : lastTarget.at <= q.at
<1>1. SourceLeft \subseteq Merged(data)
  BY DEF RowsInv, RowsType, SourceLeft, Merged
<1>2. TargetLeft \subseteq data.target /\ DataOK(data)
  BY DEF RowsInv, RowsType, TargetLeft
<1>3. lastSource # NoRow => lastSource \in SourceLeft
  BY DEF SourceLeft, Given
<1>4. lastTarget # NoRow => lastTarget \in TargetLeft
  BY DEF TargetLeft, Given
<1>5. \A r \in SourceLeft \cup TargetLeft : r.at \in Int /\ r.num \in Int
  BY <1>1, <1>2, RowFields
<1> QED BY <1>1, <1>2, <1>3, <1>4, <1>5 DEF RowsInv, HandOK, FirstOK

\* What is left when the rows at hand are done with.
LEMMA HandGone ==
    ASSUME RowsInv, rowsPc = "compare", UNCHANGED <<data, sourceRows, targetRows, heap, targetCut>>,
           lastSource' \in {lastSource, NoRow}, lastTarget' \in {lastTarget, NoRow},
           rowsPc' = "read", rowsEqual' \in BOOLEAN
    PROVE  /\ RowsType' /\ HandOK' /\ (Ordered(data) => FirstOK')
           /\ (lastSource' = lastSource => SourceLeft' = SourceLeft)
           /\ (lastSource' = NoRow => SourceLeft' = SourceLeft \ Given(lastSource))
           /\ (lastTarget' = lastTarget => TargetLeft' = TargetLeft)
           /\ (lastTarget' = NoRow => TargetLeft' = TargetLeft \ Given(lastTarget))
           /\ (Ordered(data)' <=> Ordered(data))
<1>1. RowsType /\ HandOK
  BY DEF RowsInv
<1>2. lastSource' = lastSource => SourceLeft' = SourceLeft
  BY DEF SourceLeft
<1>3. lastTarget' = lastTarget => TargetLeft' = TargetLeft
  BY DEF TargetLeft
<1>4. lastTarget' = NoRow => TargetLeft' = TargetLeft \ Given(lastTarget)
  BY <1>1 DEF TargetLeft, Given, HandOK
<1>5. lastSource' = NoRow => SourceLeft' = SourceLeft \ Given(lastSource)
  <2> SUFFICES ASSUME lastSource' = NoRow PROVE SourceLeft' = SourceLeft \ Given(lastSource)
    OBVIOUS
  <2> DEFINE old == UNION {sourceRows[s] \cup Given(heap[s]) : s \in Sources}
  <2>1. SourceLeft' = old /\ SourceLeft = old \cup Given(lastSource)
    BY DEF SourceLeft, Given
  <2>2. Given(lastSource) \cap old = {}
    <3>1. \A s \in Sources : lastSource \notin sourceRows[s] /\ (lastSource # NoRow => heap[s] # lastSource)
      BY <1>1 DEF HandOK
    <3> QED BY <3>1 DEF Given
  <2> QED BY <2>1, <2>2
<1>6. SourceLeft' \subseteq SourceLeft /\ TargetLeft' \subseteq TargetLeft
  BY <1>2, <1>3, <1>4, <1>5
<1>7. RowsType'
  BY <1>1 DEF RowsType, Given
<1>8. HandOK'
  <2>1. NoRow \notin targetRows /\ \A s \in Sources : NoRow \notin sourceRows[s]
    BY <1>1 DEF RowsType, DataOK, Numbered, Merged
  <2> QED BY <1>1, <1>6, <2>1 DEF HandOK
<1>9. Ordered(data) => FirstOK'
  BY <1>6 DEF RowsInv, FirstOK
<1> QED BY <1>2, <1>3, <1>4, <1>5, <1>7, <1>8, <1>9

\* While no difference is found, the rows of both sides go in pairs.
LEMMA PairStep ==
    ASSUME RowsInv, CompareRow
    PROVE  PairedOK'
<1>1. rowsPc = "compare" /\ UNCHANGED <<data, sourceRows, targetRows, heap, targetCut>>
  BY DEF CompareRow
<1>2. CASE lastSource = NoRow /\ lastTarget = NoRow
  <2>1. UNCHANGED <<lastSource, lastTarget, rowsEqual>>
    BY <1>2 DEF CompareRow
  <2>2. Settled' = Settled /\ TargetGone' = TargetGone
    BY <1>1, <2>1 DEF Settled, TargetGone, SourceLeft, TargetLeft
  <2> QED BY <1>1, <2>1, <2>2 DEF RowsInv, PairedOK
<1>3. CASE rowsEqual' = FALSE
  BY <1>3 DEF PairedOK
<1>4. CASE NoRow \notin {lastSource, lastTarget} /\ Same(lastSource, lastTarget)
  <2> SUFFICES ASSUME NEW a, a = lastSource, NEW b, b = lastTarget PROVE PairedOK'
    OBVIOUS
  <2>1. a \in SourceLeft /\ b \in TargetLeft /\ SourceLeft \subseteq Merged(data) /\ TargetLeft \subseteq data.target
        /\ DataOK(data) /\ a.num = b.num /\ a.num \in Int /\ b.num \in Int
    BY <1>1, <1>4, AtHand DEF Same
  <2>2. Order = "update"
    BY <1>4, <2>1 DEF Order
  <2>3. rowsEqual' = rowsEqual /\ lastSource' = NoRow /\ lastTarget' = NoRow /\ rowsPc' = "read"
    BY <1>4, <2>2 DEF CompareRow
  <2>4. SourceLeft' = SourceLeft \ {a} /\ TargetLeft' = TargetLeft \ {b}
    <3>1. rowsEqual' \in BOOLEAN
      BY <2>3 DEF RowsInv, RowsType
    <3> QED BY <1>1, <1>4, <2>3, <3>1, HandGone DEF Given
  <2>5. Settled' = Settled \cup {a} /\ a \notin Settled /\ TargetGone' = TargetGone \cup {b} /\ b \notin TargetGone
    BY <1>1, <2>1, <2>4 DEF Settled, TargetGone
  <2>6. IsFiniteSet(Settled) /\ IsFiniteSet(TargetGone)
    BY <2>1, SidesFinite, FS_Subset DEF Settled, TargetGone
  <2> SUFFICES ASSUME rowsEqual, NEW r \in Merged(data) \cup data.target
               PROVE  IF targetCut THEN Copies(Settled \cup {a}, r) <= Copies(TargetGone \cup {b}, r)
                      ELSE Copies(Settled \cup {a}, r) = Copies(TargetGone \cup {b}, r)
    BY <1>1, <2>3, <2>5 DEF PairedOK
  <2>7. IF targetCut THEN Copies(Settled, r) <= Copies(TargetGone, r) ELSE Copies(Settled, r) = Copies(TargetGone, r)
    BY DEF RowsInv, PairedOK
  <2>8. Same(a, r) <=> Same(b, r)
    BY <1>4 DEF Same
  <2>9. /\ Copies(Settled, r) \in Nat /\ Copies(TargetGone, r) \in Nat
        /\ Copies(Settled \cup {a}, r) = Copies(Settled, r) + (IF Same(a, r) THEN 1 ELSE 0)
        /\ Copies(TargetGone \cup {b}, r) = Copies(TargetGone, r) + (IF Same(b, r) THEN 1 ELSE 0)
    BY <2>5, <2>6, CopiesAdd
  <2>10. CASE Same(a, r)
    BY <2>7, <2>8, <2>9, <2>10
  <2>11. CASE ~Same(a, r)
    BY <2>7, <2>8, <2>9, <2>11
  <2> QED BY <2>10, <2>11
<1> QED BY <1>2, <1>3, <1>4 DEF CompareRow

\* A row of the sources that the target lacks.
LEMMA InsertStep ==
    ASSUME RowsInv, CompareRow, Order = "insert", lastSource # NoRow
    PROVE  RowsInv'
<1> SUFFICES ASSUME NEW a, a = lastSource PROVE RowsInv'
  OBVIOUS
<1>1. /\ rowsPc = "compare" /\ rowsPc' = "read" /\ UNCHANGED <<data, sourceRows, targetRows, heap, targetCut>>
      /\ lastSource' = NoRow /\ lastTarget' = lastTarget
  BY DEF CompareRow
<1>2. /\ SourceLeft \subseteq Merged(data) /\ TargetLeft \subseteq data.target /\ DataOK(data)
      /\ a \in SourceLeft
      /\ lastTarget # NoRow => lastTarget \in TargetLeft
      /\ lastTarget = NoRow => TargetLeft = {}
      /\ \A r \in SourceLeft \cup TargetLeft : r.at \in Int /\ r.num \in Int
      /\ Ordered(data) /\ lastTarget # NoRow => \A q \in TargetLeft : lastTarget.at <= q.at
  BY <1>1, AtHand
<1>3. lastTarget = NoRow \/ a.num < lastTarget.num
  BY <1>2 DEF Order
<1>4. rowsEqual' = FALSE /\ fixed' = Replaced(fixed, a)
  <2>1. ~(NoRow \notin {lastSource, lastTarget} /\ Same(lastSource, lastTarget))
    BY <1>2, <1>3 DEF Same
  <2> QED BY <2>1 DEF CompareRow
<1>5. /\ RowsType' /\ HandOK' /\ (Ordered(data) => FirstOK') /\ (Ordered(data)' <=> Ordered(data))
      /\ SourceLeft' = SourceLeft \ {a} /\ TargetLeft' = TargetLeft
  BY <1>1, <1>4, HandGone DEF Given
<1>6. PairedOK'
  BY PairStep
<1>7. ASSUME Ordered(data) PROVE RepairOK' /\ EqualOK'
  <2>1. a \in Merged(data) /\ a.at \in Int /\ \A t \in TargetLeft : a.at < t.at
    <3>1. CASE lastTarget = NoRow
      BY <1>2, <3>1
    <3>2. CASE lastTarget # NoRow
      <4>1. a.at < lastTarget.at
        BY <1>2, <1>3, <1>7, <3>2, OrderedRows
      <4> QED BY <1>2, <1>7, <3>2, <4>1
    <3> QED BY <3>1, <3>2
  <2>2. fixed' = {r \in fixed : r.at # a.at} \cup {a}
    BY <1>2, <1>4, <1>7, <2>1, ReplacedIs
  <2>3. Settled' = Settled \cup {a} /\ TargetGone' = TargetGone
    BY <1>1, <1>5, <2>1 DEF Settled, TargetGone
  <2>4. /\ Settled \subseteq fixed /\ TargetLeft \subseteq fixed /\ data.target \cap SourceLeft \subseteq fixed
        /\ \A q \in fixed : q \in Settled \/ q \in TargetLeft \/ (targetCut /\ q \in data.target)
        /\ \A t \in TargetLeft, r \in Settled : t.at # r.at
        /\ ~targetCut => \A r \in SourceLeft, t \in TargetGone : r.at # t.at
    BY <1>7 DEF RowsInv, RepairOK
  <2>5. \A r \in Merged(data) : r # a => r.at # a.at
    BY <1>2, <1>7, <2>1, OrderedRows
  <2>6. RepairOK'
    <3>1. Settled' \subseteq fixed'
      BY <2>2, <2>3, <2>4, <2>5 DEF Settled
    <3>2. TargetLeft' \subseteq fixed'
      BY <1>2, <1>5, <2>1, <2>2, <2>4
    <3>3. data.target \cap SourceLeft' \subseteq fixed'
      BY <1>2, <1>5, <2>2, <2>4, <2>5
    <3>4. \A q \in fixed' : q \in Settled' \/ q \in TargetLeft' \/ (targetCut /\ q \in data.target)
      BY <1>5, <2>2, <2>3, <2>4
    <3>5. \A t \in TargetLeft', r \in Settled' : t.at # r.at
      <4>1. \A t \in TargetLeft : t.at \in Int
        BY <1>2
      <4> QED BY <1>5, <2>1, <2>3, <2>4, <4>1
    <3> QED BY <1>1, <1>5, <2>3, <2>4, <3>1, <3>2, <3>3, <3>4, <3>5 DEF RepairOK
  <2>7. EqualOK'
    <3>1. ~targetCut => a \notin data.target
      BY <1>2, <2>1, <2>4 DEF TargetGone
    <3> QED BY <1>1, <1>4, <2>1, <3>1 DEF EqualOK
  <2> QED BY <2>6, <2>7
<1> QED BY <1>5, <1>6, <1>7 DEF RowsInv

\* A row of the target that no source has.
LEMMA DeleteStep ==
    ASSUME RowsInv, CompareRow, Order = "delete"
    PROVE  RowsInv'
<1> SUFFICES ASSUME NEW b, b = lastTarget PROVE RowsInv'
  OBVIOUS
<1>1. lastTarget # NoRow /\ rowsPc = "compare"
  BY DEF Order, CompareRow
<1>2. /\ SourceLeft \subseteq Merged(data) /\ TargetLeft \subseteq data.target /\ DataOK(data)
      /\ b \in TargetLeft
      /\ lastSource # NoRow => lastSource \in SourceLeft
      /\ lastSource = NoRow => SourceLeft = {}
      /\ \A r \in SourceLeft \cup TargetLeft : r.at \in Int /\ r.num \in Int
      /\ Ordered(data) /\ lastSource # NoRow => \A q \in SourceLeft : lastSource.at <= q.at
  BY <1>1, AtHand
<1>3. lastSource = NoRow \/ lastSource.num > b.num
  BY <1>1, <1>2 DEF Order
<1>4. /\ rowsPc' = "read" /\ UNCHANGED <<data, sourceRows, targetRows, heap, targetCut>>
      /\ lastSource' = lastSource /\ lastTarget' = NoRow
      /\ rowsEqual' = FALSE /\ fixed' = Deleted(fixed, b)
  <2>1. ~(NoRow \notin {lastSource, lastTarget} /\ Same(lastSource, lastTarget))
    BY <1>1, <1>2, <1>3 DEF Same
  <2> QED BY <1>1, <2>1 DEF CompareRow
<1>5. /\ RowsType' /\ HandOK' /\ (Ordered(data) => FirstOK') /\ (Ordered(data)' <=> Ordered(data))
      /\ SourceLeft' = SourceLeft /\ TargetLeft' = TargetLeft \ {b}
  BY <1>1, <1>4, HandGone DEF Given
<1>6. PairedOK'
  BY PairStep
<1>7. ASSUME Ordered(data) PROVE RepairOK' /\ EqualOK'
  <2>1. b \in data.target /\ b.at \in Int /\ \A r \in SourceLeft : b.at < r.at
    <3>1. CASE lastSource = NoRow
      BY <1>2, <3>1
    <3>2. CASE lastSource # NoRow
      <4>1. b.at < lastSource.at
        <5>1. b.num < lastSource.num
          BY <1>2, <1>3, <3>2
        <5> QED BY <1>2, <1>7, <3>2, <5>1, OrderedRows
      <4> QED BY <1>2, <1>7, <3>2, <4>1
    <3> QED BY <3>1, <3>2
  <2>2. Settled' = Settled /\ TargetGone' = TargetGone \cup {b}
    BY <1>4, <1>5, <2>1 DEF Settled, TargetGone
  <2>3. /\ Settled \subseteq fixed /\ TargetLeft \subseteq fixed /\ data.target \cap SourceLeft \subseteq fixed
        /\ \A q \in fixed : q \in Settled \/ q \in TargetLeft \/ (targetCut /\ q \in data.target)
        /\ \A t \in TargetLeft, r \in Settled : t.at # r.at
        /\ ~targetCut => \A r \in SourceLeft, t \in TargetGone : r.at # t.at
    BY <1>7 DEF RowsInv, RepairOK
  <2>4. b \notin Settled /\ b \notin SourceLeft
    BY <1>2, <2>1, <2>3
  <2>5. fixed' = fixed \ {b}
    <3>1. ASSUME NEW q \in fixed, q.at = b.at PROVE q = b
      <4>1. q \notin Settled
        BY <1>2, <2>3, <3>1
      <4>2. q \in data.target
        BY <1>2, <2>3, <4>1
      <4> QED BY <1>2, <1>7, <2>1, <3>1, <4>2, OrderedRows
    <3> QED BY <1>4, <3>1 DEF Deleted
  <2>6. RepairOK'
    <3>1. ~targetCut => \A r \in SourceLeft', t \in TargetGone' : r.at # t.at
      <4>1. \A r \in SourceLeft : r.at \in Int
        BY <1>2
      <4> QED BY <1>5, <2>1, <2>2, <2>3, <4>1
    <3>2. Settled' \subseteq fixed' /\ TargetLeft' \subseteq fixed' /\ data.target' \cap SourceLeft' \subseteq fixed'
      BY <1>4, <1>5, <2>2, <2>3, <2>4, <2>5
    <3>3. \A q \in fixed' : q \in Settled' \/ q \in TargetLeft' \/ (targetCut' /\ q \in data.target')
      BY <1>4, <1>5, <2>2, <2>3, <2>5
    <3>4. \A t \in TargetLeft', r \in Settled' : t.at # r.at
      BY <1>5, <2>2, <2>3
    <3> QED BY <1>4, <3>1, <3>2, <3>3, <3>4 DEF RepairOK
  <2>7. EqualOK'
    <3>1. b \notin Merged(data)
      BY <2>4 DEF Settled
    <3> QED BY <1>4, <2>1, <3>1 DEF EqualOK
  <2> QED BY <2>6, <2>7
<1> QED BY <1>5, <1>6, <1>7 DEF RowsInv

\* Rows that the code takes for those of one key.
LEMMA UpdateStep ==
    ASSUME RowsInv, CompareRow, Order = "update"
    PROVE  RowsInv'
<1> SUFFICES ASSUME NEW a, a = lastSource, NEW b, b = lastTarget PROVE RowsInv'
  OBVIOUS
<1>1. lastTarget # NoRow /\ lastSource # NoRow /\ rowsPc = "compare"
  BY DEF Order, CompareRow
<1>2. /\ SourceLeft \subseteq Merged(data) /\ TargetLeft \subseteq data.target /\ DataOK(data)
      /\ a \in SourceLeft /\ b \in TargetLeft
      /\ \A r \in SourceLeft \cup TargetLeft : r.at \in Int /\ r.num \in Int
  BY <1>1, AtHand
<1>3. a.num = b.num
  BY <1>1, <1>2 DEF Order
<1>4. /\ rowsPc' = "read" /\ UNCHANGED <<data, sourceRows, targetRows, heap, targetCut>>
      /\ lastSource' = NoRow /\ lastTarget' = NoRow
      /\ IF Same(a, b) THEN UNCHANGED <<rowsEqual, fixed>>
         ELSE rowsEqual' = FALSE /\ fixed' = Replaced(fixed, a)
  BY <1>1 DEF CompareRow
<1>5. rowsEqual' \in BOOLEAN
  BY <1>4 DEF RowsInv, RowsType
<1>6. /\ RowsType' /\ HandOK' /\ (Ordered(data) => FirstOK') /\ (Ordered(data)' <=> Ordered(data))
      /\ SourceLeft' = SourceLeft \ {a} /\ TargetLeft' = TargetLeft \ {b}
  BY <1>1, <1>4, <1>5, HandGone DEF Given
<1>7. PairedOK'
  BY PairStep
<1>8. ASSUME Ordered(data) PROVE RepairOK' /\ EqualOK'
  <2>1. a \in Merged(data) /\ b \in data.target /\ a.at = b.at /\ (Same(a, b) <=> a = b)
    BY <1>2, <1>3, <1>8, OrderedRows DEF Same
  <2>2. /\ \A r \in Merged(data) : r # a => r.at # a.at
        /\ \A t \in data.target : t # b => t.at # a.at
    BY <1>2, <1>8, <2>1, OrderedRows
  <2>3. Settled' = Settled \cup {a} /\ TargetGone' = TargetGone \cup {b}
    BY <1>4, <1>6, <2>1 DEF Settled, TargetGone
  <2>4. /\ Settled \subseteq fixed /\ TargetLeft \subseteq fixed /\ data.target \cap SourceLeft \subseteq fixed
        /\ \A q \in fixed : q \in Settled \/ q \in TargetLeft \/ (targetCut /\ q \in data.target)
        /\ \A t \in TargetLeft, r \in Settled : t.at # r.at
        /\ ~targetCut => \A r \in SourceLeft, t \in TargetGone : r.at # t.at
    BY <1>8 DEF RowsInv, RepairOK
  <2>5. RepairOK'
    <3>1. \A t \in TargetLeft', r \in Settled' : t.at # r.at
      BY <1>2, <1>6, <2>2, <2>3, <2>4
    <3>2. ~targetCut => \A r \in SourceLeft', t \in TargetGone' : r.at # t.at
      BY <1>2, <1>6, <2>1, <2>2, <2>3, <2>4
    <3>3. CASE a = b
      <4>1. UNCHANGED fixed
        BY <1>4, <2>1, <3>3
      <4>2. Settled' \subseteq fixed' /\ TargetLeft' \subseteq fixed' /\ data.target' \cap SourceLeft' \subseteq fixed'
        BY <1>2, <1>4, <1>6, <2>3, <2>4, <3>3, <4>1
      <4>3. \A q \in fixed' : q \in Settled' \/ q \in TargetLeft' \/ (targetCut' /\ q \in data.target')
        BY <1>4, <1>6, <2>3, <2>4, <3>3, <4>1
      <4> QED BY <1>4, <3>1, <3>2, <4>2, <4>3 DEF RepairOK
    <3>4. CASE a # b
      <4>1. fixed' = {r \in fixed : r.at # a.at} \cup {a}
        BY <1>2, <1>4, <1>8, <2>1, <3>4, ReplacedIs
      <4>2. Settled' \subseteq fixed'
        BY <2>2, <2>3, <2>4, <4>1 DEF Settled
      <4>3. TargetLeft' \subseteq fixed' /\ data.target \cap SourceLeft' \subseteq fixed'
        BY <1>2, <1>6, <2>2, <2>4, <4>1
      <4>4. \A q \in fixed' : q \in Settled' \/ q \in TargetLeft' \/ (targetCut /\ q \in data.target)
        <5> SUFFICES ASSUME NEW q \in fixed' PROVE q \in Settled' \/ q \in TargetLeft' \/ (targetCut /\ q \in data.target)
          OBVIOUS
        <5>1. CASE q = a
          BY <2>3, <5>1
        <5>2. CASE q \in fixed /\ q.at # a.at
          <6>1. q # b
            BY <2>1, <5>2
          <6> QED BY <1>6, <2>3, <2>4, <5>2, <6>1
        <5> QED BY <4>1, <5>1, <5>2
      <4> QED BY <1>4, <3>1, <3>2, <4>2, <4>3, <4>4 DEF RepairOK
    <3> QED BY <3>3, <3>4
  <2>6. EqualOK'
    <3>1. CASE a = b
      BY <1>4, <1>8, <2>1, <2>3, <3>1, <1>1 DEF RowsInv, EqualOK
    <3>2. CASE a # b
      <4>1. a \notin data.target
        BY <2>2, <3>2
      <4> QED BY <1>4, <2>1, <3>2, <4>1 DEF EqualOK
    <3> QED BY <3>1, <3>2
  <2> QED BY <2>5, <2>6
<1> QED BY <1>6, <1>7, <1>8 DEF RowsInv

\* The comparison ends when both sides have.
LEMMA EndStep ==
    ASSUME RowsInv, CompareRow, lastSource = NoRow, lastTarget = NoRow
    PROVE  RowsInv'
<1>1. /\ rowsPc = "compare" /\ rowsPc' = "done"
      /\ UNCHANGED <<data, sourceRows, targetRows, heap, targetCut, lastSource, lastTarget, rowsEqual, fixed>>
  BY DEF CompareRow
<1>2. /\ SourceLeft' = SourceLeft /\ TargetLeft' = TargetLeft /\ Settled' = Settled /\ TargetGone' = TargetGone
      /\ (Ordered(data)' <=> Ordered(data))
  BY <1>1 DEF SourceLeft, TargetLeft, Settled, TargetGone
<1>3. SourceLeft = {} /\ TargetLeft = {}
  BY <1>1, AtHand
<1>4. RowsType'
  BY <1>1 DEF RowsInv, RowsType
<1>5. HandOK' /\ PairedOK'
  BY <1>1, <1>2, <1>3, PairStep DEF RowsInv, HandOK
<1>6. Ordered(data) => FirstOK' /\ RepairOK'
  BY <1>1, <1>2 DEF RowsInv, FirstOK, RepairOK
<1>7. Ordered(data) => EqualOK'
  BY <1>1, <1>2 DEF RowsInv, EqualOK
<1> QED BY <1>2, <1>4, <1>5, <1>6, <1>7 DEF RowsInv

\* The invariant is inductive.
LEMMA RowsStep ==
    ASSUME RowsInv, RowsNext \/ UNCHANGED rowVars
    PROVE  RowsInv'
<1>1. CASE ReadRows \/ SourceFails \/ TargetCut
  BY <1>1, ReadRowsStep, BreakStep
<1>2. CASE CompareRow
  <2>1. CASE lastSource = NoRow /\ lastTarget = NoRow
    BY <1>2, <2>1, EndStep
  <2>2. CASE lastSource # NoRow \/ lastTarget # NoRow
    <3>1. lastSource # NoRow /\ lastTarget # NoRow => lastSource.num \in Int /\ lastTarget.num \in Int
      <4>1. rowsPc = "compare"
        BY <1>2 DEF CompareRow
      <4> QED BY <4>1, AtHand
    <3>2. Order = "delete" \/ Order = "update" \/ (Order = "insert" /\ lastSource # NoRow)
      BY <2>2, <3>1 DEF Order
    <3> QED BY <1>2, <3>2, InsertStep, DeleteStep, UpdateStep
  <2> QED BY <2>1, <2>2
<1>3. CASE UNCHANGED rowVars
  <2>1. UNCHANGED <<data, sourceRows, targetRows, heap, lastSource, lastTarget, rowsPc, rowsEqual, fixed, targetCut>>
    BY <1>3 DEF rowVars
  <2>2. /\ SourceLeft' = SourceLeft /\ TargetLeft' = TargetLeft /\ Settled' = Settled /\ TargetGone' = TargetGone
        /\ (Ordered(data)' <=> Ordered(data))
    BY <2>1 DEF SourceLeft, TargetLeft, Settled, TargetGone
  <2>3. RowsType'
    BY <2>1 DEF RowsInv, RowsType
  <2>4. HandOK' /\ PairedOK'
    BY <2>1, <2>2 DEF RowsInv, HandOK, PairedOK
  <2>5. Ordered(data) => FirstOK' /\ RepairOK' /\ EqualOK'
    BY <2>1, <2>2 DEF RowsInv, FirstOK, RepairOK, EqualOK
  <2> QED BY <2>2, <2>3, <2>4, <2>5 DEF RowsInv
<1> QED BY <1>1, <1>2, <1>3 DEF RowsNext

\* What the invariant says of the repaired target.
LEMMA RowsRepaired ==
    ASSUME RowsInv
    PROVE  OldFixRepairs
<1> DEFINE merged == Merged(data)
<1>1. ASSUME rowsPc = "done"
      PROVE  SourceLeft = {} /\ TargetLeft = {} /\ Settled = merged /\ TargetGone = data.target
  BY <1>1 DEF RowsInv, HandOK, Settled, TargetGone
<1>2. ASSUME rowsPc = "done", rowsEqual, NEW r \in merged \cup data.target
      PROVE  IF targetCut THEN Copies(merged, r) <= Copies(data.target, r)
             ELSE Copies(merged, r) = Copies(data.target, r)
  BY <1>1, <1>2 DEF RowsInv, PairedOK
<1>3. ASSUME Ordered(data)
      PROVE  /\ data.target \cap merged \subseteq fixed
             /\ rowsPc = "done" /\ ~targetCut => fixed = merged /\ (rowsEqual <=> data.target = merged)
             /\ rowsPc = "done" /\ targetCut => merged \subseteq fixed
  <2>1. RepairOK /\ EqualOK
    BY <1>3 DEF RowsInv
  <2>2. data.target \cap merged \subseteq fixed
    BY <2>1 DEF RepairOK, Settled
  <2>3. rowsPc = "done" => merged \subseteq fixed
    BY <1>1, <2>1 DEF RepairOK
  <2>4. ASSUME rowsPc = "done", ~targetCut PROVE fixed = merged /\ (rowsEqual <=> data.target = merged)
    <3>1. fixed = merged
      BY <1>1, <2>1, <2>4 DEF RepairOK
    <3>2. rowsEqual <=> data.target = merged
      BY <1>1, <2>1, <2>4 DEF EqualOK
    <3> QED BY <3>1, <3>2
  <2> QED BY <2>2, <2>3, <2>4
<1> QED BY <1>2, <1>3 DEF OldFixRepairs

\* A comparison of rows says equal only of sides with the same rows, each as
\* often, whatever their keys are, unless the target's stream broke off; and
\* when the keys are unique and the code orders them as the queries do, it says
\* so just when the sides are equal, and its statements repair the target.
THEOREM OldFixIsRepair == CheckSpec => []OldFixRepairs
<1>1. CheckInit => RowsInv
  <2>1. \A d \in OldData : DataOK(d)
    BY OldRowsAssumption DEF DataOK
  <2>2. DataOK(EmptyData)
    <3>1. Merged(EmptyData) = {} /\ EmptyData.target = {} /\ \A s \in Sources : EmptyData.source[s] = {}
      BY DEF Merged, EmptyData
    <3> QED BY <3>1, FS_EmptySet DEF DataOK, Numbered
  <2>3. \A d \in {EmptyData} : DataOK(d)
    BY <2>2
  <2> QED BY <2>1, <2>3, RowsInitially DEF CheckInit
<1>2. RowsInv /\ [CheckNext]_checkVars => RowsInv'
  <2> SUFFICES ASSUME RowsInv, [CheckNext]_checkVars PROVE RowsInv'
    OBVIOUS
  <2>1. RowsNext \/ UNCHANGED rowVars
    BY DEF CheckNext, OfCheck, checkVars
  <2> QED BY <2>1, RowsStep
<1>3. RowsInv => OldFixRepairs
  BY RowsRepaired
<1> QED BY <1>1, <1>2, <1>3, PTL DEF CheckSpec

-----------------------------------------------------------------------------
(* The split of a table: chunks between marks.                             *)

IndexKeys == [Cols -> Int]

\* Where a chunk begins or ends; <<>> is the begin or the end of the table.
Marks == IndexKeys \cup {<<>>}

\* The chunk behind one mark up to another, and the rows it is for.
BoundAt(mark, c) == IF mark = <<>> THEN <<>> ELSE <<mark[c]>>
ChunkOf(lo, up) ==
    IF lo = <<>> /\ up = <<>> THEN <<>>
    ELSE [c \in Cols |-> [lower |-> BoundAt(lo, c), upper |-> BoundAt(up, c)]]
Within(row, lo, up) == (lo = <<>> \/ KeyLess(lo, row)) /\ (up = <<>> \/ ~KeyLess(up, row))
ChunkSet == {ChunkOf(lo, up) : lo \in Marks, up \in Marks}

\* The marks that k values of each column give.
MarkAt(lo, up, k, lists, j) ==
    IF j = 0 THEN lo ELSE IF j = k + 1 THEN up ELSE [c \in Cols |-> lists[c][j]]

\* Chunks that follow each other from one mark to another.
CutAt(pieces, lo, up, m, mark) ==
    /\ mark \in [0 .. m + 1 -> Marks] /\ mark[0] = lo /\ mark[m + 1] = up
    /\ \A j \in 1 .. m : mark[j] \in IndexKeys /\ (NCols = 1 => Within(mark[j], lo, up))
    /\ \A i, j \in 1 .. m : i < j => ~KeyLess(mark[j], mark[i])
    /\ pieces = [i \in 1 .. m + 1 |-> ChunkOf(mark[i - 1], mark[i])]
Cut(pieces, lo, up) == \E m \in Nat : \E mark \in [0 .. m + 1 -> Marks] : CutAt(pieces, lo, up, m, mark)

Covers(chunks, row) == \E i \in DOMAIN chunks : Where(chunks[i], row)
Once(chunks, row) == \A i, j \in DOMAIN chunks : Where(chunks[i], row) /\ Where(chunks[j], row) => i = j

TableOK(t) ==
    /\ IsFiniteSet(t.rows) /\ t.rows \subseteq [Cols -> Int \cup {Null}]
    /\ t.buckets \in Seq([count : Nat, upper : IndexKeys])
    /\ \A a, b \in DOMAIN t.buckets : a < b => ~KeyLess(t.buckets[b].upper, t.buckets[a].upper)
Turns == Len(oldTable.buckets)

SplitType ==
    /\ TableOK(oldTable)
    /\ splitAt \in 0 .. Turns + 1 /\ latestCount \in Nat /\ lowerValues \in Marks

\* The chunks there are take every row up to the last one's end, and, when the
\* index has one column, only these and each once.
Reached(row) == lowerValues # <<>> /\ ~KeyLess(lowerValues, row)
UpToMark ==
    splitAt <= Turns =>
        /\ lowerValues = <<>> => oldChunks = <<>>
        /\ \A r \in IndexKeys : Reached(r) => Covers(oldChunks, r)
        /\ NCols = 1 =>
              /\ \A r \in IndexKeys : (Covers(oldChunks, r) => Reached(r)) /\ Once(oldChunks, r)
              /\ lowerValues # <<>> =>
                    \A b \in splitAt + 1 .. Turns : ~KeyLess(oldTable.buckets[b].upper, lowerValues)
AllTaken ==
    splitAt = Turns + 1 =>
        \A r \in IndexKeys :
            Covers(oldChunks, r) /\ (oldTable.buckets = <<>> \/ NCols = 1 => Once(oldChunks, r))

NoNull == oldTable.rows \subseteq IndexKeys
SplitInv == SplitType /\ (NoNull => oldChunks \in Seq(ChunkSet) /\ UpToMark /\ AllTaken)

\* Two index keys that differ have a first column in which they do.
LEMMA FirstUnequal ==
    ASSUME NEW k \in IndexKeys, NEW l \in IndexKeys, k # l
    PROVE  \E i \in Cols : k[i] # l[i] /\ \A j \in 1 .. i - 1 : k[j] = l[j]
<1>1. Cols \subseteq Nat /\ \A i \in Cols : \A j \in 1 .. i - 1 : j \in Cols /\ j < i
  BY OldChunksAssumption DEF Cols
<1>2. {i \in Cols : k[i] # l[i]} # {}
  BY DEF IndexKeys
<1>3. PICK i \in {n \in Cols : k[n] # l[n]} :
        \A j \in {n \in Cols : k[n] # l[n]} : <<j, i>> \notin OpToRel(<, Nat)
  <2>1. {n \in Cols : k[n] # l[n]} \subseteq Nat
    BY <1>1
  <2> QED BY <1>2, <2>1, WFMin, NatLessThanWellFounded
<1>4. \A j \in Cols : j < i => k[j] = l[j]
  BY <1>1, <1>3 DEF OpToRel
<1> QED BY <1>1, <1>3, <1>4

\* The order of an index is one.
LEMMA IndexOrder ==
    ASSUME NEW k \in IndexKeys, NEW l \in IndexKeys
    PROVE  /\ ~KeyLess(k, k)
           /\ k = l \/ KeyLess(k, l) \/ KeyLess(l, k)
           /\ \A m \in IndexKeys : KeyLess(k, l) /\ KeyLess(l, m) => KeyLess(k, m)
<1>1. ~KeyLess(k, k)
  BY DEF KeyLess, IndexKeys
<1>2. ASSUME k # l PROVE KeyLess(k, l) \/ KeyLess(l, k)
  <2>1. PICK i \in Cols : k[i] # l[i] /\ \A j \in 1 .. i - 1 : k[j] = l[j]
    BY <1>2, FirstUnequal
  <2>2. k[i] < l[i] \/ l[i] < k[i]
    BY <2>1 DEF IndexKeys
  <2> QED BY <2>1, <2>2 DEF KeyLess
<1>3. ASSUME NEW m \in IndexKeys, KeyLess(k, l), KeyLess(l, m) PROVE KeyLess(k, m)
  <2>1. PICK i \in Cols : k[i] < l[i] /\ \A j \in 1 .. i - 1 : k[j] = l[j]
    BY <1>3 DEF KeyLess
  <2>2. PICK n \in Cols : l[n] < m[n] /\ \A j \in 1 .. n - 1 : l[j] = m[j]
    BY <1>3 DEF KeyLess
  <2>3. \A j \in Cols : j \in Nat /\ k[j] \in Int /\ l[j] \in Int /\ m[j] \in Int
    BY OldChunksAssumption DEF IndexKeys, Cols
  <2> DEFINE least == IF i <= n THEN i ELSE n
  <2>4. least \in Cols /\ k[least] < m[least]
    <3>1. CASE i < n
      <4>1. l[i] = m[i]
        BY <2>2, <2>3, <3>1, OldChunksAssumption DEF Cols
      <4> QED BY <2>1, <2>3, <3>1, <4>1
    <3>2. CASE i = n
      BY <2>1, <2>2, <2>3, <3>2
    <3>3. CASE n < i
      <4>1. k[n] = l[n]
        BY <2>1, <2>3, <3>3, OldChunksAssumption DEF Cols
      <4> QED BY <2>2, <2>3, <3>3, <4>1
    <3> QED BY <2>3, <3>1, <3>2, <3>3
  <2>5. \A j \in 1 .. least - 1 : k[j] = m[j]
    BY <2>1, <2>2, <2>3
  <2> HIDE DEF least
  <2> QED BY <2>4, <2>5 DEF KeyLess
<1> QED BY <1>1, <1>2, <1>3

\* A key of the index has columns, so it is none of the ends.
LEMMA KeysAreNotEnds ==
    <<>> \notin IndexKeys /\ DOMAIN <<>> = {} /\ NCols \in Cols /\ Cols \subseteq Nat
<1>1. 1 \in Cols /\ NCols \in Cols /\ Cols \subseteq Nat
  BY OldChunksAssumption DEF Cols
<1>2. \A k \in IndexKeys : 1 \in DOMAIN k
  BY <1>1 DEF IndexKeys
<1> QED BY <1>1, <1>2

\* A bound that is given is no end.
LEMMA OneIsGiven == \A x : <<x>> # <<>> /\ <<x>>[1] = x
<1>1. \A x : Len(<<x>>) = 1 /\ Len(<<>>) = 0
  OBVIOUS
<1> QED BY <1>1

\* The conditions of a chunk are those of the order.
LEMMA WhereIsWithin ==
    ASSUME NEW lo \in Marks, NEW up \in Marks, NEW r \in IndexKeys
    PROVE  Where(ChunkOf(lo, up), r) <=> Within(r, lo, up)
<1> DEFINE ch == ChunkOf(lo, up)
<1>1. \A j \in Cols : j \in Nat /\ r[j] \in Int /\ r[j] # Null
  BY OldChunksAssumption DEF IndexKeys, Cols
<1>2. CASE lo = <<>> /\ up = <<>>
  <2>1. DOMAIN ch = {}
    BY <1>2, KeysAreNotEnds DEF ChunkOf
  <2> QED BY <1>2, <2>1 DEF Where, AboveLower, BelowUpper, Within
<1>3. CASE ~(lo = <<>> /\ up = <<>>)
  <2>1. /\ DOMAIN ch = Cols /\ Len(ch) = NCols
        /\ \A c \in Cols : ch[c].lower = BoundAt(lo, c) /\ ch[c].upper = BoundAt(up, c)
    BY <1>3, OldChunksAssumption DEF ChunkOf, Cols
  <2> HIDE DEF ch
  <2>2. AboveLower(ch, r) <=> (lo = <<>> \/ KeyLess(lo, r))
    <3>1. CASE lo = <<>>
      <4>1. {i \in DOMAIN ch : ch[i].lower # <<>>} = {}
        BY <2>1, <3>1 DEF BoundAt
      <4> QED BY <3>1, <4>1 DEF AboveLower
    <3>2. CASE lo # <<>>
      <4>1. \A i \in Cols : ch[i].lower # <<>> /\ ch[i].lower[1] = lo[i] /\ lo[i] \in Int
        <5>1. \A i \in Cols : ch[i].lower = <<lo[i]>>
          BY <2>1, <3>2 DEF BoundAt
        <5>2. \A i \in Cols : lo[i] \in Int
          BY <3>2 DEF Marks, IndexKeys
        <5> QED BY <5>1, <5>2, OneIsGiven
      <4>2. {i \in DOMAIN ch : ch[i].lower # <<>>} = Cols /\ Cols # {}
        BY <2>1, <4>1, KeysAreNotEnds
      <4>3. AboveLower(ch, r) <=> \E i \in Cols : (\A j \in Cols : j < i => r[j] = lo[j]) /\ r[i] > lo[i]
        BY <1>1, <4>1, <4>2 DEF AboveLower
      <4>4. KeyLess(lo, r) <=> \E i \in Cols : (\A j \in Cols : j < i => r[j] = lo[j]) /\ r[i] > lo[i]
        <5>1. \A i \in Cols : (\A j \in 1 .. i - 1 : lo[j] = r[j]) <=> (\A j \in Cols : j < i => r[j] = lo[j])
          BY OldChunksAssumption DEF Cols
        <5> QED BY <1>1, <4>1, <5>1 DEF KeyLess
      <4> QED BY <3>2, <4>3, <4>4
    <3> QED BY <3>1, <3>2
  <2>3. BelowUpper(ch, r) <=> (up = <<>> \/ ~KeyLess(up, r))
    <3>1. CASE up = <<>>
      <4>1. {i \in DOMAIN ch : ch[i].upper # <<>>} = {}
        BY <2>1, <3>1 DEF BoundAt
      <4> QED BY <3>1, <4>1 DEF BelowUpper
    <3>2. CASE up # <<>>
      <4>1. \A i \in Cols : ch[i].upper # <<>> /\ ch[i].upper[1] = up[i] /\ up[i] \in Int
        <5>1. \A i \in Cols : ch[i].upper = <<up[i]>>
          BY <2>1, <3>2 DEF BoundAt
        <5>2. \A i \in Cols : up[i] \in Int
          BY <3>2 DEF Marks, IndexKeys
        <5> QED BY <5>1, <5>2, OneIsGiven
      <4>2. {i \in DOMAIN ch : ch[i].upper # <<>>} = Cols /\ Cols # {}
        BY <2>1, <4>1, KeysAreNotEnds
      <4> DEFINE SameTo(i) == \A j \in 1 .. i - 1 : r[j] = up[j]
      <4>3. \A i \in Cols : SameTo(i) <=> (\A j \in Cols : j < i => r[j] # Null /\ r[j] = ch[j].upper[1])
        BY <1>1, <4>1, OldChunksAssumption DEF Cols
      <4>4. BelowUpper(ch, r) <=> \E i \in Cols : SameTo(i) /\ (r[i] < up[i] \/ (i = NCols /\ r[i] = up[i]))
        <5> HIDE DEF SameTo
        <5> QED BY <1>1, <2>1, <4>1, <4>2, <4>3 DEF BelowUpper
      <4>5. KeyLess(r, up) <=> \E i \in Cols : SameTo(i) /\ r[i] < up[i]
        BY <1>1, <4>1 DEF KeyLess
      <4>6. r = up <=> SameTo(NCols) /\ r[NCols] = up[NCols]
        <5>1. up \in IndexKeys
          BY <3>2 DEF Marks
        <5>2. \A j \in Cols : j = NCols \/ j \in 1 .. NCols - 1
          BY OldChunksAssumption DEF Cols
        <5>3. \A j \in 1 .. NCols - 1 : j \in Cols
          BY OldChunksAssumption DEF Cols
        <5>4. r = up <=> \A j \in Cols : r[j] = up[j]
          BY <5>1 DEF IndexKeys
        <5> QED BY <5>2, <5>3, <5>4, KeysAreNotEnds
      <4>7. BelowUpper(ch, r) <=> KeyLess(r, up) \/ r = up
        <5> HIDE DEF SameTo
        <5> QED BY <4>4, <4>5, <4>6, KeysAreNotEnds
      <4>8. KeyLess(r, up) \/ r = up <=> ~KeyLess(up, r)
        <5>1. up \in IndexKeys
          BY <3>2 DEF Marks
        <5> QED BY <5>1, IndexOrder
      <4> QED BY <3>2, <4>7, <4>8
    <3> QED BY <3>1, <3>2
  <2> QED BY <2>2, <2>3 DEF Where, Within, ch
<1> QED BY <1>2, <1>3

\* The random values of a column, when none is NULL: as many as asked for or as
\* there are rows, each that of a row, in order.
LEMMA ValuesInOrder ==
    ASSUME NEW rows, IsFiniteSet(rows), rows \subseteq IndexKeys, NEW c \in Cols, NEW n \in Nat,
           NEW v \in RandomValues(rows, c, n)
    PROVE  LET k == IF n < Cardinality(rows) THEN n ELSE Cardinality(rows)
           IN  /\ k \in Nat /\ v \in Seq(Int) /\ Len(v) = k
               /\ \A j \in 1 .. k : \E r \in rows : v[j] = r[c]
               /\ \A a, b \in 1 .. k : a < b => v[a] <= v[b]
<1> DEFINE k == IF n < Cardinality(rows) THEN n ELSE Cardinality(rows)
           InOrder(S) == {q \in SetToSeqs({r \in S : r[c] # Null}) : \A a, b \in DOMAIN q : a < b => q[a][c] <= q[b][c]}
<1>1. k \in Nat
  BY FS_CardinalityType
<1>2. PICK S \in kSubset(k, rows) : \E q \in InOrder(S) : v = [j \in DOMAIN q |-> q[j][c]]
  BY DEF RandomValues
<1>3. PICK q \in InOrder(S) : v = [j \in DOMAIN q |-> q[j][c]]
  BY <1>2
<1>4. S \subseteq rows /\ Cardinality(S) = k
  BY DEF kSubset
<1>5. \A r \in rows : r[c] \in Int /\ r[c] # Null
  BY OldChunksAssumption DEF IndexKeys
<1>6. {r \in S : r[c] # Null} = S
  BY <1>4, <1>5
<1>7. q \in [1 .. k -> S]
  <2>1. q \in SetToSeqs(S)
    BY <1>6
  <2> QED BY <1>4, <2>1 DEF SetToSeqs
<1>8. v = [j \in 1 .. k |-> q[j][c]] /\ \A j \in 1 .. k : q[j] \in rows
  BY <1>3, <1>4, <1>7
<1>9. v \in Seq(Int) /\ Len(v) = k
  <2> HIDE DEF k
  <2> QED BY <1>1, <1>5, <1>8
<1>10. \A a, b \in 1 .. k : a < b => v[a] <= v[b]
  <2>1. \A a, b \in DOMAIN q : a < b => q[a][c] <= q[b][c]
    OBVIOUS
  <2> HIDE DEF k, InOrder
  <2> QED BY <1>7, <1>8, <2>1
<1> QED BY <1>1, <1>8, <1>9, <1>10

\* A column of a chunk.
LEMMA ColumnOfChunk ==
    ASSUME NEW lo \in Marks, NEW up \in Marks, NEW c \in Cols
    PROVE  (IF c \in DOMAIN ChunkOf(lo, up) THEN ChunkOf(lo, up)[c] ELSE [lower |-> <<>>, upper |-> <<>>])
               = [lower |-> BoundAt(lo, c), upper |-> BoundAt(up, c)]
<1>1. CASE lo = <<>> /\ up = <<>>
  <2>1. ChunkOf(lo, up) = <<>>
    BY <1>1 DEF ChunkOf
  <2> QED BY <1>1, <2>1, KeysAreNotEnds DEF BoundAt
<1>2. CASE ~(lo = <<>> /\ up = <<>>)
  BY <1>2 DEF ChunkOf
<1> QED BY <1>1, <1>2

\* The pieces between the random values of the columns, which are as many in
\* each: the marks are the values of the columns taken together.
LEMMA PieceIsChunk ==
    ASSUME NEW lo \in Marks, NEW up \in Marks, NEW k \in Nat, NEW lists,
           \A c \in Cols : lists[c] \in Seq(Int) /\ Len(lists[c]) = k,
           NEW i \in 1 .. k + 1
    PROVE  PieceOf(ChunkOf(lo, up), lists, i - 1)
               = ChunkOf(MarkAt(lo, up, k, lists, i - 1), MarkAt(lo, up, k, lists, i))
<1> DEFINE mark == [j \in 0 .. k + 1 |-> MarkAt(lo, up, k, lists, j)]
           ch == ChunkOf(lo, up)
           At(c, n) == IF n \in DOMAIN lists[c] THEN <<lists[c][n]>> ELSE <<>>
           Old(c) == IF c \in DOMAIN ch THEN ch[c] ELSE [lower |-> <<>>, upper |-> <<>>]
           bounded == IF i - 1 > 0 \/ \A c \in Cols : lists[c] # <<>> THEN NCols
                      ELSE (CHOOSE c \in Cols : lists[c] = <<>> /\ \A d \in 1 .. c - 1 : lists[d] # <<>>) - 1
<1>1. PieceOf(ch, lists, i - 1)
        = [c \in DOMAIN ch \cup 1 .. bounded |-> IF c <= bounded THEN Update(Old(c), At(c, i - 1), At(c, i)) ELSE ch[c]]
  BY DEF PieceOf
<1>2. \A c \in Cols : DOMAIN lists[c] = 1 .. k /\ (lists[c] = <<>> <=> k = 0)
  OBVIOUS
<1>3. DOMAIN ch = {} \/ DOMAIN ch = Cols
  BY KeysAreNotEnds DEF ChunkOf
<1> SUFFICES PieceOf(ch, lists, i - 1) = ChunkOf(mark[i - 1], mark[i])
  <2>1. mark[i - 1] = MarkAt(lo, up, k, lists, i - 1) /\ mark[i] = MarkAt(lo, up, k, lists, i)
    OBVIOUS
  <2> HIDE DEF mark
  <2> QED BY <2>1
<1>4. CASE k = 0
  <2>1. i = 1 /\ mark[0] = lo /\ mark[1] = up
    BY <1>4 DEF MarkAt
  <2>2. bounded = 0
    <3>1. 1 \in Cols /\ Cols \subseteq Nat
      BY OldChunksAssumption DEF Cols
    <3>2. \A c \in Cols : lists[c] = <<>>
      BY <1>2, <1>4
    <3>3. \A c \in Cols : (\A d \in 1 .. c - 1 : lists[d] # <<>>) <=> c = 1
      <4>1. \A c \in Cols : c = 1 \/ (1 \in 1 .. c - 1)
        BY OldChunksAssumption DEF Cols
      <4> QED BY <3>1, <3>2, <4>1
    <3>4. (CHOOSE c \in Cols : lists[c] = <<>> /\ \A d \in 1 .. c - 1 : lists[d] # <<>>) = 1
      BY <3>1, <3>2, <3>3
    <3> QED BY <2>1, <3>1, <3>2, <3>4
  <2>3. DOMAIN ch \cup 1 .. bounded = DOMAIN ch
    <3> HIDE DEF ch, bounded
    <3> QED BY <2>2
  <2>4. \A c \in DOMAIN ch : ~(c <= bounded)
    <3>1. \A c \in Cols : ~(c <= 0)
      BY OldChunksAssumption DEF Cols
    <3> HIDE DEF ch, bounded
    <3> QED BY <1>3, <2>2, <3>1
  <2>5. PieceOf(ch, lists, i - 1) = [c \in DOMAIN ch |-> ch[c]]
    <3> HIDE DEF ch, bounded, Old, At
    <3> QED BY <1>1, <2>3, <2>4
  <2>6. ch = [c \in DOMAIN ch |-> ch[c]]
    <3>1. CASE lo = <<>> /\ up = <<>>
      <4>1. ch = <<>>
        BY <3>1 DEF ChunkOf
      <4> HIDE DEF ch
      <4> QED BY <4>1
    <3>2. CASE ~(lo = <<>> /\ up = <<>>)
      BY <3>2 DEF ChunkOf
    <3> QED BY <3>1, <3>2
  <2> QED BY <2>1, <2>5, <2>6
<1>5. CASE k > 0
  <2>1. bounded = NCols
    BY <1>2, <1>5
  <2>2. DOMAIN ch \cup 1 .. bounded = Cols
    BY <1>3, <2>1 DEF Cols
  <2>3. \A c \in Cols : c <= bounded
    BY <2>1, OldChunksAssumption DEF Cols
  <2>4. PieceOf(ch, lists, i - 1) = [c \in Cols |-> Update(Old(c), At(c, i - 1), At(c, i))]
    <3> HIDE DEF ch, bounded, Old, At
    <3> QED BY <1>1, <2>2, <2>3
  <2>5. \A c \in Cols : Old(c) = [lower |-> BoundAt(lo, c), upper |-> BoundAt(up, c)]
    BY ColumnOfChunk
  <2>6. /\ mark[i - 1] = IF i = 1 THEN lo ELSE [c \in Cols |-> lists[c][i - 1]]
        /\ mark[i] = IF i = k + 1 THEN up ELSE [c \in Cols |-> lists[c][i]]
    BY <1>5 DEF MarkAt
  <2>7. (i # 1 => mark[i - 1] # <<>>) /\ (i # k + 1 => mark[i] # <<>>)
    <3>1. \A j \in 1 .. k : [c \in Cols |-> lists[c][j]] \in IndexKeys
      BY <1>2 DEF IndexKeys
    <3> QED BY <2>6, <3>1, KeysAreNotEnds
  <2>8. \A c \in Cols : Update(Old(c), At(c, i - 1), At(c, i))
                          = [lower |-> BoundAt(mark[i - 1], c), upper |-> BoundAt(mark[i], c)]
    <3> SUFFICES ASSUME NEW c \in Cols
                 PROVE  Update(Old(c), At(c, i - 1), At(c, i))
                          = [lower |-> BoundAt(mark[i - 1], c), upper |-> BoundAt(mark[i], c)]
      OBVIOUS
    <3>1. BoundAt(mark[i - 1], c) = IF At(c, i - 1) = <<>> THEN BoundAt(lo, c) ELSE At(c, i - 1)
      <4>1. CASE i = 1
        BY <1>2, <2>6, <4>1
      <4>2. CASE i # 1
        <5>1. At(c, i - 1) = <<lists[c][i - 1]>>
          BY <1>2, <4>2
        <5>2. BoundAt(mark[i - 1], c) = <<lists[c][i - 1]>>
          BY <2>6, <2>7, <4>2 DEF BoundAt
        <5> QED BY <5>1, <5>2, OneIsGiven
      <4> QED BY <4>1, <4>2
    <3>2. BoundAt(mark[i], c) = IF At(c, i) = <<>> THEN BoundAt(up, c) ELSE At(c, i)
      <4>1. CASE i = k + 1
        BY <1>2, <2>6, <4>1
      <4>2. CASE i # k + 1
        <5>1. At(c, i) = <<lists[c][i]>>
          BY <1>2, <4>2
        <5>2. BoundAt(mark[i], c) = <<lists[c][i]>>
          BY <2>6, <2>7, <4>2 DEF BoundAt
        <5> QED BY <5>1, <5>2, OneIsGiven
      <4> QED BY <4>1, <4>2
    <3> HIDE DEF At, Old
    <3> QED BY <2>5, <3>1, <3>2 DEF Update
  <2>9. ChunkOf(mark[i - 1], mark[i])
          = [c \in Cols |-> [lower |-> BoundAt(mark[i - 1], c), upper |-> BoundAt(mark[i], c)]]
    <3>1. ~(mark[i - 1] = <<>> /\ mark[i] = <<>>)
      BY <1>5, <2>7
    <3> QED BY <3>1 DEF ChunkOf
  <2> HIDE DEF ch, Old, At, mark
  <2> QED BY <2>4, <2>8, <2>9
<1> QED BY <1>4, <1>5

\* splitRangeByRandom cuts a chunk of a table without NULL.
LEMMA RandomCuts ==
    ASSUME NEW rows, IsFiniteSet(rows), rows \subseteq IndexKeys, NEW lo \in Marks, NEW up \in Marks, NEW n \in Int,
           NEW pieces \in splitRangeByRandom(ChunkOf(lo, up), n, rows)
    PROVE  Cut(pieces, lo, up)
<1>1. CASE n <= 1
  <2>1. pieces = <<ChunkOf(lo, up)>>
    BY <1>1 DEF splitRangeByRandom
  <2> DEFINE mark == [j \in 0 .. 1 |-> IF j = 0 THEN lo ELSE up]
  <2>2. mark \in [0 .. 0 + 1 -> Marks] /\ mark[0] = lo /\ mark[0 + 1] = up
    OBVIOUS
  <2>3. pieces = [i \in 1 .. 0 + 1 |-> ChunkOf(mark[i - 1], mark[i])]
    <3>1. \A i \in 1 .. 1 : i = 1 /\ mark[i - 1] = lo /\ mark[i] = up
      OBVIOUS
    <3>2. [i \in 1 .. 1 |-> ChunkOf(mark[i - 1], mark[i])] = [i \in 1 .. 1 |-> ChunkOf(lo, up)]
      <4> HIDE DEF mark
      <4> QED BY <3>1
    <3>3. <<ChunkOf(lo, up)>> = [i \in 1 .. 1 |-> ChunkOf(lo, up)]
      <4> DEFINE ch == ChunkOf(lo, up)
      <4> HIDE DEF ch
      <4>1. <<ch>> = [i \in 1 .. 1 |-> ch]
        OBVIOUS
      <4> QED BY <4>1 DEF ch
    <3> HIDE DEF mark
    <3> QED BY <2>1, <3>2, <3>3
  <2> HIDE DEF mark
  <2>4. CutAt(pieces, lo, up, 0, mark)
    BY <2>2, <2>3 DEF CutAt
  <2> QED BY <2>2, <2>4 DEF Cut
<1>2. CASE n > 1
  <2> DEFINE inside == {r \in rows : Where(ChunkOf(lo, up), r)}
             k == IF n - 1 < Cardinality(inside) THEN n - 1 ELSE Cardinality(inside)
  <2>1. PICK lists \in [Cols -> UNION {RandomValues(inside, c, n - 1) : c \in Cols}] :
          /\ \A c \in Cols : lists[c] \in RandomValues(inside, c, n - 1)
          /\ pieces = [i \in 1 .. Min({Len(lists[c]) : c \in Cols}) + 1 |-> PieceOf(ChunkOf(lo, up), lists, i - 1)]
    <3> DEFINE Lists == {l \in [Cols -> UNION {RandomValues(inside, c, n - 1) : c \in Cols}] :
                            \A c \in Cols : l[c] \in RandomValues(inside, c, n - 1)}
               Pieces(l) == [i \in 1 .. Min({Len(l[c]) : c \in Cols}) + 1 |-> PieceOf(ChunkOf(lo, up), l, i - 1)]
    <3>1. pieces \in {Pieces(l) : l \in Lists}
      <4>1. ~(n <= 1)
        BY <1>2
      <4> QED BY <4>1, Zenon DEF splitRangeByRandom
    <3>2. PICK l \in Lists : pieces = Pieces(l)
      <4> HIDE DEF Pieces, Lists
      <4> QED BY <3>1
    <3> QED BY <3>2
  <2>2. IsFiniteSet(inside) /\ inside \subseteq IndexKeys /\ n - 1 \in Nat
    BY <1>2, FS_Subset
  <2>3. /\ k \in Nat
        /\ \A c \in Cols :
              /\ lists[c] \in Seq(Int) /\ Len(lists[c]) = k
              /\ \A j \in 1 .. k : \E r \in inside : lists[c][j] = r[c]
              /\ \A a, b \in 1 .. k : a < b => lists[c][a] <= lists[c][b]
    <3> HIDE DEF inside
    <3>1. k \in Nat
      BY <2>2, FS_CardinalityType
    <3>2. ASSUME NEW c \in Cols
          PROVE  /\ lists[c] \in Seq(Int) /\ Len(lists[c]) = k
                 /\ \A j \in 1 .. k : \E r \in inside : lists[c][j] = r[c]
                 /\ \A a, b \in 1 .. k : a < b => lists[c][a] <= lists[c][b]
      <4>1. lists[c] \in RandomValues(inside, c, n - 1)
        BY <2>1
      <4> QED BY <2>2, <4>1, ValuesInOrder
    <3> HIDE DEF k
    <3> QED BY <3>1, <3>2
  <2>4. Min({Len(lists[c]) : c \in Cols}) = k
    <3>1. {Len(lists[c]) : c \in Cols} = {k}
      <4> HIDE DEF k
      <4> QED BY <2>3, KeysAreNotEnds
    <3>2. Min({k}) = k
      <4> HIDE DEF k
      <4> QED BY <2>3 DEF Min
    <3> QED BY <3>1, <3>2
  <2> HIDE DEF k
  <2> DEFINE value(j) == [c \in Cols |-> lists[c][j]]
             mark == [j \in 0 .. k + 1 |-> IF j = 0 THEN lo ELSE IF j = k + 1 THEN up ELSE value(j)]
  <2>5. \A j \in 1 .. k : value(j) \in IndexKeys /\ mark[j] = value(j)
    BY <2>3 DEF IndexKeys
  <2>6. mark \in [0 .. k + 1 -> Marks] /\ mark[0] = lo /\ mark[k + 1] = up
    <3>1. \A j \in 0 .. k + 1 : j = 0 \/ j = k + 1 \/ j \in 1 .. k
      BY <2>3
    <3>2. mark[0] = lo /\ mark[k + 1] = up
      BY <2>3
    <3>3. \A j \in 0 .. k + 1 : mark[j] \in Marks
      <4> HIDE DEF mark
      <4> QED BY <2>5, <3>1, <3>2 DEF Marks
    <3> QED BY <3>2, <3>3
  <2>7. ASSUME NEW j \in 1 .. k, NCols = 1 PROVE Within(mark[j], lo, up)
    <3>1. Cols = {1}
      BY <2>7 DEF Cols
    <3>2. PICK r \in inside : lists[1][j] = r[1]
      BY <2>3, <3>1
    <3>3. r \in IndexKeys
      BY <2>2
    <3>4. value(j) = r
      BY <3>1, <3>2, <3>3 DEF IndexKeys
    <3>5. Where(ChunkOf(lo, up), r)
      OBVIOUS
    <3> QED BY <2>5, <3>3, <3>4, <3>5, WhereIsWithin
  <2>8. ASSUME NEW i \in 1 .. k, NEW j \in 1 .. k, i < j PROVE ~KeyLess(mark[j], mark[i])
    <3>1. \A c \in Cols : value(i)[c] \in Int /\ value(j)[c] \in Int /\ value(i)[c] <= value(j)[c]
      BY <2>3, <2>8
    <3>2. ~KeyLess(value(j), value(i))
      <4> HIDE DEF value
      <4> QED BY <3>1 DEF KeyLess
    <3> QED BY <2>5, <3>2
  <2>9. \A i \in 1 .. k + 1 : PieceOf(ChunkOf(lo, up), lists, i - 1) = ChunkOf(mark[i - 1], mark[i])
    <3>1. \A j \in 0 .. k + 1 : mark[j] = MarkAt(lo, up, k, lists, j)
      BY DEF MarkAt
    <3>2. k \in Nat /\ \A c \in Cols : lists[c] \in Seq(Int) /\ Len(lists[c]) = k
      BY <2>3
    <3> HIDE DEF mark
    <3>3. ASSUME NEW i \in 1 .. k + 1 PROVE PieceOf(ChunkOf(lo, up), lists, i - 1) = ChunkOf(mark[i - 1], mark[i])
      <4>1. i - 1 \in 0 .. k + 1 /\ i \in 0 .. k + 1
        BY <3>2
      <4>2. PieceOf(ChunkOf(lo, up), lists, i - 1)
              = ChunkOf(MarkAt(lo, up, k, lists, i - 1), MarkAt(lo, up, k, lists, i))
        BY <3>2, PieceIsChunk
      <4> QED BY <3>1, <4>1, <4>2
    <3> QED BY <3>3
  <2>10. pieces = [i \in 1 .. k + 1 |-> ChunkOf(mark[i - 1], mark[i])]
    <3> HIDE DEF mark
    <3> QED BY <2>1, <2>4, <2>9
  <2> HIDE DEF mark, value
  <2>11. CutAt(pieces, lo, up, k, mark)
    BY <2>5, <2>6, <2>7, <2>8, <2>10 DEF CutAt
  <2> QED BY <2>3, <2>6, <2>11 DEF Cut
<1> QED BY <1>1, <1>2

\* Pieces are chunks.
LEMMA PiecesAreChunks ==
    ASSUME NEW lo, NEW up, NEW pieces, Cut(pieces, lo, up)
    PROVE  pieces \in Seq(ChunkSet)
<1>1. PICK m \in Nat : \E mark \in [0 .. m + 1 -> Marks] : CutAt(pieces, lo, up, m, mark)
  BY DEF Cut
<1>2. PICK mark \in [0 .. m + 1 -> Marks] : CutAt(pieces, lo, up, m, mark)
  BY <1>1
<1>3. \A i \in 1 .. m + 1 : mark[i - 1] \in Marks /\ mark[i] \in Marks
  BY <1>2
<1>4. \A i \in 1 .. m + 1 : ChunkOf(mark[i - 1], mark[i]) \in ChunkSet
  BY <1>3 DEF ChunkSet
<1>5. pieces = [i \in 1 .. m + 1 |-> ChunkOf(mark[i - 1], mark[i])]
  BY <1>2 DEF CutAt
<1> QED BY <1>4, <1>5

\* A row of the chunk is in a piece, and in only one; when the index has one
\* column, no other row is.
LEMMA CutKeepsRows ==
    ASSUME NEW lo \in Marks, NEW up \in Marks, NEW pieces, Cut(pieces, lo, up), NEW r \in IndexKeys
    PROVE  /\ Within(r, lo, up) => Covers(pieces, r)
           /\ Once(pieces, r)
           /\ NCols = 1 /\ Covers(pieces, r) => Within(r, lo, up)
<1>1. PICK m \in Nat : \E mark \in [0 .. m + 1 -> Marks] : CutAt(pieces, lo, up, m, mark)
  BY DEF Cut
<1>2. PICK mark \in [0 .. m + 1 -> Marks] : CutAt(pieces, lo, up, m, mark)
  BY <1>1
<1>3. /\ mark[0] = lo /\ mark[m + 1] = up /\ DOMAIN pieces = 1 .. m + 1
      /\ \A i \in 1 .. m + 1 : pieces[i] = ChunkOf(mark[i - 1], mark[i])
      /\ \A j \in 1 .. m : mark[j] \in IndexKeys /\ mark[j] # <<>> /\ (NCols = 1 => Within(mark[j], lo, up))
      /\ \A i, j \in 1 .. m : i < j => ~KeyLess(mark[j], mark[i])
  BY <1>2, KeysAreNotEnds DEF CutAt
<1>4. \A i \in 1 .. m + 1 : i - 1 \in 0 .. m + 1 /\ i \in 0 .. m + 1
  OBVIOUS
<1>5. \A i \in 1 .. m + 1 : Where(pieces[i], r) <=> Within(r, mark[i - 1], mark[i])
  BY <1>3, <1>4, WhereIsWithin
<1>6. ASSUME Within(r, lo, up) PROVE Covers(pieces, r)
  <2> DEFINE S == {j \in 1 .. m + 1 : mark[j] = <<>> \/ ~KeyLess(mark[j], r)}
  <2>1. m + 1 \in S /\ S \subseteq Nat
    BY <1>3, <1>6 DEF Within
  <2>2. PICK j \in S : \A i \in S : <<i, j>> \notin OpToRel(<, Nat)
    <3> HIDE DEF S
    <3> QED BY <2>1, WFMin, NatLessThanWellFounded
  <2>3. j \in 1 .. m + 1 /\ (mark[j] = <<>> \/ ~KeyLess(mark[j], r))
    OBVIOUS
  <2>4. mark[j - 1] = <<>> \/ KeyLess(mark[j - 1], r)
    <3>1. CASE j = 1
      BY <1>3, <1>6, <3>1 DEF Within
    <3>2. CASE j # 1
      <4>1. j - 1 \in 1 .. m + 1 /\ j - 1 \in Nat /\ j \in Nat /\ j - 1 < j
        BY <2>3, <3>2
      <4>2. j - 1 \notin S
        <5> HIDE DEF S
        <5> QED BY <2>2, <4>1 DEF OpToRel
      <4> QED BY <4>1, <4>2
    <3> QED BY <3>1, <3>2
  <2>5. Where(pieces[j], r)
    BY <1>5, <2>3, <2>4 DEF Within
  <2> QED BY <1>3, <2>3, <2>5 DEF Covers
<1>7. ASSUME NEW i \in 1 .. m + 1, NEW j \in 1 .. m + 1, i < j, Where(pieces[i], r), Where(pieces[j], r) PROVE FALSE
  <2>1. i \in 1 .. m /\ j - 1 \in 1 .. m /\ i <= j - 1
    BY <1>7
  <2>2. ~KeyLess(mark[i], r) /\ KeyLess(mark[j - 1], r)
    BY <1>3, <1>5, <1>7, <2>1 DEF Within
  <2>3. i = j - 1 \/ ~KeyLess(mark[j - 1], mark[i])
    BY <1>3, <2>1
  <2> QED BY <1>3, <2>1, <2>2, <2>3, IndexOrder
<1>8. ASSUME NCols = 1, Covers(pieces, r) PROVE Within(r, lo, up)
  <2>1. PICK i \in 1 .. m + 1 : Where(pieces[i], r)
    BY <1>3, <1>8 DEF Covers
  <2>2. Within(r, mark[i - 1], mark[i])
    BY <1>5, <2>1
  <2>3. lo = <<>> \/ KeyLess(lo, r)
    <3>1. CASE i = 1
      BY <1>3, <2>2, <3>1 DEF Within
    <3>2. CASE i # 1
      <4>1. i - 1 \in 1 .. m
        BY <3>2
      <4>2. KeyLess(mark[i - 1], r) /\ (lo = <<>> \/ KeyLess(lo, mark[i - 1])) /\ mark[i - 1] \in IndexKeys
        BY <1>3, <1>8, <2>2, <4>1 DEF Within
      <4> QED BY <4>2, IndexOrder DEF Marks
    <3> QED BY <3>1, <3>2
  <2>4. up = <<>> \/ ~KeyLess(up, r)
    <3>1. CASE i = m + 1
      BY <1>3, <2>2, <3>1 DEF Within
    <3>2. CASE i # m + 1
      <4>1. i \in 1 .. m
        BY <3>2
      <4>2. ~KeyLess(mark[i], r) /\ (up = <<>> \/ ~KeyLess(up, mark[i])) /\ mark[i] \in IndexKeys
        BY <1>3, <1>8, <2>2, <4>1 DEF Within
      <4>3. up # <<>> => up \in IndexKeys
        BY DEF Marks
      <4> QED BY <4>2, <4>3, IndexOrder
    <3> QED BY <3>1, <3>2
  <2> QED BY <2>3, <2>4 DEF Within
<1>9. Once(pieces, r)
  <2>1. \A i, j \in 1 .. m + 1 : i < j \/ i = j \/ j < i
    OBVIOUS
  <2> QED BY <1>3, <1>7, <2>1 DEF Once
<1> QED BY <1>6, <1>8, <1>9

\* Chunks put behind others.
LEMMA JoinedChunks ==
    ASSUME NEW s \in Seq(ChunkSet), NEW t \in Seq(ChunkSet), NEW r
    PROVE  /\ s \o t \in Seq(ChunkSet)
           /\ Covers(s \o t, r) <=> Covers(s, r) \/ Covers(t, r)
           /\ Once(s, r) /\ Once(t, r) /\ ~(Covers(s, r) /\ Covers(t, r)) => Once(s \o t, r)
<1> DEFINE u == s \o t
<1>1. /\ u \in Seq(ChunkSet) /\ DOMAIN u = 1 .. Len(s) + Len(t) /\ Len(s) \in Nat /\ Len(t) \in Nat
      /\ DOMAIN s = 1 .. Len(s) /\ DOMAIN t = 1 .. Len(t)
      /\ \A i \in 1 .. Len(s) : u[i] = s[i]
      /\ \A i \in 1 .. Len(t) : u[Len(s) + i] = t[i]
  OBVIOUS
<1> HIDE DEF u
<1>2. \A i \in 1 .. Len(s) + Len(t) : i \in 1 .. Len(s) \/ (i - Len(s) \in 1 .. Len(t) /\ i = Len(s) + (i - Len(s)))
  BY <1>1
<1>3. \A i \in 1 .. Len(s) + Len(t) : \/ i \in 1 .. Len(s) /\ u[i] = s[i]
                                      \/ i - Len(s) \in 1 .. Len(t) /\ u[i] = t[i - Len(s)]
  BY <1>1, <1>2
<1>4. Covers(u, r) => Covers(s, r) \/ Covers(t, r)
  BY <1>1, <1>3 DEF Covers
<1>5. Covers(s, r) => Covers(u, r)
  BY <1>1 DEF Covers
<1>6. Covers(t, r) => Covers(u, r)
  <2>1. \A i \in 1 .. Len(t) : Len(s) + i \in 1 .. Len(s) + Len(t)
    BY <1>1
  <2> QED BY <1>1, <2>1 DEF Covers
<1>7. ASSUME Once(s, r), Once(t, r), ~(Covers(s, r) /\ Covers(t, r)) PROVE Once(u, r)
  <2> SUFFICES ASSUME NEW i \in DOMAIN u, NEW j \in DOMAIN u, Where(u[i], r), Where(u[j], r) PROVE i = j
    BY DEF Once
  <2>1. CASE i \in 1 .. Len(s) /\ j \in 1 .. Len(s)
    BY <1>1, <1>7, <2>1 DEF Once
  <2>2. CASE ~(i \in 1 .. Len(s)) /\ ~(j \in 1 .. Len(s))
    <3>1. /\ i - Len(s) \in 1 .. Len(t) /\ Where(t[i - Len(s)], r)
          /\ j - Len(s) \in 1 .. Len(t) /\ Where(t[j - Len(s)], r)
      BY <1>1, <1>3, <2>2
    <3>2. i - Len(s) = j - Len(s)
      BY <1>1, <1>7, <3>1 DEF Once
    <3> QED BY <1>1, <3>2
  <2>3. CASE i \in 1 .. Len(s) /\ ~(j \in 1 .. Len(s))
    BY <1>1, <1>3, <1>7, <2>3 DEF Covers
  <2>4. CASE ~(i \in 1 .. Len(s)) /\ j \in 1 .. Len(s)
    BY <1>1, <1>3, <1>7, <2>4 DEF Covers
  <2> QED BY <2>1, <2>2, <2>3, <2>4
<1>8. Covers(u, r) <=> Covers(s, r) \/ Covers(t, r)
  BY <1>4, <1>5, <1>6
<1> QED BY <1>1, <1>7, <1>8 DEF u

\* At the start there is no chunk.
LEMMA SplitInitially ==
    ASSUME NEW tables, SplitInit(tables), \A t \in tables : TableOK(t)
    PROVE  SplitInv
<1>1. TableOK(oldTable) /\ splitAt = 0 /\ latestCount = 0 /\ lowerValues = <<>> /\ oldChunks = <<>>
  BY DEF SplitInit
<1>2. Turns \in Nat
  BY <1>1 DEF TableOK, Turns
<1>3. SplitType
  BY <1>1, <1>2 DEF SplitType, Marks
<1>4. oldChunks \in Seq(ChunkSet) /\ \A r : ~Covers(oldChunks, r) /\ Once(oldChunks, r)
  <2>1. oldChunks \in Seq(ChunkSet)
    BY <1>1
  <2>2. DOMAIN oldChunks = {}
    BY <1>1, KeysAreNotEnds
  <2> QED BY <2>1, <2>2 DEF Covers, Once
<1>5. UpToMark
  BY <1>1, <1>4 DEF UpToMark, Reached
<1>6. AllTaken
  BY <1>1, <1>2 DEF AllTaken
<1> QED BY <1>3, <1>4, <1>5, <1>6 DEF SplitInv

\* Without buckets the whole table is cut at random values.
LEMMA RandomSplitStep ==
    ASSUME SplitInv, RandomSplit
    PROVE  SplitInv'
<1>1. /\ oldTable.buckets = <<>> /\ oldTable' = oldTable /\ splitAt' = Turns + 1
      /\ latestCount' = latestCount /\ lowerValues' = lowerValues
  BY DEF RandomSplit, Turns
<1>2. Turns \in Nat /\ Turns' = Turns /\ (NoNull' <=> NoNull)
  BY <1>1 DEF SplitInv, SplitType, TableOK, Turns, NoNull
<1>3. SplitType'
  BY <1>1, <1>2 DEF SplitInv, SplitType
<1>4. ASSUME NoNull PROVE oldChunks' \in Seq(ChunkSet) /\ UpToMark' /\ AllTaken'
  <2> DEFINE n == (Cardinality(oldTable.rows) + OldChunkSize - 1) \div OldChunkSize
  <2>1. oldTable.rows \subseteq IndexKeys /\ IsFiniteSet(oldTable.rows)
    BY <1>4 DEF NoNull, SplitInv, SplitType, TableOK
  <2>2. n \in Int
    BY <2>1, FS_CardinalityType, OldChunksAssumption
  <2>3. <<>> \in Marks /\ ChunkOf(<<>>, <<>>) = <<>>
    BY DEF Marks, ChunkOf
  <2>4. oldChunks' \in splitRangeByRandom(ChunkOf(<<>>, <<>>), n, oldTable.rows)
    BY <2>3 DEF RandomSplit
  <2> HIDE DEF n
  <2>5. Cut(oldChunks', <<>>, <<>>)
    BY <2>1, <2>2, <2>3, <2>4, RandomCuts
  <2>6. oldChunks' \in Seq(ChunkSet)
    BY <2>5, PiecesAreChunks
  <2>7. \A r \in IndexKeys : Covers(oldChunks', r) /\ Once(oldChunks', r)
    BY <2>3, <2>5, CutKeepsRows DEF Within
  <2>8. AllTaken'
    BY <2>7 DEF AllTaken, Covers, Once
  <2>9. UpToMark'
    BY <1>1, <1>2 DEF UpToMark
  <2> QED BY <2>6, <2>8, <2>9
<1> QED BY <1>2, <1>3, <1>4 DEF SplitInv

\* The chunk behind the last bucket takes the rows that are left.
LEMMA LastSplitStep ==
    ASSUME SplitInv, LastSplit
    PROVE  SplitInv'
<1> DEFINE open == IF lowerValues = <<>> THEN <<>> ELSE [c \in Cols |-> [lower |-> <<lowerValues[c]>>, upper |-> <<>>]]
<1>1. /\ splitAt = Turns /\ oldTable' = oldTable /\ splitAt' = splitAt + 1 /\ oldTable.buckets # <<>>
      /\ latestCount' = latestCount /\ lowerValues' = lowerValues /\ oldChunks' = Append(oldChunks, open)
  BY DEF LastSplit, Turns
<1>2. Turns \in Nat /\ Turns' = Turns /\ (NoNull' <=> NoNull) /\ lowerValues \in Marks
  BY <1>1 DEF SplitInv, SplitType, TableOK, Turns, NoNull
<1>3. SplitType'
  BY <1>1, <1>2 DEF SplitInv, SplitType
<1>4. open = ChunkOf(lowerValues, <<>>)
  BY DEF ChunkOf, BoundAt
<1> HIDE DEF open
<1>5. ASSUME NoNull PROVE oldChunks' \in Seq(ChunkSet) /\ UpToMark' /\ AllTaken'
  <2>1. oldChunks \in Seq(ChunkSet) /\ UpToMark /\ splitAt <= Turns
    BY <1>1, <1>2, <1>5 DEF SplitInv
  <2>2. Cut(<<open>>, lowerValues, <<>>) /\ <<>> \in Marks
    <3>1. <<>> \in Marks /\ IsFiniteSet({}) /\ {} \subseteq IndexKeys
      BY FS_EmptySet DEF Marks
    <3>2. <<open>> \in splitRangeByRandom(ChunkOf(lowerValues, <<>>), 1, {})
      BY <1>4 DEF splitRangeByRandom
    <3> QED BY <1>2, <3>1, <3>2, RandomCuts
  <2>3. <<open>> \in Seq(ChunkSet) /\ oldChunks' = oldChunks \o <<open>>
    <3>1. <<open>> \in Seq(ChunkSet)
      BY <2>2, PiecesAreChunks
    <3>2. open \in ChunkSet
      BY <1>2, <1>4, <2>2 DEF ChunkSet
    <3>3. Append(oldChunks, open) = oldChunks \o <<open>>
      BY <2>1, <3>2
    <3> QED BY <1>1, <3>1, <3>3
  <2>4. oldChunks' \in Seq(ChunkSet)
    BY <2>1, <2>3, JoinedChunks
  <2>5. ASSUME NEW r \in IndexKeys PROVE Covers(oldChunks', r) /\ (NCols = 1 => Once(oldChunks', r))
    <3>1. Reached(r) \/ Within(r, lowerValues, <<>>)
      BY DEF Reached, Within
    <3>2. Covers(oldChunks', r)
      BY <1>2, <2>1, <2>2, <2>3, <3>1, CutKeepsRows, JoinedChunks DEF UpToMark
    <3>3. ASSUME NCols = 1 PROVE Once(oldChunks', r)
      <4>1. Once(oldChunks, r) /\ (Covers(oldChunks, r) => Reached(r))
        BY <2>1, <3>3 DEF UpToMark
      <4>2. Once(<<open>>, r) /\ (Covers(<<open>>, r) => Within(r, lowerValues, <<>>))
        BY <1>2, <2>2, <3>3, CutKeepsRows
      <4>3. ~(Covers(oldChunks, r) /\ Covers(<<open>>, r))
        BY <4>1, <4>2 DEF Reached, Within
      <4> QED BY <2>1, <2>3, <4>1, <4>2, <4>3, JoinedChunks
    <3> QED BY <3>2, <3>3
  <2>6. AllTaken'
    BY <1>1, <2>5 DEF AllTaken, Covers, Once
  <2>7. UpToMark'
    BY <1>1, <1>2 DEF UpToMark
  <2> QED BY <2>4, <2>6, <2>7
<1> QED BY <1>2, <1>3, <1>5 DEF SplitInv

\* A bucket's chunk, cut at random values or not, takes the rows from the last
\* one's end to its own; a bucket too small for a chunk waits for the next.
LEMMA BucketSplitStep ==
    ASSUME SplitInv, BucketSplit
    PROVE  SplitInv'
<1> DEFINE bucket == oldTable.buckets[splitAt + 1]
           chunk == [c \in Cols |-> [lower |-> IF lowerValues = <<>> THEN <<>> ELSE <<lowerValues[c]>>,
                                     upper |-> <<bucket.upper[c]>>]]
           count == (bucket.count - latestCount) \div OldChunkSize
<1>1. /\ splitAt < Turns /\ oldTable' = oldTable /\ splitAt' = splitAt + 1
      /\ latestCount' = IF count # 0 THEN bucket.count ELSE latestCount
      /\ lowerValues' = IF count # 0 THEN bucket.upper ELSE lowerValues
  BY DEF BucketSplit, Turns, Advances
<1>2. PICK pieces \in splitRangeByRandom(chunk, count, oldTable.rows) :
        oldChunks' = IF count = 0 THEN oldChunks ELSE oldChunks \o pieces
  BY DEF BucketSplit
<1>3. /\ TableOK(oldTable) /\ Turns \in Nat /\ Turns' = Turns /\ (NoNull' <=> NoNull) /\ splitAt \in Nat
      /\ lowerValues \in Marks /\ latestCount \in Nat
      /\ DOMAIN oldTable.buckets = 1 .. Turns
  BY <1>1 DEF SplitInv, SplitType, TableOK, Turns, NoNull
<1>4. splitAt + 1 \in 1 .. Turns /\ bucket \in [count : Nat, upper : IndexKeys]
  <2>1. splitAt + 1 \in 1 .. Turns
    BY <1>1, <1>3
  <2>2. oldTable.buckets \in Seq([count : Nat, upper : IndexKeys])
    BY <1>3 DEF TableOK
  <2>3. \A S, s : s \in Seq(S) => \A i \in 1 .. Len(s) : s[i] \in S
    OBVIOUS
  <2>4. oldTable.buckets[splitAt + 1] \in [count : Nat, upper : IndexKeys]
    BY <2>1, <2>2, <2>3 DEF Turns
  <2> QED BY <2>1, <2>4
<1>5. count \in Int
  <2> HIDE DEF bucket
  <2> QED BY <1>3, <1>4, OldChunksAssumption
<1>6. bucket.upper \in IndexKeys /\ bucket.upper \in Marks /\ bucket.upper # <<>>
  BY <1>4, KeysAreNotEnds DEF Marks
<1>7. chunk = ChunkOf(lowerValues, bucket.upper)
  BY <1>6 DEF ChunkOf, BoundAt
<1> HIDE DEF chunk, count
<1>8. SplitType'
  <2> HIDE DEF bucket
  <2> QED BY <1>1, <1>3, <1>4, <1>6 DEF SplitType
<1>9. ASSUME NoNull PROVE oldChunks' \in Seq(ChunkSet) /\ UpToMark' /\ AllTaken'
  <2>1. oldChunks \in Seq(ChunkSet) /\ UpToMark /\ splitAt <= Turns
    BY <1>1, <1>3, <1>9 DEF SplitInv
  <2>2. AllTaken'
    BY <1>1, <1>3 DEF AllTaken
  <2>3. CASE count = 0
    <3>1. oldChunks' = oldChunks /\ lowerValues' = lowerValues
      BY <1>1, <1>2, <2>3
    <3>2. \A b \in splitAt' + 1 .. Turns : b \in splitAt + 1 .. Turns
      BY <1>1, <1>3
    <3>3. UpToMark'
      BY <1>1, <1>3, <2>1, <3>1, <3>2 DEF UpToMark, Covers, Once, Reached
    <3> QED BY <2>1, <2>2, <3>1, <3>3
  <2>4. CASE count # 0
    <3> DEFINE up == bucket.upper
    <3>1. oldChunks' = oldChunks \o pieces /\ lowerValues' = up /\ up # <<>>
      BY <1>1, <1>2, <1>6, <2>4
    <3>2. Cut(pieces, lowerValues, up)
      <4>1. oldTable.rows \subseteq IndexKeys /\ IsFiniteSet(oldTable.rows)
        BY <1>3, <1>9 DEF NoNull, TableOK
      <4> QED BY <1>2, <1>3, <1>5, <1>6, <1>7, <4>1, RandomCuts
    <3>3. pieces \in Seq(ChunkSet)
      BY <3>2, PiecesAreChunks
    <3>4. NCols = 1 /\ lowerValues # <<>> => ~KeyLess(up, lowerValues)
      BY <1>4, <2>1 DEF UpToMark
    <3>5. \A b \in splitAt + 2 .. Turns : ~KeyLess(oldTable.buckets[b].upper, up)
      <4>1. \A b \in splitAt + 2 .. Turns : b \in 1 .. Turns /\ splitAt + 1 < b
        BY <1>3
      <4> QED BY <1>3, <1>4, <4>1 DEF TableOK
    <3> HIDE DEF up
    <3>6. ASSUME NEW r \in IndexKeys, ~KeyLess(up, r) PROVE Covers(oldChunks', r)
      <4>1. Reached(r) \/ Within(r, lowerValues, up)
        BY <3>6 DEF Reached, Within
      <4>2. CASE Reached(r)
        BY <2>1, <3>1, <3>3, <4>2, JoinedChunks DEF UpToMark
      <4>3. CASE Within(r, lowerValues, up)
        BY <1>3, <1>6, <2>1, <3>1, <3>2, <3>3, <4>3, CutKeepsRows, JoinedChunks DEF up
      <4> QED BY <4>1, <4>2, <4>3
    <3>7. ASSUME NEW r \in IndexKeys, NCols = 1
          PROVE  Once(oldChunks', r) /\ (Covers(oldChunks', r) => ~KeyLess(up, r))
      <4>1. Once(oldChunks, r) /\ (Covers(oldChunks, r) => Reached(r))
        BY <2>1, <3>7 DEF UpToMark
      <4>2. Once(pieces, r) /\ (Covers(pieces, r) => Within(r, lowerValues, up))
        BY <1>3, <1>6, <3>2, <3>7, CutKeepsRows DEF up
      <4>3. Once(oldChunks', r)
        <5>1. ~(Covers(oldChunks, r) /\ Covers(pieces, r))
          BY <4>1, <4>2 DEF Reached, Within
        <5> QED BY <2>1, <3>1, <3>3, <4>1, <4>2, <5>1, JoinedChunks
      <4>4. ASSUME Covers(oldChunks', r) PROVE ~KeyLess(up, r)
        <5>1. Reached(r) \/ Within(r, lowerValues, up)
          BY <2>1, <3>1, <3>3, <4>1, <4>2, <4>4, JoinedChunks
        <5>2. CASE Reached(r)
          <6>1. lowerValues \in IndexKeys /\ ~KeyLess(lowerValues, r) /\ ~KeyLess(up, lowerValues) /\ up \in IndexKeys
            BY <1>3, <1>6, <3>4, <3>7, <5>2 DEF Reached, Marks, up
          <6> QED BY <6>1, IndexOrder
        <5>3. CASE Within(r, lowerValues, up)
          BY <3>1, <5>3 DEF Within
        <5> QED BY <5>1, <5>2, <5>3
      <4> QED BY <4>3, <4>4
    <3>8. oldChunks' \in Seq(ChunkSet)
      BY <2>1, <3>1, <3>3, JoinedChunks
    <3>9. UpToMark'
      <4> SUFFICES ASSUME NEW chunks, chunks = oldChunks', NEW lower, lower = lowerValues'
                   PROVE  /\ lower # <<>>
                          /\ \A r \in IndexKeys : ~KeyLess(lower, r) => Covers(chunks, r)
                          /\ NCols = 1 =>
                                /\ \A r \in IndexKeys : (Covers(chunks, r) => ~KeyLess(lower, r)) /\ Once(chunks, r)
                                /\ \A b \in splitAt + 2 .. Turns : ~KeyLess(oldTable.buckets[b].upper, lower)
        BY <1>1, <1>3 DEF UpToMark, Reached, Covers, Once
      <4> QED BY <3>1, <3>5, <3>6, <3>7
    <3> QED BY <2>2, <3>8, <3>9
  <2> QED BY <2>3, <2>4
<1> QED BY <1>3, <1>8, <1>9 DEF SplitInv

\* The property of the finished split.
LEMMA SplitCovers ==
    ASSUME SplitInv
    PROVE  OldRowsCovered
<1> SUFFICES ASSUME splitAt = Len(oldTable.buckets) + 1, \A q \in oldTable.rows : Null \notin Range(q),
                    NEW r \in oldTable.rows
             PROVE  LET in == {i \in DOMAIN oldChunks : Where(oldChunks[i], r)}
                    IN  in # {} /\ (oldTable.buckets = <<>> \/ NCols = 1 => Cardinality(in) = 1)
  BY DEF OldRowsCovered
<1>1. NoNull
  <2>1. oldTable.rows \subseteq [Cols -> Int \cup {Null}]
    BY DEF SplitInv, SplitType, TableOK
  <2>2. \A q \in oldTable.rows : \A c \in Cols : q[c] # Null
    BY <2>1 DEF Range
  <2>3. \A q \in oldTable.rows : q \in IndexKeys
    BY <2>1, <2>2 DEF IndexKeys
  <2> QED BY <2>3 DEF NoNull
<1>2. Covers(oldChunks, r) /\ (oldTable.buckets = <<>> \/ NCols = 1 => Once(oldChunks, r))
  BY <1>1 DEF SplitInv, AllTaken, Turns, NoNull
<1> DEFINE in == {i \in DOMAIN oldChunks : Where(oldChunks[i], r)}
<1>3. PICK i \in DOMAIN oldChunks : Where(oldChunks[i], r)
  BY <1>2 DEF Covers
<1>4. ASSUME oldTable.buckets = <<>> \/ NCols = 1 PROVE Cardinality(in) = 1
  <2>1. in = {i}
    BY <1>2, <1>3, <1>4 DEF Once
  <2> HIDE DEF in
  <2> QED BY <2>1, FS_Singleton
<1> QED BY <1>3, <1>4

\* The chunks of a table without NULL lose no row, for any number of columns,
\* rows and buckets; those of random values alone, and those of an index with
\* one column, have each row once.
THEOREM OldChunksCover == CheckSpec => []OldRowsCovered
<1>1. CheckInit => SplitInv
  <2>1. \A t \in OldTables : TableOK(t)
    BY OldChunksAssumption DEF TableOK, IndexKeys
  <2>2. \A t \in {EmptyTable} : TableOK(t)
    <3>1. EmptyTable.rows = {} /\ EmptyTable.buckets = <<>>
      BY DEF EmptyTable
    <3>2. DOMAIN EmptyTable.buckets = {} /\ EmptyTable.buckets \in Seq([count : Nat, upper : IndexKeys])
      BY <3>1, KeysAreNotEnds
    <3>3. TableOK(EmptyTable)
      BY <3>1, <3>2, FS_EmptySet DEF TableOK
    <3> QED BY <3>3
  <2> QED BY <2>1, <2>2, SplitInitially DEF CheckInit
<1>2. SplitInv /\ [CheckNext]_checkVars => SplitInv'
  <2> SUFFICES ASSUME SplitInv, [CheckNext]_checkVars PROVE SplitInv'
    OBVIOUS
  <2>1. RandomSplit \/ BucketSplit \/ LastSplit \/ UNCHANGED splitVars
    BY DEF CheckNext, OfCheck, checkVars, SplitNext
  <2>2. CASE UNCHANGED splitVars
    BY <2>2 DEF splitVars, SplitInv, SplitType, Turns, NoNull, UpToMark, AllTaken, Reached, Covers, Once
  <2> QED BY <2>1, <2>2, RandomSplitStep, BucketSplitStep, LastSplitStep
<1>3. SplitInv => OldRowsCovered
  BY SplitCovers
<1> QED BY <1>1, <1>2, <1>3, PTL DEF CheckSpec
=============================================================================
