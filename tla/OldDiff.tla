------------------------------ MODULE OldDiff -------------------------------
(***************************************************************************)
(* The check of one table by the old library (TableDiff.Equal of           *)
(* pkg/diff/diff.go) with its checkpoint in two database tables            *)
(* (checkpoint.go).  A process may be killed at any point and started      *)
(* again, with the same or another configuration; the rows do not change.  *)
(*                                                                         *)
(* Chunks are numbered, and what comparing one finds is given, unless the  *)
(* target's stream breaks off, which nobody notices (OldRows).             *)
(* The checkpoint's chunk table is keyed by the table instance as well:    *)
(* chunks are inserted for the table they were split from, which is the    *)
(* target or the TiDB the statistics are of, and saved, loaded and deleted *)
(* for the target.                                                         *)
(***************************************************************************)
EXTENDS Integers, Sequences, FiniteSets, SequencesExt

CONSTANTS
    NChunks,        \* how many chunks the table is split into
    Threads,        \* CheckThreadCount
    QueueSize,      \* the capacity of a worker's queue, 10 in the code
    Batch,          \* the chunks of one INSERT, 100 in the code
    Configs,        \* the configurations: "all", and "sample" with Sample < 100
    SplitFrom,      \* "target" or "stats": the instance the chunks are split from
    Differences,    \* the sets of chunks that may differ
    MaxStarts,      \* bound on the runs
    MaxFaults,      \* bound on the crashes, cancellations and failed statements
    None

\* A row of the summary table.
SummaryRecord == [state : {"not_checked", "checking", "success", "failed"}, hash : Configs]

ASSUME OldDiffAssumption ==
    /\ NChunks \in Nat \ {0} /\ Threads \in Nat \ {0} /\ QueueSize \in Nat \ {0}
    /\ Batch \in Nat \ {0} /\ MaxStarts \in Nat /\ MaxFaults \in Nat /\ SplitFrom \in {"target", "stats"}
    /\ Differences \subseteq SUBSET (0 .. NChunks - 1) /\ None \notin SummaryRecord

Chunks == 0 .. NChunks - 1
Workers == 0 .. Threads - 1

VARIABLES
    differ,         \* the chunks in which a comparison that reads all rows finds
                    \* a difference: those whose data differs, and where the code
                    \* does not order keys as the queries do maybe others (OldRows)
    starts,         \* history: the runs so far
    faults,         \* history: the crashes, cancellations and failed statements
    missed,         \* history: the chunks whose stream of the target broke off
                    \* unnoticed since the checkpoint was last cleaned
    \* the checkpoint tables
    summary,        \* None or [state, hash]
    chunkRow,       \* the states of the rows of each instance
    \* the process
    main,           \* where Equal is
    config,
    cancelled,      \* ctx.Done
    state,          \* the states of the chunks in memory
    inserted,       \* the chunks initChunks has written
    fromCheckpoint,
    info,           \* summaryInfo: None or the counters
    unsent,         \* the chunks the dispatcher has not sent yet
    queue, worker,  \* the workers' queues and what each is doing
    results,        \* checkResultCh
    got, equalSoFar, result,
    writer, updater \* the goroutines of WriteSqls and UpdateSummaryInfo

past == <<starts, faults, missed>>
db == <<summary, chunkRow>>
loadVars == <<config, inserted, fromCheckpoint>>
pipe == <<unsent, queue, worker, results>>
tally == <<got, equalSoFar, result>>
helpers == <<writer, updater>>
oldVars == <<differ, past, db, main, cancelled, loadVars, state, info, pipe, tally, helpers>>

Off == [at |-> "off"]
Idle == [at |-> "idle"]
Gone == [at |-> "gone"]

NoRows == [k \in {"target", "stats"} |-> <<>>]

\* The rows of an instance after others are written.
Write(rows, new) ==
    [c \in DOMAIN rows \cup DOMAIN new |-> IF c \in DOMAIN new THEN new[c] ELSE rows[c]]

\* A process that is not running.
Fresh ==
    /\ main = "off" /\ config = None /\ cancelled = FALSE
    /\ state = <<>> /\ inserted = 0 /\ fromCheckpoint = FALSE /\ info = None
    /\ unsent = <<>> /\ queue = [w \in Workers |-> <<>>] /\ worker = [w \in Workers |-> Off]
    /\ results = <<>> /\ got = 0 /\ equalSoFar = TRUE /\ result = "none"
    /\ writer = "off" /\ updater = "off"

OldInit(differences) ==
    /\ differ \in differences
    /\ starts = 0 /\ faults = 0 /\ missed = {} /\ summary = None /\ chunkRow = NoRows
    /\ Fresh

\* Something goes wrong that nothing prevents.
Failure == faults < MaxFaults /\ faults' = faults + 1 /\ UNCHANGED starts
Fault == Failure /\ UNCHANGED missed

\* A new process has nothing in memory.
Restart(at, helper) ==
    /\ main' = at /\ cancelled' = FALSE
    /\ state' = <<>> /\ inserted' = 0 /\ fromCheckpoint' = FALSE /\ info' = None
    /\ unsent' = <<>> /\ queue' = [w \in Workers |-> <<>>] /\ worker' = [w \in Workers |-> Off]
    /\ results' = <<>> /\ got' = 0 /\ equalSoFar' = TRUE /\ result' = "none"
    /\ writer' = helper /\ updater' = helper

\* Equal up to CheckTableData.  Both helpers are running.
OldStart ==
    /\ main \in {"off", "done"} /\ starts < MaxStarts
    /\ starts' = starts + 1
    /\ config' \in Configs
    /\ Restart("load", "on")
    /\ UNCHANGED <<differ, faults, missed, db>>

\* The process is killed.
OldCrash ==
    /\ main \notin {"off", "done"} /\ Fault
    /\ config' = None
    /\ Restart("off", "off")
    /\ UNCHANGED <<differ, db>>

OldCancel ==
    /\ main \notin {"off", "done"} /\ ~cancelled /\ Fault
    /\ cancelled' = TRUE
    /\ UNCHANGED <<differ, db, main, loadVars, state, info, pipe, tally, helpers>>

-----------------------------------------------------------------------------
(* LoadCheckpoint and SplitChunks.  Every statement may fail, and Equal    *)
(* then returns the error; its helpers are left behind, without a summary  *)
(* to write.                                                               *)

\* Mutant: a checkpoint of another configuration is loaded.
MutLoadFromCheckPoint == summary # None /\ summary.state \notin {"success", "not_checked"}

loadFromCheckPoint ==
    summary # None /\ summary.hash = config /\ summary.state \notin {"success", "not_checked"}

\* UseCheckpoint is read only here.
LoadCheckpoint ==
    /\ main = "load"
    /\ \E UseCheckpoint \in BOOLEAN :
       IF UseCheckpoint /\ loadFromCheckPoint
       THEN /\ state' = chunkRow["target"]
            /\ fromCheckpoint' = (chunkRow["target"] # <<>>)
            /\ main' = IF chunkRow["target"] = <<>> THEN "split" ELSE "launch"
       ELSE main' = "clean summary" /\ UNCHANGED <<state, fromCheckpoint>>
    /\ UNCHANGED <<differ, past, db, cancelled, config, inserted, info, pipe, tally, helpers>>

\* cleanCheckpoint, in two statements, and initTableSummary.  The rows of all
\* instances of a name are deleted; those of the statistics have another name.
CleanSummary ==
    /\ main = "clean summary"
    /\ summary' = None /\ main' = "clean chunks"
    /\ UNCHANGED <<differ, past, chunkRow, cancelled, loadVars, state, info, pipe, tally, helpers>>

CleanChunks ==
    /\ main = "clean chunks"
    /\ chunkRow' = [chunkRow EXCEPT !["target"] = <<>>] /\ main' = "init summary"
    /\ missed' = {}
    /\ UNCHANGED <<differ, starts, faults, summary, cancelled, loadVars, state, info, pipe, tally, helpers>>

InitTableSummary ==
    /\ main = "init summary"
    /\ summary' = [state |-> "not_checked", hash |-> config] /\ main' = "split"
    /\ UNCHANGED <<differ, past, chunkRow, cancelled, loadVars, state, info, pipe, tally, helpers>>

\* SplitChunks, with initChunks batch by batch.  A row that exists makes the
\* INSERT fail.
NextBatch == inserted .. (IF inserted + Batch < NChunks THEN inserted + Batch ELSE NChunks) - 1
RowExists == main = "split" /\ DOMAIN chunkRow[SplitFrom] \cap NextBatch # {}

InitChunks ==
    /\ main = "split" /\ inserted < NChunks /\ ~RowExists
    /\ chunkRow' = [chunkRow EXCEPT ![SplitFrom] = Write(@, [c \in NextBatch |-> "not_checked"])]
    /\ inserted' = inserted + Cardinality(NextBatch)
    /\ UNCHANGED <<differ, past, summary, main, cancelled, config, fromCheckpoint,
                   state, info, pipe, tally, helpers>>

ChunksSplit ==
    /\ main = "split" /\ inserted = NChunks
    /\ state' = [c \in Chunks |-> "not_checked"] /\ inserted' = 0 /\ main' = "launch"
    /\ UNCHANGED <<differ, past, db, cancelled, config, fromCheckpoint, info, pipe, tally, helpers>>

LoadFails ==
    /\ main \in {"load", "clean summary", "clean chunks", "init summary", "split"}
    /\ ((cancelled \/ RowExists) /\ UNCHANGED past) \/ Fault
    /\ main' = "done" /\ result' = "error"
    /\ UNCHANGED <<differ, db, cancelled, loadVars, state, info, pipe, got, equalSoFar, helpers>>

\* The chunks as they are sent: in order when they were just split, as the
\* database returns their rows, in no order, when they were loaded.
SendOrders == IF fromCheckpoint THEN SetToSeqs(DOMAIN state) ELSE {[n \in 1 .. NChunks |-> n - 1]}

\* CheckTableData starts the workers and the dispatcher.
Launch ==
    /\ main = "launch"
    /\ info' = [total |-> Cardinality(DOMAIN state), success |-> 0, failed |-> 0, ignore |-> 0]
    /\ unsent' \in SendOrders
    /\ worker' = [w \in Workers |-> Idle] /\ main' = "collect"
    /\ UNCHANGED <<differ, past, db, cancelled, loadVars, state, queue, results, tally, helpers>>

-----------------------------------------------------------------------------
(* The workers.  The dispatcher closes the queues when it has sent all the *)
(* chunks, or at once when the context is done.                            *)

Dispatch ==
    /\ main \in {"collect", "wait"} /\ unsent # <<>>
    /\ LET c == Head(unsent)
           w == c % Threads
       IN \/ Len(queue[w]) < QueueSize /\ queue' = [queue EXCEPT ![w] = Append(@, c)] /\ unsent' = Tail(unsent)
          \/ cancelled /\ unsent' = <<>> /\ UNCHANGED queue
    /\ UNCHANGED <<differ, past, db, main, cancelled, loadVars, state, info, worker, results, tally, helpers>>

\* A row of the checkpoint is replaced.  A statement that fails is logged.
saveChunk(c, s) ==
    \/ ~cancelled /\ chunkRow' = [chunkRow EXCEPT !["target"] = Write(@, [d \in {c} |-> s])] /\ UNCHANGED past
    \/ cancelled /\ UNCHANGED <<past, chunkRow>>
    \/ ~cancelled /\ Fault /\ UNCHANGED chunkRow

\* A chunk that is done is reported equal.  Another is checked: it may be left
\* out by sampling, unless it comes from a checkpoint.
TakeChunk(w) ==
    /\ worker[w] = Idle /\ queue[w] # <<>>
    /\ LET c == Head(queue[w]) IN
       \/ /\ state[c] \in {"success", "ignore"}
          /\ worker' = [worker EXCEPT ![w] = [at |-> "report", eq |-> TRUE]]
          /\ UNCHANGED <<past, state, chunkRow>>
       \/ /\ state[c] \notin {"success", "ignore"}
          /\ config = "sample" /\ ~fromCheckpoint
          /\ worker' = [worker EXCEPT ![w] = [at |-> "finish", chunk |-> c, outcome |-> "ignore"]]
          /\ UNCHANGED <<past, state, chunkRow>>
       \/ /\ state[c] \notin {"success", "ignore"}
          /\ state' = [state EXCEPT ![c] = "checking"]
          /\ worker' = [worker EXCEPT ![w] = [at |-> "check", chunk |-> c]]
          /\ saveChunk(c, "checking")
    /\ queue' = [queue EXCEPT ![w] = Tail(@)]
    /\ UNCHANGED <<differ, summary, main, cancelled, loadVars, info, unsent, results, tally, helpers>>

\* compareChecksum and compareRows.  A statement to repair the target goes to
\* the writer, or not when the context is done.  Rows that the target's stream
\* kept back when it broke off are taken for missing, if a source has them, and
\* otherwise not found at all.
CheckChunk(w) ==
    /\ worker[w].at = "check"
    /\ LET c == worker[w].chunk IN
       \/ /\ c \in differ => writer = "on" \/ cancelled
          /\ worker' = [worker EXCEPT ![w] =
                [at |-> "finish", chunk |-> c, outcome |-> IF c \in differ THEN "failed" ELSE "success"]]
          /\ UNCHANGED past
       \/ \E o \in {"success", "failed"} :
          /\ o = "failed" => writer = "on" \/ cancelled
          /\ Failure /\ missed' = missed \cup {c}
          /\ worker' = [worker EXCEPT ![w] = [at |-> "finish", chunk |-> c, outcome |-> o]]
       \/ /\ (cancelled /\ UNCHANGED past) \/ Fault
          /\ worker' = [worker EXCEPT ![w] = [at |-> "finish", chunk |-> c, outcome |-> "error"]]
    /\ UNCHANGED <<differ, db, main, cancelled, loadVars, state, info, unsent, queue, results, tally, helpers>>

\* The deferred half of checkChunkDataEqual: the state, the counters and the
\* row of the checkpoint, which is not written when the context is done.
FinishChunk(w) ==
    /\ worker[w].at = "finish"
    /\ LET c == worker[w].chunk
           o == worker[w].outcome
       IN /\ state' = [state EXCEPT ![c] = o]
          /\ info' = CASE o = "success" -> [info EXCEPT !.success = @ + 1]
                       [] o = "ignore" -> [info EXCEPT !.ignore = @ + 1]
                       [] OTHER -> [info EXCEPT !.failed = @ + 1]
          /\ saveChunk(c, o)
          /\ worker' = [worker EXCEPT ![w] = [at |-> "report", eq |-> o \in {"success", "ignore"}]]
    /\ UNCHANGED <<differ, summary, main, cancelled, loadVars, unsent, queue, results, tally, helpers>>

\* The result goes into a channel with room for one of every worker.
ReportChunk(w) ==
    /\ worker[w].at = "report"
    /\ \/ /\ Len(results) < Threads /\ results' = Append(results, worker[w].eq)
          /\ worker' = [worker EXCEPT ![w] = Idle]
       \/ cancelled /\ worker' = [worker EXCEPT ![w] = Gone] /\ UNCHANGED results
    /\ UNCHANGED <<differ, past, db, main, cancelled, loadVars, state, info, unsent, queue, tally, helpers>>

\* The queue is closed and empty, or the context is done.
WorkerLeaves(w) ==
    /\ worker[w] = Idle
    /\ cancelled \/ (unsent = <<>> /\ queue[w] = <<>>)
    /\ worker' = [worker EXCEPT ![w] = Gone]
    /\ UNCHANGED <<differ, past, db, main, cancelled, loadVars, state, info, unsent, queue, results, tally, helpers>>

-----------------------------------------------------------------------------
(* Equal again, and its helpers.                                           *)

CollectResult ==
    /\ main = "collect"
    /\ \/ /\ results # <<>>
          /\ results' = Tail(results) /\ got' = got + 1
          /\ equalSoFar' = (equalSoFar /\ Head(results))
          /\ main' = IF got' = Cardinality(DOMAIN state) THEN "wait" ELSE main
       \/ /\ cancelled /\ equalSoFar' = FALSE /\ main' = "wait"
          /\ UNCHANGED <<results, got>>
    /\ UNCHANGED <<differ, past, db, cancelled, loadVars, state, info, unsent, queue, worker, result, helpers>>

\* Mutant: the context is not watched, and its end has stopped the writer.
MutStopWriter ==
    /\ main = "wait" /\ \A w \in Workers : worker[w] = Gone
    /\ writer = "on" /\ writer' = "stopping" /\ main' = "stop updater"
    /\ UNCHANGED <<differ, past, db, cancelled, loadVars, state, info, pipe, tally, updater>>

\* checkWg.Wait, then the writer is told to stop.
StopWriter ==
    /\ main = "wait" /\ \A w \in Workers : worker[w] = Gone
    /\ writer = "on" \/ cancelled
    /\ writer' = IF cancelled THEN writer ELSE "stopping"
    /\ main' = "stop updater"
    /\ UNCHANGED <<differ, past, db, cancelled, loadVars, state, info, pipe, tally, updater>>

StopUpdater ==
    /\ main = "stop updater"
    /\ updater = "on" \/ cancelled
    /\ updater' = IF cancelled THEN updater ELSE "stopping"
    /\ main' = "return"
    /\ UNCHANGED <<differ, past, db, cancelled, loadVars, state, info, pipe, tally, writer>>

\* wg.Wait.
Return ==
    /\ main = "return" /\ writer = "off" /\ updater = "off"
    /\ result' = (IF equalSoFar THEN "equal" ELSE "differ") /\ main' = "done"
    /\ UNCHANGED <<differ, past, db, cancelled, loadVars, state, info, pipe, got, equalSoFar, helpers>>

WriterEnds ==
    /\ writer = "stopping" \/ (writer = "on" /\ cancelled)
    /\ writer' = "off"
    /\ UNCHANGED <<differ, past, db, main, cancelled, loadVars, state, info, pipe, tally, updater>>

\* updateTableSummary: the state that the counters of this run come to.
SummaryState ==
    LET checked == info.success + info.failed + info.ignore
    IN CASE checked = 0 -> "not_checked"
         [] checked # 0 /\ checked = info.total /\ info.total = info.success + info.ignore -> "success"
         [] checked # 0 /\ checked = info.total /\ info.total # info.success + info.ignore -> "failed"
         [] OTHER -> "checking"

WriteSummary ==
    \/ /\ info # None /\ ~cancelled
       /\ summary' = [summary EXCEPT !.state = SummaryState] /\ UNCHANGED past
    \/ (info = None \/ cancelled) /\ UNCHANGED <<summary, past>>
    \/ info # None /\ ~cancelled /\ Fault /\ UNCHANGED summary

\* The ticker, and the last update when the updater ends.
Tick ==
    /\ updater = "on" /\ info # None /\ ~cancelled
    /\ summary' = [summary EXCEPT !.state = SummaryState]
    /\ UNCHANGED <<differ, past, chunkRow, main, cancelled, loadVars, state, info, pipe, tally, helpers>>

UpdaterEnds ==
    /\ updater = "stopping" \/ (updater = "on" /\ cancelled)
    /\ WriteSummary /\ updater' = "off"
    /\ UNCHANGED <<differ, chunkRow, main, cancelled, loadVars, state, info, pipe, tally, writer>>

WorkerStep(w) == TakeChunk(w) \/ CheckChunk(w) \/ FinishChunk(w) \/ ReportChunk(w) \/ WorkerLeaves(w)

MainStep ==
    \/ LoadCheckpoint \/ CleanSummary \/ CleanChunks \/ InitTableSummary \/ InitChunks \/ ChunksSplit
    \/ LoadFails \/ Launch \/ CollectResult \/ StopWriter \/ StopUpdater \/ Return

OldNext ==
    \/ OldStart \/ OldCrash \/ OldCancel \/ MainStep \/ Dispatch \/ Tick
    \/ WriterEnds \/ UpdaterEnds
    \/ \E w \in Workers : WorkerStep(w)

-----------------------------------------------------------------------------
\* What a run says is true of the data but for the streams of the target that
\* broke off unnoticed: it says equal only when every chunk that differs is one
\* whose stream did, in this run or in one it resumes, and not equal only when
\* a chunk is not, a stream broke off, a chunk met an error or the run was
\* cancelled.  Of what differs a summary that says success misses no more.  All
\* hold when the chunks were split from the target: otherwise a chunk that was
\* not started is not in the checkpoint of the target, and a resumed run never
\* looks at it.  "Equal tests whether two database have same data"
\* (diff.go:129) is thus true but for what was missed.
OldVerdictSound ==
    SplitFrom = "target" =>
        /\ result = "equal" /\ config = "all" => differ \subseteq missed
        /\ result = "differ" => differ \cup missed # {} \/ cancelled \/ \E c \in DOMAIN state : state[c] = "error"
        /\ summary # None /\ summary.state = "success" /\ summary.hash = "all" => differ \subseteq missed

\* A run ends, whether or not it is cancelled on the way.
OldRunEnds == main = "load" ~> main \in {"off", "done"}
=============================================================================
