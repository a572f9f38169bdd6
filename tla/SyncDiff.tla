------------------------------ MODULE SyncDiff ------------------------------
(***************************************************************************)
(* The data check of sync_diff_inspector (diff.go, Equal and what it       *)
(* starts): the goroutines and channels of one run of the process, the     *)
(* files it leaves behind, and what a later run makes of them.             *)
(*                                                                         *)
(*   ChunksIterator.produceChunks --chunksCh--> Equal --pool--> consume    *)
(*     consume --report--> Report,  consume --sqlCh--> writeSQLs           *)
(*     writeSQLs --> fix-SQL file, then Checkpoint.Insert (heap)           *)
(*     handleCheckpoints: heap --> CurrentSavedNode --> checkpoint file    *)
(*                                                                         *)
(* The databases are the environment: comparing a chunk yields any outcome *)
(* the code tells apart.  A run may be killed, or end itself by log.Fatal, *)
(* between any two steps; the checkpoint file and the fix-SQL files stay.  *)
(***************************************************************************)
EXTENDS Report

CONSTANTS
    Nil,            \* "no value"
    Workers,        \* the consumer pool, check-thread-count of them
    SplitThreads,   \* limit of the producer pool (splitThreadCount)
    ChunksCap,      \* capacity of chunksCh (30 * splitThreadCount)
    SqlCap,         \* capacity of sqlCh (DefaultChannelBuffer)
    Outcomes,       \* what comparing a chunk may yield
    MaxRuns         \* bound on the number of runs of the process

\* equal: what consume returns; sqls: whether dml.sqls ends up non-empty;
\* err: whether SetTableMeetError was called on the way.
OutcomeType == [equal : BOOLEAN, sqls : BOOLEAN, err : BOOLEAN]

Skipped == [equal |-> TRUE, sqls |-> FALSE, err |-> FALSE]
LackOutcome == [equal |-> FALSE, sqls |-> FALSE, err |-> FALSE]

\* Statements are only produced for rows that differ, and rows that differ
\* make the chunk unequal (compareRows); a failed checksum is unequal.
ASSUME SyncDiffAssumption ==
    /\ Nil \notin Plan /\ Nil \notin OutcomeType
    /\ Nil \notin [node : Plan, rep : ReportType]
    /\ Outcomes \subseteq {o \in OutcomeType : o.sqls => ~o.equal}
    /\ SplitThreads \in Nat \ {0} /\ ChunksCap \in Nat \ {0}
    /\ SqlCap \in Nat \ {0} /\ MaxRuns \in Nat

VARIABLES
    pc, held, exitErr, start,                     \* Equal
    nextTable, prod, chunksCh, chunksOpen, errCh, \* ChunksIterator
    worker,                                       \* consume
    sqlCh, sqlOpen, writer,                       \* writeSQLs
    heap, saved, ck,                              \* Checkpoint, handleCheckpoints
    rep, result,                                  \* Report
    ckpt, files,                                  \* on disk
    verdict, prodFailed, runs                     \* history

mainVars == <<pc, held, exitErr, start>>
iterVars == <<nextTable, prod, chunksCh, chunksOpen, errCh, prodFailed>>
sqlVars  == <<sqlCh, sqlOpen, writer>>
cpVars   == <<heap, saved, ck>>
repVars  == <<rep, result>>
vars == <<mainVars, iterVars, worker, sqlVars, cpVars, repVars, ckpt, files,
          verdict, runs>>

NoProducer == [st |-> "todo", cur |-> <<>>, slices |-> {}, errs |-> 0]
IdleWorker == [ph |-> "idle", node |-> Nil, out |-> Skipped]
IdleWriter == [ph |-> "idle", node |-> Nil, out |-> Skipped]
IdleCk     == [ph |-> "idle", cur |-> Nil, rep |-> InitReport, last |-> FALSE]

\* The process is up and Equal has started its goroutines.
Equalling == pc \notin {"down", "struct", "equal"}

\* The table and chunk from which a run resumes.
StartIndex == IF start = Nil THEN 0 ELSE start.table

-----------------------------------------------------------------------------
(* The end of a process: all but the files is gone.                        *)

Volatile ==
    /\ pc' = "down" /\ held' = Nil /\ exitErr' = FALSE /\ start' = Nil
    /\ nextTable' = 0 /\ prod' = [t \in Tables |-> NoProducer]
    /\ chunksCh' = <<>> /\ chunksOpen' = TRUE /\ errCh' = 0 /\ prodFailed' = FALSE
    /\ worker' = [w \in Workers |-> IdleWorker]
    /\ sqlCh' = <<>> /\ sqlOpen' = TRUE /\ writer' = IdleWriter
    /\ heap' = {} /\ saved' = InitNode /\ ck' = IdleCk
    /\ rep' = InitReport /\ result' = "pass"

Init ==
    /\ pc = "down" /\ held = Nil /\ exitErr = FALSE /\ start = Nil
    /\ nextTable = 0 /\ prod = [t \in Tables |-> NoProducer]
    /\ chunksCh = <<>> /\ chunksOpen = TRUE /\ errCh = 0 /\ prodFailed = FALSE
    /\ worker = [w \in Workers |-> IdleWorker]
    /\ sqlCh = <<>> /\ sqlOpen = TRUE /\ writer = IdleWriter
    /\ heap = {} /\ saved = InitNode /\ ck = IdleCk
    /\ rep = InitReport /\ result = "pass"
    /\ ckpt = Nil /\ files = [c \in Plan |-> "none"]
    /\ verdict = [c \in Plan |-> Nil] /\ runs = 0

\* The process is killed, or a log.Fatal of any goroutine ends it.
Crash ==
    /\ pc # "down"
    /\ Volatile
    /\ UNCHANGED <<ckpt, files, verdict, runs>>

-----------------------------------------------------------------------------
(* NewDiff and StructEqual.                                                *)

\* Mutant: the files of later chunks are left where they are.
MutRemoveSQLFiles(fs, c) == fs

\* removeSQLFiles: every file of a chunk after c goes to the trash.
RemoveSQLFiles(fs, c) ==
    [d \in Plan |-> IF ComparesLess(c, d) THEN "none" ELSE fs[d]]

\* initCheckpoint: take up the checkpoint file if there is one.  The verdicts
\* on chunks after the checkpoint are forgotten: they are checked again.
StartRun ==
    /\ pc = "down" /\ runs < MaxRuns
    /\ runs' = runs + 1
    /\ pc' = "struct"
    /\ start' = IF ckpt = Nil THEN Nil ELSE ckpt.node
    /\ saved' = IF ckpt = Nil THEN InitNode ELSE ckpt.node
    /\ rep' = IF ckpt = Nil THEN InitReport ELSE LoadReport(ckpt.rep)
    /\ files' = RemoveSQLFiles(files, saved')
    /\ verdict' = [c \in Plan |-> IF ComparesLess(saved', c) THEN Nil ELSE verdict[c]]
    /\ UNCHANGED <<held, exitErr, iterVars, worker, sqlVars, heap, ck, result, ckpt>>

\* NewDiff fails after the checkpoint directory is known (the file cannot be
\* read, or removeSQLFiles stops after it has moved some files): Close removes
\* the checkpoint file.
StartRunFails ==
    /\ pc = "down" /\ runs < MaxRuns
    /\ runs' = runs + 1
    /\ \E gone \in SUBSET {c \in Plan :
            /\ files[c] # "none"
            /\ ComparesLess(IF ckpt = Nil THEN InitNode ELSE ckpt.node, c)} :
         files' = [c \in Plan |-> IF c \in gone THEN "none" ELSE files[c]]
    /\ ckpt' = Nil
    /\ UNCHANGED <<mainVars, iterVars, worker, sqlVars, cpVars, repVars, verdict>>

\* StructEqual compares the tables from the start range's table on.
StructEqual ==
    /\ pc = "struct"
    /\ pc' = "equal"
    /\ rep' = SetTableStructCheckResult(rep, StartIndex)
    /\ result' = ResultAfterStruct(result, StartIndex)
    /\ UNCHANGED <<held, exitErr, start, iterVars, worker, sqlVars, cpVars, ckpt,
                   files, verdict, runs>>

\* Equal, up to its loop.  The producer starts with the table of the start
\* range, or with the one after it when the start range is an Empty chunk.
BeginEqual ==
    /\ pc = "equal"
    /\ pc' = "next"
    /\ nextTable' = IF start # Nil /\ start.type = "empty" THEN StartIndex + 1
                    ELSE StartIndex
    /\ UNCHANGED <<held, exitErr, start, prod, chunksCh, chunksOpen, errCh, prodFailed,
                   worker, sqlVars, cpVars, repVars, ckpt, files, verdict, runs>>

-----------------------------------------------------------------------------
(* ChunksIterator.produceChunks and the splitters' iterators.              *)

RunningTables == {t \in Tables : prod[t].st = "run"}

\* pool.Apply of the next table, and AnalyzeSplitter when it succeeds.
StartTable ==
    /\ Equalling
    /\ nextTable < NTables
    /\ Cardinality(RunningTables) < SplitThreads
    /\ nextTable' = nextTable + 1
    /\ prod' = [prod EXCEPT ![nextTable] =
                  [NoProducer EXCEPT
                     !.st = "run",
                     !.slices = IF start # Nil /\ nextTable = start.table
                                THEN RestSlices(start) ELSE AllSlices(nextTable)]]
    /\ UNCHANGED <<mainVars, chunksCh, chunksOpen, errCh, prodFailed, worker, sqlVars,
                   cpVars, repVars, ckpt, files, verdict, runs>>

\* AnalyzeSplitter fails: the table is given up with an error in errCh.
AnalyzeFails ==
    /\ Equalling
    /\ nextTable < NTables
    /\ Split[nextTable] # "empty"
    /\ Cardinality(RunningTables) < SplitThreads
    /\ nextTable' = nextTable + 1
    /\ prod' = [prod EXCEPT ![nextTable].st = "done"]
    /\ errCh' = errCh + 1
    /\ prodFailed' = TRUE
    /\ UNCHANGED <<mainVars, chunksCh, chunksOpen, worker, sqlVars, cpVars, repVars,
                   ckpt, files, verdict, runs>>

\* Splitting bucket group s fails, or produceChunks gives up at it and at
\* every later group.  The error goes to the iterator's errCh.
SplitFails(t) ==
    /\ prod[t].st = "run" /\ Split[t] = "bucket"
    /\ prod[t].errs < 2
    /\ \E s \in prod[t].slices :
         \E drop \in {{s}, {r \in prod[t].slices : Head(s).left <= Head(r).left}} :
            prod' = [prod EXCEPT ![t].slices = @ \ drop, ![t].errs = @ + 1]
    /\ prodFailed' = TRUE
    /\ UNCHANGED <<mainVars, nextTable, chunksCh, chunksOpen, errCh, worker, sqlVars,
                   cpVars, repVars, ckpt, files, verdict, runs>>

\* iterator.Next yields a chunk, which is sent on chunksCh.  The slices of a
\* table arrive in any order, since groups are split concurrently.
SendChunk(t) ==
    /\ prod[t].st = "run"
    /\ Len(chunksCh) < ChunksCap
    /\ \E s \in IF prod[t].cur = <<>> THEN prod[t].slices ELSE {prod[t].cur} :
         /\ chunksCh' = Append(chunksCh, Head(s))
         /\ prod' = [prod EXCEPT ![t].cur = Tail(s), ![t].slices = @ \ {s}]
    /\ UNCHANGED <<mainVars, nextTable, chunksOpen, errCh, prodFailed, worker, sqlVars,
                   cpVars, repVars, ckpt, files, verdict, runs>>

\* iterator.Next yields the error: the rest of the table is given up.
IterFails(t) ==
    /\ prod[t].st = "run" /\ prod[t].cur = <<>> /\ prod[t].errs > 0
    /\ prod' = [prod EXCEPT ![t].st = "done", ![t].slices = {}]
    /\ errCh' = errCh + 1
    /\ UNCHANGED <<mainVars, nextTable, chunksCh, chunksOpen, prodFailed, worker, sqlVars,
                   cpVars, repVars, ckpt, files, verdict, runs>>

\* iterator.Next finds its channel closed.  One error may be waiting in the
\* iterator's errCh, whose capacity is 1, and is then never read; a second
\* one keeps the splitting goroutine, and so the channel, open.
IterEnds(t) ==
    /\ prod[t].st = "run" /\ prod[t].cur = <<>> /\ prod[t].slices = {}
    /\ prod[t].errs <= 1
    /\ prod' = [prod EXCEPT ![t].st = "done"]
    /\ UNCHANGED <<mainVars, nextTable, chunksCh, chunksOpen, errCh, prodFailed, worker,
                   sqlVars, cpVars, repVars, ckpt, files, verdict, runs>>

\* pool.WaitFinished, then the deferred close(chunksCh).
CloseChunks ==
    /\ Equalling /\ chunksOpen
    /\ nextTable = NTables /\ RunningTables = {}
    /\ chunksOpen' = FALSE
    /\ UNCHANGED <<mainVars, nextTable, prod, chunksCh, errCh, prodFailed, worker, sqlVars,
                   cpVars, repVars, ckpt, files, verdict, runs>>

-----------------------------------------------------------------------------
(* Equal: the loop and the deferred shutdown.                              *)

NextChunk ==
    /\ pc = "next" /\ chunksCh # <<>>
    /\ held' = Head(chunksCh)
    /\ chunksCh' = Tail(chunksCh)
    /\ pc' = "apply"
    /\ UNCHANGED <<exitErr, start, nextTable, prod, chunksOpen, errCh, prodFailed, worker,
                   sqlVars, cpVars, repVars, ckpt, files, verdict, runs>>

\* The select of ChunksIterator.Next has no preference: with the channel
\* closed and an error waiting it may return either.
NextErr ==
    /\ pc = "next" /\ errCh > 0
    /\ errCh' = errCh - 1
    /\ exitErr' = TRUE
    /\ pc' = "pool"
    /\ UNCHANGED <<held, start, nextTable, prod, chunksCh, chunksOpen, prodFailed, worker,
                   sqlVars, cpVars, repVars, ckpt, files, verdict, runs>>

NextEnd ==
    /\ pc = "next" /\ chunksCh = <<>> /\ ~chunksOpen
    /\ pc' = "pool"
    /\ UNCHANGED <<held, exitErr, start, iterVars, worker, sqlVars, cpVars, repVars, ckpt,
                   files, verdict, runs>>

\* pool.Apply waits for an idle worker.
Apply(w) ==
    /\ pc = "apply" /\ worker[w].ph = "idle"
    /\ worker' = [worker EXCEPT ![w] = [IdleWorker EXCEPT !.ph = "compare", !.node = held]]
    /\ held' = Nil
    /\ pc' = "next"
    /\ UNCHANGED <<exitErr, start, iterVars, sqlVars, cpVars, repVars, ckpt, files,
                   verdict, runs>>

-----------------------------------------------------------------------------
\* Mutant: close(sqlCh) does not wait for the consumers.
MutWaitPool ==
    /\ pc = "pool"
    /\ sqlOpen' = FALSE
    /\ pc' = "sql"
    /\ UNCHANGED <<held, exitErr, start, iterVars, worker, sqlCh, writer, cpVars, repVars,
                   ckpt, files, verdict, runs>>

\* pool.WaitFinished, close(df.sqlCh)
WaitPool ==
    /\ pc = "pool"
    /\ \A w \in Workers : worker[w].ph = "idle"
    /\ sqlOpen' = FALSE
    /\ pc' = "sql"
    /\ UNCHANGED <<held, exitErr, start, iterVars, worker, sqlCh, writer, cpVars, repVars,
                   ckpt, files, verdict, runs>>

\* df.sqlWg.Wait
WaitSql ==
    /\ pc = "sql" /\ writer.ph = "exit"
    /\ pc' = "stop"
    /\ UNCHANGED <<held, exitErr, start, iterVars, worker, sqlVars, cpVars, repVars, ckpt,
                   files, verdict, runs>>

\* stopCh <- struct{}{}: handleCheckpoints must be in its select; it leaves
\* the loop and runs its deferred flush.
Stop ==
    /\ pc = "stop" /\ ck.ph = "idle"
    /\ pc' = "ckpt"
    /\ ck' = [ck EXCEPT !.ph = "pop", !.last = TRUE]
    /\ UNCHANGED <<held, exitErr, start, iterVars, worker, sqlVars, heap, saved, repVars,
                   ckpt, files, verdict, runs>>

\* df.checkpointWg.Wait, and Equal returns nil
WaitCkpt ==
    /\ pc = "ckpt" /\ ck.ph = "exit" /\ ~exitErr
    /\ pc' = "summary"
    /\ UNCHANGED <<held, exitErr, start, iterVars, worker, sqlVars, cpVars, repVars, ckpt,
                   files, verdict, runs>>

\* df.checkpointWg.Wait, Equal returns the error, checkSyncState ends the
\* process by log.Fatal: no Close, the checkpoint file stays.
Fatal ==
    /\ pc = "ckpt" /\ ck.ph = "exit" /\ exitErr
    /\ Volatile
    /\ UNCHANGED <<ckpt, files, verdict, runs>>

\* PrintSummary and the deferred Close, which removes the checkpoint file.
Close ==
    /\ pc = "summary"
    /\ ckpt' = Nil
    /\ Volatile
    /\ UNCHANGED <<files, verdict, runs>>

-----------------------------------------------------------------------------
(* consume, in a worker of the pool.                                       *)

\* An Empty chunk: nothing is compared; a lacking table counts as unequal.
ConsumeEmpty(w) ==
    LET c == worker[w].node
        o == IF c.table \in Lack THEN LackOutcome ELSE Skipped
    IN  /\ worker[w].ph = "compare" /\ c.type = "empty"
        /\ rep' = SetTableDataCheckResult(rep, c, o.equal)
        /\ result' = ResultAfterData(result, rep, c, o.equal)
        /\ worker' = [worker EXCEPT ![w].ph = "send", ![w].out = o]
        /\ UNCHANGED <<mainVars, iterVars, sqlVars, cpVars, ckpt, files, verdict, runs>>

\* compareChecksumAndGetCount, BinGenerate and compareRows, with the call of
\* SetTableMeetError when one of them fails.
ConsumeCompare(w) ==
    /\ worker[w].ph = "compare" /\ worker[w].node.type # "empty"
    /\ \E o \in Outcomes :
         /\ worker' = [worker EXCEPT ![w].ph = "report", ![w].out = o]
         /\ result' = ResultAfterError(result, o.err)
    /\ UNCHANGED <<mainVars, iterVars, sqlVars, cpVars, rep, ckpt, files, verdict, runs>>

ConsumeReport(w) ==
    LET c == worker[w].node
        o == worker[w].out
    IN  /\ worker[w].ph = "report"
        /\ rep' = SetTableDataCheckResult(rep, c, o.equal)
        /\ result' = ResultAfterData(result, rep, c, o.equal)
        /\ worker' = [worker EXCEPT ![w].ph = "send"]
        /\ UNCHANGED <<mainVars, iterVars, sqlVars, cpVars, ckpt, files, verdict, runs>>

\* The deferred df.sqlCh <- dml, after which the worker is free again.
ConsumeSend(w) ==
    /\ worker[w].ph = "send"
    /\ Len(sqlCh) < SqlCap
    /\ sqlCh' = Append(sqlCh, [node |-> worker[w].node, out |-> worker[w].out])
    /\ worker' = [worker EXCEPT ![w] = IdleWorker]
    /\ UNCHANGED <<mainVars, iterVars, sqlOpen, writer, cpVars, repVars, ckpt, files,
                   verdict, runs>>

-----------------------------------------------------------------------------
(* writeSQLs.                                                              *)

WriterTake ==
    /\ Equalling /\ writer.ph = "idle" /\ sqlCh # <<>>
    /\ writer' = [ph   |-> IF Head(sqlCh).out.sqls THEN "create" ELSE "insert",
                  node |-> Head(sqlCh).node, out |-> Head(sqlCh).out]
    /\ sqlCh' = Tail(sqlCh)
    /\ UNCHANGED <<mainVars, iterVars, worker, sqlOpen, cpVars, repVars, ckpt, files,
                   verdict, runs>>

\* Mutant: the file is created and left to be written later.
MutWriterCreate ==
    /\ writer.ph = "create"
    /\ IF files[writer.node] # "none"
       THEN Volatile /\ UNCHANGED files
       ELSE /\ files' = [files EXCEPT ![writer.node] = "partial"]
            /\ writer' = [writer EXCEPT !.ph = "insert"]
            /\ UNCHANGED <<mainVars, iterVars, worker, sqlCh, sqlOpen, cpVars, repVars>>
    /\ UNCHANGED <<ckpt, verdict, runs>>

\* os.Create, unless the file exists: "repeat sql happen" is a log.Fatal.
WriterCreate ==
    /\ writer.ph = "create"
    /\ IF files[writer.node] # "none"
       THEN Volatile /\ UNCHANGED files
       ELSE /\ files' = [files EXCEPT ![writer.node] = "partial"]
            /\ writer' = [writer EXCEPT !.ph = "write"]
            /\ UNCHANGED <<mainVars, iterVars, worker, sqlCh, sqlOpen, cpVars, repVars>>
    /\ UNCHANGED <<ckpt, verdict, runs>>

WriterWrite ==
    /\ writer.ph = "write"
    /\ files' = [files EXCEPT ![writer.node] = "full"]
    /\ writer' = [writer EXCEPT !.ph = "insert"]
    /\ UNCHANGED <<mainVars, iterVars, worker, sqlCh, sqlOpen, cpVars, repVars, ckpt,
                   verdict, runs>>

\* Checkpoint.Insert takes the mutex that GetChunkSnapshot holds while it pops.
WriterInsert ==
    /\ writer.ph = "insert" /\ ck.ph # "pop"
    /\ heap' = heap \cup {writer.node}
    /\ verdict' = [verdict EXCEPT ![writer.node] = writer.out]
    /\ writer' = IdleWriter
    /\ UNCHANGED <<mainVars, iterVars, worker, sqlCh, sqlOpen, saved, ck, repVars, ckpt,
                   files, runs>>

\* Mutant: an empty channel is taken for a closed one.
MutWriterExit ==
    /\ Equalling /\ writer.ph = "idle" /\ sqlCh = <<>>
    /\ writer' = [writer EXCEPT !.ph = "exit"]
    /\ UNCHANGED <<mainVars, iterVars, worker, sqlCh, sqlOpen, cpVars, repVars, ckpt,
                   files, verdict, runs>>

WriterExit ==
    /\ writer.ph = "idle" /\ sqlCh = <<>> /\ ~sqlOpen
    /\ writer' = [writer EXCEPT !.ph = "exit"]
    /\ UNCHANGED <<mainVars, iterVars, worker, sqlCh, sqlOpen, cpVars, repVars, ckpt,
                   files, verdict, runs>>

-----------------------------------------------------------------------------
(* handleCheckpoints: flush every ten seconds and once at the end.         *)

FlushTimer ==
    /\ Equalling /\ ck.ph = "idle"
    /\ ck' = [ck EXCEPT !.ph = "pop"]
    /\ UNCHANGED <<mainVars, iterVars, worker, sqlVars, heap, saved, repVars, ckpt, files,
                   verdict, runs>>

\* The top of the heap.
IsMin(m) == m \in heap /\ \A n \in heap : ~IsLess(n, m)

\* Mutant: the heap is emptied without asking for adjacency.
MutPopAdjacent ==
    /\ ck.ph = "pop"
    /\ \E m \in heap :
         /\ IsMin(m)
         /\ saved' = m
         /\ heap' = heap \ {m}
         /\ ck' = [ck EXCEPT !.cur = m]
    /\ UNCHANGED <<mainVars, iterVars, worker, sqlVars, repVars, ckpt, files, verdict, runs>>

\* GetChunkSnapshot, one turn of its loop, under the mutex.
PopAdjacent ==
    /\ ck.ph = "pop"
    /\ \E m \in heap :
         /\ IsMin(m)
         /\ IsAdjacent(saved, m)
         /\ saved' = m
         /\ heap' = heap \ {m}
         /\ ck' = [ck EXCEPT !.cur = m]
    /\ UNCHANGED <<mainVars, iterVars, worker, sqlVars, repVars, ckpt, files, verdict, runs>>

FlushDone == IF ck.last THEN [IdleCk EXCEPT !.ph = "exit"] ELSE IdleCk

\* Mutant: the nil check on the returned node is missing.
MutPopEnds ==
    /\ ck.ph = "pop"
    /\ \A m \in heap : IsMin(m) => ~IsAdjacent(saved, m)
    /\ ck' = [ck EXCEPT !.ph = "report"]
    /\ UNCHANGED <<mainVars, iterVars, worker, sqlVars, heap, saved, repVars, ckpt, files,
                   verdict, runs>>

\* GetChunkSnapshot returns; without a new node there is nothing to save.
PopEnds ==
    /\ ck.ph = "pop"
    /\ \A m \in heap : IsMin(m) => ~IsAdjacent(saved, m)
    /\ ck' = IF ck.cur = Nil THEN FlushDone ELSE [ck EXCEPT !.ph = "report"]
    /\ UNCHANGED <<mainVars, iterVars, worker, sqlVars, heap, saved, repVars, ckpt, files,
                   verdict, runs>>

\* report.GetSnapshot, under the report's lock
SnapshotReport ==
    /\ ck.ph = "report"
    /\ ck' = [ck EXCEPT !.ph = "save", !.rep = GetSnapshot(rep, ck.cur)]
    /\ UNCHANGED <<mainVars, iterVars, worker, sqlVars, heap, saved, repVars, ckpt, files,
                   verdict, runs>>

\* SaveChunk replaces the file atomically.
SaveChunk ==
    /\ ck.ph = "save"
    /\ ckpt' = [node |-> ck.cur, rep |-> ck.rep]
    /\ ck' = FlushDone
    /\ UNCHANGED <<mainVars, iterVars, worker, sqlVars, heap, saved, repVars, files,
                   verdict, runs>>

\* SaveChunk fails: a warning is logged, the old file stays.
SaveChunkFails ==
    /\ ck.ph = "save"
    /\ ck' = FlushDone
    /\ UNCHANGED <<mainVars, iterVars, worker, sqlVars, heap, saved, repVars, ckpt, files,
                   verdict, runs>>

-----------------------------------------------------------------------------
Main == NextChunk \/ NextErr \/ NextEnd \/ (\E w \in Workers : Apply(w))
        \/ StructEqual \/ BeginEqual \/ WaitPool \/ WaitSql \/ WaitCkpt \/ Fatal \/ Close

Producer == StartTable \/ AnalyzeFails \/ CloseChunks

Produce(t) == SendChunk(t) \/ IterFails(t) \/ IterEnds(t)

Consume(w) == ConsumeEmpty(w) \/ ConsumeCompare(w) \/ ConsumeReport(w) \/ ConsumeSend(w)

Writer == WriterTake \/ WriterCreate \/ WriterWrite \/ WriterInsert \/ WriterExit

Flush == PopAdjacent \/ PopEnds \/ SnapshotReport \/ SaveChunk \/ SaveChunkFails

\* No run is left: the end of every behaviour.
Finished == pc = "down" /\ runs = MaxRuns /\ UNCHANGED vars

Next ==
    \/ StartRun \/ StartRunFails \/ Crash
    \/ Main \/ Stop \/ Producer
    \/ \E t \in Tables : Produce(t) \/ SplitFails(t)
    \/ \E w \in Workers : Consume(w)
    \/ Writer \/ FlushTimer \/ Flush
    \/ Finished

Spec == Init /\ [][Next]_vars
=============================================================================
