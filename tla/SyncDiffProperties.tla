------------------------- MODULE SyncDiffProperties -------------------------
(***************************************************************************)
(* What must hold of the data check modelled in SyncDiff.                  *)
(***************************************************************************)
EXTENDS SyncDiff

ChunkOrNil == Plan \cup {Nil}

DMLType == [node : Plan, out : OutcomeType]

ProducerType ==
    [st : {"todo", "run", "done"}, cur : Seq(Plan),
     slices : SUBSET (Seq(Plan) \ {<<>>}), errs : Nat]

WorkerType ==
    [ph : {"idle", "compare", "report", "send"}, node : ChunkOrNil, out : OutcomeType]

WriterType ==
    [ph : {"idle", "create", "write", "insert", "exit"}, node : ChunkOrNil,
     out : OutcomeType]

CkType ==
    [ph : {"idle", "pop", "report", "save", "exit"}, cur : ChunkOrNil,
     rep : ReportType, last : BOOLEAN]

MainType ==
    /\ pc \in {"down", "struct", "equal", "next", "apply", "pool", "sql", "stop",
               "ckpt", "summary"}
    /\ held \in ChunkOrNil /\ start \in ChunkOrNil
    /\ pc = "apply" <=> held # Nil
    /\ exitErr \in BOOLEAN

IterType ==
    /\ nextTable \in 0 .. NTables
    /\ prod \in [Tables -> ProducerType]
    /\ chunksCh \in Seq(Plan)
    /\ chunksOpen \in BOOLEAN /\ errCh \in Nat /\ prodFailed \in BOOLEAN

PoolType ==
    /\ worker \in [Workers -> WorkerType]
    /\ \A w \in Workers : worker[w].ph # "idle" => worker[w].node # Nil

SqlType ==
    /\ sqlCh \in Seq(DMLType) /\ sqlOpen \in BOOLEAN
    /\ writer \in WriterType
    /\ writer.ph \in {"create", "write", "insert"} => writer.node # Nil

CpType ==
    /\ heap \subseteq Plan
    /\ saved \in Plan \cup {InitNode}
    /\ ck \in CkType
    /\ ck.ph \in {"report", "save"} => ck.cur # Nil

DiskType ==
    /\ ckpt \in [node : Plan, rep : ReportType] \cup {Nil}
    /\ files \in [Plan -> {"none", "partial", "full"}]
    /\ verdict \in [Plan -> OutcomeType \cup {Nil}]
    /\ runs \in 0 .. MaxRuns

\* Every variable has the shape its Go counterpart can have: the goroutines
\* are in one of their steps, the channels hold chunks, the files are those
\* of chunks.
TypeOK ==
    /\ MainType /\ IterType /\ PoolType /\ SqlType /\ CpType
    /\ rep \in ReportType /\ result \in Results
    /\ DiskType

-----------------------------------------------------------------------------
UpTo(n) == {c \in Plan : ComparesLeq(c, n)}

Checked(c) == verdict[c] # Nil

\* The checkpoint leaves nothing behind: every chunk at or before the node in
\* the checkpoint file, and at or before CurrentSavedNode, has been checked,
\* whatever order consumers finished in, whichever tables or buckets failed
\* to be produced, and however often the process was killed.
CheckpointCovers ==
    /\ ckpt # Nil => \A c \in UpTo(ckpt.node) : Checked(c)
    /\ \A c \in UpTo(saved) : Checked(c)

\* The strengthening of CheckpointCovers that every step preserves.  A chunk
\* enters the heap with a verdict; what is being flushed is CurrentSavedNode;
\* the file is never ahead of CurrentSavedNode; a process that is down holds
\* no node and is about to insert none.
CheckpointInv ==
    /\ pc = "down" =>
          /\ heap = {} /\ saved = InitNode /\ ck = IdleCk
          /\ writer.ph \notin {"create", "write", "insert"}
    /\ \A c \in heap : Checked(c)
    /\ ck.cur # Nil => ck.cur = saved
    /\ pc # "down" /\ ckpt # Nil => ComparesLeq(ckpt.node, saved)
    /\ CheckpointCovers

\* The fix-SQL files of the chunks the checkpoint covers are complete and
\* belong to the verdict on the chunk: a chunk found different has its whole
\* file, no other chunk has one, and no half-written file survives.
FixFilesMatch ==
    ckpt # Nil =>
        \A c \in UpTo(ckpt.node) :
            Checked(c) => files[c] = IF verdict[c].sqls THEN "full" ELSE "none"

\* The report in the checkpoint file counts each unequal chunk the checkpoint
\* covers exactly once and no chunk after it, and calls no table equal that
\* has such a chunk: what GetSnapshot promises a restarted check.
SavedReportExact ==
    ckpt # Nil =>
        \A c \in Plan :
            LET unequal == /\ ComparesLeq(c, ckpt.node)
                           /\ Checked(c)
                           /\ ~verdict[c].equal
            IN  /\ ckpt.rep.chunkMap[c] = IF unequal THEN 1 ELSE 0
                /\ unequal => ~ckpt.rep.dataEqual[c.table]

\* writeSQLs never finds the file it is about to create: the log.Fatal
\* "repeat sql happen" that the code marks unreachable is unreachable.
NoRepeatSQL ==
    writer.ph = "create" => files[writer.node] = "none"

\* A chunk is in one place only: on its way from the iterator to the heap it
\* is never held twice, and a chunk that is on its way has no verdict yet.
InFlight ==
    chunksCh
    \o (IF held = Nil THEN <<>> ELSE <<held>>)
    \o [i \in 1 .. Len(sqlCh) |-> sqlCh[i].node]
    \o (IF writer.node = Nil THEN <<>> ELSE <<writer.node>>)

CheckedOnce ==
    /\ \A i, j \in DOMAIN InFlight : InFlight[i] = InFlight[j] => i = j
    /\ \A v, w \in Workers :
         worker[w].node # Nil /\ worker[v].node = worker[w].node => v = w
    /\ \A w \in Workers : \A i \in DOMAIN InFlight : worker[w].node # InFlight[i]
    /\ \A w \in Workers : worker[w].node # Nil => ~Checked(worker[w].node)
    /\ \A i \in DOMAIN InFlight : ~Checked(InFlight[i])

\* When Equal has returned without an error, in a first run or a resumed one,
\* report and fix files agree with the verdicts of all runs together, and no
\* chunk is unchecked unless producing chunks has failed.
CleanFinish ==
    pc = "summary" =>
        \A c \in Plan :
            /\ ~prodFailed => Checked(c)
            /\ rep.chunkMap[c] = IF Checked(c) /\ ~verdict[c].equal THEN 1 ELSE 0
            /\ files[c] = IF Checked(c) /\ verdict[c].sqls THEN "full" ELSE "none"

\* The last flush of a complete run reaches the last chunk of the last table:
\* no chunk is left in the heap because its neighbour was not recognised.
FinalCheckpoint ==
    pc = "summary" /\ ~prodFailed => UpTo(saved) = Plan /\ heap = {}

\* A complete run that began without a checkpoint and reports "pass" has found
\* every table that both sides have equal in data and structure.
FreshPassIsEqual ==
    pc = "summary" /\ start = Nil /\ ~prodFailed /\ result = "pass" =>
        /\ StructDiff \subseteq Lack
        /\ \A c \in Plan : c.table \notin Lack => verdict[c].equal /\ ~verdict[c].err

\* The report's doc: "Pass means all data and struct of tables are equal".
\* A complete check that ends with Pass, in a first run or a resumed one, has
\* found no chunk different in a table that both sides have.
PassMeansEqual ==
    pc = "summary" /\ ~prodFailed /\ result = "pass" =>
        \A c \in Plan : Checked(c) /\ c.table \notin Lack => verdict[c].equal

\* The same doc, of the chunks nobody compared: a check that ends with Pass
\* has checked every chunk.
PassMeansChecked ==
    pc = "summary" /\ result = "pass" => \A c \in Plan : Checked(c)

\* The checkpoint only moves forward: neither a flush nor a restart takes the
\* file or CurrentSavedNode of a run back to an earlier chunk.
CheckpointAdvances ==
    [][/\ ckpt # Nil /\ ckpt' # Nil => ComparesLeq(ckpt.node, ckpt'.node)
       /\ pc # "down" /\ pc' # "down" => ComparesLeq(saved, saved')]_vars

\* The check implements the resumable scan: the mark is the checkpoint file,
\* the findings are the verdicts.  In particular no step changes the verdict
\* on a chunk while it has one, or loses one the checkpoint covers.
Scan == INSTANCE ResumableScan
            WITH Item <- Plan, Finding <- OutcomeType, Leq <- ComparesLeq, None <- Nil,
                 mark <- IF ckpt = Nil THEN Nil ELSE ckpt.node,
                 found <- verdict

ImplementsScan == Scan!ScanSpec

-----------------------------------------------------------------------------
(* Fairness: every goroutine that can take a step takes one.  The kill, the *)
(* failures of databases and disk and the timer are left to chance.  Two    *)
(* steps are strongly fair.  Stop: handleCheckpoints returns to its select  *)
(* after each flush with a new ten-second timer and finds Equal waiting on  *)
(* stopCh.  WriterInsert: a goroutine waiting for a sync.Mutex is handed it *)
(* after a bounded time, however often flush takes the mutex.               *)
Fairness ==
    /\ WF_vars(Main) /\ SF_vars(Stop)
    /\ WF_vars(StartTable) /\ WF_vars(CloseChunks)
    /\ \A t \in Tables : WF_vars(Produce(t))
    /\ \A w \in Workers : WF_vars(Consume(w))
    /\ WF_vars(Writer) /\ SF_vars(WriterInsert) /\ WF_vars(Flush)

FairSpec == Spec /\ Fairness

\* Every run of the process ends: with full channels, failing tables and all
\* workers busy, consumers, writer and checkpoint goroutine are always woken
\* and Equal's shutdown sequence comes to its end.
RunTerminates == pc # "down" ~> pc = "down"
=============================================================================
