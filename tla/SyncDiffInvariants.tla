------------------------- MODULE SyncDiffInvariants -------------------------
(***************************************************************************)
(* Inductive invariants of the data check: what is true between any two    *)
(* steps, and strong enough that every step keeps it.  The properties of   *)
(* SyncDiffProperties follow from them.                                    *)
(***************************************************************************)
EXTENDS SyncDiffProperties

-----------------------------------------------------------------------------
(* Control: which goroutine can be where while Equal is at a given line.   *)

\* Equal's goroutines are not started yet, or are gone.
Quiet ==
    /\ nextTable = 0 /\ prod = [t \in Tables |-> NoProducer]
    /\ chunksCh = <<>> /\ chunksOpen /\ errCh = 0 /\ ~prodFailed /\ ~exitErr
    /\ worker = [w \in Workers |-> IdleWorker]
    /\ sqlCh = <<>> /\ writer = IdleWriter /\ ck = IdleCk

\* Equal has left its loop, and has closed sqlCh, and has seen writeSQLs end.
LoopLeft  == pc \in {"pool", "sql", "stop", "ckpt", "summary"}
SqlClosed == pc \in {"sql", "stop", "ckpt", "summary"}
SqlDone   == pc \in {"stop", "ckpt", "summary"}

StartInv ==
    /\ pc \in {"down", "struct", "equal"} => Quiet
    /\ pc = "down" => start = Nil
    /\ Equalling /\ start # Nil => nextTable >= start.table
    /\ start # Nil => ComparesLeq(start, saved)

LoopInv ==
    /\ ~chunksOpen => nextTable = NTables /\ \A t \in Tables : prod[t].st # "run"
    /\ LoopLeft => exitErr \/ (~chunksOpen /\ chunksCh = <<>>)
    /\ errCh > 0 \/ exitErr => prodFailed
    /\ \A t \in Tables : prod[t].errs > 0 => prodFailed

ShutdownInv ==
    /\ sqlOpen <=> ~SqlClosed
    /\ SqlClosed => \A w \in Workers : worker[w].ph = "idle"
    /\ SqlDone => writer.ph = "exit"
    /\ writer.ph = "exit" => sqlCh = <<>> /\ SqlClosed
    /\ writer.node = Nil <=> writer.ph \in {"idle", "exit"}
    /\ \A w \in Workers : worker[w].node = Nil <=> worker[w].ph = "idle"
    /\ ck.ph = "exit" \/ ck.last => pc \in {"ckpt", "summary"}
    /\ pc = "ckpt" => ck.ph = "exit" \/ ck.last
    /\ pc = "summary" => ck.ph = "exit" /\ ~exitErr

-----------------------------------------------------------------------------
(* Producers: what is left of a table is a set of disjoint slices.         *)

\* Consecutive chunks of one bucket group.
IsSlice(t, s) ==
    \A i \in 1 .. Len(s) :
        s[i].table = t /\ s[i].left = s[1].left /\ s[i].index = s[1].index + (i - 1)

GoodProducer(t, p) ==
    /\ p.st # "run" => p.cur = <<>> /\ p.slices = {}
    /\ IsSlice(t, p.cur)
    /\ \A s \in p.slices :
          /\ IsSlice(t, s)
          /\ p.cur # <<>> => s[1].left # p.cur[1].left
          /\ \A r \in p.slices : r[1].left = s[1].left => r = s

ProdInv ==
    \A t \in Tables :
        GoodProducer(t, prod[t]) /\ (t >= nextTable => prod[t].st = "todo")

-----------------------------------------------------------------------------
(* The way of a chunk from its table to its verdict.                       *)

Stages == {"todo", "split", "queue", "held", "work", "sql", "write", "done"}

\* The checkpoint the run resumed from covers the chunk.
Behind(c) == start # Nil /\ ComparesLeq(c, start)

Todo(c)    == pc # "down" /\ ~Behind(c) /\ c.table >= nextTable
InSlice(c, s) == \E i \in 1 .. Len(s) : s[i] = c
InSplit(c) == \/ InSlice(c, prod[c.table].cur)
              \/ \E s \in prod[c.table].slices : InSlice(c, s)
InQueue(c) == \E i \in 1 .. Len(chunksCh) : chunksCh[i] = c
InWork(c)  == \E w \in Workers : worker[w].node = c
InSql(c)   == \E i \in 1 .. Len(sqlCh) : sqlCh[i].node = c

At(c, s) ==
    \/ s = "todo"  /\ Todo(c)
    \/ s = "split" /\ InSplit(c)
    \/ s = "queue" /\ InQueue(c)
    \/ s = "held"  /\ held = c
    \/ s = "work"  /\ InWork(c)
    \/ s = "sql"   /\ InSql(c)
    \/ s = "write" /\ writer.node = c
    \/ s = "done"  /\ Checked(c)

\* No chunk is at two stages, and none is twice at one.
OnePlace == \A c \in Plan : \A s, u \in Stages : At(c, s) /\ At(c, u) => s = u

OnceInv ==
    /\ \A i, j \in 1 .. Len(chunksCh) : chunksCh[i] = chunksCh[j] => i = j
    /\ \A v, w \in Workers :
          worker[v].node # Nil /\ worker[v].node = worker[w].node => v = w
    /\ \A i, j \in 1 .. Len(sqlCh) : sqlCh[i].node = sqlCh[j].node => i = j

\* While the process is up, a chunk is somewhere, unless producing it failed.
NoneLost == pc # "down" /\ ~prodFailed => \A c \in Plan : \E s \in Stages : At(c, s)

PlaceInv == ProdInv /\ OnePlace /\ OnceInv /\ NoneLost

FlowInv == StartInv /\ LoopInv /\ ShutdownInv /\ PlaceInv

-----------------------------------------------------------------------------
(* The heap holds what is checked beyond CurrentSavedNode, and the last    *)
(* flush of a run empties it.                                              *)

HeapInv ==
    pc # "down" => heap = {c \in Plan : Checked(c) /\ ~ComparesLeq(c, saved)}

\* handleCheckpoints has taken what there is for the last time.
LastTaken == (ck.last /\ ck.ph # "pop") \/ ck.ph = "exit"

FinalInv == LastTaken => prodFailed \/ (heap = {} /\ UpTo(saved) = Plan)

-----------------------------------------------------------------------------
(* The fix-SQL file of a chunk at each stage.                              *)

FileOf(o) == IF o.sqls THEN "full" ELSE "none"

KeptFiles ==
    \A c \in Plan :
        Checked(c) /\ (pc # "down" \/ (ckpt # Nil /\ ComparesLeq(c, ckpt.node)))
           => files[c] = FileOf(verdict[c])

NewFiles ==
    pc # "down" => \A c \in Plan : ~Checked(c) /\ writer.node # c => files[c] = "none"

WriterFiles ==
    /\ writer.ph = "create" => files[writer.node] = "none" /\ writer.out.sqls
    /\ writer.ph = "write" => files[writer.node] = "partial" /\ writer.out.sqls
    /\ writer.ph = "insert" => files[writer.node] = FileOf(writer.out)

FilesInv == KeptFiles /\ NewFiles /\ WriterFiles

-----------------------------------------------------------------------------
(* The report in memory, in flight to the checkpoint file, and in it.      *)

\* The report has been told that the chunk is unequal.
ToldUnequal(c) ==
    \/ Checked(c) /\ ~verdict[c].equal
    \/ \E w \in Workers :
          worker[w].node = c /\ worker[w].ph = "send" /\ ~worker[w].out.equal
    \/ \E i \in 1 .. Len(sqlCh) : sqlCh[i].node = c /\ ~sqlCh[i].out.equal
    \/ writer.node = c /\ ~writer.out.equal

ReportCounts ==
    pc # "down" =>
        \A c \in Plan :
            /\ rep.chunkMap[c] = IF ToldUnequal(c) THEN 1 ELSE 0
            /\ rep.chunkMap[c] > 0 => ~rep.dataEqual[c.table]

UnequalUpTo(c, n) == ComparesLeq(c, n) /\ Checked(c) /\ ~verdict[c].equal

\* Report r is exact for the chunks up to n.
ExactUpTo(r, n) ==
    \A c \in Plan :
        /\ r.chunkMap[c] = IF UnequalUpTo(c, n) THEN 1 ELSE 0
        /\ UnequalUpTo(c, n) => ~r.dataEqual[c.table]

\* What is in flight to the checkpoint file, and what is in it, is exact.
InFlightExact == ck.ph = "save" => ExactUpTo(ck.rep, ck.cur)
OnDiskExact   == ckpt # Nil => ExactUpTo(ckpt.rep, ckpt.node)

ReportInv == ReportCounts /\ InFlightExact /\ OnDiskExact

\* NewSources sorts the tables by descending id.
SortedIds == \A s, t \in Tables : s < t => UniqueID[s] >= UniqueID[t]

-----------------------------------------------------------------------------
(* The result of a run that began without a checkpoint.                    *)

Good(o) == o.equal /\ ~o.err

GoodSoFar(c) ==
    /\ Checked(c) => Good(verdict[c])
    /\ \A w \in Workers : worker[w].node = c =>
          /\ worker[w].ph = "report" => ~worker[w].out.err
          /\ worker[w].ph = "send" => Good(worker[w].out)
    /\ \A i \in 1 .. Len(sqlCh) : sqlCh[i].node = c => Good(sqlCh[i].out)
    /\ writer.node = c => Good(writer.out)

ResultInv ==
    pc \notin {"down", "struct"} /\ start = Nil =>
        /\ rep.lack = Lack
        /\ result = "pass" =>
              /\ StructDiff \subseteq Lack
              /\ \A c \in Plan : c.table \notin Lack => GoodSoFar(c)
=============================================================================
