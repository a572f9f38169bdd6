------------------------- MODULE SyncDiffFlowProofs -------------------------
(***************************************************************************)
(* The way of the chunks: proof that FlowInv is invariant, for every plan, *)
(* any number of workers and runs and any capacity of the channels.        *)
(* First the slices in which producers hand out a table, then control,     *)
(* then the places of the chunks, one lemma per move.                      *)
(***************************************************************************)
EXTENDS SyncDiffInvariants, SyncDiffProofs

-----------------------------------------------------------------------------
(* The slices a table is produced in.                                      *)

\* The slice of group k from its chunk i on, element by element.
LEMMA SliceFacts ==
    ASSUME NEW t \in Tables, NEW k \in 1 .. Len(Groups[t]),
           NEW i \in 0 .. (GroupSize(Groups[t][k]) - 1)
    PROVE  /\ Len(SliceOf(t, k, i)) = GroupSize(Groups[t][k]) - i
           /\ \A j \in 1 .. (GroupSize(Groups[t][k]) - i) :
                 SliceOf(t, k, i)[j] = ChunkOf(t, k, i + j - 1)
           /\ SliceOf(t, k, i)[1].left = Groups[t][k].left
           /\ IsSlice(t, SliceOf(t, k, i))
<1> DEFINE n == GroupSize(Groups[t][k]) - i
<1>1. n \in Nat \ {0}
  BY GroupFacts
<1>2. SliceOf(t, k, i) = [j \in 1 .. n |-> ChunkOf(t, k, i + j - 1)]
  BY DEF SliceOf
<1>3. Len(SliceOf(t, k, i)) = n
  BY <1>1, <1>2
<1> HIDE DEF n
<1>4. \A j \in 1 .. n : SliceOf(t, k, i)[j] = ChunkOf(t, k, i + j - 1)
  BY <1>2
<1>5. ASSUME NEW j \in 1 .. n
      PROVE  /\ SliceOf(t, k, i)[j].table = t
             /\ SliceOf(t, k, i)[j].left = Groups[t][k].left
             /\ SliceOf(t, k, i)[j].index = i + j - 1
  <2>1. SliceOf(t, k, i)[j] = ChunkOf(t, k, i + j - 1)
    BY <1>4
  <2>2. \A x : /\ ChunkOf(t, k, x).table = t
               /\ ChunkOf(t, k, x).left = Groups[t][k].left
               /\ ChunkOf(t, k, x).index = x
    BY DEF ChunkOf
  <2> QED BY <2>1, <2>2
<1>6. 1 \in 1 .. n
  BY <1>1
<1>7. IsSlice(t, SliceOf(t, k, i))
  BY <1>1, <1>3, <1>5, <1>6 DEF IsSlice
<1> QED BY <1>3, <1>4, <1>5, <1>6, <1>7 DEF n

\* An Empty chunk is a slice of its own.
LEMMA EmptySliceFacts ==
    ASSUME NEW t \in Tables
    PROVE  IsSlice(t, <<EmptyChunk(t)>>) /\ InSlice(EmptyChunk(t), <<EmptyChunk(t)>>)
<1>1. Len(<<EmptyChunk(t)>>) = 1 /\ <<EmptyChunk(t)>>[1] = EmptyChunk(t)
  OBVIOUS
<1>2. EmptyChunk(t).table = t /\ EmptyChunk(t).index = 0
  BY DEF EmptyChunk
<1> QED BY <1>1, <1>2 DEF IsSlice, InSlice

\* Two groups of a table start at different buckets.
LEMMA GroupsDiffer ==
    ASSUME NEW t \in Tables, NEW j \in 1 .. Len(Groups[t]), NEW k \in 1 .. Len(Groups[t]),
           Groups[t][j].left = Groups[t][k].left
    PROVE  j = k
<1>1. /\ Groups[t][j].left <= Groups[t][j].right
      /\ Groups[t][k].left <= Groups[t][k].right
  BY PlanAssumption
<1>2. /\ Groups[t][j].left \in Nat /\ Groups[t][j].right \in Nat
      /\ Groups[t][k].left \in Nat /\ Groups[t][k].right \in Nat
  BY GroupFacts
<1> QED BY <1>1, <1>2, GroupsApart

\* The slices of a whole table are disjoint runs of consecutive chunks.
LEMMA AllSlicesShape ==
    ASSUME NEW t \in Tables
    PROVE  \A s \in AllSlices(t) :
              IsSlice(t, s) /\ \A r \in AllSlices(t) : r[1].left = s[1].left => r = s
<1>1. CASE Split[t] = "empty"
  BY <1>1, EmptySliceFacts DEF AllSlices
<1>2. CASE Split[t] # "empty"
  <2>1. \A k \in 1 .. Len(Groups[t]) : 0 \in 0 .. (GroupSize(Groups[t][k]) - 1)
    BY GroupFacts
  <2>2. \A s \in AllSlices(t) : \E k \in 1 .. Len(Groups[t]) :
          s = SliceOf(t, k, 0) /\ s[1].left = Groups[t][k].left /\ IsSlice(t, s)
    BY <1>2, <2>1, SliceFacts DEF AllSlices
  <2> QED BY <2>2, GroupsDiffer
<1> QED BY <1>1, <1>2

\* Every chunk of a table is in one of its slices.
LEMMA AllSlicesCover ==
    ASSUME NEW c \in Plan
    PROVE  \E s \in AllSlices(c.table) : InSlice(c, s)
<1>0. c.table \in Tables
  BY PlanElim
<1>1. CASE Split[c.table] = "empty"
  BY <1>0, <1>1, PlanElim, EmptySliceFacts DEF AllSlices
<1>2. CASE Split[c.table] # "empty"
  <2>1. PICK k \in 1 .. Len(Groups[c.table]), i \in Nat :
        /\ i \in 0 .. (GroupSize(Groups[c.table][k]) - 1)
        /\ c = ChunkOf(c.table, k, i)
    BY <1>2, PlanElim
  <2>2. SliceOf(c.table, k, 0) \in AllSlices(c.table)
    BY <1>2 DEF AllSlices
  <2> DEFINE n == GroupSize(Groups[c.table][k])
  <2>3. n \in Nat \ {0}
    BY <1>0, GroupFacts
  <2>4. 0 \in 0 .. (n - 1) /\ i + 1 \in 1 .. n /\ 0 + (i + 1) - 1 = i /\ n - 0 = n
    BY <2>1, <2>3
  <2>5. /\ Len(SliceOf(c.table, k, 0)) = n
        /\ SliceOf(c.table, k, 0)[i + 1] = ChunkOf(c.table, k, i)
    BY <1>0, <2>4, SliceFacts
  <2> QED BY <2>1, <2>2, <2>4, <2>5 DEF InSlice
<1> QED BY <1>1, <1>2

\* A slice that is left of c's table is a later group, or c's own group from
\* the chunk after c on.
LEMMA RestSlicesElim ==
    ASSUME NEW c \in Plan, NEW s \in RestSlices(c)
    PROVE  /\ Split[c.table] # "empty"
           /\ \E k \in 1 .. Len(Groups[c.table]) :
                 \E i \in 0 .. (GroupSize(Groups[c.table][k]) - 1) :
                    /\ s = SliceOf(c.table, k, i)
                  /\ \/ Groups[c.table][k].left > c.right /\ i = 0
                     \/ Groups[c.table][k].left = c.left /\ i = c.index + 1
<1>0. c.table \in Tables /\ ~IsLastChunkForTable(c)
  BY PlanElim DEF RestSlices
<1>1. Split[c.table] # "empty"
  <2>1. SUFFICES ASSUME c = EmptyChunk(c.table) PROVE FALSE
    BY PlanElim
  <2> QED BY <1>0, <2>1 DEF EmptyChunk, IsLastChunkForTable
<1>2. CASE \E k \in 1 .. Len(Groups[c.table]) :
             s = SliceOf(c.table, k, 0) /\ Groups[c.table][k].left > c.right
  <2>1. \A k \in 1 .. Len(Groups[c.table]) :
          0 \in 0 .. (GroupSize(Groups[c.table][k]) - 1)
    BY <1>0, GroupFacts
  <2> QED BY <1>1, <1>2, <2>1
<1>3. CASE \E k \in 1 .. Len(Groups[c.table]) :
             /\ s = SliceOf(c.table, k, c.index + 1) /\ Groups[c.table][k].left = c.left
             /\ c.cnt - c.index - 1 > 0
  <2>1. PICK k \in 1 .. Len(Groups[c.table]) :
             /\ s = SliceOf(c.table, k, c.index + 1) /\ Groups[c.table][k].left = c.left
             /\ c.cnt - c.index - 1 > 0
    BY <1>3
  <2>2. PICK j \in 1 .. Len(Groups[c.table]) :
          c.left = Groups[c.table][j].left /\ c.cnt = Groups[c.table][j].cnt
    BY <1>1, GroupOfChunk
  <2>3. j = k
    BY <1>0, <2>1, <2>2, GroupsDiffer
  <2> DEFINE size == GroupSize(Groups[c.table][k])
  <2>4. size \in Nat /\ size >= c.cnt
    BY <1>0, <2>2, <2>3, GroupFacts
  <2>5. c.index \in Nat /\ c.cnt \in Nat
    BY PlanFields
  <2> HIDE DEF size
  <2>6. c.index + 1 \in 0 .. (size - 1)
    BY <2>1, <2>4, <2>5
  <2> QED BY <1>1, <2>1, <2>6 DEF size
<1> QED BY <1>0, <1>2, <1>3 DEF RestSlices

\* So are those that a checkpoint leaves.
LEMMA RestSlicesShape ==
    ASSUME NEW c \in Plan
    PROVE  \A s \in RestSlices(c) :
              IsSlice(c.table, s) /\ \A r \in RestSlices(c) : r[1].left = s[1].left => r = s
<1>0. c.table \in Tables
  BY PlanElim
<1>1. ASSUME NEW s \in RestSlices(c)
      PROVE  /\ IsSlice(c.table, s) /\ Split[c.table] # "empty"
             /\ \E k \in 1 .. Len(Groups[c.table]) : s[1].left = Groups[c.table][k].left
  <2>1. PICK k \in 1 .. Len(Groups[c.table]), i \in Nat :
        /\ i \in 0 .. (GroupSize(Groups[c.table][k]) - 1)
        /\ s = SliceOf(c.table, k, i)
    BY <1>1, RestSlicesElim
  <2> QED BY <1>0, <1>1, <2>1, SliceFacts, RestSlicesElim
<1>2. ASSUME NEW s \in RestSlices(c), NEW r \in RestSlices(c), r[1].left = s[1].left
      PROVE  r = s
  <2>1. PICK k \in 1 .. Len(Groups[c.table]), i \in Nat :
        /\ i \in 0 .. (GroupSize(Groups[c.table][k]) - 1)
        /\ s = SliceOf(c.table, k, i)
        /\ \/ Groups[c.table][k].left > c.right /\ i = 0
           \/ Groups[c.table][k].left = c.left /\ i = c.index + 1
    BY RestSlicesElim
  <2>2. PICK l \in 1 .. Len(Groups[c.table]), j \in Nat :
        /\ j \in 0 .. (GroupSize(Groups[c.table][l]) - 1)
        /\ r = SliceOf(c.table, l, j)
        /\ \/ Groups[c.table][l].left > c.right /\ j = 0
           \/ Groups[c.table][l].left = c.left /\ j = c.index + 1
    BY RestSlicesElim
  <2>3. s[1].left = Groups[c.table][k].left /\ r[1].left = Groups[c.table][l].left
    BY <1>0, <2>1, <2>2, SliceFacts
  <2>4. k = l
    BY <1>0, <1>2, <2>3, GroupsDiffer
  <2>5. c.left <= c.right /\ c.left \in Nat /\ c.right \in Nat
    <3>1. Split[c.table] # "empty"
      BY <1>1
    <3>2. PICK m \in 1 .. Len(Groups[c.table]) :
            c.left = Groups[c.table][m].left /\ c.right = Groups[c.table][m].right
      BY <3>1, GroupOfChunk
    <3> QED BY <1>0, <3>2, PlanAssumption, PlanFields
  <2>6. i = j
    BY <2>1, <2>2, <2>4, <2>5
  <2> QED BY <2>1, <2>2, <2>4, <2>6
<1> QED BY <1>1, <1>2

\* What is left of c's table is what comes after c.
LEMMA RestSlicesAfter ==
    ASSUME NEW c \in Plan, NEW d \in Plan, NEW s \in RestSlices(c), InSlice(d, s)
    PROVE  d.table = c.table /\ ComparesLess(c, d)
<1>0. c.table \in Tables
  BY PlanElim
<1>1. PICK k \in 1 .. Len(Groups[c.table]), i \in Nat :
      /\ i \in 0 .. (GroupSize(Groups[c.table][k]) - 1)
      /\ s = SliceOf(c.table, k, i)
      /\ \/ Groups[c.table][k].left > c.right /\ i = 0
         \/ Groups[c.table][k].left = c.left /\ i = c.index + 1
  BY RestSlicesElim
<1>2. PICK j \in 1 .. (GroupSize(Groups[c.table][k]) - i) :
        d = ChunkOf(c.table, k, i + j - 1)
  BY <1>0, <1>1, SliceFacts DEF InSlice
<1>3. d.table = c.table /\ d.left = Groups[c.table][k].left /\ d.index = i + j - 1
  BY <1>2 DEF ChunkOf
<1>4. c.left <= c.right
  <2>1. Split[c.table] # "empty"
    BY RestSlicesElim
  <2>2. PICK m \in 1 .. Len(Groups[c.table]) :
          c.left = Groups[c.table][m].left /\ c.right = Groups[c.table][m].right
    BY <2>1, GroupOfChunk
  <2> QED BY <1>0, <2>2, PlanAssumption
<1>5. GroupSize(Groups[c.table][k]) \in Nat /\ Groups[c.table][k].left \in Nat
  BY <1>0, GroupFacts
<1> QED BY <1>1, <1>3, <1>4, <1>5, PlanFields DEF ComparesLess

\* Every chunk of the table after c is in one of the slices left of it.
LEMMA RestSlicesCover ==
    ASSUME NEW c \in Plan, NEW d \in Plan, d.table = c.table, ComparesLess(c, d)
    PROVE  \E s \in RestSlices(c) : InSlice(d, s)
<1>0. c.table \in Tables
  BY PlanElim
<1>1. ~IsLastChunkForTable(c)
  BY LastForTable, CompareTotal DEF Nodes
<1>2. Split[c.table] # "empty"
  <2>1. SUFFICES ASSUME c = EmptyChunk(c.table) PROVE FALSE
    BY PlanElim
  <2> QED BY <1>1, <2>1 DEF EmptyChunk, IsLastChunkForTable
<1>3. PICK m \in 1 .. Len(Groups[c.table]) :
        /\ c.left = Groups[c.table][m].left /\ c.right = Groups[c.table][m].right
        /\ c.cnt = Groups[c.table][m].cnt
        /\ c.index \in 0 .. (GroupSize(Groups[c.table][m]) - 1)
  BY <1>2, GroupOfChunk
<1>4. PICK k \in 1 .. Len(Groups[c.table]), j \in Nat :
      /\ j \in 0 .. (GroupSize(Groups[c.table][k]) - 1)
      /\ d = ChunkOf(c.table, k, j)
  BY <1>2, PlanElim
<1>5. d.left = Groups[c.table][k].left /\ d.right = Groups[c.table][k].right /\ d.index = j
  BY <1>4 DEF ChunkOf
<1> DEFINE n == GroupSize(Groups[c.table][k])
<1>6. n \in Nat \ {0} /\ c.index \in Nat /\ c.cnt \in Nat
  BY <1>0, GroupFacts, PlanFields
<1>7. CASE k = m
  <2>1. c.index < j
    BY <1>3, <1>5, <1>7, PlanFields DEF ComparesLess
  <2>2. n = c.cnt
    BY <1>3, <1>4, <1>6, <1>7, <2>1 DEF GroupSize
  <2>3. c.cnt - c.index - 1 > 0 /\ c.index + 1 \in 0 .. (n - 1)
    BY <1>4, <1>6, <2>1, <2>2
  <2>4. SliceOf(c.table, k, c.index + 1) \in RestSlices(c)
    BY <1>1, <1>3, <1>7, <2>3 DEF RestSlices
  <2>5. j - c.index \in 1 .. (n - (c.index + 1)) /\ (c.index + 1) + (j - c.index) - 1 = j
    BY <1>4, <1>6, <2>1
  <2>6. /\ Len(SliceOf(c.table, k, c.index + 1)) = n - (c.index + 1)
        /\ SliceOf(c.table, k, c.index + 1)[j - c.index] = ChunkOf(c.table, k, j)
    BY <1>0, <2>3, <2>5, SliceFacts
  <2> QED BY <1>4, <2>4, <2>5, <2>6 DEF InSlice
<1>8. CASE k # m
  <2>1. c.left < d.left
    <3>1. c.left # d.left
      BY <1>0, <1>3, <1>5, <1>8, GroupsDiffer
    <3> QED BY <3>1, PlanFields DEF ComparesLess
  <2>2. d.left > c.right
    <3>1. SUFFICES ASSUME d.left <= c.right PROVE FALSE
      BY PlanFields
    <3>2. Groups[c.table][k].left <= Groups[c.table][k].right
      BY <1>0, PlanAssumption
    <3>3. /\ Groups[c.table][m].left <= Groups[c.table][k].right
          /\ Groups[c.table][k].left <= Groups[c.table][m].right
      <4>1. /\ Groups[c.table][k].left \in Nat /\ Groups[c.table][k].right \in Nat
            /\ Groups[c.table][m].left \in Nat
        BY <1>0, GroupFacts
      <4>2. /\ Groups[c.table][m].left < Groups[c.table][k].left
            /\ Groups[c.table][k].left <= Groups[c.table][m].right
        BY <1>3, <1>5, <2>1, <3>1
      <4> QED BY <3>2, <4>1, <4>2
    <3> QED BY <1>0, <1>8, <3>3, GroupsApart
  <2>3. SliceOf(c.table, k, 0) \in RestSlices(c)
    BY <1>1, <1>5, <2>2 DEF RestSlices
  <2>4. 0 \in 0 .. (n - 1) /\ j + 1 \in 1 .. (n - 0) /\ 0 + (j + 1) - 1 = j
    BY <1>4, <1>6
  <2>5. /\ Len(SliceOf(c.table, k, 0)) = n - 0
        /\ SliceOf(c.table, k, 0)[j + 1] = ChunkOf(c.table, k, j)
    BY <1>0, <2>4, SliceFacts
  <2> QED BY <1>4, <2>3, <2>4, <2>5 DEF InSlice
<1> QED BY <1>7, <1>8

-----------------------------------------------------------------------------
(* Control.                                                                *)

\* Whoever does something does it while Equal runs.
LEMMA Active ==
    ASSUME StartInv
    PROVE  /\ \A t \in Tables : prod[t].st = "run" => Equalling
           /\ \A w \in Workers : worker[w].ph # "idle" => Equalling
           /\ writer.ph # "idle" => Equalling
           /\ ck.ph # "idle" => Equalling
<1> SUFFICES ASSUME ~Equalling
             PROVE  /\ \A t \in Tables : prod[t].st # "run"
                    /\ \A w \in Workers : worker[w].ph = "idle"
                    /\ writer.ph = "idle" /\ ck.ph = "idle"
  OBVIOUS
<1>1. Quiet
  BY DEF StartInv, Equalling
<1> QED BY <1>1 DEF Quiet, NoProducer, IdleWorker, IdleWriter, IdleCk

\* Steps of a run that is on its way, between two flushes of the heap.
LEMMA StartFrame ==
    ASSUME TypeOK, StartInv, Equalling, Equalling', UNCHANGED <<start, saved>>,
           nextTable' \in Int, nextTable <= nextTable'
    PROVE  StartInv'
<1>1. nextTable \in Int /\ (start # Nil => start.table \in Int)
  BY PlanFields DEF TypeOK, MainType, IterType, ChunkOrNil
<1>2. start' # Nil => nextTable' >= start'.table
  BY <1>1 DEF StartInv
<1> QED BY <1>2 DEF StartInv, Equalling

\* The end of the process leaves nothing running.
LEMMA VolatileControl ==
    ASSUME Volatile
    PROVE  StartInv' /\ LoopInv' /\ ShutdownInv'
<1>1. Quiet'
  BY DEF Volatile, Quiet
<1>2. StartInv'
  BY <1>1 DEF Volatile, StartInv, Equalling
<1>3. LoopInv'
  BY DEF Volatile, LoopInv, LoopLeft, NoProducer
<1>4. ShutdownInv'
  BY DEF Volatile, ShutdownInv, SqlClosed, SqlDone, IdleCk, IdleWriter, IdleWorker
<1> QED BY <1>2, <1>3, <1>4

\* So does the initial state.
LEMMA InitControl == Init => StartInv /\ LoopInv /\ ShutdownInv
<1> SUFFICES ASSUME Init PROVE StartInv /\ LoopInv /\ ShutdownInv
  OBVIOUS
<1>1. Quiet
  BY DEF Init, Quiet
<1>2. StartInv
  BY <1>1 DEF Init, StartInv, Equalling
<1>3. LoopInv
  BY DEF Init, LoopInv, LoopLeft, NoProducer
<1>4. ShutdownInv
  BY DEF Init, ShutdownInv, SqlClosed, SqlDone, IdleCk, IdleWriter, IdleWorker
<1> QED BY <1>2, <1>3, <1>4

\* Every step keeps control in order: goroutines run only inside Equal, the
\* producer closes chunksCh last, and Equal shuts down in the order of its
\* deferred calls.
LEMMA ControlStep ==
    TypeOK /\ StartInv /\ LoopInv /\ ShutdownInv /\ [Next]_vars
        => StartInv' /\ LoopInv' /\ ShutdownInv'
<1> SUFFICES ASSUME TypeOK, StartInv, LoopInv, ShutdownInv, [Next]_vars
             PROVE  StartInv' /\ LoopInv' /\ ShutdownInv'
  OBVIOUS
<1>0. /\ MainType /\ IterType /\ PoolType /\ SqlType /\ CpType /\ DiskType
  BY DEF TypeOK
<1>1. CASE StartRun
  <2>1. StartInv'
    <3>1. start' # Nil => start' \in Nodes /\ saved' = start'
      BY <1>0, <1>1 DEF StartRun, DiskType, Nodes
    <3>2. start' # Nil => ComparesLeq(start', saved')
      BY <3>1, CompareTotal
    <3>3. Quiet'
      BY <1>1 DEF StartRun, StartInv, Quiet, iterVars, sqlVars
    <3> QED BY <1>1, <3>2, <3>3 DEF StartRun, StartInv, Equalling
  <2>2. LoopInv'
    BY <1>0, <1>1 DEF StartRun, LoopInv, LoopLeft, IterType, ProducerType, StartInv, Quiet, mainVars, iterVars, vars
  <2>3. ShutdownInv'
    BY <1>0, <1>1 DEF StartRun, ShutdownInv, SqlClosed, SqlDone, SqlType, PoolType, CpType, WriterType, WorkerType, CkType, Quiet, StartInv, MainType, IdleCk, IdleWriter, IdleWorker, FlushDone, mainVars, iterVars, sqlVars, cpVars, vars
  <2> QED BY <2>1, <2>2, <2>3
<1>2. CASE StartRunFails
  <2>1. StartInv'
    BY <1>0, <1>2 DEF StartRunFails, StartInv, Quiet, Equalling, mainVars, iterVars, sqlVars, cpVars, vars
  <2>2. LoopInv'
    BY <1>0, <1>2 DEF StartRunFails, LoopInv, LoopLeft, IterType, ProducerType, StartInv, Quiet, mainVars, iterVars, vars
  <2>3. ShutdownInv'
    BY <1>0, <1>2 DEF StartRunFails, ShutdownInv, SqlClosed, SqlDone, SqlType, PoolType, CpType, WriterType, WorkerType, CkType, Quiet, StartInv, MainType, IdleCk, IdleWriter, IdleWorker, FlushDone, mainVars, iterVars, sqlVars, cpVars, vars
  <2> QED BY <2>1, <2>2, <2>3
<1>3. CASE Crash
  BY <1>3, VolatileControl DEF Crash
<1>4. CASE StructEqual
  <2>1. StartInv'
    BY <1>0, <1>4 DEF StructEqual, StartInv, Quiet, Equalling, mainVars, iterVars, sqlVars, cpVars, vars
  <2>2. LoopInv'
    BY <1>0, <1>4 DEF StructEqual, LoopInv, LoopLeft, IterType, ProducerType, StartInv, Quiet, mainVars, iterVars, vars
  <2>3. ShutdownInv'
    BY <1>0, <1>4 DEF StructEqual, ShutdownInv, SqlClosed, SqlDone, SqlType, PoolType, CpType, WriterType, WorkerType, CkType, Quiet, StartInv, MainType, IdleCk, IdleWriter, IdleWorker, FlushDone, mainVars, iterVars, sqlVars, cpVars, vars
  <2> QED BY <2>1, <2>2, <2>3
<1>5. CASE BeginEqual
  <2>1. StartInv'
    <3>1. start # Nil => start.table \in Int
      BY <1>0, PlanFields DEF MainType, ChunkOrNil
    <3>2. start' # Nil => nextTable' >= start'.table
      BY <1>5, <3>1 DEF BeginEqual, StartIndex
    <3> QED BY <1>5, <3>2 DEF BeginEqual, StartInv, Equalling, cpVars
  <2>2. LoopInv'
    BY <1>0, <1>5 DEF BeginEqual, LoopInv, LoopLeft, IterType, ProducerType, StartInv, Quiet, mainVars, iterVars, vars
  <2>3. ShutdownInv'
    BY <1>0, <1>5 DEF BeginEqual, ShutdownInv, SqlClosed, SqlDone, SqlType, PoolType, CpType, WriterType, WorkerType, CkType, Quiet, StartInv, MainType, IdleCk, IdleWriter, IdleWorker, FlushDone, mainVars, iterVars, sqlVars, cpVars, vars
  <2> QED BY <2>1, <2>2, <2>3
<1>6. CASE NextChunk
  <2>0. Equalling /\ Equalling'
    BY <1>6, Active DEF NextChunk, Equalling, mainVars
  <2>1. StartInv'
    BY <1>0, <1>6, <2>0, StartFrame DEF NextChunk, IterType, mainVars, iterVars, cpVars
  <2>2. LoopInv'
    BY <1>0, <1>6 DEF NextChunk, LoopInv, LoopLeft, IterType, ProducerType, StartInv, Quiet, mainVars, iterVars, vars
  <2>3. ShutdownInv'
    BY <1>0, <1>6 DEF NextChunk, ShutdownInv, SqlClosed, SqlDone, SqlType, PoolType, CpType, WriterType, WorkerType, CkType, Quiet, StartInv, MainType, IdleCk, IdleWriter, IdleWorker, FlushDone, mainVars, iterVars, sqlVars, cpVars, vars
  <2> QED BY <2>1, <2>2, <2>3
<1>7. CASE NextErr
  <2>0. Equalling /\ Equalling'
    BY <1>7, Active DEF NextErr, Equalling, mainVars
  <2>1. StartInv'
    BY <1>0, <1>7, <2>0, StartFrame DEF NextErr, IterType, mainVars, iterVars, cpVars
  <2>2. LoopInv'
    BY <1>0, <1>7 DEF NextErr, LoopInv, LoopLeft, IterType, ProducerType, StartInv, Quiet, mainVars, iterVars, vars
  <2>3. ShutdownInv'
    BY <1>0, <1>7 DEF NextErr, ShutdownInv, SqlClosed, SqlDone, SqlType, PoolType, CpType, WriterType, WorkerType, CkType, Quiet, StartInv, MainType, IdleCk, IdleWriter, IdleWorker, FlushDone, mainVars, iterVars, sqlVars, cpVars, vars
  <2> QED BY <2>1, <2>2, <2>3
<1>8. CASE NextEnd
  <2>0. Equalling /\ Equalling'
    BY <1>8, Active DEF NextEnd, Equalling, mainVars
  <2>1. StartInv'
    BY <1>0, <1>8, <2>0, StartFrame DEF NextEnd, IterType, mainVars, iterVars, cpVars
  <2>2. LoopInv'
    BY <1>0, <1>8 DEF NextEnd, LoopInv, LoopLeft, IterType, ProducerType, StartInv, Quiet, mainVars, iterVars, vars
  <2>3. ShutdownInv'
    BY <1>0, <1>8 DEF NextEnd, ShutdownInv, SqlClosed, SqlDone, SqlType, PoolType, CpType, WriterType, WorkerType, CkType, Quiet, StartInv, MainType, IdleCk, IdleWriter, IdleWorker, FlushDone, mainVars, iterVars, sqlVars, cpVars, vars
  <2> QED BY <2>1, <2>2, <2>3
<1>9. ASSUME NEW w \in Workers, Apply(w) PROVE StartInv' /\ LoopInv' /\ ShutdownInv'
  <2>0. Equalling /\ Equalling'
    BY <1>9, Active DEF Apply, Equalling, mainVars
  <2>1. StartInv'
    BY <1>0, <1>9, <2>0, StartFrame DEF Apply, IterType, mainVars, iterVars, cpVars
  <2>2. LoopInv'
    BY <1>0, <1>9 DEF Apply, LoopInv, LoopLeft, IterType, ProducerType, StartInv, Quiet, mainVars, iterVars, vars
  <2>3. ShutdownInv'
    BY <1>0, <1>9 DEF Apply, ShutdownInv, SqlClosed, SqlDone, SqlType, PoolType, CpType, WriterType, WorkerType, CkType, Quiet, StartInv, MainType, IdleCk, IdleWriter, IdleWorker, FlushDone, mainVars, iterVars, sqlVars, cpVars, vars
  <2> QED BY <2>1, <2>2, <2>3
<1>10. CASE WaitPool
  <2>0. Equalling /\ Equalling'
    BY <1>10, Active DEF WaitPool, Equalling, mainVars
  <2>1. StartInv'
    BY <1>0, <1>10, <2>0, StartFrame DEF WaitPool, IterType, mainVars, iterVars, cpVars
  <2>2. LoopInv'
    BY <1>0, <1>10 DEF WaitPool, LoopInv, LoopLeft, IterType, ProducerType, StartInv, Quiet, mainVars, iterVars, vars
  <2>3. ShutdownInv'
    BY <1>0, <1>10 DEF WaitPool, ShutdownInv, SqlClosed, SqlDone, SqlType, PoolType, CpType, WriterType, WorkerType, CkType, Quiet, StartInv, MainType, IdleCk, IdleWriter, IdleWorker, FlushDone, mainVars, iterVars, sqlVars, cpVars, vars
  <2> QED BY <2>1, <2>2, <2>3
<1>11. CASE WaitSql
  <2>0. Equalling /\ Equalling'
    BY <1>11, Active DEF WaitSql, Equalling, mainVars
  <2>1. StartInv'
    BY <1>0, <1>11, <2>0, StartFrame DEF WaitSql, IterType, mainVars, iterVars, cpVars
  <2>2. LoopInv'
    BY <1>0, <1>11 DEF WaitSql, LoopInv, LoopLeft, IterType, ProducerType, StartInv, Quiet, mainVars, iterVars, vars
  <2>3. ShutdownInv'
    BY <1>0, <1>11 DEF WaitSql, ShutdownInv, SqlClosed, SqlDone, SqlType, PoolType, CpType, WriterType, WorkerType, CkType, Quiet, StartInv, MainType, IdleCk, IdleWriter, IdleWorker, FlushDone, mainVars, iterVars, sqlVars, cpVars, vars
  <2> QED BY <2>1, <2>2, <2>3
<1>12. CASE WaitCkpt
  <2>0. Equalling /\ Equalling'
    BY <1>12, Active DEF WaitCkpt, Equalling, mainVars
  <2>1. StartInv'
    BY <1>0, <1>12, <2>0, StartFrame DEF WaitCkpt, IterType, mainVars, iterVars, cpVars
  <2>2. LoopInv'
    BY <1>0, <1>12 DEF WaitCkpt, LoopInv, LoopLeft, IterType, ProducerType, StartInv, Quiet, mainVars, iterVars, vars
  <2>3. ShutdownInv'
    BY <1>0, <1>12 DEF WaitCkpt, ShutdownInv, SqlClosed, SqlDone, SqlType, PoolType, CpType, WriterType, WorkerType, CkType, Quiet, StartInv, MainType, IdleCk, IdleWriter, IdleWorker, FlushDone, mainVars, iterVars, sqlVars, cpVars, vars
  <2> QED BY <2>1, <2>2, <2>3
<1>13. CASE Fatal
  BY <1>13, VolatileControl DEF Fatal
<1>14. CASE Close
  BY <1>14, VolatileControl DEF Close
<1>15. CASE Stop
  <2>0. Equalling /\ Equalling'
    BY <1>15, Active DEF Stop, Equalling, mainVars
  <2>1. StartInv'
    BY <1>0, <1>15, <2>0, StartFrame DEF Stop, IterType, mainVars, iterVars, cpVars
  <2>2. LoopInv'
    BY <1>0, <1>15 DEF Stop, LoopInv, LoopLeft, IterType, ProducerType, StartInv, Quiet, mainVars, iterVars, vars
  <2>3. ShutdownInv'
    BY <1>0, <1>15 DEF Stop, ShutdownInv, SqlClosed, SqlDone, SqlType, PoolType, CpType, WriterType, WorkerType, CkType, Quiet, StartInv, MainType, IdleCk, IdleWriter, IdleWorker, FlushDone, mainVars, iterVars, sqlVars, cpVars, vars
  <2> QED BY <2>1, <2>2, <2>3
<1>16. CASE StartTable
  <2>0. Equalling /\ Equalling'
    BY <1>16, Active DEF StartTable, Equalling, mainVars
  <2>1. StartInv'
    BY <1>0, <1>16, <2>0, StartFrame DEF StartTable, IterType, mainVars, iterVars, cpVars
  <2>2. LoopInv'
    <3>1. chunksOpen /\ nextTable \in Tables
      BY <1>0, <1>16, PlanAssumption DEF StartTable, LoopInv, IterType, Tables
    <3>2. \A t \in Tables : prod'[t].errs > 0 => prodFailed
      BY <1>0, <1>16, <3>1 DEF StartTable, LoopInv, IterType, NoProducer
    <3> QED BY <1>16, <2>0, <3>1, <3>2 DEF StartTable, LoopInv, LoopLeft, mainVars
  <2>3. ShutdownInv'
    BY <1>0, <1>16 DEF StartTable, ShutdownInv, SqlClosed, SqlDone, SqlType, PoolType, CpType, WriterType, WorkerType, CkType, Quiet, StartInv, MainType, IdleCk, IdleWriter, IdleWorker, FlushDone, mainVars, iterVars, sqlVars, cpVars, vars
  <2> QED BY <2>1, <2>2, <2>3
<1>17. CASE AnalyzeFails
  <2>0. Equalling /\ Equalling'
    BY <1>17, Active DEF AnalyzeFails, Equalling, mainVars
  <2>1. StartInv'
    BY <1>0, <1>17, <2>0, StartFrame DEF AnalyzeFails, IterType, mainVars, iterVars, cpVars
  <2>2. LoopInv'
    BY <1>0, <1>17 DEF AnalyzeFails, LoopInv, LoopLeft, IterType, ProducerType, StartInv, Quiet, mainVars, iterVars, vars
  <2>3. ShutdownInv'
    BY <1>0, <1>17 DEF AnalyzeFails, ShutdownInv, SqlClosed, SqlDone, SqlType, PoolType, CpType, WriterType, WorkerType, CkType, Quiet, StartInv, MainType, IdleCk, IdleWriter, IdleWorker, FlushDone, mainVars, iterVars, sqlVars, cpVars, vars
  <2> QED BY <2>1, <2>2, <2>3
<1>18. CASE CloseChunks
  <2>0. Equalling /\ Equalling'
    BY <1>18, Active DEF CloseChunks, Equalling, mainVars
  <2>1. StartInv'
    BY <1>0, <1>18, <2>0, StartFrame DEF CloseChunks, IterType, mainVars, iterVars, cpVars
  <2>2. LoopInv'
    <3>1. \A t \in Tables : prod[t].st # "run"
      BY <1>18 DEF CloseChunks, RunningTables
    <3> QED BY <1>18, <3>1 DEF CloseChunks, LoopInv, LoopLeft, mainVars
  <2>3. ShutdownInv'
    BY <1>0, <1>18 DEF CloseChunks, ShutdownInv, SqlClosed, SqlDone, SqlType, PoolType, CpType, WriterType, WorkerType, CkType, Quiet, StartInv, MainType, IdleCk, IdleWriter, IdleWorker, FlushDone, mainVars, iterVars, sqlVars, cpVars, vars
  <2> QED BY <2>1, <2>2, <2>3
<1>19. ASSUME NEW t \in Tables, SendChunk(t) PROVE StartInv' /\ LoopInv' /\ ShutdownInv'
  <2>0. Equalling /\ Equalling'
    BY <1>19, Active DEF SendChunk, Equalling, mainVars
  <2>1. StartInv'
    BY <1>0, <1>19, <2>0, StartFrame DEF SendChunk, IterType, mainVars, iterVars, cpVars
  <2>2. LoopInv'
    <3>1. chunksOpen
      BY <1>19 DEF SendChunk, LoopInv
    <3>2. PICK s : prod' = [prod EXCEPT ![t].cur = Tail(s), ![t].slices = @ \ {s}]
      BY <1>19 DEF SendChunk
    <3>3. \A u \in Tables : prod'[u].errs = prod[u].errs
      BY <1>0, <3>2 DEF IterType, ProducerType
    <3> QED BY <1>19, <3>1, <3>3 DEF SendChunk, LoopInv, LoopLeft, mainVars
  <2>3. ShutdownInv'
    BY <1>0, <1>19 DEF SendChunk, ShutdownInv, SqlClosed, SqlDone, SqlType, PoolType, CpType, WriterType, WorkerType, CkType, Quiet, StartInv, MainType, IdleCk, IdleWriter, IdleWorker, FlushDone, mainVars, iterVars, sqlVars, cpVars, vars
  <2> QED BY <2>1, <2>2, <2>3
<1>20. ASSUME NEW t \in Tables, SplitFails(t) PROVE StartInv' /\ LoopInv' /\ ShutdownInv'
  <2>0. Equalling /\ Equalling'
    BY <1>20, Active DEF SplitFails, Equalling, mainVars
  <2>1. StartInv'
    BY <1>0, <1>20, <2>0, StartFrame DEF SplitFails, IterType, mainVars, iterVars, cpVars
  <2>2. LoopInv'
    BY <1>0, <1>20 DEF SplitFails, LoopInv, LoopLeft, IterType, ProducerType, StartInv, Quiet, mainVars, iterVars, vars
  <2>3. ShutdownInv'
    BY <1>0, <1>20 DEF SplitFails, ShutdownInv, SqlClosed, SqlDone, SqlType, PoolType, CpType, WriterType, WorkerType, CkType, Quiet, StartInv, MainType, IdleCk, IdleWriter, IdleWorker, FlushDone, mainVars, iterVars, sqlVars, cpVars, vars
  <2> QED BY <2>1, <2>2, <2>3
<1>21. ASSUME NEW t \in Tables, IterFails(t) PROVE StartInv' /\ LoopInv' /\ ShutdownInv'
  <2>0. Equalling /\ Equalling'
    BY <1>21, Active DEF IterFails, Equalling, mainVars
  <2>1. StartInv'
    BY <1>0, <1>21, <2>0, StartFrame DEF IterFails, IterType, mainVars, iterVars, cpVars
  <2>2. LoopInv'
    BY <1>0, <1>21 DEF IterFails, LoopInv, LoopLeft, IterType, ProducerType, StartInv, Quiet, mainVars, iterVars, vars
  <2>3. ShutdownInv'
    BY <1>0, <1>21 DEF IterFails, ShutdownInv, SqlClosed, SqlDone, SqlType, PoolType, CpType, WriterType, WorkerType, CkType, Quiet, StartInv, MainType, IdleCk, IdleWriter, IdleWorker, FlushDone, mainVars, iterVars, sqlVars, cpVars, vars
  <2> QED BY <2>1, <2>2, <2>3
<1>22. ASSUME NEW t \in Tables, IterEnds(t) PROVE StartInv' /\ LoopInv' /\ ShutdownInv'
  <2>0. Equalling /\ Equalling'
    BY <1>22, Active DEF IterEnds, Equalling, mainVars
  <2>1. StartInv'
    BY <1>0, <1>22, <2>0, StartFrame DEF IterEnds, IterType, mainVars, iterVars, cpVars
  <2>2. LoopInv'
    BY <1>0, <1>22 DEF IterEnds, LoopInv, LoopLeft, IterType, ProducerType, StartInv, Quiet, mainVars, iterVars, vars
  <2>3. ShutdownInv'
    BY <1>0, <1>22 DEF IterEnds, ShutdownInv, SqlClosed, SqlDone, SqlType, PoolType, CpType, WriterType, WorkerType, CkType, Quiet, StartInv, MainType, IdleCk, IdleWriter, IdleWorker, FlushDone, mainVars, iterVars, sqlVars, cpVars, vars
  <2> QED BY <2>1, <2>2, <2>3
<1>23. ASSUME NEW w \in Workers, ConsumeEmpty(w) PROVE StartInv' /\ LoopInv' /\ ShutdownInv'
  <2>0. Equalling /\ Equalling'
    BY <1>23, Active DEF ConsumeEmpty, Equalling, mainVars
  <2>1. StartInv'
    BY <1>0, <1>23, <2>0, StartFrame DEF ConsumeEmpty, IterType, mainVars, iterVars, cpVars
  <2>2. LoopInv'
    BY <1>0, <1>23 DEF ConsumeEmpty, LoopInv, LoopLeft, IterType, ProducerType, StartInv, Quiet, mainVars, iterVars, vars
  <2>3. ShutdownInv'
    BY <1>0, <1>23 DEF ConsumeEmpty, ShutdownInv, SqlClosed, SqlDone, SqlType, PoolType, CpType, WriterType, WorkerType, CkType, Quiet, StartInv, MainType, IdleCk, IdleWriter, IdleWorker, FlushDone, mainVars, iterVars, sqlVars, cpVars, vars
  <2> QED BY <2>1, <2>2, <2>3
<1>24. ASSUME NEW w \in Workers, ConsumeCompare(w) PROVE StartInv' /\ LoopInv' /\ ShutdownInv'
  <2>0. Equalling /\ Equalling'
    BY <1>24, Active DEF ConsumeCompare, Equalling, mainVars
  <2>1. StartInv'
    BY <1>0, <1>24, <2>0, StartFrame DEF ConsumeCompare, IterType, mainVars, iterVars, cpVars
  <2>2. LoopInv'
    BY <1>0, <1>24 DEF ConsumeCompare, LoopInv, LoopLeft, IterType, ProducerType, StartInv, Quiet, mainVars, iterVars, vars
  <2>3. ShutdownInv'
    BY <1>0, <1>24 DEF ConsumeCompare, ShutdownInv, SqlClosed, SqlDone, SqlType, PoolType, CpType, WriterType, WorkerType, CkType, Quiet, StartInv, MainType, IdleCk, IdleWriter, IdleWorker, FlushDone, mainVars, iterVars, sqlVars, cpVars, vars
  <2> QED BY <2>1, <2>2, <2>3
<1>25. ASSUME NEW w \in Workers, ConsumeReport(w) PROVE StartInv' /\ LoopInv' /\ ShutdownInv'
  <2>0. Equalling /\ Equalling'
    BY <1>25, Active DEF ConsumeReport, Equalling, mainVars
  <2>1. StartInv'
    BY <1>0, <1>25, <2>0, StartFrame DEF ConsumeReport, IterType, mainVars, iterVars, cpVars
  <2>2. LoopInv'
    BY <1>0, <1>25 DEF ConsumeReport, LoopInv, LoopLeft, IterType, ProducerType, StartInv, Quiet, mainVars, iterVars, vars
  <2>3. ShutdownInv'
    BY <1>0, <1>25 DEF ConsumeReport, ShutdownInv, SqlClosed, SqlDone, SqlType, PoolType, CpType, WriterType, WorkerType, CkType, Quiet, StartInv, MainType, IdleCk, IdleWriter, IdleWorker, FlushDone, mainVars, iterVars, sqlVars, cpVars, vars
  <2> QED BY <2>1, <2>2, <2>3
<1>26. ASSUME NEW w \in Workers, ConsumeSend(w) PROVE StartInv' /\ LoopInv' /\ ShutdownInv'
  <2>0. Equalling /\ Equalling'
    BY <1>26, Active DEF ConsumeSend, Equalling, mainVars
  <2>1. StartInv'
    BY <1>0, <1>26, <2>0, StartFrame DEF ConsumeSend, IterType, mainVars, iterVars, cpVars
  <2>2. LoopInv'
    BY <1>0, <1>26 DEF ConsumeSend, LoopInv, LoopLeft, IterType, ProducerType, StartInv, Quiet, mainVars, iterVars, vars
  <2>3. ShutdownInv'
    BY <1>0, <1>26 DEF ConsumeSend, ShutdownInv, SqlClosed, SqlDone, SqlType, PoolType, CpType, WriterType, WorkerType, CkType, Quiet, StartInv, MainType, IdleCk, IdleWriter, IdleWorker, FlushDone, mainVars, iterVars, sqlVars, cpVars, vars
  <2> QED BY <2>1, <2>2, <2>3
<1>27. CASE WriterTake
  <2>0. Equalling /\ Equalling'
    BY <1>27, Active DEF WriterTake, Equalling, mainVars
  <2>1. StartInv'
    BY <1>0, <1>27, <2>0, StartFrame DEF WriterTake, IterType, mainVars, iterVars, cpVars
  <2>2. LoopInv'
    BY <1>0, <1>27 DEF WriterTake, LoopInv, LoopLeft, IterType, ProducerType, StartInv, Quiet, mainVars, iterVars, vars
  <2>3. ShutdownInv'
    <3>1. Head(sqlCh) \in DMLType
      BY <1>0, <1>27 DEF WriterTake, SqlType
    <3>2. writer'.node # Nil /\ writer'.ph \notin {"idle", "exit"} /\ ~SqlDone
      BY <1>27, <3>1, SyncDiffAssumption DEF WriterTake, DMLType, ShutdownInv
    <3> QED BY <1>27, <3>2 DEF WriterTake, ShutdownInv, SqlClosed, SqlDone, mainVars, cpVars
  <2> QED BY <2>1, <2>2, <2>3
<1>28. CASE WriterCreate
  <2>1. CASE files[writer.node] # "none"
    BY <1>28, <2>1, VolatileControl DEF WriterCreate
  <2>2. CASE files[writer.node] = "none"
    <3>1. /\ writer.ph = "create" /\ writer' = [writer EXCEPT !.ph = "write"]
          /\ UNCHANGED <<mainVars, iterVars, worker, sqlCh, sqlOpen, cpVars>>
      BY <1>28, <2>2 DEF WriterCreate
    <3>2. Equalling /\ Equalling'
      BY <3>1, Active DEF Equalling, mainVars
    <3>3. StartInv'
      BY <1>0, <3>1, <3>2, StartFrame DEF IterType, mainVars, iterVars, cpVars
    <3>4. LoopInv'
      BY <3>1 DEF LoopInv, LoopLeft, mainVars, iterVars
    <3>5. ShutdownInv'
      BY <1>0, <3>1 DEF ShutdownInv, SqlClosed, SqlDone, SqlType, WriterType, mainVars, cpVars
    <3> QED BY <3>3, <3>4, <3>5
  <2> QED BY <2>1, <2>2
<1>29. CASE WriterWrite
  <2>0. Equalling /\ Equalling'
    BY <1>29, Active DEF WriterWrite, Equalling, mainVars
  <2>1. StartInv'
    BY <1>0, <1>29, <2>0, StartFrame DEF WriterWrite, IterType, mainVars, iterVars, cpVars
  <2>2. LoopInv'
    BY <1>0, <1>29 DEF WriterWrite, LoopInv, LoopLeft, IterType, ProducerType, StartInv, Quiet, mainVars, iterVars, vars
  <2>3. ShutdownInv'
    BY <1>0, <1>29 DEF WriterWrite, ShutdownInv, SqlClosed, SqlDone, SqlType, PoolType, CpType, WriterType, WorkerType, CkType, Quiet, StartInv, MainType, IdleCk, IdleWriter, IdleWorker, FlushDone, mainVars, iterVars, sqlVars, cpVars, vars
  <2> QED BY <2>1, <2>2, <2>3
<1>30. CASE WriterInsert
  <2>0. Equalling /\ Equalling'
    BY <1>30, Active DEF WriterInsert, Equalling, mainVars
  <2>1. StartInv'
    BY <1>0, <1>30, <2>0, StartFrame DEF WriterInsert, IterType, mainVars, iterVars, cpVars
  <2>2. LoopInv'
    BY <1>0, <1>30 DEF WriterInsert, LoopInv, LoopLeft, IterType, ProducerType, StartInv, Quiet, mainVars, iterVars, vars
  <2>3. ShutdownInv'
    BY <1>0, <1>30 DEF WriterInsert, ShutdownInv, SqlClosed, SqlDone, SqlType, PoolType, CpType, WriterType, WorkerType, CkType, Quiet, StartInv, MainType, IdleCk, IdleWriter, IdleWorker, FlushDone, mainVars, iterVars, sqlVars, cpVars, vars
  <2> QED BY <2>1, <2>2, <2>3
<1>31. CASE WriterExit
  <2>0. Equalling /\ Equalling'
    BY <1>31, Active DEF WriterExit, Equalling, mainVars, ShutdownInv, SqlClosed
  <2>1. StartInv'
    BY <1>0, <1>31, <2>0, StartFrame DEF WriterExit, IterType, mainVars, iterVars, cpVars
  <2>2. LoopInv'
    BY <1>0, <1>31 DEF WriterExit, LoopInv, LoopLeft, IterType, ProducerType, StartInv, Quiet, mainVars, iterVars, vars
  <2>3. ShutdownInv'
    BY <1>0, <1>31 DEF WriterExit, ShutdownInv, SqlClosed, SqlDone, SqlType, PoolType, CpType, WriterType, WorkerType, CkType, Quiet, StartInv, MainType, IdleCk, IdleWriter, IdleWorker, FlushDone, mainVars, iterVars, sqlVars, cpVars, vars
  <2> QED BY <2>1, <2>2, <2>3
<1>32. CASE FlushTimer
  <2>0. Equalling /\ Equalling'
    BY <1>32, Active DEF FlushTimer, Equalling, mainVars
  <2>1. StartInv'
    BY <1>0, <1>32, <2>0, StartFrame DEF FlushTimer, IterType, mainVars, iterVars, cpVars
  <2>2. LoopInv'
    BY <1>0, <1>32 DEF FlushTimer, LoopInv, LoopLeft, IterType, ProducerType, StartInv, Quiet, mainVars, iterVars, vars
  <2>3. ShutdownInv'
    BY <1>0, <1>32 DEF FlushTimer, ShutdownInv, SqlClosed, SqlDone, SqlType, PoolType, CpType, WriterType, WorkerType, CkType, Quiet, StartInv, MainType, IdleCk, IdleWriter, IdleWorker, FlushDone, mainVars, iterVars, sqlVars, cpVars, vars
  <2> QED BY <2>1, <2>2, <2>3
<1>33. CASE PopAdjacent
  <2>0. Equalling /\ Equalling'
    BY <1>33, Active DEF PopAdjacent, Equalling, mainVars
  <2>1. StartInv'
    <3>1. PICK m \in heap : IsAdjacent(saved, m) /\ saved' = m
      BY <1>33 DEF PopAdjacent
    <3>2. m \in Nodes /\ saved \in Nodes /\ (start # Nil => start \in Nodes)
      BY <1>0, <3>1 DEF MainType, CpType, ChunkOrNil, Nodes
    <3>3. ComparesLeq(saved, m)
      BY <1>0, <3>1, <3>2, AdjacentIsSuccessor DEF CpType, ComparesLeq
    <3>4. start # Nil => ComparesLeq(start, m)
      BY <3>2, <3>3, CompareTransitive DEF StartInv
    <3> QED BY <1>33, <2>0, <3>1, <3>4 DEF PopAdjacent, StartInv, Equalling, mainVars, iterVars
  <2>2. LoopInv'
    BY <1>0, <1>33 DEF PopAdjacent, LoopInv, LoopLeft, IterType, ProducerType, StartInv, Quiet, mainVars, iterVars, vars
  <2>3. ShutdownInv'
    BY <1>0, <1>33 DEF PopAdjacent, ShutdownInv, SqlClosed, SqlDone, SqlType, PoolType, CpType, WriterType, WorkerType, CkType, Quiet, StartInv, MainType, IdleCk, IdleWriter, IdleWorker, FlushDone, mainVars, iterVars, sqlVars, cpVars, vars
  <2> QED BY <2>1, <2>2, <2>3
<1>34. CASE PopEnds
  <2>0. Equalling /\ Equalling'
    BY <1>34, Active DEF PopEnds, Equalling, mainVars
  <2>1. StartInv'
    BY <1>0, <1>34, <2>0, StartFrame DEF PopEnds, IterType, mainVars, iterVars, cpVars
  <2>2. LoopInv'
    BY <1>0, <1>34 DEF PopEnds, LoopInv, LoopLeft, IterType, ProducerType, StartInv, Quiet, mainVars, iterVars, vars
  <2>3. ShutdownInv'
    BY <1>0, <1>34 DEF PopEnds, ShutdownInv, SqlClosed, SqlDone, SqlType, PoolType, CpType, WriterType, WorkerType, CkType, Quiet, StartInv, MainType, IdleCk, IdleWriter, IdleWorker, FlushDone, mainVars, iterVars, sqlVars, cpVars, vars
  <2> QED BY <2>1, <2>2, <2>3
<1>35. CASE SnapshotReport
  <2>0. Equalling /\ Equalling'
    BY <1>35, Active DEF SnapshotReport, Equalling, mainVars
  <2>1. StartInv'
    BY <1>0, <1>35, <2>0, StartFrame DEF SnapshotReport, IterType, mainVars, iterVars, cpVars
  <2>2. LoopInv'
    BY <1>0, <1>35 DEF SnapshotReport, LoopInv, LoopLeft, IterType, ProducerType, StartInv, Quiet, mainVars, iterVars, vars
  <2>3. ShutdownInv'
    BY <1>0, <1>35 DEF SnapshotReport, ShutdownInv, SqlClosed, SqlDone, SqlType, PoolType, CpType, WriterType, WorkerType, CkType, Quiet, StartInv, MainType, IdleCk, IdleWriter, IdleWorker, FlushDone, mainVars, iterVars, sqlVars, cpVars, vars
  <2> QED BY <2>1, <2>2, <2>3
<1>36. CASE SaveChunk
  <2>0. Equalling /\ Equalling'
    BY <1>36, Active DEF SaveChunk, Equalling, mainVars
  <2>1. StartInv'
    BY <1>0, <1>36, <2>0, StartFrame DEF SaveChunk, IterType, mainVars, iterVars, cpVars
  <2>2. LoopInv'
    BY <1>0, <1>36 DEF SaveChunk, LoopInv, LoopLeft, IterType, ProducerType, StartInv, Quiet, mainVars, iterVars, vars
  <2>3. ShutdownInv'
    BY <1>0, <1>36 DEF SaveChunk, ShutdownInv, SqlClosed, SqlDone, SqlType, PoolType, CpType, WriterType, WorkerType, CkType, Quiet, StartInv, MainType, IdleCk, IdleWriter, IdleWorker, FlushDone, mainVars, iterVars, sqlVars, cpVars, vars
  <2> QED BY <2>1, <2>2, <2>3
<1>37. CASE SaveChunkFails
  <2>0. Equalling /\ Equalling'
    BY <1>37, Active DEF SaveChunkFails, Equalling, mainVars
  <2>1. StartInv'
    BY <1>0, <1>37, <2>0, StartFrame DEF SaveChunkFails, IterType, mainVars, iterVars, cpVars
  <2>2. LoopInv'
    BY <1>0, <1>37 DEF SaveChunkFails, LoopInv, LoopLeft, IterType, ProducerType, StartInv, Quiet, mainVars, iterVars, vars
  <2>3. ShutdownInv'
    BY <1>0, <1>37 DEF SaveChunkFails, ShutdownInv, SqlClosed, SqlDone, SqlType, PoolType, CpType, WriterType, WorkerType, CkType, Quiet, StartInv, MainType, IdleCk, IdleWriter, IdleWorker, FlushDone, mainVars, iterVars, sqlVars, cpVars, vars
  <2> QED BY <2>1, <2>2, <2>3
<1>38. CASE Finished
  <2>1. StartInv'
    BY <1>0, <1>38 DEF Finished, vars, StartInv, Quiet, Equalling, mainVars, iterVars, sqlVars, cpVars, vars
  <2>2. LoopInv'
    BY <1>0, <1>38 DEF Finished, vars, LoopInv, LoopLeft, IterType, ProducerType, StartInv, Quiet, mainVars, iterVars, vars
  <2>3. ShutdownInv'
    BY <1>0, <1>38 DEF Finished, vars, ShutdownInv, SqlClosed, SqlDone, SqlType, PoolType, CpType, WriterType, WorkerType, CkType, Quiet, StartInv, MainType, IdleCk, IdleWriter, IdleWorker, FlushDone, mainVars, iterVars, sqlVars, cpVars, vars
  <2> QED BY <2>1, <2>2, <2>3
<1>39. CASE UNCHANGED vars
  <2>1. StartInv'
    BY <1>0, <1>39 DEF vars, StartInv, Quiet, Equalling, mainVars, iterVars, sqlVars, cpVars, vars
  <2>2. LoopInv'
    BY <1>0, <1>39 DEF vars, LoopInv, LoopLeft, IterType, ProducerType, StartInv, Quiet, mainVars, iterVars, vars
  <2>3. ShutdownInv'
    BY <1>0, <1>39 DEF vars, ShutdownInv, SqlClosed, SqlDone, SqlType, PoolType, CpType, WriterType, WorkerType, CkType, Quiet, StartInv, MainType, IdleCk, IdleWriter, IdleWorker, FlushDone, mainVars, iterVars, sqlVars, cpVars, vars
  <2> QED BY <2>1, <2>2, <2>3
<1> QED
  BY <1>1, <1>2, <1>3, <1>4, <1>5, <1>6, <1>7, <1>8, <1>9, <1>10, <1>11, <1>12, <1>13,
      <1>14, <1>15, <1>16, <1>17, <1>18, <1>19, <1>20, <1>21, <1>22, <1>23, <1>24,
      <1>25, <1>26, <1>27, <1>28, <1>29, <1>30, <1>31, <1>32, <1>33, <1>34, <1>35,
      <1>36, <1>37, <1>38, <1>39
    DEF Next, Main, Producer, Produce, Consume, Writer, Flush

-----------------------------------------------------------------------------
(* Slices as sequences.                                                    *)

\* Membership in the tail of a slice.
LEMMA InTail ==
    ASSUME NEW S, NEW s \in Seq(S), s # <<>>, NEW d
    PROVE  InSlice(d, s) <=> d = Head(s) \/ InSlice(d, Tail(s))
<1>1. Len(s) \in Nat \ {0} /\ Len(Tail(s)) = Len(s) - 1 /\ Head(s) = s[1]
  OBVIOUS
<1>2. \A i \in 1 .. Len(Tail(s)) : Tail(s)[i] = s[i + 1]
  OBVIOUS
<1>3. ASSUME InSlice(d, s) PROVE d = Head(s) \/ InSlice(d, Tail(s))
  <2>1. PICK i \in 1 .. Len(s) : s[i] = d
    BY <1>3 DEF InSlice
  <2>2. CASE i = 1
    BY <1>1, <2>1, <2>2
  <2>3. CASE i # 1
    <3>1. i - 1 \in 1 .. Len(Tail(s)) /\ (i - 1) + 1 = i
      BY <1>1, <2>1, <2>3
    <3>2. Tail(s)[i - 1] = d
      BY <1>2, <2>1, <3>1
    <3> QED BY <3>1, <3>2 DEF InSlice
  <2> QED BY <2>2, <2>3
<1>4. ASSUME d = Head(s) \/ InSlice(d, Tail(s)) PROVE InSlice(d, s)
  <2>1. CASE d = Head(s)
    BY <1>1, <2>1 DEF InSlice
  <2>2. CASE InSlice(d, Tail(s))
    <3>1. PICK i \in 1 .. Len(Tail(s)) : Tail(s)[i] = d
      BY <2>2 DEF InSlice
    <3>2. i + 1 \in 1 .. Len(s) /\ s[i + 1] = d
      BY <1>1, <1>2, <3>1
    <3> QED BY <3>2 DEF InSlice
  <2> QED BY <1>4, <2>1, <2>2
<1> QED BY <1>3, <1>4

\* Membership in a slice with an element appended.
LEMMA InAppend ==
    ASSUME NEW S, NEW s \in Seq(S), NEW e \in S, NEW d
    PROVE  InSlice(d, Append(s, e)) <=> InSlice(d, s) \/ d = e
<1>1. /\ Len(s) \in Nat /\ Len(Append(s, e)) = Len(s) + 1
      /\ Append(s, e)[Len(s) + 1] = e
      /\ \A i \in 1 .. Len(s) : Append(s, e)[i] = s[i]
  OBVIOUS
<1>2. \A i \in 1 .. (Len(s) + 1) : i \in 1 .. Len(s) \/ i = Len(s) + 1
  BY <1>1
<1>3. \A i \in 1 .. Len(s) : i \in 1 .. (Len(s) + 1)
  BY <1>1
<1>4. Len(s) + 1 \in 1 .. (Len(s) + 1)
  BY <1>1
<1> QED BY <1>1, <1>2, <1>3, <1>4 DEF InSlice

\* What is left of a slice when its first chunk is sent.
LEMMA TailSlice ==
    ASSUME NEW t, NEW s \in Seq(Plan), s # <<>>, IsSlice(t, s)
    PROVE  /\ IsSlice(t, Tail(s))
           /\ Tail(s) # <<>> => Tail(s)[1].left = s[1].left
           /\ Head(s).table = t /\ Head(s).left = s[1].left
           /\ ~InSlice(Head(s), Tail(s))
<1>1. Len(s) \in Nat \ {0} /\ Len(Tail(s)) = Len(s) - 1 /\ Head(s) = s[1]
  OBVIOUS
<1>2. \A i \in 1 .. Len(Tail(s)) : Tail(s)[i] = s[i + 1] /\ i + 1 \in 1 .. Len(s)
  BY <1>1
<1>3. s[1].index \in Int
  BY <1>1, PlanFields
<1>4. ASSUME NEW i \in 1 .. Len(Tail(s))
      PROVE  /\ Tail(s)[i].table = t /\ Tail(s)[i].left = s[1].left
             /\ Tail(s)[i].index = s[1].index + i
  <2>1. i + 1 \in 1 .. Len(s) /\ Tail(s)[i] = s[i + 1] /\ (i + 1) - 1 = i
    BY <1>2
  <2> QED BY <2>1 DEF IsSlice
<1>5. Tail(s) # <<>> => 1 \in 1 .. Len(Tail(s))
  BY <1>1
<1>6. Tail(s) # <<>> => Tail(s)[1].left = s[1].left /\ Tail(s)[1].index = s[1].index + 1
  BY <1>4, <1>5
<1>7. \A i \in 1 .. Len(Tail(s)) : Tail(s) # <<>>
  <2>1. Len(<<>>) = 0
    OBVIOUS
  <2> QED BY <2>1
<1>8. IsSlice(t, Tail(s))
  BY <1>3, <1>4, <1>6, <1>7 DEF IsSlice
<1>9. ~InSlice(Head(s), Tail(s))
  <2>1. SUFFICES ASSUME NEW i \in 1 .. Len(Tail(s)), Tail(s)[i] = Head(s) PROVE FALSE
    BY DEF InSlice
  <2>2. s[1].index + i = s[1].index
    BY <1>1, <1>4, <2>1
  <2> QED BY <1>3, <2>2
<1>10. Head(s).table = t
  BY <1>1 DEF IsSlice
<1> QED BY <1>1, <1>6, <1>8, <1>9, <1>10

\* Chunks of one slice share their table and bucket.
LEMMA InSliceFields ==
    ASSUME NEW t, NEW s, NEW d, IsSlice(t, s), InSlice(d, s)
    PROVE  d.table = t /\ d.left = s[1].left
  BY DEF IsSlice, InSlice

-----------------------------------------------------------------------------
(* Steps by what they do to the places of the chunks.                      *)

\* Steps that leave every chunk where it is.
Aside ==
    /\ UNCHANGED <<start, nextTable, prod, chunksCh, held, worker, sqlCh, verdict,
                   prodFailed>>
    /\ writer'.node = writer.node
    /\ pc' = "down" <=> pc = "down"

Dies == Volatile /\ UNCHANGED <<files, verdict, runs>> /\ ckpt' \in {ckpt, Nil}

\* Every step starts or ends a run, moves or drops chunks, or leaves all of
\* them where they are.
LEMMA StepPlaces ==
    ASSUME TypeOK, StartInv, [Next]_vars
    PROVE  \/ StartRun \/ Dies \/ Aside
           \/ BeginEqual \/ StartTable \/ AnalyzeFails \/ NextChunk
           \/ \E t \in Tables : SendChunk(t) \/ SplitFails(t) \/ IterFails(t) \/ IterEnds(t)
           \/ \E w \in Workers : \/ Apply(w) \/ ConsumeEmpty(w) \/ ConsumeCompare(w)
                                 \/ ConsumeReport(w) \/ ConsumeSend(w)
           \/ WriterTake \/ WriterInsert
<1> USE DEF mainVars, iterVars, sqlVars, cpVars
<1>1. StartRunFails => Aside
  BY DEF StartRunFails, Aside
<1>2. Crash => Dies
  BY DEF Crash, Dies
<1>3. StructEqual => Aside
  BY DEF StructEqual, Aside
<1>4. NextErr => Aside
  BY DEF NextErr, Aside
<1>5. NextEnd => Aside
  BY DEF NextEnd, Aside
<1>6. WaitPool => Aside
  BY DEF WaitPool, Aside
<1>7. WaitSql => Aside
  BY DEF WaitSql, Aside
<1>8. WaitCkpt => Aside
  BY DEF WaitCkpt, Aside
<1>9. Fatal => Dies
  BY DEF Fatal, Dies
<1>10. Close => Dies
  BY DEF Close, Dies
<1>11. Stop => Aside
  BY DEF Stop, Aside
<1>12. CloseChunks => Aside
  BY DEF CloseChunks, Aside
<1>13. WriterCreate => Aside \/ Dies
  BY DEF WriterCreate, Aside, Dies, StartInv, Quiet, IdleWriter, TypeOK, SqlType, WriterType
<1>14. WriterWrite => Aside
  BY DEF WriterWrite, Aside, TypeOK, SqlType, WriterType
<1>15. WriterExit => Aside
  BY DEF WriterExit, Aside, TypeOK, SqlType, WriterType
<1>16. FlushTimer => Aside
  BY DEF FlushTimer, Aside
<1>17. PopAdjacent => Aside
  BY DEF PopAdjacent, Aside
<1>18. PopEnds => Aside
  BY DEF PopEnds, Aside
<1>19. SnapshotReport => Aside
  BY DEF SnapshotReport, Aside
<1>20. SaveChunk => Aside
  BY DEF SaveChunk, Aside
<1>21. SaveChunkFails => Aside
  BY DEF SaveChunkFails, Aside
<1>22. Finished => Aside
  BY DEF Finished, vars, Aside
<1>23. UNCHANGED vars => Aside
  BY DEF vars, Aside
<1> HIDE DEF mainVars, iterVars, sqlVars, cpVars
<1> QED
  BY <1>1, <1>2, <1>3, <1>4, <1>5, <1>6, <1>7, <1>8, <1>9, <1>10, <1>11, <1>12, <1>13,
      <1>14, <1>15, <1>16, <1>17, <1>18, <1>19, <1>20, <1>21, <1>22, <1>23
    DEF Next, Main, Producer, Produce, Consume, Writer, Flush

-----------------------------------------------------------------------------
(* Producers.                                                              *)

\* No producer changes.
LEMMA ProdFrame == ASSUME ProdInv, UNCHANGED prod, nextTable' >= nextTable,
                          nextTable \in Int, nextTable' \in Int
                   PROVE  ProdInv'
<1>1. \A t \in Tables : t >= nextTable' => t >= nextTable
  BY PlanAssumption DEF Tables
<1>2. \A t \in Tables : GoodProducer(t, prod[t])' <=> GoodProducer(t, prod[t])
  BY DEF GoodProducer, IsSlice
<1> QED BY <1>1, <1>2 DEF ProdInv

\* One table's producer changes; the others are as they were.
LEMMA ProdOne ==
    ASSUME ProdInv, NEW t \in Tables,
           \A u \in Tables : u # t => prod'[u] = prod[u],
           nextTable \in Int, nextTable' \in Int, nextTable' >= nextTable,
           t >= nextTable' => prod'[t].st = "todo",
           GoodProducer(t, prod'[t])
    PROVE  ProdInv'
<1>1. \A u \in Tables : u >= nextTable' => u >= nextTable
  BY PlanAssumption DEF Tables
<1>2. ASSUME NEW u \in Tables
      PROVE  GoodProducer(u, prod'[u]) /\ (u >= nextTable' => prod'[u].st = "todo")
  <2>1. CASE u = t
    BY <2>1
  <2>2. CASE u # t
    <3>1. prod'[u] = prod[u]
      BY <2>2
    <3> QED BY <1>1, <3>1 DEF ProdInv
  <2> QED BY <2>1, <2>2
<1>3. \A u \in Tables : GoodProducer(u, prod'[u]) <=> GoodProducer(u, prod[u])'
  BY DEF GoodProducer, IsSlice
<1> QED BY <1>2, <1>3 DEF ProdInv

\* Before Equal starts, every table is still to be produced.
LEMMA QuietProd ==
    ASSUME prod = [t \in Tables |-> NoProducer]
    PROVE  ProdInv
<1>1. \A t \in Tables : prod[t] = NoProducer
  OBVIOUS
<1>2. NoProducer.st = "todo" /\ NoProducer.cur = <<>> /\ NoProducer.slices = {}
  BY DEF NoProducer
<1>3. \A t : IsSlice(t, <<>>)
  BY DEF IsSlice
<1> QED BY <1>1, <1>2, <1>3 DEF ProdInv, GoodProducer

\* Every step keeps what is left of each table a set of disjoint slices.
LEMMA ProdStep ==
    ASSUME TypeOK, StartInv, ProdInv, [Next]_vars
    PROVE  ProdInv'
<1>0. /\ prod \in [Tables -> ProducerType]
      /\ nextTable \in Int
  BY DEF TypeOK, IterType
<1>1. CASE StartRun \/ Aside \/ NextChunk \/ WriterTake \/ WriterInsert
  <2>1. UNCHANGED <<prod, nextTable>>
    BY <1>1 DEF StartRun, Aside, NextChunk, WriterTake, WriterInsert, iterVars
  <2> QED BY <1>0, <2>1, ProdFrame
<1>2. CASE Dies
  <2>1. \A t \in Tables : prod'[t] = NoProducer
    BY <1>2 DEF Dies, Volatile
  <2>2. NoProducer.st = "todo" /\ NoProducer.cur = <<>> /\ NoProducer.slices = {}
    BY DEF NoProducer
  <2>3. \A t : IsSlice(t, <<>>)
    BY DEF IsSlice
  <2> QED BY <2>1, <2>2, <2>3 DEF ProdInv, GoodProducer
<1>3. CASE BeginEqual
  <2>1. Quiet /\ UNCHANGED prod
    BY <1>3 DEF StartInv, BeginEqual
  <2>2. nextTable' \in Nat
    BY <1>3, PlanFields DEF BeginEqual, StartIndex, TypeOK, MainType, ChunkOrNil
  <2> QED BY <1>0, <2>1, <2>2, ProdFrame DEF Quiet
<1>4. CASE StartTable
  <2>1. nextTable \in Tables
    BY <1>0, <1>4, PlanAssumption DEF StartTable, TypeOK, IterType, Tables
  <2> DEFINE sl == IF start # Nil /\ nextTable = start.table THEN RestSlices(start)
                   ELSE AllSlices(nextTable)
             p == [NoProducer EXCEPT !.st = "run", !.slices = sl]
  <2>2. \A s \in sl : IsSlice(nextTable, s) /\ \A r \in sl : r[1].left = s[1].left => r = s
    <3>1. CASE start # Nil /\ nextTable = start.table
      <4>1. start \in Plan
        BY <3>1 DEF TypeOK, MainType, ChunkOrNil
      <4> QED BY <3>1, <4>1, RestSlicesShape
    <3>2. CASE ~(start # Nil /\ nextTable = start.table)
      BY <2>1, <3>2, AllSlicesShape
    <3> QED BY <3>1, <3>2
  <2>3. prod' = [prod EXCEPT ![nextTable] = p] /\ nextTable' = nextTable + 1
    BY <1>4 DEF StartTable
  <2> HIDE DEF sl
  <2>4. p.st = "run" /\ p.cur = <<>> /\ p.slices = sl
    BY DEF NoProducer
  <2> HIDE DEF p
  <2>5. IsSlice(nextTable, <<>>)
    BY DEF IsSlice
  <2>6. GoodProducer(nextTable, p)
    BY <2>2, <2>4, <2>5 DEF GoodProducer
  <2>7. prod'[nextTable] = p /\ \A u \in Tables : u # nextTable => prod'[u] = prod[u]
    BY <1>0, <2>1, <2>3
  <2>8. nextTable' \in Int /\ nextTable' >= nextTable /\ ~(nextTable >= nextTable')
    BY <1>0, <2>3
  <2> QED BY <1>0, <2>1, <2>6, <2>7, <2>8, ProdOne
<1>5. CASE AnalyzeFails
  <2>1. nextTable \in Tables
    BY <1>0, <1>5, PlanAssumption DEF AnalyzeFails, TypeOK, IterType, Tables
  <2> DEFINE p == [prod[nextTable] EXCEPT !.st = "done"]
  <2>2. prod' = [prod EXCEPT ![nextTable] = p] /\ nextTable' = nextTable + 1
    BY <1>5 DEF AnalyzeFails
  <2>3. prod[nextTable].st = "todo" /\ prod[nextTable].cur = <<>>
        /\ prod[nextTable].slices = {}
    BY <1>0, <2>1 DEF ProdInv, GoodProducer
  <2>4. p.st = "done" /\ p.cur = <<>> /\ p.slices = {}
    BY <1>0, <2>1, <2>3 DEF ProducerType
  <2> HIDE DEF p
  <2>5. IsSlice(nextTable, <<>>)
    BY DEF IsSlice
  <2>6. GoodProducer(nextTable, p)
    BY <2>4, <2>5 DEF GoodProducer
  <2>7. prod'[nextTable] = p /\ \A u \in Tables : u # nextTable => prod'[u] = prod[u]
    BY <1>0, <2>1, <2>2
  <2>8. nextTable' \in Int /\ nextTable' >= nextTable /\ ~(nextTable >= nextTable')
    BY <1>0, <2>2
  <2> QED BY <1>0, <2>1, <2>6, <2>7, <2>8, ProdOne
<1>6. ASSUME NEW t \in Tables, SendChunk(t) PROVE ProdInv'
  <2>1. PICK s \in IF prod[t].cur = <<>> THEN prod[t].slices ELSE {prod[t].cur} :
          prod' = [prod EXCEPT ![t].cur = Tail(s), ![t].slices = @ \ {s}]
    BY <1>6 DEF SendChunk
  <2> DEFINE p == [prod[t] EXCEPT !.cur = Tail(s), !.slices = @ \ {s}]
  <2>2. prod[t] \in ProducerType /\ UNCHANGED nextTable /\ prod[t].st = "run"
    BY <1>0, <1>6 DEF SendChunk
  <2>3. s \in Seq(Plan) /\ s # <<>>
    BY <2>1, <2>2 DEF ProducerType
  <2>4. IsSlice(t, s)
    BY <2>1 DEF ProdInv, GoodProducer
  <2>5. /\ p.st = "run" /\ p.cur = Tail(s) /\ p.slices = prod[t].slices \ {s}
        /\ prod' = [prod EXCEPT ![t] = p]
    BY <2>1, <2>2 DEF ProducerType
  <2> HIDE DEF p
  <2>6. IsSlice(t, Tail(s)) /\ (Tail(s) # <<>> => Tail(s)[1].left = s[1].left)
    BY <2>3, <2>4, TailSlice
  <2>7. \A r \in p.slices : r[1].left # s[1].left
    BY <2>1, <2>5 DEF ProdInv, GoodProducer
  <2>8. ~(t >= nextTable')
    BY <2>2 DEF ProdInv, GoodProducer
  <2>9. \A r \in p.slices : IsSlice(t, r) /\ \A q \in p.slices : q[1].left = r[1].left => q = r
    BY <2>5 DEF ProdInv, GoodProducer
  <2>10. GoodProducer(t, p)
    BY <2>5, <2>6, <2>7, <2>9 DEF GoodProducer
  <2>11. prod'[t] = p /\ \A u \in Tables : u # t => prod'[u] = prod[u]
    BY <1>0, <2>5
  <2> QED BY <1>0, <2>2, <2>8, <2>10, <2>11, ProdOne
<1>7. ASSUME NEW t \in Tables, SplitFails(t) PROVE ProdInv'
  <2>1. PICK drop \in SUBSET prod[t].slices :
          prod' = [prod EXCEPT ![t].slices = @ \ drop, ![t].errs = @ + 1]
    BY <1>7 DEF SplitFails
  <2> DEFINE p == [prod[t] EXCEPT !.slices = @ \ drop, !.errs = @ + 1]
  <2>2. prod[t] \in ProducerType /\ UNCHANGED nextTable /\ prod[t].st = "run"
    BY <1>0, <1>7 DEF SplitFails
  <2>3. /\ p.st = "run" /\ p.cur = prod[t].cur /\ p.slices \subseteq prod[t].slices
        /\ prod' = [prod EXCEPT ![t] = p]
    BY <2>1, <2>2 DEF ProducerType
  <2> HIDE DEF p
  <2>4. ~(t >= nextTable')
    BY <2>2 DEF ProdInv, GoodProducer
  <2>5. /\ IsSlice(t, p.cur)
        /\ \A s \in p.slices :
              /\ IsSlice(t, s)
              /\ p.cur # <<>> => s[1].left # p.cur[1].left
              /\ \A r \in p.slices : r[1].left = s[1].left => r = s
    BY <2>3 DEF ProdInv, GoodProducer
  <2>6. GoodProducer(t, p)
    BY <2>3, <2>5 DEF GoodProducer
  <2>7. prod'[t] = p /\ \A u \in Tables : u # t => prod'[u] = prod[u]
    BY <1>0, <2>3
  <2> QED BY <1>0, <2>2, <2>4, <2>6, <2>7, ProdOne
<1>8. ASSUME NEW t \in Tables, IterFails(t) \/ IterEnds(t) PROVE ProdInv'
  <2>1. /\ prod[t] \in ProducerType /\ UNCHANGED nextTable
        /\ prod[t].st = "run" /\ prod[t].cur = <<>>
    BY <1>0, <1>8 DEF IterFails, IterEnds
  <2>2. PICK p : /\ prod' = [prod EXCEPT ![t] = p]
                 /\ p.st = "done" /\ p.cur = <<>> /\ p.slices = {}
    <3>1. CASE IterFails(t)
      <4> DEFINE p == [prod[t] EXCEPT !.st = "done", !.slices = {}]
      <4>1. p.st = "done" /\ p.cur = <<>> /\ p.slices = {}
        BY <2>1 DEF ProducerType
      <4>2. prod' = [prod EXCEPT ![t] = p]
        BY <3>1 DEF IterFails
      <4> HIDE DEF p
      <4> QED BY <4>1, <4>2
    <3>2. CASE IterEnds(t)
      <4> DEFINE p == [prod[t] EXCEPT !.st = "done"]
      <4>1. p.st = "done" /\ p.cur = <<>> /\ p.slices = {}
        BY <2>1, <3>2 DEF ProducerType, IterEnds
      <4>2. prod' = [prod EXCEPT ![t] = p]
        BY <3>2 DEF IterEnds
      <4> HIDE DEF p
      <4> QED BY <4>1, <4>2
    <3> QED BY <1>8, <3>1, <3>2
  <2>3. ~(t >= nextTable')
    BY <2>1 DEF ProdInv, GoodProducer
  <2>4. IsSlice(t, <<>>)
    BY DEF IsSlice
  <2>5. GoodProducer(t, p)
    BY <2>2, <2>4 DEF GoodProducer
  <2>6. prod'[t] = p /\ \A u \in Tables : u # t => prod'[u] = prod[u]
    BY <1>0, <2>2
  <2> QED BY <1>0, <2>1, <2>3, <2>5, <2>6, ProdOne
<1>9. ASSUME NEW w \in Workers,
             \/ Apply(w) \/ ConsumeEmpty(w) \/ ConsumeCompare(w) \/ ConsumeReport(w)
             \/ ConsumeSend(w)
      PROVE  ProdInv'
  <2>1. UNCHANGED <<prod, nextTable>>
    BY <1>9 DEF Apply, ConsumeEmpty, ConsumeCompare, ConsumeReport, ConsumeSend, iterVars
  <2> QED BY <1>0, <2>1, ProdFrame
<1> QED BY <1>1, <1>2, <1>3, <1>4, <1>5, <1>6, <1>7, <1>8, <1>9, StepPlaces

-----------------------------------------------------------------------------
(* Places.                                                                 *)

\* A stage is what it was when the variables that make it are.
LEMMA StageFrame ==
    ASSUME NEW d
    PROVE  /\ UNCHANGED <<start, nextTable>> /\ (pc' = "down" <=> pc = "down")
                => (At(d, "todo")' <=> At(d, "todo"))
           /\ UNCHANGED prod => (At(d, "split")' <=> At(d, "split"))
           /\ UNCHANGED chunksCh => (At(d, "queue")' <=> At(d, "queue"))
           /\ UNCHANGED held => (At(d, "held")' <=> At(d, "held"))
           /\ UNCHANGED worker => (At(d, "work")' <=> At(d, "work"))
           /\ UNCHANGED sqlCh => (At(d, "sql")' <=> At(d, "sql"))
           /\ writer'.node = writer.node => (At(d, "write")' <=> At(d, "write"))
           /\ UNCHANGED verdict => (At(d, "done")' <=> At(d, "done"))
<1>1. UNCHANGED <<start, nextTable>> /\ (pc' = "down" <=> pc = "down")
        => (At(d, "todo")' <=> At(d, "todo"))
  BY DEF At, Todo, Behind
<1>2. UNCHANGED prod => (At(d, "split")' <=> At(d, "split"))
  BY DEF At, InSplit, InSlice
<1>3. UNCHANGED chunksCh => (At(d, "queue")' <=> At(d, "queue"))
  BY DEF At, InQueue
<1>4. UNCHANGED held => (At(d, "held")' <=> At(d, "held"))
  BY DEF At
<1>5. UNCHANGED worker => (At(d, "work")' <=> At(d, "work"))
  BY DEF At, InWork
<1>6. UNCHANGED sqlCh => (At(d, "sql")' <=> At(d, "sql"))
  BY DEF At, InSql
<1>7. writer'.node = writer.node => (At(d, "write")' <=> At(d, "write"))
  BY DEF At
<1>8. UNCHANGED verdict => (At(d, "done")' <=> At(d, "done"))
  BY DEF At, Checked
<1> QED BY <1>1, <1>2, <1>3, <1>4, <1>5, <1>6, <1>7, <1>8

\* The chunks of C move from stage p to stage q, the others stay.
Moves(C, p, q) ==
    /\ \A c \in C : At(c, p)
    /\ \A d \in Plan : \A s \in Stages :
          At(d, s)' <=> (s = q /\ d \in C) \/ (At(d, s) /\ ~(s = p /\ d \in C))

\* When chunks move from one stage to another, each is still at one stage.
LEMMA MovedPlaces ==
    ASSUME NEW C \in SUBSET Plan, NEW p \in Stages, NEW q \in Stages,
           OnePlace, NoneLost, Moves(C, p, q),
           pc' = "down" <=> pc = "down", prodFailed' = prodFailed
    PROVE  OnePlace' /\ NoneLost'
<1>1. ASSUME NEW d \in Plan, NEW s \in Stages, NEW u \in Stages, At(d, s)', At(d, u)'
      PROVE  s = u
  <2>1. CASE d \in C
    <3>1. At(d, p) /\ \A r \in Stages : At(d, r) => r = p
      BY <2>1 DEF Moves, OnePlace
    <3> QED BY <1>1, <2>1, <3>1 DEF Moves
  <2>2. CASE d \notin C
    BY <1>1, <2>2 DEF Moves, OnePlace
  <2> QED BY <2>1, <2>2
<1>2. ASSUME pc' # "down", ~prodFailed', NEW d \in Plan
      PROVE  \E s \in Stages : At(d, s)'
  <2>1. CASE d \in C
    BY <2>1 DEF Moves
  <2>2. CASE d \notin C
    <3>1. PICK s \in Stages : At(d, s)
      BY <1>2 DEF NoneLost
    <3> QED BY <2>2, <3>1 DEF Moves
  <2> QED BY <2>1, <2>2
<1>3. OnePlace'
  BY <1>1 DEF OnePlace
<1>4. NoneLost'
  BY <1>2 DEF NoneLost
<1> QED BY <1>3, <1>4

\* The same when no chunk moves.
LEMMA SamePlaces ==
    ASSUME OnePlace, NoneLost, pc # "down", prodFailed' = prodFailed,
           \A d \in Plan : \A s \in Stages : At(d, s)' <=> At(d, s)
    PROVE  OnePlace' /\ NoneLost'
<1>1. OnePlace'
  BY DEF OnePlace
<1>2. NoneLost'
  BY DEF NoneLost
<1> QED BY <1>1, <1>2

\* Chunks get lost, and the failure that loses them is on record.
LEMMA FewerPlaces ==
    ASSUME OnePlace, prodFailed',
           \A d \in Plan : \A s \in Stages : At(d, s)' => At(d, s)
    PROVE  OnePlace' /\ NoneLost'
<1>1. OnePlace'
  BY DEF OnePlace
<1>2. NoneLost'
  BY DEF NoneLost
<1> QED BY <1>1, <1>2

-----------------------------------------------------------------------------
(* No chunk twice at one stage.                                            *)

\* A worker keeps its chunk until it has sent the result.
LEMMA ConsumeKeepsNode ==
    ASSUME worker \in [Workers -> WorkerType], NEW w \in Workers,
           ConsumeEmpty(w) \/ ConsumeCompare(w) \/ ConsumeReport(w)
    PROVE  \A v \in Workers : worker'[v].node = worker[v].node
<1>1. CASE ConsumeEmpty(w)
  BY <1>1 DEF ConsumeEmpty, WorkerType
<1>2. CASE ConsumeCompare(w)
  <2>1. PICK o \in Outcomes : worker' = [worker EXCEPT ![w].ph = "report", ![w].out = o]
    BY <1>2 DEF ConsumeCompare
  <2> QED BY <2>1 DEF WorkerType
<1>3. CASE ConsumeReport(w)
  BY <1>3 DEF ConsumeReport, WorkerType
<1> QED BY <1>1, <1>2, <1>3

\* No channel or pair of workers comes to hold a chunk twice.
LEMMA OnceStep ==
    ASSUME TypeOK, StartInv, ShutdownInv, ProdInv, OnePlace, OnceInv, [Next]_vars
    PROVE  OnceInv'
<1>0. /\ prod \in [Tables -> ProducerType] /\ chunksCh \in Seq(Plan)
      /\ worker \in [Workers -> WorkerType] /\ sqlCh \in Seq(DMLType)
      /\ held \in ChunkOrNil /\ writer \in WriterType /\ Nil \notin Plan
  BY SyncDiffAssumption DEF TypeOK, MainType, IterType, PoolType, SqlType
<1>1. CASE \/ StartRun \/ Aside \/ BeginEqual \/ StartTable \/ AnalyzeFails \/ WriterInsert
           \/ \E t \in Tables : SplitFails(t) \/ IterFails(t) \/ IterEnds(t)
  <2>1. UNCHANGED <<chunksCh, worker, sqlCh>>
    BY <1>1 DEF StartRun, Aside, BeginEqual, StartTable, AnalyzeFails, WriterInsert,
         SplitFails, IterFails, IterEnds, iterVars, sqlVars
  <2> QED BY <2>1 DEF OnceInv
<1>2. CASE Dies
  <2>1. chunksCh' = <<>> /\ sqlCh' = <<>> /\ \A w \in Workers : worker'[w].node = Nil
    BY <1>2 DEF Dies, Volatile, IdleWorker
  <2> QED BY <2>1 DEF OnceInv
<1>3. CASE NextChunk
  <2>1. /\ chunksCh # <<>> /\ chunksCh' = Tail(chunksCh) /\ UNCHANGED <<worker, sqlCh>>
    BY <1>3 DEF NextChunk, sqlVars
  <2>2. /\ Len(Tail(chunksCh)) = Len(chunksCh) - 1 /\ Len(chunksCh) \in Nat
        /\ \A i \in 1 .. Len(Tail(chunksCh)) :
              Tail(chunksCh)[i] = chunksCh[i + 1] /\ i + 1 \in 1 .. Len(chunksCh)
    BY <1>0, <2>1
  <2>3. ASSUME NEW i \in 1 .. Len(chunksCh'), NEW j \in 1 .. Len(chunksCh'),
               chunksCh'[i] = chunksCh'[j]
        PROVE  i = j
    <3>1. i + 1 = j + 1
      BY <2>1, <2>2, <2>3 DEF OnceInv
    <3> QED BY <2>1, <2>2, <3>1
  <2> QED BY <2>1, <2>3 DEF OnceInv
<1>4. ASSUME NEW t \in Tables, SendChunk(t) PROVE OnceInv'
  <2>1. PICK s \in IF prod[t].cur = <<>> THEN prod[t].slices ELSE {prod[t].cur} :
          chunksCh' = Append(chunksCh, Head(s))
    BY <1>4 DEF SendChunk
  <2>2. UNCHANGED <<worker, sqlCh>>
    BY <1>4 DEF SendChunk, sqlVars
  <2>3. s \in Seq(Plan) /\ s # <<>> /\ IsSlice(t, s)
    BY <1>0, <2>1 DEF ProducerType, ProdInv, GoodProducer
  <2>4. Head(s) \in Plan /\ Head(s).table = t /\ InSlice(Head(s), s)
    <3>1. Head(s) \in Plan
      BY <2>3
    <3>2. Head(s).table = t
      BY <2>3, TailSlice
    <3>3. InSlice(Head(s), s)
      BY <2>3, InTail
    <3> QED BY <3>1, <3>2, <3>3
  <2>5. ~InQueue(Head(s))
    <3>1. At(Head(s), "split")
      BY <1>0, <2>1, <2>4 DEF At, InSplit, ProducerType
    <3>2. At(Head(s), "queue") => FALSE
      BY <2>4, <3>1 DEF OnePlace, Stages
    <3> QED BY <3>2 DEF At
  <2>6. /\ Len(chunksCh') = Len(chunksCh) + 1 /\ Len(chunksCh) \in Nat
        /\ chunksCh'[Len(chunksCh) + 1] = Head(s)
        /\ \A i \in 1 .. Len(chunksCh) : chunksCh'[i] = chunksCh[i]
    BY <1>0, <2>1, <2>4
  <2>7. ASSUME NEW i \in 1 .. Len(chunksCh'), NEW j \in 1 .. Len(chunksCh'),
               chunksCh'[i] = chunksCh'[j]
        PROVE  i = j
    <3>1. \A k \in 1 .. Len(chunksCh') : k \in 1 .. Len(chunksCh) \/ k = Len(chunksCh) + 1
      BY <2>6
    <3>2. \A k \in 1 .. Len(chunksCh) : chunksCh'[k] # Head(s)
      BY <2>5, <2>6 DEF InQueue
    <3>3. CASE i \in 1 .. Len(chunksCh) /\ j \in 1 .. Len(chunksCh)
      BY <2>6, <2>7, <3>3 DEF OnceInv
    <3> QED BY <2>6, <2>7, <3>1, <3>2, <3>3
  <2> QED BY <2>2, <2>7 DEF OnceInv
<1>5. ASSUME NEW w \in Workers, Apply(w) PROVE OnceInv'
  <2>1. /\ UNCHANGED <<chunksCh, sqlCh>> /\ worker'[w].node = held
        /\ \A v \in Workers : v # w => worker'[v] = worker[v]
    BY <1>0, <1>5 DEF Apply, IdleWorker, iterVars, sqlVars
  <2>2. held \in Plan
    BY <1>0, <1>5 DEF Apply, TypeOK, MainType, ChunkOrNil
  <2>3. \A v \in Workers : worker[v].node # held
    <3>1. At(held, "held") /\ ~At(held, "work")
      BY <2>2 DEF At, OnePlace, Stages
    <3> QED BY <3>1 DEF At, InWork
  <2> QED BY <2>1, <2>3 DEF OnceInv
<1>6. ASSUME NEW w \in Workers, ConsumeEmpty(w) \/ ConsumeCompare(w) \/ ConsumeReport(w)
      PROVE  OnceInv'
  <2>1. UNCHANGED <<chunksCh, sqlCh>>
    BY <1>6 DEF ConsumeEmpty, ConsumeCompare, ConsumeReport, iterVars, sqlVars
  <2>2. \A v \in Workers : worker'[v].node = worker[v].node
    BY <1>0, <1>6, ConsumeKeepsNode
  <2> QED BY <2>1, <2>2 DEF OnceInv
<1>7. ASSUME NEW w \in Workers, ConsumeSend(w) PROVE OnceInv'
  <2> DEFINE c == worker[w].node
             e == [node |-> c, out |-> worker[w].out]
  <2>1. /\ UNCHANGED chunksCh /\ sqlCh' = Append(sqlCh, e)
        /\ worker' = [worker EXCEPT ![w] = IdleWorker]
    BY <1>7 DEF ConsumeSend, iterVars
  <2>2. c \in Plan
    BY <1>0, <1>7 DEF ConsumeSend, TypeOK, PoolType, WorkerType, ChunkOrNil
  <2>3. e \in DMLType
    BY <1>0, <2>2 DEF DMLType, WorkerType
  <2>4. e.node = c
    OBVIOUS
  <2> HIDE DEF e
  <2>5. \A i \in 1 .. Len(sqlCh) : sqlCh[i].node # c
    <3>1. At(c, "work") /\ ~At(c, "sql")
      BY <2>2 DEF At, InWork, OnePlace, Stages
    <3> QED BY <3>1 DEF At, InSql
  <2>6. /\ Len(sqlCh') = Len(sqlCh) + 1 /\ Len(sqlCh) \in Nat
        /\ sqlCh'[Len(sqlCh) + 1] = e
        /\ \A i \in 1 .. Len(sqlCh) : sqlCh'[i] = sqlCh[i]
    BY <1>0, <2>1, <2>3
  <2>7. ASSUME NEW i \in 1 .. Len(sqlCh'), NEW j \in 1 .. Len(sqlCh'),
               sqlCh'[i].node = sqlCh'[j].node
        PROVE  i = j
    <3>1. \A k \in 1 .. Len(sqlCh') : k \in 1 .. Len(sqlCh) \/ k = Len(sqlCh) + 1
      BY <2>6
    <3>2. \A k \in 1 .. Len(sqlCh) : sqlCh'[k].node # c
      BY <2>5, <2>6
    <3>3. CASE i \in 1 .. Len(sqlCh) /\ j \in 1 .. Len(sqlCh)
      BY <2>6, <2>7, <3>3 DEF OnceInv
    <3> QED BY <2>4, <2>6, <2>7, <3>1, <3>2, <3>3
  <2>8. ASSUME NEW v \in Workers, NEW u \in Workers, worker'[v].node # Nil,
               worker'[v].node = worker'[u].node
        PROVE  v = u
    <3>1. \A x \in Workers : IF x = w THEN worker'[x].node = Nil ELSE worker'[x] = worker[x]
      BY <1>0, <2>1 DEF IdleWorker
    <3> QED BY <2>8, <3>1 DEF OnceInv
  <2> QED BY <2>1, <2>7, <2>8 DEF OnceInv
<1>8. CASE WriterTake
  <2>1. sqlCh # <<>> /\ sqlCh' = Tail(sqlCh) /\ UNCHANGED <<worker, chunksCh>>
    BY <1>8 DEF WriterTake, iterVars
  <2>2. /\ Len(Tail(sqlCh)) = Len(sqlCh) - 1 /\ Len(sqlCh) \in Nat
        /\ \A i \in 1 .. Len(Tail(sqlCh)) :
              Tail(sqlCh)[i] = sqlCh[i + 1] /\ i + 1 \in 1 .. Len(sqlCh)
    BY <1>0, <2>1
  <2>3. ASSUME NEW i \in 1 .. Len(sqlCh'), NEW j \in 1 .. Len(sqlCh'),
               sqlCh'[i].node = sqlCh'[j].node
        PROVE  i = j
    <3>1. i + 1 = j + 1
      BY <2>1, <2>2, <2>3 DEF OnceInv
    <3> QED BY <2>1, <2>2, <3>1
  <2> QED BY <2>1, <2>3 DEF OnceInv
<1> QED BY <1>1, <1>2, <1>3, <1>4, <1>5, <1>6, <1>7, <1>8, StepPlaces

-----------------------------------------------------------------------------
(* Every step keeps every chunk at one place.                              *)

\* A chunk goes from the table's slices to chunksCh.
LEMMA SendMoves ==
    ASSUME TypeOK, ProdInv, NEW t \in Tables, SendChunk(t)
    PROVE  \E c \in Plan : Moves({c}, "split", "queue")
<1>1. PICK s \in IF prod[t].cur = <<>> THEN prod[t].slices ELSE {prod[t].cur} :
          /\ chunksCh' = Append(chunksCh, Head(s))
          /\ prod' = [prod EXCEPT ![t].cur = Tail(s), ![t].slices = @ \ {s}]
  BY DEF SendChunk
<1>2. prod \in [Tables -> ProducerType] /\ chunksCh \in Seq(Plan)
  BY DEF TypeOK, IterType
<1>3. s \in Seq(Plan) /\ s # <<>> /\ IsSlice(t, s)
  BY <1>1, <1>2 DEF ProducerType, ProdInv, GoodProducer
<1> DEFINE c == Head(s)
<1>4. c \in Plan
  BY <1>3
<1>5. /\ c.table = t /\ c.left = s[1].left /\ ~InSlice(c, Tail(s))
  BY <1>3, TailSlice
<1>6. \A d : InSlice(d, s) <=> d = c \/ InSlice(d, Tail(s))
  BY <1>3, InTail
<1> HIDE DEF c
<1>7. \A r \in prod[t].slices \ {s} : ~InSlice(c, r)
  <2>1. \A r \in prod[t].slices \ {s} : IsSlice(t, r) /\ r[1].left # s[1].left
    BY <1>1 DEF ProdInv, GoodProducer
  <2> QED BY <1>5, <2>1, InSliceFields
<1>8. /\ prod'[t].cur = Tail(s) /\ prod'[t].slices = prod[t].slices \ {s}
      /\ \A u \in Tables : u # t => prod'[u] = prod[u]
  BY <1>1, <1>2 DEF ProducerType
<1>9. ASSUME NEW d \in Plan PROVE InSplit(d)' <=> InSplit(d) /\ d # c
  <2>1. d.table \in Tables
    BY PlanElim
  <2>2. CASE d.table # t
    BY <1>5, <1>8, <2>1, <2>2 DEF InSplit, InSlice
  <2>3. CASE d.table = t
    <3>1. InSplit(d) <=> InSlice(d, s) \/ \E r \in prod[t].slices \ {s} : InSlice(d, r)
      <4>1. CASE prod[t].cur = <<>>
        <5>1. ~InSlice(d, <<>>)
          BY DEF InSlice
        <5> QED BY <1>1, <2>3, <4>1, <5>1 DEF InSplit
      <4>2. CASE prod[t].cur # <<>>
        <5>1. s = prod[t].cur
          BY <1>1, <4>2
        <5>2. s \notin prod[t].slices
          BY <4>2, <5>1 DEF ProdInv, GoodProducer
        <5> QED BY <2>3, <5>1, <5>2 DEF InSplit
      <4> QED BY <4>1, <4>2
    <3>2. InSplit(d)' <=> \/ InSlice(d, Tail(s))
                          \/ \E r \in prod[t].slices \ {s} : InSlice(d, r)
      BY <1>8, <2>3 DEF InSplit, InSlice
    <3> QED BY <1>5, <1>6, <1>7, <3>1, <3>2
  <2> QED BY <2>2, <2>3
<1>10. ASSUME NEW d \in Plan PROVE InQueue(d)' <=> InQueue(d) \/ d = c
  <2>1. chunksCh' = Append(chunksCh, c)
    BY <1>1 DEF c
  <2>2. InSlice(d, Append(chunksCh, c)) <=> InSlice(d, chunksCh) \/ d = c
    BY <1>2, <1>4, InAppend
  <2> QED BY <2>1, <2>2 DEF InQueue, InSlice
<1>11. InSplit(c)
  <2>1. InSlice(c, s)
    BY <1>6
  <2> QED BY <1>1, <1>5, <2>1 DEF InSplit
<1>12. /\ UNCHANGED <<start, nextTable, held, worker, sqlCh, verdict, pc>>
       /\ writer'.node = writer.node
  BY DEF SendChunk, mainVars, sqlVars
<1>13. Moves({c}, "split", "queue")
  <2>1. At(c, "split")
    BY <1>11 DEF At
  <2>2. ASSUME NEW d \in Plan
        PROVE  /\ At(d, "split")' <=> At(d, "split") /\ d # c
               /\ At(d, "queue")' <=> At(d, "queue") \/ d = c
    BY <1>9, <1>10 DEF At
  <2> QED BY <1>12, <2>1, <2>2, StageFrame DEF Moves, Stages
<1> QED BY <1>4, <1>13

\* A chunk goes from chunksCh to Equal.
LEMMA NextMoves ==
    ASSUME TypeOK, OnceInv, NextChunk
    PROVE  \E c \in Plan : Moves({c}, "queue", "held")
<1>1. /\ chunksCh \in Seq(Plan) /\ chunksCh # <<>>
      /\ held = Nil /\ held' = Head(chunksCh) /\ chunksCh' = Tail(chunksCh)
  BY DEF TypeOK, MainType, IterType, NextChunk
<1> DEFINE c == Head(chunksCh)
<1>2. c \in Plan /\ c # Nil
  BY <1>1, SyncDiffAssumption
<1>3. \A d : InSlice(d, chunksCh) <=> d = c \/ InSlice(d, Tail(chunksCh))
  BY <1>1, InTail
<1>4. ~InSlice(c, Tail(chunksCh))
  <2>1. /\ Len(Tail(chunksCh)) = Len(chunksCh) - 1 /\ Len(chunksCh) \in Nat \ {0}
        /\ \A i \in 1 .. Len(Tail(chunksCh)) :
              Tail(chunksCh)[i] = chunksCh[i + 1] /\ i + 1 \in 1 .. Len(chunksCh)
        /\ c = chunksCh[1] /\ 1 \in 1 .. Len(chunksCh)
    BY <1>1
  <2>2. SUFFICES ASSUME NEW i \in 1 .. Len(Tail(chunksCh)), Tail(chunksCh)[i] = c
                 PROVE  FALSE
    BY DEF InSlice
  <2>3. i + 1 = 1
    BY <2>1, <2>2 DEF OnceInv
  <2> QED BY <2>1, <2>3
<1> HIDE DEF c
<1>5. \A d \in Plan : InQueue(d)' <=> InQueue(d) /\ d # c
  BY <1>1, <1>3, <1>4 DEF InQueue, InSlice
<1>6. InQueue(c)
  BY <1>3 DEF InQueue, InSlice
<1>7. held' = c
  BY <1>1 DEF c
<1>8. /\ UNCHANGED <<start, nextTable, prod, worker, sqlCh, verdict>>
      /\ writer'.node = writer.node /\ (pc' = "down" <=> pc = "down")
  BY DEF NextChunk, sqlVars
<1>9. At(c, "queue")
  BY <1>6 DEF At
<1>10. ASSUME NEW d \in Plan
       PROVE  /\ At(d, "queue")' <=> At(d, "queue") /\ d # c
              /\ At(d, "held")' <=> At(d, "held") \/ d = c
  BY <1>1, <1>5, <1>7, SyncDiffAssumption DEF At
<1>11. Moves({c}, "queue", "held")
  BY <1>8, <1>9, <1>10, StageFrame DEF Moves, Stages
<1> QED BY <1>2, <1>11

\* A chunk goes from Equal to a worker.
LEMMA ApplyMoves ==
    ASSUME TypeOK, ShutdownInv, NEW w \in Workers, Apply(w)
    PROVE  \E c \in Plan : Moves({c}, "held", "work")
<1>1. /\ worker \in [Workers -> WorkerType] /\ held \in Plan
      /\ worker[w].node = Nil /\ held' = Nil /\ Nil \notin Plan
  BY SyncDiffAssumption
  DEF TypeOK, MainType, PoolType, ChunkOrNil, Apply, ShutdownInv
<1>2. /\ worker'[w].node = held
      /\ \A v \in Workers : v # w => worker'[v] = worker[v]
  BY <1>1 DEF Apply, IdleWorker
<1>3. \A d \in Plan : InWork(d)' <=> InWork(d) \/ d = held
  BY <1>1, <1>2 DEF InWork
<1>4. /\ UNCHANGED <<start, nextTable, prod, chunksCh, sqlCh, verdict>>
      /\ writer'.node = writer.node /\ (pc' = "down" <=> pc = "down")
  BY DEF Apply, iterVars, sqlVars
<1>5. At(held, "held")
  BY DEF At
<1>6. ASSUME NEW d \in Plan
      PROVE  /\ At(d, "held")' <=> At(d, "held") /\ d # held
             /\ At(d, "work")' <=> At(d, "work") \/ d = held
  BY <1>1, <1>3 DEF At
<1>7. Moves({held}, "held", "work")
  BY <1>4, <1>5, <1>6, StageFrame DEF Moves, Stages
<1> QED BY <1>1, <1>7

\* A chunk goes from its worker to sqlCh.
LEMMA ResultMoves ==
    ASSUME TypeOK, OnceInv, NEW w \in Workers, ConsumeSend(w)
    PROVE  \E c \in Plan : Moves({c}, "work", "sql")
<1> DEFINE c == worker[w].node
           e == [node |-> c, out |-> worker[w].out]
<1>1. /\ worker \in [Workers -> WorkerType] /\ sqlCh \in Seq(DMLType)
      /\ c \in Plan /\ c # Nil
  BY SyncDiffAssumption
  DEF TypeOK, PoolType, SqlType, ConsumeSend, WorkerType, ChunkOrNil
<1>2. /\ sqlCh' = Append(sqlCh, e) /\ worker' = [worker EXCEPT ![w] = IdleWorker]
  BY DEF ConsumeSend
<1>3. e \in DMLType /\ e.node = c
  BY <1>1 DEF DMLType, WorkerType
<1> HIDE DEF e
<1>4. \A v \in Workers : IF v = w THEN worker'[v].node = Nil ELSE worker'[v] = worker[v]
  BY <1>1, <1>2 DEF IdleWorker
<1>5. \A d \in Plan : InWork(d)' <=> InWork(d) /\ d # c
  <2>1. \A v \in Workers : worker[v].node = c => v = w
    BY <1>1 DEF OnceInv
  <2> QED BY <1>4, <2>1, SyncDiffAssumption DEF InWork
<1>6. /\ Len(sqlCh') = Len(sqlCh) + 1 /\ Len(sqlCh) \in Nat
      /\ sqlCh'[Len(sqlCh) + 1] = e
      /\ \A i \in 1 .. Len(sqlCh) : sqlCh'[i] = sqlCh[i]
  BY <1>1, <1>2, <1>3
<1>7. ASSUME NEW d \in Plan PROVE InSql(d)' <=> InSql(d) \/ d = c
  <2>1. \A i : i \in 1 .. Len(sqlCh') <=> i \in 1 .. Len(sqlCh) \/ i = Len(sqlCh) + 1
    BY <1>6
  <2> QED BY <1>3, <1>6, <2>1 DEF InSql
<1>8. /\ UNCHANGED <<start, nextTable, prod, chunksCh, held, verdict, pc>>
      /\ writer'.node = writer.node
  BY DEF ConsumeSend, mainVars, iterVars
<1>9. At(c, "work")
  BY DEF At, InWork
<1>10. ASSUME NEW d \in Plan
       PROVE  /\ At(d, "work")' <=> At(d, "work") /\ d # c
              /\ At(d, "sql")' <=> At(d, "sql") \/ d = c
  BY <1>5, <1>7 DEF At
<1> HIDE DEF c
<1>11. Moves({c}, "work", "sql")
  BY <1>8, <1>9, <1>10, StageFrame DEF Moves, Stages
<1> QED BY <1>1, <1>11

\* A chunk goes from sqlCh to writeSQLs.
LEMMA TakeMoves ==
    ASSUME TypeOK, ShutdownInv, OnceInv, WriterTake
    PROVE  \E c \in Plan : Moves({c}, "sql", "write")
<1> DEFINE c == Head(sqlCh).node
<1>1. sqlCh \in Seq(DMLType) /\ sqlCh # <<>> /\ sqlCh' = Tail(sqlCh)
  BY DEF TypeOK, SqlType, WriterTake
<1>2. Head(sqlCh) \in DMLType
  BY <1>1
<1>3. c \in Plan /\ c # Nil
  BY <1>2, SyncDiffAssumption DEF DMLType
<1>4. writer.node = Nil /\ writer'.node = c
  BY DEF WriterTake, ShutdownInv
<1>5. /\ Len(Tail(sqlCh)) = Len(sqlCh) - 1 /\ Len(sqlCh) \in Nat \ {0}
      /\ \A i \in 1 .. Len(Tail(sqlCh)) :
            Tail(sqlCh)[i] = sqlCh[i + 1] /\ i + 1 \in 1 .. Len(sqlCh)
      /\ c = sqlCh[1].node /\ 1 \in 1 .. Len(sqlCh)
  BY <1>1
<1> HIDE DEF c
<1>6. ASSUME NEW d \in Plan PROVE InSql(d)' <=> InSql(d) /\ d # c
  <2>1. ASSUME InSql(d)' PROVE InSql(d) /\ d # c
    <3>1. PICK i \in 1 .. Len(Tail(sqlCh)) : Tail(sqlCh)[i].node = d
      BY <1>1, <2>1 DEF InSql
    <3>2. i + 1 \in 1 .. Len(sqlCh) /\ sqlCh[i + 1].node = d
      BY <1>5, <3>1
    <3>3. d = c => i + 1 = 1
      BY <1>5, <3>2 DEF OnceInv
    <3> QED BY <1>5, <3>1, <3>2, <3>3 DEF InSql
  <2>2. ASSUME InSql(d), d # c PROVE InSql(d)'
    <3>1. PICK i \in 1 .. Len(sqlCh) : sqlCh[i].node = d
      BY <2>2 DEF InSql
    <3>2. i - 1 \in 1 .. Len(Tail(sqlCh)) /\ (i - 1) + 1 = i
      BY <1>5, <2>2, <3>1
    <3>3. Tail(sqlCh)[i - 1].node = d
      BY <1>5, <3>1, <3>2
    <3> QED BY <1>1, <3>2, <3>3 DEF InSql
  <2> QED BY <2>1, <2>2
<1>7. /\ UNCHANGED <<start, nextTable, prod, chunksCh, held, worker, verdict, pc>>
  BY DEF WriterTake, mainVars, iterVars
<1>8. At(c, "sql")
  BY <1>5 DEF At, InSql
<1>9. ASSUME NEW d \in Plan
      PROVE  /\ At(d, "sql")' <=> At(d, "sql") /\ d # c
             /\ At(d, "write")' <=> At(d, "write") \/ d = c
  BY <1>4, <1>6, SyncDiffAssumption DEF At
<1>10. Moves({c}, "sql", "write")
  BY <1>7, <1>8, <1>9, StageFrame DEF Moves, Stages
<1> QED BY <1>3, <1>10

\* A chunk gets its verdict.
LEMMA InsertMoves ==
    ASSUME TypeOK, WriterInsert
    PROVE  writer.node \in Plan /\ Moves({writer.node}, "write", "done")
<1> DEFINE c == writer.node
<1>1. /\ c \in Plan /\ writer.out \in OutcomeType /\ writer.out # Nil /\ Nil \notin Plan
      /\ verdict \in [Plan -> OutcomeType \cup {Nil}]
  BY SyncDiffAssumption
  DEF TypeOK, SqlType, DiskType, WriterInsert, WriterType, ChunkOrNil
<1>2. \A d \in Plan : Checked(d)' <=> Checked(d) \/ d = c
  BY <1>1 DEF WriterInsert, Checked
<1>3. writer'.node = Nil
  BY DEF WriterInsert, IdleWriter
<1>4. UNCHANGED <<start, nextTable, prod, chunksCh, held, worker, sqlCh, pc>>
  BY DEF WriterInsert, mainVars, iterVars
<1>5. At(c, "write")
  BY DEF At
<1>6. ASSUME NEW d \in Plan
      PROVE  /\ At(d, "write")' <=> At(d, "write") /\ d # c
             /\ At(d, "done")' <=> At(d, "done") \/ d = c
  BY <1>1, <1>2, <1>3 DEF At
<1> HIDE DEF c
<1>7. Moves({c}, "write", "done")
  BY <1>4, <1>5, <1>6, StageFrame DEF Moves, Stages
<1> QED BY <1>1, <1>7 DEF c

\* A table's chunks after the checkpoint become its producer's slices.
LEMMA StartTableMoves ==
    ASSUME TypeOK, ProdInv, StartInv, StartTable
    PROVE  Moves({c \in Plan : c.table = nextTable /\ ~Behind(c)}, "todo", "split")
<1> DEFINE C == {c \in Plan : c.table = nextTable /\ ~Behind(c)}
           sl == IF start # Nil /\ nextTable = start.table
                 THEN RestSlices(start) ELSE AllSlices(nextTable)
<1>1. /\ prod \in [Tables -> ProducerType] /\ nextTable \in Tables
      /\ start \in Plan \cup {Nil} /\ pc # "down"
  BY PlanAssumption
  DEF TypeOK, MainType, IterType, ChunkOrNil, StartTable, Tables, Equalling
<1>2. nextTable \in Int /\ \A d \in Plan : d.table \in Int /\ d.table \in Tables
  BY <1>1, PlanFields, PlanElim DEF Tables
<1>3. /\ prod[nextTable].cur = <<>> /\ prod[nextTable].slices = {}
  BY <1>1, <1>2 DEF ProdInv, GoodProducer
<1>4. /\ prod'[nextTable].cur = <<>> /\ prod'[nextTable].slices = sl
      /\ \A u \in Tables : u # nextTable => prod'[u] = prod[u]
      /\ nextTable' = nextTable + 1
  BY <1>1 DEF StartTable, NoProducer
<1>5. \A d : ~InSlice(d, <<>>)
  BY DEF InSlice
<1>6. ASSUME NEW d \in Plan, d.table = nextTable
      PROVE  (\E s \in sl : InSlice(d, s)) <=> ~Behind(d)
  <2>1. CASE start # Nil /\ nextTable = start.table
    <3>1. start \in Nodes /\ start \in Plan /\ d \in Nodes
      BY <1>1, <2>1 DEF Nodes
    <3>2. Behind(d) <=> ~ComparesLess(start, d)
      BY <2>1, <3>1, CompareTotal DEF Behind
    <3>3. (\E s \in RestSlices(start) : InSlice(d, s)) => ComparesLess(start, d)
      BY <3>1, RestSlicesAfter
    <3>4. ComparesLess(start, d) => \E s \in RestSlices(start) : InSlice(d, s)
      BY <1>6, <2>1, <3>1, RestSlicesCover
    <3> QED BY <2>1, <3>2, <3>3, <3>4
  <2>2. CASE start = Nil
    BY <1>6, <2>2, AllSlicesCover DEF Behind
  <2>3. CASE start # Nil /\ nextTable # start.table
    <3>1. start.table \in Int /\ nextTable >= start.table
      BY <1>1, <2>3, PlanFields DEF StartInv, StartTable
    <3>2. ~Behind(d)
      BY <1>2, <1>6, <2>3, <3>1 DEF Behind, ComparesLeq, ComparesLess
    <3> QED BY <1>6, <2>3, <3>2, AllSlicesCover
  <2> QED BY <2>1, <2>2, <2>3
<1> HIDE DEF sl
<1>7. ASSUME NEW d \in Plan PROVE InSplit(d)' <=> InSplit(d) \/ d \in C
  <2>1. CASE d.table = nextTable
    <3>1. ~InSplit(d)
      BY <1>3, <1>5, <2>1 DEF InSplit
    <3>2. InSplit(d)' <=> \E s \in sl : InSlice(d, s)
      BY <1>4, <1>5, <2>1 DEF InSplit, InSlice
    <3> QED BY <1>6, <2>1, <3>1, <3>2
  <2>2. CASE d.table # nextTable
    <3>1. InSplit(d)' <=> InSplit(d)
      BY <1>2, <1>4, <2>2 DEF InSplit, InSlice
    <3> QED BY <2>2, <3>1
  <2> QED BY <2>1, <2>2
<1>8. UNCHANGED <<start, pc, held, chunksCh, worker, sqlCh, writer, verdict>>
  BY DEF StartTable, mainVars, sqlVars
<1>9. ASSUME NEW d \in Plan PROVE Todo(d)' <=> Todo(d) /\ d \notin C
  BY <1>1, <1>2, <1>4, <1>8 DEF Todo, Behind
<1>10. ASSUME NEW c \in C PROVE At(c, "todo")
  BY <1>1, <1>2 DEF At, Todo
<1>11. ASSUME NEW d \in Plan
       PROVE  /\ At(d, "todo")' <=> At(d, "todo") /\ d \notin C
              /\ At(d, "split")' <=> At(d, "split") \/ d \in C
  BY <1>7, <1>9 DEF At
<1> HIDE DEF C
<1>12. Moves(C, "todo", "split")
  BY <1>8, <1>10, <1>11, StageFrame DEF Moves, Stages
<1> QED BY <1>12 DEF C

\* Nothing is on its way where a step leaves Equal's goroutines not running.
LEMMA QuietPlaces ==
    ASSUME Quiet', held' = Nil
    PROVE  \A d \in Plan : \A s \in Stages \ {"todo", "done"} : ~At(d, s)'
<1>1. /\ \A t \in Tables : prod'[t].cur = <<>> /\ prod'[t].slices = {}
      /\ \A w \in Workers : worker'[w].node = Nil
      /\ writer'.node = Nil /\ chunksCh' = <<>> /\ sqlCh' = <<>> /\ Nil \notin Plan
  BY SyncDiffAssumption DEF Quiet, NoProducer, IdleWorker, IdleWriter
<1> SUFFICES ASSUME NEW d \in Plan, NEW s \in Stages \ {"todo", "done"} PROVE ~At(d, s)'
  OBVIOUS
<1>2. d.table \in Tables
  BY PlanElim
<1>3. ~InSplit(d)'
  BY <1>1, <1>2 DEF InSplit, InSlice
<1>4. ~InQueue(d)' /\ ~InSql(d)'
  BY <1>1 DEF InQueue, InSql
<1>5. ~InWork(d)'
  BY <1>1 DEF InWork
<1> QED BY <1>1, <1>3, <1>4, <1>5 DEF At, Stages

\* A run that begins has what the checkpoint covers behind it and the rest
\* before it.
LEMMA StartRunPlaces ==
    ASSUME TypeOK, StartInv, CheckpointInv, StartRun
    PROVE  OnePlace' /\ NoneLost'
<1>1. /\ verdict \in [Plan -> OutcomeType \cup {Nil}]
      /\ ckpt \in [node : Plan, rep : ReportType] \cup {Nil}
  BY DEF TypeOK, DiskType
<1>2. /\ pc' = "struct" /\ start' = (IF ckpt = Nil THEN Nil ELSE ckpt.node)
      /\ saved' = (IF ckpt = Nil THEN InitNode ELSE ckpt.node)
      /\ verdict' = [c \in Plan |-> IF ComparesLess(saved', c) THEN Nil ELSE verdict[c]]
  BY DEF StartRun
<1>3. Quiet' /\ held' = Nil /\ nextTable' = 0
  BY DEF StartRun, StartInv, Quiet, iterVars, sqlVars, TypeOK, MainType
<1>4. ASSUME NEW d \in Plan PROVE Checked(d)' <=> Behind(d)'
  <2>1. CASE ckpt = Nil
    BY <1>2, <2>1, InitNodeIsBefore DEF Checked, Behind
  <2>2. CASE ckpt # Nil
    <3>1. ckpt.node \in Plan /\ ckpt.node # Nil
      BY <1>1, <2>2, SyncDiffAssumption
    <3>2. ComparesLess(ckpt.node, d) <=> ~ComparesLeq(d, ckpt.node)
      BY <3>1, CompareTotal DEF Nodes
    <3>3. ComparesLeq(d, ckpt.node) => verdict[d] # Nil
      BY <2>2 DEF CheckpointInv, CheckpointCovers, UpTo, Checked
    <3> QED BY <1>2, <2>2, <3>1, <3>2, <3>3 DEF Checked, Behind
  <2> QED BY <2>1, <2>2
<1>5. ASSUME NEW d \in Plan PROVE Todo(d)' <=> ~Behind(d)'
  BY <1>2, <1>3, PlanFields DEF Todo, Behind
<1>6. \A d \in Plan : \A s \in Stages \ {"todo", "done"} : ~At(d, s)'
  BY <1>3, QuietPlaces
<1>7. \A d \in Plan : /\ At(d, "todo")' <=> ~Behind(d)'
                      /\ At(d, "done")' <=> Behind(d)'
  BY <1>4, <1>5 DEF At
<1>8. \A d \in Plan : \A s \in Stages :
        At(d, s)' <=> s = (IF Behind(d)' THEN "done" ELSE "todo")
  BY <1>6, <1>7 DEF Stages
<1>9. OnePlace'
  BY <1>8 DEF OnePlace
<1>10. NoneLost'
  BY <1>8 DEF NoneLost, Stages
<1> QED BY <1>9, <1>10

\* The process ends: verdicts are all there is.
LEMMA DiesPlaces ==
    ASSUME TypeOK, Dies
    PROVE  OnePlace' /\ NoneLost'
<1>1. Quiet' /\ held' = Nil /\ pc' = "down"
  BY DEF Dies, Volatile, Quiet
<1>2. \A d \in Plan : \A s \in Stages \ {"todo", "done"} : ~At(d, s)'
  BY <1>1, QuietPlaces
<1>3. \A d \in Plan : ~At(d, "todo")'
  BY <1>1 DEF At, Todo
<1>4. OnePlace'
  BY <1>2, <1>3 DEF OnePlace
<1> QED BY <1>1, <1>4 DEF NoneLost

\* Equal begins: the tables before the one it begins with are behind.
LEMMA BeginPlaces ==
    ASSUME TypeOK, StartInv, BeginEqual
    PROVE  \A d \in Plan : \A s \in Stages : At(d, s)' <=> At(d, s)
<1>1. /\ nextTable = 0 /\ pc = "equal" /\ pc' = "next"
      /\ start \in Plan \cup {Nil} /\ UNCHANGED start
  BY DEF StartInv, Quiet, BeginEqual, TypeOK, MainType, ChunkOrNil
<1>2. ASSUME NEW d \in Plan PROVE Todo(d)' <=> Todo(d)
  <2>1. d.table \in Nat
    BY PlanFields
  <2>2. ~Behind(d) => d.table >= nextTable'
    <3>1. CASE start = Nil
      BY <2>1, <3>1 DEF BeginEqual, StartIndex
    <3>2. CASE start # Nil
      <4>1. /\ start \in Plan /\ start.table \in Nat
        BY <1>1, <3>2, PlanFields
      <4>2. start \in Nodes /\ d \in Nodes
        BY <4>1 DEF Nodes
      <4>3. ~Behind(d) => ComparesLess(start, d)
        BY <3>2, <4>2, CompareTotal DEF Behind
      <4>4. ~Behind(d) => d.table >= start.table
        BY <2>1, <4>1, <4>3 DEF ComparesLess
      <4>5. start.type = "empty" /\ d.table = start.table => d = start
        <5>1. start.type = Split[start.table]
          BY <4>1, PlanElim DEF EmptyChunk, ChunkOf
        <5>2. Split[d.table] = "empty" => d = EmptyChunk(d.table)
          BY PlanElim
        <5>3. Split[start.table] = "empty" => start = EmptyChunk(start.table)
          BY <4>1, PlanElim
        <5> QED BY <5>1, <5>2, <5>3
      <4>6. start.type = "empty" /\ d.table = start.table => Behind(d)
        BY <3>2, <4>2, <4>5, CompareTotal DEF Behind
      <4> QED BY <2>1, <3>2, <4>1, <4>4, <4>6 DEF BeginEqual, StartIndex
    <3> QED BY <3>1, <3>2
  <2> QED BY <1>1, <2>1, <2>2 DEF Todo, Behind
<1>3. UNCHANGED <<prod, chunksCh, held, worker, sqlCh, writer, verdict>>
  BY DEF BeginEqual, sqlVars
<1>4. \A d \in Plan : At(d, "todo")' <=> At(d, "todo")
  BY <1>2 DEF At
<1> QED BY <1>3, <1>4, StageFrame DEF Stages

\* A table is given up before its chunks are known.
LEMMA AnalyzeFailsPlaces ==
    ASSUME TypeOK, ProdInv, AnalyzeFails
    PROVE  \A d \in Plan : \A s \in Stages : At(d, s)' => At(d, s)
<1>1. /\ prod \in [Tables -> ProducerType] /\ nextTable \in Int /\ nextTable \in Tables
  BY PlanAssumption DEF TypeOK, IterType, AnalyzeFails, Tables
<1>2. \A t \in Tables :
        prod'[t].cur = prod[t].cur /\ prod'[t].slices = prod[t].slices
  BY <1>1 DEF AnalyzeFails, ProducerType
<1>3. UNCHANGED <<pc, start, held, chunksCh, worker, sqlCh, writer, verdict>>
  BY DEF AnalyzeFails, mainVars, sqlVars
<1>4. ASSUME NEW d \in Plan
      PROVE  /\ At(d, "split")' => At(d, "split")
             /\ At(d, "todo")' => At(d, "todo")
  <2>1. d.table \in Tables /\ d.table \in Int
    BY PlanElim, PlanFields
  <2>2. InSplit(d)' => InSplit(d)
    BY <1>2, <2>1 DEF InSplit, InSlice
  <2>3. Todo(d)' => Todo(d)
    BY <1>1, <1>3, <2>1 DEF AnalyzeFails, Todo, Behind
  <2> QED BY <2>2, <2>3 DEF At
<1> QED BY <1>3, <1>4, StageFrame DEF Stages

\* The iterator drops slices it cannot split.
LEMMA DropsSlices ==
    ASSUME TypeOK, NEW t \in Tables, SplitFails(t) \/ IterFails(t) \/ IterEnds(t)
    PROVE  \A d \in Plan : \A s \in Stages : At(d, s)' => At(d, s)
<1>1. prod \in [Tables -> ProducerType]
  BY DEF TypeOK, IterType
<1>2. \A u \in Tables :
        prod'[u].cur = prod[u].cur /\ prod'[u].slices \subseteq prod[u].slices
  <2>1. CASE SplitFails(t)
    <3>1. PICK drop : prod' = [prod EXCEPT ![t].slices = @ \ drop, ![t].errs = @ + 1]
      BY <2>1 DEF SplitFails
    <3> QED BY <1>1, <3>1 DEF ProducerType
  <2>2. CASE IterFails(t)
    BY <1>1, <2>2 DEF IterFails, ProducerType
  <2>3. CASE IterEnds(t)
    BY <1>1, <2>3 DEF IterEnds, ProducerType
  <2> QED BY <2>1, <2>2, <2>3
<1>3. UNCHANGED <<pc, start, nextTable, held, chunksCh, worker, sqlCh, writer, verdict>>
  BY DEF SplitFails, IterFails, IterEnds, mainVars, sqlVars
<1>4. ASSUME NEW d \in Plan, At(d, "split")' PROVE At(d, "split")
  <2>1. d.table \in Tables
    BY PlanElim
  <2>2. InSplit(d)' => InSplit(d)
    BY <1>2, <2>1 DEF InSplit, InSlice
  <2> QED BY <1>4, <2>2 DEF At
<1> QED BY <1>3, <1>4, StageFrame DEF Stages

\* iterator.Next finding the channel closed loses nothing.
LEMMA EndsPlaces ==
    ASSUME TypeOK, NEW t \in Tables, IterEnds(t)
    PROVE  \A d \in Plan : \A s \in Stages : At(d, s)' <=> At(d, s)
<1>1. prod \in [Tables -> ProducerType]
  BY DEF TypeOK, IterType
<1>2. \A u \in Tables : prod'[u].cur = prod[u].cur /\ prod'[u].slices = prod[u].slices
  BY <1>1 DEF IterEnds, ProducerType
<1>3. UNCHANGED <<pc, start, nextTable, held, chunksCh, worker, sqlCh, writer, verdict>>
  BY DEF IterEnds, mainVars, sqlVars
<1>4. ASSUME NEW d \in Plan PROVE At(d, "split")' <=> At(d, "split")
  <2>1. d.table \in Tables
    BY PlanElim
  <2>2. InSplit(d)' <=> InSplit(d)
    BY <1>2, <2>1 DEF InSplit, InSlice
  <2> QED BY <2>2 DEF At
<1> QED BY <1>3, <1>4, StageFrame DEF Stages

\* Every step keeps every chunk at one stage: the cases are the moves above,
\* the failures that drop chunks, and the start and end of a run.
LEMMA PlaceStep ==
    ASSUME TypeOK, CheckpointInv, StartInv, LoopInv, ShutdownInv, ProdInv, OnceInv,
           OnePlace, NoneLost, [Next]_vars
    PROVE  OnePlace' /\ NoneLost'
<1>0. \A c \in Plan : {c} \in SUBSET Plan
  OBVIOUS
<1>1. CASE StartRun
  BY <1>1, StartRunPlaces
<1>2. CASE Dies
  BY <1>2, DiesPlaces
<1>3. CASE Aside
  <2>1. \A d \in Plan : \A s \in Stages : At(d, s)' <=> At(d, s)
    BY <1>3, StageFrame DEF Aside, Stages
  <2>2. OnePlace'
    BY <2>1 DEF OnePlace
  <2>3. NoneLost'
    BY <1>3, <2>1 DEF Aside, NoneLost
  <2> QED BY <2>2, <2>3
<1>4. CASE BeginEqual
  <2>1. pc # "down" /\ prodFailed' = prodFailed
    BY <1>4 DEF BeginEqual
  <2> QED BY <1>4, <2>1, BeginPlaces, SamePlaces
<1>5. CASE StartTable
  <2>1. {c \in Plan : c.table = nextTable /\ ~Behind(c)} \in SUBSET Plan
    OBVIOUS
  <2>2. pc' = pc /\ prodFailed' = prodFailed
    BY <1>5 DEF StartTable, mainVars
  <2>3. Moves({c \in Plan : c.table = nextTable /\ ~Behind(c)}, "todo", "split")
    BY <1>5, StartTableMoves
  <2> QED BY <2>1, <2>2, <2>3, MovedPlaces DEF Stages
<1>6. CASE AnalyzeFails
  <2>1. prodFailed'
    BY <1>6 DEF AnalyzeFails
  <2> QED BY <1>6, <2>1, AnalyzeFailsPlaces, FewerPlaces
<1>7. CASE NextChunk
  <2>1. (pc' = "down" <=> pc = "down") /\ prodFailed' = prodFailed
    BY <1>7 DEF NextChunk
  <2>2. PICK c \in Plan : Moves({c}, "queue", "held")
    BY <1>7, NextMoves
  <2> QED BY <1>0, <2>1, <2>2, MovedPlaces DEF Stages
<1>8. ASSUME NEW t \in Tables, SendChunk(t) PROVE OnePlace' /\ NoneLost'
  <2>1. pc' = pc /\ prodFailed' = prodFailed
    BY <1>8 DEF SendChunk, mainVars
  <2>2. PICK c \in Plan : Moves({c}, "split", "queue")
    BY <1>8, SendMoves
  <2> QED BY <1>0, <2>1, <2>2, MovedPlaces DEF Stages
<1>9. ASSUME NEW t \in Tables, SplitFails(t) \/ IterFails(t) PROVE OnePlace' /\ NoneLost'
  <2>1. prodFailed'
    BY <1>9 DEF SplitFails, IterFails, LoopInv
  <2> QED BY <1>9, <2>1, DropsSlices, FewerPlaces
<1>10. ASSUME NEW t \in Tables, IterEnds(t) PROVE OnePlace' /\ NoneLost'
  <2>1. prod[t].st = "run" /\ prodFailed' = prodFailed
    BY <1>10 DEF IterEnds
  <2>2. pc # "down"
    BY <2>1, Active DEF Equalling
  <2> QED BY <1>10, <2>1, <2>2, EndsPlaces, SamePlaces
<1>11. ASSUME NEW w \in Workers, Apply(w) PROVE OnePlace' /\ NoneLost'
  <2>1. (pc' = "down" <=> pc = "down") /\ prodFailed' = prodFailed
    BY <1>11 DEF Apply, iterVars
  <2>2. PICK c \in Plan : Moves({c}, "held", "work")
    BY <1>11, ApplyMoves
  <2> QED BY <1>0, <2>1, <2>2, MovedPlaces DEF Stages
<1>12. ASSUME NEW w \in Workers, ConsumeEmpty(w) \/ ConsumeCompare(w) \/ ConsumeReport(w)
       PROVE  OnePlace' /\ NoneLost'
  <2>1. worker \in [Workers -> WorkerType]
    BY DEF TypeOK, PoolType
  <2>2. \A v \in Workers : worker'[v].node = worker[v].node
    BY <1>12, <2>1, ConsumeKeepsNode
  <2>3. /\ UNCHANGED <<pc, start, nextTable, prod, chunksCh, held, sqlCh, writer, verdict>>
        /\ prodFailed' = prodFailed /\ worker[w].ph # "idle"
    BY <1>12 DEF ConsumeEmpty, ConsumeCompare, ConsumeReport, mainVars, iterVars, sqlVars
  <2>4. pc # "down"
    BY <2>3, Active DEF Equalling
  <2>5. \A d \in Plan : At(d, "work")' <=> At(d, "work")
    BY <2>2 DEF At, InWork
  <2>6. \A d \in Plan : \A s \in Stages : At(d, s)' <=> At(d, s)
    BY <2>3, <2>5, StageFrame DEF Stages
  <2> QED BY <2>3, <2>4, <2>6, SamePlaces
<1>13. ASSUME NEW w \in Workers, ConsumeSend(w) PROVE OnePlace' /\ NoneLost'
  <2>1. pc' = pc /\ prodFailed' = prodFailed
    BY <1>13 DEF ConsumeSend, mainVars, iterVars
  <2>2. PICK c \in Plan : Moves({c}, "work", "sql")
    BY <1>13, ResultMoves
  <2> QED BY <1>0, <2>1, <2>2, MovedPlaces DEF Stages
<1>14. CASE WriterTake
  <2>1. pc' = pc /\ prodFailed' = prodFailed
    BY <1>14 DEF WriterTake, mainVars, iterVars
  <2>2. PICK c \in Plan : Moves({c}, "sql", "write")
    BY <1>14, TakeMoves
  <2> QED BY <1>0, <2>1, <2>2, MovedPlaces DEF Stages
<1>15. CASE WriterInsert
  <2>1. pc' = pc /\ prodFailed' = prodFailed
    BY <1>15 DEF WriterInsert, mainVars, iterVars
  <2>2. writer.node \in Plan /\ Moves({writer.node}, "write", "done")
    BY <1>15, InsertMoves
  <2> QED BY <1>0, <2>1, <2>2, MovedPlaces DEF Stages
<1> QED
  BY <1>1, <1>2, <1>3, <1>4, <1>5, <1>6, <1>7, <1>8, <1>9, <1>10, <1>11, <1>12, <1>13,
     <1>14, <1>15, StepPlaces

\* Initially no process runs and no chunk has a verdict.
LEMMA InitFlow == Init => FlowInv
<1> SUFFICES ASSUME Init PROVE FlowInv
  OBVIOUS
<1>1. StartInv /\ LoopInv /\ ShutdownInv
  BY InitControl
<1>2. ProdInv
  BY QuietProd DEF Init
<1>3. OnceInv
  BY DEF Init, OnceInv, IdleWorker
<1>4. OnePlace
  <2>1. /\ pc = "down" /\ held = Nil /\ writer.node = Nil /\ Nil \notin Plan
        /\ chunksCh = <<>> /\ sqlCh = <<>>
        /\ \A t \in Tables : prod[t].cur = <<>> /\ prod[t].slices = {}
        /\ \A w \in Workers : worker[w].node = Nil
    BY SyncDiffAssumption DEF Init, NoProducer, IdleWorker, IdleWriter
  <2>2. \A c \in Plan : ~InSplit(c)
    BY <2>1, PlanElim DEF InSplit, InSlice
  <2>3. \A c \in Plan : ~Todo(c) /\ ~InQueue(c) /\ ~InSql(c) /\ ~InWork(c)
    BY <2>1 DEF Todo, InQueue, InSql, InWork
  <2> QED BY <2>1, <2>2, <2>3 DEF OnePlace, At
<1>5. NoneLost
  BY DEF Init, NoneLost
<1> QED BY <1>1, <1>2, <1>3, <1>4, <1>5 DEF FlowInv, PlaceInv

\* The control and place invariants together are inductive, given the types
\* and the checkpoint invariant.
LEMMA FlowStep == TypeOK /\ CheckpointInv /\ FlowInv /\ [Next]_vars => FlowInv'
<1> SUFFICES ASSUME TypeOK, CheckpointInv, FlowInv, [Next]_vars PROVE FlowInv'
  OBVIOUS
<1>1. StartInv /\ LoopInv /\ ShutdownInv /\ ProdInv /\ OnePlace /\ OnceInv /\ NoneLost
  BY DEF FlowInv, PlaceInv
<1>2. StartInv' /\ LoopInv' /\ ShutdownInv'
  BY <1>1, ControlStep
<1>3. ProdInv'
  BY <1>1, ProdStep
<1>4. OnceInv'
  BY <1>1, OnceStep
<1>5. OnePlace' /\ NoneLost'
  BY <1>1, PlaceStep
<1> QED BY <1>2, <1>3, <1>4, <1>5 DEF FlowInv, PlaceInv

\* Through any interleaving of producers, Equal, workers, writeSQLs and
\* flushes, any failure and any number of kills and restarts: goroutines are
\* only where the shutdown sequence of Equal allows, every chunk is at exactly
\* one stage of its way from its table to its verdict, once, and only a failure
\* of the producer ever loses one.
THEOREM FlowInvariant == Spec => []FlowInv
<1>1. Init => FlowInv
  BY InitFlow
<1>2. (TypeOK /\ CheckpointInv) /\ FlowInv /\ [Next]_vars => FlowInv'
  BY FlowStep
<1> QED BY <1>1, <1>2, CheckpointInvariant, PTL DEF Spec

-----------------------------------------------------------------------------
(* Concatenations without repetition.                                      *)

\* Two sequences without repetition and without a common element.
LEMMA ConcatInjective ==
    ASSUME NEW S, NEW s \in Seq(S), NEW u \in Seq(S),
           \A i, j \in 1 .. Len(s) : s[i] = s[j] => i = j,
           \A i, j \in 1 .. Len(u) : u[i] = u[j] => i = j,
           \A i \in 1 .. Len(s), j \in 1 .. Len(u) : s[i] # u[j]
    PROVE  /\ s \o u \in Seq(S)
           /\ \A i, j \in 1 .. Len(s \o u) : (s \o u)[i] = (s \o u)[j] => i = j
           /\ \A i \in 1 .. Len(s \o u) :
                 \/ \E j \in 1 .. Len(s) : (s \o u)[i] = s[j]
                 \/ \E j \in 1 .. Len(u) : (s \o u)[i] = u[j]
<1>1. /\ s \o u \in Seq(S) /\ Len(s \o u) = Len(s) + Len(u)
      /\ Len(s) \in Nat /\ Len(u) \in Nat
      /\ \A i \in 1 .. Len(s \o u) :
            (s \o u)[i] = IF i <= Len(s) THEN s[i] ELSE u[i - Len(s)]
  OBVIOUS
<1>2. ASSUME NEW i \in 1 .. Len(s \o u)
      PROVE  \/ i \in 1 .. Len(s) /\ (s \o u)[i] = s[i]
             \/ i - Len(s) \in 1 .. Len(u) /\ (s \o u)[i] = u[i - Len(s)]
  BY <1>1
<1>3. ASSUME NEW i \in 1 .. Len(s \o u), NEW j \in 1 .. Len(s \o u),
             (s \o u)[i] = (s \o u)[j]
      PROVE  i = j
  <2>1. CASE /\ i \in 1 .. Len(s) /\ (s \o u)[i] = s[i]
             /\ j \in 1 .. Len(s) /\ (s \o u)[j] = s[j]
    BY <1>3, <2>1
  <2>2. CASE /\ i - Len(s) \in 1 .. Len(u) /\ (s \o u)[i] = u[i - Len(s)]
             /\ j - Len(s) \in 1 .. Len(u) /\ (s \o u)[j] = u[j - Len(s)]
    <3>1. i - Len(s) = j - Len(s)
      BY <1>3, <2>2
    <3> QED BY <1>1, <3>1
  <2>3. CASE /\ i \in 1 .. Len(s) /\ (s \o u)[i] = s[i]
             /\ j - Len(s) \in 1 .. Len(u) /\ (s \o u)[j] = u[j - Len(s)]
    BY <1>3, <2>3
  <2>4. CASE /\ j \in 1 .. Len(s) /\ (s \o u)[j] = s[j]
             /\ i - Len(s) \in 1 .. Len(u) /\ (s \o u)[i] = u[i - Len(s)]
    BY <1>3, <2>4
  <2> QED BY <1>2, <2>1, <2>2, <2>3, <2>4
<1> QED BY <1>1, <1>2, <1>3

\* A sequence of at most one chunk.
LEMMA OneOrNone ==
    ASSUME NEW n \in ChunkOrNil
    PROVE  LET s == IF n = Nil THEN <<>> ELSE <<n>>
           IN  /\ s \in Seq(Plan)
               /\ \A i, j \in 1 .. Len(s) : s[i] = s[j] => i = j
               /\ \A i \in 1 .. Len(s) : s[i] = n
<1>1. CASE n = Nil
  BY <1>1
<1>2. CASE n # Nil
  <2>1. n \in Plan
    BY <1>2 DEF ChunkOrNil
  <2>2. <<n>> \in Seq(Plan) /\ Len(<<n>>) = 1 /\ <<n>>[1] = n
    BY <2>1
  <2> QED BY <1>2, <2>2
<1> QED BY <1>1, <1>2

\* Every chunk at one stage, at most once: CheckedOnce.
LEMMA FlowOnce == TypeOK /\ FlowInv => CheckedOnce
<1> SUFFICES ASSUME TypeOK, FlowInv PROVE CheckedOnce
  OBVIOUS
<1> DEFINE a == IF held = Nil THEN <<>> ELSE <<held>>
           b == [i \in 1 .. Len(sqlCh) |-> sqlCh[i].node]
           d == IF writer.node = Nil THEN <<>> ELSE <<writer.node>>
<1>1. /\ chunksCh \in Seq(Plan) /\ sqlCh \in Seq(DMLType) /\ held \in ChunkOrNil
      /\ writer.node \in ChunkOrNil /\ worker \in [Workers -> WorkerType]
  BY DEF TypeOK, MainType, IterType, SqlType, PoolType, WriterType
<1>2. OnePlace /\ OnceInv
  BY DEF FlowInv, PlaceInv
<1>3. /\ a \in Seq(Plan)
      /\ \A i, j \in 1 .. Len(a) : a[i] = a[j] => i = j
      /\ \A i \in 1 .. Len(a) : At(a[i], "held")
  BY <1>1, OneOrNone DEF At
<1>4. /\ d \in Seq(Plan)
      /\ \A i, j \in 1 .. Len(d) : d[i] = d[j] => i = j
      /\ \A i \in 1 .. Len(d) : At(d[i], "write")
  BY <1>1, OneOrNone DEF At
<1>5. /\ b \in Seq(Plan) /\ Len(b) = Len(sqlCh)
      /\ \A i, j \in 1 .. Len(b) : b[i] = b[j] => i = j
      /\ \A i \in 1 .. Len(b) : At(b[i], "sql")
  <2>1. Len(sqlCh) \in Nat /\ \A i \in 1 .. Len(sqlCh) : sqlCh[i].node \in Plan
    <3>1. \A i \in 1 .. Len(sqlCh) : sqlCh[i] \in DMLType
      BY <1>1
    <3> QED BY <1>1, <3>1 DEF DMLType
  <2>2. b \in Seq(Plan) /\ Len(b) = Len(sqlCh)
    BY <2>1
  <2>3. \A i \in 1 .. Len(b) : b[i] = sqlCh[i].node
    BY <2>2
  <2> HIDE DEF b
  <2> QED BY <1>2, <2>2, <2>3 DEF OnceInv, At, InSql
<1>6. /\ \A i, j \in 1 .. Len(chunksCh) : chunksCh[i] = chunksCh[j] => i = j
      /\ \A i \in 1 .. Len(chunksCh) : At(chunksCh[i], "queue")
  BY <1>2 DEF OnceInv, At, InQueue
<1>7. /\ \A c \in Plan : \A s, u \in Stages : At(c, s) /\ At(c, u) => s = u
      /\ \A s \in Seq(Plan) : \A i \in 1 .. Len(s) : s[i] \in Plan
  BY <1>2 DEF OnePlace
<1> HIDE DEF a, b, d
<1> DEFINE p == chunksCh \o a
           q == p \o b
           r == q \o d
<1>8. /\ p \in Seq(Plan)
      /\ \A i, j \in 1 .. Len(p) : p[i] = p[j] => i = j
      /\ \A i \in 1 .. Len(p) : At(p[i], "queue") \/ At(p[i], "held")
  <2>1. \A i \in 1 .. Len(chunksCh), j \in 1 .. Len(a) : chunksCh[i] # a[j]
    BY <1>1, <1>3, <1>6, <1>7 DEF Stages
  <2>2. /\ p \in Seq(Plan)
        /\ \A i, j \in 1 .. Len(p) : p[i] = p[j] => i = j
        /\ \A i \in 1 .. Len(p) : \/ \E j \in 1 .. Len(chunksCh) : p[i] = chunksCh[j]
                                  \/ \E j \in 1 .. Len(a) : p[i] = a[j]
    <3>1. /\ chunksCh \in Seq(Plan) /\ a \in Seq(Plan)
          /\ \A i, j \in 1 .. Len(chunksCh) : chunksCh[i] = chunksCh[j] => i = j
          /\ \A i, j \in 1 .. Len(a) : a[i] = a[j] => i = j
      BY <1>1, <1>3, <1>6
    <3> QED BY <2>1, <3>1, ConcatInjective
  <2> QED BY <1>3, <1>6, <2>2
<1> HIDE DEF p
<1>9. /\ q \in Seq(Plan)
      /\ \A i, j \in 1 .. Len(q) : q[i] = q[j] => i = j
      /\ \A i \in 1 .. Len(q) : At(q[i], "queue") \/ At(q[i], "held") \/ At(q[i], "sql")
  <2>1. \A i \in 1 .. Len(p), j \in 1 .. Len(b) : p[i] # b[j]
    BY <1>5, <1>7, <1>8 DEF Stages
  <2>2. /\ q \in Seq(Plan)
        /\ \A i, j \in 1 .. Len(q) : q[i] = q[j] => i = j
        /\ \A i \in 1 .. Len(q) : \/ \E j \in 1 .. Len(p) : q[i] = p[j]
                                  \/ \E j \in 1 .. Len(b) : q[i] = b[j]
    BY <1>5, <1>8, <2>1, ConcatInjective
  <2> QED BY <1>5, <1>8, <2>2
<1> HIDE DEF q
<1>10. /\ r \in Seq(Plan)
       /\ \A i, j \in 1 .. Len(r) : r[i] = r[j] => i = j
       /\ \A i \in 1 .. Len(r) : \E s \in {"queue", "held", "sql", "write"} : At(r[i], s)
  <2>1. \A i \in 1 .. Len(q), j \in 1 .. Len(d) : q[i] # d[j]
    BY <1>4, <1>7, <1>9 DEF Stages
  <2>2. /\ r \in Seq(Plan)
        /\ \A i, j \in 1 .. Len(r) : r[i] = r[j] => i = j
        /\ \A i \in 1 .. Len(r) : \/ \E j \in 1 .. Len(q) : r[i] = q[j]
                                  \/ \E j \in 1 .. Len(d) : r[i] = d[j]
    BY <1>4, <1>9, <2>1, ConcatInjective
  <2> QED BY <1>4, <1>9, <2>2
<1>11. InFlight = r
  BY DEF InFlight, r, q, p, a, b, d
<1> HIDE DEF r
<1>12. DOMAIN InFlight = 1 .. Len(r)
  BY <1>10, <1>11
<1>13. \A w \in Workers : worker[w].node # Nil => worker[w].node \in Plan
  BY <1>1 DEF WorkerType, ChunkOrNil
<1>14. \A i \in DOMAIN InFlight : InFlight[i] \in Plan /\ ~Checked(InFlight[i])
  <2>1. ASSUME NEW i \in 1 .. Len(r) PROVE r[i] \in Plan /\ ~At(r[i], "done")
    BY <1>7, <1>10 DEF Stages
  <2> QED BY <1>11, <1>12, <2>1 DEF At
<1>15. \A w \in Workers : worker[w].node # Nil =>
          At(worker[w].node, "work") /\ ~Checked(worker[w].node)
  BY <1>7, <1>13 DEF At, InWork, Stages
<1>16. ASSUME NEW w \in Workers, NEW i \in DOMAIN InFlight, worker[w].node = InFlight[i]
       PROVE  FALSE
  <2>1. PICK s \in {"queue", "held", "sql", "write"} : At(r[i], s)
    BY <1>10, <1>12
  <2>2. r[i] \in Plan /\ r[i] = worker[w].node
    BY <1>11, <1>14, <1>16
  <2>3. At(r[i], "work")
    BY <2>2, <1>15, SyncDiffAssumption
  <2> QED BY <1>7, <2>1, <2>2, <2>3 DEF Stages
<1>17. \A v, w \in Workers :
          worker[w].node # Nil /\ worker[v].node = worker[w].node => v = w
  BY <1>2 DEF OnceInv
<1> QED BY <1>10, <1>11, <1>12, <1>14, <1>15, <1>16, <1>17 DEF CheckedOnce

\* No chunk is handed to two consumers, queued twice or checked again while it
\* has a verdict, in a first run or in one resumed from the middle of a table.
THEOREM ChunkCheckedOnce == Spec => []CheckedOnce
  BY FlowOnce, FlowInvariant, TypeCorrect, PTL
=============================================================================
