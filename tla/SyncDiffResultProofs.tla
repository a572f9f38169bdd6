------------------------ MODULE SyncDiffResultProofs ------------------------
(***************************************************************************)
(* The end of a run, when no producer failed: every chunk is checked, the  *)
(* heap is empty and CurrentSavedNode is the last chunk.  And what a check *)
(* leaves behind: fix-SQL files, report, checkpoint file and overall       *)
(* result agree with the verdicts; and the whole check implements the      *)
(* resumable scan.                                                         *)
(***************************************************************************)
EXTENDS SyncDiffFlowProofs

-----------------------------------------------------------------------------
(* The end of a run.                                                       *)

\* When Equal has seen its consumers and writeSQLs end, nothing is on its way.
LEMMA AllDone ==
    ASSUME TypeOK, FlowInv, SqlDone, ~prodFailed
    PROVE  \A c \in Plan : Checked(c)
<1>0. StartInv /\ LoopInv /\ ShutdownInv /\ ProdInv /\ OnceInv /\ NoneLost
  BY DEF FlowInv, PlaceInv
<1>1. /\ LoopLeft /\ SqlClosed /\ ~exitErr /\ pc # "down" /\ held = Nil
  BY <1>0 DEF SqlDone, SqlClosed, LoopLeft, LoopInv, TypeOK, MainType
<1>2. /\ ~chunksOpen /\ chunksCh = <<>> /\ nextTable = NTables
      /\ \A t \in Tables : prod[t].st # "run"
  BY <1>0, <1>1 DEF LoopInv
<1>3. \A t \in Tables : prod[t].cur = <<>> /\ prod[t].slices = {}
  BY <1>0, <1>2 DEF ProdInv, GoodProducer
<1>4. /\ \A w \in Workers : worker[w].node = Nil
      /\ sqlCh = <<>> /\ writer.node = Nil /\ Nil \notin Plan
  BY <1>0, <1>1, SyncDiffAssumption DEF ShutdownInv
<1> SUFFICES ASSUME NEW c \in Plan PROVE Checked(c)
  OBVIOUS
<1>5. PICK s \in Stages : At(c, s)
  BY <1>0, <1>1 DEF NoneLost
<1>6. c.table \in Tables /\ c.table < NTables /\ c.table \in Nat /\ NTables \in Nat
  BY PlanElim, PlanFields, PlanAssumption
<1>7. ~Todo(c)
  BY <1>2, <1>6 DEF Todo
<1>8. ~InSplit(c)
  BY <1>3, <1>6 DEF InSplit, InSlice
<1>9. ~InQueue(c) /\ ~InWork(c) /\ ~InSql(c) /\ held # c /\ writer.node # c
  BY <1>1, <1>2, <1>4 DEF InQueue, InWork, InSql
<1> QED BY <1>5, <1>7, <1>8, <1>9 DEF At

-----------------------------------------------------------------------------
(* Every chunk but the last has a neighbour.                               *)

\* The first chunk of a table.
LEMMA FirstExists ==
    ASSUME NEW t \in Tables
    PROVE  \E m \in Plan : m.table = t /\ IsFirstChunkForTable(m)
<1>1. CASE Split[t] = "empty"
  <2>1. EmptyChunk(t) \in Plan
    BY <1>1, EmptyInPlan
  <2> QED BY <2>1 DEF EmptyChunk, IsFirstChunkForTable
<1>2. CASE Split[t] # "empty"
  <2>1. 1 \in 1 .. Len(Groups[t])
    BY PlanAssumption
  <2>2. 0 \in 0 .. (GroupSize(Groups[t][1]) - 1)
    BY <2>1, GroupFacts
  <2>3. ChunkOf(t, 1, 0) \in Plan
    BY <1>2, <2>1, <2>2, ChunkOfInPlan
  <2>4. ChunkOf(t, 1, 0).table = t /\ ~ChunkOf(t, 1, 0).hasLower
    <3>1. ~(1 > 1 \/ 0 > 0)
      OBVIOUS
    <3>2. ChunkOf(t, 1, 0).hasLower = (1 > 1 \/ 0 > 0)
      BY Zenon DEF ChunkOf
    <3> QED BY <3>1, <3>2 DEF ChunkOf
  <2> QED BY <2>3, <2>4 DEF IsFirstChunkForTable
<1> QED BY <1>1, <1>2

\* After the last chunk of a table comes the first of the next.
LEMMA NextTableFollows ==
    ASSUME NEW n \in Plan, NEW c \in Plan, ComparesLess(n, c), IsLastChunkForTable(n)
    PROVE  \E m \in Plan : IsAdjacent(n, m)
<1>1. /\ n.table \in Nat /\ c.table \in Nat /\ c.table < NTables /\ NTables \in Nat
  BY PlanFields, PlanAssumption
<1>2. c.table # n.table
  BY LastForTable, CompareTotal DEF Nodes
<1>3. n.table < c.table
  BY <1>1, <1>2 DEF ComparesLess
<1>4. n.table + 1 \in Tables
  BY <1>1, <1>3 DEF Tables
<1>5. PICK m \in Plan : m.table = n.table + 1 /\ IsFirstChunkForTable(m)
  BY <1>4, FirstExists
<1> QED BY <1>1, <1>5 DEF IsAdjacent

\* A node that some chunk comes after has an adjacent one: the cases of
\* IsAdjacent leave no gap between the tables, groups and chunks of a plan.
LEMMA SuccessorExists ==
    ASSUME NEW n \in Nodes, NEW c \in Plan, ComparesLess(n, c)
    PROVE  \E m \in Plan : IsAdjacent(n, m)
<1>1. CASE n = InitNode
  <2>1. 0 \in Tables
    BY PlanAssumption DEF Tables
  <2>2. PICK m \in Plan : m.table = 0 /\ IsFirstChunkForTable(m)
    BY <2>1, FirstExists
  <2> QED BY <1>1, <2>2 DEF IsAdjacent, InitNode, IsLastChunkForTable
<1>2. CASE n \in Plan /\ Split[n.table] = "empty"
  <2>1. n = EmptyChunk(n.table)
    BY <1>2, PlanElim
  <2>2. IsLastChunkForTable(n)
    BY <2>1 DEF EmptyChunk, IsLastChunkForTable
  <2> QED BY <1>2, <2>2, NextTableFollows
<1>3. CASE n \in Plan /\ Split[n.table] # "empty"
  <2> DEFINE t == n.table
  <2>1. t \in Tables
    BY <1>3, PlanElim
  <2>2. PICK k \in 1 .. Len(Groups[t]) :
          \E j \in 0 .. (GroupSize(Groups[t][k]) - 1) : n = ChunkOf(t, k, j)
    BY <1>3, PlanElim
  <2>3. PICK i \in 0 .. (GroupSize(Groups[t][k]) - 1) : n = ChunkOf(t, k, i)
    BY <2>2
  <2> HIDE DEF t
  <2>4. /\ GroupSize(Groups[t][k]) \in Nat /\ Groups[t][k].left \in Nat
        /\ Groups[t][k].right \in Nat /\ Groups[t][k].cnt \in Nat
        /\ Groups[t][k].left <= Groups[t][k].right
    BY <2>1, <2>2, GroupFacts, PlanAssumption
  <2>5. /\ n.table = t /\ n.left = Groups[t][k].left /\ n.right = Groups[t][k].right
        /\ n.index = i /\ n.cnt = Groups[t][k].cnt /\ ~n.isLast
        /\ n.hasUpper <=> k < Len(Groups[t]) \/ i < GroupSize(Groups[t][k]) - 1
    BY <2>3 DEF ChunkOf
  <2>6. CASE i < GroupSize(Groups[t][k]) - 1
    <3>1. i + 1 \in 0 .. (GroupSize(Groups[t][k]) - 1)
      BY <2>3, <2>4, <2>6
    <3>2. ChunkOf(t, k, i + 1) \in Plan
      BY <1>3, <2>1, <2>2, <3>1, ChunkOfInPlan DEF t
    <3>3. /\ ChunkOf(t, k, i + 1).table = t
          /\ ChunkOf(t, k, i + 1).left = Groups[t][k].left
          /\ ChunkOf(t, k, i + 1).index = i + 1
      BY DEF ChunkOf
    <3>4. IsAdjacent(n, ChunkOf(t, k, i + 1))
      BY <2>3, <2>4, <2>5, <3>3 DEF IsAdjacent
    <3> QED BY <3>2, <3>4
  <2>7. CASE i = GroupSize(Groups[t][k]) - 1 /\ k < Len(Groups[t])
    <3>1. /\ k + 1 \in 1 .. Len(Groups[t]) /\ k \in 1 .. (Len(Groups[t]) - 1)
          /\ Len(Groups[t]) \in Nat
      BY <2>1, <2>2, <2>7, PlanAssumption
    <3>2. Groups[t][k + 1].left = Groups[t][k].right + 1
      BY <2>1, <3>1, PlanAssumption
    <3>3. Split[t] = "bucket"
      <4>1. Len(Groups[t]) # 1
        BY <2>2, <2>7, <3>1
      <4>2. Split[t] \in {"bucket", "random", "empty"}
        BY <2>1, PlanAssumption
      <4> QED BY <1>3, <2>1, <4>1, <4>2, CountAssumption DEF t
    <3>4. Groups[t][k].cnt >= 1
      BY <2>1, <2>2, <3>3, CountAssumption
    <3>5. n.index = n.cnt - 1
      BY <2>4, <2>5, <2>7, <3>4 DEF GroupSize
    <3>6. 0 \in 0 .. (GroupSize(Groups[t][k + 1]) - 1)
      BY <2>1, <3>1, GroupFacts
    <3>7. ChunkOf(t, k + 1, 0) \in Plan
      BY <1>3, <2>1, <3>1, <3>6, ChunkOfInPlan DEF t
    <3>8. /\ ChunkOf(t, k + 1, 0).table = t /\ ChunkOf(t, k + 1, 0).index = 0
          /\ ChunkOf(t, k + 1, 0).left = Groups[t][k].right + 1
      BY <3>2 DEF ChunkOf
    <3>9. IsAdjacent(n, ChunkOf(t, k + 1, 0))
      BY <2>4, <2>5, <3>5, <3>8
      DEF IsAdjacent, IsLastChunkForBucket, IsFirstChunkForBucket
    <3> QED BY <3>7, <3>9
  <2>8. CASE i = GroupSize(Groups[t][k]) - 1 /\ k = Len(Groups[t])
    <3>1. IsLastChunkForTable(n)
      BY <2>4, <2>5, <2>8 DEF IsLastChunkForTable
    <3> QED BY <1>3, <3>1, NextTableFollows
  <2> QED
    <3>1. k \in Int /\ Len(Groups[t]) \in Nat /\ k <= Len(Groups[t])
      BY <2>1, <2>2, PlanAssumption
    <3> QED BY <2>3, <2>4, <2>6, <2>7, <2>8, <3>1
<1> QED BY <1>1, <1>2, <1>3 DEF Nodes

-----------------------------------------------------------------------------
(* The heap.                                                               *)

\* Steps that neither change the heap or a verdict nor begin a run.
HeapAside ==
    \/ pc' = "down"
    \/ UNCHANGED <<heap, saved, verdict>> /\ pc # "down"

\* Every step starts a run, inserts a chunk, pops one, or leaves the heap alone.
LEMMA StepHeap ==
    ASSUME [Next]_vars
    PROVE  StartRun \/ WriterInsert \/ PopAdjacent \/ HeapAside
<1> USE DEF mainVars, cpVars, HeapAside
<1>1. StartRunFails => HeapAside
  BY DEF StartRunFails
<1>2. Crash => HeapAside
  BY DEF Crash, Volatile
<1>3. StructEqual => HeapAside
  BY DEF StructEqual
<1>4. BeginEqual => HeapAside
  BY DEF BeginEqual
<1>5. NextChunk => HeapAside
  BY DEF NextChunk
<1>6. NextErr => HeapAside
  BY DEF NextErr
<1>7. NextEnd => HeapAside
  BY DEF NextEnd
<1>8. \A w \in Workers : Apply(w) => HeapAside
  BY DEF Apply
<1>9. WaitPool => HeapAside
  BY DEF WaitPool
<1>10. WaitSql => HeapAside
  BY DEF WaitSql
<1>11. WaitCkpt => HeapAside
  BY DEF WaitCkpt
<1>12. Fatal => HeapAside
  BY DEF Fatal, Volatile
<1>13. Close => HeapAside
  BY DEF Close, Volatile
<1>14. Stop => HeapAside
  BY DEF Stop
<1>15. StartTable => HeapAside
  BY DEF StartTable
<1>16. AnalyzeFails => HeapAside
  BY DEF AnalyzeFails
<1>17. CloseChunks => HeapAside
  BY DEF CloseChunks
<1>18. \A t \in Tables : SendChunk(t) => HeapAside
  BY DEF SendChunk
<1>19. \A t \in Tables : SplitFails(t) => HeapAside
  BY DEF SplitFails
<1>20. \A t \in Tables : IterFails(t) => HeapAside
  BY DEF IterFails
<1>21. \A t \in Tables : IterEnds(t) => HeapAside
  BY DEF IterEnds
<1>22. \A w \in Workers : ConsumeEmpty(w) => HeapAside
  BY DEF ConsumeEmpty
<1>23. \A w \in Workers : ConsumeCompare(w) => HeapAside
  BY DEF ConsumeCompare
<1>24. \A w \in Workers : ConsumeReport(w) => HeapAside
  BY DEF ConsumeReport
<1>25. \A w \in Workers : ConsumeSend(w) => HeapAside
  BY DEF ConsumeSend
<1>26. WriterTake => HeapAside
  BY DEF WriterTake
<1>27. WriterCreate => HeapAside
  BY DEF WriterCreate, Volatile
<1>28. WriterWrite => HeapAside
  BY DEF WriterWrite
<1>29. WriterExit => HeapAside
  BY DEF WriterExit
<1>30. FlushTimer => HeapAside
  BY DEF FlushTimer
<1>31. PopEnds => HeapAside
  BY DEF PopEnds
<1>32. SnapshotReport => HeapAside
  BY DEF SnapshotReport
<1>33. SaveChunk => HeapAside
  BY DEF SaveChunk
<1>34. SaveChunkFails => HeapAside
  BY DEF SaveChunkFails
<1>35. Finished => HeapAside
  BY DEF Finished, vars
<1>36. UNCHANGED vars => HeapAside
  BY DEF vars
<1> HIDE DEF mainVars, cpVars, HeapAside
<1> QED
  BY <1>1, <1>2, <1>3, <1>4, <1>5, <1>6, <1>7, <1>8, <1>9, <1>10, <1>11, <1>12, <1>13,
      <1>14, <1>15, <1>16, <1>17, <1>18, <1>19, <1>20, <1>21, <1>22, <1>23, <1>24,
      <1>25, <1>26, <1>27, <1>28, <1>29, <1>30, <1>31, <1>32, <1>33, <1>34, <1>35,
      <1>36
    DEF Next, Main, Producer, Produce, Consume, Writer, Flush

\* Every step keeps the heap equal to the chunks checked beyond
\* CurrentSavedNode: Insert adds one, GetChunkSnapshot takes one off as it
\* makes it CurrentSavedNode.
LEMMA HeapStep ==
    ASSUME TypeOK, CheckpointInv, OnePlace, HeapInv, [Next]_vars
    PROVE  HeapInv'
<1>0. /\ verdict \in [Plan -> OutcomeType \cup {Nil}] /\ heap \subseteq Plan
      /\ saved \in Nodes
  BY DEF TypeOK, CpType, DiskType, Nodes
<1>1. CASE StartRun
  <2>1. heap' = {} /\ saved' \in Nodes
    BY <1>1 DEF StartRun, CheckpointInv, TypeOK, DiskType, Nodes
  <2>2. ASSUME NEW c \in Plan, ~ComparesLeq(c, saved') PROVE ~Checked(c)'
    <3>1. ComparesLess(saved', c)
      BY <2>1, <2>2, CompareTotal DEF Nodes
    <3> QED BY <1>1, <3>1 DEF StartRun, Checked
  <2> QED BY <2>1, <2>2 DEF HeapInv
<1>2. CASE WriterInsert
  <2> DEFINE n == writer.node
  <2>1. /\ n \in Plan /\ writer.out # Nil
    BY <1>2, SyncDiffAssumption
    DEF TypeOK, SqlType, WriterInsert, WriterType, ChunkOrNil
  <2>2. /\ heap' = heap \cup {n} /\ saved' = saved /\ pc' = pc
        /\ verdict' = [verdict EXCEPT ![n] = writer.out]
    BY <1>2 DEF WriterInsert, mainVars
  <2>3. ~Checked(n)
    <3>1. At(n, "write")
      BY DEF At
    <3> QED BY <2>1, <3>1 DEF OnePlace, At, Stages
  <2>4. ~ComparesLeq(n, saved)
    BY <2>1, <2>3 DEF CheckpointInv, CheckpointCovers, UpTo
  <2>5. \A c \in Plan : Checked(c)' <=> Checked(c) \/ c = n
    BY <1>0, <2>1, <2>2 DEF Checked
  <2> HIDE DEF n
  <2> QED BY <2>1, <2>2, <2>4, <2>5 DEF HeapInv
<1>3. CASE PopAdjacent
  <2>1. PICK m \in heap : IsAdjacent(saved, m) /\ saved' = m /\ heap' = heap \ {m}
    BY <1>3 DEF PopAdjacent
  <2>2. pc' = pc /\ verdict' = verdict /\ m \in Plan /\ m \in Nodes
    BY <1>0, <1>3, <2>1 DEF PopAdjacent, mainVars, Nodes
  <2>3. ASSUME NEW c \in Plan PROVE ComparesLeq(c, m) <=> c = m \/ ComparesLeq(c, saved)
    <3>1. c \in Nodes
      BY DEF Nodes
    <3>2. ComparesLeq(saved, m)
      BY <1>0, <2>1, <2>2, AdjacentIsSuccessor DEF ComparesLeq
    <3>3. ComparesLeq(c, saved) => ComparesLeq(c, m)
      BY <1>0, <2>2, <3>1, <3>2, CompareTransitive
    <3>4. ComparesLeq(m, m)
      BY <2>2, CompareTotal
    <3> QED BY <1>0, <2>1, <2>2, <3>3, <3>4, AdjacentIsSuccessor
  <2>4. \A c \in Plan : Checked(c)' <=> Checked(c)
    BY <2>2 DEF Checked
  <2> QED BY <2>1, <2>2, <2>3, <2>4 DEF HeapInv
<1>4. CASE HeapAside
  BY <1>4 DEF HeapAside, HeapInv, Checked
<1> QED BY <1>1, <1>2, <1>3, <1>4, StepHeap

\* GetChunkSnapshot stops popping only at a gap: when all chunks are checked
\* it has emptied the heap.
LEMMA FlushTakesAll ==
    ASSUME TypeOK, CheckpointInv, HeapInv, PopEnds, pc # "down",
           \A c \in Plan : Checked(c)
    PROVE  heap = {} /\ UpTo(saved) = Plan
<1>1. heap \subseteq Plan /\ saved \in Nodes
  BY DEF TypeOK, CpType, Nodes
<1>2. ASSUME NEW c \in Plan, ComparesLess(saved, c) PROVE FALSE
  <2>1. PICK m \in Plan : IsAdjacent(saved, m)
    BY <1>1, <1>2, SuccessorExists
  <2>2. /\ ComparesLess(saved, m)
        /\ \A d \in Plan : ComparesLeq(d, m) => d = m \/ ComparesLeq(d, saved)
    BY <1>1, <2>1, AdjacentIsSuccessor
  <2>3. m \in heap
    BY <1>1, <2>2, CompareTotal DEF HeapInv, Nodes
  <2>4. IsMin(m)
    <3>1. SUFFICES ASSUME NEW d \in heap, IsLess(d, m) PROVE FALSE
      BY <2>3 DEF IsMin
    <3>2. ComparesLess(d, m) /\ ~ComparesLeq(d, saved)
      BY <1>1, <3>1, IsLessIsCompare DEF HeapInv
    <3>3. d = m
      BY <1>1, <2>2, <3>2 DEF ComparesLeq
    <3> QED BY <3>2, <3>3, CompareTotal DEF ComparesLeq, Nodes
  <2> QED BY <2>1, <2>3, <2>4 DEF PopEnds
<1>3. \A c \in Plan : ComparesLeq(c, saved)
  BY <1>1, <1>2, CompareTotal DEF Nodes
<1> QED BY <1>3 DEF HeapInv, UpTo

\* Steps that do not bring the last flush nearer its end.
FlushAside ==
    \/ pc' = "down"
    \/ /\ UNCHANGED <<heap, saved>>
       /\ prodFailed => prodFailed'
       /\ LastTaken' => LastTaken

\* Every step starts a run, inserts, pops, ends a flush, or brings the last
\* flush no nearer its end.
LEMMA StepFlush ==
    ASSUME TypeOK, [Next]_vars
    PROVE  StartRun \/ WriterInsert \/ PopAdjacent \/ PopEnds \/ FlushAside
<1>0. ck \in CkType
  BY DEF TypeOK, CpType
<1> USE DEF mainVars, iterVars, cpVars, FlushAside, LastTaken
<1>1. StartRunFails => FlushAside
  BY DEF StartRunFails
<1>2. Crash => FlushAside
  BY DEF Crash, Volatile
<1>3. StructEqual => FlushAside
  BY DEF StructEqual
<1>4. BeginEqual => FlushAside
  BY DEF BeginEqual
<1>5. NextChunk => FlushAside
  BY DEF NextChunk
<1>6. NextErr => FlushAside
  BY DEF NextErr
<1>7. NextEnd => FlushAside
  BY DEF NextEnd
<1>8. \A w \in Workers : Apply(w) => FlushAside
  BY DEF Apply
<1>9. WaitPool => FlushAside
  BY DEF WaitPool
<1>10. WaitSql => FlushAside
  BY DEF WaitSql
<1>11. WaitCkpt => FlushAside
  BY DEF WaitCkpt
<1>12. Fatal => FlushAside
  BY DEF Fatal, Volatile
<1>13. Close => FlushAside
  BY DEF Close, Volatile
<1>14. Stop => FlushAside
  BY <1>0 DEF Stop, CkType
<1>15. StartTable => FlushAside
  BY DEF StartTable
<1>16. AnalyzeFails => FlushAside
  BY DEF AnalyzeFails
<1>17. CloseChunks => FlushAside
  BY DEF CloseChunks
<1>18. \A t \in Tables : SendChunk(t) => FlushAside
  BY DEF SendChunk
<1>19. \A t \in Tables : SplitFails(t) => FlushAside
  BY DEF SplitFails
<1>20. \A t \in Tables : IterFails(t) => FlushAside
  BY DEF IterFails
<1>21. \A t \in Tables : IterEnds(t) => FlushAside
  BY DEF IterEnds
<1>22. \A w \in Workers : ConsumeEmpty(w) => FlushAside
  BY DEF ConsumeEmpty
<1>23. \A w \in Workers : ConsumeCompare(w) => FlushAside
  BY DEF ConsumeCompare
<1>24. \A w \in Workers : ConsumeReport(w) => FlushAside
  BY DEF ConsumeReport
<1>25. \A w \in Workers : ConsumeSend(w) => FlushAside
  BY DEF ConsumeSend
<1>26. WriterTake => FlushAside
  BY DEF WriterTake
<1>27. WriterCreate => FlushAside
  BY DEF WriterCreate, Volatile
<1>28. WriterWrite => FlushAside
  BY DEF WriterWrite
<1>29. WriterExit => FlushAside
  BY DEF WriterExit
<1>30. FlushTimer => FlushAside
  BY <1>0 DEF FlushTimer, CkType
<1>31. SnapshotReport => FlushAside
  BY <1>0 DEF SnapshotReport, CkType
<1>32. SaveChunk => FlushAside
  BY <1>0 DEF SaveChunk, CkType, FlushDone, IdleCk
<1>33. SaveChunkFails => FlushAside
  BY <1>0 DEF SaveChunkFails, CkType, FlushDone, IdleCk
<1>34. Finished => FlushAside
  BY DEF Finished, vars
<1>35. UNCHANGED vars => FlushAside
  BY DEF vars
<1> HIDE DEF mainVars, iterVars, cpVars, FlushAside, LastTaken
<1> QED
  BY <1>1, <1>2, <1>3, <1>4, <1>5, <1>6, <1>7, <1>8, <1>9, <1>10, <1>11, <1>12, <1>13,
      <1>14, <1>15, <1>16, <1>17, <1>18, <1>19, <1>20, <1>21, <1>22, <1>23, <1>24,
      <1>25, <1>26, <1>27, <1>28, <1>29, <1>30, <1>31, <1>32, <1>33, <1>34, <1>35
    DEF Next, Main, Producer, Produce, Consume, Writer, Flush

\* When handleCheckpoints has popped for the last time, heap and
\* CurrentSavedNode are final, unless producing failed.
LEMMA FinalStep ==
    ASSUME TypeOK, CheckpointInv, FlowInv, HeapInv, FinalInv, [Next]_vars
    PROVE  FinalInv'
<1>0. /\ StartInv /\ LoopInv /\ ShutdownInv /\ ck \in CkType
  BY DEF FlowInv, PlaceInv, TypeOK, CpType
<1>1. CASE StartRun
  <2>1. ck' = IdleCk
    BY <1>1 DEF StartRun, CheckpointInv
  <2> QED BY <2>1 DEF FinalInv, LastTaken, IdleCk
<1>2. CASE WriterInsert
  <2>1. ~LastTaken /\ UNCHANGED ck
    BY <1>0, <1>2 DEF LastTaken, WriterInsert, ShutdownInv, SqlDone
  <2> QED BY <2>1 DEF FinalInv, LastTaken
<1>3. CASE PopAdjacent
  <2>1. ck'.ph = "pop"
    BY <1>0, <1>3 DEF PopAdjacent, CkType
  <2> QED BY <2>1 DEF FinalInv, LastTaken
<1>4. CASE PopEnds
  <2>1. CASE ck.last /\ ~prodFailed
    <3>1. SqlDone
      BY <1>0, <2>1 DEF ShutdownInv, SqlDone
    <3>2. (\A c \in Plan : Checked(c)) /\ pc # "down"
      BY <2>1, <3>1, AllDone DEF SqlDone
    <3>3. heap = {} /\ UpTo(saved) = Plan
      BY <1>4, <3>2, FlushTakesAll
    <3>4. UNCHANGED <<heap, saved>>
      BY <1>4 DEF PopEnds
    <3> QED BY <3>3, <3>4 DEF FinalInv, UpTo
  <2>2. CASE prodFailed
    BY <1>4, <2>2 DEF PopEnds, FinalInv, iterVars
  <2>3. CASE ~ck.last
    <3>1. ck'.ph # "exit" /\ ~ck'.last
      BY <1>0, <1>4, <2>3 DEF PopEnds, FlushDone, IdleCk, CkType
    <3> QED BY <3>1 DEF FinalInv, LastTaken
  <2> QED BY <2>1, <2>2, <2>3
<1>5. CASE FlushAside
  <2>1. CASE pc' = "down"
    <3>1. ck' = IdleCk
      BY <1>0, <2>1, ControlStep DEF StartInv, Quiet
    <3> QED BY <3>1 DEF FinalInv, LastTaken, IdleCk
  <2>2. CASE pc' # "down"
    BY <1>5, <2>2 DEF FlushAside, FinalInv, UpTo
  <2> QED BY <2>1, <2>2
<1> QED BY <1>1, <1>2, <1>3, <1>4, <1>5, StepFlush

\* Both hold in every reachable state.
LEMMA HeapInvariant == Spec => [](HeapInv /\ FinalInv)
<1>1. Init => HeapInv /\ FinalInv
  BY DEF Init, HeapInv, FinalInv, LastTaken, IdleCk
<1>2. TypeOK /\ CheckpointInv /\ FlowInv /\ (HeapInv /\ FinalInv) /\ [Next]_vars
        => (HeapInv /\ FinalInv)'
  BY HeapStep, FinalStep DEF FlowInv, PlaceInv
<1> QED BY <1>1, <1>2, CheckpointInvariant, FlowInvariant, PTL DEF Spec

\* The deferred flush of handleCheckpoints reaches the last chunk of the last
\* table: IsAdjacent recognises the neighbour of every chunk of a plan, across
\* buckets, tables and lacking tables, and Equal sends stopCh only after
\* writeSQLs has inserted every chunk.
THEOREM FinalCheckpointReached == Spec => []FinalCheckpoint
<1>1. FlowInv /\ FinalInv => FinalCheckpoint
  BY DEF FlowInv, ShutdownInv, FinalInv, LastTaken, FinalCheckpoint
<1> QED BY <1>1, FlowInvariant, HeapInvariant, PTL

-----------------------------------------------------------------------------
(* Steps by what they do to results.                                       *)

\* Steps that touch no result, in memory or on disk.
Calm ==
    /\ UNCHANGED <<start, worker, sqlCh, writer, rep, result, ckpt, files, verdict>>
    /\ pc' = "down" <=> pc = "down"
    /\ pc' = "struct" <=> pc = "struct"
    /\ ck'.ph = "save" => ck.ph = "save" /\ ck'.cur = ck.cur /\ ck'.rep = ck.rep

\* os.Create finds no file.
CreatesFile ==
    /\ writer.ph = "create" /\ files[writer.node] = "none"
    /\ files' = [files EXCEPT ![writer.node] = "partial"]
    /\ writer' = [writer EXCEPT !.ph = "write"]
    /\ UNCHANGED <<mainVars, iterVars, worker, sqlCh, sqlOpen, cpVars, repVars, ckpt,
                   verdict, runs>>

\* Every step is one of those that touch report, result, verdicts or files,
\* or is calm.
LEMMA StepResults ==
    ASSUME TypeOK, [Next]_vars
    PROVE  \/ StartRun \/ StartRunFails \/ Dies \/ Calm \/ StructEqual
           \/ \E w \in Workers : \/ Apply(w) \/ ConsumeEmpty(w) \/ ConsumeCompare(w)
                                 \/ ConsumeReport(w) \/ ConsumeSend(w)
           \/ WriterTake \/ CreatesFile \/ WriterWrite \/ WriterInsert \/ WriterExit
           \/ SnapshotReport \/ SaveChunk
<1>0. ck \in CkType
  BY DEF TypeOK, CpType
<1> USE DEF mainVars, iterVars, sqlVars, cpVars, repVars
<1>1. Crash => Dies
  BY DEF Crash, Dies
<1>2. BeginEqual => Calm
  BY DEF BeginEqual, Calm
<1>3. NextChunk => Calm
  BY DEF NextChunk, Calm
<1>4. NextErr => Calm
  BY DEF NextErr, Calm
<1>5. NextEnd => Calm
  BY DEF NextEnd, Calm
<1>6. WaitPool => Calm
  BY DEF WaitPool, Calm
<1>7. WaitSql => Calm
  BY DEF WaitSql, Calm
<1>8. WaitCkpt => Calm
  BY DEF WaitCkpt, Calm
<1>9. Fatal => Dies
  BY DEF Fatal, Dies
<1>10. Close => Dies
  BY DEF Close, Dies
<1>11. Stop => Calm
  BY <1>0 DEF Stop, CkType, Calm
<1>12. StartTable => Calm
  BY DEF StartTable, Calm
<1>13. AnalyzeFails => Calm
  BY DEF AnalyzeFails, Calm
<1>14. CloseChunks => Calm
  BY DEF CloseChunks, Calm
<1>15. \A t \in Tables : SendChunk(t) => Calm
  BY DEF SendChunk, Calm
<1>16. \A t \in Tables : SplitFails(t) => Calm
  BY DEF SplitFails, Calm
<1>17. \A t \in Tables : IterFails(t) => Calm
  BY DEF IterFails, Calm
<1>18. \A t \in Tables : IterEnds(t) => Calm
  BY DEF IterEnds, Calm
<1>19. WriterCreate => Dies \/ CreatesFile
  BY DEF WriterCreate, Dies, CreatesFile
<1>20. FlushTimer => Calm
  BY <1>0 DEF FlushTimer, CkType, Calm
<1>21. PopAdjacent => Calm
  BY <1>0 DEF PopAdjacent, CkType, Calm
<1>22. PopEnds => Calm
  BY <1>0 DEF PopEnds, CkType, FlushDone, IdleCk, Calm
<1>23. SaveChunkFails => Calm
  BY <1>0 DEF SaveChunkFails, CkType, FlushDone, IdleCk, Calm
<1>24. Finished => Calm
  BY DEF Finished, vars, Calm
<1>25. UNCHANGED vars => Calm
  BY DEF vars, Calm
<1> HIDE DEF mainVars, iterVars, sqlVars, cpVars, repVars
<1> QED
  BY <1>1, <1>2, <1>3, <1>4, <1>5, <1>6, <1>7, <1>8, <1>9, <1>10, <1>11, <1>12, <1>13,
      <1>14, <1>15, <1>16, <1>17, <1>18, <1>19, <1>20, <1>21, <1>22, <1>23, <1>24,
      <1>25
    DEF Next, Main, Producer, Produce, Consume, Writer, Flush

-----------------------------------------------------------------------------
(* The fix-SQL files.                                                      *)

\* What writeSQLs has in hand has no verdict.
LEMMA WritingUnchecked ==
    ASSUME TypeOK, OnePlace, writer.ph \in {"create", "write", "insert"}
    PROVE  writer.node \in Plan /\ ~Checked(writer.node)
<1>1. writer.node \in Plan
  BY DEF TypeOK, SqlType, WriterType, ChunkOrNil
<1>2. At(writer.node, "write")
  BY DEF At
<1> QED BY <1>1, <1>2 DEF OnePlace, At, Stages

\* Every step keeps the files as FilesInv says: the cases are the start of a
\* run with removeSQLFiles, its failure, the steps of writeSQLs, and the rest.
LEMMA FilesStep ==
    ASSUME TypeOK, CheckpointInv, FlowInv, FilesInv, [Next]_vars
    PROVE  FilesInv'
<1>0. /\ files \in [Plan -> {"none", "partial", "full"}]
      /\ verdict \in [Plan -> OutcomeType \cup {Nil}]
      /\ writer \in WriterType /\ Nil \notin Plan
      /\ StartInv /\ ShutdownInv /\ OnePlace
      /\ KeptFiles /\ NewFiles /\ WriterFiles
  BY SyncDiffAssumption DEF FilesInv, TypeOK, DiskType, SqlType, FlowInv, PlaceInv
<1>1. CASE StartRun
  <2>1. writer' = IdleWriter /\ IdleWriter.ph = "idle" /\ IdleWriter.node = Nil
    BY <1>0, <1>1 DEF StartRun, StartInv, Quiet, sqlVars, IdleWriter
  <2>2. WriterFiles'
    BY <2>1 DEF WriterFiles
  <2>3. saved' \in Nodes
    BY <1>1 DEF StartRun, TypeOK, DiskType, Nodes
  <2>4. ASSUME NEW c \in Plan
        PROVE  /\ Checked(c)' => files'[c] = FileOf(verdict'[c])
               /\ ~Checked(c)' => files'[c] = "none"
    <3>1. CASE ComparesLess(saved', c)
      <4>1. verdict'[c] = Nil /\ files'[c] = "none"
        BY <1>1, <3>1 DEF StartRun, RemoveSQLFiles
      <4> QED BY <4>1 DEF Checked
    <3>2. CASE ~ComparesLess(saved', c)
      <4>1. ComparesLeq(c, saved')
        BY <2>3, <3>2, CompareTotal DEF Nodes
      <4>2. ckpt # Nil /\ ComparesLeq(c, ckpt.node)
        BY <1>1, <3>2, <4>1, InitNodeIsBefore DEF StartRun
      <4>3. verdict'[c] = verdict[c] /\ files'[c] = files[c]
        BY <1>1, <3>2 DEF StartRun, RemoveSQLFiles
      <4>4. Checked(c)
        BY <4>2 DEF CheckpointInv, CheckpointCovers, UpTo
      <4> QED BY <1>0, <4>2, <4>3, <4>4 DEF KeptFiles, Checked
    <3> QED BY <3>1, <3>2
  <2>5. KeptFiles' /\ NewFiles'
    BY <2>4 DEF KeptFiles, NewFiles
  <2> QED BY <2>2, <2>5 DEF FilesInv
<1>2. CASE StartRunFails
  <2>1. /\ ckpt' = Nil /\ pc' = "down" /\ writer' = writer
        /\ writer.ph \notin {"create", "write", "insert"}
    BY <1>2 DEF StartRunFails, mainVars, sqlVars, CheckpointInv
  <2> QED BY <2>1 DEF FilesInv, KeptFiles, NewFiles, WriterFiles
<1>3. CASE Dies
  <2>1. /\ ckpt' \in {ckpt, Nil} /\ pc' = "down" /\ UNCHANGED <<files, verdict>>
        /\ writer'.ph = "idle"
    BY <1>3 DEF Dies, Volatile, IdleWriter
  <2>2. KeptFiles'
    BY <1>0, <2>1 DEF KeptFiles, Checked
  <2> QED BY <2>1, <2>2 DEF FilesInv, NewFiles, WriterFiles
<1>4. CASE \/ Calm \/ StructEqual \/ SnapshotReport \/ SaveChunk
           \/ \E w \in Workers : \/ Apply(w) \/ ConsumeEmpty(w) \/ ConsumeCompare(w)
                                 \/ ConsumeReport(w) \/ ConsumeSend(w)
  <2>1. /\ UNCHANGED <<files, verdict, writer>>
        /\ pc' = "down" <=> pc = "down"
        /\ ckpt' = ckpt \/ pc # "down"
    <3>1. CASE SaveChunk
      BY <1>0, <3>1, Active DEF SaveChunk, mainVars, sqlVars, Equalling
    <3>2. CASE Calm \/ StructEqual \/ SnapshotReport
      BY <3>2 DEF Calm, StructEqual, SnapshotReport, mainVars, sqlVars
    <3>3. CASE \E w \in Workers : \/ Apply(w) \/ ConsumeEmpty(w) \/ ConsumeCompare(w)
                                  \/ ConsumeReport(w) \/ ConsumeSend(w)
      BY <3>3
      DEF Apply, ConsumeEmpty, ConsumeCompare, ConsumeReport, ConsumeSend, mainVars, sqlVars
    <3> QED BY <1>4, <3>1, <3>2, <3>3
  <2>2. KeptFiles'
    BY <1>0, <2>1 DEF KeptFiles, Checked
  <2>3. NewFiles'
    BY <1>0, <2>1 DEF NewFiles, Checked
  <2>4. WriterFiles'
    BY <1>0, <2>1 DEF WriterFiles, FileOf
  <2> QED BY <2>2, <2>3, <2>4 DEF FilesInv
<1>5. CASE WriterTake
  <2>1. /\ UNCHANGED <<files, verdict, ckpt, pc>> /\ pc # "down"
        /\ writer.node = Nil /\ writer' = [ph |-> writer'.ph, node |-> Head(sqlCh).node,
                                           out |-> Head(sqlCh).out]
        /\ writer'.ph = IF Head(sqlCh).out.sqls THEN "create" ELSE "insert"
    BY <1>0, <1>5 DEF WriterTake, mainVars, Equalling, ShutdownInv
  <2>2. writer'.node = Head(sqlCh).node /\ writer'.out = Head(sqlCh).out
    BY <2>1
  <2>3. Head(sqlCh) \in DMLType /\ Head(sqlCh) = sqlCh[1] /\ 1 \in 1 .. Len(sqlCh)
    BY <1>5 DEF WriterTake, TypeOK, SqlType
  <2>4. writer'.node \in Plan /\ ~Checked(writer'.node)
    <3>1. At(writer'.node, "sql")
      BY <2>2, <2>3 DEF At, InSql
    <3>2. writer'.node \in Plan
      BY <2>2, <2>3 DEF DMLType
    <3> QED BY <1>0, <3>1, <3>2 DEF OnePlace, At, Stages
  <2>5. files[writer'.node] = "none"
    BY <1>0, <2>1, <2>4 DEF NewFiles
  <2>6. KeptFiles'
    BY <1>0, <2>1 DEF KeptFiles, Checked
  <2>7. NewFiles'
    BY <1>0, <2>1 DEF NewFiles, Checked
  <2>8. WriterFiles'
    BY <2>1, <2>2, <2>5 DEF WriterFiles, FileOf
  <2> QED BY <2>6, <2>7, <2>8 DEF FilesInv
<1>6. CASE CreatesFile \/ WriterWrite
  <2> DEFINE n == writer.node
  <2>1. /\ UNCHANGED <<verdict, ckpt, pc>> /\ writer'.node = n /\ writer'.out = writer.out
        /\ writer.ph \in {"create", "write"} /\ writer.out.sqls
    BY <1>0, <1>6 DEF CreatesFile, WriterWrite, WriterType, mainVars, WriterFiles
  <2>2. n \in Plan /\ ~Checked(n)
    BY <1>0, <2>1, WritingUnchecked
  <2>3. \A c \in Plan : c # n => files'[c] = files[c]
    BY <1>0, <1>6 DEF CreatesFile, WriterWrite
  <2>4. WriterFiles'
    <3>1. CASE CreatesFile
      <4>1. writer'.ph = "write" /\ files'[n] = "partial"
        BY <1>0, <2>2, <3>1 DEF CreatesFile, WriterType
      <4> QED BY <2>1, <4>1 DEF WriterFiles
    <3>2. CASE WriterWrite
      <4>1. writer'.ph = "insert" /\ files'[n] = "full"
        BY <1>0, <2>2, <3>2 DEF WriterWrite, WriterType
      <4> QED BY <2>1, <4>1 DEF WriterFiles, FileOf
    <3> QED BY <1>6, <3>1, <3>2
  <2>5. KeptFiles'
    BY <1>0, <2>1, <2>2, <2>3 DEF KeptFiles, Checked
  <2>6. NewFiles'
    BY <1>0, <2>1, <2>2, <2>3 DEF NewFiles, Checked
  <2> QED BY <2>4, <2>5, <2>6 DEF FilesInv
<1>7. CASE WriterInsert
  <2> DEFINE n == writer.node
  <2>1. /\ UNCHANGED <<files, ckpt, pc>> /\ writer.ph = "insert"
        /\ verdict' = [verdict EXCEPT ![n] = writer.out]
        /\ writer'.node = Nil /\ writer'.ph = "idle"
    BY <1>7 DEF WriterInsert, mainVars, IdleWriter
  <2>2. n \in Plan /\ files[n] = FileOf(writer.out)
    BY <1>0, <2>1, WritingUnchecked DEF WriterFiles
  <2>3. /\ verdict'[n] = writer.out /\ writer.out # Nil
        /\ \A c \in Plan : c # n => verdict'[c] = verdict[c]
    BY <1>0, <2>1, <2>2, SyncDiffAssumption DEF WriterType
  <2> HIDE DEF n
  <2>4. KeptFiles'
    BY <1>0, <2>1, <2>2, <2>3 DEF KeptFiles, Checked
  <2>5. NewFiles'
    BY <1>0, <2>1, <2>2, <2>3 DEF NewFiles, Checked, n
  <2> QED BY <2>1, <2>4, <2>5 DEF FilesInv, WriterFiles
<1>8. CASE WriterExit
  <2>1. /\ UNCHANGED <<files, verdict, ckpt, pc>>
        /\ writer'.node = writer.node /\ writer'.ph = "exit"
    BY <1>0, <1>8 DEF WriterExit, WriterType, mainVars
  <2>2. KeptFiles'
    BY <1>0, <2>1 DEF KeptFiles, Checked
  <2>3. NewFiles'
    BY <1>0, <2>1 DEF NewFiles, Checked
  <2> QED BY <2>1, <2>2, <2>3 DEF FilesInv, WriterFiles
<1> QED BY <1>1, <1>2, <1>3, <1>4, <1>5, <1>6, <1>7, <1>8, StepResults

\* FilesInv holds in every reachable state.
LEMMA FilesInvariant == Spec => []FilesInv
<1>1. Init => FilesInv
  BY DEF Init, FilesInv, KeptFiles, NewFiles, WriterFiles, Checked, IdleWriter
<1>2. TypeOK /\ CheckpointInv /\ FlowInv /\ FilesInv /\ [Next]_vars => FilesInv'
  BY FilesStep
<1> QED BY <1>1, <1>2, CheckpointInvariant, FlowInvariant, PTL DEF Spec

\* The fix-SQL files of all chunks the checkpoint file covers are whole and
\* belong to their verdicts: writeSQLs inserts a chunk only after its file is
\* written, and removeSQLFiles clears what a killed run left after the
\* checkpoint.
THEOREM FilesMatch == Spec => []FixFilesMatch
<1>1. FilesInv => FixFilesMatch
  BY DEF FilesInv, KeptFiles, FixFilesMatch, UpTo, FileOf
<1> QED BY <1>1, FilesInvariant, PTL

\* The log.Fatal "repeat sql happen" of writeSQLs is unreachable.
THEOREM RepeatUnreachable == Spec => []NoRepeatSQL
<1>1. FilesInv => NoRepeatSQL
  BY DEF FilesInv, WriterFiles, NoRepeatSQL
<1> QED BY <1>1, FilesInvariant, PTL

-----------------------------------------------------------------------------
(* The report.                                                             *)

\* Nobody has reported on a chunk whose worker is still at it.
LEMMA NotToldYet ==
    ASSUME TypeOK, OnePlace, OnceInv, NEW w \in Workers,
           worker[w].ph \in {"compare", "report"}
    PROVE  worker[w].node \in Plan /\ ~ToldUnequal(worker[w].node)
<1> DEFINE c == worker[w].node
<1>1. c \in Plan /\ c # Nil
  BY SyncDiffAssumption DEF TypeOK, PoolType, WorkerType, ChunkOrNil
<1>2. At(c, "work")
  BY DEF At, InWork
<1>3. ~Checked(c) /\ ~InSql(c) /\ writer.node # c
  BY <1>1, <1>2 DEF OnePlace, At, Stages
<1>4. \A v \in Workers : worker[v].node = c => v = w
  BY <1>1 DEF OnceInv
<1> HIDE DEF c
<1>5. ~ToldUnequal(c)
  BY <1>3, <1>4 DEF ToldUnequal, InSql
<1> QED BY <1>1, <1>5 DEF c

\* A chunk with a verdict is told unequal if the verdict is.
LEMMA ToldVerdict ==
    ASSUME OnePlace, NEW c \in Plan, Checked(c)
    PROVE  ToldUnequal(c) <=> ~verdict[c].equal
<1>1. At(c, "done")
  BY DEF At
<1>2. ~InWork(c) /\ ~InSql(c) /\ writer.node # c
  BY <1>1 DEF OnePlace, At, Stages
<1> QED BY <1>2 DEF ToldUnequal, InWork, InSql

\* A worker reports its outcome.
LEMMA WorkerTells ==
    ASSUME TypeOK, NEW w \in Workers, NEW o,
           worker[w].ph # "send",
           worker'[w].ph = "send", worker'[w].node = worker[w].node, worker'[w].out = o,
           \A v \in Workers : v # w => worker'[v] = worker[v],
           UNCHANGED <<sqlCh, writer, verdict>>
    PROVE  \A d : ToldUnequal(d)' <=> ToldUnequal(d) \/ (d = worker[w].node /\ ~o.equal)
  BY DEF ToldUnequal, Checked

\* Steps of a worker that report nothing.
LEMMA WorkerSilent ==
    ASSUME NEW w \in Workers, worker[w].ph # "send", worker'[w].ph # "send",
           \A v \in Workers : v # w => worker'[v] = worker[v],
           UNCHANGED <<sqlCh, writer, verdict>>
    PROVE  \A d : ToldUnequal(d)' <=> ToldUnequal(d)
  BY DEF ToldUnequal, Checked

\* An outcome on its way through sqlCh stays the same.
LEMMA SendTold ==
    ASSUME TypeOK, NEW w \in Workers, ConsumeSend(w)
    PROVE  \A d \in Plan : ToldUnequal(d)' <=> ToldUnequal(d)
<1> DEFINE e == [node |-> worker[w].node, out |-> worker[w].out]
<1>1. /\ worker \in [Workers -> WorkerType] /\ sqlCh \in Seq(DMLType)
      /\ worker[w].node \in Plan /\ worker[w].ph = "send"
  BY SyncDiffAssumption
  DEF TypeOK, PoolType, SqlType, ConsumeSend, WorkerType, ChunkOrNil
<1>2. e \in DMLType /\ e.node = worker[w].node /\ e.out = worker[w].out
  BY <1>1 DEF DMLType, WorkerType
<1>3. /\ worker' = [worker EXCEPT ![w] = IdleWorker] /\ sqlCh' = Append(sqlCh, e)
      /\ UNCHANGED <<writer, verdict>>
  BY DEF ConsumeSend
<1> HIDE DEF e
<1>4. /\ worker'[w].ph = "idle" /\ \A v \in Workers : v # w => worker'[v] = worker[v]
  BY <1>1, <1>3 DEF IdleWorker
<1>5. /\ Len(sqlCh') = Len(sqlCh) + 1 /\ Len(sqlCh) \in Nat
      /\ sqlCh'[Len(sqlCh) + 1] = e
      /\ \A i \in 1 .. Len(sqlCh) : sqlCh'[i] = sqlCh[i]
  BY <1>1, <1>2, <1>3
<1>6. \A i : i \in 1 .. Len(sqlCh') <=> i \in 1 .. Len(sqlCh) \/ i = Len(sqlCh) + 1
  BY <1>5
<1>7. ASSUME NEW d \in Plan
      PROVE  (\E i \in 1 .. Len(sqlCh') : sqlCh'[i].node = d /\ ~sqlCh'[i].out.equal)
             <=> \/ \E i \in 1 .. Len(sqlCh) : sqlCh[i].node = d /\ ~sqlCh[i].out.equal
                 \/ worker[w].node = d /\ ~worker[w].out.equal
  BY <1>2, <1>5, <1>6
<1>8. ASSUME NEW d \in Plan
      PROVE  (\E v \in Workers :
                 worker[v].node = d /\ worker[v].ph = "send" /\ ~worker[v].out.equal)
             <=> \/ \E v \in Workers :
                       worker'[v].node = d /\ worker'[v].ph = "send" /\ ~worker'[v].out.equal
                 \/ worker[w].node = d /\ ~worker[w].out.equal
  BY <1>1, <1>4
<1> QED BY <1>3, <1>7, <1>8 DEF ToldUnequal, Checked

\* An outcome that writeSQLs takes up stays the same.
LEMMA TakeTold ==
    ASSUME TypeOK, ShutdownInv, WriterTake
    PROVE  \A d \in Plan : ToldUnequal(d)' <=> ToldUnequal(d)
<1>1. sqlCh \in Seq(DMLType) /\ sqlCh # <<>> /\ sqlCh' = Tail(sqlCh)
  BY DEF TypeOK, SqlType, WriterTake
<1>2. /\ Len(Tail(sqlCh)) = Len(sqlCh) - 1 /\ Len(sqlCh) \in Nat \ {0}
      /\ \A i \in 1 .. Len(Tail(sqlCh)) :
            Tail(sqlCh)[i] = sqlCh[i + 1] /\ i + 1 \in 1 .. Len(sqlCh)
      /\ Head(sqlCh) = sqlCh[1] /\ 1 \in 1 .. Len(sqlCh)
  BY <1>1
<1>3. /\ writer.node = Nil /\ Nil \notin Plan
      /\ writer'.node = Head(sqlCh).node /\ writer'.out = Head(sqlCh).out
      /\ UNCHANGED <<worker, verdict>>
  BY SyncDiffAssumption DEF WriterTake, ShutdownInv
<1>4. ASSUME NEW d \in Plan
      PROVE  (\E i \in 1 .. Len(sqlCh) : sqlCh[i].node = d /\ ~sqlCh[i].out.equal)
             <=> \/ \E i \in 1 .. Len(sqlCh') : sqlCh'[i].node = d /\ ~sqlCh'[i].out.equal
                 \/ Head(sqlCh).node = d /\ ~Head(sqlCh).out.equal
  <2>1. \A i \in 1 .. Len(sqlCh) : i = 1 \/ (i - 1 \in 1 .. Len(sqlCh') /\ (i - 1) + 1 = i)
    BY <1>1, <1>2
  <2> QED BY <1>1, <1>2, <2>1
<1> QED BY <1>3, <1>4 DEF ToldUnequal, Checked

\* So does one that becomes a verdict.
LEMMA InsertTold ==
    ASSUME TypeOK, OnePlace, WriterInsert
    PROVE  \A d \in Plan : ToldUnequal(d)' <=> ToldUnequal(d)
<1> DEFINE n == writer.node
<1>1. n \in Plan /\ ~Checked(n)
  BY WritingUnchecked DEF WriterInsert
<1>2. /\ verdict \in [Plan -> OutcomeType \cup {Nil}] /\ writer.out # Nil
      /\ verdict' = [verdict EXCEPT ![n] = writer.out]
      /\ UNCHANGED <<worker, sqlCh>> /\ writer'.node = Nil /\ Nil \notin Plan
  BY SyncDiffAssumption DEF TypeOK, DiskType, SqlType, WriterType, WriterInsert, IdleWriter
<1>3. verdict'[n] = writer.out /\ \A d \in Plan : d # n => verdict'[d] = verdict[d]
  BY <1>1, <1>2
<1> HIDE DEF n
<1>4. ASSUME NEW d \in Plan PROVE ToldUnequal(d)' <=> ToldUnequal(d)
  <2>1. CASE d = n
    BY <1>1, <1>2, <1>3, <2>1 DEF ToldUnequal, Checked, n
  <2>2. CASE d # n
    BY <1>2, <1>3, <2>2 DEF ToldUnequal, Checked, n
  <2> QED BY <2>1, <2>2
<1> QED BY <1>4

\* The counts stay right when neither they nor the outcomes change.
LEMMA CountsFrame ==
    ASSUME ReportCounts, pc' # "down" => pc # "down",
           rep'.chunkMap = rep.chunkMap, rep'.dataEqual = rep.dataEqual,
           \A d \in Plan : ToldUnequal(d)' <=> ToldUnequal(d)
    PROVE  ReportCounts'
  BY DEF ReportCounts

\* SetTableDataCheckResult counts an unequal chunk for the first time.
LEMMA CountsOne ==
    ASSUME TypeOK, ReportCounts, pc # "down", NEW c \in Plan, ~ToldUnequal(c),
           NEW eq \in BOOLEAN, rep' = SetTableDataCheckResult(rep, c, eq),
           \A d \in Plan : ToldUnequal(d)' <=> ToldUnequal(d) \/ (d = c /\ ~eq)
    PROVE  ReportCounts'
<1>1. /\ rep \in ReportType /\ rep.dataEqual \in [Tables -> BOOLEAN]
      /\ rep.chunkMap \in [Plan -> Nat]
      /\ \A d \in Plan : d.table \in Tables
  BY PlanElim DEF TypeOK, ReportType
<1>2. CASE eq
  <2>1. rep' = rep
    BY <1>2 DEF SetTableDataCheckResult
  <2> QED BY <1>2, <2>1 DEF ReportCounts
<1>3. CASE ~eq
  <2>1. /\ rep'.dataEqual = [rep.dataEqual EXCEPT ![c.table] = FALSE]
        /\ rep'.chunkMap = [rep.chunkMap EXCEPT ![c] = @ + 1]
    BY <1>1, <1>3 DEF SetTableDataCheckResult, ReportType
  <2>2. rep.chunkMap[c] = 0 /\ rep'.chunkMap[c] = 1 /\ ~rep'.dataEqual[c.table]
    BY <1>1, <2>1 DEF ReportCounts
  <2>3. \A d \in Plan : /\ d # c => rep'.chunkMap[d] = rep.chunkMap[d]
                        /\ ~rep.dataEqual[d.table] => ~rep'.dataEqual[d.table]
    BY <1>1, <2>1
  <2> QED BY <1>3, <2>2, <2>3 DEF ReportCounts
<1> QED BY <1>2, <1>3

\* What is in flight to the file and in it stays exact when no verdict up to
\* its node changes.
LEMMA ExactFrame ==
    ASSUME InFlightExact, OnDiskExact,
           ck'.ph = "save" => /\ ck.ph = "save" /\ ck'.cur = ck.cur /\ ck'.rep = ck.rep
                              /\ \A c \in Plan : ComparesLeq(c, ck.cur) => verdict'[c] = verdict[c],
           ckpt' \in {ckpt, Nil},
           ckpt' # Nil =>
              \A c \in Plan : ComparesLeq(c, ckpt.node) => verdict'[c] = verdict[c]
    PROVE  InFlightExact' /\ OnDiskExact'
<1>1. InFlightExact'
  <2>1. SUFFICES ASSUME ck'.ph = "save" PROVE ExactUpTo(ck.rep, ck.cur)'
    BY DEF InFlightExact
  <2>2. \A c \in Plan :
           /\ ck.rep.chunkMap[c] = IF UnequalUpTo(c, ck.cur)' THEN 1 ELSE 0
           /\ UnequalUpTo(c, ck.cur)' => ~ck.rep.dataEqual[c.table]
    <3>1. \A c \in Plan : (UnequalUpTo(c, ck.cur))' <=> UnequalUpTo(c, ck.cur)
      BY <2>1 DEF UnequalUpTo, Checked
    <3> QED BY <2>1, <3>1 DEF InFlightExact, ExactUpTo
  <2> QED BY <2>1, <2>2 DEF ExactUpTo
<1>2. OnDiskExact'
  <2>1. SUFFICES ASSUME ckpt' # Nil PROVE ExactUpTo(ckpt.rep, ckpt.node)'
    BY DEF OnDiskExact
  <2>2. ckpt' = ckpt
    BY <2>1
  <2>3. \A c \in Plan : (UnequalUpTo(c, ckpt.node))' <=> UnequalUpTo(c, ckpt.node)
    BY <2>1, <2>2 DEF UnequalUpTo, Checked
  <2> QED BY <2>1, <2>2, <2>3 DEF OnDiskExact, ExactUpTo
<1> QED BY <1>1, <1>2

\* GetSnapshot of the report, for the node the flush has reached.
LEMMA SnapshotExact ==
    ASSUME SortedIds, TypeOK, CheckpointInv, OnePlace, ReportCounts, pc # "down",
           ck.cur # Nil
    PROVE  ExactUpTo(GetSnapshot(rep, ck.cur), ck.cur)
<1> DEFINE n == ck.cur
           s == GetSnapshot(rep, n)
<1>1. /\ n \in Plan /\ n = saved /\ n.table \in Tables
      /\ UniqueID \in [Tables -> Nat]
  BY PlanElim, ReportAssumption DEF TypeOK, CpType, CkType, ChunkOrNil, CheckpointInv
<1> SUFFICES ASSUME NEW c \in Plan
             PROVE  /\ s.chunkMap[c] = IF UnequalUpTo(c, n) THEN 1 ELSE 0
                    /\ UnequalUpTo(c, n) => ~s.dataEqual[c.table]
  BY DEF ExactUpTo
<1>2. c.table \in Tables /\ c.table \in Nat /\ n.table \in Nat
  BY <1>1, PlanElim, PlanFields
<1> HIDE DEF n
<1>3. CASE ~ComparesLeq(c, n)
  <2>1. s.chunkMap[c] = 0
    BY <1>3 DEF GetSnapshot
  <2> QED BY <1>3, <2>1 DEF UnequalUpTo
<1>4. CASE ComparesLeq(c, n)
  <2>1. c.table <= n.table
    BY <1>2, <1>4 DEF ComparesLeq, ComparesLess
  <2>2. UniqueID[c.table] >= UniqueID[n.table]
    <3>1. CASE c.table = n.table
      BY <1>1, <3>1
    <3>2. CASE c.table # n.table
      BY <1>1, <1>2, <2>1, <3>2 DEF SortedIds
    <3> QED BY <3>1, <3>2
  <2>3. s.chunkMap[c] = rep.chunkMap[c] /\ s.dataEqual[c.table] = rep.dataEqual[c.table]
    BY <1>2, <1>4, <2>2 DEF GetSnapshot, TypeOK, ReportType
  <2>4. Checked(c)
    BY <1>1, <1>4 DEF CheckpointInv, CheckpointCovers, UpTo
  <2>5. UnequalUpTo(c, n) <=> ToldUnequal(c)
    BY <1>4, <2>4, ToldVerdict DEF UnequalUpTo
  <2> QED BY <2>3, <2>5 DEF ReportCounts
<1> QED BY <1>3, <1>4

\* A run takes up the report of the checkpoint file.
LEMMA StartRunCounts ==
    ASSUME TypeOK, StartInv, OnDiskExact, StartRun
    PROVE  ReportCounts' /\ InFlightExact' /\ OnDiskExact'
<1>0. /\ ckpt \in [node : Plan, rep : ReportType] \cup {Nil}
      /\ Nil \notin Plan
  BY SyncDiffAssumption DEF TypeOK, DiskType
<1>1. Quiet' /\ ckpt' = ckpt
  BY DEF StartRun, StartInv, Quiet, iterVars, sqlVars
<1>2. /\ ck'.ph # "save" /\ writer'.node = Nil /\ sqlCh' = <<>>
      /\ \A w \in Workers : worker'[w].ph = "idle"
  BY <1>1 DEF Quiet, IdleCk, IdleWriter, IdleWorker
<1>3. \A c \in Plan : ToldUnequal(c)' <=> verdict'[c] # Nil /\ ~verdict'[c].equal
  BY <1>0, <1>2 DEF ToldUnequal, Checked
<1>4. CASE ckpt = Nil
  <2>1. \A c \in Plan : verdict'[c] = Nil
    BY <1>4, InitNodeIsBefore DEF StartRun
  <2>2. \A c \in Plan : rep'.chunkMap[c] = 0
    BY <1>4 DEF StartRun, InitReport
  <2> QED BY <1>1, <1>2, <1>3, <1>4, <2>1, <2>2 DEF ReportCounts, InFlightExact, OnDiskExact
<1>5. CASE ckpt # Nil
  <2>1. ckpt.node \in Nodes /\ rep' = ckpt.rep
    BY <1>0, <1>5 DEF StartRun, LoadReport, Nodes
  <2>2. ASSUME NEW c \in Plan
        PROVE  verdict'[c] = IF ComparesLeq(c, ckpt.node) THEN verdict[c] ELSE Nil
    <3>1. ComparesLess(ckpt.node, c) <=> ~ComparesLeq(c, ckpt.node)
      BY <2>1, CompareTotal DEF Nodes
    <3> QED BY <1>5, <3>1 DEF StartRun
  <2>3. \A c \in Plan : /\ ToldUnequal(c)' <=> UnequalUpTo(c, ckpt.node)
                        /\ (UnequalUpTo(c, ckpt.node))' <=> UnequalUpTo(c, ckpt.node)
    BY <1>1, <1>3, <2>2 DEF UnequalUpTo, Checked
  <2>4. ReportCounts'
    BY <1>5, <2>1, <2>3 DEF ReportCounts, OnDiskExact, ExactUpTo
  <2>5. OnDiskExact'
    BY <1>1, <1>5, <2>3 DEF OnDiskExact, ExactUpTo
  <2> QED BY <1>2, <2>4, <2>5 DEF InFlightExact
<1> QED BY <1>4, <1>5

\* Every step keeps the report exact in memory, in flight and on disk.
LEMMA ReportStep ==
    ASSUME SortedIds, TypeOK, CheckpointInv, FlowInv, ReportInv, [Next]_vars
    PROVE  ReportInv'
<1>0. /\ StartInv /\ ShutdownInv /\ OnePlace /\ OnceInv
      /\ ReportCounts /\ InFlightExact /\ OnDiskExact
      /\ ck \in CkType /\ worker \in [Workers -> WorkerType] /\ rep \in ReportType
  BY DEF FlowInv, PlaceInv, ReportInv, InFlightExact, OnDiskExact, TypeOK, CpType, PoolType
<1> SUFFICES ReportCounts' /\ InFlightExact' /\ OnDiskExact'
  BY DEF ReportInv, InFlightExact, OnDiskExact
<1>1. CASE StartRun
  BY <1>0, <1>1, StartRunCounts
<1>2. CASE StartRunFails \/ Dies
  <2>1. /\ pc' = "down" /\ ckpt' \in {ckpt, Nil} /\ verdict' = verdict /\ ck'.ph = "idle"
    BY <1>2 DEF StartRunFails, Dies, Volatile, CheckpointInv, IdleCk, mainVars, cpVars
  <2>2. InFlightExact' /\ OnDiskExact'
    BY <1>0, <2>1, ExactFrame
  <2> QED BY <2>1, <2>2 DEF ReportCounts
<1>3. CASE Calm
  <2>1. \A d : ToldUnequal(d)' <=> ToldUnequal(d)
    BY <1>3 DEF Calm, ToldUnequal, Checked
  <2>2. ReportCounts'
    BY <1>0, <1>3, <2>1, CountsFrame DEF Calm
  <2>3. InFlightExact' /\ OnDiskExact'
    BY <1>0, <1>3, ExactFrame DEF Calm
  <2> QED BY <2>2, <2>3
<1>4. CASE StructEqual
  <2>1. /\ UNCHANGED <<worker, sqlCh, writer, verdict, ck, ckpt>> /\ pc # "down"
        /\ rep'.chunkMap = rep.chunkMap /\ rep'.dataEqual = rep.dataEqual
    BY <1>0, <1>4 DEF StructEqual, SetTableStructCheckResult, ReportType, sqlVars, cpVars
  <2>2. \A d : ToldUnequal(d)' <=> ToldUnequal(d)
    BY <2>1 DEF ToldUnequal, Checked
  <2>3. ReportCounts'
    BY <1>0, <2>1, <2>2, CountsFrame
  <2>4. InFlightExact' /\ OnDiskExact'
    BY <1>0, <2>1, ExactFrame
  <2> QED BY <2>3, <2>4
<1>5. ASSUME NEW w \in Workers, Apply(w) \/ ConsumeCompare(w)
      PROVE  ReportCounts' /\ InFlightExact' /\ OnDiskExact'
  <2>1. /\ worker[w].ph # "send" /\ worker'[w].ph # "send"
        /\ \A v \in Workers : v # w => worker'[v] = worker[v]
    <3>1. CASE Apply(w)
      BY <1>0, <3>1 DEF Apply, IdleWorker
    <3>2. CASE ConsumeCompare(w)
      <4>1. PICK o : worker' = [worker EXCEPT ![w].ph = "report", ![w].out = o]
        BY <3>2 DEF ConsumeCompare
      <4>2. worker[w].ph = "compare"
        BY <3>2 DEF ConsumeCompare
      <4> QED BY <1>0, <4>1, <4>2 DEF WorkerType
    <3> QED BY <1>5, <3>1, <3>2
  <2>2. /\ UNCHANGED <<sqlCh, writer, verdict, ck, ckpt, rep>> /\ (pc' # "down" => pc # "down")
    BY <1>5 DEF Apply, ConsumeCompare, mainVars, sqlVars, cpVars, repVars
  <2>3. \A d : ToldUnequal(d)' <=> ToldUnequal(d)
    BY <2>1, <2>2, WorkerSilent
  <2>4. ReportCounts'
    BY <1>0, <2>2, <2>3, CountsFrame
  <2>5. InFlightExact' /\ OnDiskExact'
    BY <1>0, <2>2, ExactFrame
  <2> QED BY <2>4, <2>5
<1>6. ASSUME NEW w \in Workers, ConsumeEmpty(w) \/ ConsumeReport(w)
      PROVE  ReportCounts' /\ InFlightExact' /\ OnDiskExact'
  <2> DEFINE c == worker[w].node
  <2>1. PICK o \in OutcomeType :
          /\ worker[w].ph \in {"compare", "report"} /\ worker'[w].ph = "send"
          /\ worker'[w].node = c /\ worker'[w].out = o
          /\ \A v \in Workers : v # w => worker'[v] = worker[v]
          /\ rep' = SetTableDataCheckResult(rep, c, o.equal)
    <3>1. CASE ConsumeEmpty(w)
      <4>1. LackOutcome \in OutcomeType /\ Skipped \in OutcomeType
        BY DEF LackOutcome, Skipped, OutcomeType
      <4> DEFINE o == IF c.table \in Lack THEN LackOutcome ELSE Skipped
      <4>2. /\ worker[w].ph = "compare"
            /\ worker' = [worker EXCEPT ![w].ph = "send", ![w].out = o]
            /\ rep' = SetTableDataCheckResult(rep, c, o.equal)
        BY <3>1 DEF ConsumeEmpty
      <4>3. o \in OutcomeType
        BY <4>1
      <4> HIDE DEF o
      <4> QED BY <1>0, <4>2, <4>3 DEF WorkerType
    <3>2. CASE ConsumeReport(w)
      <4>1. /\ worker[w].ph = "report" /\ worker' = [worker EXCEPT ![w].ph = "send"]
            /\ rep' = SetTableDataCheckResult(rep, c, worker[w].out.equal)
        BY <3>2 DEF ConsumeReport
      <4>2. worker[w].out \in OutcomeType
        BY <1>0 DEF WorkerType
      <4> QED BY <1>0, <4>1, <4>2 DEF WorkerType
    <3> QED BY <1>6, <3>1, <3>2
  <2>2. UNCHANGED <<sqlCh, writer, verdict, ck, ckpt, pc>>
    BY <1>6 DEF ConsumeEmpty, ConsumeReport, mainVars, sqlVars, cpVars
  <2>3. c \in Plan /\ ~ToldUnequal(c)
    BY <1>0, <2>1, NotToldYet
  <2>4. pc # "down" /\ o.equal \in BOOLEAN
    BY <1>0, <2>1, Active DEF Equalling, OutcomeType
  <2>5. \A d : ToldUnequal(d)' <=> ToldUnequal(d) \/ (d = c /\ ~o.equal)
    BY <2>1, <2>2, WorkerTells
  <2> HIDE DEF c
  <2>6. ReportCounts'
    BY <1>0, <2>1, <2>3, <2>4, <2>5, CountsOne
  <2>7. InFlightExact' /\ OnDiskExact'
    BY <1>0, <2>2, ExactFrame
  <2> QED BY <2>6, <2>7
<1>7. CASE WriterTake \/ \E w \in Workers : ConsumeSend(w)
  <2>1. \A d \in Plan : ToldUnequal(d)' <=> ToldUnequal(d)
    BY <1>0, <1>7, SendTold, TakeTold
  <2>2. UNCHANGED <<pc, verdict, ck, ckpt, rep>>
    BY <1>7 DEF WriterTake, ConsumeSend, mainVars, cpVars, repVars
  <2>3. ReportCounts'
    BY <1>0, <2>1, <2>2, CountsFrame
  <2>4. InFlightExact' /\ OnDiskExact'
    BY <1>0, <2>2, ExactFrame
  <2> QED BY <2>3, <2>4
<1>8. CASE CreatesFile \/ WriterWrite \/ WriterExit
  <2>1. /\ UNCHANGED <<worker, sqlCh, pc, verdict, ck, ckpt, rep>>
        /\ writer'.node = writer.node /\ writer'.out = writer.out
    BY <1>8
    DEF CreatesFile, WriterWrite, WriterExit, mainVars, cpVars, repVars, TypeOK, SqlType,
        WriterType
  <2>2. \A d : ToldUnequal(d)' <=> ToldUnequal(d)
    BY <2>1 DEF ToldUnequal, Checked
  <2>3. ReportCounts'
    BY <1>0, <2>1, <2>2, CountsFrame
  <2>4. InFlightExact' /\ OnDiskExact'
    BY <1>0, <2>1, ExactFrame
  <2> QED BY <2>3, <2>4
<1>9. CASE WriterInsert
  <2> DEFINE n == writer.node
  <2>1. n \in Plan /\ ~Checked(n)
    BY <1>0, <1>9, WritingUnchecked DEF WriterInsert
  <2>2. /\ UNCHANGED <<pc, rep, ck, ckpt, saved>>
        /\ \A c \in Plan : c # n => verdict'[c] = verdict[c]
    BY <1>9, <2>1 DEF WriterInsert, mainVars, repVars, TypeOK, DiskType
  <2>3. /\ ck.cur # Nil => ~ComparesLeq(n, ck.cur)
        /\ ckpt # Nil => ~ComparesLeq(n, ckpt.node)
    BY <2>1 DEF CheckpointInv, CheckpointCovers, UpTo
  <2>4. ck.ph = "save" => ck.cur # Nil
    BY DEF TypeOK, CpType
  <2>5. ReportCounts'
    BY <1>0, <1>9, <2>2, InsertTold, CountsFrame
  <2> HIDE DEF n
  <2>6. InFlightExact' /\ OnDiskExact'
    BY <1>0, <2>2, <2>3, <2>4, ExactFrame
  <2> QED BY <2>5, <2>6
<1>10. CASE SnapshotReport
  <2>1. /\ UNCHANGED <<worker, sqlCh, writer, pc, verdict, ckpt, rep>>
        /\ ck'.rep = GetSnapshot(rep, ck.cur) /\ ck'.cur = ck.cur
    BY <1>0, <1>10 DEF SnapshotReport, CkType, mainVars, sqlVars, repVars
  <2>2. \A d : ToldUnequal(d)' <=> ToldUnequal(d)
    BY <2>1 DEF ToldUnequal, Checked
  <2>3. ReportCounts'
    BY <1>0, <2>1, <2>2, CountsFrame
  <2>4. ck.cur # Nil /\ pc # "down"
    BY <1>0, <1>10, Active DEF SnapshotReport, TypeOK, CpType, Equalling
  <2>5. ExactUpTo(GetSnapshot(rep, ck.cur), ck.cur)
    BY <1>0, <2>4, SnapshotExact
  <2>6. \A c \in Plan : \A n : UnequalUpTo(c, n)' <=> UnequalUpTo(c, n)
    BY <2>1 DEF UnequalUpTo, Checked
  <2>7. InFlightExact'
    BY <2>1, <2>5, <2>6 DEF InFlightExact, ExactUpTo
  <2>8. OnDiskExact'
    BY <1>0, <2>1, <2>6 DEF OnDiskExact, ExactUpTo
  <2> QED BY <2>3, <2>7, <2>8
<1>11. CASE SaveChunk
  <2>1. /\ UNCHANGED <<worker, sqlCh, writer, pc, verdict, rep>>
        /\ ck.ph = "save" /\ ckpt' = [node |-> ck.cur, rep |-> ck.rep]
        /\ ck'.ph # "save"
    BY <1>11 DEF SaveChunk, FlushDone, IdleCk, mainVars, sqlVars, repVars
  <2>2. \A d : ToldUnequal(d)' <=> ToldUnequal(d)
    BY <2>1 DEF ToldUnequal, Checked
  <2>3. ReportCounts'
    BY <1>0, <2>1, <2>2, CountsFrame
  <2>4. \A c \in Plan : \A n : UnequalUpTo(c, n)' <=> UnequalUpTo(c, n)
    BY <2>1 DEF UnequalUpTo, Checked
  <2>5. ckpt'.node = ck.cur /\ ckpt'.rep = ck.rep
    BY <2>1
  <2>6. OnDiskExact'
    BY <1>0, <2>1, <2>4, <2>5 DEF OnDiskExact, InFlightExact, ExactUpTo
  <2> QED BY <2>1, <2>3, <2>6 DEF InFlightExact
<1> QED
  BY <1>1, <1>2, <1>3, <1>4, <1>5, <1>6, <1>7, <1>8, <1>9, <1>10, <1>11, StepResults

\* ReportInv holds in every reachable state, if the ids are sorted.
LEMMA ReportInvariant ==
    ASSUME SortedIds
    PROVE  Spec => []ReportInv
<1>1. Init => ReportInv
  <2>1. SUFFICES ASSUME Init PROVE ReportInv
    OBVIOUS
  <2>2. pc = "down" /\ ckpt = Nil /\ ck.ph = "idle"
    BY <2>1 DEF Init, IdleCk
  <2> QED BY <2>2 DEF ReportInv, ReportCounts, InFlightExact, OnDiskExact
<1>2. TypeOK /\ CheckpointInv /\ FlowInv /\ ReportInv /\ [Next]_vars => ReportInv'
  BY ReportStep
<1> QED BY <1>1, <1>2, CheckpointInvariant, FlowInvariant, PTL DEF Spec

\* The report in the checkpoint file counts each unequal chunk up to its node
\* once and nothing after it, although consumers report chunks beyond the node
\* while GetSnapshot runs.  It needs the order that NewSources sorts the tables
\* in; the run report_order shows what happens without it.
THEOREM SavedReportIsExact ==
    ASSUME SortedIds
    PROVE  Spec => []SavedReportExact
<1>1. ReportInv => SavedReportExact
  BY DEF ReportInv, OnDiskExact, ExactUpTo, UnequalUpTo, SavedReportExact
<1> QED BY <1>1, ReportInvariant, PTL

\* At the end of a run nothing is in flight.
LEMMA NothingInFlight ==
    ASSUME TypeOK, FlowInv, pc = "summary"
    PROVE  /\ \A w \in Workers : worker[w].ph # "send"
           /\ sqlCh = <<>> /\ writer.node = Nil
  BY DEF FlowInv, ShutdownInv, SqlClosed, SqlDone

\* When Equal returns without an error, report and fix-SQL files agree with the
\* verdicts of all runs together, and only a failure of the producer leaves a
\* chunk unchecked.
THEOREM FinishIsClean ==
    ASSUME SortedIds
    PROVE  Spec => []CleanFinish
<1>1. TypeOK /\ FlowInv /\ FilesInv /\ ReportInv => CleanFinish
  <2> SUFFICES ASSUME TypeOK, FlowInv, FilesInv, ReportInv, pc = "summary",
                      NEW c \in Plan
               PROVE  /\ ~prodFailed => Checked(c)
                      /\ rep.chunkMap[c] = IF Checked(c) /\ ~verdict[c].equal THEN 1 ELSE 0
                      /\ files[c] = IF Checked(c) /\ verdict[c].sqls THEN "full" ELSE "none"
    BY DEF CleanFinish
  <2>1. ~prodFailed => Checked(c)
    BY AllDone DEF SqlDone
  <2>2. /\ \A w \in Workers : worker[w].ph # "send"
        /\ sqlCh = <<>> /\ writer.node # c
    BY NothingInFlight, SyncDiffAssumption
  <2>3. ToldUnequal(c) <=> Checked(c) /\ ~verdict[c].equal
    BY <2>2 DEF ToldUnequal
  <2>4. rep.chunkMap[c] = IF Checked(c) /\ ~verdict[c].equal THEN 1 ELSE 0
    BY <2>3 DEF ReportInv, ReportCounts
  <2>5. files[c] = IF Checked(c) /\ verdict[c].sqls THEN "full" ELSE "none"
    BY <2>2 DEF FilesInv, KeptFiles, NewFiles, FileOf
  <2> QED BY <2>1, <2>4, <2>5
<1> QED
  BY <1>1, CheckpointInvariant, FlowInvariant, FilesInvariant, ReportInvariant, PTL

-----------------------------------------------------------------------------
(* The result of a run that began without a checkpoint.                    *)

\* A worker's step keeps a chunk good unless it is this worker's chunk and
\* the outcome is not.
LEMMA GoodWorker ==
    ASSUME NEW w \in Workers, NEW d, GoodSoFar(d),
           \A v \in Workers : v # w => worker'[v] = worker[v],
           worker'[w].node = d => /\ worker'[w].ph = "report" => ~worker'[w].out.err
                                  /\ worker'[w].ph = "send" => Good(worker'[w].out),
           UNCHANGED <<sqlCh, writer, verdict>>
    PROVE  GoodSoFar(d)'
  BY DEF GoodSoFar, Checked, Good

\* A good outcome goes through sqlCh unchanged.
LEMMA SendGood ==
    ASSUME TypeOK, NEW w \in Workers, ConsumeSend(w), NEW d \in Plan, GoodSoFar(d)
    PROVE  GoodSoFar(d)'
<1> DEFINE e == [node |-> worker[w].node, out |-> worker[w].out]
<1>1. /\ worker \in [Workers -> WorkerType] /\ sqlCh \in Seq(DMLType)
      /\ worker[w].node \in Plan /\ worker[w].ph = "send"
  BY SyncDiffAssumption
  DEF TypeOK, PoolType, SqlType, ConsumeSend, WorkerType, ChunkOrNil
<1>2. e \in DMLType /\ e.node = worker[w].node /\ e.out = worker[w].out
  BY <1>1 DEF DMLType, WorkerType
<1>3. /\ worker' = [worker EXCEPT ![w] = IdleWorker] /\ sqlCh' = Append(sqlCh, e)
      /\ UNCHANGED <<writer, verdict>>
  BY DEF ConsumeSend
<1> HIDE DEF e
<1>4. /\ worker'[w].ph = "idle" /\ \A v \in Workers : v # w => worker'[v] = worker[v]
  BY <1>1, <1>3 DEF IdleWorker
<1>5. \A i \in 1 .. Len(sqlCh') :
         (i \in 1 .. Len(sqlCh) /\ sqlCh'[i] = sqlCh[i]) \/ sqlCh'[i] = e
  BY <1>1, <1>2, <1>3
<1>6. \A i \in 1 .. Len(sqlCh') : sqlCh'[i].node = d => Good(sqlCh'[i].out)
  BY <1>1, <1>2, <1>5 DEF GoodSoFar
<1> QED BY <1>3, <1>4, <1>6 DEF GoodSoFar, Checked, Good

\* It is still good in the hands of writeSQLs.
LEMMA TakeGood ==
    ASSUME TypeOK, WriterTake, NEW d \in Plan, GoodSoFar(d)
    PROVE  GoodSoFar(d)'
<1>1. sqlCh \in Seq(DMLType) /\ sqlCh # <<>> /\ sqlCh' = Tail(sqlCh)
  BY DEF TypeOK, SqlType, WriterTake
<1>2. /\ \A i \in 1 .. Len(Tail(sqlCh)) :
            Tail(sqlCh)[i] = sqlCh[i + 1] /\ i + 1 \in 1 .. Len(sqlCh)
      /\ Head(sqlCh) = sqlCh[1] /\ 1 \in 1 .. Len(sqlCh)
  BY <1>1
<1>3. /\ writer'.node = Head(sqlCh).node /\ writer'.out = Head(sqlCh).out
      /\ UNCHANGED <<worker, verdict>>
  BY DEF WriterTake
<1>4. \A i \in 1 .. Len(sqlCh') : sqlCh'[i].node = d => Good(sqlCh'[i].out)
  BY <1>1, <1>2 DEF GoodSoFar
<1>5. writer'.node = d => Good(writer'.out)
  BY <1>2, <1>3 DEF GoodSoFar
<1> QED BY <1>3, <1>4, <1>5 DEF GoodSoFar, Checked, Good

\* And as a verdict.
LEMMA InsertGood ==
    ASSUME TypeOK, OnePlace, WriterInsert, NEW d \in Plan, GoodSoFar(d)
    PROVE  GoodSoFar(d)'
<1>1. writer.node \in Plan /\ Nil \notin Plan
  BY WritingUnchecked, SyncDiffAssumption DEF WriterInsert
<1>2. /\ verdict \in [Plan -> OutcomeType \cup {Nil}]
      /\ verdict' = [verdict EXCEPT ![writer.node] = writer.out]
      /\ UNCHANGED <<worker, sqlCh>> /\ writer'.node = Nil
  BY DEF TypeOK, DiskType, WriterInsert, IdleWriter
<1>3. /\ d = writer.node => verdict'[d] = writer.out
      /\ d # writer.node => verdict'[d] = verdict[d]
  BY <1>2
<1>4. Checked(d)' => Good(verdict'[d])
  BY <1>3 DEF GoodSoFar, Checked
<1> QED BY <1>1, <1>2, <1>4 DEF GoodSoFar, Good

\* Before Equal starts its goroutines no chunk has an outcome.
LEMMA NothingYet ==
    ASSUME FlowInv, pc = "struct", start = Nil, NEW c \in Plan
    PROVE  GoodSoFar(c)
<1>1. Quiet /\ OnePlace
  BY DEF FlowInv, PlaceInv, StartInv
<1>2. /\ worker = [w \in Workers |-> IdleWorker] /\ sqlCh = <<>>
      /\ writer.node = Nil /\ nextTable = 0 /\ Nil \notin Plan
  BY <1>1, SyncDiffAssumption DEF Quiet, IdleWriter
<1>3. At(c, "todo")
  BY <1>2, PlanFields DEF At, Todo, Behind
<1>4. ~Checked(c)
  BY <1>1, <1>3 DEF OnePlace, At, Stages
<1> QED BY <1>2, <1>4 DEF GoodSoFar, IdleWorker

\* Every step keeps the result honest: StructEqual finds nothing checked,
\* SetTableMeetError and SetTableDataCheckResult never leave "pass" standing
\* when an outcome is bad.
LEMMA ResultStep ==
    ASSUME TypeOK, FlowInv, ResultInv, [Next]_vars
    PROVE  ResultInv'
<1>0. /\ OnePlace /\ worker \in [Workers -> WorkerType] /\ rep \in ReportType
      /\ result \in Results
  BY DEF FlowInv, PlaceInv, TypeOK, PoolType
<1>1. CASE StartRun \/ StartRunFails \/ Dies
  <2>1. pc' \in {"down", "struct"}
    BY <1>1 DEF StartRun, StartRunFails, Dies, Volatile, mainVars
  <2> QED BY <2>1 DEF ResultInv
<1>2. CASE Calm
  <2>1. \A c : GoodSoFar(c)' <=> GoodSoFar(c)
    BY <1>2 DEF Calm, GoodSoFar, Checked, Good
  <2> QED BY <1>2, <2>1 DEF Calm, ResultInv
<1>3. CASE StructEqual
  <2> SUFFICES ASSUME start' = Nil
               PROVE  /\ rep'.lack = Lack
                      /\ result' = "pass" =>
                            /\ StructDiff \subseteq Lack
                            /\ \A c \in Plan : GoodSoFar(c)'
    BY DEF ResultInv
  <2>1. /\ start = Nil /\ pc = "struct" /\ StartIndex = 0
        /\ UNCHANGED <<worker, sqlCh, writer, verdict>>
    BY <1>3 DEF StructEqual, StartIndex, sqlVars
  <2>2. /\ rep' = SetTableStructCheckResult(rep, 0)
        /\ result' = ResultAfterStruct(result, 0)
    BY <1>3, <2>1 DEF StructEqual
  <2>3. \A t \in Tables : t >= 0
    BY PlanAssumption DEF Tables
  <2>4. rep'.lack = Lack
    BY <1>0, <2>2, <2>3, ReportAssumption DEF SetTableStructCheckResult, ReportType
  <2>5. result' = "pass" => StructDiff \subseteq Lack
    BY <2>2, <2>3, ReportAssumption DEF ResultAfterStruct
  <2>6. \A c \in Plan : GoodSoFar(c)'
    BY <2>1, NothingYet DEF GoodSoFar, Checked, Good
  <2> QED BY <2>4, <2>5, <2>6
<1>4. ASSUME NEW w \in Workers,
             Apply(w) \/ ConsumeEmpty(w) \/ ConsumeCompare(w) \/ ConsumeReport(w)
      PROVE  ResultInv'
  <2> DEFINE n == worker'[w].node
  <2>1. /\ UNCHANGED <<start, sqlCh, writer, verdict>> /\ rep'.lack = rep.lack
        /\ pc' \in {"down", "struct"} \/ pc \notin {"down", "struct"}
        /\ result' = "pass" => result = "pass"
        /\ \A v \in Workers : v # w => worker'[v] = worker[v]
    <3>1. CASE Apply(w)
      BY <1>0, <3>1 DEF Apply, sqlVars, repVars
    <3>2. CASE ConsumeCompare(w)
      BY <1>0, <3>2 DEF ConsumeCompare, ResultAfterError, mainVars, sqlVars
    <3>3. CASE ConsumeEmpty(w)
      BY <1>0, <3>3
      DEF ConsumeEmpty, ResultAfterData, SetTableDataCheckResult, mainVars, sqlVars,
          ReportType
    <3>4. CASE ConsumeReport(w)
      BY <1>0, <3>4
      DEF ConsumeReport, ResultAfterData, SetTableDataCheckResult, mainVars, sqlVars,
          ReportType
    <3> QED BY <1>4, <3>1, <3>2, <3>3, <3>4
  <2>2. ASSUME pc \notin {"down", "struct"}, start = Nil, result' = "pass",
               n \in Plan, n.table \notin Lack
        PROVE  /\ worker'[w].ph = "report" => ~worker'[w].out.err
               /\ worker'[w].ph = "send" => Good(worker'[w].out)
    <3>0. rep.lack = Lack /\ \A c \in Plan : c.table \notin Lack => GoodSoFar(c)
      BY <2>1, <2>2 DEF ResultInv
    <3>1. CASE Apply(w)
      <4>1. worker'[w].ph = "compare"
        BY <1>0, <3>1 DEF Apply, IdleWorker
      <4> QED BY <4>1
    <3>2. CASE ConsumeCompare(w)
      <4>1. PICK o \in Outcomes :
              /\ worker' = [worker EXCEPT ![w].ph = "report", ![w].out = o]
              /\ result' = ResultAfterError(result, o.err)
        BY <3>2 DEF ConsumeCompare
      <4>2. worker'[w].ph = "report" /\ worker'[w].out = o
        BY <1>0, <4>1 DEF WorkerType
      <4> QED BY <2>2, <4>1, <4>2 DEF ResultAfterError
    <3>3. CASE ConsumeEmpty(w)
      <4>1. /\ worker' = [worker EXCEPT ![w].ph = "send",
                             ![w].out = IF worker[w].node.table \in Lack THEN LackOutcome
                                        ELSE Skipped]
        BY <3>3 DEF ConsumeEmpty
      <4>2. n = worker[w].node /\ worker'[w].ph = "send"
        BY <1>0, <4>1 DEF WorkerType
      <4>3. worker'[w].out = Skipped
        BY <1>0, <2>2, <4>1, <4>2 DEF WorkerType
      <4> QED BY <4>2, <4>3 DEF Good, Skipped
    <3>4. CASE ConsumeReport(w)
      <4>1. /\ worker' = [worker EXCEPT ![w].ph = "send"] /\ worker[w].ph = "report"
            /\ result' = ResultAfterData(result, rep, worker[w].node, worker[w].out.equal)
        BY <3>4 DEF ConsumeReport
      <4>2. /\ n = worker[w].node /\ worker'[w].ph = "send"
            /\ worker'[w].out = worker[w].out
        BY <1>0, <4>1 DEF WorkerType
      <4>3. worker[w].out.equal
        BY <2>2, <3>0, <4>1, <4>2 DEF ResultAfterData
      <4>4. ~worker[w].out.err
        BY <2>2, <3>0, <4>1, <4>2 DEF GoodSoFar
      <4> QED BY <4>2, <4>3, <4>4 DEF Good
    <3> QED BY <1>4, <3>1, <3>2, <3>3, <3>4
  <2>3. ASSUME pc \notin {"down", "struct"}, start = Nil, result' = "pass",
               NEW c \in Plan, c.table \notin Lack
        PROVE  GoodSoFar(c)'
    <3>1. GoodSoFar(c)
      BY <2>1, <2>3 DEF ResultInv
    <3>2. n = c => /\ worker'[w].ph = "report" => ~worker'[w].out.err
                   /\ worker'[w].ph = "send" => Good(worker'[w].out)
      BY <2>2, <2>3
    <3> QED BY <2>1, <3>1, <3>2, GoodWorker
  <2> QED BY <2>1, <2>3 DEF ResultInv
<1>5. CASE \/ WriterTake \/ WriterInsert \/ CreatesFile \/ WriterWrite \/ WriterExit
           \/ SnapshotReport \/ SaveChunk \/ \E w \in Workers : ConsumeSend(w)
  <2>1. UNCHANGED <<pc, start, rep, result>>
    BY <1>5
    DEF WriterTake, WriterInsert, CreatesFile, WriterWrite, WriterExit, SnapshotReport,
        SaveChunk, ConsumeSend, mainVars, repVars
  <2>2. ASSUME NEW c \in Plan, GoodSoFar(c) PROVE GoodSoFar(c)'
    <3>1. CASE CreatesFile \/ WriterWrite \/ WriterExit
      <4>1. /\ UNCHANGED <<worker, sqlCh, verdict>>
            /\ writer'.node = writer.node /\ writer'.out = writer.out
        BY <3>1
        DEF CreatesFile, WriterWrite, WriterExit, TypeOK, SqlType, WriterType
      <4> QED BY <2>2, <4>1 DEF GoodSoFar, Checked, Good
    <3>2. CASE SnapshotReport \/ SaveChunk
      BY <2>2, <3>2 DEF SnapshotReport, SaveChunk, sqlVars, GoodSoFar, Checked, Good
    <3> QED BY <1>0, <1>5, <2>2, <3>1, <3>2, SendGood, TakeGood, InsertGood
  <2> QED BY <2>1, <2>2 DEF ResultInv
<1> QED BY <1>1, <1>2, <1>3, <1>4, <1>5, StepResults

\* ResultInv holds in every reachable state.
LEMMA ResultInvariant == Spec => []ResultInv
<1>1. Init => ResultInv
  BY DEF Init, ResultInv
<1>2. TypeOK /\ CheckpointInv /\ FlowInv /\ ResultInv /\ [Next]_vars => ResultInv'
  BY ResultStep
<1> QED BY <1>1, <1>2, CheckpointInvariant, FlowInvariant, PTL DEF Spec

\* A complete run that began without a checkpoint and still says "pass" has
\* found every table both sides have equal, in structure and data: no
\* overwritten Result and no report lost between consume and PrintSummary.
THEOREM FreshPassMeansEqual == Spec => []FreshPassIsEqual
<1>1. TypeOK /\ FlowInv /\ ResultInv => FreshPassIsEqual
  BY AllDone DEF SqlDone, ResultInv, GoodSoFar, Good, FreshPassIsEqual
<1> QED BY <1>1, CheckpointInvariant, FlowInvariant, ResultInvariant, PTL

-----------------------------------------------------------------------------
(* The check is a resumable scan.                                          *)

Mark == IF ckpt = Nil THEN Nil ELSE ckpt.node

\* Writing down a verdict is a finding on an item that had none.
LEMMA InsertFinds ==
    ASSUME TypeOK, OnePlace, WriterInsert
    PROVE  Scan!Find(writer.node)
<1>1. writer.node \in Plan /\ ~Checked(writer.node)
  BY WritingUnchecked DEF WriterInsert
<1>2. /\ writer.out \in OutcomeType
      /\ verdict' = [verdict EXCEPT ![writer.node] = writer.out] /\ UNCHANGED ckpt
  BY DEF WriterInsert, TypeOK, SqlType, WriterType
<1> QED BY <1>1, <1>2 DEF Scan!Find, Checked

\* A run that starts forgets the findings after the mark.
LEMMA StartLoses ==
    ASSUME TypeOK, StartRun
    PROVE  Scan!Lose
<1>1. /\ ckpt \in [node : Plan, rep : ReportType] \cup {Nil} /\ Nil \notin Plan
      /\ UNCHANGED ckpt
      /\ saved' = IF ckpt = Nil THEN InitNode ELSE ckpt.node
      /\ verdict' = [c \in Plan |-> IF ComparesLess(saved', c) THEN Nil ELSE verdict[c]]
  BY SyncDiffAssumption DEF TypeOK, DiskType, StartRun
<1>2. ASSUME NEW c \in Plan
      PROVE  ~ComparesLess(saved', c) <=> c \in Scan!UpToMark(Mark)
  <2>1. CASE ckpt = Nil
    BY <1>1, <2>1, InitNodeIsBefore DEF Scan!UpToMark, Mark
  <2>2. CASE ckpt # Nil
    <3>1. ckpt.node \in Plan /\ saved' = ckpt.node /\ Mark = ckpt.node /\ Mark # Nil
      BY <1>1, <2>2 DEF Mark
    <3>2. ~ComparesLess(ckpt.node, c) <=> ComparesLeq(c, ckpt.node)
      BY <3>1, CompareTotal DEF Nodes
    <3> QED BY <3>1, <3>2 DEF Scan!UpToMark
  <2> QED BY <2>1, <2>2
<1>3. verdict' = [c \in Plan |-> IF c \in Scan!UpToMark(Mark) THEN verdict[c] ELSE Nil]
  BY <1>1, <1>2
<1> QED BY <1>1, <1>3 DEF Scan!Lose, Mark

\* SaveChunk moves the mark to a later item with nothing unchecked before it.
LEMMA SaveSetsMark ==
    ASSUME TypeOK, CheckpointInv, FlowInv, SaveChunk
    PROVE  Scan!SetMark(ck.cur) /\ ck.cur \in Plan
<1>1. /\ ck.cur \in Plan /\ ck.cur = saved /\ pc # "down" /\ Nil \notin Plan
      /\ ckpt \in [node : Plan, rep : ReportType] \cup {Nil}
  BY SyncDiffAssumption, Active
  DEF SaveChunk, TypeOK, CpType, CkType, ChunkOrNil, CheckpointInv, DiskType, FlowInv,
      Equalling
<1>2. /\ ckpt' = [node |-> ck.cur, rep |-> ck.rep] /\ UNCHANGED verdict
      /\ ckpt'.node = ck.cur
  BY DEF SaveChunk
<1>3. ckpt' # Nil
  <2>1. ckpt' \in [node : Plan, rep : ReportType]
    BY <1>1, <1>2 DEF TypeOK, CpType, CkType
  <2> QED BY <2>1, SyncDiffAssumption
<1>4. \A c \in Scan!UpToMark(ck.cur) : verdict[c] # Nil
  BY <1>1 DEF Scan!UpToMark, CheckpointInv, CheckpointCovers, UpTo, Checked
<1>5. Scan!UpToMark(Mark) \subseteq Scan!UpToMark(ck.cur)
  <2>1. CASE ckpt = Nil
    BY <2>1 DEF Scan!UpToMark, Mark
  <2>2. CASE ckpt # Nil
    <3>1. ckpt.node \in Plan /\ Mark = ckpt.node /\ ComparesLeq(ckpt.node, ck.cur)
      BY <1>1, <2>2 DEF Mark, CheckpointInv
    <3>2. \A c \in Plan : ComparesLeq(c, ckpt.node) => ComparesLeq(c, ck.cur)
      BY <1>1, <3>1, CompareTransitive DEF Nodes
    <3> QED BY <1>1, <3>1, <3>2 DEF Scan!UpToMark
  <2> QED BY <2>1, <2>2
<1> QED BY <1>1, <1>2, <1>3, <1>4, <1>5 DEF Scan!SetMark, Mark

\* Every step of the check is a step of the scan or leaves mark and findings
\* alone.
LEMMA ScanStep ==
    ASSUME TypeOK, CheckpointInv, FlowInv, [Next]_vars
    PROVE  [Scan!ScanNext]_(Scan!scanVars)
<1>0. OnePlace /\ Nil \notin Plan
  BY SyncDiffAssumption DEF FlowInv, PlaceInv
<1>1. CASE StartRun
  BY <1>1, StartLoses DEF Scan!ScanNext
<1>2. CASE StartRunFails \/ Dies
  <2>1. ckpt' \in {ckpt, Nil} /\ UNCHANGED verdict
    BY <1>2 DEF StartRunFails, Dies
  <2>2. CASE ckpt' = Nil
    BY <2>1, <2>2 DEF Scan!ScanNext, Scan!DropMark
  <2> QED BY <2>1, <2>2 DEF Scan!scanVars
<1>3. CASE WriterInsert
  <2>1. writer.node \in Plan
    BY <1>0, <1>3, WritingUnchecked DEF WriterInsert
  <2> QED BY <1>0, <1>3, <2>1, InsertFinds DEF Scan!ScanNext
<1>4. CASE SaveChunk
  BY <1>4, SaveSetsMark DEF Scan!ScanNext
<1>5. CASE UNCHANGED <<ckpt, verdict>>
  BY <1>5 DEF Scan!scanVars
<1>6. Calm \/ CreatesFile \/ WriterWrite \/ WriterExit \/ WriterTake \/ SnapshotReport
      \/ StructEqual => UNCHANGED <<ckpt, verdict>>
  BY DEF Calm, CreatesFile, WriterWrite, WriterExit, WriterTake, SnapshotReport, StructEqual
<1>7. ASSUME NEW w \in Workers,
             \/ Apply(w) \/ ConsumeEmpty(w) \/ ConsumeCompare(w) \/ ConsumeReport(w)
             \/ ConsumeSend(w)
      PROVE  UNCHANGED <<ckpt, verdict>>
  BY <1>7 DEF Apply, ConsumeEmpty, ConsumeCompare, ConsumeReport, ConsumeSend
<1> QED BY <1>1, <1>2, <1>3, <1>4, <1>5, <1>6, <1>7, StepResults

\* The data check, with its goroutines, channels, heap and files, implements
\* the resumable scan: a verdict the checkpoint covers is never revised or
\* lost, and the checkpoint never stands before an unchecked chunk.
THEOREM ScanImplemented == Spec => ImplementsScan
<1>1. Init => Scan!ScanInit
  BY DEF Init, Scan!ScanInit
<1>2. TypeOK /\ CheckpointInv /\ FlowInv /\ [Next]_vars => [Scan!ScanNext]_(Scan!scanVars)
  BY ScanStep
<1> QED
  BY <1>1, <1>2, CheckpointInvariant, FlowInvariant, PTL
  DEF Spec, ImplementsScan, Scan!ScanSpec
=============================================================================
