--------------------------- MODULE SyncDiffProofs ---------------------------
(***************************************************************************)
(* Proofs about the data check, for every plan of tables and chunks, every *)
(* number of workers and runs and every capacity of the channels: first    *)
(* the order of the chunks of a plan, then types, the checkpoint and what  *)
(* it covers.                                                              *)
(***************************************************************************)
EXTENDS SyncDiffProperties, TLAPS

-----------------------------------------------------------------------------
(* Chunks of a plan and the order of their ids.                            *)

\* A chunk of the plan is the Empty chunk of its table or the i-th chunk of
\* one of its table's groups.
LEMMA PlanElim ==
    ASSUME NEW c \in Plan
    PROVE  /\ c.table \in Tables
           /\ \/ Split[c.table] = "empty" /\ c = EmptyChunk(c.table)
              \/ /\ Split[c.table] # "empty"
                 /\ \E k \in 1 .. Len(Groups[c.table]) :
                       \E i \in 0 .. (GroupSize(Groups[c.table][k]) - 1) :
                          c = ChunkOf(c.table, k, i)
<1>1. PICK t \in Tables : c \in ChunksOf(t)
  BY DEF Plan
<1>2. CASE Split[t] = "empty"
  <2>1. c = EmptyChunk(t)
    BY <1>1, <1>2 DEF ChunksOf
  <2>2. c.table = t
    BY <2>1 DEF EmptyChunk
  <2> QED BY <1>2, <2>1, <2>2
<1>3. CASE Split[t] # "empty"
  <2>1. PICK k \in 1 .. Len(Groups[t]) : c \in GroupChunks(t, k)
    BY <1>1, <1>3 DEF ChunksOf
  <2>2. PICK i \in 0 .. (GroupSize(Groups[t][k]) - 1) : c = ChunkOf(t, k, i)
    BY <2>1 DEF GroupChunks
  <2>3. c.table = t
    BY <2>2 DEF ChunkOf
  <2> QED BY <1>3, <2>2, <2>3
<1> QED BY <1>2, <1>3

\* A group's bucket interval and chunk counts are natural numbers.
LEMMA GroupFacts ==
    ASSUME NEW t \in Tables, NEW k \in 1 .. Len(Groups[t])
    PROVE  /\ Groups[t][k].left \in Nat
           /\ Groups[t][k].right \in Nat
           /\ Groups[t][k].cnt \in Nat
           /\ GroupSize(Groups[t][k]) \in Nat \ {0}
           /\ GroupSize(Groups[t][k]) >= Groups[t][k].cnt
<1>1. Groups[t] \in Seq(GroupType)
  BY PlanAssumption
<1>2. Groups[t][k] \in GroupType
  BY <1>1
<1> QED BY <1>2 DEF GroupType, GroupSize

\* The numbers and flags of a chunk of the plan.
LEMMA PlanFields ==
    ASSUME NEW c \in Plan
    PROVE  /\ c.table \in Nat /\ c.table < NTables
           /\ c.left \in Nat /\ c.right \in Nat /\ c.index \in Nat /\ c.cnt \in Nat
<1>1. c.table \in Nat /\ c.table < NTables
  BY PlanElim, PlanAssumption DEF Tables
<1>2. CASE c = EmptyChunk(c.table)
  BY <1>1, <1>2 DEF EmptyChunk
<1>3. ASSUME NEW k \in 1 .. Len(Groups[c.table]),
             NEW i \in 0 .. (GroupSize(Groups[c.table][k]) - 1),
             c = ChunkOf(c.table, k, i)
      PROVE  /\ c.left \in Nat /\ c.right \in Nat /\ c.index \in Nat /\ c.cnt \in Nat
  <2>1. c.table \in Tables
    BY PlanElim
  <2>2. /\ c.left = Groups[c.table][k].left /\ c.right = Groups[c.table][k].right
        /\ c.index = i /\ c.cnt = Groups[c.table][k].cnt
    BY <1>3 DEF ChunkOf
  <2> QED BY <2>1, <2>2, GroupFacts
<1> QED BY <1>1, <1>2, <1>3, PlanElim

\* In one table two chunks belong to the same group, or all buckets of one
\* are before all buckets of the other.
LEMMA GroupsApart ==
    ASSUME NEW t \in Tables,
           NEW j \in 1 .. Len(Groups[t]), NEW k \in 1 .. Len(Groups[t]),
           Groups[t][j].left <= Groups[t][k].right,
           Groups[t][k].left <= Groups[t][j].right
    PROVE  j = k
<1>1. Len(Groups[t]) \in Nat
  BY PlanAssumption
<1>2. /\ j < k => Groups[t][j].right < Groups[t][k].left
      /\ k < j => Groups[t][k].right < Groups[t][j].left
  BY PlanAssumption
<1>3. /\ Groups[t][j].left \in Nat /\ Groups[t][j].right \in Nat
      /\ Groups[t][k].left \in Nat /\ Groups[t][k].right \in Nat
  BY GroupFacts
<1> QED BY <1>1, <1>2, <1>3

\* The id of a chunk determines the chunk: what Compare calls equal is equal.
LEMMA IdDetermines ==
    ASSUME NEW c \in Plan, NEW d \in Plan,
           c.table = d.table, c.left = d.left, c.index = d.index
    PROVE  c = d
<1>1. c.table \in Tables
  BY PlanElim
<1>2. CASE Split[c.table] = "empty"
  BY <1>2, PlanElim
<1>3. CASE Split[c.table] # "empty"
  <2>1. PICK k \in 1 .. Len(Groups[c.table]) :
          \E i \in 0 .. (GroupSize(Groups[c.table][k]) - 1) : c = ChunkOf(c.table, k, i)
    BY <1>3, PlanElim
  <2>2. PICK m \in 1 .. Len(Groups[c.table]) :
          \E i \in 0 .. (GroupSize(Groups[c.table][m]) - 1) : d = ChunkOf(c.table, m, i)
    BY <1>3, PlanElim
  <2>3. c.left = Groups[c.table][k].left /\ d.left = Groups[c.table][m].left
    BY <2>1, <2>2 DEF ChunkOf
  <2>4. /\ Groups[c.table][k].left <= Groups[c.table][k].right
        /\ Groups[c.table][m].left <= Groups[c.table][m].right
    BY <1>1, PlanAssumption
  <2>5. k = m
    <3>1. /\ Groups[c.table][k].left \in Nat /\ Groups[c.table][k].right \in Nat
          /\ Groups[c.table][m].left \in Nat /\ Groups[c.table][m].right \in Nat
      BY <1>1, GroupFacts
    <3> QED BY <1>1, <2>3, <2>4, <3>1, GroupsApart
  <2>6. c = ChunkOf(c.table, k, c.index)
    BY <2>1 DEF ChunkOf
  <2>7. d = ChunkOf(c.table, m, d.index)
    BY <2>2 DEF ChunkOf
  <2> QED BY <2>5, <2>6, <2>7
<1> QED BY <1>2, <1>3

-----------------------------------------------------------------------------
\* The nodes a checkpoint can stand on: a chunk, or the node before them all.
Nodes == Plan \cup {InitNode}

LEMMA NodeFields ==
    ASSUME NEW n \in Nodes
    PROVE  n.table \in Int /\ n.left \in Int /\ n.index \in Int
<1>1. CASE n \in Plan
  BY <1>1, PlanFields
<1>2. CASE n = InitNode
  BY <1>2 DEF InitNode
<1> QED BY <1>1, <1>2 DEF Nodes

\* Compare is a total order on nodes.
LEMMA CompareTotal ==
    ASSUME NEW n \in Nodes, NEW m \in Nodes
    PROVE  /\ ComparesLess(n, m) <=> ~ComparesLeq(m, n)
           /\ ComparesLeq(n, n)
  BY NodeFields DEF ComparesLess, ComparesLeq

LEMMA CompareTransitive ==
    ASSUME NEW n \in Nodes, NEW m \in Nodes, NEW o \in Nodes,
           ComparesLeq(n, m), ComparesLeq(m, o)
    PROVE  ComparesLeq(n, o)
  BY NodeFields DEF ComparesLess, ComparesLeq

LEMMA CompareAntisymmetric ==
    ASSUME NEW c \in Plan, NEW d \in Plan, ComparesLeq(c, d), ComparesLeq(d, c)
    PROVE  c = d
<1>1. c.table = d.table /\ c.left = d.left /\ c.index = d.index
  BY PlanFields DEF ComparesLess, ComparesLeq
<1> QED BY <1>1, IdDetermines

\* No chunk is at or before the node a fresh checkpoint starts from.
LEMMA InitNodeIsBefore ==
    ASSUME NEW c \in Plan
    PROVE  ComparesLess(InitNode, c)
  BY PlanFields DEF InitNode, ComparesLess

\* The heap is ordered as the ids are.
LEMMA IsLessIsCompare ==
    ASSUME NEW c \in Plan, NEW d \in Plan
    PROVE  IsLess(c, d) <=> ComparesLess(c, d)
  BY PlanFields DEF IsLess, ComparesLess

\* In a table that is compared, a chunk with its group and its place in it.
LEMMA GroupOfChunk ==
    ASSUME NEW c \in Plan, Split[c.table] # "empty"
    PROVE  \E k \in 1 .. Len(Groups[c.table]) :
              /\ c.left = Groups[c.table][k].left
              /\ c.right = Groups[c.table][k].right
              /\ c.cnt = Groups[c.table][k].cnt
              /\ c.index \in 0 .. (GroupSize(Groups[c.table][k]) - 1)
              /\ IsFirstChunkForTable(c) => k = 1 /\ c.index = 0
              /\ IsLastChunkForTable(c) =>
                    /\ k = Len(Groups[c.table])
                    /\ c.index = GroupSize(Groups[c.table][k]) - 1
<1>1. PICK k \in 1 .. Len(Groups[c.table]) :
        \E i \in 0 .. (GroupSize(Groups[c.table][k]) - 1) : c = ChunkOf(c.table, k, i)
  BY PlanElim
<1>2. PICK i \in 0 .. (GroupSize(Groups[c.table][k]) - 1) : c = ChunkOf(c.table, k, i)
  BY <1>1
<1>3. /\ c.left = Groups[c.table][k].left
      /\ c.right = Groups[c.table][k].right
      /\ c.cnt = Groups[c.table][k].cnt
      /\ c.index = i
  BY <1>2 DEF ChunkOf
<1>4. c.table \in Tables
  BY PlanElim
<1>5. Len(Groups[c.table]) \in Nat /\ GroupSize(Groups[c.table][k]) \in Nat
  BY <1>4, GroupFacts, PlanAssumption
<1>6. IsFirstChunkForTable(c) => ~(k > 1 \/ i > 0)
  <2>1. c.isFirst = FALSE /\ c.hasLower = (k > 1 \/ i > 0)
    BY <1>2 DEF ChunkOf
  <2> QED BY ONLY <2>1, Zenon DEF IsFirstChunkForTable
<1>7. IsLastChunkForTable(c) =>
        ~(k < Len(Groups[c.table]) \/ i < GroupSize(Groups[c.table][k]) - 1)
  <2>1. /\ c.isLast = FALSE
        /\ c.hasUpper = (k < Len(Groups[c.table])
                         \/ i < GroupSize(Groups[c.table][k]) - 1)
    BY <1>2 DEF ChunkOf
  <2> QED BY ONLY <2>1, Zenon DEF IsLastChunkForTable
<1> QED BY <1>3, <1>5, <1>6, <1>7

\* Nothing of the table comes before a chunk that IsFirstChunkForTable.
LEMMA FirstForTable ==
    ASSUME NEW c \in Plan, NEW d \in Plan, c.table = d.table, IsFirstChunkForTable(c)
    PROVE  ComparesLeq(c, d)
<1>0. c.table \in Tables /\ Len(Groups[c.table]) \in Nat
  BY PlanElim, PlanAssumption
<1>1. CASE Split[c.table] = "empty"
  <2>1. c = d
    BY <1>1, PlanElim
  <2> QED BY <2>1, CompareTotal DEF Nodes
<1>2. CASE Split[c.table] # "empty"
  <2>1. PICK k \in 1 .. Len(Groups[c.table]) :
          c.left = Groups[c.table][k].left /\ k = 1 /\ c.index = 0
    BY <1>2, GroupOfChunk
  <2>2. PICK j \in 1 .. Len(Groups[c.table]) : d.left = Groups[c.table][j].left
    BY <1>2, GroupOfChunk
  <2>3. k = 1 /\ c.index = 0
    BY <2>1
  <2>4. c.left <= d.left
    <3>1. Groups[c.table][1].left <= Groups[c.table][1].right
      BY <1>0, <2>3, PlanAssumption
    <3>2. 1 < j => Groups[c.table][1].right < Groups[c.table][j].left
      BY <1>0, <2>3, PlanAssumption
    <3>3. /\ Groups[c.table][1].left \in Nat /\ Groups[c.table][1].right \in Nat
          /\ Groups[c.table][j].left \in Nat
      BY <1>0, <2>3, GroupFacts
    <3> QED BY <1>0, <2>1, <2>2, <2>3, <3>1, <3>2, <3>3
  <2> QED BY <2>3, <2>4, PlanFields DEF ComparesLeq, ComparesLess
<1> QED BY <1>1, <1>2

\* Nothing of the table comes after a chunk that IsLastChunkForTable.
LEMMA LastForTable ==
    ASSUME NEW c \in Plan, NEW d \in Plan, c.table = d.table, IsLastChunkForTable(c)
    PROVE  ComparesLeq(d, c)
<1>0. c.table \in Tables /\ Len(Groups[c.table]) \in Nat
  BY PlanElim, PlanAssumption
<1>1. CASE Split[c.table] = "empty"
  <2>1. c = d
    BY <1>1, PlanElim
  <2> QED BY <2>1, CompareTotal DEF Nodes
<1>2. CASE Split[c.table] # "empty"
  <2>1. PICK k \in 1 .. Len(Groups[c.table]) :
          /\ c.left = Groups[c.table][k].left
          /\ c.index \in 0 .. (GroupSize(Groups[c.table][k]) - 1)
          /\ k = Len(Groups[c.table])
          /\ c.index = GroupSize(Groups[c.table][k]) - 1
    BY <1>2, GroupOfChunk
  <2>2. PICK j \in 1 .. Len(Groups[c.table]) :
          /\ d.left = Groups[c.table][j].left
          /\ d.index \in 0 .. (GroupSize(Groups[c.table][j]) - 1)
    BY <1>2, GroupOfChunk
  <2>3. /\ GroupSize(Groups[c.table][k]) \in Nat
        /\ Groups[c.table][k].left \in Nat
        /\ Groups[c.table][j].left \in Nat /\ Groups[c.table][j].right \in Nat
    BY <1>0, GroupFacts
  <2>4. k = Len(Groups[c.table]) /\ c.index = GroupSize(Groups[c.table][k]) - 1
    BY <2>1
  <2>5. CASE j = k
    BY <2>1, <2>2, <2>3, <2>4, <2>5, PlanFields DEF ComparesLeq, ComparesLess
  <2>6. CASE j < k
    <3>1. Groups[c.table][j].left <= Groups[c.table][j].right
      BY <1>0, PlanAssumption
    <3>2. Groups[c.table][j].right < Groups[c.table][k].left
      BY <1>0, <2>6, PlanAssumption
    <3>3. d.left < c.left
      BY <2>1, <2>2, <2>3, <3>1, <3>2
    <3> QED BY <3>3 DEF ComparesLeq, ComparesLess
  <2> QED BY <1>0, <2>4, <2>5, <2>6
<1> QED BY <1>1, <1>2

\* IsAdjacent is the successor of the order Compare: next comes after n, and
\* every chunk up to next is next itself or already at or before n.  This is
\* what lets GetChunkSnapshot move the checkpoint one node at a time.
THEOREM AdjacentIsSuccessor ==
    ASSUME NEW n \in Nodes, NEW next \in Plan, IsAdjacent(n, next)
    PROVE  /\ ComparesLess(n, next)
           /\ \A c \in Plan : ComparesLeq(c, next) => c = next \/ ComparesLeq(c, n)
<1>1. CASE n = InitNode
  <2>1. next.table = 0 /\ IsFirstChunkForTable(next)
    BY <1>1, PlanFields DEF IsAdjacent, InitNode
  <2>2. ASSUME NEW c \in Plan, ComparesLeq(c, next)
        PROVE  c = next
    <3>1. c.table = next.table
      BY <2>1, <2>2, PlanFields DEF ComparesLeq, ComparesLess
    <3> QED BY <2>1, <2>2, <3>1, FirstForTable, CompareAntisymmetric
  <2> QED BY <1>1, <2>2, InitNodeIsBefore
<1>2. CASE n \in Plan /\ n.table = next.table - 1
  <2>1. IsLastChunkForTable(n) /\ IsFirstChunkForTable(next)
    BY <1>2, PlanFields DEF IsAdjacent
  <2>2. ComparesLess(n, next)
    BY <1>2, PlanFields DEF ComparesLess
  <2>3. ASSUME NEW c \in Plan, ComparesLeq(c, next)
        PROVE  c = next \/ ComparesLeq(c, n)
    <3>1. CASE c.table = next.table
      BY <2>1, <2>3, <3>1, FirstForTable, CompareAntisymmetric
    <3>2. CASE c.table = n.table
      BY <1>2, <2>1, <3>2, LastForTable
    <3>3. CASE c.table < n.table
      BY <3>3 DEF ComparesLeq, ComparesLess
    <3> QED BY <1>2, <2>3, <3>1, <3>2, <3>3, PlanFields DEF ComparesLeq, ComparesLess
  <2> QED BY <2>2, <2>3
<1>3. CASE n \in Plan /\ n.table = next.table /\ Split[n.table] = "empty"
  <2>1. n = next /\ n = EmptyChunk(n.table)
    BY <1>3, PlanElim
  <2>2. n.left = 0 /\ n.right = 0 /\ n.index = 0
    BY <2>1 DEF EmptyChunk
  <2>3. FALSE
    BY <1>3, <2>1, <2>2, PlanFields DEF IsAdjacent
  <2> QED BY <2>3
<1>4. CASE n \in Plan /\ n.table = next.table /\ Split[n.table] # "empty"
  <2>0. n.table \in Tables
    BY <1>4, PlanElim
  <2>1. PICK j \in 1 .. Len(Groups[n.table]) :
          /\ n.left = Groups[n.table][j].left /\ n.right = Groups[n.table][j].right
          /\ n.cnt = Groups[n.table][j].cnt
          /\ n.index \in 0 .. (GroupSize(Groups[n.table][j]) - 1)
    BY <1>4, GroupOfChunk
  <2>2. n.left <= n.right
    BY <2>0, <2>1, PlanAssumption
  <2>3. CASE /\ n.right = next.left - 1
             /\ IsLastChunkForBucket(n) /\ IsFirstChunkForBucket(next)
    <3>1. n.left < next.left
      BY <1>4, <2>2, <2>3, PlanFields
    <3>2. ASSUME NEW c \in Plan, ComparesLeq(c, next)
          PROVE  c = next \/ ComparesLeq(c, n)
      <4>1. CASE c.table < next.table
        BY <1>4, <4>1 DEF ComparesLeq, ComparesLess
      <4>2. CASE c.table = next.table /\ c.left = next.left
        <5>1. c.index = next.index
          BY <2>3, <3>2, <4>2, PlanFields
            DEF ComparesLeq, ComparesLess, IsFirstChunkForBucket
        <5> QED BY <4>2, <5>1, IdDetermines
      <4>3. CASE c.table = next.table /\ c.left < next.left
        <5>0. c.table = n.table /\ Split[c.table] # "empty"
          BY <1>4, <4>3
        <5>1. PICK k \in 1 .. Len(Groups[n.table]) :
                /\ c.left = Groups[n.table][k].left /\ c.right = Groups[n.table][k].right
                /\ c.index \in 0 .. (GroupSize(Groups[n.table][k]) - 1)
          BY <5>0, GroupOfChunk
        <5>2. c.left <= n.right
          BY <2>3, <4>3, <1>4, PlanFields
        <5>3. CASE n.left <= c.right
          <6>1. j = k
            BY <2>0, <2>1, <5>1, <5>2, <5>3, GroupsApart
          <6>2. GroupSize(Groups[n.table][j]) = n.cnt
            BY <2>0, <2>1, <2>3, PlanFields, GroupFacts DEF GroupSize, IsLastChunkForBucket
          <6>3. c.left = n.left /\ c.index <= n.index
            BY <1>4, <2>1, <2>3, <5>1, <6>1, <6>2, PlanFields DEF IsLastChunkForBucket
          <6> QED BY <1>4, <4>3, <6>3, PlanFields DEF ComparesLeq, ComparesLess
        <5>4. CASE c.right < n.left
          <6>1. c.left <= c.right
            BY <2>0, <5>1, PlanAssumption
          <6> QED BY <1>4, <4>3, <5>4, <6>1, PlanFields DEF ComparesLeq, ComparesLess
        <5> QED BY <1>4, <5>3, <5>4, PlanFields
      <4> QED BY <3>2, <4>1, <4>2, <4>3, PlanFields DEF ComparesLeq, ComparesLess
    <3> QED BY <1>4, <3>1, <3>2 DEF ComparesLess
  <2>4. CASE n.left = next.left /\ n.index = next.index - 1
    <3>1. ASSUME NEW c \in Plan, ComparesLeq(c, next)
          PROVE  c = next \/ ComparesLeq(c, n)
      <4>1. CASE c.table = next.table /\ c.left = next.left /\ c.index = next.index
        BY <4>1, IdDetermines
      <4>2. CASE ComparesLess(c, next)
        BY <1>4, <2>4, <4>2, PlanFields DEF ComparesLeq, ComparesLess
      <4> QED BY <3>1, <4>1, <4>2 DEF ComparesLeq
    <3> QED BY <1>4, <2>4, <3>1, PlanFields DEF ComparesLess
  <2> QED BY <1>4, <2>3, <2>4, PlanFields DEF IsAdjacent
<1> QED BY <1>1, <1>2, <1>3, <1>4, PlanFields DEF IsAdjacent, Nodes

-----------------------------------------------------------------------------
(* Types of what the operators return.                                     *)

LEMMA ChunkOfInPlan ==
    ASSUME NEW t \in Tables, Split[t] # "empty", NEW k \in 1 .. Len(Groups[t]),
           NEW i \in 0 .. (GroupSize(Groups[t][k]) - 1)
    PROVE  ChunkOf(t, k, i) \in Plan
<1>1. ChunkOf(t, k, i) \in GroupChunks(t, k)
  BY DEF GroupChunks
<1>2. ChunkOf(t, k, i) \in ChunksOf(t)
  BY <1>1 DEF ChunksOf
<1> QED BY <1>2 DEF Plan

LEMMA EmptyInPlan ==
    ASSUME NEW t \in Tables, Split[t] = "empty"
    PROVE  EmptyChunk(t) \in Plan
<1>1. EmptyChunk(t) \in ChunksOf(t)
  BY DEF ChunksOf
<1> QED BY <1>1 DEF Plan

\* A slice that begins inside its group is a non-empty sequence of chunks.
LEMMA SliceInPlan ==
    ASSUME NEW t \in Tables, Split[t] # "empty", NEW k \in 1 .. Len(Groups[t]),
           NEW i \in 0 .. (GroupSize(Groups[t][k]) - 1)
    PROVE  SliceOf(t, k, i) \in Seq(Plan) \ {<<>>}
<1> DEFINE n == GroupSize(Groups[t][k])
<1>1. n \in Nat
  BY GroupFacts
<1>2. \A j \in 1 .. (n - i) : i + j - 1 \in 0 .. (n - 1)
  BY <1>1
<1>3. \A j \in 1 .. (n - i) : ChunkOf(t, k, i + j - 1) \in Plan
  BY <1>2, ChunkOfInPlan
<1>4. n - i \in Nat /\ n - i >= 1
  BY <1>1
<1>5. SliceOf(t, k, i) \in [1 .. (n - i) -> Plan]
  BY <1>3 DEF SliceOf
<1>6. SliceOf(t, k, i) \in Seq(Plan) /\ Len(SliceOf(t, k, i)) = n - i
  BY <1>4, <1>5
<1> QED BY <1>4, <1>6

LEMMA AllSlicesType ==
    ASSUME NEW t \in Tables
    PROVE  AllSlices(t) \subseteq Seq(Plan) \ {<<>>}
<1>1. CASE Split[t] = "empty"
  BY <1>1, EmptyInPlan DEF AllSlices
<1>2. CASE Split[t] # "empty"
  <2>1. \A k \in 1 .. Len(Groups[t]) : 0 \in 0 .. (GroupSize(Groups[t][k]) - 1)
    BY GroupFacts
  <2> QED BY <1>2, <2>1, SliceInPlan DEF AllSlices
<1> QED BY <1>1, <1>2

LEMMA RestSlicesType ==
    ASSUME NEW c \in Plan
    PROVE  RestSlices(c) \subseteq Seq(Plan) \ {<<>>}
<1>1. CASE IsLastChunkForTable(c)
  BY <1>1 DEF RestSlices
<1>2. CASE ~IsLastChunkForTable(c)
  <2>1. c.table \in Tables
    BY PlanElim
  <2>2. Split[c.table] # "empty"
    <3>1. SUFFICES ASSUME c = EmptyChunk(c.table) PROVE FALSE
      BY PlanElim
    <3>2. c.isLast = TRUE
      BY <3>1 DEF EmptyChunk
    <3> QED BY <1>2, <3>2 DEF IsLastChunkForTable
  <2>3. ASSUME NEW k \in 1 .. Len(Groups[c.table])
        PROVE  SliceOf(c.table, k, 0) \in Seq(Plan) \ {<<>>}
    <3>1. 0 \in 0 .. (GroupSize(Groups[c.table][k]) - 1)
      BY <2>1, GroupFacts
    <3> QED BY <2>1, <2>2, <3>1, SliceInPlan
  <2>4. ASSUME NEW k \in 1 .. Len(Groups[c.table]),
               Groups[c.table][k].left = c.left, c.cnt - c.index - 1 > 0
        PROVE  SliceOf(c.table, k, c.index + 1) \in Seq(Plan) \ {<<>>}
    <3>1. PICK j \in 1 .. Len(Groups[c.table]) :
            c.left = Groups[c.table][j].left /\ c.cnt = Groups[c.table][j].cnt
      BY <2>2, GroupOfChunk
    <3>2. j = k
      <4>1. /\ Groups[c.table][j].left <= Groups[c.table][j].right
            /\ Groups[c.table][k].left <= Groups[c.table][k].right
        BY <2>1, PlanAssumption
      <4>2. /\ Groups[c.table][j].left \in Nat /\ Groups[c.table][j].right \in Nat
            /\ Groups[c.table][k].left \in Nat /\ Groups[c.table][k].right \in Nat
        BY <2>1, GroupFacts
      <4> QED BY <2>1, <2>4, <3>1, <4>1, <4>2, GroupsApart
    <3>3. c.index + 1 \in 0 .. (GroupSize(Groups[c.table][k]) - 1)
      <4> DEFINE size == GroupSize(Groups[c.table][k])
      <4>1. c.index \in Nat /\ c.cnt \in Nat
        BY PlanFields
      <4>2. size \in Nat /\ size >= Groups[c.table][k].cnt
        BY <2>1, GroupFacts
      <4>3. size >= c.cnt
        BY <3>1, <3>2, <4>2
      <4> HIDE DEF size
      <4>4. c.index + 1 \in 0 .. (size - 1)
        BY <2>4, <4>1, <4>2, <4>3
      <4> QED BY <4>4 DEF size
    <3> QED BY <2>1, <2>2, <3>3, SliceInPlan
  <2> QED BY <1>2, <2>3, <2>4 DEF RestSlices
<1> QED BY <1>1, <1>2

\* The operations of the report yield reports.
LEMMA ReportTypes ==
    ASSUME NEW r \in ReportType, NEW c \in Plan, NEW from \in Nat, NEW eq \in BOOLEAN
    PROVE  /\ InitReport \in ReportType
           /\ SetTableStructCheckResult(r, from) \in ReportType
           /\ SetTableDataCheckResult(r, c, eq) \in ReportType
           /\ GetSnapshot(r, c) \in ReportType
<1>1. c.table \in Tables
  BY PlanElim
<1>2. InitReport \in ReportType
  BY DEF InitReport, ReportType
<1>3. SetTableStructCheckResult(r, from) \in ReportType
  BY DEF SetTableStructCheckResult, ReportType
<1>4. SetTableDataCheckResult(r, c, eq) \in ReportType
  <2> DEFINE d == [r.dataEqual EXCEPT ![c.table] = FALSE]
             m == [r.chunkMap EXCEPT ![c] = @ + 1]
  <2>1. d \in [Tables -> BOOLEAN]
    <3>1. r.dataEqual \in [Tables -> BOOLEAN]
      BY DEF ReportType
    <3> QED BY <1>1, <3>1
  <2>2. m \in [Plan -> Nat]
    <3>1. r.chunkMap \in [Plan -> Nat]
      BY DEF ReportType
    <3> QED BY <3>1
  <2>3. SetTableDataCheckResult(r, c, eq) =
           IF eq THEN r ELSE [r EXCEPT !.dataEqual = d, !.chunkMap = m]
    BY DEF SetTableDataCheckResult
  <2> HIDE DEF d, m
  <2> QED BY <2>1, <2>2, <2>3 DEF ReportType
<1>5. GetSnapshot(r, c) \in ReportType
  BY <1>1 DEF GetSnapshot, ReportType
<1> QED BY <1>2, <1>3, <1>4, <1>5
-----------------------------------------------------------------------------
(* Type correctness.                                                       *)

LEMMA NoProducerType == NoProducer \in ProducerType
<1>1. <<>> \in Seq(Plan) /\ {} \in SUBSET (Seq(Plan) \ {<<>>})
  OBVIOUS
<1> QED BY <1>1 DEF NoProducer, ProducerType

LEMMA VolatileType ==
    ASSUME Volatile
    PROVE  /\ MainType' /\ IterType' /\ PoolType' /\ SqlType' /\ CpType'
           /\ rep' \in ReportType /\ result' \in Results
<1>0. InitReport \in ReportType
  BY DEF InitReport, ReportType
<1>1. MainType'
  BY DEF Volatile, MainType, ChunkOrNil
<1>2. IterType'
  <2>1. NTables \in Nat
    BY PlanAssumption
  <2>2. prod' \in [Tables -> ProducerType]
    BY NoProducerType DEF Volatile
  <2>3. /\ nextTable' = 0 /\ chunksCh' = <<>> /\ errCh' = 0
        /\ chunksOpen' \in BOOLEAN /\ prodFailed' \in BOOLEAN
    BY DEF Volatile
  <2>4. <<>> \in Seq(Plan)
    OBVIOUS
  <2> QED BY <2>1, <2>2, <2>3, <2>4 DEF IterType
<1>3. PoolType'
  BY DEF Volatile, PoolType, IdleWorker, WorkerType, ChunkOrNil, Skipped, OutcomeType
<1>4. SqlType'
  BY DEF Volatile, SqlType, IdleWriter, WriterType, ChunkOrNil, Skipped, OutcomeType
<1>5. CpType'
  BY <1>0 DEF Volatile, CpType, IdleCk, CkType, ChunkOrNil
<1> QED BY <1>0, <1>1, <1>2, <1>3, <1>4, <1>5 DEF Volatile, Results

LEMMA InitType == Init => TypeOK
<1> SUFFICES ASSUME Init PROVE TypeOK
  OBVIOUS
<1>0. InitReport \in ReportType
  BY DEF InitReport, ReportType
<1>1. MainType
  BY DEF Init, MainType, ChunkOrNil
<1>2. IterType
  <2>1. NTables \in Nat
    BY PlanAssumption
  <2>2. prod \in [Tables -> ProducerType]
    BY NoProducerType DEF Init
  <2>3. /\ nextTable = 0 /\ chunksCh = <<>> /\ errCh = 0
        /\ chunksOpen \in BOOLEAN /\ prodFailed \in BOOLEAN
    BY DEF Init
  <2>4. <<>> \in Seq(Plan)
    OBVIOUS
  <2> QED BY <2>1, <2>2, <2>3, <2>4 DEF IterType
<1>3. PoolType
  BY DEF Init, PoolType, IdleWorker, WorkerType, ChunkOrNil, Skipped, OutcomeType
<1>4. SqlType
  BY DEF Init, SqlType, IdleWriter, WriterType, ChunkOrNil, Skipped, OutcomeType
<1>5. CpType
  BY <1>0 DEF Init, CpType, IdleCk, CkType, ChunkOrNil
<1>6. DiskType
  BY SyncDiffAssumption DEF Init, DiskType
<1> QED BY <1>0, <1>1, <1>2, <1>3, <1>4, <1>5, <1>6 DEF Init, TypeOK, Results

\* Leaving a group of variables alone leaves its part of the type invariant.
LEMMA TypeUnchanged ==
    ASSUME TypeOK
    PROVE  /\ UNCHANGED mainVars => MainType'
           /\ UNCHANGED iterVars => IterType'
           /\ UNCHANGED worker => PoolType'
           /\ UNCHANGED sqlVars => SqlType'
           /\ UNCHANGED cpVars => CpType'
           /\ UNCHANGED repVars => rep' \in ReportType /\ result' \in Results
           /\ UNCHANGED <<ckpt, files, verdict, runs>> => DiskType'
<1>1. UNCHANGED mainVars => MainType'
  BY DEF TypeOK, mainVars, MainType
<1>2. UNCHANGED iterVars => IterType'
  BY DEF TypeOK, iterVars, IterType
<1>3. UNCHANGED worker => PoolType'
  BY DEF TypeOK, PoolType
<1>4. UNCHANGED sqlVars => SqlType'
  BY DEF TypeOK, sqlVars, SqlType
<1>5. UNCHANGED cpVars => CpType'
  BY DEF TypeOK, cpVars, CpType
<1>6. UNCHANGED repVars => rep' \in ReportType /\ result' \in Results
  BY DEF TypeOK, repVars
<1>7. UNCHANGED <<ckpt, files, verdict, runs>> => DiskType'
  BY DEF TypeOK, DiskType
<1> QED BY <1>1, <1>2, <1>3, <1>4, <1>5, <1>6, <1>7

LEMMA TypeStep == TypeOK /\ [Next]_vars => TypeOK'
<1> SUFFICES ASSUME TypeOK, [Next]_vars PROVE TypeOK'
  OBVIOUS
<1> USE DEF ChunkOrNil
<1>0. /\ MainType /\ IterType /\ PoolType /\ SqlType /\ CpType /\ DiskType
      /\ rep \in ReportType /\ result \in Results
  BY DEF TypeOK
<1>a. InitReport \in ReportType
  BY DEF InitReport, ReportType
<1>b. StartIndex \in 0 .. (NTables - 1)
  BY <1>0, PlanFields, PlanAssumption DEF MainType, StartIndex
<1>c. Tables = 0 .. (NTables - 1) /\ NTables \in Nat \ {0}
  BY PlanAssumption DEF Tables
<1>1. CASE StartRun
  <2>1. MainType'
    BY <1>0, <1>1 DEF StartRun, MainType, DiskType
  <2>2. IterType'
    BY <1>0, <1>1 DEF StartRun, IterType, iterVars
  <2>3. PoolType'
    BY <1>0, <1>1 DEF StartRun, PoolType
  <2>4. SqlType'
    BY <1>0, <1>1 DEF StartRun, SqlType, sqlVars
  <2>5. CpType'
    BY <1>0, <1>1 DEF StartRun, CpType, DiskType
  <2>6. rep' \in ReportType /\ result' \in Results
    BY <1>0, <1>a, <1>1 DEF StartRun, DiskType, LoadReport
  <2>7. DiskType'
    BY <1>0, SyncDiffAssumption, <1>1 DEF StartRun, DiskType, RemoveSQLFiles
  <2> QED BY <1>1, <2>1, <2>2, <2>3, <2>4, <2>5, <2>6, <2>7 DEF TypeOK, StartRun
<1>2. CASE StartRunFails
  <2>1. DiskType'
    BY <1>0, SyncDiffAssumption, <1>2 DEF StartRunFails, DiskType
  <2> QED BY <1>2, <2>1, TypeUnchanged DEF TypeOK, StartRunFails
<1>3. CASE Crash
  <2>1. DiskType'
    BY <1>0, <1>3 DEF Crash, DiskType
  <2> QED BY <1>3, <2>1, VolatileType DEF TypeOK, Crash
<1>4. CASE StructEqual
  <2>1. MainType'
    BY <1>0, <1>4 DEF StructEqual, MainType
  <2>2. rep' \in ReportType /\ result' \in Results
    BY <1>0, <1>b, <1>c, <1>4 DEF StructEqual, SetTableStructCheckResult, ResultAfterStruct, ReportType, Results
  <2> QED BY <1>4, <2>1, <2>2, TypeUnchanged DEF TypeOK, StructEqual
<1>5. CASE BeginEqual
  <2>1. MainType'
    BY <1>0, <1>5 DEF BeginEqual, MainType
  <2>2. IterType'
    BY <1>0, <1>b, <1>c, <1>5 DEF BeginEqual, IterType
  <2> QED BY <1>5, <2>1, <2>2, TypeUnchanged DEF TypeOK, BeginEqual
<1>6. CASE NextChunk
  <2>1. MainType'
    BY <1>0, SyncDiffAssumption, <1>6 DEF NextChunk, MainType, IterType
  <2>2. IterType'
    BY <1>0, <1>6 DEF NextChunk, IterType
  <2> QED BY <1>6, <2>1, <2>2, TypeUnchanged DEF TypeOK, NextChunk
<1>7. CASE NextErr
  <2>1. MainType'
    BY <1>0, <1>7 DEF NextErr, MainType
  <2>2. IterType'
    BY <1>0, <1>7 DEF NextErr, IterType
  <2> QED BY <1>7, <2>1, <2>2, TypeUnchanged DEF TypeOK, NextErr
<1>8. CASE NextEnd
  <2>1. MainType'
    BY <1>0, <1>8 DEF NextEnd, MainType
  <2> QED BY <1>8, <2>1, TypeUnchanged DEF TypeOK, NextEnd
<1>9. ASSUME NEW w \in Workers, Apply(w) PROVE TypeOK'
  <2>1. MainType'
    BY <1>0, <1>9 DEF Apply, MainType
  <2>2. PoolType'
    BY <1>0, <1>9 DEF Apply, MainType, PoolType, WorkerType, IdleWorker, Skipped, OutcomeType
  <2> QED BY <1>9, <2>1, <2>2, TypeUnchanged DEF TypeOK, Apply
<1>10. CASE WaitPool
  <2>1. MainType'
    BY <1>0, <1>10 DEF WaitPool, MainType
  <2>2. SqlType'
    BY <1>0, <1>10 DEF WaitPool, SqlType
  <2> QED BY <1>10, <2>1, <2>2, TypeUnchanged DEF TypeOK, WaitPool
<1>11. CASE WaitSql
  <2>1. MainType'
    BY <1>0, <1>11 DEF WaitSql, MainType
  <2> QED BY <1>11, <2>1, TypeUnchanged DEF TypeOK, WaitSql
<1>12. CASE WaitCkpt
  <2>1. MainType'
    BY <1>0, <1>12 DEF WaitCkpt, MainType
  <2> QED BY <1>12, <2>1, TypeUnchanged DEF TypeOK, WaitCkpt
<1>13. CASE Fatal
  <2>1. DiskType'
    BY <1>0, <1>13 DEF Fatal, DiskType
  <2> QED BY <1>13, <2>1, VolatileType DEF TypeOK, Fatal
<1>14. CASE Close
  <2>1. DiskType'
    BY <1>0, <1>14 DEF Close, DiskType
  <2> QED BY <1>14, <2>1, VolatileType DEF TypeOK, Close
<1>15. CASE Stop
  <2>1. MainType'
    BY <1>0, <1>15 DEF Stop, MainType
  <2>2. CpType'
    BY <1>0, <1>15 DEF Stop, CpType, CkType
  <2> QED BY <1>15, <2>1, <2>2, TypeUnchanged DEF TypeOK, Stop
<1>16. CASE StartTable
  <2>1. IterType'
    <3>1. nextTable \in Tables
      BY <1>0, <1>c, <1>16 DEF StartTable, IterType
    <3>2. (IF start # Nil /\ nextTable = start.table THEN RestSlices(start)
           ELSE AllSlices(nextTable)) \in SUBSET (Seq(Plan) \ {<<>>})
      BY <1>0, <3>1, RestSlicesType, AllSlicesType DEF MainType
    <3> DEFINE sl == IF start # Nil /\ nextTable = start.table THEN RestSlices(start)
                     ELSE AllSlices(nextTable)
               p == [NoProducer EXCEPT !.st = "run", !.slices = sl]
    <3>4. sl \in SUBSET (Seq(Plan) \ {<<>>})
      BY <3>2
    <3>5. prod' = [prod EXCEPT ![nextTable] = p]
      BY <1>16 DEF StartTable
    <3> HIDE DEF sl
    <3>6. p \in ProducerType
      BY <3>4, NoProducerType DEF ProducerType
    <3> HIDE DEF p
    <3>3. prod' \in [Tables -> ProducerType]
      BY <1>0, <3>1, <3>5, <3>6 DEF IterType
    <3> QED BY <1>0, <1>c, <1>16, <3>1, <3>3 DEF StartTable, IterType
  <2> QED BY <1>16, <2>1, TypeUnchanged DEF TypeOK, StartTable
<1>17. CASE AnalyzeFails
  <2>1. IterType'
    <3>1. nextTable \in Tables
      BY <1>0, <1>c, <1>17 DEF AnalyzeFails, IterType
    <3>2. prod[nextTable] \in ProducerType
      BY <1>0, <3>1 DEF IterType
    <3> DEFINE p == [prod[nextTable] EXCEPT !.st = "done"]
    <3>3. p \in ProducerType
      BY <3>2 DEF ProducerType
    <3>4. prod' = [prod EXCEPT ![nextTable] = p]
      BY <1>17 DEF AnalyzeFails
    <3> HIDE DEF p
    <3>5. prod' \in [Tables -> ProducerType]
      BY <1>0, <3>1, <3>3, <3>4 DEF IterType
    <3> QED BY <1>0, <1>c, <1>17, <3>5 DEF AnalyzeFails, IterType
  <2> QED BY <1>17, <2>1, TypeUnchanged DEF TypeOK, AnalyzeFails
<1>18. CASE CloseChunks
  <2>1. IterType'
    BY <1>0, <1>18 DEF CloseChunks, IterType
  <2> QED BY <1>18, <2>1, TypeUnchanged DEF TypeOK, CloseChunks
<1>19. ASSUME NEW t \in Tables, SendChunk(t) PROVE TypeOK'
  <2>1. IterType'
    <3>1. PICK s \in IF prod[t].cur = <<>> THEN prod[t].slices ELSE {prod[t].cur} :
            /\ chunksCh' = Append(chunksCh, Head(s))
            /\ prod' = [prod EXCEPT ![t].cur = Tail(s), ![t].slices = @ \ {s}]
      BY <1>19 DEF SendChunk
    <3>2. prod[t] \in ProducerType
      BY <1>0 DEF IterType
    <3>3. s \in Seq(Plan) /\ s # <<>>
      BY <3>1, <3>2 DEF ProducerType
    <3>4. Head(s) \in Plan /\ Tail(s) \in Seq(Plan)
      BY <3>3
    <3>5. chunksCh' \in Seq(Plan)
      BY <1>0, <3>1, <3>4 DEF IterType
    <3>6. prod' \in [Tables -> ProducerType]
      BY <1>0, <3>1, <3>2, <3>4 DEF IterType, ProducerType
    <3> QED BY <1>0, <1>19, <3>5, <3>6 DEF SendChunk, IterType
  <2> QED BY <1>19, <2>1, TypeUnchanged DEF TypeOK, SendChunk
<1>20. ASSUME NEW t \in Tables, SplitFails(t) PROVE TypeOK'
  <2>1. IterType'
    <3>1. PICK drop \in SUBSET prod[t].slices :
            prod' = [prod EXCEPT ![t].slices = @ \ drop, ![t].errs = @ + 1]
      BY <1>20 DEF SplitFails
    <3>2. prod[t] \in ProducerType
      BY <1>0 DEF IterType
    <3> DEFINE p == [prod[t] EXCEPT !.slices = @ \ drop, !.errs = @ + 1]
    <3>6. /\ prod[t].slices \ drop \in SUBSET (Seq(Plan) \ {<<>>})
          /\ prod[t].errs + 1 \in Nat
      BY <3>2 DEF ProducerType
    <3>3. p \in ProducerType
      BY <3>2, <3>6 DEF ProducerType
    <3>4. prod' = [prod EXCEPT ![t] = p]
      BY <3>1
    <3> HIDE DEF p
    <3>5. prod' \in [Tables -> ProducerType]
      BY <1>0, <3>3, <3>4 DEF IterType
    <3> QED BY <1>0, <1>20, <3>5 DEF SplitFails, IterType
  <2> QED BY <1>20, <2>1, TypeUnchanged DEF TypeOK, SplitFails
<1>21. ASSUME NEW t \in Tables, IterFails(t) PROVE TypeOK'
  <2>1. IterType'
    <3>1. prod[t] \in ProducerType
      BY <1>0 DEF IterType
    <3> DEFINE p == [prod[t] EXCEPT !.st = "done", !.slices = {}]
    <3>2. p \in ProducerType
      BY <3>1 DEF ProducerType
    <3>3. prod' = [prod EXCEPT ![t] = p]
      BY <1>21 DEF IterFails
    <3> HIDE DEF p
    <3>4. prod' \in [Tables -> ProducerType]
      BY <1>0, <3>2, <3>3 DEF IterType
    <3> QED BY <1>0, <1>21, <3>4 DEF IterFails, IterType
  <2> QED BY <1>21, <2>1, TypeUnchanged DEF TypeOK, IterFails
<1>22. ASSUME NEW t \in Tables, IterEnds(t) PROVE TypeOK'
  <2>1. IterType'
    BY <1>0, <1>22 DEF IterEnds, IterType, ProducerType
  <2> QED BY <1>22, <2>1, TypeUnchanged DEF TypeOK, IterEnds
<1>23. ASSUME NEW w \in Workers, ConsumeEmpty(w) PROVE TypeOK'
  <2>1. PoolType'
    <3> DEFINE o == IF worker[w].node.table \in Lack THEN LackOutcome ELSE Skipped
    <3>0. o \in OutcomeType
      BY DEF OutcomeType, LackOutcome, Skipped
    <3>1. worker' = [worker EXCEPT ![w].ph = "send", ![w].out = o]
      BY <1>23 DEF ConsumeEmpty
    <3> HIDE DEF o
    <3>2. worker[w] \in WorkerType /\ worker[w].node # Nil
      BY <1>0, <1>23 DEF ConsumeEmpty, PoolType
    <3> QED BY <1>0, <3>0, <3>1, <3>2 DEF PoolType, WorkerType
  <2>2. rep' \in ReportType /\ result' \in Results
    <3>1. worker[w].node \in Plan
      BY <1>0, <1>23 DEF ConsumeEmpty, PoolType, WorkerType
    <3> QED BY <1>0, <1>23, <3>1, ReportTypes
          DEF ConsumeEmpty, ResultAfterData, Results, LackOutcome, Skipped
  <2> QED BY <1>23, <2>1, <2>2, TypeUnchanged DEF TypeOK, ConsumeEmpty
<1>24. ASSUME NEW w \in Workers, ConsumeCompare(w) PROVE TypeOK'
  <2>1. PoolType'
    <3>1. PICK o \in OutcomeType :
            worker' = [worker EXCEPT ![w].ph = "report", ![w].out = o]
      BY <1>24, SyncDiffAssumption DEF ConsumeCompare
    <3>2. worker[w] \in WorkerType /\ worker[w].node # Nil
      BY <1>0, <1>24 DEF ConsumeCompare, PoolType
    <3> QED BY <1>0, <3>1, <3>2 DEF PoolType, WorkerType
  <2>2. rep' \in ReportType /\ result' \in Results
    BY <1>0, <1>24 DEF ConsumeCompare, ResultAfterError, Results
  <2> QED BY <1>24, <2>1, <2>2, TypeUnchanged DEF TypeOK, ConsumeCompare
<1>25. ASSUME NEW w \in Workers, ConsumeReport(w) PROVE TypeOK'
  <2>1. PoolType'
    BY <1>0, <1>25 DEF ConsumeReport, PoolType, WorkerType
  <2>2. rep' \in ReportType /\ result' \in Results
    <3>1. worker[w].node \in Plan /\ worker[w].out.equal \in BOOLEAN
      BY <1>0, <1>25 DEF ConsumeReport, PoolType, WorkerType, OutcomeType
    <3> QED BY <1>0, <1>25, <3>1, ReportTypes DEF ConsumeReport, ResultAfterData, Results
  <2> QED BY <1>25, <2>1, <2>2, TypeUnchanged DEF TypeOK, ConsumeReport
<1>26. ASSUME NEW w \in Workers, ConsumeSend(w) PROVE TypeOK'
  <2>1. PoolType'
    BY <1>0, <1>26 DEF ConsumeSend, PoolType, WorkerType, IdleWorker, Skipped, OutcomeType
  <2>2. SqlType'
    BY <1>0, <1>26 DEF ConsumeSend, SqlType, PoolType, WorkerType, DMLType
  <2> QED BY <1>26, <2>1, <2>2, TypeUnchanged DEF TypeOK, ConsumeSend
<1>27. CASE WriterTake
  <2>1. SqlType'
    <3>1. Head(sqlCh) \in DMLType /\ Tail(sqlCh) \in Seq(DMLType)
      BY <1>0, <1>27 DEF WriterTake, SqlType
    <3> QED BY <1>0, <1>27, <3>1, SyncDiffAssumption DEF WriterTake, SqlType, DMLType, WriterType
  <2> QED BY <1>27, <2>1, TypeUnchanged DEF TypeOK, WriterTake
<1>28. CASE WriterCreate
  <2>1. CASE files[writer.node] # "none"
    <3>1. Volatile /\ UNCHANGED <<files, ckpt, verdict, runs>>
      BY <1>28, <2>1 DEF WriterCreate
    <3> QED BY <3>1, VolatileType, TypeUnchanged DEF TypeOK
  <2>2. CASE files[writer.node] = "none"
    <3>1. /\ files' = [files EXCEPT ![writer.node] = "partial"]
          /\ writer' = [writer EXCEPT !.ph = "write"]
          /\ UNCHANGED <<mainVars, iterVars, worker, sqlCh, sqlOpen, cpVars, repVars>>
          /\ UNCHANGED <<ckpt, verdict, runs>>
      BY <1>28, <2>2 DEF WriterCreate
    <3>2. writer.node # Nil
      BY <1>0, <1>28 DEF WriterCreate, SqlType
    <3>3. SqlType'
      BY <1>0, <3>1, <3>2 DEF SqlType, WriterType
    <3>4. DiskType'
      BY <1>0, <3>1 DEF DiskType
    <3> QED BY <3>1, <3>3, <3>4, TypeUnchanged DEF TypeOK
  <2> QED BY <2>1, <2>2
<1>29. CASE WriterWrite
  <2>1. SqlType'
    BY <1>0, <1>29 DEF WriterWrite, SqlType, WriterType
  <2>2. DiskType'
    BY <1>0, <1>29 DEF WriterWrite, SqlType, WriterType, DiskType
  <2> QED BY <1>29, <2>1, <2>2, TypeUnchanged DEF TypeOK, WriterWrite
<1>30. CASE WriterInsert
  <2>1. SqlType'
    BY <1>0, <1>30 DEF WriterInsert, SqlType, WriterType, IdleWriter, Skipped, OutcomeType
  <2>2. CpType'
    BY <1>0, <1>30 DEF WriterInsert, SqlType, WriterType, CpType
  <2>3. DiskType'
    BY <1>0, <1>30 DEF WriterInsert, SqlType, WriterType, DiskType
  <2> QED BY <1>30, <2>1, <2>2, <2>3, TypeUnchanged DEF TypeOK, WriterInsert
<1>31. CASE WriterExit
  <2>1. SqlType'
    BY <1>0, <1>31 DEF WriterExit, SqlType, WriterType
  <2> QED BY <1>31, <2>1, TypeUnchanged DEF TypeOK, WriterExit
<1>32. CASE FlushTimer
  <2>1. CpType'
    BY <1>0, <1>32 DEF FlushTimer, CpType, CkType
  <2> QED BY <1>32, <2>1, TypeUnchanged DEF TypeOK, FlushTimer
<1>33. CASE PopAdjacent
  <2>1. CpType'
    BY <1>0, <1>33 DEF PopAdjacent, CpType, CkType
  <2> QED BY <1>33, <2>1, TypeUnchanged DEF TypeOK, PopAdjacent
<1>34. CASE PopEnds
  <2>1. CpType'
    BY <1>0, <1>a, <1>34 DEF PopEnds, CpType, CkType, FlushDone, IdleCk
  <2> QED BY <1>34, <2>1, TypeUnchanged DEF TypeOK, PopEnds
<1>35. CASE SnapshotReport
  <2>1. CpType'
    <3>1. ck.cur \in Plan
      BY <1>0, <1>35 DEF SnapshotReport, CpType, CkType
    <3>2. GetSnapshot(rep, ck.cur) \in ReportType
      BY <1>0, <3>1, ReportTypes
    <3> QED BY <1>0, <1>35, <3>2 DEF SnapshotReport, CpType, CkType
  <2> QED BY <1>35, <2>1, TypeUnchanged DEF TypeOK, SnapshotReport
<1>36. CASE SaveChunk
  <2>1. CpType'
    BY <1>0, <1>a, <1>36 DEF SaveChunk, CpType, CkType, FlushDone, IdleCk
  <2>2. DiskType'
    BY <1>0, <1>36 DEF SaveChunk, CpType, CkType, DiskType
  <2> QED BY <1>36, <2>1, <2>2, TypeUnchanged DEF TypeOK, SaveChunk
<1>37. CASE SaveChunkFails
  <2>1. CpType'
    BY <1>0, <1>a, <1>37 DEF SaveChunkFails, CpType, CkType, FlushDone, IdleCk
  <2> QED BY <1>37, <2>1, TypeUnchanged DEF TypeOK, SaveChunkFails
<1>38. CASE Finished
  BY <1>38, TypeUnchanged DEF Finished, TypeOK, vars
<1>39. CASE UNCHANGED vars
  BY <1>39, TypeUnchanged DEF TypeOK, vars
<1> QED
  BY <1>1, <1>2, <1>3, <1>4, <1>5, <1>6, <1>7, <1>8, <1>9, <1>10, <1>11, <1>12, <1>13, <1>14, <1>15, <1>16, <1>17, <1>18, <1>19, <1>20, <1>21, <1>22, <1>23, <1>24, <1>25, <1>26, <1>27, <1>28, <1>29, <1>30, <1>31, <1>32, <1>33, <1>34, <1>35, <1>36, <1>37, <1>38, <1>39
    DEF Next, Main, Producer, Produce, Consume, Writer, Flush

\* Type correctness: in every reachable state of every run, resumed or not,
\* channels, workers, heap, report and files hold what the Go types and the
\* goroutines' control flow allow.
THEOREM TypeCorrect == Spec => []TypeOK
<1>1. Init => TypeOK
  BY InitType
<1>2. TypeOK /\ [Next]_vars => TypeOK'
  BY TypeStep
<1> QED BY <1>1, <1>2, PTL DEF Spec
-----------------------------------------------------------------------------
(* The checkpoint.                                                         *)

LEMMA NothingUpToInit == UpTo(InitNode) = {}
<1>1. \A c \in Plan : ~ComparesLeq(c, InitNode)
  BY InitNodeIsBefore, CompareTotal DEF Nodes
<1> QED BY <1>1 DEF UpTo

LEMMA VolatileCheckpoint ==
    ASSUME TypeOK, CheckpointInv, Volatile, UNCHANGED verdict,
           ckpt' \in {ckpt, Nil}
    PROVE  CheckpointInv'
<1>1. /\ pc' = "down" /\ heap' = {} /\ saved' = InitNode /\ ck' = IdleCk
      /\ writer' = IdleWriter
  BY DEF Volatile
<1>2. writer'.ph \notin {"create", "write", "insert"} /\ ck'.cur = Nil
  BY <1>1 DEF IdleWriter, IdleCk
<1>3. (\A c \in UpTo(saved) : Checked(c))'
  BY <1>1, NothingUpToInit DEF UpTo
<1>4. (ckpt # Nil => \A c \in UpTo(ckpt.node) : Checked(c))'
  BY DEF CheckpointInv, CheckpointCovers, Checked, UpTo
<1> QED BY <1>1, <1>2, <1>3, <1>4 DEF CheckpointInv, CheckpointCovers

\* Steps that touch neither the checkpoint nor the verdicts.
LEMMA FrameCheckpoint ==
    ASSUME CheckpointInv, UNCHANGED <<heap, saved, ckpt, verdict>>,
           pc' = "down" <=> pc = "down",
           pc = "down" => /\ ck' = ck
                          /\ writer'.ph \notin {"create", "write", "insert"},
           ck'.cur = Nil \/ ck'.cur = ck.cur
    PROVE  CheckpointInv'
<1>1. (\A c \in heap : Checked(c))'
  BY DEF CheckpointInv, Checked
<1>2. CheckpointCovers'
  BY DEF CheckpointInv, CheckpointCovers, Checked, UpTo
<1> QED BY <1>1, <1>2 DEF CheckpointInv

LEMMA InitCheckpoint == Init => CheckpointInv
<1> SUFFICES ASSUME Init PROVE CheckpointInv
  OBVIOUS
<1>1. /\ pc = "down" /\ heap = {} /\ saved = InitNode /\ ck = IdleCk
      /\ writer = IdleWriter /\ ckpt = Nil
  BY DEF Init
<1>2. writer.ph \notin {"create", "write", "insert"} /\ ck.cur = Nil
  BY <1>1 DEF IdleWriter, IdleCk
<1>3. \A c \in UpTo(saved) : Checked(c)
  BY <1>1, NothingUpToInit
<1> QED BY <1>1, <1>2, <1>3 DEF CheckpointInv, CheckpointCovers

LEMMA CheckpointStep == TypeOK /\ CheckpointInv /\ [Next]_vars => CheckpointInv'
<1> SUFFICES ASSUME TypeOK, CheckpointInv, [Next]_vars PROVE CheckpointInv'
  OBVIOUS
<1>0. /\ MainType /\ PoolType /\ SqlType /\ CpType /\ DiskType
  BY DEF TypeOK
<1>a. \A n \in Plan \cup {InitNode} : n \in Nodes
  BY DEF Nodes
<1>1. CASE StartRun
  <2>1. saved' \in Nodes /\ saved' = IF ckpt = Nil THEN InitNode ELSE ckpt.node
    BY <1>0, <1>1 DEF StartRun, DiskType, Nodes
  <2>2. \A c \in UpTo(saved') : c \in Plan /\ ~ComparesLess(saved', c)
    BY <2>1, CompareTotal DEF UpTo, Nodes
  <2>3. \A c \in UpTo(saved') : verdict'[c] = verdict[c]
    BY <1>1, <2>2 DEF StartRun
  <2>4. \A c \in UpTo(saved') : verdict[c] # Nil
    <3>1. CASE ckpt = Nil
      BY <2>1, <3>1, NothingUpToInit
    <3>2. CASE ckpt # Nil
      BY <2>1, <3>2 DEF CheckpointInv, CheckpointCovers, Checked
    <3> QED BY <3>1, <3>2
  <2>5. (\A c \in UpTo(saved) : Checked(c))'
    BY <2>3, <2>4 DEF Checked, UpTo
  <2>6. (ckpt # Nil => \A c \in UpTo(ckpt.node) : Checked(c))'
    <3>1. ckpt' = ckpt
      BY <1>1 DEF StartRun
    <3>2. ckpt # Nil => saved' = ckpt.node
      BY <2>1
    <3> QED BY <2>5, <3>1, <3>2 DEF UpTo
  <2>7. ckpt # Nil => ComparesLeq(ckpt.node, saved')
    BY <2>1, CompareTotal
  <2>8. /\ heap' = {} /\ ck' = IdleCk /\ pc' = "struct" /\ ckpt' = ckpt
    BY <1>1 DEF StartRun, CheckpointInv
  <2>9. ck'.cur = Nil
    BY <2>8 DEF IdleCk
  <2> QED BY <2>5, <2>6, <2>7, <2>8, <2>9 DEF CheckpointInv, CheckpointCovers
<1>2. CASE StartRunFails
  <2>1. /\ UNCHANGED <<pc, heap, saved, ck, writer, verdict>> /\ ckpt' = Nil
        /\ pc = "down"
    BY <1>2 DEF StartRunFails, mainVars, cpVars, sqlVars
  <2>2. (\A c \in heap : Checked(c))' /\ (\A c \in UpTo(saved) : Checked(c))'
    BY <2>1 DEF CheckpointInv, CheckpointCovers, Checked, UpTo
  <2> QED BY <2>1, <2>2 DEF CheckpointInv, CheckpointCovers
<1>3. CASE Crash
  BY <1>3, VolatileCheckpoint DEF Crash
<1>4. CASE Fatal
  BY <1>4, VolatileCheckpoint DEF Fatal
<1>5. CASE Close
  BY <1>5, VolatileCheckpoint DEF Close
<1>6. CASE StructEqual
  <2>1. /\ UNCHANGED <<heap, saved, ck, ckpt, verdict>>
        /\ pc # "down" /\ pc' # "down"
    BY <1>6 DEF StructEqual, cpVars
  <2> QED BY <2>1, FrameCheckpoint
<1>7. CASE BeginEqual
  <2>1. /\ UNCHANGED <<heap, saved, ck, ckpt, verdict>>
        /\ pc # "down" /\ pc' # "down"
    BY <1>7 DEF BeginEqual, cpVars
  <2> QED BY <2>1, FrameCheckpoint
<1>8. CASE NextChunk
  <2>1. /\ UNCHANGED <<heap, saved, ck, ckpt, verdict>>
        /\ pc # "down" /\ pc' # "down"
    BY <1>8 DEF NextChunk, cpVars
  <2> QED BY <2>1, FrameCheckpoint
<1>9. CASE NextErr
  <2>1. /\ UNCHANGED <<heap, saved, ck, ckpt, verdict>>
        /\ pc # "down" /\ pc' # "down"
    BY <1>9 DEF NextErr, cpVars
  <2> QED BY <2>1, FrameCheckpoint
<1>10. CASE NextEnd
  <2>1. /\ UNCHANGED <<heap, saved, ck, ckpt, verdict>>
        /\ pc # "down" /\ pc' # "down"
    BY <1>10 DEF NextEnd, cpVars
  <2> QED BY <2>1, FrameCheckpoint
<1>11. ASSUME NEW w \in Workers, Apply(w) PROVE CheckpointInv'
  <2>1. /\ UNCHANGED <<heap, saved, ck, ckpt, verdict>>
        /\ pc # "down" /\ pc' # "down"
    BY <1>11 DEF Apply, cpVars
  <2> QED BY <2>1, FrameCheckpoint
<1>12. CASE WaitPool
  <2>1. /\ UNCHANGED <<heap, saved, ck, ckpt, verdict>>
        /\ pc # "down" /\ pc' # "down"
    BY <1>12 DEF WaitPool, cpVars
  <2> QED BY <2>1, FrameCheckpoint
<1>13. CASE WaitSql
  <2>1. /\ UNCHANGED <<heap, saved, ck, ckpt, verdict>>
        /\ pc # "down" /\ pc' # "down"
    BY <1>13 DEF WaitSql, cpVars
  <2> QED BY <2>1, FrameCheckpoint
<1>14. CASE WaitCkpt
  <2>1. /\ UNCHANGED <<heap, saved, ck, ckpt, verdict>>
        /\ pc # "down" /\ pc' # "down"
    BY <1>14 DEF WaitCkpt, cpVars
  <2> QED BY <2>1, FrameCheckpoint
<1>15. CASE StartTable
  <2>1. UNCHANGED <<pc, writer, heap, saved, ck, ckpt, verdict>>
    BY <1>15 DEF StartTable, mainVars, cpVars, sqlVars
  <2> QED BY <2>1, FrameCheckpoint DEF CheckpointInv
<1>16. CASE AnalyzeFails
  <2>1. UNCHANGED <<pc, writer, heap, saved, ck, ckpt, verdict>>
    BY <1>16 DEF AnalyzeFails, mainVars, cpVars, sqlVars
  <2> QED BY <2>1, FrameCheckpoint DEF CheckpointInv
<1>17. CASE CloseChunks
  <2>1. UNCHANGED <<pc, writer, heap, saved, ck, ckpt, verdict>>
    BY <1>17 DEF CloseChunks, mainVars, cpVars, sqlVars
  <2> QED BY <2>1, FrameCheckpoint DEF CheckpointInv
<1>18. ASSUME NEW t \in Tables, SendChunk(t) PROVE CheckpointInv'
  <2>1. UNCHANGED <<pc, writer, heap, saved, ck, ckpt, verdict>>
    BY <1>18 DEF SendChunk, mainVars, cpVars, sqlVars
  <2> QED BY <2>1, FrameCheckpoint DEF CheckpointInv
<1>19. ASSUME NEW t \in Tables, SplitFails(t) PROVE CheckpointInv'
  <2>1. UNCHANGED <<pc, writer, heap, saved, ck, ckpt, verdict>>
    BY <1>19 DEF SplitFails, mainVars, cpVars, sqlVars
  <2> QED BY <2>1, FrameCheckpoint DEF CheckpointInv
<1>20. ASSUME NEW t \in Tables, IterFails(t) PROVE CheckpointInv'
  <2>1. UNCHANGED <<pc, writer, heap, saved, ck, ckpt, verdict>>
    BY <1>20 DEF IterFails, mainVars, cpVars, sqlVars
  <2> QED BY <2>1, FrameCheckpoint DEF CheckpointInv
<1>21. ASSUME NEW t \in Tables, IterEnds(t) PROVE CheckpointInv'
  <2>1. UNCHANGED <<pc, writer, heap, saved, ck, ckpt, verdict>>
    BY <1>21 DEF IterEnds, mainVars, cpVars, sqlVars
  <2> QED BY <2>1, FrameCheckpoint DEF CheckpointInv
<1>22. ASSUME NEW w \in Workers, ConsumeEmpty(w) PROVE CheckpointInv'
  <2>1. UNCHANGED <<pc, writer, heap, saved, ck, ckpt, verdict>>
    BY <1>22 DEF ConsumeEmpty, mainVars, cpVars, sqlVars
  <2> QED BY <2>1, FrameCheckpoint DEF CheckpointInv
<1>23. ASSUME NEW w \in Workers, ConsumeCompare(w) PROVE CheckpointInv'
  <2>1. UNCHANGED <<pc, writer, heap, saved, ck, ckpt, verdict>>
    BY <1>23 DEF ConsumeCompare, mainVars, cpVars, sqlVars
  <2> QED BY <2>1, FrameCheckpoint DEF CheckpointInv
<1>24. ASSUME NEW w \in Workers, ConsumeReport(w) PROVE CheckpointInv'
  <2>1. UNCHANGED <<pc, writer, heap, saved, ck, ckpt, verdict>>
    BY <1>24 DEF ConsumeReport, mainVars, cpVars, sqlVars
  <2> QED BY <2>1, FrameCheckpoint DEF CheckpointInv
<1>25. ASSUME NEW w \in Workers, ConsumeSend(w) PROVE CheckpointInv'
  <2>1. UNCHANGED <<pc, writer, heap, saved, ck, ckpt, verdict>>
    BY <1>25 DEF ConsumeSend, mainVars, cpVars, sqlVars
  <2> QED BY <2>1, FrameCheckpoint DEF CheckpointInv
<1>26. CASE WriterTake
  <2>1. /\ UNCHANGED <<pc, heap, saved, ck, ckpt, verdict>>
        /\ pc # "down"
    BY <1>26 DEF WriterTake, mainVars, cpVars, Equalling, CheckpointInv
  <2> QED BY <2>1, FrameCheckpoint
<1>27. CASE WriterCreate
  <2>1. CASE files[writer.node] # "none"
    <3>1. Volatile /\ UNCHANGED <<ckpt, verdict>>
      BY <1>27, <2>1 DEF WriterCreate
    <3> QED BY <3>1, VolatileCheckpoint
  <2>2. CASE files[writer.node] = "none"
    <3>1. /\ UNCHANGED <<pc, heap, saved, ck, ckpt, verdict>>
          /\ writer.ph = "create"
      BY <1>27, <2>2 DEF WriterCreate, mainVars, cpVars
    <3>2. pc # "down"
      BY <3>1 DEF CheckpointInv
    <3> QED BY <3>1, <3>2, FrameCheckpoint
  <2> QED BY <2>1, <2>2
<1>28. CASE WriterWrite
  <2>1. /\ UNCHANGED <<pc, heap, saved, ck, ckpt, verdict>>
        /\ pc # "down"
    BY <1>28 DEF WriterWrite, mainVars, cpVars, Equalling, CheckpointInv
  <2> QED BY <2>1, FrameCheckpoint
<1>29. CASE WriterInsert
  <2>1. /\ UNCHANGED <<pc, saved, ck, ckpt>>
        /\ heap' = heap \cup {writer.node}
        /\ verdict' = [verdict EXCEPT ![writer.node] = writer.out]
        /\ writer.ph = "insert"
    BY <1>29 DEF WriterInsert, mainVars
  <2>2. pc # "down"
    BY <2>1 DEF CheckpointInv
  <2>3. writer.node \in Plan /\ writer.out # Nil
    <3>1. writer.node \in Plan
      BY <1>0, <2>1 DEF SqlType, WriterType, ChunkOrNil
    <3>2. writer.out \in OutcomeType
      BY <1>0 DEF SqlType, WriterType
    <3> QED BY <3>1, <3>2, SyncDiffAssumption
  <2>4. \A c \in Plan : c = writer.node \/ Checked(c) => verdict'[c] # Nil
    BY <1>0, <2>1, <2>3 DEF Checked, DiskType
  <2>5. (\A c \in heap : Checked(c))'
    BY <1>0, <2>1, <2>3, <2>4 DEF CheckpointInv, Checked, CpType
  <2>6. CheckpointCovers'
    BY <2>1, <2>4 DEF CheckpointInv, CheckpointCovers, Checked, UpTo
  <2> QED BY <2>1, <2>2, <2>5, <2>6 DEF CheckpointInv
<1>30. CASE WriterExit
  <2>1. UNCHANGED <<pc, heap, saved, ck, ckpt, verdict>>
    BY <1>30 DEF WriterExit, mainVars, cpVars
  <2>2. writer'.ph = "exit"
    BY <1>0, <1>30 DEF WriterExit, SqlType, WriterType
  <2> QED BY <2>1, <2>2, FrameCheckpoint
<1>31. CASE Stop
  <2>1. UNCHANGED <<heap, saved, ckpt, verdict>> /\ pc # "down" /\ pc' # "down"
    BY <1>31 DEF Stop, mainVars, Equalling, CheckpointInv, IdleCk
  <2>2. ck'.cur = Nil \/ ck'.cur = ck.cur
    BY <1>0, <1>31 DEF Stop, CpType, CkType
  <2> QED BY <2>1, <2>2, FrameCheckpoint
<1>32. CASE FlushTimer
  <2>1. UNCHANGED <<heap, saved, ckpt, verdict>> /\ pc # "down" /\ pc' # "down"
    BY <1>32 DEF FlushTimer, mainVars, Equalling, CheckpointInv, IdleCk
  <2>2. ck'.cur = Nil \/ ck'.cur = ck.cur
    BY <1>0, <1>32 DEF FlushTimer, CpType, CkType, Equalling
  <2> QED BY <2>1, <2>2, FrameCheckpoint
<1>33. CASE PopEnds
  <2>1. UNCHANGED <<heap, saved, ckpt, verdict>> /\ pc # "down" /\ pc' # "down"
    BY <1>33 DEF PopEnds, mainVars, Equalling, CheckpointInv, IdleCk
  <2>2. ck'.cur = Nil \/ ck'.cur = ck.cur
    BY <1>0, <1>33 DEF PopEnds, CpType, CkType, FlushDone, IdleCk
  <2> QED BY <2>1, <2>2, FrameCheckpoint
<1>34. CASE SnapshotReport
  <2>1. UNCHANGED <<heap, saved, ckpt, verdict>> /\ pc # "down" /\ pc' # "down"
    BY <1>34 DEF SnapshotReport, mainVars, Equalling, CheckpointInv, IdleCk
  <2>2. ck'.cur = Nil \/ ck'.cur = ck.cur
    BY <1>0, <1>34 DEF SnapshotReport, CpType, CkType
  <2> QED BY <2>1, <2>2, FrameCheckpoint
<1>35. CASE SaveChunkFails
  <2>1. UNCHANGED <<heap, saved, ckpt, verdict>> /\ pc # "down" /\ pc' # "down"
    BY <1>35 DEF SaveChunkFails, mainVars, Equalling, CheckpointInv, IdleCk
  <2>2. ck'.cur = Nil \/ ck'.cur = ck.cur
    BY <1>0, <1>35 DEF SaveChunkFails, CpType, CkType, FlushDone, IdleCk
  <2> QED BY <2>1, <2>2, FrameCheckpoint
<1>36. CASE PopAdjacent
  <2>1. PICK m \in heap :
          IsAdjacent(saved, m) /\ saved' = m /\ heap' = heap \ {m}
          /\ ck' = [ck EXCEPT !.cur = m]
    BY <1>36 DEF PopAdjacent
  <2>2. UNCHANGED <<pc, ckpt, verdict, writer>> /\ ck.ph = "pop"
    BY <1>36 DEF PopAdjacent, mainVars, sqlVars
  <2>3. pc # "down"
    BY <2>2 DEF CheckpointInv, IdleCk
  <2>4. m \in Plan /\ saved \in Nodes
    BY <1>0, <1>a, <2>1 DEF CpType
  <2>5. /\ ComparesLess(saved, m)
        /\ \A c \in Plan : ComparesLeq(c, m) => c = m \/ ComparesLeq(c, saved)
    BY <2>1, <2>4, AdjacentIsSuccessor
  <2>6. (\A c \in UpTo(saved) : Checked(c))'
    BY <2>1, <2>2, <2>4, <2>5 DEF CheckpointInv, CheckpointCovers, Checked, UpTo
  <2>7. (ckpt # Nil => \A c \in UpTo(ckpt.node) : Checked(c))'
    BY <2>2 DEF CheckpointInv, CheckpointCovers, Checked, UpTo
  <2>8. ckpt # Nil => ComparesLeq(ckpt.node, m)
    <3>1. SUFFICES ASSUME ckpt # Nil PROVE ComparesLeq(ckpt.node, m)
      OBVIOUS
    <3>2. ckpt.node \in Nodes /\ m \in Nodes
      BY <1>0, <2>4, <3>1 DEF DiskType, Nodes
    <3>3. ComparesLeq(ckpt.node, saved)
      BY <2>3, <3>1 DEF CheckpointInv
    <3>4. ComparesLeq(saved, m)
      BY <2>5 DEF ComparesLeq
    <3> QED BY <2>4, <3>2, <3>3, <3>4, CompareTransitive
  <2>9. ck'.cur = m
    BY <1>0, <2>1 DEF CpType, CkType
  <2>10. (\A c \in heap : Checked(c))'
    BY <2>1, <2>2 DEF CheckpointInv, Checked
  <2> QED BY <2>1, <2>2, <2>3, <2>6, <2>7, <2>8, <2>9, <2>10
        DEF CheckpointInv, CheckpointCovers
<1>37. CASE SaveChunk
  <2>1. /\ UNCHANGED <<pc, heap, saved, verdict, writer>> /\ ck.ph = "save"
        /\ ckpt' = [node |-> ck.cur, rep |-> ck.rep] /\ ck' = FlushDone
    BY <1>37 DEF SaveChunk, mainVars, sqlVars
  <2>2. pc # "down"
    BY <2>1 DEF CheckpointInv, IdleCk
  <2>3. ckpt'.node = saved /\ saved \in Nodes
    BY <1>0, <1>a, <2>1 DEF CheckpointInv, CpType
  <2>4. ck'.cur = Nil
    BY <2>1 DEF FlushDone, IdleCk
  <2>5. (\A c \in heap : Checked(c))'
    BY <2>1 DEF CheckpointInv, Checked
  <2>6. CheckpointCovers'
    BY <2>1, <2>3 DEF CheckpointInv, CheckpointCovers, Checked, UpTo
  <2>7. ComparesLeq(ckpt'.node, saved')
    BY <2>1, <2>3, CompareTotal
  <2> QED BY <2>1, <2>2, <2>4, <2>5, <2>6, <2>7 DEF CheckpointInv
<1>38. CASE Finished
  <2>1. UNCHANGED <<pc, writer, heap, saved, ck, ckpt, verdict>>
    BY <1>38 DEF Finished, vars, mainVars, cpVars, sqlVars
  <2> QED BY <2>1, FrameCheckpoint DEF CheckpointInv
<1>39. CASE UNCHANGED vars
  <2>1. UNCHANGED <<pc, writer, heap, saved, ck, ckpt, verdict>>
    BY <1>39 DEF vars, mainVars, cpVars, sqlVars
  <2> QED BY <2>1, FrameCheckpoint DEF CheckpointInv
<1> QED
  BY <1>1, <1>2, <1>3, <1>4, <1>5, <1>6, <1>7, <1>8, <1>9, <1>10, <1>11, <1>12, <1>13, <1>14, <1>15, <1>16, <1>17, <1>18, <1>19, <1>20, <1>21, <1>22, <1>23, <1>24, <1>25, <1>26, <1>27, <1>28, <1>29, <1>30, <1>31, <1>32, <1>33, <1>34, <1>35, <1>36, <1>37, <1>38, <1>39
    DEF Next, Main, Producer, Produce, Consume, Writer, Flush

LEMMA CheckpointInvariant == Spec => [](TypeOK /\ CheckpointInv)
<1>1. Init => TypeOK /\ CheckpointInv
  BY InitType, InitCheckpoint
<1>2. TypeOK /\ CheckpointInv /\ [Next]_vars => TypeOK' /\ CheckpointInv'
  BY TypeStep, CheckpointStep
<1> QED BY <1>1, <1>2, PTL DEF Spec

\* The checkpoint leaves nothing behind: every chunk at or before the node of
\* the checkpoint file has been checked, through any interleaving of workers,
\* writer and flushes, any failure of a table or a bucket and any number of
\* kills and resumed runs.
THEOREM CheckpointSafe == Spec => []CheckpointCovers
<1>1. CheckpointInv => CheckpointCovers
  BY DEF CheckpointInv
<1> QED BY <1>1, CheckpointInvariant, PTL

LEMMA AdvanceStep ==
    ASSUME TypeOK, CheckpointInv, Next
    PROVE  /\ ckpt # Nil /\ ckpt' # Nil => ComparesLeq(ckpt.node, ckpt'.node)
           /\ pc # "down" /\ pc' # "down" => ComparesLeq(saved, saved')
<1>0. /\ saved \in Nodes
      /\ ckpt # Nil => ckpt.node \in Nodes
  BY DEF TypeOK, CpType, DiskType, Nodes
<1>1. /\ ComparesLeq(saved, saved)
      /\ ckpt # Nil => ComparesLeq(ckpt.node, ckpt.node)
  BY <1>0, CompareTotal
<1>2. CASE UNCHANGED <<ckpt, saved>>
  BY <1>1, <1>2
<1>3. CASE StartRun \/ StartRunFails
  <2>1. pc = "down" /\ (ckpt' = ckpt \/ ckpt' = Nil)
    BY <1>3 DEF StartRun, StartRunFails
  <2> QED BY <1>1, <2>1
<1>4. CASE Volatile /\ ckpt' \in {ckpt, Nil}
  <2>1. pc' = "down"
    BY <1>4 DEF Volatile
  <2> QED BY <1>1, <1>4, <2>1
<1>5. CASE SaveChunk
  <2>1. UNCHANGED saved /\ ckpt'.node = ck.cur /\ ck.ph = "save"
    BY <1>5 DEF SaveChunk
  <2>2. ck.cur = saved /\ pc # "down"
    BY <2>1 DEF TypeOK, CpType, CheckpointInv, IdleCk
  <2> QED BY <1>1, <2>1, <2>2 DEF CheckpointInv
<1>6. CASE PopAdjacent
  <2>1. PICK m \in heap : IsAdjacent(saved, m) /\ saved' = m
    BY <1>6 DEF PopAdjacent
  <2>2. m \in Plan /\ ckpt' = ckpt
    BY <1>6 DEF PopAdjacent, TypeOK, CpType
  <2>3. ComparesLess(saved, m)
    BY <1>0, <2>1, <2>2, AdjacentIsSuccessor
  <2> QED BY <1>1, <2>1, <2>2, <2>3 DEF ComparesLeq
<1>7. CASE Crash \/ Fatal \/ Close
  BY <1>4, <1>7 DEF Crash, Fatal, Close
<1>8. CASE WriterCreate
  BY <1>2, <1>4, <1>8 DEF WriterCreate, cpVars
<1>9. CASE StructEqual
  BY <1>2, <1>9 DEF StructEqual, cpVars
<1>10. CASE BeginEqual
  BY <1>2, <1>10 DEF BeginEqual, cpVars
<1>11. CASE NextChunk
  BY <1>2, <1>11 DEF NextChunk, cpVars
<1>12. CASE NextErr
  BY <1>2, <1>12 DEF NextErr, cpVars
<1>13. CASE NextEnd
  BY <1>2, <1>13 DEF NextEnd, cpVars
<1>14. ASSUME NEW w \in Workers, Apply(w) PROVE UNCHANGED <<ckpt, saved>>
  BY <1>14 DEF Apply, cpVars
<1>15. CASE WaitPool
  BY <1>2, <1>15 DEF WaitPool, cpVars
<1>16. CASE WaitSql
  BY <1>2, <1>16 DEF WaitSql, cpVars
<1>17. CASE WaitCkpt
  BY <1>2, <1>17 DEF WaitCkpt, cpVars
<1>18. CASE StartTable
  BY <1>2, <1>18 DEF StartTable, cpVars
<1>19. CASE AnalyzeFails
  BY <1>2, <1>19 DEF AnalyzeFails, cpVars
<1>20. CASE CloseChunks
  BY <1>2, <1>20 DEF CloseChunks, cpVars
<1>21. ASSUME NEW t \in Tables, SendChunk(t) PROVE UNCHANGED <<ckpt, saved>>
  BY <1>21 DEF SendChunk, cpVars
<1>22. ASSUME NEW t \in Tables, SplitFails(t) PROVE UNCHANGED <<ckpt, saved>>
  BY <1>22 DEF SplitFails, cpVars
<1>23. ASSUME NEW t \in Tables, IterFails(t) PROVE UNCHANGED <<ckpt, saved>>
  BY <1>23 DEF IterFails, cpVars
<1>24. ASSUME NEW t \in Tables, IterEnds(t) PROVE UNCHANGED <<ckpt, saved>>
  BY <1>24 DEF IterEnds, cpVars
<1>25. ASSUME NEW w \in Workers, ConsumeEmpty(w) PROVE UNCHANGED <<ckpt, saved>>
  BY <1>25 DEF ConsumeEmpty, cpVars
<1>26. ASSUME NEW w \in Workers, ConsumeCompare(w) PROVE UNCHANGED <<ckpt, saved>>
  BY <1>26 DEF ConsumeCompare, cpVars
<1>27. ASSUME NEW w \in Workers, ConsumeReport(w) PROVE UNCHANGED <<ckpt, saved>>
  BY <1>27 DEF ConsumeReport, cpVars
<1>28. ASSUME NEW w \in Workers, ConsumeSend(w) PROVE UNCHANGED <<ckpt, saved>>
  BY <1>28 DEF ConsumeSend, cpVars
<1>29. CASE WriterTake
  BY <1>2, <1>29 DEF WriterTake, cpVars
<1>30. CASE WriterWrite
  BY <1>2, <1>30 DEF WriterWrite, cpVars
<1>31. CASE WriterInsert
  BY <1>2, <1>31 DEF WriterInsert, cpVars
<1>32. CASE WriterExit
  BY <1>2, <1>32 DEF WriterExit, cpVars
<1>33. CASE Stop
  BY <1>2, <1>33 DEF Stop, cpVars
<1>34. CASE FlushTimer
  BY <1>2, <1>34 DEF FlushTimer, cpVars
<1>35. CASE PopEnds
  BY <1>2, <1>35 DEF PopEnds, cpVars
<1>36. CASE SnapshotReport
  BY <1>2, <1>36 DEF SnapshotReport, cpVars
<1>37. CASE SaveChunkFails
  BY <1>2, <1>37 DEF SaveChunkFails, cpVars
<1>38. CASE Finished
  BY <1>2, <1>38 DEF Finished, vars, cpVars
<1> QED
  BY <1>2, <1>3, <1>4, <1>5, <1>6, <1>7, <1>8, <1>9, <1>10, <1>11, <1>12, <1>13, <1>14, <1>15, <1>16, <1>17, <1>18, <1>19, <1>20, <1>21, <1>22, <1>23, <1>24, <1>25, <1>26, <1>27, <1>28, <1>29, <1>30, <1>31, <1>32, <1>33, <1>34, <1>35, <1>36, <1>37, <1>38
    DEF Next, Main, Producer, Produce, Consume, Writer, Flush

\* The checkpoint only moves forward, in the file and in memory.
THEOREM CheckpointMonotone == Spec => CheckpointAdvances
<1>1. TypeOK /\ CheckpointInv /\ [Next]_vars =>
        [/\ ckpt # Nil /\ ckpt' # Nil => ComparesLeq(ckpt.node, ckpt'.node)
         /\ pc # "down" /\ pc' # "down" => ComparesLeq(saved, saved')]_vars
  BY AdvanceStep
<1> QED BY <1>1, CheckpointInvariant, PTL DEF Spec, CheckpointAdvances
=============================================================================
