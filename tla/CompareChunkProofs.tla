------------------------- MODULE CompareChunkProofs -------------------------
(***************************************************************************)
(* What consume promises of one chunk, for every table, every number of    *)
(* copies and shards and every index.  The argument has five parts:        *)
(*                                                                         *)
(*   - the search: the halves of a range partition it (CutPartitions), so  *)
(*     their counts add up; with a unique key equal checksums mean equal   *)
(*     rows, so what differs stays in the range (SearchInv);               *)
(*   - the order: the row at hand on a side is least of what is left       *)
(*     there, all shards merged, so a row that comes first is missing on   *)
(*     the other side (OrderInv);                                          *)
(*   - the walk: with a unique key, a key is as it was, or settled, or was *)
(*     lost with a broken stream (KeyedInv); without one, statements and   *)
(*     rows to come balance for every row (BagInv);                        *)
(*   - a chunk searched by other columns than it is ranged on: what both   *)
(*     sides have is left alone, wherever the search comes to (ApartInv);  *)
(*   - the counts: a statement changes by one how many rows the repaired   *)
(*     downstream has more, or fewer, than the downstream (WalkInv).       *)
(*                                                                         *)
(* Sums of copies are needed for all of it.  SumFunction is defined by     *)
(* recursion over sets; what it returns is proved by taking a least set of *)
(* indices at which a claim fails.                                         *)
(***************************************************************************)
EXTENDS CompareChunk, ChunkRangeProofs, FiniteSetTheorems, WellFoundedInduction, TLAPS

-----------------------------------------------------------------------------
(* Sums.  SumFunction goes through the domain by CHOOSE; what it returns   *)
(* is shown by taking a least set of indices at which a claim fails.       *)

Pick(s) == CHOOSE x \in s : TRUE

\* g gives the sum of f over every set of indices.
Sums(g, f, S) ==
    /\ g = [s \in SUBSET S |-> g[s]]
    /\ g[{}] = 0
    /\ \A s \in SUBSET S : s # {} => g[s] = f[Pick(s)] + g[s \ {Pick(s)}]

\* Sets of indices can be gone through one by one.
LEMMA SubsetInduction ==
    ASSUME NEW S, IsFiniteSet(S), NEW Good, {} \in Good,
           \A s \in SUBSET S : s # {} /\ s \ {Pick(s)} \in Good => s \in Good
    PROVE  \A s \in SUBSET S : s \in Good
<1> DEFINE Bad == {s \in SUBSET S : s \notin Good}
<1> SUFFICES ASSUME Bad # {} PROVE FALSE
  OBVIOUS
<1>1. IsWellFoundedOn(StrictSubsetOrdering(S), SUBSET S)
  BY FS_StrictSubsetOrderingWellFounded, FS_FiniteSubsetsOfFinite
<1>2. PICK s \in Bad : \A u \in Bad : <<u, s>> \notin StrictSubsetOrdering(S)
  <2> HIDE DEF Bad
  <2>1. Bad \subseteq SUBSET S
    BY DEF Bad
  <2> QED BY <1>1, <2>1, WFMin
<1>3. s # {}
  OBVIOUS
<1>4. Pick(s) \in s
  BY <1>3 DEF Pick
<1>5. s \ {Pick(s)} \notin Bad
  <2> DEFINE u == s \ {Pick(s)}
  <2>1. u \in SUBSET S /\ s \in SUBSET S /\ u \subseteq s /\ u # s
    BY <1>4
  <2>2. <<u, s>> \in StrictSubsetOrdering(S)
    <3> HIDE DEF u, Bad
    <3> QED BY <2>1 DEF StrictSubsetOrdering
  <2> QED BY <1>2, <2>2
<1> QED BY <1>3, <1>5

\* The function that SumFunction is defined by exists.
LEMMA SumsExist ==
    ASSUME NEW S, IsFiniteSet(S), NEW f
    PROVE  \E g : Sums(g, f, S)
<1> DEFINE D(n) == {s \in SUBSET S : Cardinality(s) <= n}
           Upto(g, n) == /\ g = [s \in D(n) |-> g[s]]
                         /\ g[{}] = 0
                         /\ \A s \in D(n) : s # {} => g[s] = f[Pick(s)] + g[s \ {Pick(s)}]
           Bad == {n \in Nat : ~\E g : Upto(g, n)}
<1>1. \A s \in SUBSET S :
         /\ IsFiniteSet(s) /\ Cardinality(s) \in Nat
         /\ s # {} => /\ Pick(s) \in s
                      /\ Cardinality(s) > 0
                      /\ Cardinality(s \ {Pick(s)}) = Cardinality(s) - 1
  <2> TAKE s \in SUBSET S
  <2>1. IsFiniteSet(s) /\ Cardinality(s) \in Nat
    BY FS_Subset, FS_CardinalityType
  <2>2. ASSUME s # {} PROVE Pick(s) \in s /\ Cardinality(s) > 0
    BY <2>1, <2>2, FS_EmptySet DEF Pick
  <2> QED BY <2>1, <2>2, FS_RemoveElement
<1>2. \A n \in Nat : {} \in D(n)
  BY FS_EmptySet
<1>3. \E g : Upto(g, 0)
  <2>1. D(0) = {{}}
    <3>1. ASSUME NEW s \in D(0) PROVE s = {}
      <4>1. s \in SUBSET S /\ Cardinality(s) <= 0
        BY <3>1
      <4>2. Cardinality(s) \in Nat /\ (s # {} => Cardinality(s) > 0)
        BY <1>1, <4>1
      <4> QED BY <4>1, <4>2
    <3>2. {} \in D(0)
      BY <1>2
    <3> QED BY <3>1, <3>2
  <2>2. Upto([s \in D(0) |-> 0], 0)
    BY <2>1
  <2> QED BY <2>2
<1>4. ASSUME NEW n \in Nat, \E g : Upto(g, n) PROVE \E g : Upto(g, n + 1)
  <2>1. PICK g : Upto(g, n)
    BY <1>4
  <2> DEFINE h == [s \in D(n + 1) |-> IF s = {} THEN 0 ELSE f[Pick(s)] + g[s \ {Pick(s)}]]
  <2>2. h[{}] = 0
    BY <1>2
  <2>3. \A s \in D(n) : s \in D(n + 1) /\ h[s] = g[s]
    <3> TAKE s \in D(n)
    <3>1. s \in D(n + 1)
      <4>1. s \in SUBSET S /\ Cardinality(s) <= n
        OBVIOUS
      <4>2. Cardinality(s) \in Nat
        BY <1>1, <4>1
      <4> QED BY <4>1, <4>2
    <3>2. g[s] = IF s = {} THEN 0 ELSE f[Pick(s)] + g[s \ {Pick(s)}]
      <4> HIDE DEF D
      <4> QED BY <2>1
    <3> QED BY <3>1, <3>2
  <2>4. \A s \in D(n + 1) : s # {} => s \ {Pick(s)} \in D(n)
    BY <1>1
  <2>5. \A s \in D(n + 1) : s # {} => h[s] = f[Pick(s)] + h[s \ {Pick(s)}]
    BY <2>3, <2>4
  <2>6. h = [s \in D(n + 1) |-> h[s]]
    OBVIOUS
  <2> HIDE DEF h
  <2> QED BY <2>2, <2>5, <2>6
<1>5. Bad = {}
  <2> SUFFICES ASSUME Bad # {} PROVE FALSE
    OBVIOUS
  <2>1. PICK n \in Bad : \A m \in Bad : <<m, n>> \notin OpToRel(<, Nat)
    <3> HIDE DEF Bad
    <3>1. Bad \subseteq Nat
      BY DEF Bad
    <3> QED BY <3>1, WFMin, NatLessThanWellFounded
  <2>2. n \in Nat /\ ~\E g : Upto(g, n)
    OBVIOUS
  <2> HIDE DEF Upto
  <2>3. n # 0 /\ n - 1 \in Nat /\ n = (n - 1) + 1
    BY <1>3, <2>2
  <2>4. n - 1 \notin Bad
    <3> HIDE DEF Bad
    <3>1. <<n - 1, n>> \in OpToRel(<, Nat)
      BY <2>2, <2>3 DEF OpToRel
    <3> QED BY <2>1, <3>1
  <2>5. \E g : Upto(g, n - 1)
    BY <2>3, <2>4
  <2>6. \E g : Upto(g, (n - 1) + 1)
    BY <1>4, <2>3, <2>5
  <2> QED BY <2>2, <2>3, <2>6
<1>6. PICK g : Upto(g, Cardinality(S))
  BY <1>1, <1>5
<1>7. D(Cardinality(S)) = SUBSET S
  BY FS_Subset
<1> QED BY <1>6, <1>7 DEF Sums

\* SumFunction is the sum over all indices.
LEMMA SumIsSums ==
    ASSUME NEW S, IsFiniteSet(S), NEW f, DOMAIN f = S
    PROVE  \E g : Sums(g, f, S) /\ SumFunction(f) = g[S]
<1> DEFINE Is(g) == g = [s \in SUBSET S |->
                          IF s = {} THEN 0
                          ELSE f[CHOOSE x \in s : TRUE] + g[s \ {CHOOSE x \in s : TRUE}]]
<1>1. \E g : Is(g)
  <2>1. PICK g : Sums(g, f, S)
    BY SumsExist
  <2>2. Is(g)
    BY <2>1 DEF Sums, Pick
  <2> QED BY <2>2
<1>2. \E g : g = (CHOOSE h : Is(h)) /\ SumFunction(f) = g[S]
  BY DEF SumFunction, SumFunctionOnSet, FoldFunctionOnSet, MapThenFoldSet
<1>3. PICK g : g = (CHOOSE h : Is(h)) /\ SumFunction(f) = g[S]
  BY <1>2
<1>4. Is(g)
  BY <1>1, <1>3
<1>5. Sums(g, f, S)
  BY <1>4 DEF Sums, Pick
<1> QED BY <1>3, <1>5

\* A sum of numbers is a number, and of natural numbers a natural one.
LEMMA SumType ==
    ASSUME NEW S, IsFiniteSet(S), NEW f \in [S -> Int]
    PROVE  /\ SumFunction(f) \in Int
           /\ (\A s \in S : f[s] >= 0) => SumFunction(f) >= 0
<1>1. PICK g : Sums(g, f, S) /\ SumFunction(f) = g[S]
  BY SumIsSums
<1> DEFINE Good == {s \in SUBSET S : g[s] \in Int /\ ((\A x \in S : f[x] >= 0) => g[s] >= 0)}
<1>2. {} \in Good
  BY <1>1 DEF Sums
<1>3. \A s \in SUBSET S : s # {} /\ s \ {Pick(s)} \in Good => s \in Good
  <2> SUFFICES ASSUME NEW s \in SUBSET S, s # {}, s \ {Pick(s)} \in Good PROVE s \in Good
    OBVIOUS
  <2>1. Pick(s) \in S /\ f[Pick(s)] \in Int
    BY DEF Pick
  <2>2. g[s] = f[Pick(s)] + g[s \ {Pick(s)}]
    BY <1>1 DEF Sums
  <2> QED BY <2>1, <2>2
<1>4. S \in Good
  <2> HIDE DEF Good
  <2> QED BY <1>2, <1>3, SubsetInduction
<1> QED BY <1>1, <1>4

\* A sum of sums.
LEMMA SumAdd ==
    ASSUME NEW S, IsFiniteSet(S), NEW f \in [S -> Int], NEW h \in [S -> Int],
           NEW k \in [S -> Int], \A s \in S : k[s] = f[s] + h[s]
    PROVE  SumFunction(k) = SumFunction(f) + SumFunction(h)
<1>1. PICK F : Sums(F, f, S) /\ SumFunction(f) = F[S]
  BY SumIsSums
<1>2. PICK H : Sums(H, h, S) /\ SumFunction(h) = H[S]
  BY SumIsSums
<1>3. PICK K : Sums(K, k, S) /\ SumFunction(k) = K[S]
  BY SumIsSums
<1> DEFINE Good == {s \in SUBSET S : /\ F[s] \in Int /\ H[s] \in Int
                                     /\ K[s] = F[s] + H[s]}
<1>4. {} \in Good
  BY <1>1, <1>2, <1>3 DEF Sums
<1>5. \A s \in SUBSET S : s # {} /\ s \ {Pick(s)} \in Good => s \in Good
  <2> SUFFICES ASSUME NEW s \in SUBSET S, s # {}, s \ {Pick(s)} \in Good PROVE s \in Good
    OBVIOUS
  <2>1. Pick(s) \in S /\ f[Pick(s)] \in Int /\ h[Pick(s)] \in Int
        /\ k[Pick(s)] = f[Pick(s)] + h[Pick(s)]
    BY DEF Pick
  <2>2. /\ F[s] = f[Pick(s)] + F[s \ {Pick(s)}]
        /\ H[s] = h[Pick(s)] + H[s \ {Pick(s)}]
        /\ K[s] = k[Pick(s)] + K[s \ {Pick(s)}]
    BY <1>1, <1>2, <1>3 DEF Sums
  <2> QED BY <2>1, <2>2
<1>6. S \in Good
  <2> HIDE DEF Good
  <2> QED BY <1>4, <1>5, SubsetInduction
<1> QED BY <1>1, <1>2, <1>3, <1>6

\* What one summand adds.
LEMMA SumChange ==
    ASSUME NEW S, IsFiniteSet(S), NEW f \in [S -> Int], NEW h \in [S -> Int], NEW a \in S,
           \A s \in S \ {a} : h[s] = f[s]
    PROVE  SumFunction(h) = SumFunction(f) + (h[a] - f[a])
<1>1. PICK F : Sums(F, f, S) /\ SumFunction(f) = F[S]
  BY SumIsSums
<1>2. PICK H : Sums(H, h, S) /\ SumFunction(h) = H[S]
  BY SumIsSums
<1> DEFINE d == h[a] - f[a]
           Good == {s \in SUBSET S : /\ F[s] \in Int
                                     /\ H[s] = F[s] + (IF a \in s THEN d ELSE 0)}
<1>3. d \in Int /\ h[a] = f[a] + d
  OBVIOUS
<1>4. {} \in Good
  BY <1>1, <1>2 DEF Sums
<1>5. \A s \in SUBSET S : s # {} /\ s \ {Pick(s)} \in Good => s \in Good
  <2> SUFFICES ASSUME NEW s \in SUBSET S, s # {}, s \ {Pick(s)} \in Good PROVE s \in Good
    OBVIOUS
  <2> HIDE DEF d
  <2>1. Pick(s) \in s /\ Pick(s) \in S /\ f[Pick(s)] \in Int /\ h[Pick(s)] \in Int
    BY DEF Pick
  <2>2. /\ F[s] = f[Pick(s)] + F[s \ {Pick(s)}]
        /\ H[s] = h[Pick(s)] + H[s \ {Pick(s)}]
    BY <1>1, <1>2 DEF Sums
  <2>3. CASE Pick(s) = a
    <3>1. a \notin s \ {Pick(s)} /\ a \in s
      BY <2>1, <2>3
    <3> QED BY <1>3, <2>1, <2>2, <2>3, <3>1
  <2>4. CASE Pick(s) # a
    <3>1. a \in s \ {Pick(s)} <=> a \in s
      BY <2>4
    <3>2. h[Pick(s)] = f[Pick(s)]
      BY <2>1, <2>4
    <3> QED BY <1>3, <2>1, <2>2, <3>1, <3>2
  <2> QED BY <2>3, <2>4
<1>6. S \in Good
  <2> HIDE DEF Good
  <2> QED BY <1>4, <1>5, SubsetInduction
<1> QED BY <1>1, <1>2, <1>6

\* Nothing adds up to nothing, and only nothing does.
LEMMA SumZero ==
    ASSUME NEW S, IsFiniteSet(S), NEW f \in [S -> Nat]
    PROVE  /\ SumFunction(f) = 0 <=> \A s \in S : f[s] = 0
           /\ \A s \in S : f[s] <= SumFunction(f)
<1>0. f \in [S -> Int] /\ SumFunction(f) \in Int /\ \A s \in S : f[s] \in Nat
  BY SumType
<1>1. ASSUME \A s \in S : f[s] = 0 PROVE SumFunction(f) = 0
  <2> DEFINE sum == SumFunction(f)
  <2>1. \A s \in S : f[s] = f[s] + f[s]
    BY <1>1
  <2>2. sum = sum + sum
    BY <1>0, <2>1, SumAdd
  <2>3. sum \in Int
    BY <1>0
  <2>4. sum = 0
    <3> HIDE DEF sum
    <3> QED BY <2>2, <2>3
  <2> QED BY <2>4
<1>2. ASSUME NEW a \in S PROVE f[a] <= SumFunction(f)
  <2> DEFINE h == [f EXCEPT ![a] = 0]
  <2>1. h \in [S -> Int] /\ h[a] = 0 /\ \A s \in S \ {a} : h[s] = f[s]
    BY <1>0
  <2>2. \A s \in S : h[s] >= 0
    BY <1>0
  <2> HIDE DEF h
  <2>3. SumFunction(h) = SumFunction(f) + (h[a] - f[a])
    BY <1>0, <2>1, SumChange
  <2>4. SumFunction(h) \in Int /\ SumFunction(h) >= 0
    BY <2>1, <2>2, SumType
  <2> QED BY <1>0, <2>1, <2>3, <2>4
<1> QED BY <1>0, <1>1, <1>2

-----------------------------------------------------------------------------
(* Tables.                                                                 *)

\* The sides are taken from the databases the constants give.
EnvOK ==
    [tidb |-> tidb, schema |-> schema, fields |-> fields, up |-> up, down |-> down] \in Databases

\* There are finitely many rows and shards, and keys are sequences of numbers.
LEMMA RowsFinite ==
    /\ IsFiniteSet(Row) /\ IsFiniteSet(Shards)
    /\ \A r \in Row : r.key \in Keys /\ r.key \in Key /\ r.val \in Int
<1>1. IsFiniteSet(Keys \X Vals)
  BY CompareAssumption, FS_Product
<1> DEFINE f == [p \in Keys \X Vals |-> [key |-> p[1], val |-> p[2]]]
<1>2. f \in Surjection(Keys \X Vals, Row)
  <2>1. f \in [Keys \X Vals -> Row]
    BY DEF Row
  <2>2. ASSUME NEW r \in Row PROVE \E p \in Keys \X Vals : f[p] = r
    <3>1. r.key \in Keys /\ r.val \in Vals /\ r = [key |-> r.key, val |-> r.val]
      BY DEF Row
    <3>2. <<r.key, r.val>> \in Keys \X Vals /\ f[<<r.key, r.val>>] = r
      BY <3>1
    <3> QED BY <3>2
  <2> QED BY <2>1, <2>2 DEF Surjection
<1>3. IsFiniteSet(Row)
  <2> HIDE DEF f
  <2> QED BY <1>1, <1>2, FS_Surjection
<1> QED BY <1>3, CompareAssumption DEF Row, Key

\* Counting over the shards: a row of the merged table is in some shard.
LEMMA MergedRow ==
    ASSUME NEW t \in [Shards -> Table]
    PROVE  /\ Merged(t) \in Table
           /\ \A r \in Row : Merged(t)[r] = 0 <=> \A s \in Shards : t[s][r] = 0
<1>1. ASSUME NEW r \in Row
      PROVE  /\ Merged(t)[r] \in Nat
             /\ Merged(t)[r] = 0 <=> \A s \in Shards : t[s][r] = 0
  <2> DEFINE f == [s \in Shards |-> t[s][r]]
  <2>1. \A s \in Shards : t[s][r] \in Nat
    BY DEF Table
  <2>2. f \in [Shards -> Nat] /\ f \in [Shards -> Int] /\ \A s \in Shards : f[s] >= 0
    BY <2>1
  <2>3. Merged(t)[r] = SumFunction(f)
    BY DEF Merged
  <2>4. /\ SumFunction(f) \in Int /\ SumFunction(f) >= 0
        /\ SumFunction(f) = 0 <=> \A s \in Shards : f[s] = 0
    <3> HIDE DEF f
    <3> QED BY <2>2, RowsFinite, SumType, SumZero
  <2> QED BY <2>3, <2>4
<1>2. Merged(t) = [r \in Row |-> Merged(t)[r]]
  BY DEF Merged
<1> QED BY <1>1, <1>2 DEF Table

\* Taking a row from a shard takes one from the merged table.
LEMMA MergedTake ==
    ASSUME NEW t \in [Shards -> Table], NEW u \in [Shards -> Table],
           NEW z \in Shards, NEW x \in Row, t[z][x] > 0,
           u[z] = Take(t[z], x), \A s \in Shards \ {z} : u[s] = t[s]
    PROVE  \A r \in Row : Merged(u)[r] = Merged(t)[r] - (IF r = x THEN 1 ELSE 0)
<1>1. t[z] \in Table /\ t[z][x] \in Nat /\ t[z][x] - 1 \in Nat
  BY DEF Table
<1>2. /\ Take(t[z], x)[x] = t[z][x] - 1
      /\ \A r \in Row \ {x} : Take(t[z], x)[r] = t[z][r]
  BY <1>1 DEF Take, Table
<1>3. ASSUME NEW r \in Row PROVE Merged(u)[r] = Merged(t)[r] - (IF r = x THEN 1 ELSE 0)
  <2> DEFINE f == [s \in Shards |-> t[s][r]]
             h == [s \in Shards |-> u[s][r]]
  <2>1. /\ f \in [Shards -> Int] /\ h \in [Shards -> Int]
        /\ f[z] = t[z][r] /\ h[z] = u[z][r] /\ f[z] \in Int /\ h[z] \in Int
        /\ \A s \in Shards \ {z} : h[s] = f[s]
    BY DEF Table
  <2>2. h[z] - f[z] = 0 - (IF r = x THEN 1 ELSE 0)
    BY <1>1, <1>2, <2>1
  <2>3. Merged(u)[r] = SumFunction(h) /\ Merged(t)[r] = SumFunction(f)
    BY DEF Merged
  <2> HIDE DEF f, h
  <2>4. SumFunction(h) = SumFunction(f) + (h[z] - f[z]) /\ SumFunction(f) \in Int
    BY <2>1, RowsFinite, SumChange, SumType
  <2> QED BY <2>2, <2>3, <2>4
<1> QED BY <1>3

\* What the queries of the shards return is what one query would.
LEMMA MergedWithin ==
    ASSUME NEW t \in [Shards -> Table], NEW u \in [Shards -> Table], NEW rg,
           \A s \in Shards : u[s] = Within(t[s], rg)
    PROVE  \A r \in Row : Merged(u)[r] = Within(Merged(t), rg)[r]
<1>1. ASSUME NEW r \in Row PROVE Merged(u)[r] = Within(Merged(t), rg)[r]
  <2>1. CASE Selected(rg, r)
    <3>1. [s \in Shards |-> u[s][r]] = [s \in Shards |-> t[s][r]]
      BY <2>1 DEF Within
    <3> QED BY <2>1, <3>1 DEF Merged, Within
  <2>2. CASE ~Selected(rg, r)
    <3>1. \A s \in Shards : u[s][r] = 0
      BY <2>2 DEF Within
    <3>2. Merged(u)[r] = 0
      BY <3>1, MergedRow
    <3> QED BY <2>2, <3>2 DEF Within
  <2> QED BY <2>1, <2>2
<1> QED BY <1>1

\* How many rows there are.
LEMMA CountType ==
    ASSUME NEW t \in Table
    PROVE  Count(t) \in Nat
<1>1. t \in [Row -> Int] /\ \A r \in Row : t[r] >= 0
  BY DEF Table
<1> QED BY <1>1, RowsFinite, SumType DEF Count

\* What is known of the two sides.
LEMMA Sides2 ==
    ASSUME EnvOK
    PROVE  /\ tidb \in SUBSET Sides /\ schema \in Schemas
           /\ up \in [Shards -> Table] /\ down \in Table /\ Upstream \in Table
           /\ schema # "none" => UniqueKey(Upstream) /\ UniqueKey(down)
<1> DEFINE d == [tidb |-> tidb, schema |-> schema, fields |-> fields, up |-> up, down |-> down]
<1>1. d \in Database /\ (d.schema # "none" => UniqueKey(Merged(d.up)) /\ UniqueKey(d.down))
  BY CompareAssumption DEF EnvOK
<1>2. /\ d.tidb \in SUBSET Sides /\ d.schema \in Schemas
      /\ d.up \in [Shards -> Table] /\ d.down \in Table
  <2> HIDE DEF d
  <2> QED BY <1>1 DEF Database
<1>3. up \in [Shards -> Table]
  BY <1>2
<1> QED BY <1>1, <1>2, <1>3, MergedRow DEF Upstream

-----------------------------------------------------------------------------
(* The order the rows come in.                                             *)

\* RowLess is a strict order, in which two rows that are not ordered have the
\* same key, and are the same row when there is no unique key.
LEMMA RowOrder ==
    ASSUME NEW r \in Row, NEW s \in Row
    PROVE  /\ ~RowLess(r, r)
           /\ RowLess(r, s) => ~RowLess(s, r)
           /\ SameOrderKey(r, s) => r.key = s.key /\ (schema = "none" => r = s)
           /\ schema # "none" /\ r.key = s.key => SameOrderKey(r, s)
<1>1. r.key \in Key /\ s.key \in Key /\ r.val \in Int /\ s.val \in Int
  BY RowsFinite
<1>2. /\ ~KeyLess(r.key, r.key)
      /\ r.key = s.key \/ KeyLess(r.key, s.key) \/ KeyLess(s.key, r.key)
      /\ KeyLess(r.key, s.key) => ~KeyLess(s.key, r.key) /\ r.key # s.key
  BY <1>1, KeyLessTotal, KeyLessIrreflexive
<1>3. ~RowLess(r, r)
  BY <1>1, <1>2 DEF RowLess
<1>4. RowLess(r, s) => ~RowLess(s, r)
  BY <1>1, <1>2 DEF RowLess
<1>5. SameOrderKey(r, s) => r.key = s.key
  BY <1>2 DEF SameOrderKey, RowLess
<1>6. ASSUME SameOrderKey(r, s), schema = "none" PROVE r = s
  <2>1. r.key = s.key
    BY <1>5, <1>6
  <2>2. r.val = s.val
    BY <1>1, <1>6, <2>1 DEF SameOrderKey, RowLess
  <2> QED BY <2>1, <2>2 DEF Row
<1>7. ASSUME schema # "none", r.key = s.key PROVE SameOrderKey(r, s)
  BY <1>2, <1>7 DEF SameOrderKey, RowLess
<1> QED BY <1>3, <1>4, <1>5, <1>6, <1>7

\* The order is transitive.
LEMMA RowLessTransitive ==
    ASSUME NEW r \in Row, NEW s \in Row, NEW x \in Row, RowLess(r, s), RowLess(s, x)
    PROVE  RowLess(r, x)
<1>1. /\ r.key \in Key /\ s.key \in Key /\ x.key \in Key
      /\ r.val \in Int /\ s.val \in Int /\ x.val \in Int
  BY RowsFinite
<1>2. KeyLess(r.key, s.key) /\ KeyLess(s.key, x.key) => KeyLess(r.key, x.key)
  BY <1>1, KeyLessTransitive
<1>3. r.val < s.val /\ s.val < x.val => r.val < x.val
  BY <1>1
<1>4. CASE KeyLess(r.key, s.key)
  BY <1>2, <1>4 DEF RowLess
<1>5. CASE schema = "none" /\ r.key = s.key /\ r.val < s.val
  BY <1>3, <1>5 DEF RowLess
<1> QED BY <1>4, <1>5 DEF RowLess

\* Of some rows one is least.
LEMMA LeastRow ==
    ASSUME NEW R \in SUBSET Row, R # {}
    PROVE  \E m \in R : \A x \in R : ~RowLess(x, m)
<1> DEFINE Least(s, m) == m \in s /\ \A x \in s : ~RowLess(x, m)
           Good == {s \in SUBSET Row : s = {} \/ \E m \in Row : Least(s, m)}
<1>1. {} \in Good
  OBVIOUS
<1>2. \A s \in SUBSET Row : s # {} /\ s \ {Pick(s)} \in Good => s \in Good
  <2> SUFFICES ASSUME NEW s \in SUBSET Row, s # {}, s \ {Pick(s)} \in Good PROVE s \in Good
    OBVIOUS
  <2> DEFINE p == Pick(s)
  <2>1. p \in s /\ p \in Row
    BY DEF Pick
  <2> HIDE DEF p
  <2>2. CASE s \ {p} = {}
    <3>1. \A x \in s : x = p
      BY <2>2
    <3>2. Least(s, p)
      BY <2>1, <3>1, RowOrder
    <3> QED BY <2>1, <3>2
  <2>3. CASE s \ {p} # {}
    <3>1. PICK m \in Row : Least(s \ {p}, m)
      BY <2>3 DEF p
    <3>2. CASE ~RowLess(p, m)
      <4>1. Least(s, m)
        BY <3>1, <3>2
      <4> QED BY <4>1
    <3>3. CASE RowLess(p, m)
      <4>1. ASSUME NEW x \in s PROVE ~RowLess(x, p)
        <5>1. CASE x = p
          BY <2>1, <5>1, RowOrder
        <5>2. CASE x # p
          <6>1. ~RowLess(x, m) /\ x \in Row
            BY <3>1, <5>2
          <6> QED BY <2>1, <3>3, <6>1, RowLessTransitive
        <5> QED BY <5>1, <5>2
      <4>2. Least(s, p)
        BY <2>1, <4>1
      <4> QED BY <2>1, <4>2
    <3> QED BY <3>2, <3>3
  <2> QED BY <2>2, <2>3
<1>3. R \in Good
  <2> HIDE DEF Good
  <2> QED BY <1>1, <1>2, RowsFinite, SubsetInduction
<1> QED BY <1>3

\* The rows a result set offers first come before all of it.
LEMMA FirstRow ==
    ASSUME NEW t \in Table, NEW x \in Row, t[x] > 0
    PROVE  \E h \in First(t) : h \in Row /\ ~RowLess(x, h)
<1> DEFINE R == {r \in Row : t[r] > 0}
<1>1. PICK m \in R : \A r \in R : ~RowLess(r, m)
  <2>1. R # {} /\ R \in SUBSET Row
    OBVIOUS
  <2> HIDE DEF R
  <2> QED BY <2>1, LeastRow
<1> QED BY <1>1 DEF First

\* MultiSourceRowsIterator.Next returns a least row of all shards together.
LEMMA LeastOfShards ==
    ASSUME NEW t \in [Shards -> Table], NEW r \in Row,
           \A z \in Shards : \A h \in First(t[z]) : ~RowLess(h, r),
           NEW x \in Row, Merged(t)[x] > 0
    PROVE  ~RowLess(x, r)
<1>1. PICK z \in Shards : t[z][x] # 0
  BY MergedRow
<1>2. t[z] \in Table /\ t[z][x] > 0
  BY <1>1 DEF Table
<1>3. PICK h \in First(t[z]) : h \in Row /\ ~RowLess(x, h)
  BY <1>2, FirstRow
<1>4. ~RowLess(h, r)
  BY <1>3
<1> SUFFICES ASSUME RowLess(x, r) PROVE FALSE
  OBVIOUS
<1>5. SameOrderKey(x, h) \/ RowLess(h, x)
  BY <1>3 DEF SameOrderKey
<1>6. CASE RowLess(h, x)
  BY <1>3, <1>4, <1>6, RowLessTransitive
<1>7. CASE SameOrderKey(x, h)
  <2>1. x.key = h.key /\ (schema = "none" => x = h)
    BY <1>3, <1>7, RowOrder
  <2> QED BY <1>4, <2>1 DEF RowLess
<1> QED BY <1>5, <1>6, <1>7

-----------------------------------------------------------------------------
(* What the search may conclude from the checksums.                        *)

\* With a unique key, equal checksums of a range mean equal rows.
LEMMA ChecksumTells ==
    ASSUME EnvOK, schema # "none", NEW rg, SameChecksum(rg), NEW r \in Row, Selected(rg, r)
    PROVE  Upstream[r] = down[r]
<1>1. ASSUME NEW t \in Table, UniqueKey(t)
      PROVE  /\ t[r] = 0 \/ t[r] = 1
             /\ t[r] = 1 <=> r \in Odd(Within(t, rg))
  <2>1. t[r] \in Nat /\ (t[r] > 0 => t[r] = 1)
    BY <1>1 DEF Table, UniqueKey
  <2>2. Within(t, rg)[r] = t[r]
    BY DEF Within
  <2>3. 0 % 2 = 0 /\ 1 % 2 = 1
    OBVIOUS
  <2> QED BY <2>1, <2>2, <2>3 DEF Odd
<1>2. Odd(Within(Upstream, rg)) = Odd(Within(down, rg))
  BY DEF SameChecksum, Upstream
<1>3. /\ Upstream \in Table /\ UniqueKey(Upstream)
      /\ down \in Table /\ UniqueKey(down)
  BY Sides2
<1> QED BY <1>1, <1>2, <1>3

\* Equal rows have equal checksums.
LEMMA EqualChecksum ==
    ASSUME EnvOK, NEW rg, \A r \in Row : Selected(rg, r) => Upstream[r] = down[r]
    PROVE  SameChecksum(rg)
<1>1. Within(Upstream, rg) = Within(down, rg)
  BY DEF Within
<1> QED BY <1>1 DEF SameChecksum, Upstream

-----------------------------------------------------------------------------
(* The invariant.                                                          *)

Bounds == Keys \cup {<<>>}

\* The variables have their types.
TypeInv ==
    /\ EnvOK
    /\ ph \in {"checksum", "bin", "open", "rows", "done", "dead"}
    /\ range \in [lower : Bounds, upper : Bounds]
    /\ unreadUp \in [Shards -> Table] /\ unreadDown \in Table
    /\ lastUp \in Row \cup {Nil, End} /\ lastDown \in Row \cup {Nil, End}
    /\ count \in Nat /\ adds \in Nat /\ dels \in Nat
    /\ equal \in BOOLEAN /\ err \in BOOLEAN
    /\ fixed \in Table /\ cut \in SUBSET Sides

\* The search: the sides differ, in the chunk and in the range; and if the chunk
\* is searched as it is ranged, all that differs is in the range.
SearchInv ==
    /\ ph \in {"checksum", "bin", "open"} =>
          /\ equal /\ adds = 0 /\ dels = 0 /\ fixed = down /\ cut = {}
          /\ lastUp = Nil /\ lastDown = Nil
    /\ ph \in {"bin", "open", "rows"} =>
          /\ ~SameChecksum(Whole) /\ ~SameChecksum(range)
          /\ schema # "fields" => \A r \in Row : Upstream[r] # down[r] => Selected(range, r)
    /\ ph = "checksum" => range = Whole
    /\ ph = "bin" => count = CountUp(range)
    /\ schema # "fields" => ph # "dead"

\* The rows compareRows has not dealt with.
LeftUp(r)   == Merged(unreadUp)[r] + IF lastUp = r THEN 1 ELSE 0
LeftDown(r) == unreadDown[r] + IF lastDown = r THEN 1 ELSE 0

\* The row at hand comes before the rows to come.
OrderInv ==
    /\ lastUp \in Row => \A r \in Row : Merged(unreadUp)[r] > 0 => ~RowLess(r, lastUp)
    /\ lastDown \in Row => \A r \in Row : unreadDown[r] > 0 => ~RowLess(r, lastDown)
    /\ lastUp = End => \A r \in Row : Merged(unreadUp)[r] = 0
    /\ lastDown = End => \A r \in Row : unreadDown[r] = 0

\* With a unique key, a key is still as it was, or is repaired, or its row was
\* lost when the downstream's stream broke off.
AsItWas(k) == \A r \in Row : r.key = k =>
    fixed[r] = down[r] /\ LeftDown(r) = down[r] /\ LeftUp(r) = Upstream[r]
Settled(k) == \A r \in Row : r.key = k =>
    fixed[r] = Upstream[r] /\ LeftDown(r) = 0 /\ LeftUp(r) = 0
Dropped(k) == "down" \in cut /\ \A r \in Row : r.key = k =>
    fixed[r] = down[r] /\ LeftDown(r) = 0 /\ LeftUp(r) = Upstream[r]

KeyedInv == \A k \in Keys : AsItWas(k) \/ Settled(k) \/ Dropped(k)

\* Without one, the statements make up for the copies that were read, and do
\* not add and delete the same row.
BagInv ==
    \A r \in Row :
        /\ fixed[r] + LeftUp(r) >= Upstream[r] + LeftDown(r)
        /\ cut = {} => fixed[r] + LeftUp(r) = Upstream[r] + LeftDown(r)
        /\ fixed[r] < down[r] => LeftUp(r) = 0
        /\ fixed[r] > down[r] => LeftDown(r) = 0

WalkInv ==
    ph = "rows" /\ "up" \notin cut /\ schema # "fields" =>
        /\ OrderInv
        /\ IF schema = "none" THEN BagInv ELSE KeyedInv
        /\ equal => fixed = down
        /\ cut = {} => adds = Surplus(fixed, down) /\ dels = Surplus(down, fixed)

\* In a chunk searched by other columns the walk may see one row of a key and
\* not the other.  It does not come to the end of what both sides have on one
\* side only, and passes nothing over that is not on both.
ApartInv ==
    ph = "rows" /\ "up" \notin cut /\ schema = "fields" =>
        /\ OrderInv
        /\ \A r \in Row :
             /\ LeftUp(r) <= Upstream[r] /\ LeftDown(r) <= down[r]
             /\ Upstream[r] > 0 /\ down[r] > 0 => fixed[r] >= down[r] /\ LeftDown(r) <= LeftUp(r)
             /\ equal /\ cut = {} =>
                  LeftUp(r) + Within(down, range)[r] = LeftDown(r) + Within(Upstream, range)[r]

\* The outcome.
DoneInv ==
    Clean =>
        /\ equal <=> SameChecksum(Whole)
        /\ schema # "fields" /\ ~equal =>
               /\ fixed = Upstream
               /\ adds = Surplus(Upstream, down) /\ dels = Surplus(down, Upstream)

\* No row that both sides have is lost, and by a search of other columns none
\* that neither has comes in.
SharedInv ==
    "up" \notin cut => \A r \in Row :
        /\ fixed[r] >= Upstream[r] \/ fixed[r] >= down[r]
        /\ schema = "fields" => fixed[r] <= Upstream[r] \/ fixed[r] <= down[r]

CompareInv == TypeInv /\ SearchInv /\ WalkInv /\ ApartInv /\ DoneInv /\ SharedInv

-----------------------------------------------------------------------------
(* Types.                                                                  *)

\* Nil and End are not rows.
LEMMA NotRows == Nil \notin Row /\ End \notin Row /\ Nil # End
  BY CompareAssumption

\* The results of queries and statements are tables.
LEMMA TableOps ==
    ASSUME NEW t \in Table, NEW x \in Row
    PROVE  /\ \A rg : Within(t, rg) \in Table
           /\ t[x] > 0 => Take(t, x) \in Table
           /\ Replaced(t, x) \in Table /\ Deleted(t, x) \in Table
<1>1. \A r \in Row : t[r] \in Nat /\ t[r] + 1 \in Nat /\ (t[r] > 0 => t[r] - 1 \in Nat)
  BY DEF Table
<1>2. \A rg : Within(t, rg) \in Table
  BY <1>1 DEF Table, Within
<1>3. t[x] > 0 => Take(t, x) \in Table
  BY <1>1 DEF Table, Take
<1>4. Replaced(t, x) \in Table
  <2>1. CASE schema = "none"
    BY <1>1, <2>1 DEF Table, Replaced
  <2>2. CASE schema # "none"
    BY <1>1, <2>2 DEF Table, Replaced
  <2> QED BY <2>1, <2>2
<1>5. Deleted(t, x) \in Table
  BY <1>1 DEF Table, Deleted
<1> QED BY <1>2, <1>3, <1>4, <1>5

\* No rows are a table, too.
LEMMA EmptyTable == Empty \in Table /\ \A r \in Row : Empty[r] = 0
  BY DEF Empty, Table

\* CountUp returns a number.
LEMMA CountUpType ==
    ASSUME EnvOK, NEW rg
    PROVE  CountUp(rg) \in Nat
<1>1. Within(Upstream, rg) \in Table
  BY Sides2 DEF Table, Within
<1> QED BY <1>1, CountType DEF CountUp, Upstream

\* A middle of binSearch is the key of a row in the range.
LEMMA MidInRange ==
    ASSUME NEW mid \in Mids
    PROVE  mid \in Keys /\ mid \in Key /\ (schema # "fields" => Selects(range, mid))
<1>1. PICK m \in Row : Within(workSource, range)[m] > 0 /\ mid = m.key
  BY DEF Mids
<1>2. Selected(range, m)
  BY <1>1 DEF Within
<1> QED BY <1>1, <1>2, RowsFinite DEF Selected

\* The variables have their types at first.
LEMMA TypeInit == ASSUME CompareInit PROVE TypeInv
<1>1. PICK d \in Databases : /\ tidb = d.tidb /\ schema = d.schema /\ fields = d.fields
                               /\ up = d.up /\ down = d.down
  BY DEF CompareInit
<1>2. d \in Database
  BY CompareAssumption
<1>3. d = [tidb |-> tidb, schema |-> schema, fields |-> fields, up |-> up, down |-> down]
  BY <1>1, <1>2 DEF Database
<1>4. EnvOK
  BY <1>1, <1>3 DEF EnvOK
<1>5. range \in [lower : Bounds, upper : Bounds]
  BY DEF CompareInit, Whole, Bounds
<1>6. unreadUp \in [Shards -> Table] /\ unreadDown \in Table
  BY EmptyTable DEF CompareInit
<1>7. fixed \in Table
  BY <1>4, Sides2 DEF CompareInit
<1> QED BY <1>4, <1>5, <1>6, <1>7 DEF CompareInit, TypeInv

\* Every step keeps the types.
LEMMA TypeStep == ASSUME TypeInv, CompareNext PROVE TypeInv'
<1>1. EnvOK' /\ EnvOK
  <2>1. UNCHANGED env
    BY DEF CompareNext, Goes, Breaks, Checksum, BinKeep, BinStop, BinLeft, BinRight, BinGo, BinDies,
           OpenRows, NextUp, NextDown, SameRow, DeleteRow, InsertRow, UpdateRow, RowsEnd,
           ChecksumFails, BinFails, RowsFail, CutUp, CutDown
  <2> QED BY <2>1 DEF TypeInv, EnvOK, env
<1>2. CASE Checksum
  BY <1>1, <1>2, CountUpType DEF TypeInv, Checksum, env, streams, verdict
<1>3. CASE BinKeep \/ BinStop \/ BinDies
  BY <1>1, <1>3 DEF TypeInv, BinKeep, BinStop, BinDies, env, search, streams, verdict
<1>4. ASSUME NEW mid \in Mids, BinGo(Left(mid), Right(mid)) \/ BinGo(Right(mid), Left(mid))
      PROVE  TypeInv'
  <2>1. mid \in Bounds
    BY MidInRange DEF Bounds
  <2>2. Left(mid) \in [lower : Bounds, upper : Bounds] /\ Right(mid) \in [lower : Bounds, upper : Bounds]
    BY <2>1 DEF TypeInv, Left, Right
  <2>3. count' \in Nat /\ range' \in [lower : Bounds, upper : Bounds]
    BY <1>1, <1>4, <2>2, CountUpType DEF BinGo
  <2> QED BY <1>1, <1>4, <2>3 DEF TypeInv, BinGo, env, streams, verdict
<1>5. CASE OpenRows
  <2>1. unreadUp' \in [Shards -> Table]
    <3>1. \A s \in Shards : Within(up[s], range) \in Table
      BY <1>1, Sides2 DEF Table, Within
    <3> QED BY <1>5, <3>1 DEF OpenRows
  <2>2. unreadDown' \in Table
    BY <1>1, <1>5, Sides2 DEF OpenRows, Table, Within
  <2> QED BY <1>1, <1>5, <2>1, <2>2 DEF TypeInv, OpenRows, env, search, verdict
<1>6. CASE NextUp
  <2>1. lastUp' \in Row \cup {Nil, End} /\ unreadUp' \in [Shards -> Table]
    <3>1. CASE lastUp' = End /\ UNCHANGED unreadUp
      BY <3>1 DEF TypeInv
    <3>2. ASSUME NEW s \in Shards, NEW r \in First(unreadUp[s]), lastUp' = r,
                 unreadUp' = [unreadUp EXCEPT ![s] = Take(@, r)]
          PROVE  lastUp' \in Row \cup {Nil, End} /\ unreadUp' \in [Shards -> Table]
      <4>1. r \in Row /\ unreadUp[s][r] > 0
        BY DEF First
      <4>2. unreadUp[s] \in Table /\ Take(unreadUp[s], r) \in Table
        BY <4>1, TableOps DEF TypeInv
      <4> QED BY <3>2, <4>1, <4>2 DEF TypeInv
    <3> QED BY <1>6, <3>1, <3>2 DEF NextUp
  <2> QED BY <1>1, <1>6, <2>1 DEF TypeInv, NextUp, env, search, verdict
<1>7. CASE NextDown
  <2>1. lastDown' \in Row \cup {Nil, End} /\ unreadDown' \in Table
    <3>1. CASE lastDown' = End /\ UNCHANGED unreadDown
      BY <3>1 DEF TypeInv
    <3>2. ASSUME NEW r \in First(unreadDown), lastDown' = r, unreadDown' = Take(unreadDown, r)
          PROVE  lastDown' \in Row \cup {Nil, End} /\ unreadDown' \in Table
      <4>1. r \in Row /\ unreadDown[r] > 0
        BY DEF First
      <4> QED BY <3>2, <4>1, TableOps DEF TypeInv
    <3> QED BY <1>7, <3>1, <3>2 DEF NextDown
  <2> QED BY <1>1, <1>7, <2>1 DEF TypeInv, NextDown, env, search, verdict
<1>8. CASE SameRow \/ RowsEnd
  BY <1>1, <1>8 DEF TypeInv, SameRow, RowsEnd, env, search, streams, verdict
<1>9. CASE DeleteRow
  <2>1. fixed' \in Table
    BY <1>9, TableOps DEF TypeInv, DeleteRow
  <2>2. adds' \in Nat /\ dels' \in Nat
    BY <1>9 DEF TypeInv, DeleteRow
  <2>3. equal' \in BOOLEAN /\ err' \in BOOLEAN
    BY <1>9 DEF TypeInv, DeleteRow
  <2> QED BY <1>1, <1>9, <2>1, <2>2, <2>3 DEF TypeInv, DeleteRow, env, search, streams
<1>10. CASE InsertRow
  <2>1. fixed' \in Table
    BY <1>10, TableOps DEF TypeInv, InsertRow
  <2>2. adds' \in Nat /\ dels' \in Nat
    BY <1>10 DEF TypeInv, InsertRow
  <2>3. equal' \in BOOLEAN /\ err' \in BOOLEAN
    BY <1>10 DEF TypeInv, InsertRow
  <2> QED BY <1>1, <1>10, <2>1, <2>2, <2>3 DEF TypeInv, InsertRow, env, search, streams
<1>11. CASE UpdateRow
  <2>1. fixed' \in Table
    BY <1>11, TableOps DEF TypeInv, UpdateRow
  <2>2. adds' \in Nat /\ dels' \in Nat
    BY <1>11 DEF TypeInv, UpdateRow
  <2>3. equal' \in BOOLEAN /\ err' \in BOOLEAN
    BY <1>11 DEF TypeInv, UpdateRow
  <2> QED BY <1>1, <1>11, <2>1, <2>2, <2>3 DEF TypeInv, UpdateRow, env, search, streams
<1>12. CASE ChecksumFails \/ RowsFail
  <2>1. adds' \in Nat /\ dels' \in Nat
    BY <1>12 DEF TypeInv, ChecksumFails, RowsFail
  <2>2. equal' \in BOOLEAN /\ err' \in BOOLEAN
    BY <1>12 DEF ChecksumFails, RowsFail
  <2>3. ph' = "done" /\ UNCHANGED <<search, streams, lastUp, lastDown, fixed, cut>>
    BY <1>12 DEF ChecksumFails, RowsFail
  <2> QED BY <1>1, <2>1, <2>2, <2>3 DEF TypeInv, search, streams
<1>13. CASE BinFails
  BY <1>1, <1>13 DEF TypeInv, BinFails, Whole, Bounds, env, streams, verdict
<1>14. CASE CutUp
  BY <1>1, <1>14, EmptyTable DEF TypeInv, CutUp, Sides, env, search, verdict
<1>15. CASE CutDown
  BY <1>1, <1>15, EmptyTable DEF TypeInv, CutDown, Sides, env, search, verdict
<1> QED BY <1>2, <1>3, <1>4, <1>5, <1>6, <1>7, <1>8, <1>9, <1>10, <1>11, <1>12, <1>13,
           <1>14, <1>15
    DEF CompareNext, Goes, Breaks, BinLeft, BinRight

-----------------------------------------------------------------------------
(* The search.                                                             *)

\* The open range holds every row.
LEMMA WholeSelects ==
    ASSUME schema # "fields", NEW r \in Row
    PROVE  Selected(Whole, r)
<1>1. Whole.lower = <<>> /\ Whole.upper = <<>>
  BY DEF Whole
<1> QED BY <1>1, RowsFinite, ClauseIsInterval DEF Bound, Selected

\* Every row of the range is in exactly one half.
LEMMA Halves ==
    ASSUME TypeInv, schema # "fields", NEW mid \in Mids, NEW r \in Row
    PROVE  /\ Selected(range, r) <=> Selected(Left(mid), r) \/ Selected(Right(mid), r)
           /\ ~(Selected(Left(mid), r) /\ Selected(Right(mid), r))
<1>1. range \in [lower : Bounds, upper : Bounds] /\ Bounds \subseteq Bound
  BY CompareAssumption DEF TypeInv, Bounds, Bound, Key
<1>2. /\ Left(mid).lower = range.lower /\ Left(mid).upper = mid
      /\ Right(mid).lower = mid /\ Right(mid).upper = range.upper
  BY <1>1 DEF Left, Right
<1>3. range.lower \in Bound /\ range.upper \in Bound
  BY <1>1
<1> QED BY <1>2, <1>3, MidInRange, RowsFinite, CutPartitions DEF Selected

\* The counts of the halves add up.
LEMMA HalvesCount ==
    ASSUME TypeInv, schema # "fields", NEW mid \in Mids
    PROVE  CountUp(Left(mid)) + CountUp(Right(mid)) = CountUp(range)
<1> DEFINE f == Within(Upstream, Left(mid))
           h == Within(Upstream, Right(mid))
           k == Within(Upstream, range)
<1>1. \A r \in Row : Upstream[r] \in Nat
  BY Sides2 DEF TypeInv, Table
<1>2. f \in [Row -> Int] /\ h \in [Row -> Int] /\ k \in [Row -> Int]
  BY <1>1 DEF Within
<1>3. \A r \in Row : k[r] = f[r] + h[r]
  <2> TAKE r \in Row
  <2>1. /\ k[r] = IF Selected(range, r) THEN Upstream[r] ELSE 0
        /\ f[r] = IF Selected(Left(mid), r) THEN Upstream[r] ELSE 0
        /\ h[r] = IF Selected(Right(mid), r) THEN Upstream[r] ELSE 0
    BY DEF Within
  <2> HIDE DEF f, h, k
  <2> QED BY <1>1, <2>1, Halves
<1>4. SumFunction(k) = SumFunction(f) + SumFunction(h)
  <2> HIDE DEF f, h, k
  <2> QED BY <1>2, <1>3, RowsFinite, SumAdd
<1> QED BY <1>4 DEF CountUp, Count, Upstream

\* Neither log.Fatal of binSearch is reached.
LEMMA FatalFree ==
    ASSUME TypeInv, SearchInv, Searching, schema # "fields", NEW mid \in Mids
    PROVE  ~BinImpossible(mid)
<1>1. count = CountUp(range) /\ ~SameChecksum(range) /\ schema # "none" /\ EnvOK
  BY DEF SearchInv, Searching, TypeInv
<1>2. ~(SameChecksum(Left(mid)) /\ SameChecksum(Right(mid)))
  <2> SUFFICES ASSUME SameChecksum(Left(mid)), SameChecksum(Right(mid)) PROVE FALSE
    OBVIOUS
  <2>1. \A r \in Row : Selected(range, r) => Upstream[r] = down[r]
    BY <1>1, Halves, ChecksumTells
  <2> QED BY <1>1, <2>1, EqualChecksum
<1> QED BY <1>1, <1>2, HalvesCount DEF BinImpossible

\* The half the search goes into has all the differences.
LEMMA HalfHoldsAll ==
    ASSUME TypeInv, SearchInv, Searching, schema # "fields",
           NEW mid \in Mids, NEW half, NEW other,
           \/ half = Left(mid) /\ other = Right(mid)
           \/ half = Right(mid) /\ other = Left(mid),
           SameChecksum(other)
    PROVE  \A r \in Row : Upstream[r] # down[r] => Selected(half, r)
<1> SUFFICES ASSUME NEW r \in Row, Upstream[r] # down[r] PROVE Selected(half, r)
  OBVIOUS
<1>1. Selected(range, r) /\ schema # "none" /\ EnvOK
  BY DEF SearchInv, Searching, TypeInv
<1>2. ~Selected(other, r)
  BY <1>1, ChecksumTells
<1> QED BY <1>1, <1>2, Halves

\* The search has nothing to do with the rows at first.
LEMMA SearchInit == ASSUME CompareInit PROVE SearchInv
  BY DEF CompareInit, SearchInv

\* While the databases stay, a range has the same rows.
LEMMA RangeFrame ==
    ASSUME UNCHANGED env
    PROVE  /\ Upstream' = Upstream
           /\ \A rg, r : Selected(rg, r)' <=> Selected(rg, r)
           /\ \A rg : CountUp(rg)' = CountUp(rg)
           /\ \A rg : SameChecksum(rg)' <=> SameChecksum(rg)
<1>1. \A rg, r : Selected(rg, r)' <=> Selected(rg, r)
  BY DEF env, Selected, AboveFields, BelowFields
<1> QED BY <1>1 DEF env, Upstream, CountUp, SameChecksum, Within

\* Every step of consume and binSearch keeps the differences in the range.
LEMMA SearchStep == ASSUME TypeInv, SearchInv, CompareNext PROVE SearchInv'
<1>0. EnvOK
  BY DEF TypeInv
<1>1. CASE Checksum
  <2>1. CASE SameChecksum(Whole)
    BY <1>1, <2>1 DEF Checksum, SearchInv
  <2>2. CASE ~SameChecksum(Whole)
    <3>1. /\ ph' = "bin" /\ range = Whole /\ count' = CountUp(Whole)
          /\ UNCHANGED <<env, range, lastUp, lastDown, equal, adds, dels, fixed, cut>>
      BY <1>1, <2>2 DEF Checksum, SearchInv, verdict
    <3>2. schema # "fields" => \A r \in Row : Selected(Whole, r)
      BY WholeSelects
    <3>3. /\ equal /\ adds = 0 /\ dels = 0 /\ fixed = down /\ cut = {}
          /\ lastUp = Nil /\ lastDown = Nil
      BY <1>1 DEF Checksum, SearchInv
    <3>4. range' = Whole /\ down' = down /\ schema' = schema
      BY <3>1 DEF env
    <3> QED BY <2>2, <3>1, <3>2, <3>3, <3>4, RangeFrame DEF SearchInv
  <2> QED BY <2>1, <2>2
<1>2. CASE BinKeep \/ BinStop
  <2>1. /\ ph = "bin" /\ ph' = "open"
        /\ UNCHANGED <<env, range, lastUp, lastDown, equal, adds, dels, fixed, cut>>
    BY <1>2 DEF BinKeep, BinStop, Searching, verdict, search
  <2>2. down' = down /\ schema' = schema
    BY <2>1 DEF env
  <2> QED BY <2>1, <2>2, RangeFrame DEF SearchInv
<1>3. ASSUME NEW mid \in Mids, Searching, NEW half, NEW other,
             \/ half = Left(mid) /\ other = Right(mid)
             \/ half = Right(mid) /\ other = Left(mid),
             BinGo(half, other)
      PROVE  SearchInv'
  <2>1. /\ ph = "bin" /\ ph' = "bin" /\ range' = half /\ count' = CountUp(half)
        /\ ~SameChecksum(half) /\ SameChecksum(other)
        /\ UNCHANGED <<env, lastUp, lastDown, equal, adds, dels, fixed, cut>>
    BY <1>3 DEF BinGo, Searching, verdict
  <2>2. schema # "fields" => \A r \in Row : Upstream[r] # down[r] => Selected(half, r)
    BY <1>3, <2>1, HalfHoldsAll
  <2>3. down' = down /\ schema' = schema
    BY <2>1 DEF env
  <2> QED BY <2>1, <2>2, <2>3, RangeFrame DEF SearchInv
<1>4. CASE OpenRows
  <2>1. ph = "open" /\ ph' = "rows" /\ UNCHANGED <<env, range>>
    BY <1>4 DEF OpenRows, search
  <2>2. down' = down /\ schema' = schema
    BY <2>1 DEF env
  <2> QED BY <2>1, <2>2, RangeFrame DEF SearchInv
<1>5. CASE NextUp \/ NextDown \/ SameRow \/ DeleteRow \/ InsertRow \/ UpdateRow \/ CutUp \/ CutDown
  <2>1. ph = "rows" /\ ph' = "rows" /\ UNCHANGED <<env, range>>
    BY <1>5
    DEF NextUp, NextDown, SameRow, DeleteRow, InsertRow, UpdateRow, CutUp, CutDown, search
  <2>2. down' = down /\ schema' = schema
    BY <2>1 DEF env
  <2> QED BY <2>1, <2>2, RangeFrame DEF SearchInv
<1>6. CASE RowsEnd \/ ChecksumFails \/ RowsFail
  <2>1. ph' = "done"
    BY <1>6 DEF RowsEnd, ChecksumFails, RowsFail
  <2> QED BY <2>1 DEF SearchInv
<1>7. CASE BinFails
  <2>1. /\ ph = "bin" /\ ph' = "open" /\ range' = Whole
        /\ UNCHANGED <<env, lastUp, lastDown, equal, adds, dels, fixed, cut>>
    BY <1>7 DEF BinFails, Searching, verdict
  <2>2. schema # "fields" => \A r \in Row : Selected(Whole, r)
    BY WholeSelects
  <2>3. down' = down /\ schema' = schema
    BY <2>1 DEF env
  <2> QED BY <2>1, <2>2, <2>3, RangeFrame DEF SearchInv
<1>8. CASE BinDies
  <2>1. schema = "fields"
    BY <1>8, FatalFree DEF BinDies
  <2>2. ph' = "dead" /\ schema' = schema
    BY <1>8 DEF BinDies, env
  <2> QED BY <2>1, <2>2 DEF SearchInv
<1> QED BY <1>1, <1>2, <1>3, <1>4, <1>5, <1>6, <1>7, <1>8 DEF CompareNext, Goes, Breaks, BinLeft, BinRight

-----------------------------------------------------------------------------
(* The walk over the rows.                                                 *)

\* One row more, of which the other table has no more.
LEMMA SurplusGrows ==
    ASSUME NEW t \in Table, NEW h \in Table, NEW u \in Table, NEW x \in Row,
           h[x] = t[x] + 1, \A r \in Row \ {x} : h[r] = t[r], t[x] >= u[x]
    PROVE  Surplus(h, u) = Surplus(t, u) + 1 /\ Surplus(u, h) = Surplus(u, t)
<1> DEFINE P(a, b) == [r \in Row |-> IF a[r] > b[r] THEN a[r] - b[r] ELSE 0]
<1>1. \A r \in Row : t[r] \in Nat /\ h[r] \in Nat /\ u[r] \in Nat
  BY DEF Table
<1>2. P(t, u) \in [Row -> Int] /\ P(h, u) \in [Row -> Int]
  BY <1>1
<1>3. /\ P(h, u)[x] = P(t, u)[x] + 1 /\ P(t, u)[x] \in Int
      /\ \A r \in Row \ {x} : P(h, u)[r] = P(t, u)[r]
  BY <1>1
<1>4. P(u, h) = P(u, t)
  BY <1>1
<1>5. Count(P(h, u)) = Count(P(t, u)) + 1
  <2> HIDE DEF P
  <2>1. SumFunction(P(h, u)) = SumFunction(P(t, u)) + (P(h, u)[x] - P(t, u)[x])
    BY <1>2, <1>3, RowsFinite, SumChange
  <2>2. SumFunction(P(t, u)) \in Int
    BY <1>2, RowsFinite, SumType
  <2> QED BY <1>3, <2>1, <2>2 DEF Count
<1> QED BY <1>4, <1>5 DEF Surplus

\* One row less, of which the other table has enough.
LEMMA SurplusShrinks ==
    ASSUME NEW t \in Table, NEW h \in Table, NEW u \in Table, NEW x \in Row,
           h[x] = t[x] - 1, \A r \in Row \ {x} : h[r] = t[r], t[x] <= u[x]
    PROVE  Surplus(u, h) = Surplus(u, t) + 1 /\ Surplus(h, u) = Surplus(t, u)
<1> DEFINE P(a, b) == [r \in Row |-> IF a[r] > b[r] THEN a[r] - b[r] ELSE 0]
<1>1. \A r \in Row : t[r] \in Nat /\ h[r] \in Nat /\ u[r] \in Nat
  BY DEF Table
<1>2. P(u, t) \in [Row -> Int] /\ P(u, h) \in [Row -> Int]
  BY <1>1
<1>3. /\ P(u, h)[x] = P(u, t)[x] + 1 /\ P(u, t)[x] \in Int
      /\ \A r \in Row \ {x} : P(u, h)[r] = P(u, t)[r]
  BY <1>1
<1>4. P(h, u) = P(t, u)
  BY <1>1
<1>5. Count(P(u, h)) = Count(P(u, t)) + 1
  <2> HIDE DEF P
  <2>1. SumFunction(P(u, h)) = SumFunction(P(u, t)) + (P(u, h)[x] - P(u, t)[x])
    BY <1>2, <1>3, RowsFinite, SumChange
  <2>2. SumFunction(P(u, t)) \in Int
    BY <1>2, RowsFinite, SumType
  <2> QED BY <1>3, <2>1, <2>2 DEF Count
<1> QED BY <1>4, <1>5 DEF Surplus

\* A table has no more rows than itself.
LEMMA SurplusNone == ASSUME NEW t \in Table PROVE Surplus(t, t) = 0
<1> DEFINE p == [r \in Row |-> IF t[r] > t[r] THEN t[r] - t[r] ELSE 0]
<1>1. p \in [Row -> Nat] /\ \A r \in Row : p[r] = 0
  BY DEF Table
<1>2. SumFunction(p) = 0
  <2> HIDE DEF p
  <2> QED BY <1>1, RowsFinite, SumZero
<1> QED BY <1>2 DEF Surplus, Count

\* What is left are numbers.
LEMMA LeftType ==
    ASSUME TypeInv, NEW r \in Row
    PROVE  /\ LeftUp(r) \in Nat /\ LeftDown(r) \in Nat
           /\ Merged(unreadUp)[r] \in Nat /\ unreadDown[r] \in Nat
           /\ fixed[r] \in Nat /\ Upstream[r] \in Nat /\ down[r] \in Nat
           /\ lastUp = r => LeftUp(r) >= 1
           /\ lastDown = r => LeftDown(r) >= 1
<1>1. Merged(unreadUp) \in Table /\ unreadDown \in Table /\ fixed \in Table
      /\ Upstream \in Table /\ down \in Table
  BY MergedRow, Sides2 DEF TypeInv
<1>2. /\ Merged(unreadUp)[r] \in Nat /\ unreadDown[r] \in Nat
      /\ fixed[r] \in Nat /\ Upstream[r] \in Nat /\ down[r] \in Nat
  BY <1>1 DEF Table
<1> QED BY <1>2 DEF LeftUp, LeftDown

\* When the upstream's row comes after d, no row up to d is left upstream.
LEMMA NoneLeftUp ==
    ASSUME TypeInv, OrderInv, NEW d \in Row,
           lastUp = End \/ (lastUp \in Row /\ RowLess(d, lastUp)),
           NEW r \in Row, ~RowLess(d, r)
    PROVE  LeftUp(r) = 0
<1>1. lastUp # r
  BY NotRows
<1>2. Merged(unreadUp)[r] = 0
  <2>1. CASE lastUp = End
    BY <2>1 DEF OrderInv
  <2>2. CASE lastUp \in Row /\ RowLess(d, lastUp)
    <3> SUFFICES ASSUME Merged(unreadUp)[r] > 0 PROVE FALSE
      BY LeftType
    <3>1. ~RowLess(r, lastUp)
      BY <2>2 DEF OrderInv
    <3>2. CASE RowLess(lastUp, r)
      BY <2>2, <3>2, RowLessTransitive
    <3>3. CASE SameOrderKey(lastUp, r)
      <4>1. lastUp.key = r.key /\ (schema = "none" => lastUp = r)
        BY <2>2, <3>3, RowOrder
      <4> QED BY <2>2, <4>1 DEF RowLess
    <3> QED BY <3>1, <3>2, <3>3 DEF SameOrderKey
  <2> QED BY <2>1, <2>2
<1> QED BY <1>1, <1>2 DEF LeftUp

\* When the downstream's row comes after u, no row up to u is left downstream.
LEMMA NoneLeftDown ==
    ASSUME TypeInv, OrderInv, NEW u \in Row,
           lastDown = End \/ (lastDown \in Row /\ RowLess(u, lastDown)),
           NEW r \in Row, ~RowLess(u, r)
    PROVE  LeftDown(r) = 0
<1>1. lastDown # r
  BY NotRows
<1>2. unreadDown[r] = 0
  <2>1. CASE lastDown = End
    BY <2>1 DEF OrderInv
  <2>2. CASE lastDown \in Row /\ RowLess(u, lastDown)
    <3> SUFFICES ASSUME unreadDown[r] > 0 PROVE FALSE
      BY LeftType
    <3>1. ~RowLess(r, lastDown)
      BY <2>2 DEF OrderInv
    <3>2. CASE RowLess(lastDown, r)
      BY <2>2, <3>2, RowLessTransitive
    <3>3. CASE SameOrderKey(lastDown, r)
      <4>1. lastDown.key = r.key /\ (schema = "none" => lastDown = r)
        BY <2>2, <3>3, RowOrder
      <4> QED BY <2>2, <4>1 DEF RowLess
    <3> QED BY <3>1, <3>2, <3>3 DEF SameOrderKey
  <2> QED BY <2>1, <2>2
<1> QED BY <1>1, <1>2 DEF LeftDown

\* With a unique key, a row at hand is the only one of its key on its side, and
\* the key has not been dealt with.
LEMMA RowAtHand ==
    ASSUME TypeInv, KeyedInv, schema # "none", NEW x \in Row
    PROVE  /\ LeftUp(x) >= 1 =>
                /\ AsItWas(x.key) \/ Dropped(x.key)
                /\ \A r \in Row : r.key = x.key => Upstream[r] = IF r = x THEN 1 ELSE 0
           /\ LeftDown(x) >= 1 =>
                /\ AsItWas(x.key)
                /\ \A r \in Row : r.key = x.key => down[r] = IF r = x THEN 1 ELSE 0
<1>1. x.key \in Keys /\ UniqueKey(Upstream) /\ UniqueKey(down)
  BY RowsFinite, Sides2 DEF TypeInv
<1>2. \A r \in Row : LeftUp(r) \in Nat /\ LeftDown(r) \in Nat /\ Upstream[r] \in Nat /\ down[r] \in Nat
  BY LeftType
<1>3. AsItWas(x.key) \/ Settled(x.key) \/ Dropped(x.key)
  BY <1>1 DEF KeyedInv
<1>4. ASSUME NEW t \in Table, UniqueKey(t), t[x] >= 1, NEW r \in Row, r.key = x.key
      PROVE  t[r] = IF r = x THEN 1 ELSE 0
  <2>1. t[x] > 0 /\ t[r] \in Nat
    BY <1>4 DEF Table
  <2> QED BY <1>4, <2>1 DEF UniqueKey
<1>5. ASSUME LeftUp(x) >= 1
      PROVE  /\ AsItWas(x.key) \/ Dropped(x.key)
             /\ \A r \in Row : r.key = x.key => Upstream[r] = IF r = x THEN 1 ELSE 0
  <2>1. ~Settled(x.key)
    BY <1>5 DEF Settled
  <2>2. Upstream[x] >= 1
    BY <1>3, <1>5, <2>1 DEF AsItWas, Dropped
  <2> QED BY <1>1, <1>3, <1>4, <2>1, <2>2, Sides2 DEF TypeInv
<1>6. ASSUME LeftDown(x) >= 1
      PROVE  /\ AsItWas(x.key)
             /\ \A r \in Row : r.key = x.key => down[r] = IF r = x THEN 1 ELSE 0
  <2>1. ~Settled(x.key) /\ ~Dropped(x.key)
    BY <1>6 DEF Settled, Dropped
  <2>2. down[x] >= 1
    BY <1>3, <1>6, <2>1 DEF AsItWas
  <2> QED BY <1>1, <1>3, <1>4, <2>1, <2>2, Sides2 DEF TypeInv
<1> QED BY <1>5, <1>6

\* The databases stay, and so do the order and what the upstream has.
LEMMA EnvFrame ==
    ASSUME UNCHANGED env
    PROVE  /\ Upstream' = Upstream
           /\ \A r, s : RowLess(r, s)' <=> RowLess(r, s)
  BY DEF env, Upstream, RowLess

\* The iterators are opened on the rows of the range.
LEMMA OpenedRows ==
    ASSUME TypeInv, TypeInv', SearchInv, OpenRows
    PROVE  /\ ph' = "rows" /\ UNCHANGED env /\ range' = range /\ lastUp' = Nil /\ lastDown' = Nil
           /\ fixed' = down /\ cut' = {} /\ adds' = 0 /\ dels' = 0
           /\ \A r \in Row : /\ LeftUp(r)' = Within(Upstream, range)[r]
                             /\ LeftDown(r)' = Within(down, range)[r]
           /\ OrderInv'
<1>1. /\ ph = "open" /\ ph' = "rows" /\ UNCHANGED env /\ range' = range
      /\ unreadUp' = [s \in Shards |-> Within(up[s], range)] /\ unreadDown' = Within(down, range)
      /\ UNCHANGED <<lastUp, lastDown, equal, adds, dels, fixed, cut>>
  BY DEF OpenRows, search, verdict
<1>2. /\ adds = 0 /\ dels = 0 /\ fixed = down /\ cut = {} /\ lastUp = Nil /\ lastDown = Nil
  BY <1>1 DEF SearchInv
<1>3. \A r \in Row : /\ LeftUp(r)' = Within(Upstream, range)[r]
                     /\ LeftDown(r)' = Within(down, range)[r]
  <2> TAKE r \in Row
  <2>1. lastUp' # r /\ lastDown' # r
    BY <1>1, <1>2, NotRows
  <2>2. Merged(unreadUp')[r] = Within(Upstream, range)[r]
    <3>1. /\ up \in [Shards -> Table] /\ unreadUp' \in [Shards -> Table]
          /\ \A s \in Shards : unreadUp'[s] = Within(up[s], range)
      BY <1>1, Sides2 DEF TypeInv
    <3>2. Merged(unreadUp')[r] = Within(Merged(up), range)[r]
      BY <3>1, MergedWithin
    <3> QED BY <3>2 DEF Upstream
  <2>3. Within(Upstream, range)[r] \in Nat /\ Within(down, range)[r] \in Nat
    <3>1. Upstream[r] \in Nat /\ down[r] \in Nat
      BY LeftType
    <3> QED BY <3>1 DEF Within
  <2> QED BY <1>1, <2>1, <2>2, <2>3 DEF LeftUp, LeftDown
<1>4. OrderInv'
  BY <1>1, <1>2, NotRows DEF OrderInv
<1> QED BY <1>1, <1>2, <1>3, <1>4

\* If what differs is in the range, the walk begins with the rows of the chunk.
LEMMA WalkOpens ==
    ASSUME TypeInv, TypeInv', SearchInv, OpenRows, schema # "fields"
    PROVE  WalkInv'
<1>1. /\ ph = "open" /\ ph' = "rows" /\ UNCHANGED env /\ fixed' = down /\ cut' = {}
      /\ adds' = 0 /\ dels' = 0 /\ OrderInv'
  BY OpenedRows DEF OpenRows
<1>2. \A r \in Row : Upstream[r] # down[r] => Selected(range, r)
  BY <1>1 DEF SearchInv
<1>3. \A r \in Row :
         /\ LeftUp(r)' = IF Selects(range, r.key) THEN Upstream[r] ELSE 0
         /\ LeftDown(r)' = IF Selects(range, r.key) THEN down[r] ELSE 0
  BY OpenedRows DEF Within, Selected
<1>4. \A r \in Row : Upstream[r] # down[r] => Selects(range, r.key)
  BY <1>2 DEF Selected
<1>5. BagInv'
  <2> SUFFICES ASSUME NEW r \in Row
               PROVE  /\ fixed'[r] + LeftUp(r)' = Upstream[r] + LeftDown(r)'
                      /\ fixed'[r] = down[r] /\ down[r] \in Nat /\ Upstream[r] \in Nat
                      /\ LeftUp(r)' \in Nat /\ LeftDown(r)' \in Nat
    BY <1>1, EnvFrame DEF BagInv, env
  <2>1. Upstream[r] \in Nat /\ down[r] \in Nat
    BY LeftType
  <2>2. ~Selects(range, r.key) => Upstream[r] = down[r]
    BY <1>4
  <2> QED BY <1>1, <1>3, <2>1, <2>2
<1>6. KeyedInv'
  <2> SUFFICES ASSUME NEW k \in Keys PROVE (AsItWas(k) \/ Settled(k) \/ Dropped(k))'
    BY DEF KeyedInv
  <2>1. CASE Selects(range, k)
    <3>1. AsItWas(k)'
      BY <1>1, <1>3, <2>1, EnvFrame DEF AsItWas, env
    <3> QED BY <3>1
  <2>2. CASE ~Selects(range, k)
    <3>1. Settled(k)'
      BY <1>1, <1>3, <1>4, <2>2, EnvFrame DEF Settled, env
    <3> QED BY <3>1
  <2> QED BY <2>1, <2>2
<1>7. fixed' = down' /\ adds' = Surplus(fixed, down)' /\ dels' = Surplus(down, fixed)'
  BY <1>1, Sides2, SurplusNone DEF TypeInv, env, Surplus
<1> QED BY <1>1, <1>5, <1>6, <1>7 DEF WalkInv

\* If no row is dealt with, only the order is to be looked at.
LEMMA WalkReads ==
    ASSUME TypeInv, WalkInv, ApartInv, ph = "rows",
           UNCHANGED <<env, range, ph, equal, adds, dels, fixed, cut>>,
           \A r \in Row : LeftUp(r)' = LeftUp(r) /\ LeftDown(r)' = LeftDown(r),
           "up" \notin cut /\ OrderInv => OrderInv'
    PROVE  WalkInv' /\ ApartInv'
<1>0. ApartInv'
  <2>1. /\ Within(Upstream, range)' = Within(Upstream, range) /\ Within(down, range)' = Within(down, range)
        /\ Upstream' = Upstream /\ down' = down /\ schema' = schema
    BY RangeFrame DEF Within, env
  <2> QED BY <2>1 DEF ApartInv
<1> SUFFICES ASSUME "up" \notin cut, schema # "fields"
             PROVE  /\ OrderInv'
                    /\ IF schema = "none" THEN BagInv' ELSE KeyedInv'
                    /\ equal' => fixed' = down'
                    /\ cut' = {} => adds' = Surplus(fixed, down)' /\ dels' = Surplus(down, fixed)'
  BY <1>0 DEF WalkInv, env
<1>1. /\ OrderInv
      /\ IF schema = "none" THEN BagInv ELSE KeyedInv
      /\ equal => fixed = down
      /\ cut = {} => adds = Surplus(fixed, down) /\ dels = Surplus(down, fixed)
  BY DEF WalkInv
<1>2. BagInv => BagInv'
  BY EnvFrame DEF BagInv, env
<1>3. KeyedInv => KeyedInv'
  BY EnvFrame DEF KeyedInv, AsItWas, Settled, Dropped, env
<1>4. Surplus(fixed, down)' = Surplus(fixed, down) /\ Surplus(down, fixed)' = Surplus(down, fixed)
  BY DEF env, Surplus
<1> QED BY <1>1, <1>2, <1>3, <1>4 DEF env

\* NextUp takes the row at hand out of those that are left.
LEMMA WalkNextUp ==
    ASSUME TypeInv, TypeInv', WalkInv, ApartInv, NextUp
    PROVE  WalkInv' /\ ApartInv'
<1>1. /\ ph = "rows" /\ lastUp = Nil
      /\ UNCHANGED <<env, range, ph, equal, adds, dels, fixed, cut, unreadDown, lastDown>>
  BY DEF NextUp, search, verdict
<1>2. unreadUp \in [Shards -> Table]
  BY DEF TypeInv
<1>3. \A r \in Row : LeftDown(r)' = LeftDown(r)
  BY <1>1 DEF LeftDown
<1>4. CASE (\A s \in Shards : unreadUp[s] = Empty) /\ lastUp' = End /\ UNCHANGED unreadUp
  <2>1. \A r \in Row : Merged(unreadUp)[r] = 0
    BY <1>2, <1>4, MergedRow, EmptyTable
  <2>2. \A r \in Row : LeftUp(r)' = LeftUp(r)
    BY <1>1, <1>4, NotRows DEF LeftUp
  <2>3. OrderInv => OrderInv'
    BY <1>1, <1>4, <2>1, EnvFrame, NotRows DEF OrderInv
  <2> QED BY <1>1, <1>3, <2>2, <2>3, WalkReads
<1>5. ASSUME NEW s \in Shards, NEW x \in First(unreadUp[s]),
             \A z \in Shards : \A h \in First(unreadUp[z]) : ~RowLess(h, x),
             lastUp' = x, unreadUp' = [unreadUp EXCEPT ![s] = Take(@, x)]
      PROVE  WalkInv' /\ ApartInv'
  <2>1. x \in Row /\ unreadUp[s][x] > 0
    BY DEF First
  <2>2. \A r \in Row : Merged(unreadUp')[r] = Merged(unreadUp)[r] - (IF r = x THEN 1 ELSE 0)
    <3>1. /\ unreadUp' \in [Shards -> Table] /\ unreadUp'[s] = Take(unreadUp[s], x)
          /\ \A z \in Shards \ {s} : unreadUp'[z] = unreadUp[z]
      BY <1>2, <1>5 DEF TypeInv
    <3> QED BY <1>2, <2>1, <3>1, MergedTake
  <2>3. \A r \in Row : LeftUp(r)' = LeftUp(r)
    <3> TAKE r \in Row
    <3>1. Merged(unreadUp)[r] \in Nat
      BY LeftType
    <3>2. lastUp # r
      BY <1>1, NotRows
    <3>3. Merged(unreadUp')[r] = Merged(unreadUp)[r] - (IF r = x THEN 1 ELSE 0)
      BY <2>2
    <3>4. LeftUp(r)' = Merged(unreadUp')[r] + IF x = r THEN 1 ELSE 0
      BY <1>5 DEF LeftUp
    <3>5. LeftUp(r) = Merged(unreadUp)[r]
      BY <3>1, <3>2 DEF LeftUp
    <3> QED BY <3>1, <3>3, <3>4, <3>5
  <2>4. \A r \in Row : Merged(unreadUp')[r] > 0 => ~RowLess(r, x)
    <3> TAKE r \in Row
    <3>1. Merged(unreadUp)[r] \in Nat
      BY LeftType
    <3>2. Merged(unreadUp')[r] > 0 => Merged(unreadUp)[r] > 0
      BY <2>2, <3>1
    <3> QED BY <1>2, <1>5, <2>1, <3>2, LeastOfShards
  <2>5. OrderInv => OrderInv'
    BY <1>1, <1>5, <2>1, <2>4, EnvFrame, NotRows DEF OrderInv
  <2> QED BY <1>1, <1>3, <2>3, <2>5, WalkReads
<1> QED BY <1>4, <1>5 DEF NextUp

\* NextDown does the same for the downstream.
LEMMA WalkNextDown ==
    ASSUME TypeInv, WalkInv, ApartInv, NextDown
    PROVE  WalkInv' /\ ApartInv'
<1>1. /\ ph = "rows" /\ lastDown = Nil
      /\ UNCHANGED <<env, range, ph, equal, adds, dels, fixed, cut, unreadUp, lastUp>>
  BY DEF NextDown, search, verdict
<1>2. unreadDown \in Table
  BY DEF TypeInv
<1>3. \A r \in Row : LeftUp(r)' = LeftUp(r)
  BY <1>1 DEF LeftUp
<1>4. CASE unreadDown = Empty /\ lastDown' = End /\ UNCHANGED unreadDown
  <2>1. \A r \in Row : unreadDown[r] = 0
    BY <1>4, EmptyTable
  <2>2. \A r \in Row : LeftDown(r)' = LeftDown(r)
    BY <1>1, <1>4, NotRows DEF LeftDown
  <2>3. OrderInv => OrderInv'
    BY <1>1, <1>4, <2>1, EnvFrame, NotRows DEF OrderInv
  <2> QED BY <1>1, <1>3, <2>2, <2>3, WalkReads
<1>5. ASSUME NEW x \in First(unreadDown), lastDown' = x, unreadDown' = Take(unreadDown, x)
      PROVE  WalkInv' /\ ApartInv'
  <2>1. x \in Row /\ unreadDown[x] > 0 /\ \A r \in Row : unreadDown[r] > 0 => ~RowLess(r, x)
    BY DEF First
  <2>2. \A r \in Row : unreadDown'[r] = unreadDown[r] - (IF r = x THEN 1 ELSE 0)
    <3> TAKE r \in Row
    <3>1. unreadDown[r] \in Nat
      BY LeftType
    <3> QED BY <1>2, <1>5, <2>1, <3>1 DEF Take, Table
  <2>3. \A r \in Row : LeftDown(r)' = LeftDown(r)
    <3> TAKE r \in Row
    <3>1. unreadDown[r] \in Nat
      BY LeftType
    <3>2. lastDown # r
      BY <1>1, NotRows
    <3> QED BY <1>5, <2>2, <3>1, <3>2 DEF LeftDown
  <2>4. \A r \in Row : unreadDown'[r] > 0 => ~RowLess(r, x)
    <3> TAKE r \in Row
    <3>1. unreadDown[r] \in Nat
      BY LeftType
    <3> QED BY <2>1, <2>2, <3>1
  <2>5. OrderInv => OrderInv'
    BY <1>1, <1>5, <2>1, <2>4, EnvFrame, NotRows DEF OrderInv
  <2> QED BY <1>1, <1>3, <2>3, <2>5, WalkReads
<1> QED BY <1>4, <1>5 DEF NextDown

\* A key that has been dealt with, while the others stay as they were.
LEMMA KeyDone ==
    ASSUME TypeInv, KeyedInv, UNCHANGED <<env, cut>>, NEW x \in Row,
           \A r \in Row : r.key # x.key =>
               fixed'[r] = fixed[r] /\ LeftUp(r)' = LeftUp(r) /\ LeftDown(r)' = LeftDown(r),
           \A r \in Row : r.key = x.key =>
               fixed'[r] = Upstream[r] /\ LeftUp(r)' = 0 /\ LeftDown(r)' = 0
    PROVE  KeyedInv'
<1> SUFFICES ASSUME NEW k \in Keys PROVE (AsItWas(k) \/ Settled(k) \/ Dropped(k))'
  BY CompareAssumption DEF KeyedInv
<1>1. CASE k = x.key
  <2>1. Settled(k)'
    BY <1>1, EnvFrame DEF Settled, env
  <2> QED BY <2>1
<1>2. CASE k # x.key
  <2>1. AsItWas(k) => AsItWas(k)'
    BY <1>2, EnvFrame DEF AsItWas, env
  <2>2. Settled(k) => Settled(k)'
    BY <1>2, EnvFrame DEF Settled, env
  <2>3. Dropped(k) => Dropped(k)'
    BY <1>2, EnvFrame DEF Dropped, env
  <2> QED BY <2>1, <2>2, <2>3 DEF KeyedInv
<1> QED BY <1>1, <1>2

\* A stream of the downstream that breaks off drops the keys not dealt with.
LEMMA WalkCutDown ==
    ASSUME TypeInv, WalkInv, CutDown, schema # "fields"
    PROVE  WalkInv'
<1>1. /\ ph = "rows" /\ lastDown' = End /\ unreadDown' = Empty /\ cut' = cut \cup {"down"}
      /\ UNCHANGED <<env, ph, equal, fixed, unreadUp, lastUp>>
  BY DEF CutDown, env, verdict
<1> SUFFICES ASSUME "up" \notin cut
             PROVE  /\ OrderInv'
                    /\ IF schema = "none" THEN BagInv' ELSE KeyedInv'
                    /\ equal' => fixed' = down'
  BY <1>1 DEF WalkInv, env
<1>2. /\ OrderInv
      /\ IF schema = "none" THEN BagInv ELSE KeyedInv
      /\ equal => fixed = down
  BY <1>1 DEF WalkInv
<1>3. \A r \in Row : LeftUp(r)' = LeftUp(r)
  BY <1>1 DEF LeftUp
<1>4. \A r \in Row : LeftDown(r)' = 0
  BY <1>1, EmptyTable, NotRows DEF LeftDown
<1>5. OrderInv'
  BY <1>1, <1>2, EmptyTable, EnvFrame, NotRows DEF OrderInv
<1>6. BagInv => BagInv'
  <2> SUFFICES ASSUME BagInv, NEW r \in Row
               PROVE  /\ fixed[r] + LeftUp(r) >= Upstream[r] + 0
                      /\ fixed[r] < down[r] => LeftUp(r) = 0
    BY <1>1, <1>3, <1>4, EnvFrame DEF BagInv, env
  <2>1. /\ fixed[r] \in Nat /\ LeftUp(r) \in Nat /\ Upstream[r] \in Nat /\ LeftDown(r) \in Nat
    BY LeftType
  <2>2. /\ fixed[r] + LeftUp(r) >= Upstream[r] + LeftDown(r)
        /\ fixed[r] < down[r] => LeftUp(r) = 0
    BY DEF BagInv
  <2> QED BY <2>1, <2>2
<1>7. KeyedInv => KeyedInv'
  <2> SUFFICES ASSUME NEW k \in Keys, AsItWas(k) \/ Settled(k) \/ Dropped(k)
               PROVE  (AsItWas(k) \/ Settled(k) \/ Dropped(k))'
    BY DEF KeyedInv
  <2>1. AsItWas(k) => Dropped(k)'
    BY <1>1, <1>3, <1>4, EnvFrame DEF AsItWas, Dropped, env
  <2>2. Settled(k) => Settled(k)'
    BY <1>1, <1>3, <1>4, EnvFrame DEF Settled, env
  <2>3. Dropped(k) => Dropped(k)'
    BY <1>1, <1>3, <1>4, EnvFrame DEF Dropped, env
  <2> QED BY <2>1, <2>2, <2>3
<1> QED BY <1>1, <1>2, <1>5, <1>6, <1>7 DEF env

\* Two equal rows are passed over together.
LEMMA WalkSameRow ==
    ASSUME TypeInv, WalkInv, SameRow, schema # "fields"
    PROVE  WalkInv'
<1>1. /\ ph = "rows" /\ lastUp \in Row /\ lastDown = lastUp /\ lastUp' = Nil /\ lastDown' = Nil
      /\ UNCHANGED <<env, ph, equal, adds, dels, fixed, cut, unreadUp, unreadDown>>
  BY DEF SameRow, env, verdict, streams
<1> SUFFICES ASSUME "up" \notin cut
             PROVE  /\ OrderInv'
                    /\ IF schema = "none" THEN BagInv' ELSE KeyedInv'
                    /\ equal' => fixed' = down'
                    /\ cut' = {} => adds' = Surplus(fixed, down)' /\ dels' = Surplus(down, fixed)'
  BY <1>1 DEF WalkInv, env
<1>2. /\ OrderInv
      /\ IF schema = "none" THEN BagInv ELSE KeyedInv
      /\ equal => fixed = down
      /\ cut = {} => adds = Surplus(fixed, down) /\ dels = Surplus(down, fixed)
  BY <1>1 DEF WalkInv
<1> DEFINE x == lastUp
<1>3. \A r \in Row : /\ LeftUp(r)' = LeftUp(r) - (IF r = x THEN 1 ELSE 0)
                     /\ LeftDown(r)' = LeftDown(r) - (IF r = x THEN 1 ELSE 0)
  <2> TAKE r \in Row
  <2>1. Merged(unreadUp)[r] \in Nat /\ unreadDown[r] \in Nat
    BY LeftType
  <2>2. LeftUp(r)' = Merged(unreadUp)[r] /\ LeftDown(r)' = unreadDown[r]
    BY <1>1, <2>1, NotRows DEF LeftUp, LeftDown
  <2> QED BY <1>1, <2>1, <2>2 DEF LeftUp, LeftDown
<1>4. x \in Row /\ LeftUp(x) >= 1 /\ LeftDown(x) >= 1
  BY <1>1, LeftType
<1>5. OrderInv'
  BY <1>1, NotRows DEF OrderInv
<1>6. BagInv => BagInv'
  <2> SUFFICES ASSUME BagInv, NEW r \in Row
               PROVE  /\ fixed[r] + LeftUp(r)' >= Upstream[r] + LeftDown(r)'
                      /\ cut = {} => fixed[r] + LeftUp(r)' = Upstream[r] + LeftDown(r)'
                      /\ fixed[r] < down[r] => LeftUp(r)' = 0
                      /\ fixed[r] > down[r] => LeftDown(r)' = 0
    BY <1>1, EnvFrame DEF BagInv, env
  <2>1. /\ fixed[r] \in Nat /\ LeftUp(r) \in Nat /\ Upstream[r] \in Nat /\ LeftDown(r) \in Nat
    BY LeftType
  <2>2. /\ fixed[r] + LeftUp(r) >= Upstream[r] + LeftDown(r)
        /\ cut = {} => fixed[r] + LeftUp(r) = Upstream[r] + LeftDown(r)
        /\ fixed[r] < down[r] => LeftUp(r) = 0
        /\ fixed[r] > down[r] => LeftDown(r) = 0
    BY DEF BagInv
  <2> HIDE DEF x
  <2>3. r = x => LeftUp(r) >= 1 /\ LeftDown(r) >= 1
    BY <1>4
  <2>4. LeftUp(r)' = LeftUp(r) - (IF r = x THEN 1 ELSE 0)
        /\ LeftDown(r)' = LeftDown(r) - (IF r = x THEN 1 ELSE 0)
    BY <1>3
  <2> QED BY <2>1, <2>2, <2>3, <2>4
<1>7. ASSUME KeyedInv, schema # "none" PROVE KeyedInv'
  <2>1. /\ AsItWas(x.key)
        /\ \A r \in Row : r.key = x.key => Upstream[r] = IF r = x THEN 1 ELSE 0
        /\ \A r \in Row : r.key = x.key => down[r] = IF r = x THEN 1 ELSE 0
    BY <1>4, <1>7, RowAtHand
  <2> HIDE DEF x
  <2>2. \A r \in Row : r.key = x.key => fixed[r] = Upstream[r] /\ LeftUp(r) = Upstream[r]
                                        /\ LeftDown(r) = down[r]
    BY <2>1 DEF AsItWas
  <2>3. \A r \in Row : r.key = x.key => LeftUp(r)' = 0 /\ LeftDown(r)' = 0
    BY <1>3, <2>1, <2>2
  <2>4. \A r \in Row : r.key # x.key => LeftUp(r)' = LeftUp(r) /\ LeftDown(r)' = LeftDown(r)
    <3> TAKE r \in Row
    <3>1. LeftUp(r) \in Nat /\ LeftDown(r) \in Nat
      BY LeftType
    <3> QED BY <1>3, <3>1
  <2> QED BY <1>1, <1>4, <1>7, <2>2, <2>3, <2>4, KeyDone
<1>8. Surplus(fixed, down)' = Surplus(fixed, down) /\ Surplus(down, fixed)' = Surplus(down, fixed)
  BY <1>1 DEF env, Surplus
<1> QED BY <1>1, <1>2, <1>5, <1>6, <1>7, <1>8 DEF env

\* A downstream row that comes first is not upstream: it is deleted, and only
\* copies are deleted that the upstream has not.
LEMMA WalkDeleteRow ==
    ASSUME TypeInv, WalkInv, DeleteRow, "up" \notin cut, schema # "fields"
    PROVE  /\ WalkInv'
           /\ \A r \in Row : fixed'[r] = fixed[r] \/ fixed'[r] >= Upstream[r]
<1> DEFINE x == lastDown
<1>1. /\ ph = "rows" /\ x \in Row /\ lastDown' = Nil
      /\ lastUp = End \/ (lastUp \in Row /\ RowLess(x, lastUp))
      /\ fixed' = Deleted(fixed, x) /\ adds' = adds /\ dels' = dels + 1 /\ ~equal'
      /\ UNCHANGED <<env, ph, cut, unreadUp, unreadDown, lastUp>>
  BY DEF DeleteRow, streams
<1>2. /\ OrderInv
      /\ IF schema = "none" THEN BagInv ELSE KeyedInv
      /\ cut = {} => adds = Surplus(fixed, down) /\ dels = Surplus(down, fixed)
  BY <1>1 DEF WalkInv
<1>3. \A r \in Row : /\ LeftUp(r)' = LeftUp(r)
                     /\ LeftDown(r)' = LeftDown(r) - (IF r = x THEN 1 ELSE 0)
  <2> TAKE r \in Row
  <2>1. unreadDown[r] \in Nat
    BY LeftType
  <2>2. LeftDown(r)' = unreadDown[r]
    BY <1>1, <2>1, NotRows DEF LeftDown
  <2> QED BY <1>1, <2>1, <2>2 DEF LeftUp, LeftDown
<1>4. LeftDown(x) >= 1 /\ fixed \in Table /\ down \in Table /\ EnvOK
  BY <1>1, LeftType, Sides2 DEF TypeInv
<1>5. OrderInv'
  BY <1>1, <1>2, EnvFrame, NotRows DEF OrderInv
<1>6. \A r \in Row : ~RowLess(x, r) => LeftUp(r) = 0
  BY <1>1, <1>2, NoneLeftUp
<1>7. \A r \in Row : fixed[r] \in Nat /\ down[r] \in Nat /\ LeftUp(r) \in Nat
                     /\ LeftDown(r) \in Nat /\ Upstream[r] \in Nat
  BY LeftType
<1> HIDE DEF x
<1>8. \A r \in Row : fixed'[r] = IF r = x /\ fixed[x] > 0 THEN fixed[x] - 1 ELSE fixed[r]
  BY <1>1, <1>4 DEF Deleted, Table
<1>9. ASSUME BagInv
      PROVE  /\ fixed[x] > 0 /\ fixed[x] <= down[x] /\ BagInv'
             /\ fixed'[x] >= Upstream[x]
  <2>1. LeftUp(x) = 0
    BY <1>1, <1>6, RowOrder
  <2>2. \A r \in Row :
          /\ fixed[r] + LeftUp(r) >= Upstream[r] + LeftDown(r)
          /\ cut = {} => fixed[r] + LeftUp(r) = Upstream[r] + LeftDown(r)
          /\ fixed[r] < down[r] => LeftUp(r) = 0
          /\ fixed[r] > down[r] => LeftDown(r) = 0
    BY <1>9 DEF BagInv
  <2>3. fixed[x] > 0 /\ fixed[x] <= down[x] /\ fixed[x] >= Upstream[x] + LeftDown(x)
    BY <1>1, <1>4, <1>7, <2>1, <2>2
  <2>4. BagInv'
    <3> SUFFICES ASSUME NEW r \in Row
                 PROVE  /\ fixed'[r] + LeftUp(r)' >= Upstream[r] + LeftDown(r)'
                        /\ cut = {} => fixed'[r] + LeftUp(r)' = Upstream[r] + LeftDown(r)'
                        /\ fixed'[r] < down[r] => LeftUp(r)' = 0
                        /\ fixed'[r] > down[r] => LeftDown(r)' = 0
      BY <1>1, EnvFrame DEF BagInv, env
    <3>1. CASE r = x
      BY <1>1, <1>3, <1>4, <1>7, <1>8, <2>1, <2>2, <2>3, <3>1
    <3>2. CASE r # x
      BY <1>3, <1>7, <1>8, <2>2, <3>2
    <3> QED BY <3>1, <3>2
  <2>5. fixed'[x] >= Upstream[x]
    BY <1>1, <1>4, <1>7, <1>8, <2>3
  <2> QED BY <2>3, <2>4, <2>5
<1>10. ASSUME KeyedInv, schema # "none"
       PROVE  /\ fixed[x] > 0 /\ fixed[x] <= down[x] /\ KeyedInv'
              /\ fixed'[x] >= Upstream[x]
  <2>1. /\ AsItWas(x.key)
        /\ \A r \in Row : r.key = x.key => down[r] = IF r = x THEN 1 ELSE 0
    BY <1>1, <1>4, <1>10, RowAtHand
  <2>2. \A r \in Row : r.key = x.key =>
           fixed[r] = down[r] /\ LeftUp(r) = Upstream[r] /\ LeftDown(r) = down[r]
    BY <2>1 DEF AsItWas
  <2>3. \A r \in Row : r.key = x.key => LeftUp(r) = 0
    <3> SUFFICES ASSUME NEW r \in Row, r.key = x.key PROVE ~RowLess(x, r)
      BY <1>6
    <3> QED BY <1>1, <1>10, RowOrder DEF SameOrderKey
  <2>4. fixed[x] = 1 /\ down[x] = 1
    BY <1>1, <2>1, <2>2
  <2>5. \A r \in Row : r.key = x.key => fixed'[r] = Upstream[r] /\ LeftUp(r)' = 0 /\ LeftDown(r)' = 0
    BY <1>3, <1>8, <2>1, <2>2, <2>3, <2>4
  <2>6. \A r \in Row : r.key # x.key =>
           fixed'[r] = fixed[r] /\ LeftUp(r)' = LeftUp(r) /\ LeftDown(r)' = LeftDown(r)
    BY <1>3, <1>7, <1>8
  <2>7. KeyedInv'
    BY <1>1, <1>10, <2>5, <2>6, KeyDone
  <2> QED BY <1>1, <1>7, <2>4, <2>5, <2>7
<1>11. /\ fixed[x] > 0 /\ fixed[x] <= down[x] /\ fixed'[x] >= Upstream[x]
       /\ IF schema = "none" THEN BagInv' ELSE KeyedInv'
  BY <1>2, <1>9, <1>10
<1>12. Surplus(down, fixed') = Surplus(down, fixed) + 1 /\ Surplus(fixed', down) = Surplus(fixed, down)
  <2>1. fixed' \in Table
    BY <1>1, <1>4, TableOps
  <2>2. fixed'[x] = fixed[x] - 1 /\ \A r \in Row \ {x} : fixed'[r] = fixed[r]
    BY <1>1, <1>8, <1>11
  <2> QED BY <1>1, <1>4, <1>11, <2>1, <2>2, SurplusShrinks
<1>13. Surplus(fixed, down)' = Surplus(fixed', down) /\ Surplus(down, fixed)' = Surplus(down, fixed')
  BY <1>1 DEF env, Surplus
<1>14. cut' = {} => adds' = Surplus(fixed, down)' /\ dels' = Surplus(down, fixed)'
  BY <1>1, <1>2, <1>12, <1>13
<1>15. WalkInv'
  BY <1>1, <1>5, <1>11, <1>14 DEF WalkInv, env
<1> QED BY <1>8, <1>11, <1>15

\* An upstream row that comes first is not downstream, in none of its copies
\* that are to come: it is added.
LEMMA WalkInsertRow ==
    ASSUME TypeInv, WalkInv, InsertRow, "up" \notin cut, schema # "fields"
    PROVE  /\ WalkInv'
           /\ \A r \in Row : fixed'[r] >= fixed[r] \/ fixed'[r] >= Upstream[r]
<1> DEFINE x == lastUp
<1>1. /\ ph = "rows" /\ x \in Row /\ lastUp' = Nil
      /\ lastDown = End \/ (lastDown \in Row /\ RowLess(x, lastDown))
      /\ fixed' = Replaced(fixed, x) /\ adds' = adds + 1 /\ dels' = dels /\ ~equal'
      /\ UNCHANGED <<env, ph, cut, unreadUp, unreadDown, lastDown>>
  BY DEF InsertRow, streams
<1>2. /\ OrderInv
      /\ IF schema = "none" THEN BagInv ELSE KeyedInv
      /\ cut = {} => adds = Surplus(fixed, down) /\ dels = Surplus(down, fixed)
  BY <1>1 DEF WalkInv
<1>3. \A r \in Row : /\ LeftDown(r)' = LeftDown(r)
                     /\ LeftUp(r)' = LeftUp(r) - (IF r = x THEN 1 ELSE 0)
  <2> TAKE r \in Row
  <2>1. Merged(unreadUp)[r] \in Nat
    BY LeftType
  <2>2. LeftUp(r)' = Merged(unreadUp)[r]
    BY <1>1, <2>1, NotRows DEF LeftUp
  <2> QED BY <1>1, <2>1, <2>2 DEF LeftUp, LeftDown
<1>4. LeftUp(x) >= 1 /\ fixed \in Table /\ down \in Table /\ EnvOK
  BY <1>1, LeftType, Sides2 DEF TypeInv
<1>5. OrderInv'
  BY <1>1, <1>2, EnvFrame, NotRows DEF OrderInv
<1>6. \A r \in Row : ~RowLess(x, r) => LeftDown(r) = 0
  BY <1>1, <1>2, NoneLeftDown
<1>7. \A r \in Row : fixed[r] \in Nat /\ down[r] \in Nat /\ LeftUp(r) \in Nat
                     /\ LeftDown(r) \in Nat /\ Upstream[r] \in Nat
  BY LeftType
<1> HIDE DEF x
<1>8. ASSUME BagInv, schema = "none"
      PROVE  /\ fixed'[x] = fixed[x] + 1 /\ \A r \in Row \ {x} : fixed'[r] = fixed[r]
             /\ fixed[x] >= down[x] /\ BagInv'
             /\ \A r \in Row : fixed'[r] >= fixed[r] \/ fixed'[r] >= Upstream[r]
  <2>1. LeftDown(x) = 0
    BY <1>1, <1>6, RowOrder
  <2>2. \A r \in Row :
          /\ fixed[r] + LeftUp(r) >= Upstream[r] + LeftDown(r)
          /\ cut = {} => fixed[r] + LeftUp(r) = Upstream[r] + LeftDown(r)
          /\ fixed[r] < down[r] => LeftUp(r) = 0
          /\ fixed[r] > down[r] => LeftDown(r) = 0
    BY <1>8 DEF BagInv
  <2>3. \A r \in Row : fixed'[r] = IF r = x THEN fixed[x] + 1 ELSE fixed[r]
    BY <1>1, <1>4, <1>8 DEF Replaced, Table
  <2>4. fixed[x] >= down[x]
    BY <1>1, <1>4, <1>7, <2>2
  <2>5. BagInv'
    <3> SUFFICES ASSUME NEW r \in Row
                 PROVE  /\ fixed'[r] + LeftUp(r)' >= Upstream[r] + LeftDown(r)'
                        /\ cut = {} => fixed'[r] + LeftUp(r)' = Upstream[r] + LeftDown(r)'
                        /\ fixed'[r] < down[r] => LeftUp(r)' = 0
                        /\ fixed'[r] > down[r] => LeftDown(r)' = 0
      BY <1>1, EnvFrame DEF BagInv, env
    <3>1. CASE r = x
      BY <1>1, <1>3, <1>4, <1>7, <2>1, <2>2, <2>3, <2>4, <3>1
    <3>2. CASE r # x
      BY <1>3, <1>7, <2>2, <2>3, <3>2
    <3> QED BY <3>1, <3>2
  <2> QED BY <1>1, <1>7, <2>3, <2>4, <2>5
<1>9. ASSUME KeyedInv, schema # "none"
      PROVE  /\ KeyedInv'
             /\ \A r \in Row : fixed'[r] >= fixed[r] \/ fixed'[r] >= Upstream[r]
             /\ cut = {} => /\ fixed'[x] = fixed[x] + 1
                            /\ \A r \in Row \ {x} : fixed'[r] = fixed[r]
                            /\ fixed[x] >= down[x]
  <2>1. /\ AsItWas(x.key) \/ Dropped(x.key)
        /\ \A r \in Row : r.key = x.key => Upstream[r] = IF r = x THEN 1 ELSE 0
    BY <1>1, <1>4, <1>9, RowAtHand
  <2>2. \A r \in Row : r.key = x.key => LeftDown(r) = 0
    <3> SUFFICES ASSUME NEW r \in Row, r.key = x.key PROVE ~RowLess(x, r)
      BY <1>6
    <3> QED BY <1>1, <1>9, RowOrder DEF SameOrderKey
  <2>3. \A r \in Row : fixed'[r] = IF r.key = x.key THEN IF r = x THEN 1 ELSE 0 ELSE fixed[r]
    BY <1>1, <1>9 DEF Replaced
  <2>4. \A r \in Row : r.key = x.key => fixed'[r] = Upstream[r] /\ LeftUp(r) = Upstream[r]
    BY <2>1, <2>3 DEF AsItWas, Dropped
  <2>5. \A r \in Row : r.key = x.key => fixed'[r] = Upstream[r] /\ LeftUp(r)' = 0 /\ LeftDown(r)' = 0
    BY <1>3, <2>1, <2>2, <2>4
  <2>6. \A r \in Row : r.key # x.key =>
           fixed'[r] = fixed[r] /\ LeftUp(r)' = LeftUp(r) /\ LeftDown(r)' = LeftDown(r)
    BY <1>3, <1>7, <2>3
  <2>7. KeyedInv'
    BY <1>1, <1>9, <2>5, <2>6, KeyDone
  <2>8. ASSUME NEW r \in Row PROVE fixed'[r] >= fixed[r] \/ fixed'[r] >= Upstream[r]
    BY <1>7, <2>4, <2>6
  <2>9. ASSUME cut = {}
        PROVE  /\ fixed'[x] = fixed[x] + 1
               /\ \A r \in Row \ {x} : fixed'[r] = fixed[r]
               /\ fixed[x] >= down[x]
    <3>1. AsItWas(x.key)
      BY <2>1, <2>9 DEF Dropped
    <3>2. \A r \in Row : r.key = x.key => fixed[r] = 0 /\ down[r] = 0
      BY <2>2, <3>1 DEF AsItWas
    <3> QED BY <1>1, <2>3, <3>2
  <2> QED BY <2>7, <2>8, <2>9
<1>10. /\ IF schema = "none" THEN BagInv' ELSE KeyedInv'
       /\ \A r \in Row : fixed'[r] >= fixed[r] \/ fixed'[r] >= Upstream[r]
       /\ cut = {} => /\ fixed'[x] = fixed[x] + 1
                      /\ \A r \in Row \ {x} : fixed'[r] = fixed[r]
                      /\ fixed[x] >= down[x]
  <2>1. CASE schema = "none"
    BY <1>2, <1>8, <2>1
  <2>2. CASE schema # "none"
    BY <1>2, <1>9, <2>2
  <2> QED BY <2>1, <2>2
<1>11. cut = {} => Surplus(fixed', down) = Surplus(fixed, down) + 1
                   /\ Surplus(down, fixed') = Surplus(down, fixed)
  <2>1. fixed' \in Table
    BY <1>1, <1>4, TableOps
  <2> QED BY <1>1, <1>4, <1>10, <2>1, SurplusGrows
<1>12. Surplus(fixed, down)' = Surplus(fixed', down) /\ Surplus(down, fixed)' = Surplus(down, fixed')
  BY <1>1 DEF env, Surplus
<1>13. cut' = {} => adds' = Surplus(fixed, down)' /\ dels' = Surplus(down, fixed)'
  BY <1>1, <1>2, <1>11, <1>12
<1>14. WalkInv'
  BY <1>1, <1>5, <1>10, <1>13 DEF WalkInv, env
<1> QED BY <1>10, <1>14

\* Two rows with one key: the upstream's replaces the downstream's, which
\* counts as one row added and one deleted.
LEMMA WalkUpdateRow ==
    ASSUME TypeInv, WalkInv, UpdateRow, "up" \notin cut, schema # "fields"
    PROVE  /\ WalkInv'
           /\ \A r \in Row : fixed'[r] = fixed[r] \/ fixed'[r] >= Upstream[r]
<1> DEFINE x == lastUp
           d == lastDown
<1>1. /\ ph = "rows" /\ x \in Row /\ d \in Row /\ x # d /\ SameOrderKey(x, d)
      /\ lastUp' = Nil /\ lastDown' = Nil
      /\ fixed' = Replaced(fixed, x) /\ adds' = adds + 1 /\ dels' = dels + 1 /\ ~equal'
      /\ UNCHANGED <<env, ph, cut, unreadUp, unreadDown>>
  BY DEF UpdateRow, streams
<1>2. /\ IF schema = "none" THEN BagInv ELSE KeyedInv
      /\ cut = {} => adds = Surplus(fixed, down) /\ dels = Surplus(down, fixed)
  BY <1>1 DEF WalkInv
<1>3. x.key = d.key /\ schema # "none" /\ KeyedInv
  BY <1>1, <1>2, RowOrder
<1>4. \A r \in Row : /\ LeftUp(r)' = LeftUp(r) - (IF r = x THEN 1 ELSE 0)
                     /\ LeftDown(r)' = LeftDown(r) - (IF r = d THEN 1 ELSE 0)
  <2> TAKE r \in Row
  <2>1. Merged(unreadUp)[r] \in Nat /\ unreadDown[r] \in Nat
    BY LeftType
  <2>2. LeftUp(r)' = Merged(unreadUp)[r] /\ LeftDown(r)' = unreadDown[r]
    BY <1>1, <2>1, NotRows DEF LeftUp, LeftDown
  <2> QED BY <1>1, <2>1, <2>2 DEF LeftUp, LeftDown
<1>5. LeftUp(x) >= 1 /\ LeftDown(d) >= 1 /\ fixed \in Table /\ down \in Table /\ EnvOK
  BY <1>1, LeftType, Sides2 DEF TypeInv
<1>6. OrderInv'
  BY <1>1, NotRows DEF OrderInv
<1>7. \A r \in Row : fixed[r] \in Nat /\ down[r] \in Nat /\ LeftUp(r) \in Nat
                     /\ LeftDown(r) \in Nat /\ Upstream[r] \in Nat
  BY LeftType
<1> HIDE DEF x, d
<1>8. /\ \A r \in Row : r.key = x.key => Upstream[r] = IF r = x THEN 1 ELSE 0
      /\ AsItWas(x.key)
      /\ \A r \in Row : r.key = x.key => down[r] = IF r = d THEN 1 ELSE 0
  BY <1>1, <1>3, <1>5, RowAtHand
<1>9. \A r \in Row : fixed'[r] = IF r.key = x.key THEN IF r = x THEN 1 ELSE 0 ELSE fixed[r]
  BY <1>1, <1>3 DEF Replaced
<1>10. \A r \in Row : r.key = x.key =>
          fixed[r] = down[r] /\ LeftUp(r) = Upstream[r] /\ LeftDown(r) = down[r]
  BY <1>8 DEF AsItWas
<1>11. \A r \in Row : r.key = x.key => fixed'[r] = Upstream[r] /\ LeftUp(r)' = 0 /\ LeftDown(r)' = 0
  BY <1>4, <1>8, <1>9, <1>10
<1>12. \A r \in Row : r.key # x.key =>
          fixed'[r] = fixed[r] /\ LeftUp(r)' = LeftUp(r) /\ LeftDown(r)' = LeftDown(r)
  BY <1>3, <1>4, <1>7, <1>9
<1>13. KeyedInv'
  BY <1>1, <1>3, <1>11, <1>12, KeyDone
<1> DEFINE t == [fixed EXCEPT ![d] = 0]
<1>14. /\ t \in Table /\ t[d] = 0 /\ \A r \in Row \ {d} : t[r] = fixed[r]
  BY <1>1, <1>5 DEF Table
<1> HIDE DEF t
<1>15. fixed[d] = 1 /\ down[d] = 1 /\ fixed[x] = 0 /\ down[x] = 0
  BY <1>1, <1>3, <1>8, <1>10
<1>16. Surplus(down, t) = Surplus(down, fixed) + 1 /\ Surplus(t, down) = Surplus(fixed, down)
  BY <1>1, <1>5, <1>14, <1>15, SurplusShrinks
<1>17. Surplus(fixed', down) = Surplus(t, down) + 1 /\ Surplus(down, fixed') = Surplus(down, t)
  <2>1. fixed' \in Table
    BY <1>1, <1>5, TableOps
  <2>2. fixed'[x] = t[x] + 1 /\ t[x] >= down[x]
    BY <1>1, <1>9, <1>14, <1>15
  <2>3. ASSUME NEW r \in Row \ {x} PROVE fixed'[r] = t[r]
    <3>1. CASE r = d
      BY <1>1, <1>3, <1>9, <1>14, <3>1
    <3>2. CASE r # d /\ r.key = x.key
      BY <1>8, <1>9, <1>10, <1>14, <3>2
    <3>3. CASE r # d /\ r.key # x.key
      BY <1>9, <1>14, <3>3
    <3> QED BY <3>1, <3>2, <3>3
  <2> QED BY <1>1, <1>5, <1>14, <2>1, <2>2, <2>3, SurplusGrows
<1>18. Surplus(fixed, down)' = Surplus(fixed', down) /\ Surplus(down, fixed)' = Surplus(down, fixed')
  BY <1>1 DEF env, Surplus
<1>19. cut' = {} => adds' = Surplus(fixed, down)' /\ dels' = Surplus(down, fixed)'
  <2>1. cut' = {} => adds' = Surplus(fixed, down) + 1
    BY <1>1, <1>2
  <2>2. cut' = {} => dels' = Surplus(down, fixed) + 1
    BY <1>1, <1>2
  <2> QED BY <1>16, <1>17, <1>18, <2>1, <2>2
<1>20. WalkInv'
  BY <1>1, <1>3, <1>6, <1>13, <1>19 DEF WalkInv, env
<1> QED BY <1>7, <1>11, <1>12, <1>20

-----------------------------------------------------------------------------
(* A chunk that is searched by other columns than it is ranged on.         *)

\* A row that both sides have is the only one of its key on either side.
LEMMA SharedIsUnique ==
    ASSUME TypeInv, schema = "fields", NEW r \in Row, Upstream[r] > 0, down[r] > 0
    PROVE  /\ Upstream[r] = 1 /\ down[r] = 1
           /\ \A x \in Row : x.key = r.key /\ (Upstream[x] > 0 \/ down[x] > 0) => x = r
  BY Sides2 DEF TypeInv, UniqueKey

\* The iterators are opened on the rows of the range.
LEMMA ApartOpens ==
    ASSUME TypeInv, TypeInv', SearchInv, OpenRows, schema = "fields"
    PROVE  ApartInv'
<1>1. /\ ph' = "rows" /\ UNCHANGED env /\ range' = range /\ fixed' = down /\ cut' = {} /\ OrderInv'
      /\ \A r \in Row : /\ LeftUp(r)' = Within(Upstream, range)[r]
                        /\ LeftDown(r)' = Within(down, range)[r]
  BY OpenedRows
<1>2. /\ Within(Upstream, range)' = Within(Upstream, range) /\ Within(down, range)' = Within(down, range)
      /\ Upstream' = Upstream /\ down' = down /\ schema' = schema
  BY <1>1, RangeFrame DEF Within, env
<1>3. ASSUME NEW r \in Row
      PROVE  /\ LeftUp(r)' <= Upstream[r] /\ LeftDown(r)' <= down[r]
             /\ Upstream[r] > 0 /\ down[r] > 0 => fixed'[r] >= down[r] /\ LeftDown(r)' <= LeftUp(r)'
             /\ LeftUp(r)' + Within(down, range)[r] = LeftDown(r)' + Within(Upstream, range)[r]
  <2>1. Upstream[r] \in Nat /\ down[r] \in Nat
    BY LeftType
  <2>2. /\ LeftUp(r)' = IF Selected(range, r) THEN Upstream[r] ELSE 0
        /\ LeftDown(r)' = IF Selected(range, r) THEN down[r] ELSE 0
    BY <1>1 DEF Within
  <2>3. Upstream[r] > 0 /\ down[r] > 0 => Upstream[r] = 1 /\ down[r] = 1
    BY SharedIsUnique
  <2>4. LeftUp(r)' = Within(Upstream, range)[r] /\ LeftDown(r)' = Within(down, range)[r]
    BY <1>1
  <2> QED BY <1>1, <2>1, <2>2, <2>3, <2>4
<1> QED BY <1>1, <1>2, <1>3 DEF ApartInv

\* A stream of the downstream that breaks off: no row of it is left.
LEMMA ApartCutDown ==
    ASSUME TypeInv, ApartInv, CutDown, schema = "fields"
    PROVE  ApartInv'
<1>1. /\ ph = "rows" /\ lastDown' = End /\ unreadDown' = Empty /\ cut' = cut \cup {"down"}
      /\ UNCHANGED <<env, range, ph, equal, fixed, unreadUp, lastUp>>
  BY DEF CutDown, search, verdict
<1> SUFFICES ASSUME "up" \notin cut PROVE ApartInv'
  BY <1>1 DEF ApartInv
<1>2. OrderInv /\ \A r \in Row :
             /\ LeftUp(r) <= Upstream[r] /\ LeftDown(r) <= down[r]
             /\ Upstream[r] > 0 /\ down[r] > 0 => fixed[r] >= down[r] /\ LeftDown(r) <= LeftUp(r)
  BY <1>1 DEF ApartInv
<1>3. \A r \in Row : LeftUp(r)' = LeftUp(r)
  BY <1>1 DEF LeftUp
<1>4. \A r \in Row : LeftDown(r)' = 0
  BY <1>1, EmptyTable, NotRows DEF LeftDown
<1>5. OrderInv'
  BY <1>1, <1>2, EmptyTable, EnvFrame, NotRows DEF OrderInv
<1>6. \A r \in Row : LeftUp(r) \in Nat /\ down[r] \in Nat
  BY LeftType
<1>7. cut' # {} /\ Upstream' = Upstream /\ down' = down
  BY <1>1, EnvFrame DEF env
<1> QED BY <1>1, <1>2, <1>3, <1>4, <1>5, <1>6, <1>7 DEF ApartInv

\* Two equal rows are passed over together.
LEMMA ApartSameRow ==
    ASSUME TypeInv, ApartInv, SameRow, schema = "fields"
    PROVE  ApartInv'
<1>1. /\ ph = "rows" /\ lastUp \in Row /\ lastDown = lastUp /\ lastUp' = Nil /\ lastDown' = Nil
      /\ UNCHANGED <<env, range, ph, equal, fixed, cut, unreadUp, unreadDown>>
  BY DEF SameRow, search, verdict, streams
<1> SUFFICES ASSUME "up" \notin cut PROVE ApartInv'
  BY <1>1 DEF ApartInv
<1> DEFINE U == Within(Upstream, range)
           D == Within(down, range)
<1>2. OrderInv /\ \A r \in Row :
             /\ LeftUp(r) <= Upstream[r] /\ LeftDown(r) <= down[r]
             /\ Upstream[r] > 0 /\ down[r] > 0 => fixed[r] >= down[r] /\ LeftDown(r) <= LeftUp(r)
             /\ equal /\ cut = {} => LeftUp(r) + D[r] = LeftDown(r) + U[r]
  BY <1>1 DEF ApartInv
<1>3. U' = U /\ D' = D /\ Upstream' = Upstream /\ down' = down /\ schema' = schema
  BY <1>1, RangeFrame DEF Within, env
<1>4. \A r \in Row : U[r] \in Nat /\ D[r] \in Nat
  <2> TAKE r \in Row
  <2>1. Upstream[r] \in Nat /\ down[r] \in Nat
    BY LeftType
  <2> QED BY <2>1 DEF Within
<1>5. OrderInv'
  BY <1>1, NotRows DEF OrderInv
<1> HIDE DEF U, D
<1>6. ASSUME NEW r \in Row
      PROVE  /\ LeftUp(r)' <= Upstream[r] /\ LeftDown(r)' <= down[r]
             /\ Upstream[r] > 0 /\ down[r] > 0 => fixed[r] >= down[r] /\ LeftDown(r)' <= LeftUp(r)'
             /\ equal /\ cut = {} => LeftUp(r)' + D[r] = LeftDown(r)' + U[r]
  <2>1. Merged(unreadUp)[r] \in Nat /\ unreadDown[r] \in Nat /\ U[r] \in Nat /\ D[r] \in Nat
        /\ Upstream[r] \in Nat /\ down[r] \in Nat
    BY <1>4, LeftType
  <2>2. LeftUp(r)' = Merged(unreadUp)[r] /\ LeftDown(r)' = unreadDown[r]
    BY <1>1, <2>1, NotRows DEF LeftUp, LeftDown
  <2>3. \/ LeftUp(r) = LeftUp(r)' /\ LeftDown(r) = LeftDown(r)'
        \/ LeftUp(r) = LeftUp(r)' + 1 /\ LeftDown(r) = LeftDown(r)' + 1
    BY <1>1, <2>1, <2>2 DEF LeftUp, LeftDown
  <2> QED BY <1>2, <2>1, <2>2, <2>3
<1> QED BY <1>1, <1>3, <1>5, <1>6 DEF ApartInv, U, D

\* A statement was written: what both sides have is there, and is not passed on
\* one side before the other.
LEMMA ApartWritten ==
    ASSUME TypeInv, ApartInv, ph = "rows", "up" \notin cut, schema = "fields",
           UNCHANGED <<env, ph, cut>>, ~equal', OrderInv',
           \A r \in Row : /\ LeftUp(r)' <= LeftUp(r) /\ LeftDown(r)' <= LeftDown(r)
                          /\ LeftUp(r)' \in Nat /\ LeftDown(r)' \in Nat,
           \A r \in Row : Upstream[r] > 0 /\ down[r] > 0 =>
                             fixed'[r] >= down[r] /\ LeftDown(r)' <= LeftUp(r)'
    PROVE  ApartInv'
<1>1. Upstream' = Upstream /\ down' = down
  BY EnvFrame DEF env
<1>2. \A r \in Row : /\ LeftUp(r)' <= Upstream[r] /\ LeftDown(r)' <= down[r]
  <2> TAKE r \in Row
  <2>1. LeftUp(r) <= Upstream[r] /\ LeftDown(r) <= down[r]
    BY DEF ApartInv
  <2> QED BY <2>1, LeftType
<1> QED BY <1>1, <1>2 DEF ApartInv

\* A downstream row that comes first is not to come upstream, so that it is not
\* on both sides.
LEMMA ApartDeleteRow ==
    ASSUME TypeInv, ApartInv, DeleteRow, "up" \notin cut, schema = "fields"
    PROVE  ApartInv'
<1> DEFINE x == lastDown
<1>1. /\ ph = "rows" /\ x \in Row /\ lastDown' = Nil
      /\ lastUp = End \/ (lastUp \in Row /\ RowLess(x, lastUp))
      /\ fixed' = Deleted(fixed, x) /\ ~equal'
      /\ UNCHANGED <<env, ph, cut, unreadUp, unreadDown, lastUp>>
  BY DEF DeleteRow, streams
<1>2. OrderInv /\ \A r \in Row :
             /\ LeftUp(r) <= Upstream[r] /\ LeftDown(r) <= down[r]
             /\ Upstream[r] > 0 /\ down[r] > 0 => fixed[r] >= down[r] /\ LeftDown(r) <= LeftUp(r)
  BY <1>1 DEF ApartInv
<1>3. \A r \in Row : LeftUp(r)' = LeftUp(r) /\ LeftDown(r)' = unreadDown[r]
  <2> TAKE r \in Row
  <2>1. unreadDown[r] \in Nat
    BY LeftType
  <2> QED BY <1>1, <2>1, NotRows DEF LeftUp, LeftDown
<1>4. \A r \in Row : /\ LeftUp(r) \in Nat /\ unreadDown[r] \in Nat /\ down[r] \in Nat
                     /\ LeftDown(r) = unreadDown[r] + IF r = x THEN 1 ELSE 0
                     /\ LeftDown(r) \in Nat
  <2> TAKE r \in Row
  <2> QED BY LeftType DEF LeftDown
<1>5. OrderInv'
  BY <1>1, <1>2, EnvFrame, NotRows DEF OrderInv
<1>6. LeftUp(x) = 0
  BY <1>1, <1>2, NoneLeftUp, RowOrder
<1>7. fixed \in Table
  BY DEF TypeInv
<1> HIDE DEF x
<1>8. ASSUME NEW r \in Row, Upstream[r] > 0, down[r] > 0
      PROVE  fixed'[r] >= down[r] /\ LeftDown(r)' <= LeftUp(r)'
  <2>1. LeftDown(r) <= LeftUp(r) /\ fixed[r] >= down[r]
    BY <1>2, <1>8
  <2>2. r # x
    BY <1>1, <1>4, <1>6, <2>1
  <2>3. fixed'[r] = fixed[r]
    BY <1>1, <1>7, <2>2 DEF Deleted, Table
  <2> QED BY <1>3, <1>4, <2>1, <2>2, <2>3
<1>9. \A r \in Row : /\ LeftUp(r)' <= LeftUp(r) /\ LeftDown(r)' <= LeftDown(r)
                     /\ LeftUp(r)' \in Nat /\ LeftDown(r)' \in Nat
  <2> TAKE r \in Row
  <2> QED BY <1>3, <1>4
<1> QED BY <1>1, <1>5, <1>8, <1>9, ApartWritten

\* An upstream row that comes first is not to come downstream; if both sides
\* have it, the statement writes just that row.
LEMMA ApartInsertRow ==
    ASSUME TypeInv, ApartInv, InsertRow, "up" \notin cut, schema = "fields"
    PROVE  ApartInv'
<1> DEFINE x == lastUp
<1>1. /\ ph = "rows" /\ x \in Row /\ lastUp' = Nil
      /\ lastDown = End \/ (lastDown \in Row /\ RowLess(x, lastDown))
      /\ fixed' = Replaced(fixed, x) /\ ~equal'
      /\ UNCHANGED <<env, ph, cut, unreadUp, unreadDown, lastDown>>
  BY DEF InsertRow, streams
<1>2. OrderInv /\ \A r \in Row :
             /\ LeftUp(r) <= Upstream[r] /\ LeftDown(r) <= down[r]
             /\ Upstream[r] > 0 /\ down[r] > 0 => fixed[r] >= down[r] /\ LeftDown(r) <= LeftUp(r)
  BY <1>1 DEF ApartInv
<1>3. \A r \in Row : LeftDown(r)' = LeftDown(r) /\ LeftUp(r)' = Merged(unreadUp)[r]
  <2> TAKE r \in Row
  <2>1. Merged(unreadUp)[r] \in Nat
    BY LeftType
  <2> QED BY <1>1, <2>1, NotRows DEF LeftUp, LeftDown
<1>4. \A r \in Row : /\ LeftDown(r) \in Nat /\ Merged(unreadUp)[r] \in Nat
                     /\ down[r] \in Nat /\ Upstream[r] \in Nat
                     /\ LeftUp(r) = Merged(unreadUp)[r] + IF r = x THEN 1 ELSE 0
  <2> TAKE r \in Row
  <2> QED BY LeftType DEF LeftUp
<1>5. OrderInv'
  BY <1>1, <1>2, EnvFrame, NotRows DEF OrderInv
<1>6. LeftDown(x) = 0
  BY <1>1, <1>2, NoneLeftDown, RowOrder
<1> HIDE DEF x
<1>7. Upstream[x] > 0
  <2>1. LeftUp(x) <= Upstream[x]
    BY <1>1, <1>2
  <2> QED BY <1>1, <1>4, <2>1
<1>8. ASSUME NEW r \in Row, Upstream[r] > 0, down[r] > 0
      PROVE  fixed'[r] >= down[r] /\ LeftDown(r)' <= LeftUp(r)'
  <2>1. LeftDown(r) <= LeftUp(r) /\ fixed[r] >= down[r] /\ down[r] = 1
    BY <1>2, <1>8, SharedIsUnique
  <2>2. r.key = x.key => r = x
    BY <1>1, <1>7, <1>8, SharedIsUnique
  <2>3. fixed'[r] = IF r = x THEN 1 ELSE fixed[r]
    BY <1>1, <2>2 DEF Replaced
  <2>4. LeftDown(r)' <= LeftUp(r)'
    BY <1>3, <1>4, <1>6, <2>1
  <2> QED BY <2>1, <2>3, <2>4
<1>9. \A r \in Row : /\ LeftUp(r)' <= LeftUp(r) /\ LeftDown(r)' <= LeftDown(r)
                     /\ LeftUp(r)' \in Nat /\ LeftDown(r)' \in Nat
  <2> TAKE r \in Row
  <2> QED BY <1>3, <1>4
<1> QED BY <1>1, <1>5, <1>8, <1>9, ApartWritten

\* Two rows of one key, neither of which is on both sides.
LEMMA ApartUpdateRow ==
    ASSUME TypeInv, ApartInv, UpdateRow, "up" \notin cut, schema = "fields"
    PROVE  ApartInv'
<1> DEFINE x == lastUp
           d == lastDown
<1>1. /\ ph = "rows" /\ x \in Row /\ d \in Row /\ x # d /\ SameOrderKey(x, d)
      /\ lastUp' = Nil /\ lastDown' = Nil
      /\ fixed' = Replaced(fixed, x) /\ ~equal'
      /\ UNCHANGED <<env, ph, cut, unreadUp, unreadDown>>
  BY DEF UpdateRow, streams
<1>2. OrderInv /\ \A r \in Row :
             /\ LeftUp(r) <= Upstream[r] /\ LeftDown(r) <= down[r]
             /\ Upstream[r] > 0 /\ down[r] > 0 => fixed[r] >= down[r] /\ LeftDown(r) <= LeftUp(r)
  BY <1>1 DEF ApartInv
<1>3. \A r \in Row : LeftUp(r)' = Merged(unreadUp)[r] /\ LeftDown(r)' = unreadDown[r]
  <2> TAKE r \in Row
  <2>1. Merged(unreadUp)[r] \in Nat /\ unreadDown[r] \in Nat
    BY LeftType
  <2> QED BY <1>1, <2>1, NotRows DEF LeftUp, LeftDown
<1>4. \A r \in Row : /\ Merged(unreadUp)[r] \in Nat /\ unreadDown[r] \in Nat
                     /\ down[r] \in Nat /\ Upstream[r] \in Nat
                     /\ LeftUp(r) = Merged(unreadUp)[r] + IF r = x THEN 1 ELSE 0
                     /\ LeftDown(r) = unreadDown[r] + IF r = d THEN 1 ELSE 0
  <2> TAKE r \in Row
  <2> QED BY LeftType DEF LeftUp, LeftDown
<1>5. OrderInv'
  BY <1>1, NotRows DEF OrderInv
<1>6. x.key = d.key
  BY <1>1, RowOrder
<1> HIDE DEF x, d
<1>7. Upstream[x] > 0 /\ down[d] > 0
  <2>1. LeftUp(x) <= Upstream[x] /\ LeftDown(d) <= down[d]
    BY <1>1, <1>2
  <2> QED BY <1>1, <1>4, <2>1
<1>8. ASSUME NEW r \in Row, Upstream[r] > 0, down[r] > 0
      PROVE  fixed'[r] >= down[r] /\ LeftDown(r)' <= LeftUp(r)'
  <2>1. LeftDown(r) <= LeftUp(r) /\ fixed[r] >= down[r]
    BY <1>2, <1>8
  <2>2. r.key # x.key
    <3> SUFFICES ASSUME r.key = x.key PROVE FALSE
      OBVIOUS
    <3>1. x = r /\ d = r
      BY <1>1, <1>6, <1>7, <1>8, SharedIsUnique
    <3> QED BY <1>1, <3>1
  <2>3. fixed'[r] = fixed[r]
    BY <1>1, <2>2 DEF Replaced
  <2> QED BY <1>3, <1>4, <1>6, <2>1, <2>2, <2>3
<1>9. \A r \in Row : /\ LeftUp(r)' <= LeftUp(r) /\ LeftDown(r)' <= LeftDown(r)
                     /\ LeftUp(r)' \in Nat /\ LeftDown(r)' \in Nat
  <2> TAKE r \in Row
  <2> QED BY <1>3, <1>4
<1> QED BY <1>1, <1>5, <1>8, <1>9, ApartWritten

-----------------------------------------------------------------------------
(* Every step.                                                             *)

\* What consume never changes.
LEMMA EnvStays == ASSUME CompareNext PROVE UNCHANGED env
  BY DEF CompareNext, Goes, Breaks, Checksum, BinKeep, BinStop, BinLeft, BinRight, BinGo, BinDies,
         OpenRows, NextUp, NextDown, SameRow, DeleteRow, InsertRow, UpdateRow, RowsEnd,
         ChecksumFails, BinFails, RowsFail, CutUp, CutDown

\* The walk's part of the invariant, and what a step of the walk does to the
\* repaired downstream.
LEMMA WalkStep ==
    ASSUME TypeInv, TypeInv', SearchInv, WalkInv, ApartInv, CompareNext
    PROVE  /\ WalkInv' /\ ApartInv'
           /\ "up" \notin cut' => \A r \in Row :
                  \/ fixed'[r] >= fixed[r]
                  \/ fixed'[r] >= Upstream[r]
                  \/ fixed'[r] >= down[r]
<1>0. \A r \in Row : fixed[r] \in Nat /\ fixed'[r] \in Nat /\ Upstream[r] \in Nat /\ down[r] \in Nat
  <2> SUFFICES ASSUME NEW r \in Row
               PROVE  fixed[r] \in Nat /\ fixed'[r] \in Nat /\ Upstream[r] \in Nat /\ down[r] \in Nat
    OBVIOUS
  <2>1. fixed' \in Table
    BY DEF TypeInv
  <2> QED BY <2>1, LeftType DEF Table
<1>00. UNCHANGED env /\ schema' = schema /\ Upstream' = Upstream /\ down' = down
  BY EnvStays, EnvFrame DEF env
<1>1. CASE NextUp
  BY <1>0, <1>1, WalkNextUp DEF NextUp
<1>2. CASE NextDown
  BY <1>0, <1>2, WalkNextDown DEF NextDown
<1>3. CASE CutUp
  BY <1>0, <1>3 DEF CutUp, WalkInv, ApartInv
<1>4. CASE OpenRows
  <2>1. fixed' = fixed
    BY <1>4 DEF OpenRows
  <2>2. CASE schema = "fields"
    BY <1>0, <1>00, <1>4, <2>1, <2>2, ApartOpens DEF WalkInv
  <2>3. CASE schema # "fields"
    BY <1>0, <1>00, <1>4, <2>1, <2>3, WalkOpens DEF ApartInv
  <2> QED BY <2>2, <2>3
<1>5. CASE CutDown
  <2>1. fixed' = fixed
    BY <1>5 DEF CutDown
  <2>2. CASE schema = "fields"
    BY <1>0, <1>00, <1>5, <2>1, <2>2, ApartCutDown DEF WalkInv
  <2>3. CASE schema # "fields"
    BY <1>0, <1>00, <1>5, <2>1, <2>3, WalkCutDown DEF ApartInv
  <2> QED BY <2>2, <2>3
<1>6. CASE SameRow
  <2>1. fixed' = fixed
    BY <1>6 DEF SameRow
  <2>2. CASE schema = "fields"
    BY <1>0, <1>00, <1>6, <2>1, <2>2, ApartSameRow DEF WalkInv
  <2>3. CASE schema # "fields"
    BY <1>0, <1>00, <1>6, <2>1, <2>3, WalkSameRow DEF ApartInv
  <2> QED BY <2>2, <2>3
<1>7. CASE DeleteRow \/ InsertRow \/ UpdateRow
  <2>1. ph' = "rows" /\ cut' = cut
    BY <1>7 DEF DeleteRow, InsertRow, UpdateRow
  <2>2. CASE "up" \in cut
    BY <2>1, <2>2 DEF WalkInv, ApartInv
  <2>3. CASE "up" \notin cut /\ schema = "fields"
    <3>1. ApartInv'
      BY <1>7, <2>3, ApartDeleteRow, ApartInsertRow, ApartUpdateRow
    <3>2. \A r \in Row : Upstream[r] > 0 /\ down[r] > 0 => fixed'[r] >= down[r]
      BY <1>00, <2>1, <2>3, <3>1 DEF ApartInv
    <3>3. WalkInv'
      BY <1>00, <2>3 DEF WalkInv
    <3> QED BY <1>0, <3>1, <3>2, <3>3
  <2>4. CASE "up" \notin cut /\ schema # "fields"
    <3>1. ApartInv'
      BY <1>00, <2>4 DEF ApartInv
    <3>2. CASE DeleteRow
      BY <1>0, <2>4, <3>1, <3>2, WalkDeleteRow
    <3>3. CASE InsertRow
      BY <1>0, <2>4, <3>1, <3>3, WalkInsertRow
    <3>4. CASE UpdateRow
      BY <1>0, <2>4, <3>1, <3>4, WalkUpdateRow
    <3> QED BY <1>7, <3>2, <3>3, <3>4
  <2> QED BY <2>2, <2>3, <2>4
<1>8. CASE \/ Checksum \/ ChecksumFails \/ BinKeep \/ BinStop \/ BinLeft \/ BinRight
           \/ BinDies \/ BinFails \/ RowsFail \/ RowsEnd
  <2>1. ph' # "rows" /\ fixed' = fixed
    BY <1>8
    DEF Checksum, ChecksumFails, BinKeep, BinStop, BinLeft, BinRight, BinGo, BinDies, BinFails,
        RowsFail, RowsEnd, Searching
  <2> QED BY <1>0, <2>1 DEF WalkInv, ApartInv
<1> QED BY <1>1, <1>2, <1>3, <1>4, <1>5, <1>6, <1>7, <1>8 DEF CompareNext, Goes, Breaks

-----------------------------------------------------------------------------
(* The outcome.                                                            *)

\* What the walk leaves when both streams have come to their ends.
LEMMA WalkEnds ==
    ASSUME TypeInv, SearchInv, WalkInv, RowsEnd, cut = {}, schema # "fields"
    PROVE  fixed = Upstream /\ Upstream # down
<1>1. /\ ph = "rows" /\ lastUp = End /\ lastDown = End
      /\ OrderInv
      /\ IF schema = "none" THEN BagInv ELSE KeyedInv
  BY DEF RowsEnd, WalkInv
<1>2. \A r \in Row : /\ LeftUp(r) = 0 /\ LeftDown(r) = 0
                     /\ fixed[r] \in Nat /\ Upstream[r] \in Nat
  <2> TAKE r \in Row
  <2>1. Merged(unreadUp)[r] = 0 /\ unreadDown[r] = 0
    BY <1>1 DEF OrderInv
  <2> QED BY <1>1, <2>1, LeftType, NotRows DEF LeftUp, LeftDown
<1>3. ASSUME NEW r \in Row PROVE fixed[r] = Upstream[r]
  <2>1. CASE schema = "none"
    BY <1>1, <1>2, <2>1 DEF BagInv
  <2>2. CASE schema # "none"
    <3>1. AsItWas(r.key) \/ Settled(r.key)
      BY <1>1, <2>2, RowsFinite DEF KeyedInv, Dropped
    <3>2. CASE AsItWas(r.key)
      BY <1>2, <3>2 DEF AsItWas
    <3>3. CASE Settled(r.key)
      BY <3>3 DEF Settled
    <3> QED BY <3>1, <3>2, <3>3
  <2> QED BY <2>1, <2>2
<1>4. fixed = Upstream
  BY <1>3, Sides2 DEF TypeInv, Table
<1>5. ~SameChecksum(Whole) /\ EnvOK
  BY <1>1 DEF SearchInv, TypeInv
<1>6. Upstream # down
  BY <1>5, EqualChecksum
<1> QED BY <1>4, <1>6

\* A walk that came to its end found a difference.
LEMMA WalkDiffers ==
    ASSUME TypeInv, SearchInv, WalkInv, ApartInv, RowsEnd, cut = {}
    PROVE  ~equal
<1> SUFFICES ASSUME equal PROVE FALSE
  OBVIOUS
<1>1. ph = "rows" /\ lastUp = End /\ lastDown = End /\ EnvOK
  BY DEF RowsEnd, TypeInv
<1>2. CASE schema # "fields"
  <2>1. fixed = down
    BY <1>1, <1>2 DEF WalkInv
  <2> QED BY <1>2, <2>1, WalkEnds
<1>3. CASE schema = "fields"
  <2>1. OrderInv /\ \A r \in Row :
           LeftUp(r) + Within(down, range)[r] = LeftDown(r) + Within(Upstream, range)[r]
    BY <1>1, <1>3 DEF ApartInv
  <2>2. ASSUME NEW r \in Row, Selected(range, r)
        PROVE  Upstream[r] = down[r]
    <3>1. Merged(unreadUp)[r] = 0 /\ unreadDown[r] = 0
      BY <1>1, <2>1 DEF OrderInv
    <3>2. LeftUp(r) = 0 /\ LeftDown(r) = 0
      BY <1>1, <3>1, NotRows DEF LeftUp, LeftDown
    <3>3. Upstream[r] \in Nat /\ down[r] \in Nat
      BY LeftType
    <3>4. LeftUp(r) + Within(down, range)[r] = LeftDown(r) + Within(Upstream, range)[r]
      BY <2>1
    <3>5. Within(Upstream, range)[r] = Upstream[r] /\ Within(down, range)[r] = down[r]
      BY <2>2 DEF Within
    <3> QED BY <3>2, <3>3, <3>4, <3>5
  <2>3. SameChecksum(range)
    BY <1>1, <2>2, EqualChecksum
  <2> QED BY <1>1, <2>3 DEF SearchInv
<1> QED BY <1>2, <1>3

\* A step that ends without an error gives the right outcome.
LEMMA DoneStep ==
    ASSUME TypeInv, SearchInv, WalkInv, ApartInv, DoneInv, CompareNext
    PROVE  DoneInv'
<1>1. /\ UNCHANGED env /\ Upstream' = Upstream /\ down' = down /\ schema' = schema
      /\ SameChecksum(Whole)' <=> SameChecksum(Whole)
  BY EnvStays, RangeFrame DEF env, Whole
<1>2. CASE Checksum
  <2>1. equal' /\ (ph' = "done" => SameChecksum(Whole))
    BY <1>2 DEF Checksum, SearchInv, verdict
  <2> QED BY <1>1, <2>1 DEF DoneInv, Clean
<1>3. CASE RowsEnd
  <2>1. UNCHANGED <<equal, adds, dels, err, fixed, cut>> /\ ph = "rows"
    BY <1>3 DEF RowsEnd, verdict
  <2> SUFFICES ASSUME cut = {}
               PROVE  /\ ~equal /\ ~SameChecksum(Whole)
                      /\ schema # "fields" =>
                           /\ fixed = Upstream
                           /\ adds = Surplus(Upstream, down)
                           /\ dels = Surplus(down, Upstream)
    BY <1>1, <2>1 DEF DoneInv, Clean, Surplus
  <2>2. ~equal /\ ~SameChecksum(Whole)
    BY <1>3, <2>1, WalkDiffers DEF SearchInv
  <2>3. ASSUME schema # "fields"
        PROVE  /\ fixed = Upstream
               /\ adds = Surplus(Upstream, down) /\ dels = Surplus(down, Upstream)
    <3>1. fixed = Upstream
      BY <1>3, <2>3, WalkEnds
    <3>2. adds = Surplus(fixed, down) /\ dels = Surplus(down, fixed)
      BY <2>1, <2>3 DEF WalkInv
    <3> QED BY <3>1, <3>2
  <2> QED BY <2>2, <2>3
<1>4. CASE ChecksumFails \/ RowsFail
  <2>1. err'
    BY <1>4 DEF ChecksumFails, RowsFail
  <2> QED BY <2>1 DEF DoneInv, Clean
<1>5. CASE \/ BinKeep \/ BinStop \/ BinLeft \/ BinRight \/ BinDies \/ BinFails \/ OpenRows \/ NextUp
           \/ NextDown \/ SameRow \/ DeleteRow \/ InsertRow \/ UpdateRow \/ CutUp \/ CutDown
  <2>1. ph' # "done"
    BY <1>5 DEF BinKeep, BinStop, BinLeft, BinRight, BinGo, BinDies, BinFails, Searching, OpenRows,
                NextUp, NextDown, SameRow, DeleteRow, InsertRow, UpdateRow, CutUp, CutDown
  <2> QED BY <2>1 DEF DoneInv, Clean
<1> QED BY <1>2, <1>3, <1>4, <1>5 DEF CompareNext, Goes, Breaks

\* In a chunk searched by other columns a row that comes in is the upstream's.
LEMMA NoneInvented ==
    ASSUME TypeInv, TypeInv', ApartInv, CompareNext, schema = "fields", "up" \notin cut, NEW r \in Row
    PROVE  fixed'[r] <= fixed[r] \/ fixed'[r] <= Upstream[r]
<1>1. fixed[r] \in Nat /\ fixed'[r] \in Nat /\ Upstream[r] \in Nat
  BY LeftType DEF TypeInv, Table
<1>2. CASE DeleteRow
  <2>1. fixed' = Deleted(fixed, lastDown) /\ lastDown \in Row
    BY <1>2 DEF DeleteRow, TypeInv
  <2>2. fixed'[r] = IF r = lastDown THEN (IF fixed[r] > 0 THEN fixed[r] - 1 ELSE 0) ELSE fixed[r]
    BY <2>1 DEF Deleted, TypeInv, Table
  <2> QED BY <1>1, <2>2
<1>3. CASE InsertRow \/ UpdateRow
  <2>1. ph = "rows" /\ fixed' = Replaced(fixed, lastUp) /\ lastUp \in Row
    BY <1>3 DEF InsertRow, UpdateRow, TypeInv
  <2>2. LeftUp(lastUp) <= Upstream[lastUp]
    BY <2>1 DEF ApartInv
  <2>3. Upstream[lastUp] >= 1
    BY <2>1, <2>2, LeftType DEF LeftUp
  <2>4. fixed'[r] = IF r = lastUp THEN 1 ELSE IF r.key = lastUp.key THEN 0 ELSE fixed[r]
    BY <2>1 DEF Replaced
  <2> QED BY <1>1, <2>3, <2>4
<1>4. CASE ~(DeleteRow \/ InsertRow \/ UpdateRow)
  <2>1. fixed' = fixed
    BY <1>4 DEF CompareNext, Goes, Breaks, Checksum, BinKeep, BinStop, BinLeft, BinRight, BinGo, BinDies,
                OpenRows, NextUp, NextDown, SameRow, RowsEnd,
                ChecksumFails, BinFails, RowsFail, CutUp, CutDown, Searching, verdict
  <2> QED BY <1>1, <2>1
<1> QED BY <1>2, <1>3, <1>4

\* No step loses a row that both sides have.
LEMMA SharedStep ==
    ASSUME TypeInv, TypeInv', SearchInv, WalkInv, ApartInv, SharedInv, CompareNext
    PROVE  SharedInv'
<1>1. UNCHANGED env /\ Upstream' = Upstream /\ down' = down /\ schema' = schema
  BY EnvStays, EnvFrame DEF env
<1> SUFFICES ASSUME "up" \notin cut', NEW r \in Row
             PROVE  /\ fixed'[r] >= Upstream[r] \/ fixed'[r] >= down[r]
                    /\ schema = "fields" => fixed'[r] <= Upstream[r] \/ fixed'[r] <= down[r]
  BY <1>1 DEF SharedInv
<1>2. "up" \notin cut
  BY DEF CompareNext, Goes, Breaks, Checksum, BinKeep, BinStop, BinLeft, BinRight, BinGo, BinDies,
         OpenRows, NextUp, NextDown, SameRow, DeleteRow, InsertRow, UpdateRow, RowsEnd,
         ChecksumFails, BinFails, RowsFail, CutUp, CutDown
<1>3. /\ fixed[r] >= Upstream[r] \/ fixed[r] >= down[r]
      /\ schema = "fields" => fixed[r] <= Upstream[r] \/ fixed[r] <= down[r]
  BY <1>2 DEF SharedInv
<1>4. /\ fixed'[r] >= fixed[r] \/ fixed'[r] >= Upstream[r] \/ fixed'[r] >= down[r]
      /\ schema = "fields" => fixed'[r] <= fixed[r] \/ fixed'[r] <= Upstream[r]
  BY <1>2, WalkStep, NoneInvented
<1>5. fixed[r] \in Nat /\ Upstream[r] \in Nat /\ down[r] \in Nat
  BY LeftType
<1>6. fixed'[r] \in Nat
  BY DEF TypeInv, Table
<1> QED BY <1>3, <1>4, <1>5, <1>6

-----------------------------------------------------------------------------
(* The theorems.                                                           *)

\* The invariant holds in every state.
LEMMA CompareInvariant == CompareSpec => []CompareInv
<1>1. CompareInit => CompareInv
  <2> SUFFICES ASSUME CompareInit PROVE CompareInv
    OBVIOUS
  <2>1. TypeInv /\ SearchInv
    BY TypeInit, SearchInit
  <2>2. ph = "checksum" /\ fixed = down
    BY DEF CompareInit
  <2>3. SharedInv
    <3>1. \A r \in Row : fixed[r] \in Nat
      BY <2>1 DEF TypeInv, Table
    <3> QED BY <2>2, <3>1 DEF SharedInv
  <2> QED BY <2>1, <2>2, <2>3 DEF CompareInv, WalkInv, ApartInv, DoneInv, Clean
<1>2. CompareInv /\ [CompareNext]_chunkVars => CompareInv'
  <2> SUFFICES ASSUME CompareInv, [CompareNext]_chunkVars PROVE CompareInv'
    OBVIOUS
  <2>1. TypeInv /\ SearchInv /\ WalkInv /\ ApartInv /\ DoneInv /\ SharedInv
    BY DEF CompareInv
  <2>2. CASE CompareNext
    BY <2>1, <2>2, TypeStep, SearchStep, WalkStep, DoneStep, SharedStep DEF CompareInv
  <2>3. CASE UNCHANGED chunkVars
    <3>1. /\ UNCHANGED <<ph, range, count, unreadUp, unreadDown, lastUp, lastDown>>
          /\ UNCHANGED <<equal, adds, dels, err, fixed, cut>>
          /\ UNCHANGED <<tidb, schema, fields, up, down>> /\ UNCHANGED env
      BY <2>3 DEF chunkVars, env, search, streams, verdict
    <3>2. /\ Upstream' = Upstream
          /\ \A rg, r : Selected(rg, r)' <=> Selected(rg, r)
          /\ \A rg : CountUp(rg)' = CountUp(rg)
          /\ \A rg : SameChecksum(rg)' <=> SameChecksum(rg)
      BY <3>1, RangeFrame
    <3>3. TypeInv'
      BY <2>1, <3>1 DEF TypeInv, EnvOK
    <3>4. SearchInv'
      BY <2>1, <3>1, <3>2 DEF SearchInv, Whole
    <3>5. /\ OrderInv' <=> OrderInv
          /\ \A r \in Row : LeftUp(r)' = LeftUp(r) /\ LeftDown(r)' = LeftDown(r)
      BY <3>1 DEF OrderInv, RowLess, LeftUp, LeftDown
    <3>6. WalkInv'
      BY <2>1, <3>1, <3>2, <3>5 DEF WalkInv, BagInv, KeyedInv, AsItWas, Settled, Dropped
    <3>7. ApartInv'
      BY <2>1, <3>1, <3>2, <3>5 DEF ApartInv, Within
    <3>8. DoneInv'
      BY <2>1, <3>1, <3>2 DEF DoneInv, Clean, Whole
    <3>9. SharedInv'
      BY <2>1, <3>1, <3>2 DEF SharedInv
    <3> QED BY <3>3, <3>4, <3>6, <3>7, <3>8, <3>9 DEF CompareInv
  <2> QED BY <2>2, <2>3
<1> QED BY <1>1, <1>2, PTL DEF CompareSpec

\* The smaller of two numbers.
LEMMA MinOfTwo ==
    ASSUME NEW a \in Nat, NEW b \in Nat
    PROVE  Min({a, b}) = IF a <= b THEN a ELSE b
<1> DEFINE m == IF a <= b THEN a ELSE b
<1>1. m \in {a, b} /\ \A y \in {a, b} : m <= y
  OBVIOUS
<1>2. \A x \in {a, b} : (\A y \in {a, b} : x <= y) => x = m
  OBVIOUS
<1> QED BY <1>1, <1>2 DEF Min

\* The variables of consume, binSearch and compareRows have their types.
THEOREM CompareTypes == CompareSpec => []CompareTypeOK
<1>1. CompareInv => CompareTypeOK
  <2> SUFFICES ASSUME CompareInv PROVE CompareTypeOK
    OBVIOUS
  <2>1. TypeInv
    BY DEF CompareInv
  <2>2. [tidb |-> tidb, schema |-> schema, fields |-> fields, up |-> up, down |-> down]
           \in Database
    BY <2>1, CompareAssumption DEF TypeInv, EnvOK
  <2> QED BY <2>1, <2>2 DEF TypeInv, Bounds, CompareTypeOK
<1> QED BY <1>1, CompareInvariant, PTL

\* After compareRows went through a chunk to its end, the statements it wrote
\* make the downstream the upstream, for every number of rows, of copies and of
\* shards, and for every way binSearch narrowed the range, if it went by the
\* columns that the chunk is ranged on.  If it went by others, its halves may
\* leave rows out, but the statements bring in nothing that neither side has.
THEOREM FixIsRepair == CompareSpec => []FixRepairs
<1>1. CompareInv => FixRepairs
  <2> SUFFICES ASSUME CompareInv, Clean, ~equal, schema = "fields", NEW r \in Row
               PROVE  fixed[r] \in {Upstream[r], down[r]}
    BY DEF CompareInv, DoneInv, FixRepairs, SearchedAsRanged
  <2>1. /\ fixed[r] >= Upstream[r] \/ fixed[r] >= down[r]
        /\ fixed[r] <= Upstream[r] \/ fixed[r] <= down[r]
    BY DEF CompareInv, SharedInv, Clean
  <2>2. fixed[r] \in Nat /\ Upstream[r] \in 0 .. 1 /\ down[r] \in 0 .. 1
    <3>1. fixed[r] \in Nat /\ Upstream[r] \in Nat /\ down[r] \in Nat
      BY LeftType DEF CompareInv
    <3>2. UniqueKey(Upstream) /\ UniqueKey(down)
      BY Sides2 DEF CompareInv, TypeInv
    <3> QED BY <3>1, <3>2 DEF UniqueKey
  <2> QED BY <2>1, <2>2
<1> QED BY <1>1, CompareInvariant, PTL

\* No statement compareRows writes takes away a row that both sides have, and
\* none does when the comparison fails half-way.
THEOREM SharedRowsKept == CompareSpec => []KeepsSharedRows
<1>1. CompareInv => KeepsSharedRows
  <2> SUFFICES ASSUME CompareInv, "up" \notin cut, NEW r \in Row
               PROVE  fixed[r] >= Min({Upstream[r], down[r]})
    BY DEF KeepsSharedRows, Shared
  <2>1. fixed[r] \in Nat /\ Upstream[r] \in Nat /\ down[r] \in Nat
    BY LeftType DEF CompareInv
  <2>2. fixed[r] >= Upstream[r] \/ fixed[r] >= down[r]
    BY DEF CompareInv, SharedInv
  <2> QED BY <2>1, <2>2, MinOfTwo
<1> QED BY <1>1, CompareInvariant, PTL

\* With a unique key, consume calls a chunk equal exactly when its rows are,
\* by whatever columns the chunk is searched.
THEOREM VerdictIsRight == CompareSpec => []VerdictRight
<1>1. CompareInv => VerdictRight
  <2> SUFFICES ASSUME CompareInv, Clean, schema # "none"
               PROVE  equal <=> Within(Upstream, Whole) = Within(down, Whole)
    BY DEF VerdictRight
  <2>1. EnvOK /\ (equal <=> SameChecksum(Whole))
    BY DEF CompareInv, TypeInv, DoneInv
  <2>2. ASSUME SameChecksum(Whole) PROVE Within(Upstream, Whole) = Within(down, Whole)
    <3>1. \A r \in Row : Selected(Whole, r) => Upstream[r] = down[r]
      BY <2>1, <2>2, ChecksumTells
    <3> QED BY <3>1 DEF Within
  <2>3. ASSUME Within(Upstream, Whole) = Within(down, Whole) PROVE SameChecksum(Whole)
    BY <2>3 DEF SameChecksum, Upstream
  <2> QED BY <2>1, <2>2, <2>3
<1> QED BY <1>1, CompareInvariant, PTL

\* The two row counts of the report are the numbers of missing and of
\* superfluous rows, of a chunk searched by the columns it is ranged on.
THEOREM CountsAreRight == CompareSpec => []CountsRight
<1>1. CompareInv => CountsRight
  BY DEF CompareInv, DoneInv, CountsRight, SearchedAsRanged
<1> QED BY <1>1, CompareInvariant, PTL

\* Every row in which the sides differ is in the range binSearch has come to,
\* if it goes by the columns that the chunk is ranged on.
THEOREM DifferencesKept == CompareSpec => []NarrowKeepsDifferences
<1>1. CompareInv => NarrowKeepsDifferences
  BY DEF CompareInv, SearchInv, NarrowKeepsDifferences, SearchedAsRanged
<1> QED BY <1>1, CompareInvariant, PTL

\* Neither of the two log.Fatal calls of binSearch is reached while it goes by
\* the columns that the chunk is ranged on.
THEOREM SearchNeverFatal == CompareSpec => []BinFatalFree
<1>1. CompareInv => BinFatalFree
  BY DEF CompareInv, SearchInv, BinFatalFree, SearchedAsRanged
<1> QED BY <1>1, CompareInvariant, PTL
=============================================================================
