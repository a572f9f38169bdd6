--------------------------- MODULE SplitterProofs ---------------------------
(***************************************************************************)
(* Proofs about the cutting of a table, for all statistics in the order of *)
(* their bounds, all finite sets of rows, every chunk size and number of   *)
(* restarts.  At any moment the chunks produced, the splits that wait and  *)
(* what is still to be cut are tiles of the set of keys: disjoint, without *)
(* a gap, and in the order of ids.  Each step replaces one tile by others. *)
(***************************************************************************)
EXTENDS Splitter, ChunkRangeProofs, FiniteSetTheorems

-----------------------------------------------------------------------------
(* Finite sets of keys.                                                    *)

\* There is no endless descent among the subsets of a finite set.
LEMMA SmallerSets ==
    ASSUME NEW S, IsFiniteSet(S)
    PROVE  IsWellFoundedOn(StrictSubsetOrdering(S), SUBSET S)
  BY FS_StrictSubsetOrderingWellFounded, FS_FiniteSubsetsOfFinite

\* What holds of a finite set when it holds of all smaller ones holds of all
\* its subsets.
LEMMA FiniteInduction ==
    ASSUME NEW S, IsFiniteSet(S), NEW Good,
           \A s \in SUBSET S : (\A u \in SUBSET s : u # s => u \in Good) => s \in Good
    PROVE  \A s \in SUBSET S : s \in Good
<1> DEFINE Bad == {s \in SUBSET S : s \notin Good}
<1> SUFFICES ASSUME Bad # {} PROVE FALSE
  OBVIOUS
<1>1. IsWellFoundedOn(StrictSubsetOrdering(S), SUBSET S)
  BY SmallerSets
<1>2. PICK s \in Bad : \A u \in Bad : <<u, s>> \notin StrictSubsetOrdering(S)
  <2> HIDE DEF Bad
  <2>1. Bad \subseteq SUBSET S
    BY DEF Bad
  <2> QED BY <1>1, <2>1, WFMin
<1>3. ASSUME NEW u \in SUBSET s, u # s PROVE u \in Good
  <2>1. u \in SUBSET S /\ s \in SUBSET S /\ u \subseteq s
    OBVIOUS
  <2>2. <<u, s>> \in StrictSubsetOrdering(S)
    <3> HIDE DEF Bad
    <3> QED BY <1>3, <2>1 DEF StrictSubsetOrdering
  <2> QED BY <1>2, <2>1, <2>2
<1> QED BY <1>3

\* One of finitely many keys is the greatest.
LEMMA GreatestKey ==
    ASSUME NEW S \in SUBSET Key, IsFiniteSet(S), S # {}
    PROVE  \E g \in S : \A k \in S : KeyLeq(k, g)
<1> DEFINE Good == {T \in SUBSET S : T # {} => \E g \in T : \A k \in T : KeyLeq(k, g)}
<1>1. ASSUME NEW T \in SUBSET S, \A u \in SUBSET T : u # T => u \in Good PROVE T \in Good
  <2> SUFFICES ASSUME T # {} PROVE \E g \in T : \A k \in T : KeyLeq(k, g)
    OBVIOUS
  <2>1. PICK x \in T : TRUE
    OBVIOUS
  <2>2. CASE T \ {x} = {}
    BY <2>1, <2>2 DEF KeyLeq
  <2>3. CASE T \ {x} # {}
    <3>1. T \ {x} \in Good
      BY <1>1, <2>1
    <3>2. PICK g \in T \ {x} : \A k \in T \ {x} : KeyLeq(k, g)
      BY <2>3, <3>1
    <3>3. x \in Key /\ g \in Key /\ \A k \in T : k \in Key
      OBVIOUS
    <3>4. CASE KeyLess(x, g)
      BY <3>2, <3>4 DEF KeyLeq
    <3>5. CASE KeyLess(g, x)
      <4>1. \A k \in T \ {x} : KeyLess(k, x)
        BY <3>2, <3>3, <3>5, KeyLessTransitive DEF KeyLeq
      <4> QED BY <2>1, <4>1 DEF KeyLeq
    <3> QED BY <3>3, <3>4, <3>5, KeyLessTotal
  <2> QED BY <2>2, <2>3
<1>2. \A T \in SUBSET S : T \in Good
  <2> HIDE DEF Good
  <2> QED BY <1>1, FiniteInduction
<1> QED BY <1>2

\* Finitely many keys can be put in order.
LEMMA KeysSort ==
    ASSUME NEW S \in SUBSET Key, IsFiniteSet(S)
    PROVE  \E s \in [1 .. Cardinality(S) -> S] : \A m, n \in DOMAIN s : m < n => KeyLess(s[m], s[n])
<1> DEFINE Sorts(s, T) == /\ s \in [1 .. Cardinality(T) -> T]
                          /\ \A m, n \in 1 .. Cardinality(T) : m < n => KeyLess(s[m], s[n])
           Good == {T \in SUBSET S : \E s : Sorts(s, T)}
<1>1. ASSUME NEW T \in SUBSET S, \A u \in SUBSET T : u # T => u \in Good PROVE \E s : Sorts(s, T)
  <2>1. IsFiniteSet(T) /\ Cardinality(T) \in Nat
    BY FS_Subset, FS_CardinalityType
  <2>2. CASE T = {}
    <3>1. Cardinality(T) = 0 /\ 1 .. 0 = {}
      BY <2>2, FS_EmptySet
    <3>2. Sorts([m \in {} |-> m], T)
      BY <3>1
    <3> QED BY <3>2
  <2>3. CASE T # {}
    <3>1. PICK g \in T : \A k \in T : KeyLeq(k, g)
      <4>1. T \in SUBSET Key
        OBVIOUS
      <4> QED BY <2>1, <2>3, <4>1, GreatestKey
    <3> DEFINE n == Cardinality(T)
               U == T \ {g}
    <3>2. U \in SUBSET T /\ U # T /\ Cardinality(U) = n - 1 /\ n \in Nat /\ Cardinality(U) \in Nat
      <4>1. IsFiniteSet(U) /\ Cardinality(U) = n - 1 /\ Cardinality(U) \in Nat
        BY <2>1, FS_RemoveElement, FS_CardinalityType, FS_Subset
      <4> QED BY <2>1, <4>1
    <3>3. PICK s : Sorts(s, U)
      BY <1>1, <3>2
    <3> DEFINE t == [m \in 1 .. n |-> IF m = n THEN g ELSE s[m]]
    <3>4. \A m \in 1 .. n : m # n => m \in 1 .. Cardinality(U)
      BY <3>2
    <3>5. \A m \in 1 .. (n - 1) : s[m] \in U /\ \A j \in 1 .. (n - 1) : m < j => KeyLess(s[m], s[j])
      BY <3>2, <3>3
    <3>6. \A k \in U : KeyLess(k, g)
      BY <3>1 DEF KeyLeq
    <3>7. t \in [1 .. n -> T]
      BY <3>2, <3>4, <3>5
    <3>8. ASSUME NEW m \in 1 .. n, NEW j \in 1 .. n, m < j PROVE KeyLess(t[m], t[j])
      <4>1. m \in 1 .. (n - 1) /\ m # n /\ t[m] = s[m]
        BY <3>2, <3>8
      <4>2. CASE j = n
        BY <3>5, <3>6, <4>1, <4>2
      <4>3. CASE j # n
        <5>1. j \in 1 .. (n - 1) /\ t[j] = s[j]
          BY <3>2, <4>3
        <5> QED BY <3>5, <3>8, <4>1, <5>1
      <4> QED BY <4>2, <4>3
    <3>9. Sorts(t, T)
      <4> HIDE DEF t
      <4> QED BY <3>7, <3>8
    <3> QED BY <3>9
  <2> QED BY <2>2, <2>3
<1>2. \A T \in SUBSET S : T \in Good
  <2>1. \A T \in SUBSET S : (\A u \in SUBSET T : u # T => u \in Good) => T \in Good
    BY <1>1
  <2> HIDE DEF Good
  <2> QED BY <2>1, FiniteInduction
<1>3. PICK s : Sorts(s, S)
  BY <1>2
<1> QED BY <1>3

-----------------------------------------------------------------------------
(* Tiles: what the table is cut into so far.  A chunk is a tile, a split    *)
(* that waits is one, and so is the rest of the table.  A tile has a place  *)
(* in the order of ids, the chunks a up to but not including b of the       *)
(* buckets l to r, and a range of keys.                                     *)

ChunkTile(c) ==
    [kind |-> "chunk", of |-> c, l |-> c.left, r |-> c.right, cnt |-> c.cnt,
     a |-> c.index, b |-> c.index + 1, lower |-> c.lower, upper |-> c.upper]

TaskTile(t) ==
    [kind |-> "task", of |-> t, l |-> t.left, r |-> t.right, cnt |-> t.cnt,
     a |-> t.begin, b |-> t.cnt, lower |-> t.lower, upper |-> t.upper]

RestTile(l, r, cnt, a, lower) ==
    [kind |-> "rest", of |-> <<>>, l |-> l, r |-> r, cnt |-> cnt,
     a |-> a, b |-> a + 1, lower |-> lower, upper |-> <<>>]

\* What is neither a chunk nor a waiting split: all keys before the first
\* start, those behind the start range, and those the loop has not come to.
Rest ==
    CASE ph = "idle" /\ start = NoChunk -> {RestTile(0, 0, 0, 0, <<>>)}
      [] ph = "idle" /\ start # NoChunk /\ start.upper # <<>> ->
            {RestTile(start.left, start.right, start.cnt, start.index + 1, start.upper)}
      [] ph = "loop" -> {RestTile(firstBucket, NBuckets, 0, 0, low)}
      [] OTHER -> {}

Tiles == {ChunkTile(c) : c \in chunks} \cup {TaskTile(t) : t \in tasks} \cup Rest

\* The keys of a tile.
InTile(p, k) ==
    /\ p.lower # <<>> => KeyLess(p.lower, k)
    /\ p.upper # <<>> => KeyLeq(k, p.upper)

TileOK(p) ==
    /\ p.l \in Nat /\ p.r \in Nat /\ p.cnt \in Int /\ p.a \in Nat /\ p.b \in Nat
    /\ p.l <= p.r /\ p.a < p.b
    /\ p.lower \in Bound /\ p.upper \in Bound
    /\ p.lower # <<>> /\ p.upper # <<>> => KeyLeq(p.lower, p.upper)
    /\ p.upper # <<>> => p.b <= p.cnt

\* p comes before q, in its place and in its keys.
Precedes(p, q) ==
    /\ p.upper # <<>> /\ q.lower # <<>> /\ KeyLeq(p.upper, q.lower)
    /\ p.r < q.l \/ (p.l = q.l /\ p.r = q.r /\ p.cnt = q.cnt /\ p.b <= q.a)

\* q is where the checkpoint goes on from p.
Follows(p, q) ==
    \/ p.r + 1 = q.l /\ q.a = 0 /\ p.b = p.cnt
    \/ p.l = q.l /\ p.b = q.a

Ordered(T) == \A p, q \in T : p = q \/ Precedes(p, q) \/ Precedes(q, p)

Covers(T) == \A k \in Key : \E p \in T : InTile(p, k)

Walkable(T) ==
    /\ \E p \in T : p.lower = <<>>
    /\ \A p \in T : p.upper # <<>> => \E q \in T : Follows(p, q)

\* A chunk, and what is left of its bucket group.
ChunkOK(c) ==
    /\ c \in ChunkRecord
    /\ c.table = 0 /\ ~c.isFirst /\ ~c.isLast
    /\ c.hasLower <=> c.lower # <<>>
    /\ c.hasUpper <=> c.upper # <<>>
    /\ c.upper # <<>> /\ buckets # <<>> =>
         /\ c.right < NBuckets /\ KeyLeq(c.upper, Bucket(c.right).upper)
         /\ c.index = c.cnt - 1 => c.upper = Bucket(c.right).upper
    /\ buckets = <<>> => c.left = 0 /\ c.right = 0 /\ (c.upper # <<>> => c.index < c.cnt - 1)

TaskOK(t) ==
    /\ buckets # <<>> /\ t.n \in Nat \ {0} /\ t.begin + t.n = t.cnt /\ t.begin \in Nat
    /\ t.type \in {"bucket", "random"}
    /\ t.upper # <<>> => t.right < NBuckets /\ t.upper = Bucket(t.right).upper
    /\ t.upper = <<>> => t.n = 1

PhaseOK ==
    /\ ph \in {"idle", "loop", "done"}
    /\ ph = "idle" =>
         /\ tasks = {}
         /\ start = NoChunk => chunks = {} /\ mark = InitNode
         /\ start # NoChunk => start = mark /\ mark \in chunks
    /\ ph = "loop" =>
         /\ buckets # <<>> /\ i \in 0 .. NBuckets /\ firstBucket \in 0 .. i /\ latestCount \in Nat
         /\ low = IF firstBucket = 0 THEN <<>> ELSE Bucket(firstBucket - 1).upper

\* The checkpoint is at a chunk, no split that waits is behind it, and the
\* chunks up to it hold all keys up to its bound.
MarkOK ==
    mark # InitNode =>
        /\ mark \in chunks
        /\ \A t \in tasks : Precedes(ChunkTile(mark), TaskTile(t))
        /\ \A k \in Key : mark.upper = <<>> \/ KeyLeq(k, mark.upper) =>
               \E c \in chunks : ComparesLeq(c, mark) /\ InTile(ChunkTile(c), k)

SplitInv ==
    /\ buckets \in BucketChoices /\ rows \in RowChoices /\ short \in BOOLEAN
    /\ \A c \in chunks : ChunkOK(c)
    /\ \A t \in tasks : TaskOK(t)
    /\ PhaseOK
    /\ \A p \in Tiles : TileOK(p)
    /\ Ordered(Tiles)
    /\ Covers(Tiles)
    /\ ~short => Walkable(Tiles)
    /\ MarkOK

-----------------------------------------------------------------------------
(* Tiles in order.                                                         *)

\* A key is not the empty sequence.
LEMMA KeyNotEmpty == ASSUME NEW k \in Key PROVE k # <<>>
<1>1. 1 \in DOMAIN k
  BY ChunkRangeAssumption DEF Key, Cols
<1> QED BY <1>1

\* KeyLeq is transitive.
LEMMA KeyLeqTransitive ==
    ASSUME NEW k \in Key, NEW l \in Key, NEW m \in Key, KeyLeq(k, l), KeyLeq(l, m)
    PROVE  KeyLeq(k, m)
  BY KeyLessTransitive DEF KeyLeq

\* What comes before a tile comes before what the tile comes before.
LEMMA PrecedesTransitive ==
    ASSUME NEW p, NEW q, NEW x, TileOK(p), TileOK(q), TileOK(x), Precedes(p, q), Precedes(q, x)
    PROVE  Precedes(p, x)
<1>1. KeyLeq(p.upper, x.lower)
  <2>1. p.upper \in Key /\ q.lower \in Key /\ q.upper \in Key /\ x.lower \in Key
    BY DEF Precedes, TileOK, Bound
  <2>2. KeyLeq(p.upper, q.lower) /\ KeyLeq(q.lower, q.upper) /\ KeyLeq(q.upper, x.lower)
    BY DEF Precedes, TileOK
  <2>3. KeyLeq(p.upper, q.upper)
    BY <2>1, <2>2, KeyLeqTransitive
  <2> QED BY <2>1, <2>2, <2>3, KeyLeqTransitive
<1>2. p.r < x.l \/ (p.l = x.l /\ p.r = x.r /\ p.cnt = x.cnt /\ p.b <= x.a)
  <2>1. CASE p.r < q.l
    BY <2>1 DEF Precedes, TileOK
  <2>2. CASE q.r < x.l /\ p.l = q.l /\ p.r = q.r
    BY <2>2 DEF Precedes, TileOK
  <2>3. CASE /\ p.l = q.l /\ p.r = q.r /\ p.cnt = q.cnt /\ p.b <= q.a
             /\ q.l = x.l /\ q.r = x.r /\ q.cnt = x.cnt /\ q.b <= x.a
    <3>1. p.b <= x.a
      BY <2>3 DEF TileOK
    <3> QED BY <2>3, <3>1
  <2> QED BY <2>1, <2>2, <2>3 DEF Precedes
<1> QED BY <1>1, <1>2 DEF Precedes

\* A tile does not come before itself, and of two tiles only one comes first.
LEMMA PrecedesAsymmetric ==
    ASSUME NEW p, NEW q, TileOK(p), TileOK(q)
    PROVE  ~Precedes(p, p) /\ ~(Precedes(p, q) /\ Precedes(q, p))
<1>1. ~Precedes(p, p)
  BY DEF Precedes, TileOK
<1> QED BY <1>1, PrecedesTransitive

\* A key is in one of two tiles in order.
LEMMA PrecedesDisjoint ==
    ASSUME NEW p, NEW q, TileOK(p), TileOK(q), Precedes(p, q), NEW k \in Key
    PROVE  ~(InTile(p, k) /\ InTile(q, k))
<1>1. p.upper \in Key /\ q.lower \in Key
  BY DEF Precedes, TileOK, Bound
<1>2. SUFFICES ASSUME KeyLeq(k, p.upper), KeyLess(q.lower, k) PROVE FALSE
  BY DEF Precedes, InTile
<1>3. KeyLeq(k, q.lower)
  BY <1>1, <1>2, KeyLeqTransitive DEF Precedes
<1> QED BY <1>1, <1>2, <1>3, KeyLessTotal DEF KeyLeq

\* What lies in a later tile is above what an earlier one ends with.
LEMMA LaterIsAbove ==
    ASSUME NEW p, NEW q, TileOK(p), TileOK(q), Precedes(p, q), NEW k \in Key, InTile(q, k)
    PROVE  p.upper \in Key /\ ~KeyLeq(k, p.upper)
<1>1. p.upper \in Key /\ q.lower \in Key /\ KeyLess(q.lower, k)
  BY DEF Precedes, TileOK, Bound, InTile
<1>2. KeyLess(p.upper, k)
  BY <1>1, KeyLessTransitive DEF Precedes, KeyLeq
<1> QED BY <1>1, <1>2, KeyLessTotal DEF KeyLeq

\* Between a tile and one that follows it there is no other.
LEMMA NothingBetween ==
    ASSUME NEW p, NEW q, NEW x, TileOK(p), TileOK(q), TileOK(x),
           Precedes(p, x), Precedes(x, q)
    PROVE  ~Follows(p, q)
<1>1. x.b <= x.cnt
  BY DEF Precedes, TileOK
<1>2. CASE p.r < x.l
  BY <1>2 DEF Precedes, TileOK, Follows
<1>3. CASE p.l = x.l /\ p.r = x.r /\ p.cnt = x.cnt /\ p.b <= x.a
  BY <1>1, <1>3 DEF Precedes, TileOK, Follows
<1> QED BY <1>2, <1>3 DEF Precedes

\* What follows a tile does not come before it.
LEMMA FollowsPrecedes ==
    ASSUME NEW p, NEW q, TileOK(p), TileOK(q), Follows(p, q)
    PROVE  ~Precedes(q, p) /\ p # q
  BY DEF Precedes, TileOK, Follows

-----------------------------------------------------------------------------
(* A tile is cut.                                                          *)

\* s is a part of the tile p.
Within(s, p) ==
    /\ p.lower # <<>> => s.lower # <<>> /\ KeyLeq(p.lower, s.lower)
    /\ p.upper # <<>> => /\ s.upper # <<>> /\ KeyLeq(s.upper, p.upper)
                         /\ s.l = p.l /\ s.r = p.r /\ s.cnt = p.cnt /\ s.b <= p.b
    /\ \/ p.a = 0 /\ p.l <= s.l
       \/ s.l = p.l /\ s.r = p.r /\ s.cnt = p.cnt /\ p.a <= s.a
       \/ p.r < s.l

\* The parts S of p hold its keys.
Fills(S, p) == \A k \in Key : InTile(p, k) => \E s \in S : InTile(s, k)

\* From what is before p the checkpoint can go on into S, through S, and to
\* what follows p.
Chains(S, p) ==
    /\ p.lower = <<>> => \E s \in S : s.lower = <<>>
    /\ \A x : TileOK(x) /\ Precedes(x, p) /\ Follows(x, p) => \E s \in S : Follows(x, s)
    /\ \A s \in S : s.upper # <<>> =>
          \/ \E q \in S : Follows(s, q)
          \/ p.upper # <<>> /\ s.l = p.l /\ s.r = p.r /\ s.cnt = p.cnt /\ s.b = p.b

\* A part is where its tile was.
LEMMA PartInPlace ==
    ASSUME NEW p, NEW s, NEW x, TileOK(p), TileOK(s), TileOK(x), Within(s, p)
    PROVE  /\ Precedes(x, p) => Precedes(x, s)
           /\ Precedes(p, x) => Precedes(s, x)
<1>1. ASSUME Precedes(x, p) PROVE Precedes(x, s)
  <2>1. x.upper \in Key /\ p.lower \in Key /\ s.lower \in Key
    BY <1>1 DEF Precedes, TileOK, Bound, Within
  <2>2. KeyLeq(x.upper, s.lower)
    BY <1>1, <2>1, KeyLeqTransitive DEF Precedes, Within
  <2>3. x.r < s.l \/ (x.l = s.l /\ x.r = s.r /\ x.cnt = s.cnt /\ x.b <= s.a)
    <3>1. CASE p.a = 0 /\ p.l <= s.l
      BY <1>1, <3>1 DEF Precedes, TileOK
    <3>2. CASE s.l = p.l /\ s.r = p.r /\ s.cnt = p.cnt /\ p.a <= s.a
      <4>1. x.b <= p.a => x.b <= s.a
        BY <3>2 DEF TileOK
      <4> QED BY <1>1, <3>2, <4>1 DEF Precedes
    <3>3. CASE p.r < s.l
      <4>1. x.r < p.l => x.r < s.l
        BY <3>3 DEF TileOK
      <4>2. x.r = p.r => x.r < s.l
        BY <3>3
      <4> QED BY <1>1, <4>1, <4>2 DEF Precedes
    <3> QED BY <3>1, <3>2, <3>3 DEF Within
  <2> QED BY <2>2, <2>3, <1>1 DEF Precedes, Within
<1>2. ASSUME Precedes(p, x) PROVE Precedes(s, x)
  <2>1. p.upper \in Key /\ x.lower \in Key /\ s.upper \in Key
    BY <1>2 DEF Precedes, TileOK, Bound, Within
  <2>2. KeyLeq(s.upper, x.lower)
    BY <1>2, <2>1, KeyLeqTransitive DEF Precedes, Within
  <2>3. s.r < x.l \/ (s.l = x.l /\ s.r = x.r /\ s.cnt = x.cnt /\ s.b <= x.a)
    BY <1>2 DEF Precedes, TileOK, Within
  <2> QED BY <2>2, <2>3, <1>2 DEF Precedes, Within
<1> QED BY <1>1, <1>2

\* Cutting one of the tiles of a table keeps them in order, without gaps, and
\* fit for the checkpoint to walk.
LEMMA Recut ==
    ASSUME NEW T, \A q \in T : TileOK(q), Ordered(T), NEW p \in T,
           NEW S, \A s \in S : TileOK(s) /\ Within(s, p), Ordered(S)
    PROVE  LET U == (T \ {p}) \cup S
           IN  /\ \A q \in U : TileOK(q)
               /\ Ordered(U)
               /\ Covers(T) /\ Fills(S, p) => Covers(U)
               /\ Walkable(T) /\ Chains(S, p) => Walkable(U)
<1> DEFINE U == (T \ {p}) \cup S
<1>1. \A q \in U : TileOK(q)
  OBVIOUS
<1>2. \A q \in T \ {p} : \A s \in S :
         /\ Precedes(q, p) => Precedes(q, s)
         /\ Precedes(p, q) => Precedes(s, q)
         /\ Precedes(q, p) \/ Precedes(p, q)
  <2> TAKE q \in T \ {p}
  <2> TAKE s \in S
  <2>1. TileOK(q) /\ TileOK(p) /\ TileOK(s) /\ Within(s, p)
    OBVIOUS
  <2>2. Precedes(q, p) \/ Precedes(p, q)
    BY DEF Ordered
  <2> QED BY <2>1, <2>2, PartInPlace
<1>3. Ordered(U)
  <2> SUFFICES ASSUME NEW q \in U, NEW x \in U PROVE q = x \/ Precedes(q, x) \/ Precedes(x, q)
    BY DEF Ordered
  <2>1. CASE q \in T \ {p} /\ x \in T \ {p}
    BY <2>1 DEF Ordered
  <2>2. CASE q \in S /\ x \in S
    BY <2>2 DEF Ordered
  <2>3. CASE q \in T \ {p} /\ x \in S
    BY <1>2, <2>3
  <2>4. CASE q \in S /\ x \in T \ {p}
    BY <1>2, <2>4
  <2> QED BY <2>1, <2>2, <2>3, <2>4
<1>4. ASSUME Covers(T), Fills(S, p) PROVE Covers(U)
  <2> SUFFICES ASSUME NEW k \in Key PROVE \E q \in U : InTile(q, k)
    BY DEF Covers
  <2>1. PICK q \in T : InTile(q, k)
    BY <1>4 DEF Covers
  <2>2. CASE q = p
    BY <1>4, <2>1, <2>2 DEF Fills
  <2> QED BY <2>1, <2>2
<1>5. ASSUME Walkable(T), Chains(S, p) PROVE Walkable(U)
  <2>1. \E q \in U : q.lower = <<>>
    <3>1. PICK q \in T : q.lower = <<>>
      BY <1>5 DEF Walkable
    <3>2. CASE q = p
      BY <1>5, <3>1, <3>2 DEF Chains
    <3> QED BY <3>1, <3>2
  <2>2. ASSUME NEW q \in T \ {p}, q.upper # <<>> PROVE \E x \in U : Follows(q, x)
    <3>1. PICK x \in T : Follows(q, x)
      BY <1>5, <2>2 DEF Walkable
    <3>2. CASE x = p
      <4>1. TileOK(q) /\ TileOK(p) /\ Follows(q, p)
        BY <3>1, <3>2
      <4>2. Precedes(q, p)
        BY <4>1, FollowsPrecedes DEF Ordered
      <4>3. PICK s \in S : Follows(q, s)
        BY <1>5, <4>1, <4>2 DEF Chains
      <4> QED BY <4>3
    <3> QED BY <3>1, <3>2
  <2>3. ASSUME NEW q \in S, q.upper # <<>> PROVE \E x \in U : Follows(q, x)
    <3>1. CASE \E x \in S : Follows(q, x)
      BY <3>1
    <3>2. CASE p.upper # <<>> /\ q.l = p.l /\ q.r = p.r /\ q.cnt = p.cnt /\ q.b = p.b
      <4>1. PICK x \in T : Follows(p, x)
        BY <1>5, <3>2 DEF Walkable
      <4>2. x # p
        BY <4>1, FollowsPrecedes
      <4>3. Follows(q, x)
        BY <3>2, <4>1 DEF Follows
      <4> QED BY <4>2, <4>3
    <3> QED BY <1>5, <2>3, <3>1, <3>2 DEF Chains
  <2> QED BY <2>1, <2>2, <2>3 DEF Walkable
<1> QED BY <1>1, <1>3, <1>4, <1>5

-----------------------------------------------------------------------------
(* Cut: a range is cut at keys in order.                                   *)

\* The chunk behind j of the values, and its bounds.
From(t, vals, j) == IF j = 0 THEN t.lower ELSE vals[j]
UpTo(t, vals, j) == IF j = Len(vals) THEN t.upper ELSE vals[j + 1]

Piece(t, vals, j) ==
    [table |-> 0, left |-> t.left, right |-> t.right, index |-> t.begin + j,
     cnt |-> t.cnt, type |-> t.type, isFirst |-> FALSE, isLast |-> FALSE,
     lower |-> From(t, vals, j), upper |-> UpTo(t, vals, j),
     hasLower |-> j > 0 \/ t.lower # <<>>, hasUpper |-> j < Len(vals) \/ t.upper # <<>>]

\* t cuts the tile p.
CutsTile(t, p) ==
    /\ t.lower = p.lower /\ t.upper = p.upper
    /\ t.left = p.l /\ t.right = p.r /\ t.begin = p.a /\ t.cnt \in Int /\ t.type \in {"bucket", "random"}
    /\ p.cnt = t.cnt \/ (p.a = 0 /\ p.upper = <<>>)
    /\ p.upper # <<>> => p.b = t.cnt

\* Keys in order, in the range of t, and not too many for its numbers.
CutsAt(t, vals) ==
    /\ vals \in Seq(Key)
    /\ \A m, n \in 1 .. Len(vals) : m < n => KeyLess(vals[m], vals[n])
    /\ \A m \in 1 .. Len(vals) : /\ t.lower # <<>> => KeyLess(t.lower, vals[m])
                                 /\ t.upper # <<>> => KeyLeq(vals[m], t.upper)
    /\ t.begin + Len(vals) < t.cnt \/ (t.upper = <<>> /\ Len(vals) = 0)

\* The chunks of a cut, one by one.
LEMMA CutPieces ==
    ASSUME NEW t, NEW vals
    PROVE  Cut(t, vals) = {Piece(t, vals, j) : j \in 0 .. Len(vals)}
  BY DEF Cut, Piece, From, UpTo

\* What the bounds of the chunks of a cut are.
LEMMA PieceBounds ==
    ASSUME NEW t, NEW p, TileOK(p), CutsTile(t, p), NEW vals, CutsAt(t, vals)
    PROVE  /\ Len(vals) \in Nat
           /\ \A j \in 1 .. Len(vals) : vals[j] \in Key /\ vals[j] # <<>>
           /\ \A j \in 0 .. Len(vals) :
                /\ From(t, vals, j) \in Bound /\ UpTo(t, vals, j) \in Bound
                /\ From(t, vals, j) # <<>> <=> j > 0 \/ t.lower # <<>>
                /\ UpTo(t, vals, j) # <<>> <=> j < Len(vals) \/ t.upper # <<>>
                /\ t.lower # <<>> => KeyLeq(t.lower, From(t, vals, j))
                /\ t.upper # <<>> => KeyLeq(UpTo(t, vals, j), t.upper)
                /\ From(t, vals, j) # <<>> /\ UpTo(t, vals, j) # <<>> =>
                     KeyLeq(From(t, vals, j), UpTo(t, vals, j))
<1>1. Len(vals) \in Nat /\ \A j \in 1 .. Len(vals) : vals[j] \in Key /\ vals[j] # <<>>
  BY KeyNotEmpty DEF CutsAt
<1>2. t.lower \in Bound /\ t.upper \in Bound
      /\ (t.lower # <<>> /\ t.upper # <<>> => KeyLeq(t.lower, t.upper))
  BY DEF TileOK, CutsTile
<1>3. ASSUME NEW j \in 0 .. Len(vals)
      PROVE  /\ j = 0 => From(t, vals, j) = t.lower
             /\ j # 0 => From(t, vals, j) = vals[j] /\ j \in 1 .. Len(vals)
             /\ j = Len(vals) => UpTo(t, vals, j) = t.upper
             /\ j # Len(vals) => UpTo(t, vals, j) = vals[j + 1] /\ j + 1 \in 1 .. Len(vals) /\ j < Len(vals)
             /\ j > 0 <=> j # 0
  BY <1>1 DEF From, UpTo
<1>4. ASSUME NEW j \in 0 .. Len(vals)
      PROVE  /\ From(t, vals, j) \in Bound /\ UpTo(t, vals, j) \in Bound
             /\ From(t, vals, j) # <<>> <=> j > 0 \/ t.lower # <<>>
             /\ UpTo(t, vals, j) # <<>> <=> j < Len(vals) \/ t.upper # <<>>
             /\ t.lower # <<>> => KeyLeq(t.lower, From(t, vals, j))
             /\ t.upper # <<>> => KeyLeq(UpTo(t, vals, j), t.upper)
  BY <1>1, <1>2, <1>3 DEF Bound, KeyLeq, CutsAt
<1>5. ASSUME NEW j \in 0 .. Len(vals), From(t, vals, j) # <<>>, UpTo(t, vals, j) # <<>>
      PROVE  KeyLeq(From(t, vals, j), UpTo(t, vals, j))
  <2>1. CASE j = 0 \/ j = Len(vals)
    BY <1>1, <1>2, <1>3, <1>5, <2>1 DEF KeyLeq, CutsAt
  <2>2. CASE j # 0 /\ j # Len(vals)
    <3>1. j \in 1 .. Len(vals) /\ j + 1 \in 1 .. Len(vals) /\ j < j + 1
      BY <1>1, <1>3, <2>2
    <3>2. KeyLess(vals[j], vals[j + 1])
      BY <3>1 DEF CutsAt
    <3> QED BY <1>3, <2>2, <3>2 DEF KeyLeq
  <2> QED BY <2>1, <2>2
<1> QED BY <1>1, <1>4, <1>5

\* The values are all at or below a key, or there is a first that is not less.
LEMMA FirstNotLess ==
    ASSUME NEW n \in Nat, NEW D \in SUBSET (1 .. n), D # {}
    PROVE  \E m \in D : m - 1 \in 0 .. n /\ \A j \in D : m <= j
<1>1. D \subseteq Nat
  OBVIOUS
<1>2. PICK m \in D : \A j \in D : <<j, m>> \notin OpToRel(<, Nat)
  BY <1>1, WFMin, NatLessThanWellFounded
<1>3. ASSUME NEW j \in D PROVE m <= j
  <2>1. j \in Nat /\ m \in Nat
    BY <1>1
  <2>2. j < m => <<j, m>> \in OpToRel(<, Nat)
    BY <2>1 DEF OpToRel
  <2>3. ~(j < m)
    BY <1>2, <2>2
  <2> QED BY <2>1, <2>3
<1> QED BY <1>1, <1>3

\* The chunks of a cut are the range cut into tiles.
LEMMA CutTiles ==
    ASSUME NEW t, NEW p, TileOK(p), CutsTile(t, p), NEW vals, CutsAt(t, vals)
    PROVE  LET S == {ChunkTile(c) : c \in Cut(t, vals)}
           IN  /\ \A s \in S : TileOK(s) /\ Within(s, p)
               /\ Ordered(S)
               /\ Fills(S, p)
               /\ (t.upper # <<>> => t.begin + Len(vals) + 1 = t.cnt) => Chains(S, p)
<1> DEFINE P(j) == ChunkTile(Piece(t, vals, j))
           S == {P(j) : j \in 0 .. Len(vals)}
           n == Len(vals)
<1>1. {ChunkTile(c) : c \in Cut(t, vals)} = S
  BY CutPieces
<1>2. \A j : /\ P(j).l = t.left /\ P(j).r = t.right /\ P(j).cnt = t.cnt
             /\ P(j).a = t.begin + j /\ P(j).b = t.begin + j + 1
             /\ P(j).lower = From(t, vals, j) /\ P(j).upper = UpTo(t, vals, j)
  BY DEF ChunkTile, Piece
<1>3. /\ n \in Nat
      /\ \A j \in 1 .. n : vals[j] \in Key /\ vals[j] # <<>>
      /\ \A j \in 0 .. n :
           /\ From(t, vals, j) \in Bound /\ UpTo(t, vals, j) \in Bound
           /\ From(t, vals, j) # <<>> <=> j > 0 \/ t.lower # <<>>
           /\ UpTo(t, vals, j) # <<>> <=> j < n \/ t.upper # <<>>
           /\ t.lower # <<>> => KeyLeq(t.lower, From(t, vals, j))
           /\ t.upper # <<>> => KeyLeq(UpTo(t, vals, j), t.upper)
           /\ From(t, vals, j) # <<>> /\ UpTo(t, vals, j) # <<>> =>
                KeyLeq(From(t, vals, j), UpTo(t, vals, j))
  BY PieceBounds
<1>4. /\ t.left \in Nat /\ t.right \in Nat /\ t.left <= t.right /\ t.begin \in Nat /\ t.cnt \in Int
      /\ t.begin + n < t.cnt \/ (t.upper = <<>> /\ n = 0)
      /\ t.left = p.l /\ t.right = p.r /\ t.begin = p.a /\ t.lower = p.lower /\ t.upper = p.upper
      /\ p.cnt = t.cnt \/ (p.a = 0 /\ p.upper = <<>>)
      /\ p.upper # <<>> => p.b = t.cnt
  BY DEF TileOK, CutsTile, CutsAt
<1> HIDE DEF P, n
<1>5. ASSUME NEW j \in 0 .. n PROVE TileOK(P(j)) /\ Within(P(j), p)
  <2>1. UpTo(t, vals, j) # <<>> => t.begin + j + 1 <= t.cnt
    BY <1>3, <1>4
  <2>2. TileOK(P(j))
    <3>1. /\ t.begin + j \in Nat /\ t.begin + j + 1 \in Nat /\ t.begin + j < t.begin + j + 1
      BY <1>3, <1>4
    <3> QED BY <1>2, <1>3, <1>4, <2>1, <3>1 DEF TileOK
  <2>3. t.upper # <<>> => P(j).upper # <<>> /\ P(j).b <= t.cnt
    BY <1>2, <1>3, <2>1
  <2>4. p.a <= P(j).a /\ p.l <= P(j).l
    BY <1>2, <1>3, <1>4
  <2>5. p.lower # <<>> => P(j).lower # <<>> /\ KeyLeq(p.lower, P(j).lower)
    BY <1>2, <1>3, <1>4
  <2>6. p.upper # <<>> => /\ P(j).upper # <<>> /\ KeyLeq(P(j).upper, p.upper)
                          /\ P(j).l = p.l /\ P(j).r = p.r /\ P(j).cnt = p.cnt /\ P(j).b <= p.b
    BY <1>2, <1>3, <1>4, <2>3
  <2>7. Within(P(j), p)
    BY <1>2, <1>4, <2>4, <2>5, <2>6 DEF Within
  <2> QED BY <2>2, <2>7
<1>6. ASSUME NEW i1 \in 0 .. n, NEW i2 \in 0 .. n, i1 < i2 PROVE Precedes(P(i1), P(i2))
  <2>1. i1 + 1 \in 1 .. n /\ i2 \in 1 .. n /\ i1 < n /\ i2 > 0 /\ i1 + 1 <= i2 /\ i1 # n /\ i2 # 0
    BY <1>3, <1>6
  <2>2. UpTo(t, vals, i1) = vals[i1 + 1] /\ From(t, vals, i2) = vals[i2]
    BY <2>1 DEF From, UpTo, n
  <2>3. KeyLeq(vals[i1 + 1], vals[i2])
    <3>1. CASE i1 + 1 = i2
      BY <3>1 DEF KeyLeq
    <3>2. CASE i1 + 1 < i2
      BY <2>1, <3>2 DEF KeyLeq, CutsAt, n
    <3> QED BY <2>1, <3>1, <3>2
  <2>4. t.begin + i1 + 1 <= t.begin + i2
    BY <1>4, <2>1
  <2> QED BY <1>2, <1>3, <2>1, <2>2, <2>3, <2>4 DEF Precedes
<1>7. Ordered(S)
  <2> SUFFICES ASSUME NEW i1 \in 0 .. n, NEW i2 \in 0 .. n
               PROVE  P(i1) = P(i2) \/ Precedes(P(i1), P(i2)) \/ Precedes(P(i2), P(i1))
    BY DEF Ordered, n
  <2>1. i1 = i2 \/ i1 < i2 \/ i2 < i1
    BY <1>3
  <2> QED BY <1>6, <2>1
<1>8. Fills(S, p)
  <2> SUFFICES ASSUME NEW k \in Key, InTile(p, k) PROVE \E j \in 0 .. n : InTile(P(j), k)
    BY DEF Fills, n
  <2> DEFINE D == {j \in 1 .. n : KeyLeq(k, vals[j])}
  <2>1. t.lower # <<>> => KeyLess(t.lower, k)
    BY <1>4 DEF InTile
  <2>2. t.upper # <<>> => KeyLeq(k, t.upper)
    BY <1>4 DEF InTile
  <2>3. ASSUME NEW j \in 1 .. n, j \notin D PROVE KeyLess(vals[j], k)
    BY <1>3, <2>3, KeyLessTotal DEF KeyLeq
  <2>4. CASE D = {}
    <3>1. n \in 0 .. n /\ UpTo(t, vals, n) = t.upper
      BY <1>3 DEF UpTo, n
    <3>2. From(t, vals, n) # <<>> => KeyLess(From(t, vals, n), k)
      <4>1. CASE n = 0
        BY <2>1, <4>1 DEF From
      <4>2. CASE n # 0
        <5>1. n \in 1 .. n /\ From(t, vals, n) = vals[n]
          BY <1>3, <4>2 DEF From
        <5> QED BY <2>3, <2>4, <5>1
      <4> QED BY <4>1, <4>2
    <3>3. InTile(P(n), k)
      BY <1>2, <2>2, <3>1, <3>2 DEF InTile
    <3> QED BY <3>1, <3>3
  <2>5. CASE D # {}
    <3>1. PICK m \in D : m - 1 \in 0 .. n /\ \A j \in D : m <= j
      <4>1. D \in SUBSET (1 .. n)
        OBVIOUS
      <4> HIDE DEF D
      <4> QED BY <1>3, <2>5, <4>1, FirstNotLess
    <3>2. m \in 1 .. n /\ m - 1 # n /\ m - 1 + 1 = m
      BY <1>3
    <3>3. UpTo(t, vals, m - 1) = vals[m] /\ KeyLeq(k, vals[m])
      BY <3>2 DEF UpTo, n
    <3>4. From(t, vals, m - 1) # <<>> => KeyLess(From(t, vals, m - 1), k)
      <4>1. CASE m - 1 = 0
        BY <2>1, <4>1 DEF From
      <4>2. CASE m - 1 # 0
        <5>1. m - 1 \in 1 .. n /\ From(t, vals, m - 1) = vals[m - 1] /\ ~(m <= m - 1)
          BY <3>1, <3>2, <4>2 DEF From
        <5>2. m - 1 \notin D
          BY <3>1, <5>1
        <5> QED BY <2>3, <5>1, <5>2
      <4> QED BY <4>1, <4>2
    <3>5. InTile(P(m - 1), k)
      BY <1>2, <3>3, <3>4 DEF InTile
    <3> QED BY <3>1, <3>5
  <2> QED BY <2>4, <2>5
<1>9. ASSUME t.upper # <<>> => t.begin + n + 1 = t.cnt PROVE Chains(S, p)
  <2>0. 0 \in 0 .. n /\ P(0) \in S /\ P(0).a = p.a /\ P(0).l = p.l /\ P(0).lower = t.lower
    BY <1>2, <1>3, <1>4 DEF n, From
  <2>1. p.lower = <<>> => \E s \in S : s.lower = <<>>
    BY <1>4, <2>0
  <2>2. ASSUME NEW x, Follows(x, p) PROVE \E s \in S : Follows(x, s)
    BY <2>0, <2>2 DEF Follows
  <2>3. ASSUME NEW j \in 0 .. n, P(j).upper # <<>>
        PROVE  \/ \E q \in S : Follows(P(j), q)
               \/ /\ p.upper # <<>> /\ P(j).l = p.l /\ P(j).r = p.r /\ P(j).cnt = p.cnt /\ P(j).b = p.b
    <3>1. CASE j < n
      <4>1. j + 1 \in 0 .. n /\ t.begin + j + 1 = t.begin + (j + 1)
        BY <1>3, <1>4, <3>1
      <4>2. P(j + 1) \in S /\ Follows(P(j), P(j + 1))
        BY <1>2, <4>1 DEF Follows, n
      <4> QED BY <4>2
    <3>2. CASE j = n
      <4>1. t.upper # <<>>
        BY <1>2, <1>3, <2>3, <3>2
      <4>2. P(j).b = p.b /\ P(j).cnt = p.cnt
        BY <1>2, <1>4, <1>9, <3>2, <4>1
      <4> QED BY <1>2, <1>4, <4>1, <4>2
    <3> QED BY <1>3, <3>1, <3>2
  <2> HIDE DEF S
  <2>4. \A s \in S : \E j \in 0 .. n : s = P(j)
    BY DEF S, n
  <2> QED BY <2>1, <2>2, <2>3, <2>4 DEF Chains
<1>10. \A s \in S : TileOK(s) /\ Within(s, p)
  BY <1>5 DEF n
<1> QED BY <1>1, <1>7, <1>8, <1>9, <1>10 DEF n

-----------------------------------------------------------------------------
(* The values a range is cut at.                                           *)

\* A finite set of keys in order.
LEMMA InOrderSorts ==
    ASSUME NEW S \in SUBSET Key, IsFiniteSet(S)
    PROVE  /\ InOrder(S) \in Seq(Key) /\ Len(InOrder(S)) = Cardinality(S)
           /\ \A m \in 1 .. Len(InOrder(S)) : InOrder(S)[m] \in S
           /\ \A m, n \in 1 .. Len(InOrder(S)) : m < n => KeyLess(InOrder(S)[m], InOrder(S)[n])
<1> DEFINE s == InOrder(S)
           c == Cardinality(S)
<1>1. c \in Nat
  BY FS_CardinalityType
<1>2. s \in [1 .. c -> S] /\ \A m, n \in DOMAIN s : m < n => KeyLess(s[m], s[n])
  BY KeysSort DEF InOrder
<1> HIDE DEF s, c
<1>3. s \in Seq(S)
  BY <1>1, <1>2
<1>4. s \in Seq(Key) /\ Len(s) = c
  BY <1>1, <1>2, <1>3
<1> QED BY <1>2, <1>4 DEF s, c

\* The smaller of two numbers.
LEMMA MinIsLeast ==
    ASSUME NEW m \in Int, NEW n \in Int
    PROVE  Min({m, n}) <= m /\ Min({m, n}) <= n /\ Min({m, n}) \in {m, n}
<1>1. \E x \in {m, n} : \A y \in {m, n} : x <= y
  BY m <= n \/ n <= m
<1>2. Min({m, n}) \in {m, n} /\ \A y \in {m, n} : Min({m, n}) <= y
  BY <1>1 DEF Min
<1> QED BY <1>2

\* Whatever rows a query for random values returns, they fit the range, and
\* they are no more than asked for.
LEMMA ValuesCut ==
    ASSUME IsFiniteSet(rows), rows \subseteq [Cols -> Int \cup {Null}],
           NEW t, NEW p, TileOK(p), CutsTile(t, p), t.n \in Int, t.begin + t.n = t.cnt,
           t.n >= 1 \/ t.upper = <<>>, NEW vals \in Values(t)
    PROVE  /\ CutsAt(t, vals)
           /\ Len(vals) \in Nat
           /\ ~(Len(vals) < t.n - 1) /\ t.n >= 1 => t.begin + Len(vals) + 1 = t.cnt
<1>1. t.begin \in Nat /\ t.cnt \in Int /\ t.lower \in Bound /\ t.upper \in Bound
  BY DEF TileOK, CutsTile
<1>2. CASE t.n <= 1
  <2>1. vals = <<>> /\ vals \in Seq(Key) /\ Len(vals) = 0
    BY <1>2 DEF Values
  <2>2. CutsAt(t, vals)
    BY <1>1, <2>1 DEF CutsAt
  <2> QED BY <1>1, <1>2, <2>1, <2>2
<1>3. CASE t.n > 1
  <2> DEFINE inRange == {row \in rows : Selects(t, row)}
             limit == Min({t.n - 1, Cardinality(inRange)})
             full(s) == {row \in s : \A j \in Cols : row[j] # Null}
  <2>1. PICK s \in kSubset(limit, inRange) : vals = InOrder(full(s))
    <3>1. vals \in RandomValues(t, t.n - 1)
      BY <1>3 DEF Values
    <3>2. RandomValues(t, t.n - 1) = {InOrder(full(s)) : s \in kSubset(limit, inRange)}
      BY DEF RandomValues
    <3> HIDE DEF full, limit, inRange
    <3> QED BY <3>1, <3>2
  <2> DEFINE f == full(s)
  <2>2. s \subseteq inRange /\ Cardinality(s) = limit /\ inRange \subseteq rows
    BY <2>1 DEF kSubset
  <2>3. f \in SUBSET Key
    <3> SUFFICES ASSUME NEW k \in f PROVE k \in Key
      OBVIOUS
    <3>1. k \in [Cols -> Int \cup {Null}] /\ \A j \in Cols : k[j] # Null
      BY <2>2
    <3> QED BY <3>1 DEF Key
  <2>4. ASSUME NEW k \in f
        PROVE  /\ t.lower # <<>> => KeyLess(t.lower, k)
               /\ t.upper # <<>> => KeyLeq(k, t.upper)
    <3>1. k \in Key /\ Selects(t, k)
      BY <2>2, <2>3
    <3> QED BY <1>1, <3>1, ClauseIsInterval
  <2>5. IsFiniteSet(inRange) /\ IsFiniteSet(s) /\ IsFiniteSet(f) /\ Cardinality(f) <= Cardinality(s)
        /\ Cardinality(inRange) \in Nat /\ Cardinality(s) \in Nat /\ Cardinality(f) \in Nat
    <3>1. IsFiniteSet(inRange)
      BY <2>2, FS_Subset
    <3>2. IsFiniteSet(s)
      BY <2>2, <3>1, FS_Subset
    <3>3. f \subseteq s
      OBVIOUS
    <3>4. IsFiniteSet(f) /\ Cardinality(f) <= Cardinality(s)
      <4> HIDE DEF f
      <4> QED BY <3>2, <3>3, FS_Subset
    <3> QED BY <3>1, <3>2, <3>4, FS_CardinalityType
  <2>6. limit <= t.n - 1
    <3> HIDE DEF inRange
    <3>1. Cardinality(inRange) \in Int /\ t.n - 1 \in Int
      BY <2>5
    <3> QED BY <3>1, MinIsLeast
  <2> HIDE DEF f, limit, inRange
  <2>7. vals = InOrder(f)
    BY <2>1 DEF f
  <2>8. /\ vals \in Seq(Key) /\ Len(vals) = Cardinality(f)
        /\ \A m \in 1 .. Len(vals) : vals[m] \in f
        /\ \A m, n \in 1 .. Len(vals) : m < n => KeyLess(vals[m], vals[n])
    BY <2>3, <2>5, <2>7, InOrderSorts
  <2>9. Len(vals) \in Nat /\ Len(vals) <= t.n - 1
    <3>1. Cardinality(f) <= t.n - 1
      BY <2>2, <2>5, <2>6
    <3> QED BY <2>5, <2>8, <3>1
  <2>10. t.begin + Len(vals) < t.cnt /\ (~(Len(vals) < t.n - 1) => t.begin + Len(vals) + 1 = t.cnt)
    BY <1>1, <2>9
  <2>11. CutsAt(t, vals)
    BY <2>4, <2>8, <2>10 DEF CutsAt
  <2> QED BY <2>9, <2>10, <2>11
<1> QED BY <1>2, <1>3

-----------------------------------------------------------------------------
(* Chunks as tiles.                                                        *)

\* The entries of a sequence.
LEMMA EntryIn == ASSUME NEW S, NEW s \in Seq(S) PROVE \A m \in 1 .. Len(s) : s[m] \in S
  OBVIOUS

\* What is known of the statistics.
LEMMA BucketFacts ==
    ASSUME buckets \in BucketChoices
    PROVE  /\ NBuckets \in Nat
           /\ \A n \in 0 .. (NBuckets - 1) : Bucket(n).upper \in Key /\ Bucket(n).count \in Nat
           /\ \A m, n \in 0 .. (NBuckets - 1) : m < n => KeyLess(Bucket(m).upper, Bucket(n).upper)
<1>1. /\ buckets \in Seq([count : Nat, upper : Key])
      /\ \A m, n \in 1 .. Len(buckets) : m < n => KeyLess(buckets[m].upper, buckets[n].upper)
  BY SplitterAssumption DEF Key
<1>2. NBuckets \in Nat /\ NBuckets = Len(buckets)
  BY <1>1 DEF NBuckets
<1>3. \A n \in 0 .. (NBuckets - 1) : n + 1 \in 1 .. Len(buckets)
  BY <1>2
<1>4. \A n \in 0 .. (NBuckets - 1) : Bucket(n).upper \in Key /\ Bucket(n).count \in Nat
  <2>1. \A m \in 1 .. Len(buckets) : buckets[m].upper \in Key /\ buckets[m].count \in Nat
    <3>1. \A m \in 1 .. Len(buckets) : buckets[m] \in [count : Nat, upper : Key]
      BY <1>1, EntryIn
    <3> QED BY <3>1
  <2> QED BY <1>3, <2>1 DEF Bucket
<1>5. \A m, n \in 0 .. (NBuckets - 1) : m < n => KeyLess(Bucket(m).upper, Bucket(n).upper)
  BY <1>1, <1>3 DEF Bucket
<1> QED BY <1>2, <1>4, <1>5

\* The order of the ids of two chunks is that of their tiles.
LEMMA ComparesPrecedes ==
    ASSUME SplitInv, NEW c \in chunks, NEW d \in chunks
    PROVE  /\ TileOK(ChunkTile(c)) /\ TileOK(ChunkTile(d))
           /\ ComparesLess(c, d) <=> Precedes(ChunkTile(c), ChunkTile(d))
           /\ ComparesLeq(c, d) <=> c = d \/ Precedes(ChunkTile(c), ChunkTile(d))
           /\ c = d \/ ComparesLess(c, d) \/ ComparesLess(d, c)
<1> DEFINE p == ChunkTile(c)
           q == ChunkTile(d)
<1>1. TileOK(p) /\ TileOK(q)
  BY DEF SplitInv, Tiles
<1>2. p = q \/ Precedes(p, q) \/ Precedes(q, p)
  BY DEF SplitInv, Tiles, Ordered
<1>3. p = q => c = d
  BY DEF ChunkTile
<1>4. /\ c.left = p.l /\ c.right = p.r /\ c.index = p.a /\ p.b = c.index + 1
      /\ d.left = q.l /\ d.right = q.r /\ d.index = q.a /\ q.b = d.index + 1
  BY DEF ChunkTile
<1>5. c.table = 0 /\ d.table = 0
  BY DEF SplitInv, ChunkOK
<1> HIDE DEF p, q
<1>6. ASSUME Precedes(p, q) PROVE ComparesLess(c, d)
  <2>1. p.l < q.l \/ (p.l = q.l /\ p.a < q.a)
    BY <1>1, <1>4, <1>6 DEF Precedes, TileOK
  <2> QED BY <1>4, <1>5, <2>1 DEF ComparesLess
<1>7. ASSUME Precedes(q, p) PROVE ComparesLess(d, c)
  <2>1. q.l < p.l \/ (p.l = q.l /\ q.a < p.a)
    BY <1>1, <1>4, <1>7 DEF Precedes, TileOK
  <2> QED BY <1>4, <1>5, <2>1 DEF ComparesLess
<1>8. /\ ComparesLess(c, d) => ~ComparesLess(d, c) /\ c # d
      /\ ~(ComparesLess(d, c) /\ ComparesLeq(c, d))
  <2>1. c.left \in Int /\ c.index \in Int /\ d.left \in Int /\ d.index \in Int
    BY <1>1, <1>4 DEF TileOK
  <2> QED BY <1>5, <2>1 DEF ComparesLess, ComparesLeq
<1>9. ComparesLess(c, d) => ComparesLeq(c, d)
  BY DEF ComparesLeq
<1>10. c = d => ComparesLeq(c, d)
  BY DEF ComparesLeq
<1> QED BY <1>1, <1>2, <1>3, <1>6, <1>7, <1>8, <1>9, <1>10 DEF p, q

\* Of two chunks of one table one is adjacent to the other when its tile
\* follows.
LEMMA AdjacentFollows ==
    ASSUME SplitInv, NEW c \in chunks, NEW d \in chunks
    PROVE  IsAdjacent(c, d) <=> Follows(ChunkTile(c), ChunkTile(d))
<1>1. TileOK(ChunkTile(c)) /\ TileOK(ChunkTile(d)) /\ c.table = 0 /\ d.table = 0
  BY DEF SplitInv, Tiles, ChunkOK
<1>2. /\ c.left \in Int /\ c.right \in Int /\ c.index \in Int /\ c.cnt \in Int /\ c.left <= c.right
      /\ d.left \in Int /\ d.right \in Int /\ d.index \in Int
  BY <1>1 DEF TileOK, ChunkTile
<1>3. Follows(ChunkTile(c), ChunkTile(d)) <=>
         \/ c.right + 1 = d.left /\ d.index = 0 /\ c.index + 1 = c.cnt
         \/ c.left = d.left /\ c.index + 1 = d.index
  BY DEF Follows, ChunkTile
<1>4. IsAdjacent(c, d) <=>
         \/ c.right = d.left - 1 /\ c.index = c.cnt - 1 /\ d.index = 0
         \/ c.right # d.left - 1 /\ c.left = d.left /\ c.index = d.index - 1
  BY <1>1 DEF IsAdjacent, IsLastChunkForBucket, IsFirstChunkForBucket
<1> QED BY <1>2, <1>3, <1>4

\* No chunk but the first is adjacent to the node a checkpoint starts with.
LEMMA AdjacentToInit ==
    ASSUME SplitInv, NEW c \in chunks
    PROVE  IsAdjacent(InitNode, c) <=> c.lower = <<>>
<1>1. c.table = 0 /\ ~c.isFirst /\ (c.hasLower <=> c.lower # <<>>)
  BY DEF SplitInv, ChunkOK
<1> QED BY <1>1 DEF IsAdjacent, InitNode, IsLastChunkForTable, IsFirstChunkForTable

\* A chunk is neither the node a checkpoint starts with nor "no start range".
LEMMA ChunkIsNode ==
    ASSUME SplitInv, NEW c \in chunks
    PROVE  c # InitNode /\ c # NoChunk
  BY SplitterAssumption DEF SplitInv, ChunkOK, InitNode

\* Only the chunk without an upper bound is the last.
LEMMA LastIsOpen ==
    ASSUME SplitInv, NEW c \in chunks
    PROVE  IsLastChunkForTable(c) <=> c.upper = <<>>
  BY DEF SplitInv, ChunkOK, IsLastChunkForTable

\* The tiles when the rest of the table is cut into the chunks D, the splits E
\* and another rest.
LEMMA RestCut ==
    ASSUME NEW r, Rest = {r}, r.kind = "rest", NEW D, NEW E,
           chunks' = chunks \cup D, tasks' = tasks \cup E
    PROVE  Tiles' = (Tiles \ {r}) \cup ({ChunkTile(c) : c \in D} \cup {TaskTile(t) : t \in E} \cup Rest')
<1>1. \A c : ChunkTile(c) # r
  BY DEF ChunkTile
<1>2. \A t : TaskTile(t) # r
  BY DEF TaskTile
<1>3. Tiles = {ChunkTile(c) : c \in chunks} \cup {TaskTile(t) : t \in tasks} \cup {r}
  BY DEF Tiles
<1>4. Tiles' = {ChunkTile(c) : c \in chunks \cup D} \cup {TaskTile(t) : t \in tasks \cup E} \cup Rest'
  BY DEF Tiles
<1> QED BY <1>1, <1>2, <1>3, <1>4

\* The tiles when the split t is done and gives the chunks D.
LEMMA TaskCut ==
    ASSUME NEW D, NEW t \in tasks, chunks' = chunks \cup D, tasks' = tasks \ {t}, Rest' = Rest,
           \A r \in Rest : r.kind = "rest"
    PROVE  Tiles' = (Tiles \ {TaskTile(t)}) \cup {ChunkTile(c) : c \in D}
<1>1. \A c : ChunkTile(c) # TaskTile(t)
  BY DEF ChunkTile, TaskTile
<1>2. \A r \in Rest : r # TaskTile(t)
  BY DEF TaskTile
<1>3. \A u : TaskTile(u) = TaskTile(t) => u = t
  BY DEF TaskTile
<1>4. Tiles' = {ChunkTile(c) : c \in chunks \cup D} \cup {TaskTile(u) : u \in tasks \ {t}} \cup Rest
  BY DEF Tiles
<1> QED BY <1>1, <1>2, <1>3, <1>4 DEF Tiles

-----------------------------------------------------------------------------
(* SplitInv is inductive.                                                  *)

\* What a table is cut into at first: everything is still to be cut.
LEMMA WholeTable ==
    LET r == RestTile(0, 0, 0, 0, <<>>)
    IN  TileOK(r) /\ Ordered({r}) /\ Covers({r}) /\ Walkable({r})
<1> DEFINE r == RestTile(0, 0, 0, 0, <<>>)
<1>1. TileOK(r)
  BY DEF TileOK, RestTile, Bound
<1>2. r.lower = <<>> /\ r.upper = <<>>
  BY DEF RestTile
<1> HIDE DEF r
<1>3. Ordered({r}) /\ Covers({r}) /\ Walkable({r})
  BY <1>2 DEF Ordered, Covers, InTile, Walkable
<1> QED BY <1>1, <1>3 DEF r

\* SplitInv holds at first.
LEMMA SplitInvInit == ASSUME SplitInit PROVE SplitInv
<1>1. Tiles = {RestTile(0, 0, 0, 0, <<>>)}
  BY DEF SplitInit, Tiles, Rest
<1>2. PhaseOK /\ MarkOK
  BY DEF SplitInit, PhaseOK, MarkOK
<1> QED BY <1>1, <1>2, WholeTable DEF SplitInit, SplitInv

\* The checkpoint stays fine when the rest of the table is cut further.
LEMMA RestKeepsMark ==
    ASSUME SplitInv, mark' = mark, chunks \subseteq chunks', NEW r \in Tiles, r.upper = <<>>, r.kind = "rest",
           \A t \in tasks' : t \in tasks \/ (TileOK(TaskTile(t)) /\ Within(TaskTile(t), r))
    PROVE  MarkOK'
<1> SUFFICES ASSUME mark # InitNode
             PROVE  /\ mark \in chunks'
                    /\ \A t \in tasks' : Precedes(ChunkTile(mark), TaskTile(t))
                    /\ \A k \in Key : mark.upper = <<>> \/ KeyLeq(k, mark.upper) =>
                         \E c \in chunks' : ComparesLeq(c, mark) /\ InTile(ChunkTile(c), k)
  BY DEF MarkOK
<1>1. /\ mark \in chunks
      /\ \A t \in tasks : Precedes(ChunkTile(mark), TaskTile(t))
      /\ \A k \in Key : mark.upper = <<>> \/ KeyLeq(k, mark.upper) =>
           \E c \in chunks : ComparesLeq(c, mark) /\ InTile(ChunkTile(c), k)
  BY DEF SplitInv, MarkOK
<1>2. ChunkTile(mark) \in Tiles /\ TileOK(ChunkTile(mark)) /\ TileOK(r)
  BY <1>1 DEF SplitInv, Tiles
<1>3. ChunkTile(mark) # r
  BY DEF ChunkTile
<1>4. Precedes(ChunkTile(mark), r)
  <2>1. ~Precedes(r, ChunkTile(mark))
    BY DEF Precedes
  <2> QED BY <1>2, <1>3, <2>1 DEF SplitInv, Ordered
<1>5. ASSUME NEW t \in tasks' PROVE Precedes(ChunkTile(mark), TaskTile(t))
  <2>1. CASE t \in tasks
    BY <1>1, <2>1
  <2>2. CASE TileOK(TaskTile(t)) /\ Within(TaskTile(t), r)
    BY <1>2, <1>4, <2>2, PartInPlace
  <2> QED BY <2>1, <2>2
<1> QED BY <1>1, <1>5

\* And when a waiting split is done.
LEMMA TaskKeepsMark ==
    ASSUME SplitInv, mark' = mark, chunks \subseteq chunks', tasks' \subseteq tasks
    PROVE  MarkOK'
  BY DEF SplitInv, MarkOK

\* Recut, for the tiles of a state.
LEMMA RecutTiles ==
    ASSUME SplitInv, NEW p \in Tiles, NEW S, \A s \in S : TileOK(s) /\ Within(s, p), Ordered(S),
           Fills(S, p), ~short' => ~short /\ Chains(S, p), Tiles' = (Tiles \ {p}) \cup S
    PROVE  /\ \A q \in Tiles' : TileOK(q)
           /\ Ordered(Tiles')
           /\ Covers(Tiles')
           /\ ~short' => Walkable(Tiles')
<1>1. (\A q \in Tiles : TileOK(q)) /\ Ordered(Tiles) /\ Covers(Tiles) /\ (~short => Walkable(Tiles))
  BY DEF SplitInv
<1> DEFINE T == Tiles
           U == Tiles'
<1> HIDE DEF T, U
<1>2. U = (T \ {p}) \cup S /\ p \in T
  BY DEF T, U
<1>3. (\A q \in T : TileOK(q)) /\ Ordered(T) /\ Covers(T) /\ (~short => Walkable(T))
  BY <1>1 DEF T
<1>4. (\A q \in U : TileOK(q)) /\ Ordered(U) /\ Covers(U) /\ (~short' => Walkable(U))
  BY <1>2, <1>3, Recut
<1> QED BY <1>4 DEF U

\* The parts of an invariant make the whole in the next state.
LEMMA SplitInvNext ==
    ASSUME SplitInv, buckets' = buckets, rows' = rows, short' \in BOOLEAN,
           \A c \in chunks' : c \in chunks \/ ChunkOK(c),
           \A t \in tasks' : t \in tasks \/ TaskOK(t),
           PhaseOK', MarkOK',
           \A q \in Tiles' : TileOK(q), Ordered(Tiles'), Covers(Tiles'), ~short' => Walkable(Tiles')
    PROVE  SplitInv'
<1>1. \A c : ChunkOK(c)' <=> ChunkOK(c)
  BY DEF ChunkOK, NBuckets, Bucket
<1>2. \A t : TaskOK(t)' <=> TaskOK(t)
  BY DEF TaskOK, NBuckets, Bucket
<1>3. (\A c \in chunks : ChunkOK(c))' /\ (\A t \in tasks : TaskOK(t))'
  BY <1>1, <1>2 DEF SplitInv
<1> QED BY <1>3 DEF SplitInv

\* After the last chunk of the table there is nothing left.
LEMMA NothingLeftStep == ASSUME SplitInv, NothingLeft PROVE SplitInv'
<1>1. start \in chunks /\ start.upper = <<>> /\ tasks = {} /\ ph' = "done"
  <2>1. start \in chunks /\ tasks = {}
    BY DEF NothingLeft, SplitInv, PhaseOK
  <2> QED BY <2>1, LastIsOpen DEF NothingLeft
<1>2. Tiles' = Tiles
  BY <1>1 DEF NothingLeft, Tiles, Rest
<1>3. PhaseOK'
  BY <1>1 DEF PhaseOK
<1>4. MarkOK'
  BY TaskKeepsMark DEF NothingLeft
<1>5. short' = short /\ short \in BOOLEAN /\ chunks' = chunks /\ tasks' = tasks /\ buckets' = buckets /\ rows' = rows
  BY DEF NothingLeft, SplitInv
<1>6. (\A q \in Tiles' : TileOK(q)) /\ Ordered(Tiles') /\ Covers(Tiles') /\ (~short' => Walkable(Tiles'))
  BY <1>2, <1>5 DEF SplitInv
<1> QED BY <1>3, <1>4, <1>5, <1>6, SplitInvNext

\* The loop starts with all of the table.
LEMMA BucketFreshStep == ASSUME SplitInv, BucketFresh PROVE SplitInv'
<1> DEFINE p == RestTile(0, 0, 0, 0, <<>>)
           s == RestTile(0, NBuckets, 0, 0, <<>>)
<1>1. /\ chunks' = chunks /\ tasks' = tasks /\ buckets' = buckets /\ rows' = rows /\ mark' = mark
      /\ short' = short /\ short \in BOOLEAN
  BY DEF BucketFresh, SplitInv
<1>2. Rest = {p} /\ Rest' = {s} /\ p.kind = "rest"
  BY DEF BucketFresh, Rest, RestTile, NBuckets
<1>3. NBuckets \in Nat
  BY BucketFacts DEF SplitInv
<1>4. TileOK(p) /\ TileOK(s) /\ Within(s, p)
  BY <1>3 DEF TileOK, RestTile, Bound, Within
<1>5. Ordered({s}) /\ Fills({s}, p) /\ Chains({s}, p) /\ p \in Tiles
  BY <1>2 DEF Ordered, Fills, Chains, InTile, Follows, RestTile, Tiles
<1>6. Tiles' = (Tiles \ {p}) \cup {s}
  <2> HIDE DEF p, s
  <2>1. chunks' = chunks \cup {} /\ tasks' = tasks \cup {}
    BY <1>1
  <2>2. Tiles' = (Tiles \ {p}) \cup ({ChunkTile(c) : c \in {}} \cup {TaskTile(t) : t \in {}} \cup Rest')
    BY <1>2, <2>1, RestCut
  <2> QED BY <1>2, <2>2
<1>7. PhaseOK'
  <2>1. buckets # <<>> /\ ph' = "loop" /\ i' = 0 /\ firstBucket' = 0 /\ latestCount' = 0 /\ low' = <<>>
    BY DEF BucketFresh
  <2>2. NBuckets' = NBuckets
    BY <1>1 DEF NBuckets
  <2> QED BY <1>1, <1>3, <2>1, <2>2 DEF PhaseOK
<1>8. MarkOK'
  <2>1. p.upper = <<>>
    BY DEF RestTile
  <2> HIDE DEF p
  <2> QED BY <1>1, <1>2, <1>5, <2>1, RestKeepsMark
<1>9. (\A q \in Tiles' : TileOK(q)) /\ Ordered(Tiles') /\ Covers(Tiles') /\ (~short' => Walkable(Tiles'))
  <2> HIDE DEF p, s
  <2> QED BY <1>1, <1>4, <1>5, <1>6, RecutTiles
<1> QED BY <1>1, <1>7, <1>8, <1>9, SplitInvNext

\* A bucket is merged into the next.
LEMMA MergeBucketStep == ASSUME SplitInv, MergeBucket PROVE SplitInv'
<1>1. /\ chunks' = chunks /\ tasks' = tasks /\ buckets' = buckets /\ rows' = rows /\ mark' = mark
      /\ short' = short /\ short \in BOOLEAN /\ NBuckets' = NBuckets
  BY DEF MergeBucket, SplitInv, NBuckets
<1>2. Tiles' = Tiles
  BY <1>1 DEF MergeBucket, Tiles, Rest
<1>3. PhaseOK'
  <2>1. NBuckets \in Nat
    BY BucketFacts DEF SplitInv
  <2>2. /\ ph = "loop" /\ buckets # <<>> /\ i \in 0 .. NBuckets /\ firstBucket \in 0 .. i /\ latestCount \in Nat
        /\ low = (IF firstBucket = 0 THEN <<>> ELSE Bucket(firstBucket - 1).upper)
        /\ i < NBuckets /\ i' = i + 1 /\ ph' = ph /\ firstBucket' = firstBucket
        /\ latestCount' = latestCount /\ low' = low
    BY DEF MergeBucket, SplitInv, PhaseOK
  <2>3. i' \in 0 .. NBuckets /\ firstBucket \in 0 .. i'
    BY <2>1, <2>2
  <2>4. Bucket(firstBucket - 1)' = Bucket(firstBucket - 1)
    BY <1>1, <2>2 DEF Bucket
  <2> QED BY <1>1, <2>2, <2>3, <2>4 DEF PhaseOK
<1>4. MarkOK'
  BY <1>1, TaskKeepsMark
<1>5. (\A q \in Tiles' : TileOK(q)) /\ Ordered(Tiles') /\ Covers(Tiles') /\ (~short' => Walkable(Tiles'))
  BY <1>1, <1>2 DEF SplitInv
<1> QED BY <1>1, <1>3, <1>4, <1>5, SplitInvNext

\* The loop while it goes on, and where its next group begins.
LEMMA LoopFacts ==
    ASSUME SplitInv, ph = "loop"
    PROVE  LET r == RestTile(firstBucket, NBuckets, 0, 0, low)
           IN  /\ Rest = {r} /\ r \in Tiles /\ TileOK(r) /\ r.kind = "rest" /\ r.upper = <<>>
               /\ buckets # <<>> /\ NBuckets \in Nat /\ i \in Nat /\ firstBucket \in Nat
               /\ firstBucket <= i /\ i <= NBuckets /\ latestCount \in Nat /\ low \in Bound
               /\ i < NBuckets => /\ Bucket(i).upper \in Key /\ Bucket(i).count \in Nat
                                  /\ low # <<>> => KeyLeq(low, Bucket(i).upper)
<1>1. /\ buckets # <<>> /\ i \in 0 .. NBuckets /\ firstBucket \in 0 .. i /\ latestCount \in Nat
      /\ low = (IF firstBucket = 0 THEN <<>> ELSE Bucket(firstBucket - 1).upper)
  BY DEF SplitInv, PhaseOK
<1>2. /\ NBuckets \in Nat
      /\ \A n \in 0 .. (NBuckets - 1) : Bucket(n).upper \in Key /\ Bucket(n).count \in Nat
      /\ \A m, n \in 0 .. (NBuckets - 1) : m < n => KeyLess(Bucket(m).upper, Bucket(n).upper)
  BY BucketFacts DEF SplitInv
<1>3. i \in Nat /\ firstBucket \in Nat /\ firstBucket <= i /\ i <= NBuckets
  BY <1>1, <1>2
<1> DEFINE r == RestTile(firstBucket, NBuckets, 0, 0, low)
<1>4. Rest = {r} /\ r.kind = "rest" /\ r.upper = <<>>
  BY DEF Rest, RestTile
<1>5. r \in Tiles /\ TileOK(r)
  BY <1>4 DEF Tiles, SplitInv
<1>6. low \in Bound
  BY <1>5 DEF TileOK, RestTile
<1>7. ASSUME i < NBuckets
      PROVE  Bucket(i).upper \in Key /\ Bucket(i).count \in Nat /\ (low # <<>> => KeyLeq(low, Bucket(i).upper))
  <2>1. i \in 0 .. (NBuckets - 1)
    BY <1>2, <1>3, <1>7
  <2>2. ASSUME low # <<>> PROVE KeyLeq(low, Bucket(i).upper)
    <3>1. firstBucket # 0 /\ low = Bucket(firstBucket - 1).upper
      BY <1>1, <2>2
    <3>2. firstBucket - 1 \in 0 .. (NBuckets - 1) /\ firstBucket - 1 < i
      BY <1>2, <1>3, <3>1
    <3> QED BY <1>2, <2>1, <3>1, <3>2 DEF KeyLeq
  <2> QED BY <1>2, <2>1, <2>2
<1> QED BY <1>1, <1>2, <1>3, <1>4, <1>5, <1>6, <1>7

\* A group of buckets becomes a split that waits, and the loop goes on behind.
LEMMA EmitGroupStep == ASSUME SplitInv, EmitGroup PROVE SplitInv'
<1> DEFINE count == Bucket(i).count - latestCount
           cnt == IF i = firstBucket THEN (count + ChunkSize \div 2) \div ChunkSize ELSE 1
           t == Task(low, Bucket(i).upper, firstBucket, i, 0, cnt, cnt, "bucket")
           p == RestTile(firstBucket, NBuckets, 0, 0, low)
           s == RestTile(i + 1, NBuckets, 0, 0, Bucket(i).upper)
<1>1. /\ chunks' = chunks /\ buckets' = buckets /\ rows' = rows /\ mark' = mark
      /\ short' = short /\ short \in BOOLEAN /\ NBuckets' = NBuckets
      /\ ph = "loop" /\ ph' = "loop" /\ i < NBuckets /\ count >= ChunkSize
      /\ tasks' = tasks \cup {t} /\ latestCount' = Bucket(i).count
      /\ low' = Bucket(i).upper /\ firstBucket' = i + 1 /\ i' = i + 1
  BY DEF EmitGroup, SplitInv, NBuckets
<1>2. /\ Rest = {p} /\ p \in Tiles /\ TileOK(p) /\ p.kind = "rest" /\ p.upper = <<>>
      /\ buckets # <<>> /\ NBuckets \in Nat /\ i \in Nat /\ firstBucket \in Nat
      /\ firstBucket <= i /\ i <= NBuckets /\ latestCount \in Nat /\ low \in Bound
      /\ Bucket(i).upper \in Key /\ Bucket(i).count \in Nat
      /\ low # <<>> => KeyLeq(low, Bucket(i).upper)
  BY <1>1, LoopFacts
<1>3. cnt \in Nat \ {0}
  <2>1. ChunkSize \in Nat \ {0}
    BY SplitterAssumption
  <2>2. count \in Int /\ count >= ChunkSize
    BY <1>1, <1>2
  <2> HIDE DEF count
  <2>3. count + ChunkSize \div 2 >= ChunkSize
    BY <2>1, <2>2
  <2>4. \A x \in Int : x >= ChunkSize => x \div ChunkSize >= 1 /\ x \div ChunkSize \in Int
    BY <2>1
  <2>5. count + ChunkSize \div 2 \in Int
    BY <2>1, <2>2
  <2>6. (count + ChunkSize \div 2) \div ChunkSize \in Int /\ (count + ChunkSize \div 2) \div ChunkSize >= 1
    BY <2>3, <2>4, <2>5
  <2> QED BY <2>6
<1>4. Bucket(i).upper # <<>>
  BY <1>2, KeyNotEmpty
<1> HIDE DEF cnt
<1>5. /\ t.lower = low /\ t.upper = Bucket(i).upper /\ t.left = firstBucket /\ t.right = i /\ t.begin = 0
      /\ t.cnt = cnt /\ t.n = cnt /\ t.type = "bucket"
  BY DEF Task
<1>6. /\ TaskTile(t).l = firstBucket /\ TaskTile(t).r = i /\ TaskTile(t).a = 0 /\ TaskTile(t).b = cnt
      /\ TaskTile(t).cnt = cnt /\ TaskTile(t).lower = low /\ TaskTile(t).upper = Bucket(i).upper
  BY <1>5 DEF TaskTile
<1>7. /\ s.l = i + 1 /\ s.r = NBuckets /\ s.a = 0 /\ s.b = 1 /\ s.cnt = 0 /\ s.lower = Bucket(i).upper
      /\ s.upper = <<>> /\ s.kind = "rest"
  BY DEF RestTile
<1>8. /\ p.l = firstBucket /\ p.r = NBuckets /\ p.a = 0 /\ p.b = 1 /\ p.cnt = 0 /\ p.lower = low /\ p.upper = <<>>
  BY DEF RestTile
<1> DEFINE q == TaskTile(t)
<1>9. Rest' = {s}
  <2>1. Bucket(i)' = buckets'[i' + 1]
    BY DEF Bucket
  <2> QED BY <1>1 DEF Rest
<1>10. TaskOK(t)
  <2> HIDE DEF t
  <2>1. t.type \in {"bucket", "random"}
    BY <1>5
  <2>2. t.begin + t.n = t.cnt
    BY <1>3, <1>5
  <2> QED BY <1>1, <1>2, <1>3, <1>4, <1>5, <2>1, <2>2 DEF TaskOK
<1> HIDE DEF p, q, s, t
<1>12. TileOK(q) /\ TileOK(s)
  <2>1. TileOK(q)
    BY <1>2, <1>3, <1>6 DEF TileOK, Bound, q
  <2>2. i + 1 \in Nat /\ i + 1 <= NBuckets /\ Bucket(i).upper \in Bound
    BY <1>1, <1>2 DEF Bound
  <2>3. TileOK(s)
    BY <1>2, <1>7, <2>2 DEF TileOK, Bound
  <2> QED BY <2>1, <2>3
<1>13. Within(q, p) /\ Within(s, p)
  <2>1. firstBucket <= i + 1 /\ firstBucket <= firstBucket
    BY <1>2
  <2>2. low # <<>> => KeyLeq(low, low) /\ KeyLeq(low, Bucket(i).upper) /\ Bucket(i).upper # <<>>
    BY <1>2, <1>4 DEF KeyLeq
  <2> QED BY <1>6, <1>7, <1>8, <2>1, <2>2 DEF Within, q
<1>14. Precedes(q, s) /\ Follows(q, s)
  <2>1. i < i + 1 /\ KeyLeq(Bucket(i).upper, Bucket(i).upper)
    BY <1>2 DEF KeyLeq
  <2> QED BY <1>4, <1>6, <1>7, <2>1 DEF Precedes, Follows, q
<1>15. Ordered({q, s})
  BY <1>14 DEF Ordered
<1>16. Fills({q, s}, p)
  <2> SUFFICES ASSUME NEW k \in Key, InTile(p, k) PROVE InTile(q, k) \/ InTile(s, k)
    BY DEF Fills
  <2>1. low # <<>> => KeyLess(low, k)
    BY <1>8 DEF InTile
  <2>2. KeyLeq(k, Bucket(i).upper) \/ KeyLess(Bucket(i).upper, k)
    BY <1>2, KeyLessTotal DEF KeyLeq
  <2> QED BY <1>6, <1>7, <2>1, <2>2 DEF InTile, q
<1>17. Chains({q, s}, p)
  <2>1. p.lower = <<>> => q.lower = <<>>
    BY <1>6, <1>8 DEF q
  <2>2. \A x : Follows(x, p) => Follows(x, q)
    BY <1>6, <1>8 DEF Follows, q
  <2> QED BY <1>7, <1>14, <2>1, <2>2 DEF Chains
<1>18. Tiles' = (Tiles \ {p}) \cup {q, s}
  <2>1. chunks' = chunks \cup {} /\ tasks' = tasks \cup {t}
    BY <1>1
  <2>2. Tiles' = (Tiles \ {p}) \cup ({ChunkTile(c) : c \in {}} \cup {TaskTile(u) : u \in {t}} \cup Rest')
    BY <1>2, <2>1, RestCut
  <2> QED BY <1>9, <2>2 DEF q
<1>19. PhaseOK'
  <2>1. i + 1 \in 0 .. NBuckets /\ i + 1 \in 0 .. (i + 1) /\ i + 1 # 0 /\ (i + 1) - 1 = i
    BY <1>1, <1>2
  <2>2. Bucket(firstBucket - 1)' = Bucket(i)
    BY <1>1, <2>1 DEF Bucket
  <2> QED BY <1>1, <1>2, <2>1, <2>2 DEF PhaseOK
<1>20. MarkOK'
  <2>1. \A u \in tasks' : u \in tasks \/ (TileOK(TaskTile(u)) /\ Within(TaskTile(u), p))
    BY <1>1, <1>12, <1>13 DEF q
  <2> QED BY <1>1, <1>2, <2>1, RestKeepsMark
<1>21. (\A x \in Tiles' : TileOK(x)) /\ Ordered(Tiles') /\ Covers(Tiles') /\ (~short' => Walkable(Tiles'))
  <2>1. \A x \in {q, s} : TileOK(x) /\ Within(x, p)
    BY <1>12, <1>13
  <2> QED BY <1>1, <1>2, <1>15, <1>16, <1>17, <1>18, <2>1, RecutTiles
<1> QED BY <1>1, <1>10, <1>19, <1>20, <1>21, SplitInvNext

\* The rest of the table becomes the last split.
LEMMA EmitRestStep == ASSUME SplitInv, EmitRest PROVE SplitInv'
<1> DEFINE t == Task(low, <<>>, firstBucket, NBuckets, 0, 1, 1, "bucket")
           p == RestTile(firstBucket, NBuckets, 0, 0, low)
           q == TaskTile(t)
<1>1. /\ chunks' = chunks /\ buckets' = buckets /\ rows' = rows /\ mark' = mark
      /\ short' = short /\ short \in BOOLEAN /\ NBuckets' = NBuckets
      /\ ph = "loop" /\ ph' = "done" /\ tasks' = tasks \cup {t}
  BY DEF EmitRest, SplitInv, NBuckets
<1>2. /\ Rest = {p} /\ p \in Tiles /\ TileOK(p) /\ p.kind = "rest" /\ p.upper = <<>>
      /\ buckets # <<>> /\ NBuckets \in Nat /\ firstBucket \in Nat
      /\ firstBucket <= NBuckets /\ low \in Bound
  <2>1. i \in Nat /\ firstBucket <= i /\ i <= NBuckets
    BY <1>1, LoopFacts
  <2> QED BY <1>1, <2>1, LoopFacts
<1>3. /\ t.lower = low /\ t.upper = <<>> /\ t.left = firstBucket /\ t.right = NBuckets /\ t.begin = 0
      /\ t.cnt = 1 /\ t.n = 1 /\ t.type = "bucket"
  BY DEF Task
<1>4. /\ q.l = firstBucket /\ q.r = NBuckets /\ q.a = 0 /\ q.b = 1
      /\ q.cnt = 1 /\ q.lower = low /\ q.upper = <<>>
  BY <1>3 DEF TaskTile
<1>5. p.l = firstBucket /\ p.r = NBuckets /\ p.a = 0 /\ p.lower = low
  BY DEF RestTile
<1>6. Rest' = {}
  BY <1>1 DEF Rest
<1> HIDE DEF t, p
<1>7. TaskOK(t)
  BY <1>2, <1>3 DEF TaskOK
<1> HIDE DEF q
<1>8. TileOK(q) /\ Within(q, p)
  <2>1. low # <<>> => KeyLeq(low, low)
    BY DEF KeyLeq
  <2> QED BY <1>2, <1>4, <1>5, <2>1 DEF TileOK, Bound, Within
<1>9. Ordered({q}) /\ Fills({q}, p) /\ Chains({q}, p)
  BY <1>2, <1>4, <1>5 DEF Ordered, Fills, Chains, InTile, Follows
<1>10. Tiles' = (Tiles \ {p}) \cup {q}
  <2>1. chunks' = chunks \cup {} /\ tasks' = tasks \cup {t}
    BY <1>1
  <2>2. Tiles' = (Tiles \ {p}) \cup ({ChunkTile(c) : c \in {}} \cup {TaskTile(u) : u \in {t}} \cup Rest')
    BY <1>2, <2>1, RestCut
  <2> QED BY <1>6, <2>2 DEF q
<1>11. PhaseOK'
  BY <1>1 DEF PhaseOK
<1>12. MarkOK'
  <2>1. \A u \in tasks' : u \in tasks \/ (TileOK(TaskTile(u)) /\ Within(TaskTile(u), p))
    BY <1>1, <1>8 DEF q
  <2> QED BY <1>1, <1>2, <2>1, RestKeepsMark
<1>13. (\A x \in Tiles' : TileOK(x)) /\ Ordered(Tiles') /\ Covers(Tiles') /\ (~short' => Walkable(Tiles'))
  BY <1>1, <1>2, <1>8, <1>9, <1>10, RecutTiles
<1> QED BY <1>1, <1>7, <1>11, <1>12, <1>13, SplitInvNext

\* The start range of a run that goes on, and the rest of the table behind it.
LEMMA StartFacts ==
    ASSUME SplitInv, ph = "idle", start # NoChunk, ~IsLastChunkForTable(start)
    PROVE  LET r == RestTile(start.left, start.right, start.cnt, start.index + 1, start.upper)
           IN  /\ Rest = {r} /\ r \in Tiles /\ TileOK(r) /\ r.kind = "rest" /\ r.upper = <<>>
               /\ start \in chunks /\ tasks = {} /\ start.upper \in Key /\ start.upper # <<>>
               /\ ChunkOK(start) /\ TileOK(ChunkTile(start))
<1>1. start \in chunks /\ tasks = {}
  BY DEF SplitInv, PhaseOK
<1>2. start.upper # <<>> /\ ChunkOK(start) /\ TileOK(ChunkTile(start))
  BY <1>1, LastIsOpen DEF SplitInv, Tiles
<1>3. start.upper \in Key
  BY <1>2 DEF TileOK, ChunkTile, Bound
<1> DEFINE r == RestTile(start.left, start.right, start.cnt, start.index + 1, start.upper)
<1>4. Rest = {r} /\ r.kind = "rest" /\ r.upper = <<>>
  BY <1>2 DEF Rest, RestTile
<1>5. r \in Tiles /\ TileOK(r)
  BY <1>4 DEF Tiles, SplitInv
<1> QED BY <1>1, <1>2, <1>3, <1>4, <1>5

\* The rest of the start range's group is split, and the loop goes on behind.
LEMMA BucketResumeStep == ASSUME SplitInv, BucketResume PROVE SplitInv'
<1> DEFINE c == start
           n == c.cnt - c.index - 1
           up == Bucket(c.right).upper
           t == Task(c.upper, up, c.left, c.right, c.index + 1, c.cnt, n, "bucket")
           p == RestTile(c.left, c.right, c.cnt, c.index + 1, c.upper)
           s == RestTile(c.right + 1, NBuckets, 0, 0, up)
           q == TaskTile(t)
<1>1. /\ chunks' = chunks /\ buckets' = buckets /\ rows' = rows /\ mark' = mark
      /\ short' = short /\ short \in BOOLEAN /\ NBuckets' = NBuckets /\ buckets # <<>>
      /\ ph = "idle" /\ ph' = "loop" /\ c # NoChunk /\ ~IsLastChunkForTable(c)
      /\ i' = c.right + 1 /\ firstBucket' = c.right + 1
      /\ latestCount' = Bucket(c.right).count /\ low' = up
      /\ tasks' = IF n > 0 THEN {t} ELSE {}
  BY DEF BucketResume, SplitInv, NBuckets
<1>2. /\ Rest = {p} /\ p \in Tiles /\ TileOK(p) /\ p.kind = "rest" /\ p.upper = <<>>
      /\ c \in chunks /\ tasks = {} /\ c.upper \in Key /\ c.upper # <<>>
      /\ ChunkOK(c) /\ TileOK(ChunkTile(c))
  BY <1>1, StartFacts
<1>3. /\ c.left \in Nat /\ c.right \in Nat /\ c.left <= c.right /\ c.index \in Nat /\ c.cnt \in Int
      /\ c.index + 1 <= c.cnt
  BY <1>2 DEF TileOK, ChunkTile
<1>4. NBuckets \in Nat /\ c.right < NBuckets /\ up \in Key /\ Bucket(c.right).count \in Nat
  <2>1. NBuckets \in Nat /\ c.right < NBuckets
    BY <1>1, <1>2, BucketFacts DEF SplitInv, ChunkOK
  <2>2. c.right \in 0 .. (NBuckets - 1)
    BY <1>3, <2>1
  <2> QED BY <2>1, <2>2, BucketFacts DEF SplitInv
<1>5. KeyLeq(c.upper, up) /\ (n = 0 => c.upper = up)
  <2>1. n = 0 => c.index = c.cnt - 1
    BY <1>3
  <2> QED BY <1>1, <1>2, <2>1 DEF ChunkOK
<1>6. up # <<>>
  BY <1>4, KeyNotEmpty
<1> HIDE DEF up
<1>7. /\ t.lower = c.upper /\ t.upper = up /\ t.left = c.left /\ t.right = c.right /\ t.begin = c.index + 1
      /\ t.cnt = c.cnt /\ t.n = n /\ t.type = "bucket"
  BY DEF Task
<1>8. /\ q.l = c.left /\ q.r = c.right /\ q.a = c.index + 1 /\ q.b = c.cnt
      /\ q.cnt = c.cnt /\ q.lower = c.upper /\ q.upper = up
  BY <1>7 DEF TaskTile
<1>9. /\ s.l = c.right + 1 /\ s.r = NBuckets /\ s.a = 0 /\ s.b = 1 /\ s.cnt = 0 /\ s.lower = up
      /\ s.upper = <<>> /\ s.kind = "rest"
  BY DEF RestTile
<1>10. /\ p.l = c.left /\ p.r = c.right /\ p.a = c.index + 1 /\ p.cnt = c.cnt /\ p.lower = c.upper
  BY DEF RestTile
<1>11. Rest' = {s}
  BY <1>1 DEF Rest
<1> HIDE DEF p, s, t
<1>12. n > 0 => TaskOK(t)
  <2>1. n > 0 => n \in Nat \ {0}
    BY <1>3
  <2>2. t.begin + t.n = t.cnt
    BY <1>3, <1>7
  <2>3. t.right < NBuckets /\ t.upper = Bucket(t.right).upper /\ t.begin \in Nat
    BY <1>3, <1>4, <1>7 DEF up
  <2> HIDE DEF n
  <2> QED BY <1>1, <1>6, <1>7, <2>1, <2>2, <2>3 DEF TaskOK
<1> HIDE DEF q
<1>13. TileOK(s) /\ (n > 0 => TileOK(q))
  <2>1. c.right + 1 \in Nat /\ c.right + 1 <= NBuckets /\ up \in Bound /\ c.upper \in Bound
    BY <1>2, <1>3, <1>4 DEF Bound
  <2>2. TileOK(s)
    BY <1>4, <1>9, <2>1 DEF TileOK, Bound
  <2>3. n > 0 => c.index + 1 < c.cnt /\ c.cnt \in Nat /\ c.index + 1 \in Nat
    BY <1>3
  <2>4. n > 0 => TileOK(q)
    BY <1>3, <1>5, <1>8, <2>1, <2>3 DEF TileOK
  <2> QED BY <2>2, <2>4
<1>14. Within(q, p) /\ Within(s, p)
  <2>1. c.right < c.right + 1 /\ c.index + 1 <= c.index + 1
    BY <1>3
  <2>2. KeyLeq(c.upper, c.upper)
    BY DEF KeyLeq
  <2> QED BY <1>2, <1>5, <1>6, <1>8, <1>9, <1>10, <2>1, <2>2 DEF Within
<1>15. Precedes(q, s) /\ Follows(q, s)
  <2>1. c.right < c.right + 1 /\ KeyLeq(up, up)
    BY <1>3 DEF KeyLeq
  <2> QED BY <1>6, <1>8, <1>9, <2>1 DEF Precedes, Follows
<1>16. PhaseOK'
  <2>1. c.right + 1 \in 0 .. NBuckets /\ c.right + 1 \in 0 .. (c.right + 1) /\ c.right + 1 # 0
        /\ (c.right + 1) - 1 = c.right
    BY <1>3, <1>4
  <2>2. Bucket(firstBucket - 1)'.upper = up
    <3>1. firstBucket' - 1 + 1 = c.right + 1 /\ buckets' = buckets
      BY <1>1, <1>3
    <3> QED BY <3>1 DEF Bucket, up
  <2>3. /\ i' \in 0 .. NBuckets' /\ firstBucket' \in 0 .. i' /\ latestCount' \in Nat
        /\ low' = IF firstBucket' = 0 THEN <<>> ELSE Bucket(firstBucket - 1)'.upper
    BY <1>1, <1>4, <2>1, <2>2
  <2>4. ph' = "loop" /\ buckets' # <<>>
    BY <1>1
  <2> QED BY <2>3, <2>4 DEF PhaseOK
<1>17. MarkOK'
  <2>1. \A u \in tasks' : u \in tasks \/ (TileOK(TaskTile(u)) /\ Within(TaskTile(u), p))
    BY <1>1, <1>13, <1>14 DEF q
  <2> QED BY <1>1, <1>2, <2>1, RestKeepsMark
<1>18. \A u \in tasks' : u \in tasks \/ TaskOK(u)
  BY <1>1, <1>12
<1>19. (\A x \in Tiles' : TileOK(x)) /\ Ordered(Tiles') /\ Covers(Tiles') /\ (~short' => Walkable(Tiles'))
  <2>1. CASE n > 0
    <3>1. Tiles' = (Tiles \ {p}) \cup {q, s}
      <4>1. chunks' = chunks \cup {} /\ tasks' = tasks \cup {t}
        BY <1>1, <1>2, <2>1
      <4>2. Tiles' = (Tiles \ {p}) \cup ({ChunkTile(d) : d \in {}} \cup {TaskTile(u) : u \in {t}} \cup Rest')
        BY <1>2, <4>1, RestCut
      <4> QED BY <1>11, <4>2 DEF q
    <3>2. Ordered({q, s})
      BY <1>15 DEF Ordered
    <3>3. Fills({q, s}, p)
      <4> SUFFICES ASSUME NEW k \in Key, InTile(p, k) PROVE InTile(q, k) \/ InTile(s, k)
        BY DEF Fills
      <4>1. KeyLess(c.upper, k)
        BY <1>2, <1>10 DEF InTile
      <4>2. KeyLeq(k, up) \/ KeyLess(up, k)
        BY <1>4, KeyLessTotal DEF KeyLeq
      <4> QED BY <1>8, <1>9, <4>1, <4>2 DEF InTile
    <3>4. Chains({q, s}, p)
      <4>1. \A x : Follows(x, p) => Follows(x, q)
        BY <1>8, <1>10 DEF Follows
      <4> QED BY <1>2, <1>9, <1>10, <1>15, <4>1 DEF Chains
    <3>5. \A x \in {q, s} : TileOK(x) /\ Within(x, p)
      BY <1>13, <1>14, <2>1
    <3> QED BY <1>1, <1>2, <3>1, <3>2, <3>3, <3>4, <3>5, RecutTiles
  <2>2. CASE ~(n > 0)
    <3>0. n = 0 /\ c.cnt = c.index + 1
      BY <1>3, <2>2
    <3>1. Tiles' = (Tiles \ {p}) \cup {s}
      <4>1. chunks' = chunks \cup {} /\ tasks' = tasks \cup {}
        BY <1>1, <1>2, <2>2
      <4>2. Tiles' = (Tiles \ {p}) \cup ({ChunkTile(d) : d \in {}} \cup {TaskTile(u) : u \in {}} \cup Rest')
        BY <1>2, <4>1, RestCut
      <4> QED BY <1>11, <4>2
    <3>2. Ordered({s})
      BY DEF Ordered
    <3>3. Fills({s}, p)
      BY <1>2, <1>5, <1>9, <1>10, <3>0 DEF Fills, InTile
    <3>4. Chains({s}, p)
      <4>1. ASSUME NEW x, TileOK(x), Precedes(x, p), Follows(x, p) PROVE Follows(x, s)
        <5>1. x.l = p.l /\ x.b = p.a
          BY <1>2, <1>3, <1>10, <4>1 DEF Follows
        <5>2. x.r = p.r /\ x.cnt = p.cnt
          <6>1. ~(x.r < p.l)
            BY <1>2, <4>1, <5>1 DEF TileOK
          <6> QED BY <4>1, <6>1 DEF Precedes
        <5>3. x.r + 1 = s.l /\ s.a = 0 /\ x.b = x.cnt
          BY <1>9, <1>10, <3>0, <5>1, <5>2
        <5> QED BY <5>3 DEF Follows
      <4> QED BY <1>2, <1>9, <1>10, <4>1 DEF Chains
    <3>5. \A x \in {s} : TileOK(x) /\ Within(x, p)
      BY <1>13, <1>14
    <3> QED BY <1>1, <1>2, <3>1, <3>2, <3>3, <3>4, <3>5, RecutTiles
  <2> QED BY <2>1, <2>2
<1> QED BY <1>1, <1>16, <1>17, <1>18, <1>19, SplitInvNext

\* The chunks of a cut know what is left of their group.
LEMMA CutChunksOK ==
    ASSUME SplitInv, NEW t, NEW p, TileOK(p), CutsTile(t, p), NEW vals, CutsAt(t, vals),
           buckets # <<>> => /\ t.upper # <<>> => t.right < NBuckets /\ t.upper = Bucket(t.right).upper
                             /\ t.upper = <<>> => Len(vals) = 0,
           buckets = <<>> => t.left = 0 /\ t.right = 0 /\ t.upper = <<>>
    PROVE  \A c \in Cut(t, vals) : ChunkOK(c)
<1> SUFFICES ASSUME NEW j \in 0 .. Len(vals) PROVE ChunkOK(Piece(t, vals, j))
  BY CutPieces
<1> DEFINE c == Piece(t, vals, j)
<1>1. /\ c.table = 0 /\ c.isFirst = FALSE /\ c.isLast = FALSE /\ c.left = t.left /\ c.right = t.right
      /\ c.index = t.begin + j /\ c.cnt = t.cnt /\ c.type = t.type
      /\ c.lower = From(t, vals, j) /\ c.upper = UpTo(t, vals, j)
      /\ c.hasLower = (j > 0 \/ t.lower # <<>>) /\ c.hasUpper = (j < Len(vals) \/ t.upper # <<>>)
  BY DEF Piece
<1>2. /\ Len(vals) \in Nat /\ j \in Int
      /\ From(t, vals, j) \in Bound /\ UpTo(t, vals, j) \in Bound
      /\ From(t, vals, j) # <<>> <=> j > 0 \/ t.lower # <<>>
      /\ UpTo(t, vals, j) # <<>> <=> j < Len(vals) \/ t.upper # <<>>
      /\ t.upper # <<>> => KeyLeq(UpTo(t, vals, j), t.upper)
  BY PieceBounds
<1>3. /\ t.left \in Nat /\ t.right \in Nat /\ t.begin \in Nat /\ t.cnt \in Int /\ t.type \in {"bucket", "random"}
      /\ t.begin + Len(vals) < t.cnt \/ (t.upper = <<>> /\ Len(vals) = 0)
  BY DEF TileOK, CutsTile, CutsAt
<1>4. c \in ChunkRecord
  <2>1. From(t, vals, j) \in [Cols -> Int] \cup {<<>>} /\ UpTo(t, vals, j) \in [Cols -> Int] \cup {<<>>}
    BY <1>2 DEF Bound, Key
  <2>2. t.left \in Int /\ t.right \in Int /\ t.begin + j \in Int
    BY <1>2, <1>3
  <2> QED BY <1>3, <2>1, <2>2 DEF ChunkRecord, Piece
<1> HIDE DEF c
<1>5. (c.hasLower <=> c.lower # <<>>) /\ (c.hasUpper <=> c.upper # <<>>)
  BY <1>1, <1>2
<1>6. ASSUME c.upper # <<>>, buckets # <<>>
      PROVE  /\ c.right < NBuckets /\ KeyLeq(c.upper, Bucket(c.right).upper)
             /\ c.index = c.cnt - 1 => c.upper = Bucket(c.right).upper
  <2>1. t.upper # <<>> /\ t.right < NBuckets /\ t.upper = Bucket(t.right).upper
    BY <1>1, <1>2, <1>6
  <2>2. c.index = c.cnt - 1 => j = Len(vals)
    BY <1>1, <1>2, <1>3, <2>1
  <2>3. j = Len(vals) => c.upper = t.upper
    BY <1>1 DEF UpTo
  <2> QED BY <1>1, <1>2, <2>1, <2>2, <2>3
<1>7. ASSUME buckets = <<>> PROVE c.left = 0 /\ c.right = 0 /\ (c.upper # <<>> => c.index < c.cnt - 1)
  <2>1. t.upper = <<>>
    BY <1>7
  <2>2. c.upper # <<>> => j < Len(vals) /\ t.begin + Len(vals) < t.cnt
    BY <1>1, <1>2, <1>3, <2>1
  <2>3. c.upper # <<>> => c.index < c.cnt - 1
    BY <1>1, <1>2, <1>3, <2>2
  <2> QED BY <1>1, <1>7, <2>3
<1>8. c.table = 0 /\ ~c.isFirst /\ ~c.isLast
  BY <1>1
<1>9. ChunkOK(c)
  BY <1>4, <1>5, <1>6, <1>7, <1>8 DEF ChunkOK
<1> QED BY <1>9 DEF c

\* A waiting split is done.
LEMMA SplitTaskStep == ASSUME SplitInv, NEW t \in tasks, SplitTask(t) PROVE SplitInv'
<1> DEFINE p == TaskTile(t)
<1>1. PICK vals \in Values(t) : chunks' = chunks \cup Cut(t, vals) /\ short' = (short \/ Len(vals) < t.n - 1)
  BY DEF SplitTask
<1>2. /\ buckets' = buckets /\ rows' = rows /\ ph' = ph /\ start' = start /\ mark' = mark
      /\ i' = i /\ firstBucket' = firstBucket /\ latestCount' = latestCount /\ low' = low
      /\ tasks' = tasks \ {t} /\ NBuckets' = NBuckets
  BY DEF SplitTask, loopVars, NBuckets
<1>3. TaskOK(t) /\ p \in Tiles /\ TileOK(p)
  BY DEF SplitInv, Tiles
<1>4. CutsTile(t, p)
  <2>1. t.lower = p.lower /\ t.upper = p.upper /\ t.left = p.l /\ t.right = p.r /\ t.begin = p.a
        /\ t.cnt = p.cnt /\ t.cnt = p.b
    BY DEF TaskTile
  <2> HIDE DEF p
  <2> QED BY <1>3, <2>1 DEF CutsTile, TileOK, TaskOK
<1> HIDE DEF p
<1>5. /\ CutsAt(t, vals) /\ Len(vals) \in Nat
      /\ ~(Len(vals) < t.n - 1) => t.begin + Len(vals) + 1 = t.cnt
  <2>1. IsFiniteSet(rows) /\ rows \subseteq [Cols -> Int \cup {Null}]
    BY SplitterAssumption DEF SplitInv
  <2>2. t.n \in Int /\ t.begin + t.n = t.cnt /\ t.n >= 1
    BY <1>3 DEF TaskOK
  <2> QED BY <1>3, <1>4, <2>1, <2>2, ValuesCut
<1> DEFINE S == {ChunkTile(c) : c \in Cut(t, vals)}
<1>6. /\ \A s \in S : TileOK(s) /\ Within(s, p)
      /\ Ordered(S) /\ Fills(S, p)
      /\ (t.upper # <<>> => t.begin + Len(vals) + 1 = t.cnt) => Chains(S, p)
  BY <1>3, <1>4, <1>5, CutTiles
<1>7. Rest' = Rest /\ \A r \in Rest : r.kind = "rest"
  BY <1>2 DEF Rest, RestTile
<1>8. Tiles' = (Tiles \ {p}) \cup S
  BY <1>1, <1>2, <1>7, TaskCut DEF p
<1> HIDE DEF S
<1>9. ~short' => ~short /\ Chains(S, p)
  BY <1>1, <1>5, <1>6
<1>10. (\A x \in Tiles' : TileOK(x)) /\ Ordered(Tiles') /\ Covers(Tiles') /\ (~short' => Walkable(Tiles'))
  BY <1>3, <1>6, <1>8, <1>9, RecutTiles
<1>11. \A c \in Cut(t, vals) : ChunkOK(c)
  <2>1. buckets # <<>> /\ (t.upper # <<>> => t.right < NBuckets /\ t.upper = Bucket(t.right).upper)
    BY <1>3 DEF TaskOK
  <2>2. t.upper = <<>> => Len(vals) = 0
    <3>1. t.upper = <<>> => t.n = 1
      BY <1>3 DEF TaskOK
    <3>2. t.n = 1 => vals = <<>>
      BY DEF Values
    <3> QED BY <3>1, <3>2
  <2> QED BY <1>3, <1>4, <1>5, <2>1, <2>2, CutChunksOK
<1>12. \A c \in chunks' : c \in chunks \/ ChunkOK(c)
  BY <1>1, <1>11
<1>13. PhaseOK'
  <2>1. ph # "idle"
    BY DEF SplitInv, PhaseOK
  <2>2. Bucket(firstBucket - 1)' = Bucket(firstBucket - 1)
    BY <1>2 DEF Bucket
  <2> QED BY <1>2, <2>1, <2>2 DEF PhaseOK, SplitInv
<1>14. MarkOK'
  BY <1>1, <1>2, TaskKeepsMark
<1>15. short' \in BOOLEAN /\ \A u \in tasks' : u \in tasks \/ TaskOK(u)
  BY <1>1, <1>2 DEF SplitInv
<1> QED BY <1>2, <1>10, <1>12, <1>13, <1>14, <1>15, SplitInvNext

\* The random splitter cuts what is left of the table.
LEMMA RandomSplitStep == ASSUME SplitInv, RandomSplit PROVE SplitInv'
<1> DEFINE cnt == (Cardinality(rows) + ChunkSize - 1) \div ChunkSize
           c == start
           t == IF c = NoChunk
                THEN Task(<<>>, <<>>, 0, 0, 0, cnt, cnt, "random")
                ELSE Task(c.upper, <<>>, 0, 0, c.index + 1, c.cnt, c.cnt - (c.index + 1), "random")
<1>1. PICK vals \in Values(t) : chunks' = chunks \cup Cut(t, vals) /\ short' = (short \/ Len(vals) < t.n - 1)
  BY DEF RandomSplit
<1>2. /\ buckets' = buckets /\ rows' = rows /\ mark' = mark /\ tasks' = tasks /\ NBuckets' = NBuckets
      /\ ph = "idle" /\ ph' = "done" /\ buckets = <<>> /\ (c # NoChunk => ~IsLastChunkForTable(c))
  BY DEF RandomSplit, NBuckets
<1>3. cnt \in Int /\ IsFiniteSet(rows) /\ rows \subseteq [Cols -> Int \cup {Null}]
  <2>1. IsFiniteSet(rows) /\ rows \subseteq [Cols -> Int \cup {Null}] /\ ChunkSize \in Nat \ {0}
    BY SplitterAssumption DEF SplitInv
  <2>2. Cardinality(rows) \in Nat
    BY <2>1, FS_CardinalityType
  <2> QED BY <2>1, <2>2
<1> HIDE DEF cnt
<1>4. \E p \in Tiles : /\ Rest = {p} /\ TileOK(p) /\ p.kind = "rest" /\ p.upper = <<>> /\ CutsTile(t, p)
                       /\ t.n \in Int /\ t.begin + t.n = t.cnt /\ t.upper = <<>>
                       /\ t.left = 0 /\ t.right = 0
  <2>1. CASE c = NoChunk
    <3> DEFINE p == RestTile(0, 0, 0, 0, <<>>)
    <3>1. Rest = {p} /\ p \in Tiles
      BY <1>2, <2>1 DEF Rest, Tiles
    <3>2. TileOK(p)
      BY <3>1 DEF SplitInv
    <3>3. t = Task(<<>>, <<>>, 0, 0, 0, cnt, cnt, "random")
      BY <2>1
    <3>4. /\ t.lower = <<>> /\ t.upper = <<>> /\ t.left = 0 /\ t.right = 0 /\ t.begin = 0
          /\ t.cnt = cnt /\ t.n = cnt /\ t.type = "random"
      BY <3>3 DEF Task
    <3>5. /\ p.l = 0 /\ p.r = 0 /\ p.a = 0 /\ p.lower = <<>> /\ p.upper = <<>> /\ p.kind = "rest"
      BY DEF RestTile
    <3> HIDE DEF t, p
    <3>6. CutsTile(t, p)
      BY <1>3, <3>4, <3>5 DEF CutsTile
    <3>7. t.begin + t.n = t.cnt
      BY <1>3, <3>4
    <3> QED BY <1>3, <3>1, <3>2, <3>4, <3>5, <3>6, <3>7
  <2>2. CASE c # NoChunk
    <3> DEFINE p == RestTile(c.left, c.right, c.cnt, c.index + 1, c.upper)
    <3>1. Rest = {p} /\ p \in Tiles /\ TileOK(p) /\ ChunkOK(c)
      BY <1>2, <2>2, StartFacts
    <3>2. c.left = 0 /\ c.right = 0
      BY <1>2, <3>1 DEF ChunkOK
    <3>3. t = Task(c.upper, <<>>, 0, 0, c.index + 1, c.cnt, c.cnt - (c.index + 1), "random")
      BY <2>2
    <3>4. /\ t.lower = c.upper /\ t.upper = <<>> /\ t.left = 0 /\ t.right = 0 /\ t.begin = c.index + 1
          /\ t.cnt = c.cnt /\ t.n = c.cnt - (c.index + 1) /\ t.type = "random"
      BY <3>3 DEF Task
    <3>5. /\ p.l = 0 /\ p.r = 0 /\ p.a = c.index + 1 /\ p.cnt = c.cnt /\ p.lower = c.upper /\ p.upper = <<>>
          /\ p.kind = "rest"
      BY <3>2 DEF RestTile
    <3> HIDE DEF t, p
    <3>6. c.cnt \in Int /\ c.index \in Int
      BY <3>1 DEF ChunkOK, ChunkRecord
    <3>7. CutsTile(t, p)
      BY <3>4, <3>5, <3>6 DEF CutsTile
    <3>8. t.begin + t.n = t.cnt /\ t.n \in Int
      BY <3>4, <3>6
    <3> QED BY <3>1, <3>4, <3>5, <3>7, <3>8
  <2> QED BY <2>1, <2>2
<1>5. PICK p \in Tiles : /\ Rest = {p} /\ TileOK(p) /\ p.kind = "rest" /\ p.upper = <<>> /\ CutsTile(t, p)
                         /\ t.n \in Int /\ t.begin + t.n = t.cnt /\ t.upper = <<>>
                         /\ t.left = 0 /\ t.right = 0
  BY <1>4
<1> HIDE DEF t
<1>6. CutsAt(t, vals) /\ Len(vals) \in Nat
  BY <1>3, <1>5, ValuesCut
<1> DEFINE S == {ChunkTile(d) : d \in Cut(t, vals)}
<1>7. /\ \A s \in S : TileOK(s) /\ Within(s, p)
      /\ Ordered(S) /\ Fills(S, p) /\ Chains(S, p)
  BY <1>5, <1>6, CutTiles
<1>8. tasks = {}
  BY <1>2 DEF SplitInv, PhaseOK
<1>9. Tiles' = (Tiles \ {p}) \cup S
  <2>1. chunks' = chunks \cup Cut(t, vals) /\ tasks' = tasks \cup {}
    BY <1>1, <1>2
  <2>2. Tiles' = (Tiles \ {p}) \cup ({ChunkTile(d) : d \in Cut(t, vals)} \cup {TaskTile(u) : u \in {}} \cup Rest')
    BY <1>5, <2>1, RestCut
  <2>3. Rest' = {}
    BY <1>2 DEF Rest
  <2> QED BY <2>2, <2>3
<1> HIDE DEF S
<1>10. ~short' => ~short
  BY <1>1
<1>11. (\A x \in Tiles' : TileOK(x)) /\ Ordered(Tiles') /\ Covers(Tiles') /\ (~short' => Walkable(Tiles'))
  BY <1>7, <1>9, <1>10, RecutTiles
<1>12. \A d \in Cut(t, vals) : ChunkOK(d)
  BY <1>2, <1>5, <1>6, CutChunksOK
<1>13. \A d \in chunks' : d \in chunks \/ ChunkOK(d)
  BY <1>1, <1>12
<1>14. PhaseOK'
  BY <1>2 DEF PhaseOK
<1>15. MarkOK'
  BY <1>1, <1>2, TaskKeepsMark
<1>16. short' \in BOOLEAN /\ \A u \in tasks' : u \in tasks \/ TaskOK(u)
  BY <1>1, <1>2 DEF SplitInv
<1> QED BY <1>2, <1>11, <1>13, <1>14, <1>15, <1>16, SplitInvNext

\* The checkpoint goes on to the next chunk.
LEMMA AdvanceStep == ASSUME SplitInv, Advance PROVE SplitInv'
<1>1. PICK c \in chunks : IsAdjacent(mark, c) /\ mark' = c
  BY DEF Advance
<1>2. /\ buckets' = buckets /\ rows' = rows /\ ph' = ph /\ start' = start /\ chunks' = chunks
      /\ i' = i /\ firstBucket' = firstBucket /\ latestCount' = latestCount /\ low' = low
      /\ tasks' = tasks /\ NBuckets' = NBuckets /\ short' = short /\ short \in BOOLEAN
  BY DEF Advance, loopVars, NBuckets, SplitInv
<1> DEFINE p == ChunkTile(mark)
           q == ChunkTile(c)
<1>3. q \in Tiles /\ TileOK(q) /\ (\A x \in Tiles : TileOK(x)) /\ Ordered(Tiles) /\ Covers(Tiles)
  BY DEF SplitInv, Tiles
<1>4. ASSUME mark # InitNode
      PROVE  mark \in chunks /\ p \in Tiles /\ TileOK(p) /\ Follows(p, q) /\ Precedes(p, q)
  <2>1. mark \in chunks
    BY <1>4 DEF SplitInv, MarkOK
  <2>2. p \in Tiles /\ TileOK(p)
    BY <2>1 DEF Tiles, SplitInv
  <2>3. Follows(p, q)
    BY <1>1, <2>1, AdjacentFollows
  <2>4. Precedes(p, q)
    BY <1>3, <2>2, <2>3, FollowsPrecedes DEF Ordered
  <2> QED BY <2>1, <2>2, <2>3, <2>4
<1>5. \A t \in tasks : TaskTile(t) \in Tiles /\ TaskTile(t) # q
  BY DEF Tiles, TaskTile, ChunkTile
<1>6. ASSUME NEW x \in Tiles, Precedes(x, q) PROVE \E d \in chunks : ComparesLeq(d, c) /\ x = ChunkTile(d)
  <2>1. mark # InitNode
    <3> SUFFICES ASSUME mark = InitNode PROVE FALSE
      OBVIOUS
    <3>1. c.lower = <<>>
      BY <1>1, AdjacentToInit
    <3> QED BY <1>6, <3>1 DEF Precedes, ChunkTile
  <2>2. p \in Tiles /\ TileOK(p) /\ Follows(p, q) /\ Precedes(p, q)
    BY <1>4, <2>1
  <2>3. ~Precedes(p, x)
    BY <1>3, <1>6, <2>2, NothingBetween
  <2>4. x = p \/ Precedes(x, p)
    BY <1>3, <2>2, <2>3 DEF Ordered
  <2>5. PICK d \in chunks : x = ChunkTile(d)
    <3>1. ASSUME NEW t \in tasks, x = TaskTile(t) PROVE FALSE
      <4>1. Precedes(p, x)
        BY <2>1, <3>1 DEF SplitInv, MarkOK
      <4> QED BY <2>3, <4>1
    <3>2. ASSUME x \in Rest PROVE FALSE
      <4>1. x.upper = <<>>
        BY <3>2 DEF Rest, RestTile
      <4> QED BY <1>6, <4>1 DEF Precedes
    <3> QED BY <3>1, <3>2 DEF Tiles
  <2>6. ComparesLeq(d, c)
    BY <1>6, <2>5, ComparesPrecedes
  <2> QED BY <2>5, <2>6
<1>7. ASSUME NEW t \in tasks PROVE Precedes(q, TaskTile(t))
  <2>1. \A d : ChunkTile(d) # TaskTile(t)
    BY DEF ChunkTile, TaskTile
  <2>2. ~Precedes(TaskTile(t), q)
    BY <1>5, <1>6, <2>1
  <2> QED BY <1>3, <1>5, <2>2 DEF Ordered
<1>8. ASSUME NEW k \in Key, c.upper = <<>> \/ KeyLeq(k, c.upper)
      PROVE  \E d \in chunks : ComparesLeq(d, c) /\ InTile(ChunkTile(d), k)
  <2>1. PICK x \in Tiles : InTile(x, k)
    BY <1>3 DEF Covers
  <2>2. q.upper = c.upper
    BY DEF ChunkTile
  <2>3. ~Precedes(q, x)
    <3> SUFFICES ASSUME Precedes(q, x) PROVE FALSE
      OBVIOUS
    <3>1. q.upper \in Key /\ ~KeyLeq(k, q.upper)
      BY <1>3, <2>1, LaterIsAbove
    <3> QED BY <1>8, <2>2, <3>1, KeyNotEmpty
  <2>4. CASE x = q
    <3>1. ComparesLeq(c, c)
      BY DEF ComparesLeq
    <3> QED BY <2>1, <2>4, <3>1
  <2>5. CASE Precedes(x, q)
    BY <1>6, <2>1, <2>5
  <2> QED BY <1>3, <2>3, <2>4, <2>5 DEF Ordered
<1>9. MarkOK'
  BY <1>1, <1>2, <1>7, <1>8 DEF MarkOK
<1>10. ph # "idle"
  <2> SUFFICES ASSUME ph = "idle" PROVE FALSE
    OBVIOUS
  <2>1. start # NoChunk /\ start = mark /\ mark \in chunks
    BY DEF SplitInv, PhaseOK
  <2>2. Follows(p, q) /\ Precedes(p, q) /\ TileOK(p)
    BY <1>4, <2>1, ChunkIsNode
  <2>3. start.upper # <<>>
    BY <2>1, <2>2 DEF Precedes, ChunkTile
  <2> DEFINE r == RestTile(start.left, start.right, start.cnt, start.index + 1, start.upper)
  <2>4. r \in Tiles /\ TileOK(r) /\ r.upper = <<>> /\ r.kind = "rest"
    <3>1. ~IsLastChunkForTable(start)
      BY <2>1, <2>3, LastIsOpen
    <3> QED BY <2>1, <3>1, StartFacts
  <2>5. q # r /\ ~Precedes(r, q)
    BY <2>4 DEF ChunkTile, Precedes
  <2>6. Precedes(q, r)
    <3> HIDE DEF q, r
    <3> QED BY <1>3, <2>4, <2>5 DEF Ordered
  <2>7. Follows(p, r)
    BY <2>1 DEF Follows, ChunkTile, RestTile
  <2> QED BY <1>3, <2>2, <2>4, <2>6, <2>7, NothingBetween
<1>11. Tiles' = Tiles
  BY <1>2 DEF Tiles, Rest
<1>12. PhaseOK'
  <2>1. Bucket(firstBucket - 1)' = Bucket(firstBucket - 1)
    BY <1>2 DEF Bucket
  <2> QED BY <1>2, <1>10, <2>1 DEF PhaseOK, SplitInv
<1>13. (\A x \in Tiles' : TileOK(x)) /\ Ordered(Tiles') /\ Covers(Tiles') /\ (~short' => Walkable(Tiles'))
  BY <1>2, <1>11 DEF SplitInv
<1> QED BY <1>2, <1>9, <1>12, <1>13, SplitInvNext

\* The process ends, and the next one starts from the checkpoint.
LEMMA RestartStep == ASSUME SplitInv, Restart PROVE SplitInv'
<1> DEFINE C == {c \in chunks : ComparesLeq(c, mark)}
<1>1. /\ buckets' = buckets /\ rows' = rows /\ mark' = mark /\ short' = short /\ short \in BOOLEAN
      /\ ph' = "idle" /\ tasks' = {} /\ chunks' = C
      /\ start' = IF mark = InitNode THEN NoChunk ELSE mark
  BY DEF Restart, SplitInv
<1>2. CASE mark = InitNode
  <2>1. C = {}
    <3>1. ASSUME NEW c \in chunks PROVE ~ComparesLeq(c, mark)
      <4>1. c.table = 0 /\ mark.table = -1
        BY <1>2 DEF SplitInv, ChunkOK, InitNode
      <4> QED BY <4>1 DEF ComparesLeq, ComparesLess
    <3> QED BY <3>1
  <2>2. Tiles' = {RestTile(0, 0, 0, 0, <<>>)}
    BY <1>1, <1>2, <2>1 DEF Tiles, Rest
  <2>3. PhaseOK' /\ MarkOK'
    BY <1>1, <1>2, <2>1 DEF PhaseOK, MarkOK
  <2>4. \A x \in Tiles' : TileOK(x)
    BY <2>2, WholeTable
  <2>5. Ordered(Tiles') /\ Covers(Tiles') /\ Walkable(Tiles')
    BY <2>2, WholeTable
  <2>6. (\A c \in chunks' : c \in chunks \/ ChunkOK(c)) /\ (\A t \in tasks' : t \in tasks \/ TaskOK(t))
    BY <1>1, <2>1
  <2> QED BY <1>1, <2>3, <2>4, <2>5, <2>6, SplitInvNext
<1>3. CASE mark # InitNode
  <2> DEFINE m == ChunkTile(mark)
             r == RestTile(mark.left, mark.right, mark.cnt, mark.index + 1, mark.upper)
  <2>1. /\ mark \in chunks
        /\ \A t \in tasks : Precedes(m, TaskTile(t))
        /\ \A k \in Key : mark.upper = <<>> \/ KeyLeq(k, mark.upper) =>
             \E c \in chunks : ComparesLeq(c, mark) /\ InTile(ChunkTile(c), k)
    BY <1>3 DEF SplitInv, MarkOK
  <2>2. mark # NoChunk /\ mark \in C
    <3>1. ComparesLeq(mark, mark)
      BY DEF ComparesLeq
    <3> QED BY <2>1, <3>1, ChunkIsNode
  <2>3. m \in Tiles /\ TileOK(m) /\ (\A x \in Tiles : TileOK(x)) /\ Ordered(Tiles)
    BY <2>1 DEF SplitInv, Tiles
  <2>4. \A c \in C : c \in chunks /\ ChunkTile(c) \in Tiles /\ TileOK(ChunkTile(c))
                     /\ (c = mark \/ Precedes(ChunkTile(c), m))
    <3> TAKE c \in C
    <3>1. c \in chunks /\ ComparesLeq(c, mark)
      OBVIOUS
    <3> QED BY <2>1, <3>1, ComparesPrecedes DEF Tiles
  <2>5. ASSUME NEW x \in Tiles PROVE Precedes(m, x) \/ \E c \in C : x = ChunkTile(c)
    <3> SUFFICES ASSUME ~Precedes(m, x) PROVE \E c \in C : x = ChunkTile(c)
      OBVIOUS
    <3>1. x = m \/ Precedes(x, m)
      BY <2>3 DEF Ordered
    <3>2. \A t \in tasks : x # TaskTile(t)
      BY <2>1
    <3>3. x \notin Rest
      <4> SUFFICES ASSUME x \in Rest PROVE FALSE
        OBVIOUS
      <4>1. x.upper = <<>> /\ x.kind = "rest"
        BY DEF Rest, RestTile
      <4>2. x # m
        BY <4>1 DEF ChunkTile
      <4> QED BY <3>1, <4>1, <4>2 DEF Precedes
    <3>4. PICK c \in chunks : x = ChunkTile(c)
      BY <3>2, <3>3 DEF Tiles
    <3>5. c = mark \/ Precedes(ChunkTile(c), m)
      <4>1. ChunkTile(c) = m => c = mark
        BY DEF ChunkTile
      <4> QED BY <3>1, <3>4, <4>1
    <3>6. ComparesLeq(c, mark)
      BY <2>1, <3>5, ComparesPrecedes
    <3> QED BY <3>4, <3>6
  <2>6. Rest' = IF mark.upper # <<>> THEN {r} ELSE {}
    BY <1>1, <1>3, <2>2 DEF Rest
  <2>7. Tiles' = {ChunkTile(c) : c \in C} \cup Rest'
    BY <1>1 DEF Tiles
  <2>8. ASSUME mark.upper # <<>>
        PROVE  TileOK(r) /\ Follows(m, r) /\ \A c \in C : Precedes(ChunkTile(c), r)
    <3>1. /\ m.l = mark.left /\ m.r = mark.right /\ m.cnt = mark.cnt /\ m.a = mark.index /\ m.b = mark.index + 1
          /\ m.lower = mark.lower /\ m.upper = mark.upper
      BY DEF ChunkTile
    <3>2. /\ r.l = mark.left /\ r.r = mark.right /\ r.cnt = mark.cnt /\ r.a = mark.index + 1 /\ r.b = mark.index + 1 + 1
          /\ r.lower = mark.upper /\ r.upper = <<>>
      BY DEF RestTile
    <3> HIDE DEF m, r
    <3>3. mark.index + 1 \in Nat /\ mark.index + 1 < mark.index + 1 + 1 /\ mark.index + 1 + 1 \in Nat
          /\ mark.index + 1 <= mark.index + 1
      BY <2>3, <3>1 DEF TileOK
    <3>4. TileOK(r)
      BY <2>3, <3>1, <3>2, <3>3 DEF TileOK, Bound
    <3>5. Precedes(m, r) /\ Follows(m, r)
      BY <2>8, <3>1, <3>2, <3>3 DEF Precedes, Follows, KeyLeq
    <3>6. \A c \in C : Precedes(ChunkTile(c), r)
      BY <2>3, <2>4, <3>4, <3>5, PrecedesTransitive DEF m
    <3> QED BY <3>4, <3>5, <3>6
  <2> HIDE DEF m, r, C
  <2>9. \A x \in Tiles' : TileOK(x)
    BY <2>4, <2>6, <2>7, <2>8
  <2>10. Ordered(Tiles')
    <3> SUFFICES ASSUME NEW x \in Tiles', NEW y \in Tiles' PROVE x = y \/ Precedes(x, y) \/ Precedes(y, x)
      BY DEF Ordered
    <3>1. CASE x \in Rest' \/ y \in Rest'
      BY <2>6, <2>7, <2>8, <3>1
    <3>2. CASE x \notin Rest' /\ y \notin Rest'
      BY <2>3, <2>4, <2>7, <3>2 DEF Ordered
    <3> QED BY <3>1, <3>2
  <2>11. Covers(Tiles')
    <3> SUFFICES ASSUME NEW k \in Key PROVE \E x \in Tiles' : InTile(x, k)
      BY DEF Covers
    <3>1. CASE mark.upper = <<>> \/ KeyLeq(k, mark.upper)
      <4>1. PICK c \in chunks : ComparesLeq(c, mark) /\ InTile(ChunkTile(c), k)
        BY <2>1, <3>1
      <4>2. c \in C
        BY <4>1 DEF C
      <4> QED BY <2>7, <4>1, <4>2
    <3>2. CASE mark.upper # <<>> /\ ~KeyLeq(k, mark.upper)
      <4>1. mark.upper \in Key
        BY <2>3, <3>2 DEF TileOK, ChunkTile, m, Bound
      <4>2. KeyLess(mark.upper, k)
        BY <3>2, <4>1, KeyLessTotal DEF KeyLeq
      <4>3. InTile(r, k)
        BY <4>2 DEF InTile, RestTile, r
      <4> QED BY <2>6, <2>7, <3>2, <4>3
    <3> QED BY <3>1, <3>2
  <2>12. ASSUME ~short' PROVE Walkable(Tiles')
    <3>1. Walkable(Tiles)
      BY <1>1, <2>12 DEF SplitInv
    <3>2. \E x \in Tiles' : x.lower = <<>>
      <4>1. PICK x \in Tiles : x.lower = <<>>
        BY <3>1 DEF Walkable
      <4>2. ~Precedes(m, x)
        BY <4>1 DEF Precedes
      <4> QED BY <2>5, <2>7, <4>1, <4>2
    <3>3. ASSUME NEW x \in Tiles', x.upper # <<>> PROVE \E y \in Tiles' : Follows(x, y)
      <4>1. PICK c \in C : x = ChunkTile(c)
        <5>1. x \notin Rest'
          BY <2>6, <3>3 DEF r, RestTile
        <5> QED BY <2>7, <5>1
      <4>2. CASE c = mark
        <5>1. mark.upper # <<>>
          BY <3>3, <4>1, <4>2 DEF ChunkTile
        <5> QED BY <2>6, <2>7, <2>8, <4>1, <4>2, <5>1 DEF m
      <4>3. CASE Precedes(x, m)
        <5>1. x \in Tiles /\ TileOK(x)
          BY <2>4, <4>1
        <5>2. PICK y \in Tiles : Follows(x, y)
          BY <3>1, <3>3, <5>1 DEF Walkable
        <5>3. ~Precedes(m, y)
          BY <2>3, <4>3, <5>1, <5>2, NothingBetween
        <5> QED BY <2>5, <2>7, <5>2, <5>3
      <4> QED BY <2>4, <4>1, <4>2, <4>3
    <3> QED BY <3>2, <3>3 DEF Walkable
  <2>13. PhaseOK'
    BY <1>1, <1>3, <2>2 DEF PhaseOK
  <2>14. MarkOK'
    <3>1. \A k \in Key : mark.upper = <<>> \/ KeyLeq(k, mark.upper) =>
             \E c \in C : ComparesLeq(c, mark) /\ InTile(ChunkTile(c), k)
      BY <2>1 DEF C
    <3> QED BY <1>1, <2>2, <3>1 DEF MarkOK
  <2>15. (\A c \in chunks' : c \in chunks \/ ChunkOK(c)) /\ (\A t \in tasks' : t \in tasks \/ TaskOK(t))
    BY <1>1 DEF C
  <2> QED BY <1>1, <2>9, <2>10, <2>11, <2>12, <2>13, <2>14, <2>15, SplitInvNext
<1> QED BY <1>2, <1>3

\* Nothing changes.
LEMMA SplitStutter == ASSUME SplitInv, UNCHANGED splitVars PROVE SplitInv'
  BY DEF splitVars, loopVars, SplitInv, ChunkOK, TaskOK, PhaseOK, MarkOK, Tiles, Rest, NBuckets, Bucket

\* SplitInv is kept by every step.
LEMMA SplitInvStep == ASSUME SplitInv, [SplitNext]_splitVars PROVE SplitInv'
<1>1. CASE SplitNext
  <2>1. CASE NothingLeft
    BY <2>1, NothingLeftStep
  <2>2. CASE BucketFresh
    BY <2>2, BucketFreshStep
  <2>3. CASE BucketResume
    BY <2>3, BucketResumeStep
  <2>4. CASE RandomSplit
    BY <2>4, RandomSplitStep
  <2>5. CASE MergeBucket
    BY <2>5, MergeBucketStep
  <2>6. CASE EmitGroup
    BY <2>6, EmitGroupStep
  <2>7. CASE EmitRest
    BY <2>7, EmitRestStep
  <2>8. CASE \E t \in tasks : SplitTask(t)
    BY <2>8, SplitTaskStep
  <2>9. CASE Advance
    BY <2>9, AdvanceStep
  <2>10. CASE Restart
    BY <2>10, RestartStep
  <2>11. CASE AllDone
    BY <2>11, SplitStutter DEF AllDone
  <2> QED BY <1>1, <2>1, <2>2, <2>3, <2>4, <2>5, <2>6, <2>7, <2>8, <2>9, <2>10, <2>11 DEF SplitNext
<1>2. CASE UNCHANGED splitVars
  BY <1>2, SplitStutter
<1> QED BY <1>1, <1>2

\* However a table is cut, interrupted and cut again, chunks, waiting splits
\* and what is still to be cut are tiles of the keys, in the order of ids.
THEOREM SplitInvariant == SplitSpec => []SplitInv
<1>1. SplitInit => SplitInv
  BY SplitInvInit
<1>2. SplitInv /\ [SplitNext]_splitVars => SplitInv'
  BY SplitInvStep
<1> QED BY <1>1, <1>2, PTL DEF SplitSpec

-----------------------------------------------------------------------------
(* What follows from the tiles.                                            *)

\* No row has a NULL in the columns of the split index.
NullFree == \A R \in RowChoices : R \subseteq Key

\* A row without NULL is in the clause of a chunk iff it is in its tile.
LEMMA SelectsInTile ==
    ASSUME SplitInv, NEW c \in chunks, NEW k \in Key
    PROVE  Selects(c, k) <=> InTile(ChunkTile(c), k)
<1>1. TileOK(ChunkTile(c))
  BY DEF SplitInv, Tiles
<1>2. c.lower \in Bound /\ c.upper \in Bound
  BY <1>1 DEF TileOK, ChunkTile
<1> QED BY <1>2, ClauseIsInterval DEF InTile, ChunkTile

\* When all is produced every tile is a chunk.
LEMMA ProducedTiles ==
    ASSUME SplitInv, Produced
    PROVE  Tiles = {ChunkTile(c) : c \in chunks}
<1>1. Rest = {}
  BY DEF Produced, Rest
<1> QED BY <1>1 DEF Produced, Tiles

LEMMA RowsOnceFromTiles == ASSUME NullFree, SplitInv PROVE RowsOnce
<1> SUFFICES ASSUME NEW row \in rows
             PROVE  LET n == Cardinality({c \in chunks : Selects(c, row)})
                    IN  n <= 1 /\ (Produced => n = 1)
  BY DEF RowsOnce
<1> DEFINE S == {c \in chunks : Selects(c, row)}
<1>1. row \in Key
  BY DEF NullFree, SplitInv
<1>2. \A c, d \in S : c = d
  <2>1. SUFFICES ASSUME NEW c \in S, NEW d \in S, c # d PROVE FALSE
    OBVIOUS
  <2>2. c \in chunks /\ d \in chunks /\ InTile(ChunkTile(c), row) /\ InTile(ChunkTile(d), row)
    BY <1>1, SelectsInTile
  <2>3. /\ TileOK(ChunkTile(c)) /\ TileOK(ChunkTile(d))
        /\ Precedes(ChunkTile(c), ChunkTile(d)) \/ Precedes(ChunkTile(d), ChunkTile(c))
    BY <2>1, <2>2, ComparesPrecedes
  <2> QED BY <1>1, <2>2, <2>3, PrecedesDisjoint
<1>3. ASSUME Produced PROVE S # {}
  <2>1. PICK p \in Tiles : InTile(p, row)
    BY <1>1 DEF SplitInv, Covers
  <2>2. PICK c \in chunks : p = ChunkTile(c)
    BY <1>3, <2>1, ProducedTiles
  <2> QED BY <1>1, <2>1, <2>2, SelectsInTile
<1>4. CASE S = {}
  BY <1>3, <1>4, FS_EmptySet
<1>5. CASE S # {}
  <2>1. PICK c : c \in S
    BY <1>5
  <2>2. S = {c}
    BY <1>2, <2>1
  <2> HIDE DEF S
  <2> QED BY <2>2, FS_Singleton DEF S
<1> QED BY <1>4, <1>5

LEMMA MarkFromTiles == ASSUME NullFree, SplitInv PROVE MarkLeavesNoRow
<1> SUFFICES ASSUME mark # InitNode, NEW row \in rows,
                    mark.upper = <<>> \/ KeyLeq(row, mark.upper)
             PROVE  \E c \in chunks : ComparesLeq(c, mark) /\ Selects(c, row)
  BY DEF MarkLeavesNoRow
<1>1. row \in Key
  BY DEF NullFree, SplitInv
<1>2. PICK c \in chunks : ComparesLeq(c, mark) /\ InTile(ChunkTile(c), row)
  BY <1>1 DEF SplitInv, MarkOK
<1> QED BY <1>1, <1>2, SelectsInTile

LEMMA IdsFromTiles == ASSUME SplitInv PROVE IdsFollowRanges
<1> SUFFICES ASSUME NEW c \in chunks, NEW d \in chunks
             PROVE  /\ ComparesLess(c, d) =>
                         c.upper # <<>> /\ d.lower # <<>> /\ KeyLeq(c.upper, d.lower)
                    /\ c = d \/ ComparesLess(c, d) \/ ComparesLess(d, c)
  BY DEF IdsFollowRanges
<1> QED BY ComparesPrecedes DEF Precedes, ChunkTile

LEMMA WalkFromTiles == ASSUME SplitInv PROVE WalkReachesEnd
<1> SUFFICES ASSUME Produced, ~short, \A c \in chunks : ~IsAdjacent(mark, c)
             PROVE  mark # InitNode /\ IsLastChunkForTable(mark)
  BY DEF WalkReachesEnd
<1>1. Walkable(Tiles) /\ Tiles = {ChunkTile(c) : c \in chunks}
  BY ProducedTiles DEF SplitInv
<1>2. mark # InitNode
  <2>1. PICK c \in chunks : ChunkTile(c).lower = <<>>
    BY <1>1 DEF Walkable
  <2>2. IsAdjacent(InitNode, c)
    BY <2>1, AdjacentToInit DEF ChunkTile
  <2> QED BY <2>2
<1>3. mark \in chunks
  BY <1>2 DEF SplitInv, MarkOK
<1>4. mark.upper = <<>>
  <2>1. SUFFICES ASSUME mark.upper # <<>> PROVE FALSE
    OBVIOUS
  <2>2. ChunkTile(mark) \in Tiles /\ ChunkTile(mark).upper # <<>>
    BY <1>1, <1>3, <2>1 DEF ChunkTile
  <2>3. PICK q \in Tiles : Follows(ChunkTile(mark), q)
    BY <1>1, <2>2 DEF Walkable
  <2>4. PICK d \in chunks : q = ChunkTile(d)
    BY <1>1, <2>3
  <2> QED BY <1>3, <2>3, <2>4, AdjacentFollows
<1> QED BY <1>2, <1>3, <1>4, LastIsOpen

\* However a table was cut, interrupted and cut again, every row is in the
\* WHERE clause of one chunk once all splits are done, and never in that of
\* two: for all statistics, rows and chunk sizes, when no row has a NULL in the
\* split index.  The run null_rows shows what happens to the others.
THEOREM RowsInOneChunk == ASSUME NullFree PROVE SplitSpec => []RowsOnce
<1>1. SplitInv => RowsOnce
  BY RowsOnceFromTiles
<1> QED BY <1>1, SplitInvariant, PTL

\* A checkpoint leaves no row behind: a row up to the upper bound of its chunk
\* is in a chunk that it covers, when no row has a NULL in the split index.
THEOREM CheckpointLeavesNoRow == ASSUME NullFree PROVE SplitSpec => []MarkLeavesNoRow
<1>1. SplitInv => MarkLeavesNoRow
  BY MarkFromTiles
<1> QED BY <1>1, SplitInvariant, PTL

\* The ids that both iterators give are in the order of the ranges, and no id
\* is given twice, across restarts, too.
THEOREM IdsAndRanges == SplitSpec => []IdsFollowRanges
<1>1. SplitInv => IdsFollowRanges
  BY IdsFromTiles
<1> QED BY <1>1, SplitInvariant, PTL

\* Unless a split found too few values, the checkpoint can go from chunk to
\* adjacent chunk up to the last one.
THEOREM WalkToTheEnd == SplitSpec => []WalkReachesEnd
<1>1. SplitInv => WalkReachesEnd
  BY WalkFromTiles
<1> QED BY <1>1, SplitInvariant, PTL
=============================================================================
