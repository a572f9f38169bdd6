--------------------------- MODULE ChunkRangeProofs ---------------------------
(***************************************************************************)
(* Proofs about ranges, for any number of index columns and any bounds:    *)
(* the WHERE clause of a range selects an interval of the order of keys,   *)
(* so that cutting a range at a key loses no row and doubles none.         *)
(***************************************************************************)
EXTENDS ChunkRange, WellFoundedInduction, TLAPS

Key == [Cols -> Int]
Bound == Key \cup {<<>>}

-----------------------------------------------------------------------------
(* The order of keys.                                                      *)

\* Two keys that differ have a first column in which they do.
LEMMA FirstDifference ==
    ASSUME NEW k \in Key, NEW l \in Key, k # l
    PROVE  \E i \in Cols : k[i] # l[i] /\ \A j \in 1 .. (i - 1) : k[j] = l[j]
<1> DEFINE Differ == {i \in Cols : k[i] # l[i]}
<1>1. Differ # {} /\ Differ \subseteq Nat
  <2>1. (\A i \in Cols : k[i] = l[i]) => k = l
    BY DEF Key
  <2>2. Cols \subseteq Nat
    BY ChunkRangeAssumption DEF Cols
  <2> QED BY <2>1, <2>2
<1>2. PICK i \in Differ : \A j \in Differ : <<j, i>> \notin OpToRel(<, Nat)
  <2> HIDE DEF Differ
  <2> QED BY <1>1, WFMin, NatLessThanWellFounded
<1>3. ASSUME NEW j \in 1 .. (i - 1) PROVE k[j] = l[j]
  <2>1. j \in Cols /\ j \in Nat /\ i \in Nat /\ j < i
    BY <1>1, ChunkRangeAssumption DEF Cols
  <2>2. <<j, i>> \in OpToRel(<, Nat)
    BY <2>1 DEF OpToRel
  <2> QED BY <1>2, <2>1, <2>2
<1> QED BY <1>2, <1>3

\* No key is less than itself.
LEMMA KeyLessIrreflexive == ASSUME NEW k \in Key PROVE ~KeyLess(k, k)
  BY DEF Key, KeyLess

\* KeyLess is transitive.
LEMMA KeyLessTransitive ==
    ASSUME NEW k \in Key, NEW l \in Key, NEW m \in Key, KeyLess(k, l), KeyLess(l, m)
    PROVE  KeyLess(k, m)
<1>1. PICK i \in Cols : k[i] < l[i] /\ \A j \in 1 .. (i - 1) : k[j] = l[j]
  BY DEF KeyLess
<1>2. PICK n \in Cols : l[n] < m[n] /\ \A j \in 1 .. (n - 1) : l[j] = m[j]
  BY DEF KeyLess
<1>3. i \in Nat /\ n \in Nat /\ i >= 1 /\ n >= 1
  BY ChunkRangeAssumption DEF Cols
<1>4. \A j \in Cols : k[j] \in Int /\ l[j] \in Int /\ m[j] \in Int
  BY DEF Key
<1>5. CASE i < n
  <2>1. l[i] = m[i] /\ \A j \in 1 .. (i - 1) : l[j] = m[j]
    BY <1>2, <1>3, <1>5
  <2> QED BY <1>1, <2>1 DEF KeyLess
<1>6. CASE i = n
  <2>1. k[i] < m[i]
    BY <1>1, <1>2, <1>4, <1>6
  <2> QED BY <1>1, <1>2, <1>6, <2>1 DEF KeyLess
<1>7. CASE n < i
  <2>1. k[n] = l[n] /\ \A j \in 1 .. (n - 1) : k[j] = l[j]
    BY <1>1, <1>3, <1>7
  <2> QED BY <1>2, <2>1 DEF KeyLess
<1> QED BY <1>3, <1>5, <1>6, <1>7

\* Of two keys one is less, or they are the same; both cannot be.
LEMMA KeyLessTotal ==
    ASSUME NEW k \in Key, NEW l \in Key
    PROVE  /\ k = l \/ KeyLess(k, l) \/ KeyLess(l, k)
           /\ KeyLess(k, l) => ~KeyLess(l, k) /\ k # l
<1>1. k = l \/ KeyLess(k, l) \/ KeyLess(l, k)
  <2> SUFFICES ASSUME k # l PROVE KeyLess(k, l) \/ KeyLess(l, k)
    OBVIOUS
  <2>1. PICK i \in Cols : k[i] # l[i] /\ \A j \in 1 .. (i - 1) : k[j] = l[j]
    BY FirstDifference
  <2>2. k[i] < l[i] \/ l[i] < k[i]
    <3>1. k[i] \in Int /\ l[i] \in Int
      BY DEF Key
    <3> QED BY <2>1, <3>1
  <2>3. \A j \in 1 .. (i - 1) : l[j] = k[j]
    BY <2>1
  <2>4. CASE k[i] < l[i]
    BY <2>1, <2>4 DEF KeyLess
  <2>5. CASE l[i] < k[i]
    BY <2>3, <2>5 DEF KeyLess
  <2> QED BY <2>2, <2>4, <2>5
<1> QED BY <1>1, KeyLessTransitive, KeyLessIrreflexive

-----------------------------------------------------------------------------
(* The WHERE clause.                                                       *)

\* The greatest of a set of lengths is there.
LEMMA MaxIsThere ==
    ASSUME NEW n \in Nat, NEW S \in SUBSET (0 .. n), S # {}
    PROVE  Max(S) \in S /\ \A y \in S : y <= Max(S)
<1> DEFINE Rest == {n - x : x \in S}
<1>1. Rest # {} /\ Rest \subseteq Nat
  <2>1. \A x \in S : x \in Nat /\ x <= n
    OBVIOUS
  <2>2. \A x \in S : n - x \in Nat
    BY <2>1
  <2> QED BY <2>2
<1>2. PICK d \in Rest : \A e \in Rest : <<e, d>> \notin OpToRel(<, Nat)
  <2> HIDE DEF Rest
  <2> QED BY <1>1, WFMin, NatLessThanWellFounded
<1>3. PICK x \in S : d = n - x
  OBVIOUS
<1>4. ASSUME NEW y \in S PROVE x >= y
  <2>1. n - y \in Rest /\ n - y \in Nat /\ d \in Nat
    BY <1>1
  <2>2. ~(n - y < d)
    <3> HIDE DEF Rest
    <3>1. n - y < d => <<n - y, d>> \in OpToRel(<, Nat)
      BY <2>1 DEF OpToRel
    <3> QED BY <1>2, <2>1, <3>1
  <2> QED BY <1>3, <2>2
<1>5. \E z \in S : \A y \in S : z >= y
  BY <1>4
<1>6. Max(S) \in S /\ \A y \in S : Max(S) >= y
  BY <1>5 DEF Max
<1> QED BY <1>6

\* sameCondition stops at the first column in which the bounds differ.
LEMMA SameLenStops ==
    ASSUME NEW l \in Key, NEW u \in Key, NEW r, r.lower = l, r.upper = u
    PROVE  LET n == SameLen(r)
           IN  /\ n \in 0 .. NCols
               /\ \A j \in 1 .. n : l[j] = u[j]
               /\ n < NCols <=> l # u
               /\ n < NCols => l[n + 1] # u[n + 1]
<1> DEFINE S == {m \in 0 .. NCols : \A j \in 1 .. m : r.lower[j] = r.upper[j]}
           n == SameLen(r)
<1>1. NCols \in Nat /\ NCols >= 1 /\ DOMAIN l = 1 .. NCols /\ DOMAIN u = 1 .. NCols
  BY ChunkRangeAssumption DEF Key, Cols
<1>2. l # <<>> /\ u # <<>>
  <2>1. 1 \in DOMAIN l /\ 1 \in DOMAIN u
    BY <1>1
  <2> QED BY <2>1
<1>3. n = Max(S)
  BY <1>2 DEF SameLen
<1>4. 0 \in S /\ S \in SUBSET (0 .. NCols)
  BY <1>1
<1>5. n \in S /\ \A m \in S : m <= n
  <2> HIDE DEF S, n
  <2> QED BY <1>1, <1>3, <1>4, MaxIsThere
<1>6. n \in 0 .. NCols /\ \A j \in 1 .. n : l[j] = u[j]
  BY <1>5
<1>7. ASSUME n < NCols PROVE l[n + 1] # u[n + 1]
  <2> SUFFICES ASSUME l[n + 1] = u[n + 1] PROVE FALSE
    OBVIOUS
  <2>1. \A j \in 1 .. (n + 1) : j \in 1 .. n \/ j = n + 1
    BY <1>6
  <2>2. n + 1 \in 0 .. NCols
    BY <1>1, <1>6, <1>7
  <2>3. n + 1 \in S
    BY <1>6, <2>1, <2>2
  <2> HIDE DEF S, n
  <2> QED BY <1>5, <1>6, <2>3
<1>8. n < NCols <=> l # u
  <2>1. ASSUME ~(n < NCols) PROVE l = u
    <3>1. n = NCols
      BY <1>1, <1>6, <2>1
    <3>2. \A j \in Cols : l[j] = u[j]
      BY <1>6, <3>1 DEF Cols
    <3> QED BY <3>2 DEF Key
  <2>2. ASSUME n < NCols PROVE l # u
    BY <1>7, <2>2
  <2> QED BY <2>1, <2>2
<1> QED BY <1>6, <1>7, <1>8

\* Without common columns the conditions are those of the order.
LEMMA ConditionsAreOrder ==
    ASSUME NEW r, r.lower \in Bound, r.upper \in Bound, NEW k \in Key
    PROVE  /\ AboveLower(r, k, 1) <=> (r.lower # <<>> => KeyLess(r.lower, k))
           /\ BelowUpper(r, k, 1) <=> (r.upper # <<>> => KeyLeq(k, r.upper))
<1>1. NCols \in Nat /\ NCols >= 1 /\ \A j \in Cols : k[j] \in Int /\ k[j] # Null
  BY ChunkRangeAssumption DEF Key
<1>2. ASSUME r.lower \in Key PROVE AboveLower(r, k, 1) <=> (r.lower # <<>> => KeyLess(r.lower, k))
  <2>1. \A j \in Cols : r.lower[j] \in Int /\ (Eq(k[j], r.lower[j]) <=> r.lower[j] = k[j])
                        /\ (Gt(k[j], r.lower[j]) <=> r.lower[j] < k[j])
    BY <1>1, <1>2 DEF Eq, Gt, Key
  <2>2. \A i \in Cols : \A j \in 1 .. (i - 1) : j \in Cols
    BY <1>1 DEF Cols
  <2> QED BY <2>1, <2>2 DEF AboveLower, KeyLess, Cols
<1>3. ASSUME r.upper \in Key PROVE BelowUpper(r, k, 1) <=> (r.upper # <<>> => KeyLeq(k, r.upper))
  <2>1. \A j \in Cols : r.upper[j] \in Int /\ (Eq(k[j], r.upper[j]) <=> k[j] = r.upper[j])
                        /\ (Lt(k[j], r.upper[j]) <=> k[j] < r.upper[j])
    BY <1>1, <1>3 DEF Eq, Lt, Key
  <2>2. \A i \in Cols : \A j \in 1 .. (i - 1) : j \in Cols
    BY <1>1 DEF Cols
  <2>3. k = r.upper <=> \A j \in Cols : k[j] = r.upper[j]
    BY <1>3 DEF Key
  <2>4. NCols \in Cols /\ \A j \in Cols : j = NCols \/ j \in 1 .. (NCols - 1)
    BY <1>1 DEF Cols
  <2>5. ASSUME r.upper # <<>>, BelowUpper(r, k, 1) PROVE KeyLeq(k, r.upper)
    <3>1. PICK i \in Cols :
            /\ \A j \in 1 .. (i - 1) : Eq(k[j], r.upper[j])
            /\ Lt(k[i], r.upper[i]) \/ (i = NCols /\ Eq(k[i], r.upper[i]))
      BY <2>5 DEF BelowUpper, Cols
    <3>2. \A j \in 1 .. (i - 1) : k[j] = r.upper[j]
      BY <2>1, <2>2, <3>1
    <3>3. CASE Lt(k[i], r.upper[i])
      BY <2>1, <3>2, <3>3 DEF KeyLeq, KeyLess
    <3>4. CASE i = NCols /\ Eq(k[i], r.upper[i])
      BY <2>1, <2>3, <2>4, <3>2, <3>4 DEF KeyLeq
    <3> QED BY <3>1, <3>3, <3>4
  <2>6. ASSUME KeyLeq(k, r.upper) PROVE BelowUpper(r, k, 1)
    <3>1. CASE k = r.upper
      <4>1. /\ \A j \in 1 .. (NCols - 1) : Eq(k[j], r.upper[j])
            /\ Eq(k[NCols], r.upper[NCols])
        BY <2>1, <2>2, <2>3, <2>4, <3>1
      <4> QED BY <2>4, <4>1 DEF BelowUpper, Cols
    <3>2. CASE KeyLess(k, r.upper)
      <4>1. PICK i \in Cols : k[i] < r.upper[i] /\ \A j \in 1 .. (i - 1) : k[j] = r.upper[j]
        BY <3>2 DEF KeyLess
      <4>2. Lt(k[i], r.upper[i]) /\ \A j \in 1 .. (i - 1) : Eq(k[j], r.upper[j])
        BY <2>1, <2>2, <4>1
      <4> QED BY <4>2 DEF BelowUpper, Cols
    <3> QED BY <2>6, <3>1, <3>2 DEF KeyLeq
  <2>7. CASE r.upper = <<>>
    BY <2>7 DEF BelowUpper
  <2> QED BY <2>5, <2>6, <2>7
<1>4. CASE r.lower = <<>> /\ r.upper = <<>>
  BY <1>4 DEF AboveLower, BelowUpper
<1> QED BY <1>2, <1>3 DEF AboveLower, BelowUpper, Bound

\* What Range.ToString says of a row without NULLs: it is above the lower bound
\* and not above the upper, in the order of keys, although the clause first
\* takes out the columns on which both bounds agree.
THEOREM ClauseIsInterval ==
    ASSUME NEW r, r.lower \in Bound, r.upper \in Bound, NEW k \in Key
    PROVE  Selects(r, k) <=> /\ r.lower # <<>> => KeyLess(r.lower, k)
                             /\ r.upper # <<>> => KeyLeq(k, r.upper)
<1>1. NCols \in Nat /\ NCols >= 1 /\ \A j \in Cols : k[j] \in Int /\ k[j] # Null
  BY ChunkRangeAssumption DEF Key
<1>2. CASE r.lower = <<>> \/ r.upper = <<>>
  <2>1. SameLen(r) = 0
    BY <1>2 DEF SameLen
  <2>2. Selects(r, k) <=> AboveLower(r, k, 1) /\ BelowUpper(r, k, 1)
    BY <1>1, <2>1 DEF Selects
  <2> QED BY <2>2, ConditionsAreOrder
<1>3. CASE r.lower \in Key /\ r.upper \in Key
  <2> DEFINE l == r.lower
             u == r.upper
             n == SameLen(r)
  <2>0. l \in Key /\ u \in Key
    BY <1>3
  <2> HIDE DEF l, u, n
  <2>1. /\ n \in 0 .. NCols
        /\ \A j \in 1 .. n : l[j] = u[j]
        /\ n < NCols <=> l # u
        /\ n < NCols => l[n + 1] # u[n + 1]
    BY <2>0, SameLenStops DEF l, u, n
  <2>2. l # <<>> /\ u # <<>>
    <3>1. 1 \in DOMAIN l /\ 1 \in DOMAIN u
      BY <1>1, <2>0 DEF Key, Cols
    <3> QED BY <3>1
  <2>3. \A j \in Cols : /\ l[j] \in Int /\ u[j] \in Int
                        /\ Eq(k[j], l[j]) <=> k[j] = l[j]
                        /\ Eq(k[j], u[j]) <=> k[j] = u[j]
                        /\ Gt(k[j], l[j]) <=> l[j] < k[j]
                        /\ Lt(k[j], u[j]) <=> k[j] < u[j]
    BY <1>1, <2>0 DEF Eq, Gt, Lt, Key
  <2>4. Selects(r, k) <=>
           /\ n < NCols
           /\ \A j \in 1 .. n : Eq(k[j], l[j])
           /\ \E i \in (n + 1) .. NCols :
                 /\ \A j \in (n + 1) .. (i - 1) : Eq(k[j], l[j])
                 /\ Gt(k[i], l[i])
           /\ \E i \in (n + 1) .. NCols :
                 /\ \A j \in (n + 1) .. (i - 1) : Eq(k[j], u[j])
                 /\ Lt(k[i], u[i]) \/ (i = NCols /\ Eq(k[i], u[i]))
    BY <2>2 DEF Selects, AboveLower, BelowUpper, l, u, n
  <2>5. ASSUME Selects(r, k) PROVE KeyLess(l, k) /\ KeyLeq(k, u)
    <3>1. n < NCols /\ \A j \in 1 .. n : j \in Cols /\ k[j] = l[j] /\ k[j] = u[j]
      <4>1. \A j \in 1 .. n : j \in Cols
        BY <1>1, <2>1 DEF Cols
      <4> QED BY <2>1, <2>3, <2>4, <2>5, <4>1
    <3>2. PICK i \in (n + 1) .. NCols :
             (\A j \in (n + 1) .. (i - 1) : Eq(k[j], l[j])) /\ Gt(k[i], l[i])
      BY <2>4, <2>5
    <3>3. PICK m \in (n + 1) .. NCols :
             /\ \A j \in (n + 1) .. (m - 1) : Eq(k[j], u[j])
             /\ Lt(k[m], u[m]) \/ (m = NCols /\ Eq(k[m], u[m]))
      BY <2>4, <2>5
    <3>4. KeyLess(l, k)
      <4>1. i \in Cols /\ \A j \in 1 .. (i - 1) : j \in Cols /\ (j \in 1 .. n \/ j \in (n + 1) .. (i - 1))
        BY <1>1, <2>1 DEF Cols
      <4>2. l[i] < k[i] /\ \A j \in 1 .. (i - 1) : l[j] = k[j]
        BY <2>3, <3>1, <3>2, <4>1
      <4> QED BY <4>1, <4>2 DEF KeyLess
    <3>5. m \in Cols /\ \A j \in 1 .. (m - 1) : j \in Cols /\ (j \in 1 .. n \/ j \in (n + 1) .. (m - 1))
      BY <1>1, <2>1 DEF Cols
    <3>6. \A j \in 1 .. (m - 1) : k[j] = u[j]
      BY <2>3, <3>1, <3>3, <3>5
    <3>7. CASE Lt(k[m], u[m])
      BY <2>3, <3>4, <3>5, <3>6, <3>7 DEF KeyLeq, KeyLess
    <3>8. CASE m = NCols /\ Eq(k[m], u[m])
      <4>1. \A j \in Cols : j = m \/ j \in 1 .. (m - 1)
        BY <1>1, <3>8 DEF Cols
      <4>2. \A j \in Cols : k[j] = u[j]
        BY <2>3, <3>5, <3>6, <3>8, <4>1
      <4>3. k = u
        BY <2>0, <4>2 DEF Key
      <4> QED BY <3>4, <4>3 DEF KeyLeq
    <3> QED BY <3>3, <3>4, <3>7, <3>8
  <2>6. ASSUME KeyLess(l, k), KeyLeq(k, u) PROVE Selects(r, k)
    <3>1. l # u
      BY <2>0, <2>6, KeyLessTotal DEF KeyLeq
    <3>2. PICK i \in Cols : l[i] < k[i] /\ \A j \in 1 .. (i - 1) : l[j] = k[j]
      BY <2>6 DEF KeyLess
    <3>3. n < NCols /\ n \in Nat /\ i \in Nat
      BY <1>1, <2>1, <3>1 DEF Cols
    <3>4. i > n
      <4> SUFFICES ASSUME i <= n PROVE FALSE
        BY <3>3
      <4>1. i \in 1 .. n /\ \A j \in 1 .. (i - 1) : j \in 1 .. n
        BY <1>1, <3>3 DEF Cols
      <4>2. u[i] < k[i] /\ \A j \in 1 .. (i - 1) : u[j] = k[j]
        BY <2>1, <3>2, <4>1
      <4>3. KeyLess(u, k)
        BY <4>2 DEF KeyLess
      <4> QED BY <2>0, <2>6, <4>3, KeyLessTotal DEF KeyLeq
    <3>5. \A j \in 1 .. n : j \in Cols /\ j \in 1 .. (i - 1) /\ k[j] = l[j] /\ k[j] = u[j]
      BY <1>1, <2>1, <3>2, <3>3, <3>4 DEF Cols
    <3>6. i \in (n + 1) .. NCols /\ \A j \in (n + 1) .. (i - 1) : j \in Cols /\ j \in 1 .. (i - 1)
      BY <1>1, <3>3, <3>4 DEF Cols
    <3>7. Gt(k[i], l[i]) /\ \A j \in (n + 1) .. (i - 1) : Eq(k[j], l[j])
      BY <2>3, <3>2, <3>6
    <3>8. \A j \in 1 .. n : Eq(k[j], l[j])
      BY <2>3, <3>5
    <3>9. \E m \in (n + 1) .. NCols :
             /\ \A j \in (n + 1) .. (m - 1) : Eq(k[j], u[j])
             /\ Lt(k[m], u[m]) \/ (m = NCols /\ Eq(k[m], u[m]))
      <4>1. CASE k = u
        <5>1. NCols \in (n + 1) .. NCols /\ \A j \in (n + 1) .. NCols : j \in Cols
          BY <1>1, <3>3 DEF Cols
        <5>2. \A j \in (n + 1) .. NCols : Eq(k[j], u[j])
          BY <2>3, <4>1, <5>1
        <5>3. \A j \in (n + 1) .. (NCols - 1) : j \in (n + 1) .. NCols
          BY <1>1, <3>3
        <5> QED BY <5>1, <5>2, <5>3
      <4>2. CASE KeyLess(k, u)
        <5>1. PICK m \in Cols : k[m] < u[m] /\ \A j \in 1 .. (m - 1) : k[j] = u[j]
          BY <4>2 DEF KeyLess
        <5>2. m \notin 1 .. n
          BY <2>3, <3>5, <5>1
        <5>3. m \in (n + 1) .. NCols /\ \A j \in (n + 1) .. (m - 1) : j \in Cols /\ j \in 1 .. (m - 1)
          BY <1>1, <3>3, <5>2 DEF Cols
        <5>4. Lt(k[m], u[m]) /\ \A j \in (n + 1) .. (m - 1) : Eq(k[j], u[j])
          BY <2>3, <5>1, <5>3
        <5> QED BY <5>3, <5>4
      <4> QED BY <2>6, <4>1, <4>2 DEF KeyLeq
    <3> QED BY <2>4, <3>3, <3>6, <3>7, <3>8, <3>9
  <2> QED BY <2>2, <2>5, <2>6 DEF l, u
<1> QED BY <1>2, <1>3 DEF Bound

\* Cutting a range at a key, as the splitters and binSearch do, puts every row
\* of the range without NULLs into exactly one half, and no other row into any.
THEOREM CutPartitions ==
    ASSUME NEW r, r.lower \in Bound, r.upper \in Bound, NEW mid \in Key, Selects(r, mid),
           NEW a, a.lower = r.lower, a.upper = mid,
           NEW b, b.lower = mid, b.upper = r.upper,
           NEW k \in Key
    PROVE  /\ Selects(r, k) <=> Selects(a, k) \/ Selects(b, k)
           /\ ~(Selects(a, k) /\ Selects(b, k))
<1>1. mid # <<>> /\ mid \in Bound
  <2>1. 1 \in DOMAIN mid
    BY ChunkRangeAssumption DEF Key, Cols
  <2> QED BY <2>1 DEF Bound
<1>2. Selects(r, k) <=> /\ r.lower # <<>> => KeyLess(r.lower, k)
                        /\ r.upper # <<>> => KeyLeq(k, r.upper)
  BY ClauseIsInterval
<1>3. Selects(a, k) <=> (r.lower # <<>> => KeyLess(r.lower, k)) /\ KeyLeq(k, mid)
  BY <1>1, ClauseIsInterval
<1>4. Selects(b, k) <=> KeyLess(mid, k) /\ (r.upper # <<>> => KeyLeq(k, r.upper))
  BY <1>1, ClauseIsInterval
<1>5. /\ r.lower # <<>> => r.lower \in Key /\ KeyLess(r.lower, mid)
      /\ r.upper # <<>> => r.upper \in Key /\ KeyLeq(mid, r.upper)
  BY ClauseIsInterval DEF Bound
<1>6. KeyLeq(k, mid) <=> ~KeyLess(mid, k)
  BY KeyLessTotal DEF KeyLeq
<1>7. r.lower # <<>> /\ KeyLess(mid, k) => KeyLess(r.lower, k)
  BY <1>5, KeyLessTransitive
<1>8. r.upper # <<>> /\ KeyLeq(k, mid) => KeyLeq(k, r.upper)
  BY <1>5, KeyLessTransitive DEF KeyLeq
<1> QED BY <1>2, <1>3, <1>4, <1>6, <1>7, <1>8
=============================================================================
