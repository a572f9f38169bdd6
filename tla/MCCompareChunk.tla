--------------------------- MODULE MCCompareChunk ---------------------------
(***************************************************************************)
(* Small chunks: one key column of four values and one other column.       *)
(***************************************************************************)
EXTENDS CompareChunk, TLC

CONSTANTS s1, s2

SmallKeys == {<<k>> : k \in 1 .. 4}

\* The table with the rows f gives for some of the keys.
TableOf(f) == [r \in Row |-> IF r.key \in DOMAIN f /\ f[r.key] = r.val THEN 1 ELSE 0]
TablesOn(L, V) == {TableOf(f) : f \in UNION {[K -> V] : K \in SUBSET L}}
TablesOver(V) == TablesOn(Keys, V)

\* Values are only compared for equality when there is a unique key, so the
\* upstream's may be fixed.  Rows of two shards alternate or do not.
Homes == {[k \in Keys |-> s1], [k \in Keys |-> IF k[1] % 2 = 0 THEN s2 ELSE s1]}
Placed(t, home) == [s \in Shards |-> [r \in Row |-> IF home[r.key] = s THEN t[r] ELSE 0]]

KeyedDatabases ==
    {[tidb |-> {"down"}, schema |-> sc, fields |-> Whole, up |-> Placed(t, home), down |-> d] :
        sc \in {"split", "order"}, t \in TablesOver({0}), home \in Homes, d \in TablesOver(Vals)}

\* The upstream is a TiDB cluster and the downstream is not, or is one too.
ClusterDatabases ==
    {[tidb |-> c, schema |-> "split", fields |-> Whole, up |-> Placed(t, [k \in Keys |-> s1]), down |-> d] :
        c \in {{"up"}, {"up", "down"}}, t \in TablesOver({0}), d \in TablesOver({0})}

\* Up to two copies of three rows, of which two share the key column.
FewRows == {r \in Row : r.key[1] <= 2 /\ r.val <= 2 - r.key[1]}
Bags == {[r \in Row |-> IF r \in FewRows THEN b[r] ELSE 0] : b \in [FewRows -> 0 .. 2]}

UnkeyedDatabases ==
    {[tidb |-> {"down"}, schema |-> "none", fields |-> Whole, up |-> (s1 :> t @@ s2 :> u), down |-> d] :
        t \in {b \in Bags : Count(b) <= 2}, u \in {b \in Bags : Count(b) <= 1},
        d \in {b \in Bags : Count(b) <= 3}}

\* The first, a middle and the last random chunk of a table, with the rows
\* of the other chunks.
FieldRanges ==
    {[lower |-> <<>>, upper |-> <<1>>], [lower |-> <<0>>, upper |-> <<1>>],
     [lower |-> <<0>>, upper |-> <<>>]}
FieldDatabases ==
    {[tidb |-> {"down"}, schema |-> "fields", fields |-> f,
      up |-> Placed(t, [k \in Keys |-> s1]), down |-> d] :
        f \in FieldRanges, t \in TablesOn({<<k>> : k \in 1 .. 3}, Vals),
        d \in TablesOn({<<k>> : k \in 1 .. 3}, Vals)}

SmallDatabases ==
    KeyedDatabases \cup UnkeyedDatabases \cup ClusterDatabases \cup FieldDatabases
=============================================================================
