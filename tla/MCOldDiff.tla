----------------------------- MODULE MCOldDiff ------------------------------
(***************************************************************************)
(* Small tables for the old library: two index columns of a few values,    *)
(* keys 1 to 3 in two sources, ordered by the code as by the queries or    *)
(* not, unique or not, and two chunks of which none or the second differs. *)
(***************************************************************************)
EXTENDS OldCheck

\* Tables of four and of six rows, one with a NULL, without statistics and
\* with buckets that are passed over, taken whole and split.
SmallRows == {{<<0, 1>>, <<1, 0>>, <<1, 2>>, <<2, 1>>},
              {<<0, 0>>, <<0, 2>>, <<1, 1>>, <<2, 0>>, <<2, 2>>},
              {<<0, 1>>, <<1, Null>>, <<2, 0>>, <<2, 1>>}}
Buckets(n) == {b \in [1 .. n -> [count : {1, 2, 4, 6}, upper : {<<0, 1>>, <<1, 1>>, <<2, 0>>}]] :
                \A i \in 1 .. n - 1 : b[i].count < b[i + 1].count /\ KeyLess(b[i].upper, b[i + 1].upper)}
SmallTables == [rows : SmallRows, buckets : Buckets(0) \cup Buckets(1) \cup Buckets(2) \cup Buckets(3)]

\* Rows of one copy each, of keys that the code orders as num says.
Identity == <<1, 2, 3>>
AsRows(f, num) == {[at |-> k, num |-> num[k], val |-> f[k], copy |-> 1] : k \in DOMAIN f}
Spread(f, num, left) ==
    ("s1" :> AsRows(Restrict(f, DOMAIN f \cap left), num)) @@ ("s2" :> AsRows(Restrict(f, DOMAIN f \ left), num))
Lefts == {{}, {1}, {1, 2}, {1, 3}}

\* Every way to spread keys 1 to 3 over two sources, up to their order, against
\* every target.
Sides == UNION {[keys -> {"x", "y"}] : keys \in SUBSET (1 .. 3)}
Plain == {f \in Sides : \A k \in DOMAIN f : f[k] = "x"}
OrderedData ==
    {[source |-> Spread(f, Identity, left), target |-> AsRows(g, Identity), single |-> 1 .. 3] :
        f \in Plain, g \in Sides, left \in Lefts}

\* Strings that the collation orders a, B, C and their bytes B, C, a.
BytesData ==
    {[source |-> Spread(f, <<3, 1, 2>>, left), target |-> AsRows(g, <<3, 1, 2>>), single |-> 1 .. 3] :
        f \in Plain, g \in Plain, left \in Lefts}

\* Numbers of which the first two are the same float.
FloatsData ==
    {[source |-> Spread(f, <<1, 1, 2>>, left), target |-> AsRows(g, <<1, 1, 2>>), single |-> 1 .. 3] :
        f \in Plain, g \in Plain, left \in Lefts}

\* A table without a unique key: copies of one row, and another row.
CopiesOf(k, copies) == {[at |-> k, num |-> k, val |-> "x", copy |-> n] : n \in copies}
CopiesData ==
    {[source |-> ("s1" :> CopiesOf(1, 1 .. i)) @@ ("s2" :> CopiesOf(1, i + 1 .. i + j) \cup CopiesOf(2, 1 .. k)),
      target |-> CopiesOf(1, 1 .. l) \cup CopiesOf(2, 1 .. m), single |-> {}] :
        i \in 0 .. 1, j \in 0 .. 1, k \in 0 .. 1, l \in 0 .. 2, m \in 0 .. 1}

\* One key in both sources.
SharedData ==
    {[source |-> ("s1" :> AsRows(f, Identity)) @@ ("s2" :> AsRows(h, Identity)),
      target |-> AsRows(g, Identity), single |-> 1 .. 3] :
        f \in {(1 :> "x") @@ (2 :> "x")}, h \in {1 :> "y", 2 :> "y"}, g \in Sides}

SmallData == OrderedData \cup BytesData \cup FloatsData \cup CopiesData \cup SharedData
=============================================================================
