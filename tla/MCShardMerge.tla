---------------------------- MODULE MCShardMerge ----------------------------
(***************************************************************************)
(* Small rules, names and tables.  A name is a letter and up to two more   *)
(* characters; the letters are 10 and 11, and 195 and 169 are the bytes of *)
(* one letter outside ASCII.                                               *)
(***************************************************************************)
EXTENDS ShardMerge

a == 10
b == 11
wide == <<195, 169>>
Lit(name) == [i \in DOMAIN name |-> Char(name[i])]
notB == RangeItem(TRUE, {<<b, b>>})
aOrB == RangeItem(FALSE, {<<a, b>>})

-----------------------------------------------------------------------------
\* Rules with each kind of item, two for one pattern, and two that the trie
\* refuses: an asterisk is followed by a letter.
FilterRule(schema, table, events, sql, action) ==
    [schema |-> schema, table |-> table, events |-> events, hasSQL |-> sql # {},
     sql |-> sql, action |-> action]

SmallFilterRules ==
    {FilterRule(<<Char(a)>>, <<>>, <<"all dml">>, {}, "Ignore"),
     FilterRule(<<Char(a)>>, <<>>, <<"none dml", "all">>, {"q"}, "Do"),
     FilterRule(<<asterisk>>, <<aOrB, asterisk>>, <<"incompatible ddl changes">>, {}, "Error"),
     FilterRule(<<notB>>, <<question>>, <<"insert">>, {"q"}, "Ignore"),
     FilterRule(<<asterisk, Char(a)>>, <<Char(a)>>, <<"all">>, {}, "Ignore"),
     FilterRule(<<question>>, <<asterisk, Char(a)>>, <<"all">>, {}, "Ignore")}

SmallEvents == {"insert", "update", "alter table", "drop table", "null"}
SmallAsked == {<<<<a>>, <<a>>>>, <<<<a>>, <<b, a>>>>, <<<<b>>, <<>>>>}

-----------------------------------------------------------------------------
\* Partition rules over shards of one letter and a number, a rule that only
\* adds a prefix and one for a whole schema.
MapRule(schema, table, column, expr, args) ==
    [schema |-> schema, table |-> table, column |-> column, expr |-> expr, args |-> args]

SmallMappingRules ==
    {MapRule(<<Char(a), asterisk>>, <<Char(b), asterisk>>, "id", "partition id", <<<<1>>, <<a>>, <<b>>, <<>>>>),
     MapRule(<<question>>, <<Char(b), question>>, "id", "partition id", <<<<>>, <<a>>, <<b>>, <<>>>>),
     MapRule(<<Char(a)>>, <<>>, "name", "add prefix", <<<<>>, <<>>, <<>>, <<>>>>)}

SmallMapped == {<<<<a>>, <<b>>>>, <<<<a>>, <<b, 1>>>>, <<<<a, 1>>, <<b, 1>>>>}

-----------------------------------------------------------------------------
\* Filters: every way to choose one or two entries for the lists from a few
\* patterns, globs and regular expressions.
PlainA == Plain(<<Char(a)>>)
PlainAny == Plain(<<asterisk>>)
ReA == Regex({<<a>>})
ReB == Regex({<<b>>})
Entry(schema, table) == [schema |-> schema, table |-> table]

DBChoices == {{}, {PlainA}, {ReA}, {Plain(<<Char(b)>>), ReA}}
TableChoices ==
    {{}} \cup {{Entry(p, q)} : p \in {PlainA, PlainAny, ReA}, q \in {PlainA, ReA}}
         \cup {{Entry(PlainA, PlainA), Entry(ReA, Plain(<<Char(b)>>))},
               {Entry(ReA, PlainA), Entry(ReB, Plain(<<Char(b), asterisk>>))},
               {Entry(PlainA, ReA), Entry(PlainAny, Plain(<<Char(b)>>))},
               {Entry(PlainA, Plain(Lit(wide)))}, {Entry(PlainA, Plain(<<question, question>>))}}

SmallRuleSets ==
    [DoDBs : DBChoices, DoTables : TableChoices, IgnoreDBs : DBChoices, IgnoreTables : TableChoices]

SmallRoutes ==
    {[schema |-> PlainA, table |-> NoTable, target |-> <<<<b>>, <<>>>>],
     [schema |-> PlainAny, table |-> PlainA, target |-> <<<<b>>, <<b>>>>],
     [schema |-> ReA, table |-> Regex({<<a>>, <<b>>}), target |-> <<<<a>>, <<b>>>>],
     [schema |-> PlainA, table |-> Plain(Lit(wide)), target |-> <<<<b>>, <<b>>>>],
     [schema |-> ReA, table |-> NoTable, target |-> <<<<>>, <<>>>>]}

SmallRouted == {<<s, t>> : s \in {<<a>>, <<b>>}, t \in {<<>>, <<a>>, <<b>>, wide}}

-----------------------------------------------------------------------------
\* Tables: a column of every type against every other, and tables of up to two
\* columns with every kind of key.
Column(tp, flen, notNull, flags, default, elems) ==
    [tp |-> tp, flen |-> flen, dec |-> 0, fixed |-> "", notNull |-> notNull, flags |-> flags,
     default |-> default, elems |-> elems]

NullInt == Column("Long", 11, FALSE, {}, <<>>, <<>>)
NoDefaultInt == Column("Long", 11, TRUE, {"nodefault"}, <<>>, <<>>)
Counter == Column("Long", 11, TRUE, {"auto"}, <<>>, <<>>)

Types ==
    {Column(tp, 11, FALSE, {}, <<>>, <<>>) : tp \in {"Tiny", "Short", "Long", "Longlong", "Int24"}}
    \cup {Column(tp, 0, FALSE, {}, <<>>, <<>>) : tp \in {"TinyBlob", "Blob", "MediumBlob", "LongBlob"}}
    \cup {Column("NewDecimal", n, FALSE, {}, <<>>, <<>>) : n \in {5, 6}}
    \cup {Column("Enum", 0, TRUE, {"nodefault"}, <<>>, e) : e \in {<<"x">>, <<"x", "y">>, <<"y">>}}
    \cup {Column("Varchar", 8, TRUE, {}, <<"v">>, <<>>), Column("Long", 12, TRUE, {}, <<"5">>, <<>>)}

Index(cols, unique, primary) == [cols |-> cols, unique |-> unique, primary |-> primary]

Structure(columns, indices, handle) ==
    [columns |-> columns, indices |-> indices, handle |-> handle, autoIncID |-> Len(handle),
     fixed |-> ""]

AColumns == {("a" :> c) : c \in {NullInt, NoDefaultInt, Counter}}
ABColumns == {("a" :> c) @@ ("b" :> d) : c \in {NullInt, Counter}, d \in {NullInt, NoDefaultInt}}

AIndices ==
    {<<>>, "k" :> Index(<<"a">>, TRUE, FALSE), "k" :> Index(<<"a">>, FALSE, FALSE),
     "primary" :> Index(<<"a">>, TRUE, TRUE),
     ("k" :> Index(<<"a">>, FALSE, FALSE)) @@ ("l" :> Index(<<"a">>, TRUE, FALSE))}
ABIndices ==
    {<<>>, "k" :> Index(<<"a">>, TRUE, FALSE), "k" :> Index(<<"a", "b">>, TRUE, FALSE),
     ("k" :> Index(<<"a">>, TRUE, FALSE)) @@ ("l" :> Index(<<"a">>, TRUE, FALSE)),
     ("k" :> Index(<<"b">>, TRUE, FALSE)) @@ ("l" :> Index(<<"a">>, FALSE, FALSE))}

\* Tables that the database accepts: a column of the primary key is not null,
\* and one that counts up is the first of some key.
Accepted(ti) ==
    /\ \A k \in DOMAIN AllIndices(ti) : AllIndices(ti)[k].primary =>
        \A c \in Range(AllIndices(ti)[k].cols) : ti.columns[c].notNull
    /\ \A c \in DOMAIN ti.columns : "auto" \in ti.columns[c].flags =>
        \E k \in DOMAIN AllIndices(ti) : AllIndices(ti)[k].cols[1] = c

SmallTables ==
    {Structure("t" :> c, <<>>, <<>>) : c \in Types}
    \cup {ti \in {Structure(c, i, <<>>) : c \in AColumns, i \in AIndices}
                 \cup {Structure(c, i, <<>>) : c \in ABColumns, i \in ABIndices}
                 \cup {Structure(c, <<>>, <<"a">>) : c \in AColumns \cup ABColumns} : Accepted(ti)}
=============================================================================
