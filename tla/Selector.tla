------------------------------ MODULE Selector ------------------------------
(***************************************************************************)
(* The trie of rules that the filters, the routers and the column mapping  *)
(* search (pkg/table-rule-selector/trie_selector.go).                      *)
(*                                                                         *)
(* A name is the sequence of its bytes in UTF-8, and a pattern a sequence  *)
(* of items for a byte: what getRangeItem parses is given, a bracket that  *)
(* is not closed being a character.  An item of the trie is known by the   *)
(* path that leads to it, the pattern read so far; a trie is its paths in  *)
(* the order they were made, and the rules each one holds (no rule is the  *)
(* empty sequence).  The names are not empty, except that of the table of  *)
(* a schema event.                                                         *)
(***************************************************************************)
EXTENDS Integers, Sequences, SequencesExt, FiniteSets

CONSTANT MaxCacheNum    \* maxCacheNum

asterisk == [is |-> "asterisk"]
question == [is |-> "question"]
Char(c) == [is |-> "char", c |-> c]

\* A range item: the intervals of bytes it lists, and whether it excludes them.
RangeItem(not, rans) == [is |-> "range", not |-> not, rans |-> rans]

\* matchChar, and what the other items accept.
Accepts(x, c) ==
    CASE x.is = "char" -> x.c = c
      [] x.is = "range" -> x.not # (\E r \in x.rans : r[1] <= c /\ c <= r[2])
      [] OTHER -> TRUE

\* rangeItem.match and equal: two ranges are one item of the trie when every
\* interval of each lies in an interval of the other.
Covers(x, y) == \A r \in x.rans : \E q \in y.rans : q[1] <= r[1] /\ r[2] <= q[2]

SameItem(x, y) ==
    \/ x = y
    \/ /\ x.is = "range" /\ y.is = "range"
       /\ x.not = y.not /\ Covers(x, y) /\ Covers(y, x)

-----------------------------------------------------------------------------
(* One level of the trie.                                                  *)

EmptyTrie == [paths |-> <<>>, rule |-> <<>>]

\* The item of the trie after path that x is, or x itself.
ItemAt(tr, path, x) ==
    LET known == {q \in Range(tr.paths) :
                    Len(q) = Len(path) + 1 /\ IsPrefix(path, q) /\ SameItem(Last(q), x)}
    IN IF known = {} THEN x ELSE Last(CHOOSE q \in known : TRUE)

\* The path of pattern pat as the trie spells it, item by item, or with pat's
\* own items from the first one the trie does not have.
Spell(tr, pat) == FoldLeft(LAMBDA path, x : Append(path, ItemAt(tr, path, x)), <<>>, pat)

\* Nothing may follow an asterisk.
ValidPattern(pat) == asterisk \notin Range(Front(pat))

\* The part of a pattern insert walks before it gives up.
Walked(pat) ==
    IF ValidPattern(pat) THEN pat
    ELSE SubSeq(pat, 1, CHOOSE i \in 1 .. Len(pat) :
                            pat[i] = asterisk /\ asterisk \notin Range(SubSeq(pat, 1, i - 1)))

RuleAt(tr, path) == IF path \in DOMAIN tr.rule THEN tr.rule[path] ELSE <<>>

\* The trie with every item on path.
Grow(tr, path) ==
    LET Missing == SelectSeq([i \in 1 .. Len(path) |-> SubSeq(path, 1, i)],
                             LAMBDA q : q \notin Range(tr.paths))
    IN [paths |-> tr.paths \o Missing,
        rule |-> [q \in Range(tr.paths) \cup Range(Missing) |-> RuleAt(tr, q)]]

\* insert with a rule, of a pattern that the trie spells as path.
Insertable(tr, pat, path, type) ==
    ValidPattern(pat) /\ (type = "insert" => RuleAt(tr, path) = <<>>)

StoreAt(tr, path, rule, type) ==
    [Grow(tr, path) EXCEPT !.rule[path] = IF type = "replace" THEN <<rule>> ELSE Append(@, rule)]

\* track: every item of the pattern is there.
Tracks(tr, path) == path \in Range(tr.paths)

\* The bytes of the rune that a name, or the rest of one, begins with; a byte
\* that only continues a rune counts as a rune of its own.
Continues(byte) == 128 <= byte /\ byte < 192

RuneLength(name) ==
    IF Head(name) < 192 THEN 1
    ELSE CHOOSE n \in 1 .. Len(name) :
            /\ \A i \in 2 .. n : Continues(name[i])
            /\ n < Len(name) => ~Continues(name[n + 1])

\* matchNode from the item at path.  At every rune the asterisk is taken, then
\* the question mark, the ranges in the order they were inserted and the
\* character itself, each followed to the end of the name.  A question mark and
\* a range go on at the next byte; a character, which is the first byte of the
\* rune, goes on at the next rune.
RECURSIVE MatchNode(_, _, _)
MatchNode(tr, path, name) ==
    LET Child(q) == Len(q) = Len(path) + 1 /\ IsPrefix(path, q)
        Has(kind) == SelectSeq(tr.paths, LAMBDA q :
                        Child(q) /\ Last(q).is = kind /\ Accepts(Last(q), Head(name)))
        Past(q) == IF Last(q).is = "char" THEN RuneLength(name) ELSE 1
        Follow(q) == (IF Len(name) = Past(q) THEN <<q>> ELSE <<>>)
                     \o MatchNode(tr, q, SubSeq(name, Past(q) + 1, Len(name)))
        stars == SelectSeq(tr.paths, LAMBDA q : Child(q) /\ Last(q) = asterisk)
    IN IF name = <<>> THEN stars
       ELSE stars \o FoldLeft(LAMBDA acc, q : acc \o Follow(q), <<>>,
                              Has("question") \o Has("range") \o Has("char"))

\* appendMatchedItem: the rules of the matched items, in order.
RulesAlong(tr, paths) == FoldLeft(LAMBDA acc, q : acc \o tr.rule[q], <<>>, paths)

-----------------------------------------------------------------------------
(* The selector: a trie of schema patterns, a trie of table patterns below *)
(* some of its items (nextLevel), and a cache of results.                  *)

NewTrieSelector == [root |-> EmptyTrie, next |-> <<>>, cache |-> <<>>]

clearCache(sel) == [sel EXCEPT !.cache = <<>>]

\* The trie below an item of the schemas' trie.
TableLevel(sel, path) == IF path \in DOMAIN sel.next THEN sel.next[path] ELSE EmptyTrie

\* insertSchema.  A rule that is refused leaves its items in the trie; only one
\* that is stored clears the cache.
insertSchema(sel, schema, path, rule, type) ==
    IF Insertable(sel.root, schema, path, type)
    THEN clearCache([sel EXCEPT !.root = StoreAt(@, path, rule, type)])
    ELSE [sel EXCEPT !.root = Grow(@, path)]

\* Mutant: a rule that is added below a schema does not clear the cache.
MutInsertTable(sel, path, table, below, rule, type) ==
    [sel EXCEPT !.root = Grow(@, path),
                !.next = (path :> StoreAt(TableLevel(sel, path), below, rule, type)) @@ @]

\* insertTable, of a schema that was walked to path, without a rule.
insertTable(sel, path, table, below, rule, type) ==
    IF Insertable(TableLevel(sel, path), table, below, type)
    THEN clearCache([sel EXCEPT !.root = Grow(@, path),
                        !.next = (path :> StoreAt(TableLevel(sel, path), below, rule, type)) @@ @])
    ELSE [sel EXCEPT !.root = Grow(@, path),
                     !.next = (path :> Grow(TableLevel(sel, path), below)) @@ @]

\* Insert: without a table pattern the rule belongs to the schema, and a schema
\* pattern that is not valid ends it.
InsertRule(sel, schema, table, rule, type) ==
    IF table = <<>> \/ ~ValidPattern(schema)
    THEN insertSchema(sel, schema, Spell(sel.root, Walked(schema)), rule, type)
    ELSE LET path == Spell(sel.root, schema)
         IN insertTable(sel, path, table, Spell(TableLevel(sel, path), Walked(table)), rule, type)

removeSchema(sel, path) ==
    IF Tracks(sel.root, path) /\ RuleAt(sel.root, path) # <<>>
    THEN clearCache([sel EXCEPT !.root.rule[path] = <<>>]) ELSE sel

removeTable(sel, path, below) ==
    IF Tracks(TableLevel(sel, path), below) /\ RuleAt(TableLevel(sel, path), below) # <<>>
    THEN clearCache([sel EXCEPT !.next[path].rule[below] = <<>>]) ELSE sel

\* Remove: the rules of a pattern, not its items.
RemoveRules(sel, schema, table) ==
    LET path == Spell(sel.root, schema)
    IN IF table = <<>> THEN removeSchema(sel, path)
       ELSE removeTable(sel, path, Spell(TableLevel(sel, path), table))

\* Match without its cache: the rules of the schema, then those of the tables
\* below every schema item that matches.
FindRules(sel, schema, table) ==
    LET matched == MatchNode(sel.root, <<>>, schema)
        below == SelectSeq(matched, LAMBDA q : q \in DOMAIN sel.next)
    IN FoldLeft(LAMBDA acc, q :
                    acc \o RulesAlong(sel.next[q], MatchNode(sel.next[q], <<>>, table)),
                RulesAlong(sel.root, matched), below)

Cached(sel, schema, table) == <<schema, table>> \in DOMAIN sel.cache

\* addToCache: over the limit any entry is dropped, the new one too.
CacheStates(sel, schema, table) ==
    LET cache == (<<schema, table>> :> FindRules(sel, schema, table)) @@ sel.cache
        kept == IF Cardinality(DOMAIN cache) <= MaxCacheNum THEN {DOMAIN cache}
                ELSE {DOMAIN cache \ {k} : k \in DOMAIN cache}
    IN {[sel EXCEPT !.cache = Restrict(cache, K)] : K \in kept}

\* AllRules, with travel: every pattern that holds rules.
AllRules(sel) ==
    {<<p, <<>>, sel.root.rule[p]>> : p \in {q \in DOMAIN sel.root.rule : sel.root.rule[q] # <<>>}}
    \cup UNION {{<<p, q, sel.next[p].rule[q]>> :
                    q \in {t \in DOMAIN sel.next[p].rule : sel.next[p].rule[t] # <<>>}} :
                p \in DOMAIN sel.next}

-----------------------------------------------------------------------------
(* What a pattern means.  Match goes from rune to rune where the rest goes  *)
(* from byte to byte, so that it never comes to the second byte of a       *)
(* character that the pattern spells: such a pattern means no name.        *)

Glob(pat, name) ==
    LET fixed == IF pat # <<>> /\ Last(pat) = asterisk THEN Front(pat) ELSE pat
    IN /\ \A i \in DOMAIN pat : pat[i].is = "char" => pat[i].c < 128
       /\ IF fixed = pat THEN Len(name) = Len(pat) ELSE Len(name) >= Len(fixed)
       /\ \A i \in 1 .. Len(fixed) : i <= Len(name) /\ Accepts(fixed[i], name[i])

\* How many times Match should return rule: once for every pattern that holds
\* it and matches the names.  A schema rule is matched whatever the table.
Occurrences(rules, rule) == Cardinality({i \in DOMAIN rules : rules[i] = rule})

Expected(sel, schema, table) ==
    {e \in AllRules(sel) : Glob(e[1], schema) /\ (e[2] # <<>> => Glob(e[2], table))}

MatchesExactly(sel, schema, table, rules, Rules) ==
    \A rule \in Rules :
        Occurrences(rules, rule)
          = FoldLeft(LAMBDA n, e : n + Occurrences(e[3], rule), 0,
                     SetToSeq(Expected(sel, schema, table)))
=============================================================================
